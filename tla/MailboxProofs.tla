--------------------------- MODULE MailboxProofs ----------------------------
(***************************************************************************)
(* The ring buffer implements the bounded queue, for every size; and what  *)
(* is left of that when the keyboard interrupt falls into a call.          *)
(***************************************************************************)
EXTENDS Mailbox, MailboxRace, TLAPS

\* One turn around the ring, in place of the remainder.
LEMMA ModRing ==
  ASSUME NEW n \in Nat \ {0}, NEW a \in 0 .. n - 1, NEW k \in 0 .. n
  PROVE  (a + k) % n = IF a + k < n THEN a + k ELSE a + k - n
<1>1. CASE a + k < n
  BY <1>1
<1>2. CASE a + k >= n
  BY <1>2
<1> QED BY <1>1, <1>2

IInv == TypeOK /\ RingConsistent

\* A slot stands for a message of the queue.
LEMMA SlotMessage ==
  ASSUME NEW s \in Slot
  PROVE  Message(s) \in Messages
<1>1. s.length \in 0 .. IPC_MAX_DATA /\ s.data \in [0 .. IPC_MAX_DATA - 1 -> Bytes]
      /\ s.sender_pid \in Pids /\ s.type \in Types
  BY DEF Slot
<1>2. [i \in 1 .. s.length |-> s.data[i - 1]] \in [1 .. s.length -> Bytes]
  BY <1>1, MailboxAssumption, RingAssumption
<1>3. [i \in 1 .. s.length |-> s.data[i - 1]] \in Strings(IPC_MAX_DATA)
  BY <1>1, <1>2 DEF Strings
<1> QED BY <1>1, <1>3 DEF Message, Messages

\* Copying a message into a slot gives a slot again.
LEMMA FilledSlot ==
  ASSUME NEW old \in Slot, NEW p \in Pids, NEW t \in Types,
         NEW len \in 0 .. IPC_MAX_DATA, NEW d, \A j \in 0 .. len - 1 : d[j] \in Bytes
  PROVE  Filled(old, p, t, len, d) \in Slot
<1>1. old.data \in [0 .. IPC_MAX_DATA - 1 -> Bytes]
  BY DEF Slot
<1>2. ASSUME NEW j \in 0 .. IPC_MAX_DATA - 1
      PROVE  (IF j < len THEN d[j] ELSE old.data[j]) \in Bytes
  <2>1. CASE j < len
    <3>1. j \in 0 .. len - 1
      BY <2>1, MailboxAssumption, RingAssumption
    <3> QED BY <2>1, <3>1
  <2>2. CASE ~(j < len)
    BY Zenon, <1>1, <2>2
  <2> QED BY <2>1, <2>2
<1>3. [j \in 0 .. IPC_MAX_DATA - 1 |-> IF j < len THEN d[j] ELSE old.data[j]]
        \in [0 .. IPC_MAX_DATA - 1 -> Bytes]
  BY <1>2
<1> QED BY <1>3 DEF Filled, Slot

\* What a sender passes is an offer.
LEMMA OfferMade ==
  ASSUME NEW p \in Pids, NEW t \in Types, NEW len \in 0 .. MaxLen, NEW d,
         \A j \in 0 .. len - 1 : d[j] \in Bytes
  PROVE  Offer(p, t, len, d) \in Offers
<1>1. [i \in 1 .. len |-> d[i - 1]] \in [1 .. len -> Bytes]
  BY MailboxAssumption, RingAssumption
<1>2. [i \in 1 .. len |-> d[i - 1]] \in Strings(MaxLen)
  BY <1>1 DEF Strings
<1> QED BY <1>2 DEF Offer, Offers

\* The slot filled from an offer stands for the offer cut to IPC_MAX_DATA
\* bytes, whatever the slot held before.
LEMMA FilledIsCut ==
  ASSUME NEW old \in Slot, NEW p, NEW t, NEW len \in Nat, NEW d
  PROVE  Message(Filled(old, p, t, Clamp(len), d)) = Queue!Cut(Offer(p, t, len, d))
<1> DEFINE c == Clamp(len)
           f == [j \in 0 .. IPC_MAX_DATA - 1 |-> IF j < c THEN d[j] ELSE old.data[j]]
           o == [i \in 1 .. len |-> d[i - 1]]
<1>1. c \in 0 .. IPC_MAX_DATA /\ c \in 0 .. len /\ IPC_MAX_DATA \in Nat
      /\ c = IF len > IPC_MAX_DATA THEN IPC_MAX_DATA ELSE len
  BY MailboxAssumption, RingAssumption DEF Clamp
<1>2. Len(o) = len
  OBVIOUS
<1>3. ASSUME NEW i \in 1 .. c
      PROVE  f[i - 1] = o[i]
  <2>1. i - 1 \in 0 .. IPC_MAX_DATA - 1 /\ i - 1 < c /\ i \in 1 .. len
    BY <1>1
  <2> QED BY <2>1
<1> HIDE DEF c
<1>4. Message(Filled(old, p, t, c, d)) =
        [sender_pid |-> p, type |-> t, data |-> [i \in 1 .. c |-> f[i - 1]]]
  BY DEF Message, Filled
<1>5. Queue!Cut(Offer(p, t, len, d)) =
        [sender_pid |-> p, type |-> t, data |-> [i \in 1 .. c |-> o[i]]]
  BY <1>1, <1>2 DEF Queue!Cut, Offer
<1>6. [i \in 1 .. c |-> f[i - 1]] = [i \in 1 .. c |-> o[i]]
  <2> HIDE DEF f, o
  <2> QED BY <1>3
<1> HIDE DEF f, o
<1> QED BY <1>4, <1>5, <1>6 DEF c

\* The waiting messages form a sequence as long as the count says.
LEMMA WaitingSeq ==
  ASSUME TypeOK
  PROVE  Waiting \in Seq(Messages) /\ Len(Waiting) = ipc_count
<1>1. ipc_count \in Nat /\ IPC_QUEUE_SIZE \in Nat \ {0} /\ ipc_tail \in Nat
  BY MailboxAssumption, RingAssumption DEF TypeOK, Index
<1>2. ASSUME NEW k \in 1 .. ipc_count
      PROVE  Message(ipc_queue[(ipc_tail + k - 1) % IPC_QUEUE_SIZE]) \in Messages
  <2>1. ipc_tail + k - 1 \in Nat
    BY <1>1
  <2>2. (ipc_tail + k - 1) % IPC_QUEUE_SIZE \in Index
    BY <1>1, <2>1 DEF Index
  <2> QED BY <2>2, SlotMessage DEF TypeOK
<1>3. Waiting \in [1 .. ipc_count -> Messages]
  BY <1>2 DEF Waiting
<1> QED BY <1>1, <1>3

\* Accepting a message appends it and keeps the ring consistent.
LEMMA EnqueueStep ==
  ASSUME IInv, ipc_count < IPC_QUEUE_SIZE,
         NEW p \in Pids, NEW t \in Types,
         NEW len \in 0 .. IPC_MAX_DATA, NEW d, \A j \in 0 .. len - 1 : d[j] \in Bytes,
         Enqueue(p, t, len, d)
  PROVE  IInv' /\ Waiting' = Append(Waiting, Message(Filled(ipc_queue[ipc_head], p, t, len, d)))
<1> DEFINE N == IPC_QUEUE_SIZE
           s == Filled(ipc_queue[ipc_head], p, t, len, d)
<1>1. /\ N \in Nat \ {0} /\ ipc_head \in 0 .. N - 1 /\ ipc_tail \in 0 .. N - 1
      /\ ipc_count \in 0 .. N - 1 /\ ipc_queue \in [Index -> Slot]
      /\ ipc_head = (ipc_tail + ipc_count) % N
  BY MailboxAssumption, RingAssumption DEF IInv, TypeOK, RingConsistent, Index
<1>2. s \in Slot
  <2>1. ipc_queue[ipc_head] \in Slot
    BY <1>1 DEF Index
  <2> QED BY <2>1, FilledSlot
<1>3. /\ ipc_queue' = [ipc_queue EXCEPT ![ipc_head] = s]
      /\ ipc_head' = (ipc_head + 1) % N
      /\ ipc_count' = ipc_count + 1
      /\ ipc_tail' = ipc_tail
  BY DEF Enqueue
<1> HIDE DEF s
<1>4. TypeOK'
  <2>1. ipc_queue' \in [Index -> Slot]
    BY Zenon, <1>1, <1>2, <1>3
  <2>2. ipc_head' \in Index
    BY <1>1, <1>3 DEF Index
  <2>3. ipc_count' \in 0 .. N
    BY <1>1, <1>3
  <2> QED BY <1>1, <1>3, <2>1, <2>2, <2>3 DEF TypeOK, Index
<1>5. /\ (ipc_tail + ipc_count) % N = IF ipc_tail + ipc_count < N
                                       THEN ipc_tail + ipc_count ELSE ipc_tail + ipc_count - N
      /\ (ipc_tail + (ipc_count + 1)) % N = IF ipc_tail + (ipc_count + 1) < N
              THEN ipc_tail + (ipc_count + 1) ELSE ipc_tail + (ipc_count + 1) - N
      /\ (ipc_head + 1) % N = IF ipc_head + 1 < N THEN ipc_head + 1 ELSE ipc_head + 1 - N
  <2>1. ipc_count \in 0 .. N /\ ipc_count + 1 \in 0 .. N /\ 1 \in 0 .. N
    BY <1>1
  <2> HIDE DEF N
  <2> QED BY Zenon, <1>1, <2>1, ModRing
<1>6. RingConsistent'
  BY <1>1, <1>3, <1>5 DEF RingConsistent
<1>7. Waiting' = Append(Waiting, Message(s))
  <2>1. Waiting' \in Seq(Messages) /\ Len(Waiting') = ipc_count + 1
    <3>1. (Waiting \in Seq(Messages) /\ Len(Waiting) = ipc_count)'
      BY <1>4, WaitingSeq, PTL
    <3> QED BY <1>3, <3>1
  <2>2. Waiting \in Seq(Messages) /\ Len(Waiting) = ipc_count /\ Message(s) \in Messages
    BY <1>2, WaitingSeq, SlotMessage DEF IInv
  <2>3. ASSUME NEW k \in 1 .. ipc_count + 1
        PROVE  Waiting'[k] = Append(Waiting, Message(s))[k]
    <3>1. /\ k - 1 \in 0 .. N
          /\ ipc_tail + k - 1 = ipc_tail + (k - 1)
      BY <1>1
    <3>2. (ipc_tail + (k - 1)) % N = IF ipc_tail + (k - 1) < N
                                     THEN ipc_tail + (k - 1) ELSE ipc_tail + (k - 1) - N
      <4> HIDE DEF N
      <4> QED BY Zenon, <1>1, <3>1, ModRing
    <3>3. Waiting'[k] = Message(ipc_queue'[(ipc_tail + k - 1) % N])
      BY <1>3 DEF Waiting
    <3>4. CASE k = ipc_count + 1
      <4>1. (ipc_tail + k - 1) % N = ipc_head
        BY <1>1, <3>1, <3>4
      <4>2. ipc_queue'[ipc_head] = s
        BY <1>1, <1>3 DEF Index
      <4> QED BY <2>2, <3>3, <3>4, <4>1, <4>2
    <3>5. CASE k # ipc_count + 1
      <4>1. k \in 1 .. ipc_count
        BY <1>1, <3>5
      <4>2. (ipc_tail + k - 1) % N \in Index /\ (ipc_tail + k - 1) % N # ipc_head
        <5> DEFINE r == (ipc_tail + k - 1) % N
        <5>1. r = IF ipc_tail + (k - 1) < N THEN ipc_tail + (k - 1) ELSE ipc_tail + (k - 1) - N
          BY <3>1, <3>2
        <5>2. ipc_head = IF ipc_tail + ipc_count < N
                         THEN ipc_tail + ipc_count ELSE ipc_tail + ipc_count - N
          BY <1>1, <1>5
        <5>3. k \in 1 .. ipc_count /\ N \in Nat \ {0} /\ ipc_tail \in 0 .. N - 1
              /\ ipc_count \in 0 .. N - 1
          BY <1>1, <4>1
        <5> HIDE DEF r, N
        <5>4. r \in 0 .. N - 1
          BY <5>1, <5>3
        <5>5. r # ipc_head
          BY <5>1, <5>2, <5>3
        <5> QED BY <5>4, <5>5 DEF r, N, Index
      <4>3. Waiting[k] = Message(ipc_queue[(ipc_tail + k - 1) % N])
        BY <4>1 DEF Waiting
      <4> QED BY <1>1, <1>3, <2>2, <3>3, <4>1, <4>2, <4>3
    <3> QED BY Zenon, <3>4, <3>5
  <2>4. Append(Waiting, Message(s)) \in Seq(Messages)
        /\ Len(Append(Waiting, Message(s))) = ipc_count + 1
    BY <2>2
  <2> QED BY <2>1, <2>3, <2>4
<1> QED BY <1>4, <1>6, <1>7 DEF IInv, s

\* Receiving returns the oldest message and removes it.
LEMMA RecvStep ==
  ASSUME IInv, ipc_count # 0, sys_recv
  PROVE  /\ IInv'
         /\ Waiting # <<>>
         /\ Waiting' = Tail(Waiting)
         /\ Message(ipc_queue[ipc_tail]) = Head(Waiting)
<1> DEFINE N == IPC_QUEUE_SIZE
<1>1. /\ N \in Nat \ {0} /\ ipc_head \in 0 .. N - 1 /\ ipc_tail \in 0 .. N - 1
      /\ ipc_count \in 1 .. N /\ ipc_queue \in [Index -> Slot]
      /\ ipc_head = (ipc_tail + ipc_count) % N
  BY MailboxAssumption, RingAssumption DEF IInv, TypeOK, RingConsistent, Index
<1>2. /\ ipc_tail' = (ipc_tail + 1) % N
      /\ ipc_count' = ipc_count - 1
      /\ ipc_queue' = ipc_queue /\ ipc_head' = ipc_head
  BY DEF sys_recv
<1>3. ipc_tail' = IF ipc_tail + 1 < N THEN ipc_tail + 1 ELSE ipc_tail + 1 - N
  <2>1. 1 \in 0 .. N
    BY <1>1
  <2> HIDE DEF N
  <2> QED BY Zenon, <1>1, <1>2, <2>1, ModRing
<1>4. ipc_tail' \in 0 .. N - 1
  <2> HIDE DEF N
  <2> QED BY <1>1, <1>3
<1>5. TypeOK'
  <2>1. ipc_count' \in 0 .. N
    BY <1>1, <1>2
  <2> QED BY <1>1, <1>2, <1>4, <2>1 DEF TypeOK, Index
<1>6. ASSUME NEW k \in 0 .. ipc_count - 1
      PROVE  (ipc_tail' + k) % N = (ipc_tail + (k + 1)) % N
  <2>1. k \in 0 .. N /\ k + 1 \in 0 .. N
    BY <1>1
  <2> HIDE DEF N
  <2>2. (ipc_tail + (k + 1)) % N = IF ipc_tail + (k + 1) < N
                                   THEN ipc_tail + (k + 1) ELSE ipc_tail + (k + 1) - N
    BY Zenon, <1>1, <2>1, ModRing
  <2>3. (ipc_tail' + k) % N = IF ipc_tail' + k < N THEN ipc_tail' + k ELSE ipc_tail' + k - N
    BY Zenon, <1>1, <1>4, <2>1, ModRing
  <2> QED BY <1>1, <1>3, <1>4, <2>1, <2>2, <2>3
<1>7. RingConsistent'
  <2>1. (ipc_tail' + (ipc_count - 1)) % N = (ipc_tail + ((ipc_count - 1) + 1)) % N
    BY <1>1, <1>6
  <2>2. (ipc_count - 1) + 1 = ipc_count
    BY <1>1
  <2> QED BY <1>1, <1>2, <2>1, <2>2 DEF RingConsistent
<1>8. Waiting \in Seq(Messages) /\ Len(Waiting) = ipc_count
  BY WaitingSeq DEF IInv
<1>9. Message(ipc_queue[ipc_tail]) = Head(Waiting)
  <2>1. 1 \in 1 .. ipc_count /\ (ipc_tail + 1 - 1) % N = ipc_tail
    BY <1>1
  <2>2. Waiting[1] = Message(ipc_queue[ipc_tail])
    BY <2>1 DEF Waiting
  <2> QED BY <1>1, <1>8, <2>2
<1>10. Waiting' = Tail(Waiting)
  <2>1. Waiting' \in Seq(Messages) /\ Len(Waiting') = ipc_count - 1
    <3>1. (Waiting \in Seq(Messages) /\ Len(Waiting) = ipc_count)'
      BY <1>5, WaitingSeq, PTL
    <3> QED BY <1>2, <3>1
  <2>2. Tail(Waiting) \in Seq(Messages) /\ Len(Tail(Waiting)) = ipc_count - 1
    BY <1>1, <1>8
  <2>3. ASSUME NEW k \in 1 .. ipc_count - 1
        PROVE  Waiting'[k] = Tail(Waiting)[k]
    <3>1. /\ k - 1 \in 0 .. ipc_count - 1 /\ k + 1 \in 1 .. ipc_count
          /\ ipc_tail' + k - 1 = ipc_tail' + (k - 1)
          /\ ipc_tail + (k + 1) - 1 = ipc_tail + ((k - 1) + 1)
      BY <1>1, <1>4
    <3>2. (ipc_tail' + k - 1) % N = (ipc_tail + (k + 1) - 1) % N
      BY <1>6, <3>1
    <3>3. Waiting'[k] = Message(ipc_queue[(ipc_tail' + k - 1) % N])
      BY <1>2 DEF Waiting
    <3>4. Waiting[k + 1] = Message(ipc_queue[(ipc_tail + (k + 1) - 1) % N])
      BY <3>1 DEF Waiting
    <3>5. Tail(Waiting)[k] = Waiting[k + 1]
      BY <1>1, <1>8
    <3> QED BY Zenon, <3>2, <3>3, <3>4, <3>5
  <2> QED BY <2>1, <2>2, <2>3
<1>11. Waiting # <<>>
  BY <1>1, <1>8
<1> QED BY <1>5, <1>7, <1>9, <1>10, <1>11 DEF IInv

\* Every step keeps the ring consistent and is a step of the queue.
LEMMA MailboxStep ==
  ASSUME IInv, [Next]_vars
  PROVE  IInv' /\ [Queue!Next]_<<Waiting, offer, reply>>
<1>1. Len(Waiting) = ipc_count /\ Waiting \in Seq(Messages) /\ ipc_count \in 0 .. IPC_QUEUE_SIZE
      /\ IPC_QUEUE_SIZE \in Nat
  BY WaitingSeq, MailboxAssumption, RingAssumption DEF IInv, TypeOK
<1>2. ASSUME UNCHANGED <<ipc_queue, ipc_head, ipc_tail, ipc_count>>
      PROVE  IInv' /\ Waiting' = Waiting
  BY <1>2 DEF IInv, TypeOK, RingConsistent, Waiting, Index, Slot
<1>slot. ipc_queue[ipc_head] \in Slot
  BY DEF IInv, TypeOK
<1>3. ASSUME NEW p \in Pids, NEW t \in Types, NEW len \in 0 .. MaxLen, NEW d \in Data,
             sys_send(p, t, len, d)
      PROVE  IInv' /\ [Queue!Next]_<<Waiting, offer, reply>>
  <2>1. /\ Clamp(len) \in 0 .. IPC_MAX_DATA /\ \A j \in 0 .. Clamp(len) - 1 : d[j] \in Bytes
        /\ \A j \in 0 .. len - 1 : d[j] \in Bytes
        /\ len \in Nat
    BY MailboxAssumption, RingAssumption DEF Clamp, Data
  <2>2. offer' = Offer(p, t, len, d) /\ offer' \in Offers
    BY <1>3, <2>1, OfferMade DEF sys_send
  <2>3. CASE ipc_count >= IPC_QUEUE_SIZE
    <3>1. UNCHANGED <<ipc_queue, ipc_head, ipc_tail, ipc_count>> /\ Return(-1, NoMessage)
      BY <1>3, <2>3 DEF sys_send
    <3>2. Len(Waiting) = IPC_QUEUE_SIZE
      BY <1>1, <2>3
    <3> QED BY <1>2, <2>2, <3>1, <3>2 DEF Queue!Next, Queue!Refuse, Queue!Return, Return
  <2>4. CASE ~(ipc_count >= IPC_QUEUE_SIZE)
    <3>1. Return(0, NoMessage) /\ Enqueue(p, t, Clamp(len), d)
      BY <1>3, <2>4 DEF sys_send
    <3>2. ipc_count < IPC_QUEUE_SIZE
      BY <1>1, <2>4
    <3>3. IInv' /\ Waiting' = Append(Waiting,
                         Message(Filled(ipc_queue[ipc_head], p, t, Clamp(len), d)))
      BY <2>1, <3>1, <3>2, EnqueueStep
    <3>4. Waiting' = Append(Waiting, Queue!Cut(offer'))
      BY <1>slot, <2>1, <2>2, <3>3, FilledIsCut
    <3> QED BY <1>1, <2>2, <3>1, <3>2, <3>3, <3>4 DEF Queue!Next, Queue!Put, Queue!Return, Return
  <2> QED BY <2>3, <2>4
<1>4. ASSUME NEW sc \in Bytes, keyboard_irq(sc)
      PROVE  IInv' /\ [Queue!Next]_<<Waiting, offer, reply>>
  <2> DEFINE d == [i \in {0} |-> sc]
  <2>1. /\ 1 \in 0 .. IPC_MAX_DATA /\ 1 \in 0 .. MaxLen /\ 1 \in Nat /\ Clamp(1) = 1
        /\ 0 \in Pids /\ 0 \in Types
    BY MailboxAssumption, RingAssumption DEF Clamp
  <2>2. \A j \in 0 .. 1 - 1 : d[j] \in Bytes
    OBVIOUS
  <2>3. /\ ipc_count < IPC_QUEUE_SIZE /\ UNCHANGED reply /\ Enqueue(0, 0, 1, d)
        /\ offer' = Offer(0, 0, 1, d)
    BY <1>4 DEF keyboard_irq
  <2> HIDE DEF d
  <2>4. offer' \in Offers
    BY <2>1, <2>2, <2>3, OfferMade
  <2>5. IInv' /\ Waiting' = Append(Waiting, Message(Filled(ipc_queue[ipc_head], 0, 0, 1, d)))
    BY <2>1, <2>2, <2>3, EnqueueStep
  <2>6. Waiting' = Append(Waiting, Queue!Cut(offer'))
    <3>1. Message(Filled(ipc_queue[ipc_head], 0, 0, Clamp(1), d)) = Queue!Cut(Offer(0, 0, 1, d))
      BY <1>slot, <2>1, FilledIsCut
    <3> QED BY Zenon, <2>1, <2>3, <2>5, <3>1
  <2> QED BY <1>1, <2>3, <2>4, <2>5, <2>6 DEF Queue!Next, Queue!Put
<1>5. CASE sys_recv
  <2>1. CASE ipc_count = 0
    <3>1. UNCHANGED <<ipc_queue, ipc_head, ipc_tail, ipc_count>> /\ UNCHANGED offer
          /\ Return(-1, NoMessage)
      BY <1>5, <2>1 DEF sys_recv
    <3>2. Waiting = <<>>
      BY <1>1, <2>1
    <3> QED BY <1>2, <3>1, <3>2 DEF Queue!Next, Queue!Empty, Queue!Return, Return
  <2>2. CASE ipc_count # 0
    <3>1. Return(0, Message(ipc_queue[ipc_tail])) /\ UNCHANGED offer
      BY <1>5, <2>2 DEF sys_recv
    <3> QED BY <1>5, <2>2, <3>1, RecvStep DEF Queue!Next, Queue!Get, Queue!Return, Return
  <2> QED BY <2>1, <2>2
<1>6. CASE UNCHANGED vars
  BY <1>2, <1>6 DEF vars
<1> QED BY <1>3, <1>4, <1>5, <1>6 DEF Next

LEMMA MailboxInit == Init => IInv /\ Queue!Init
<1> SUFFICES ASSUME Init PROVE IInv /\ Queue!Init
  OBVIOUS
<1>1. IPC_QUEUE_SIZE \in Nat \ {0} /\ 0 \in Index /\ 0 % IPC_QUEUE_SIZE = 0
  BY MailboxAssumption, RingAssumption DEF Index
<1>2. [sender_pid |-> 0, type |-> 0, length |-> 0,
       data |-> [j \in 0 .. IPC_MAX_DATA - 1 |-> 0]] \in Slot
  BY MailboxAssumption, RingAssumption DEF Slot
<1>3. IInv
  BY <1>1, <1>2 DEF Init, IInv, TypeOK, RingConsistent
<1>4. Waiting = <<>>
  BY <1>1 DEF Init, Waiting
<1> QED BY <1>3, <1>4 DEF Queue!Init, Init

LEMMA MailboxInv == Spec => []IInv
<1>1. IInv /\ [Next]_vars => IInv'
  BY MailboxStep
<1> QED BY <1>1, MailboxInit, PTL DEF Spec

\* For every queue size: the indices and ipc_count stay in range, and no slot has
\* a length beyond IPC_MAX_DATA, whatever lengths sys_send is given (task.c:167).
THEOREM MailboxTypes == Spec => []TypeOK
<1>1. IInv => TypeOK
  BY DEF IInv
<1> QED BY <1>1, MailboxInv, PTL

\* For every queue size: ipc_count agrees with the two indices after any sequence
\* of sends, receives and scancodes.
THEOREM RingCorrect == Spec => []RingConsistent
<1>1. IInv => RingConsistent
  BY DEF IInv
<1> QED BY <1>1, MailboxInv, PTL

\* For every queue size and message: the ring buffer is the bounded FIFO
\* queue that sys_send and sys_recv are documented to be.
THEOREM MailboxImplementsQueue == Spec => IsMessageQueue
<1>1. IInv /\ [Next]_vars => IInv' /\ [Queue!Next]_<<Waiting, offer, reply>>
  BY MailboxStep
<1> QED BY <1>1, MailboxInit, PTL DEF Spec, IsMessageQueue, Queue!Spec

-----------------------------------------------------------------------------
(* The same ring with the interrupt inside sys_send and sys_recv: the      *)
(* count of a mailbox and the order of its messages.                       *)

Sending == {"send_slot", "send_copy", "send_load_head", "send_store_head",
            "send_load_count", "send_store_count"}

\* The interrupt only raises ipc_count, and not above IPC_QUEUE_SIZE, so what
\* a call tested when it began still holds at its store; a register loaded
\* earlier is smaller than the count but satisfies the same bounds.
RaceInv ==
  /\ CountInRange
  /\ pc \in {"user", "recv_copy", "recv_load", "recv_store"} \cup Sending
  /\ pc \in {"recv_copy", "recv_load"} => ipc_count >= 1
  /\ pc = "recv_store" => reg \in 1 .. IPC_QUEUE_SIZE + 1
  /\ pc \in Sending => ipc_count <= IPC_QUEUE_SIZE
  /\ pc = "send_store_head" => reg \in Index
  /\ pc = "send_store_count" => reg \in 0 .. IPC_QUEUE_SIZE

\* The next position in the ring is a position in the ring.
LEMMA AfterInIndex == ASSUME NEW i \in Index PROVE After(i) \in Index
  BY RingAssumption DEF After, Index

LEMMA RaceStep == RaceInv /\ [RaceNext]_race_vars => RaceInv'
<1> SUFFICES ASSUME RaceInv, [RaceNext]_race_vars PROVE RaceInv'
  OBVIOUS
<1> USE RingAssumption DEF RaceInv, CountInRange, Sending
<1>1. CASE keyboard_irq_inside
  BY <1>1, AfterInIndex DEF keyboard_irq_inside
<1>2. CASE recv_check
  BY <1>2 DEF recv_check, ring
<1>3. CASE recv_copy
  BY <1>3, AfterInIndex DEF recv_copy
<1>4. CASE recv_load
  BY <1>4 DEF recv_load, ring
<1>5. CASE recv_store
  BY <1>5 DEF recv_store
<1>6. CASE send_check
  BY <1>6 DEF send_check, ring
<1>7. CASE send_slot \/ send_copy
  BY <1>7 DEF send_slot, send_copy, ring
<1>8. CASE send_load_head
  BY <1>8 DEF send_load_head, ring
<1>9. CASE send_store_head
  BY <1>9, AfterInIndex DEF send_store_head
<1>10. CASE send_load_count
  BY <1>10 DEF send_load_count, ring
<1>11. CASE send_store_count
  BY <1>11 DEF send_store_count
<1>12. CASE UNCHANGED race_vars
  BY <1>12 DEF race_vars, ring
<1> QED
  BY <1>1, <1>2, <1>3, <1>4, <1>5, <1>6, <1>7, <1>8, <1>9, <1>10, <1>11, <1>12 DEF RaceNext

\* For every queue size: the u32 ipc_count never wraps below 0, and exceeds
\* the queue by at most one message, wherever the keyboard interrupt falls.
THEOREM CountCorrect == RaceSpec => []CountInRange
<1>1. RaceInit => RaceInv
  BY RingAssumption DEF RaceInit, RaceInv, CountInRange, Index, Sending
<1>2. RaceInv => CountInRange
  BY DEF RaceInv
<1> QED BY <1>1, <1>2, RaceStep, PTL DEF RaceSpec

-----------------------------------------------------------------------------
(* Scancodes only, and no more than the queue holds.                       *)

\* sys_recv is behind the copy: the message is out, the count not yet stored.
Taken == IF pc \in {"recv_load", "recv_store"} THEN 1 ELSE 0

\* What of the count a store will write or has written: an interrupt between
\* the load and the store is lost.
Counted == IF pc = "recv_store" THEN reg ELSE ipc_count

\* Nothing has wrapped around: the k-th message is k and lies in slot k - 1,
\* the ring's indices are the numbers of messages put in and taken out, and
\* the count never promises more messages than there are.
Unwrapped ==
  /\ issued \in Nat /\ sending \in Nat /\ copied \in Nat
  /\ ipc_queue \in [Index -> Nat]
  /\ accepted \in Seq(Nat) /\ received \in Seq(Nat)
  /\ sending = 0 /\ issued <= IPC_QUEUE_SIZE =>
       /\ pc \notin Sending
       /\ Len(accepted) = issued
       /\ \A k \in 1 .. issued : accepted[k] = k /\ ipc_queue[k - 1] = k
       /\ \A j \in 1 .. Len(received) : received[j] = j
       /\ ipc_head = issued % IPC_QUEUE_SIZE
       /\ ipc_tail = (Len(received) + Taken) % IPC_QUEUE_SIZE
       /\ Taken = 1 => copied = Len(received) + 1
       /\ Counted + Len(received) <= issued

\* Numbers below the size of the ring are their own remainders.
LEMMA SmallMod == \A i \in Index : i % IPC_QUEUE_SIZE = i
  BY RingAssumption DEF Index

\* Only a step of sys_send sets sending, and never to 0.
LEMMA OrderStep == RaceInv /\ Unwrapped /\ [RaceNext]_race_vars => Unwrapped'
<1> SUFFICES ASSUME RaceInv, Unwrapped, [RaceNext]_race_vars PROVE Unwrapped'
  OBVIOUS
<1> DEFINE Few == sending = 0 /\ issued <= IPC_QUEUE_SIZE
<1>0. /\ IPC_QUEUE_SIZE \in Nat \ {0} /\ ipc_head \in Index /\ ipc_tail \in Index
      /\ ipc_count \in Nat /\ Len(received) \in Nat /\ Len(accepted) \in Nat
  BY RingAssumption DEF RaceInv, CountInRange, Unwrapped
<1>1. CASE keyboard_irq_inside
  <2>1. /\ issued' = issued + 1 /\ UNCHANGED <<ipc_tail, pc, reg, sending, copied, received>>
        /\ ipc_queue' = [ipc_queue EXCEPT ![ipc_head] = issued + 1]
        /\ ipc_head' = After(ipc_head) /\ ipc_count' = ipc_count + 1
        /\ accepted' = Append(accepted, issued + 1)
    BY <1>1 DEF keyboard_irq_inside
  <2>2. /\ issued' \in Nat /\ sending' \in Nat /\ copied' \in Nat /\ issued + 1 \in Nat
        /\ ipc_queue' \in [Index -> Nat] /\ accepted' \in Seq(Nat) /\ received' \in Seq(Nat)
    <3>1. /\ issued \in Nat /\ sending \in Nat /\ copied \in Nat
          /\ ipc_queue \in [Index -> Nat] /\ accepted \in Seq(Nat) /\ received \in Seq(Nat)
      BY DEF Unwrapped
    <3>2. issued + 1 \in Nat
      BY <3>1
    <3>3. accepted' \in Seq(Nat)
      BY <2>1, <3>1, <3>2
    <3>4. ipc_queue' \in [Index -> Nat]
      BY <2>1, <3>1, <3>2
    <3> QED BY <2>1, <3>1, <3>2, <3>3, <3>4
  <2>3. ASSUME sending = 0, issued + 1 <= IPC_QUEUE_SIZE
        PROVE  /\ Few /\ issued \in Index /\ ipc_head = issued /\ pc \notin Sending
               /\ Len(accepted) = issued
    <3>1. issued \in Index
      BY <1>0, <2>3 DEF Unwrapped, Index
    <3>2. Few
      BY <1>0, <2>3, <3>1 DEF Index
    <3> QED BY <3>1, <3>2, SmallMod DEF Unwrapped
  <2>4. ASSUME sending = 0, issued + 1 <= IPC_QUEUE_SIZE
        PROVE  /\ Len(accepted') = issued + 1
               /\ \A k \in 1 .. issued + 1 : accepted'[k] = k /\ ipc_queue'[k - 1] = k
    <3>1. /\ Len(accepted') = issued + 1 /\ accepted'[issued + 1] = issued + 1
          /\ \A k \in 1 .. issued : accepted'[k] = accepted[k]
      BY <2>1, <2>2, <2>3, <2>4 DEF Unwrapped
    <3>2. /\ ipc_queue'[issued] = issued + 1
          /\ \A k \in 1 .. issued : ipc_queue'[k - 1] = ipc_queue[k - 1]
      BY <1>0, <2>1, <2>3, <2>4 DEF Unwrapped, Index
    <3>3. \A k \in 1 .. issued : accepted[k] = k /\ ipc_queue[k - 1] = k
      BY <2>3, <2>4 DEF Unwrapped
    <3>4. issued \in Nat
      BY DEF Unwrapped
    <3>5. ASSUME NEW k \in 1 .. issued + 1 PROVE accepted'[k] = k /\ ipc_queue'[k - 1] = k
      <4>1. CASE k = issued + 1
        BY <3>1, <3>2, <3>4, <4>1
      <4>2. CASE k \in 1 .. issued
        BY <3>1, <3>2, <3>3, <4>2
      <4> QED BY <3>4, <4>1, <4>2
    <3> QED BY <3>1, <3>5
  <2>5. ASSUME sending = 0, issued + 1 <= IPC_QUEUE_SIZE
        PROVE  /\ ipc_head' = issued' % IPC_QUEUE_SIZE
               /\ ipc_tail' = (Len(received') + Taken') % IPC_QUEUE_SIZE
               /\ Taken' = 1 => copied' = Len(received') + 1
               /\ Counted' + Len(received') <= issued'
               /\ \A j \in 1 .. Len(received') : received'[j] = j
    <3>1. Taken' = Taken
      BY <2>1 DEF Taken
    <3>2. Counted' <= Counted + 1 /\ Counted \in Nat /\ Counted' \in Nat
      BY <1>0, <2>1 DEF Counted, RaceInv
    <3> QED BY <1>0, <2>1, <2>3, <2>5, <3>1, <3>2 DEF Unwrapped, After
  <2> QED BY <2>1, <2>2, <2>3, <2>4, <2>5 DEF Unwrapped
<1>2. CASE recv_check
  BY <1>2 DEF recv_check, ring, Unwrapped, Taken, Counted, Sending
<1>3. CASE recv_copy
  <2>1. /\ pc = "recv_copy" /\ pc' = "recv_load" /\ copied' = ipc_queue[ipc_tail]
        /\ ipc_tail' = After(ipc_tail) /\ ipc_count >= 1
        /\ UNCHANGED <<ipc_queue, ipc_head, ipc_count, sending, issued, accepted, received>>
    BY <1>3 DEF recv_copy, RaceInv
  <2>2. Taken = 0 /\ Taken' = 1 /\ Counted = ipc_count /\ Counted' = ipc_count /\ pc' \notin Sending
    BY <2>1 DEF Taken, Counted, Sending
  <2>3. copied' \in Nat
    BY <1>0, <2>1 DEF Unwrapped
  <2>4. ASSUME Few
        PROVE  /\ ipc_tail' = (Len(received) + 1) % IPC_QUEUE_SIZE
               /\ copied' = Len(received) + 1
    <3>1. Len(received) + 1 \in 1 .. issued /\ Len(received) \in Index
      BY <1>0, <2>1, <2>2, <2>4 DEF Unwrapped, Index
    <3>2. ipc_tail = Len(received)
      <4>1. ipc_tail = (Len(received) + 0) % IPC_QUEUE_SIZE
        BY <2>2, <2>4 DEF Unwrapped
      <4>2. Len(received) + 0 = Len(received)
        BY <1>0
      <4> QED BY <3>1, <4>1, <4>2, SmallMod
    <3>3. ipc_queue[Len(received)] = Len(received) + 1
      BY <1>0, <2>4, <3>1 DEF Unwrapped
    <3> QED BY <2>1, <3>2, <3>3 DEF After
  <2> QED BY <2>1, <2>2, <2>3, <2>4 DEF Unwrapped
<1>4. CASE recv_load
  BY <1>4 DEF recv_load, ring, Unwrapped, Taken, Counted, Sending
<1>5. CASE recv_store
  <2>1. /\ pc = "recv_store" /\ pc' = "user" /\ ipc_count' = reg - 1
        /\ received' = Append(received, copied) /\ reg \in Nat
        /\ UNCHANGED <<ipc_queue, ipc_head, ipc_tail, sending, copied, issued, accepted>>
    BY <1>5, <1>0 DEF recv_store, RaceInv
  <2>2. Taken = 1 /\ Taken' = 0 /\ Counted = reg /\ Counted' = reg - 1 /\ pc' \notin Sending
    BY <2>1 DEF Taken, Counted, Sending
  <2>3. /\ received' \in Seq(Nat) /\ Len(received') = Len(received) + 1
        /\ received'[Len(received) + 1] = copied
        /\ \A j \in 1 .. Len(received) : received'[j] = received[j]
    BY <2>1 DEF Unwrapped
  <2>4. ASSUME Few PROVE \A j \in 1 .. Len(received') : received'[j] = j
    <3>1. copied = Len(received) + 1 /\ \A j \in 1 .. Len(received) : received[j] = j
      BY <2>2, <2>4 DEF Unwrapped
    <3>2. ASSUME NEW j \in 1 .. Len(received) + 1 PROVE received'[j] = j
      <4>1. CASE j = Len(received) + 1
        BY <2>3, <3>1, <4>1
      <4>2. CASE j \in 1 .. Len(received)
        BY <2>3, <3>1, <4>2
      <4> QED BY <1>0, <4>1, <4>2
    <3> QED BY <2>3, <3>2
  <2>5. ASSUME Few PROVE Counted' + Len(received') <= issued
    BY <1>0, <2>1, <2>2, <2>3, <2>5 DEF Unwrapped
  <2> QED BY <1>0, <2>1, <2>2, <2>3, <2>4, <2>5 DEF Unwrapped
<1>6. CASE send_check
  BY <1>6 DEF send_check, ring, Unwrapped
<1>7. CASE pc \in Sending /\ UNCHANGED <<issued, sending, copied, received>>
           /\ ipc_queue' \in [Index -> Nat] /\ accepted' \in Seq(Nat)
  BY <1>7 DEF Unwrapped
<1>8. CASE send_slot \/ send_load_head \/ send_store_head \/ send_load_count
  BY <1>7, <1>8 DEF send_slot, send_load_head, send_store_head, send_load_count, ring,
      Sending, Unwrapped
<1>9. CASE send_copy
  BY <1>7, <1>9 DEF send_copy, Sending, Unwrapped
<1>10. CASE send_store_count
  BY <1>7, <1>10 DEF send_store_count, Sending, Unwrapped
<1>11. CASE UNCHANGED race_vars
  BY <1>11 DEF race_vars, ring, Unwrapped, Taken, Counted
<1> QED
  BY <1>1, <1>2, <1>3, <1>4, <1>5, <1>6, <1>8, <1>9, <1>10, <1>11 DEF RaceNext

LEMMA SameNumbers ==
  ASSUME NEW s \in Seq(Nat), NEW t \in Seq(Nat), Len(s) = Len(t), \A i \in 1 .. Len(s) : s[i] = t[i]
  PROVE  s = t
  OBVIOUS

\* For every queue size: as long as only scancodes arrive, and no more than
\* the queue holds, sys_recv returns them in order, each once, wherever the
\* keyboard interrupt falls between its loads and stores.
THEOREM OrderCorrect == RaceSpec => []ReceivedInOrder
<1>1. RaceInit => RaceInv /\ Unwrapped
  BY RingAssumption DEF RaceInit, RaceInv, CountInRange, Index, Sending, Unwrapped, Taken, Counted
<1>2. RaceInv /\ Unwrapped => ReceivedInOrder
  <2> SUFFICES ASSUME RaceInv, Unwrapped, sending = 0, issued <= IPC_QUEUE_SIZE
               PROVE  /\ Len(received) <= Len(accepted)
                      /\ received = SubSeq(accepted, 1, Len(received))
    BY DEF ReceivedInOrder
  <2>1. /\ accepted \in Seq(Nat) /\ received \in Seq(Nat) /\ Len(accepted) = issued
        /\ issued \in Nat /\ Len(received) \in Nat
        /\ \A k \in 1 .. issued : accepted[k] = k
        /\ \A j \in 1 .. Len(received) : received[j] = j
        /\ Counted + Len(received) <= issued
    BY DEF Unwrapped
  <2>2. Counted \in Nat
    BY RingAssumption DEF Counted, RaceInv, CountInRange
  <2>3. Len(received) <= Len(accepted)
    BY <2>1, <2>2
  <2>4. /\ SubSeq(accepted, 1, Len(received)) \in Seq(Nat)
        /\ Len(SubSeq(accepted, 1, Len(received))) = Len(received)
        /\ \A j \in 1 .. Len(received) : SubSeq(accepted, 1, Len(received))[j] = accepted[j]
    BY <2>1, <2>3
  <2>5. \A j \in 1 .. Len(received) : SubSeq(accepted, 1, Len(received))[j] = received[j]
    BY <2>1, <2>3, <2>4
  <2>6. received = SubSeq(accepted, 1, Len(received))
    BY <2>1, <2>4, <2>5, SameNumbers
  <2> QED BY <2>3, <2>6
<1> QED BY <1>1, <1>2, RaceStep, OrderStep, PTL DEF RaceSpec
=============================================================================

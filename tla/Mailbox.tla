------------------------------ MODULE Mailbox -------------------------------
(***************************************************************************)
(* The mailbox of one task: the ring ipc_queue with ipc_head, ipc_tail and *)
(* ipc_count (kernel/include/task.h), filled by sys_send and the keyboard  *)
(* interrupt and emptied by sys_recv.  Each of the three is one step here: *)
(* this is what the code does when the keyboard interrupt does not arrive  *)
(* inside a call on the same mailbox.  Module MailboxRace takes the calls  *)
(* apart for the case where it does.                                       *)
(***************************************************************************)
EXTENDS Ring

CONSTANTS
  IPC_MAX_DATA,    \* task.h:11, 64 in the code
  MaxLen,          \* bound: the largest length a sender passes
  Bytes,           \* values of a byte
  Pids,            \* pids of senders
  Types            \* message types senders use

ASSUME MailboxAssumption ==
  /\ IPC_MAX_DATA \in Nat \ {0}
  /\ MaxLen \in Nat \ {0}
  /\ 0 \in Bytes
  /\ 0 \in Pids
  /\ 0 \in Types

VARIABLES offer,  \* auxiliary: what the last sender passed
          reply   \* auxiliary: what the last sys_send or sys_recv returned

vars == <<ipc_queue, ipc_head, ipc_tail, ipc_count, offer, reply>>

\* ipc_msg_t: data is an array of fixed size of which length bytes count.
Slot == [sender_pid : Pids, type : Types, length : 0 .. IPC_MAX_DATA,
         data : [0 .. IPC_MAX_DATA - 1 -> Bytes]]

\* The message that a slot stands for.
Message(s) == [sender_pid |-> s.sender_pid, type |-> s.type,
               data |-> [i \in 1 .. s.length |-> s.data[i - 1]]]

NoMessage == [sender_pid |-> 0, type |-> 0, data |-> <<>>]

\* What a sender passes: len bytes at data.
Offer(pid, type, len, data) ==
  [sender_pid |-> pid, type |-> type, data |-> [i \in 1 .. len |-> data[i - 1]]]

Return(rc, m) == reply' = [rc |-> rc, msg |-> m]

\* ipc_init_task on a task table that the loader zeroed.
Init ==
  /\ ipc_queue = [i \in Index |->
       [sender_pid |-> 0, type |-> 0, length |-> 0,
        data |-> [j \in 0 .. IPC_MAX_DATA - 1 |-> 0]]]
  /\ ipc_head = 0
  /\ ipc_tail = 0
  /\ ipc_count = 0
  /\ offer = NoMessage
  /\ reply = [rc |-> 0, msg |-> NoMessage]

Clamp(len) == IF len > IPC_MAX_DATA THEN IPC_MAX_DATA ELSE len

\* Mutant: the length field keeps the value of the slot's last message.
Filled_stale_length(old, pid, type, len, data) ==
  [sender_pid |-> pid, type |-> type, length |-> old.length,
   data |-> [j \in 0 .. IPC_MAX_DATA - 1 |-> IF j < len THEN data[j] ELSE old.data[j]]]

\* The slot old after a message is copied into it.
Filled(old, pid, type, len, data) ==
  [sender_pid |-> pid, type |-> type, length |-> len,
   data |-> [j \in 0 .. IPC_MAX_DATA - 1 |-> IF j < len THEN data[j] ELSE old.data[j]]]

Enqueue(pid, type, len, data) ==
  /\ ipc_queue' = [ipc_queue EXCEPT ![ipc_head] = Filled(@, pid, type, len, data)]
  /\ ipc_head' = (ipc_head + 1) % IPC_QUEUE_SIZE
  /\ ipc_count' = ipc_count + 1
  /\ UNCHANGED ipc_tail

\* Mutant: ipc_count > IPC_QUEUE_SIZE.
sys_send_overfull(pid, type, len, data) ==
  /\ offer' = Offer(pid, type, len, data)
  /\ IF ipc_count > IPC_QUEUE_SIZE
     THEN Return(-1, NoMessage) /\ UNCHANGED <<ipc_queue, ipc_head, ipc_tail, ipc_count>>
     ELSE Return(0, NoMessage) /\ Enqueue(pid, type, Clamp(len), data)

sys_send(pid, type, len, data) ==
  /\ offer' = Offer(pid, type, len, data)
  /\ IF ipc_count >= IPC_QUEUE_SIZE
     THEN Return(-1, NoMessage) /\ UNCHANGED <<ipc_queue, ipc_head, ipc_tail, ipc_count>>
     ELSE Return(0, NoMessage) /\ Enqueue(pid, type, Clamp(len), data)

\* A scancode that finds the mailbox full is read from the port and dropped.
keyboard_irq(sc) ==
  /\ ipc_count < IPC_QUEUE_SIZE
  /\ offer' = Offer(0, 0, 1, [j \in {0} |-> sc])
  /\ Enqueue(0, 0, 1, [j \in {0} |-> sc])
  /\ UNCHANGED reply

\* Mutant: ipc_tail stays where it is.
sys_recv_same_tail ==
  IF ipc_count = 0
  THEN Return(-1, NoMessage) /\ UNCHANGED <<ipc_queue, ipc_head, ipc_tail, ipc_count, offer>>
  ELSE /\ Return(0, Message(ipc_queue[ipc_tail]))
       /\ ipc_count' = ipc_count - 1
       /\ UNCHANGED <<ipc_queue, ipc_head, ipc_tail, offer>>

sys_recv ==
  IF ipc_count = 0
  THEN Return(-1, NoMessage) /\ UNCHANGED <<ipc_queue, ipc_head, ipc_tail, ipc_count, offer>>
  ELSE /\ Return(0, Message(ipc_queue[ipc_tail]))
       /\ ipc_tail' = (ipc_tail + 1) % IPC_QUEUE_SIZE
       /\ ipc_count' = ipc_count - 1
       /\ UNCHANGED <<ipc_queue, ipc_head, offer>>

Data == [0 .. MaxLen - 1 -> Bytes]

Next ==
  \/ \E pid \in Pids, type \in Types, len \in 0 .. MaxLen, data \in Data :
       sys_send(pid, type, len, data)
  \/ \E sc \in Bytes : keyboard_irq(sc)
  \/ sys_recv

Spec == Init /\ [][Next]_vars

-----------------------------------------------------------------------------
(* Properties.                                                             *)

\* Indices and count stay in range.
TypeOK ==
  /\ ipc_queue \in [Index -> Slot]
  /\ ipc_head \in Index
  /\ ipc_tail \in Index
  /\ ipc_count \in 0 .. IPC_QUEUE_SIZE

\* The count that the code keeps beside the two indices always agrees with
\* them, the full ring and the empty one included.
RingConsistent == ipc_head = (ipc_tail + ipc_count) % IPC_QUEUE_SIZE

Strings(n) == UNION {[1 .. k -> Bytes] : k \in 0 .. n}

Messages == [sender_pid : Pids, type : Types, data : Strings(IPC_MAX_DATA)]

Offers == [sender_pid : Pids, type : Types, data : Strings(MaxLen)]

Waiting == [k \in 1 .. ipc_count |->
              Message(ipc_queue[(ipc_tail + k - 1) % IPC_QUEUE_SIZE])]

Queue == INSTANCE MessageQueue
           WITH queue <- Waiting, Capacity <- IPC_QUEUE_SIZE, MaxData <- IPC_MAX_DATA

\* The mailbox is a bounded FIFO queue of messages.  What sys_recv returns is
\* the oldest message that sys_send or the interrupt accepted, and of what its
\* sender passed it holds the first IPC_MAX_DATA bytes and no byte that an
\* older message left in the slot.
IsMessageQueue == Queue!Spec
=============================================================================

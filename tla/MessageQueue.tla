---------------------------- MODULE MessageQueue ----------------------------
(***************************************************************************)
(* What the kernel's IPC promises a task about its mailbox: messages come  *)
(* out whole, in the order they went in, and a message is refused only     *)
(* when Capacity messages are waiting.  Module Mailbox implements it.      *)
(***************************************************************************)
EXTENDS Integers, Sequences

CONSTANTS
  Offers,     \* what a sender may pass: sender, type and a sequence of bytes
  MaxData,    \* the bytes of an offer that a message keeps
  Capacity,
  NoMessage

VARIABLES
  queue,  \* the messages waiting
  offer,  \* what the last sender passed
  reply   \* what the last call returned: its code, and for recv the message

Return(rc, m) == reply' = [rc |-> rc, msg |-> m]

\* The message made of an offer: its first MaxData bytes.
Cut(o) ==
  [sender_pid |-> o.sender_pid, type |-> o.type,
   data |-> [i \in 1 .. (IF Len(o.data) > MaxData THEN MaxData ELSE Len(o.data)) |-> o.data[i]]]

Init ==
  /\ queue = <<>>
  /\ offer = NoMessage
  /\ reply = [rc |-> 0, msg |-> NoMessage]

\* A message goes in; an interrupt that sends it returns nothing to a task.
Put ==
  /\ Len(queue) < Capacity
  /\ offer' \in Offers
  /\ queue' = Append(queue, Cut(offer'))
  /\ Return(0, NoMessage) \/ UNCHANGED reply

Refuse ==
  /\ Len(queue) = Capacity
  /\ offer' \in Offers
  /\ Return(-1, NoMessage)
  /\ UNCHANGED queue

Get ==
  /\ queue # <<>>
  /\ queue' = Tail(queue)
  /\ Return(0, Head(queue))
  /\ UNCHANGED offer

Empty ==
  /\ queue = <<>>
  /\ Return(-1, NoMessage)
  /\ UNCHANGED <<queue, offer>>

Next == Put \/ Refuse \/ Get \/ Empty

Spec == Init /\ [][Next]_<<queue, offer, reply>>
=============================================================================

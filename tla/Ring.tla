-------------------------------- MODULE Ring --------------------------------
(***************************************************************************)
(* The ring of a mailbox (kernel/include/task.h): ipc_head is the slot the *)
(* next message goes to, ipc_tail the slot of the oldest one.  Mailbox and *)
(* MailboxRace are two accounts of the same ring.                          *)
(***************************************************************************)
EXTENDS Integers, Sequences

CONSTANT IPC_QUEUE_SIZE  \* task.h:10, 16 in the code

ASSUME RingAssumption == IPC_QUEUE_SIZE \in Nat \ {0}

VARIABLES ipc_queue, ipc_head, ipc_tail, ipc_count

Index == 0 .. IPC_QUEUE_SIZE - 1
=============================================================================

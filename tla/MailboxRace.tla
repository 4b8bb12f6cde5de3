---------------------------- MODULE MailboxRace -----------------------------
(***************************************************************************)
(* The keyboard interrupt inside a call on the mailbox that it fills.      *)
(*                                                                         *)
(* System calls enter through a trap gate (idt.c:240) and run with         *)
(* interrupts on; the interrupt handlers have interrupt gates and run      *)
(* whole.  build.sh compiles without optimisation, so ipc_count++ and the  *)
(* update of ipc_head are a load and a store with a gap between them.      *)
(* There is one CPU and calls are not preempted, so at most one call is    *)
(* under way.  A message is a number, given in the order of the attempts   *)
(* to enqueue one.  Copying a message in or out of a slot is one step.     *)
(***************************************************************************)
EXTENDS Ring

CONSTANT MaxMessages  \* bound: attempts to enqueue a message

ASSUME RaceAssumption == MaxMessages \in Nat

VARIABLES
  pc,        \* the next instruction of the call under way; "user" for none
  msg,       \* sys_send: the slot that its pointer msg points to
  reg,       \* the register between the load and the store
  sending,   \* sys_send: its message
  copied,    \* sys_recv: the message it has copied out
  issued,    \* auxiliary: how many messages there have been
  accepted,  \* auxiliary: messages enqueued or reported as sent, in order
  received   \* auxiliary: messages sys_recv has returned, in order

ring == <<ipc_queue, ipc_head, ipc_tail, ipc_count>>
race_vars == <<ring, pc, msg, reg, sending, copied, issued, accepted, received>>

RaceInit ==
  /\ ipc_queue = [i \in Index |-> 0]
  /\ ipc_head = 0 /\ ipc_tail = 0 /\ ipc_count = 0
  /\ pc = "user"
  /\ msg = 0 /\ reg = 0 /\ sending = 0 /\ copied = 0
  /\ issued = 0 /\ accepted = <<>> /\ received = <<>>

After(i) == (i + 1) % IPC_QUEUE_SIZE

\* idt.c:146-153, the whole handler.
keyboard_irq_inside ==
  /\ issued < MaxMessages
  /\ issued' = issued + 1
  /\ ipc_count < IPC_QUEUE_SIZE
  /\ ipc_queue' = [ipc_queue EXCEPT ![ipc_head] = issued + 1]
  /\ ipc_head' = After(ipc_head)
  /\ ipc_count' = ipc_count + 1
  /\ accepted' = Append(accepted, issued + 1)
  /\ UNCHANGED <<ipc_tail, pc, msg, reg, sending, copied, received>>

-----------------------------------------------------------------------------
(* sys_recv, task.c:180-200.                                               *)

\* Mutant: the test for an empty queue is missing.
recv_check_none ==
  /\ pc = "user"
  /\ pc' = "recv_copy"
  /\ UNCHANGED <<ring, msg, reg, sending, copied, issued, accepted, received>>

\* An empty queue makes recv return -1 and changes nothing.
recv_check ==
  /\ pc = "user"
  /\ ipc_count # 0
  /\ pc' = "recv_copy"
  /\ UNCHANGED <<ring, msg, reg, sending, copied, issued, accepted, received>>

\* Mutant: the newest message is copied.
recv_copy_newest ==
  /\ pc = "recv_copy"
  /\ copied' = ipc_queue[(ipc_head + IPC_QUEUE_SIZE - 1) % IPC_QUEUE_SIZE]
  /\ ipc_tail' = After(ipc_tail)
  /\ pc' = "recv_load"
  /\ UNCHANGED <<ipc_queue, ipc_head, ipc_count, msg, reg, sending, issued, accepted,
                 received>>

\* Only sys_recv changes ipc_tail.
recv_copy ==
  /\ pc = "recv_copy"
  /\ copied' = ipc_queue[ipc_tail]
  /\ ipc_tail' = After(ipc_tail)
  /\ pc' = "recv_load"
  /\ UNCHANGED <<ipc_queue, ipc_head, ipc_count, msg, reg, sending, issued, accepted,
                 received>>

recv_load ==
  /\ pc = "recv_load"
  /\ reg' = ipc_count
  /\ pc' = "recv_store"
  /\ UNCHANGED <<ring, msg, sending, copied, issued, accepted, received>>

recv_store ==
  /\ pc = "recv_store"
  /\ ipc_count' = reg - 1
  /\ received' = Append(received, copied)
  /\ pc' = "user"
  /\ UNCHANGED <<ipc_queue, ipc_head, ipc_tail, msg, reg, sending, copied, issued, accepted>>

-----------------------------------------------------------------------------
(* sys_send, task.c:161-177.                                               *)

send_check ==
  /\ pc = "user"
  /\ issued < MaxMessages
  /\ issued' = issued + 1
  /\ sending' = issued + 1
  /\ pc' = IF ipc_count >= IPC_QUEUE_SIZE THEN "user" ELSE "send_slot"
  /\ UNCHANGED <<ring, msg, reg, copied, accepted, received>>

send_slot ==
  /\ pc = "send_slot"
  /\ msg' = ipc_head
  /\ pc' = "send_copy"
  /\ UNCHANGED <<ring, reg, sending, copied, issued, accepted, received>>

send_copy ==
  /\ pc = "send_copy"
  /\ ipc_queue' = [ipc_queue EXCEPT ![msg] = sending]
  /\ pc' = "send_load_head"
  /\ UNCHANGED <<ipc_head, ipc_tail, ipc_count, msg, reg, sending, copied, issued, accepted,
                 received>>

send_load_head ==
  /\ pc = "send_load_head"
  /\ reg' = ipc_head
  /\ pc' = "send_store_head"
  /\ UNCHANGED <<ring, msg, sending, copied, issued, accepted, received>>

send_store_head ==
  /\ pc = "send_store_head"
  /\ ipc_head' = After(reg)
  /\ pc' = "send_load_count"
  /\ UNCHANGED <<ipc_queue, ipc_tail, ipc_count, msg, reg, sending, copied, issued, accepted,
                 received>>

send_load_count ==
  /\ pc = "send_load_count"
  /\ reg' = ipc_count
  /\ pc' = "send_store_count"
  /\ UNCHANGED <<ring, msg, sending, copied, issued, accepted, received>>

send_store_count ==
  /\ pc = "send_store_count"
  /\ ipc_count' = reg + 1
  /\ accepted' = Append(accepted, sending)
  /\ pc' = "user"
  /\ UNCHANGED <<ipc_queue, ipc_head, ipc_tail, msg, reg, sending, copied, issued, received>>

-----------------------------------------------------------------------------
RaceNext ==
  \/ keyboard_irq_inside
  \/ recv_check \/ recv_copy \/ recv_load \/ recv_store
  \/ send_check \/ send_slot \/ send_copy \/ send_load_head \/ send_store_head
  \/ send_load_count \/ send_store_count

RaceSpec == RaceInit /\ [][RaceNext]_race_vars

-----------------------------------------------------------------------------
(* Properties.                                                             *)

\* The u32 ipc_count never wraps below 0 and exceeds the ring by at most one
\* message, however the interrupt falls between the loads and the stores.
CountInRange ==
  /\ ipc_head \in Index /\ ipc_tail \in Index
  /\ ipc_count \in 0 .. IPC_QUEUE_SIZE + 1

\* As long as no task has sent and no more scancodes have arrived than the
\* ring holds, sys_recv returns them in order, each once, although interrupts
\* inside it lose counts.
ReceivedInOrder ==
  sending = 0 /\ issued <= IPC_QUEUE_SIZE =>
    /\ Len(received) <= Len(accepted)
    /\ received = SubSeq(accepted, 1, Len(received))

\* A message that was accepted, by the interrupt or by a sys_send that
\* returned 0, has been received or is in the ring.
AcceptedIsDelivered ==
  \A k \in 1 .. Len(accepted) :
    \/ \E j \in 1 .. Len(received) : received[j] = accepted[k]
    \/ pc # "user" /\ accepted[k] = copied
    \/ \E i \in Index : ipc_queue[i] = accepted[k]
=============================================================================

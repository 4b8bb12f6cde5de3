------------------------------- MODULE Kernel -------------------------------
(***************************************************************************)
(* The task table, the scheduler and the system calls that change them:    *)
(* kernel/task.c, kernel/idt.c, kernel/syscall.c and the boot in           *)
(* kernel/kernel.c.                                                        *)
(*                                                                         *)
(* One CPU.  A system call runs to its end on the kernel stack of the TSS  *)
(* (the timer interrupt reschedules only when it interrupts ring 3,        *)
(* idt.c:137), so a call together with the rescheduling at its end         *)
(* (idt.c:163-177) is one step.  Two calls are longer than a step, because *)
(* interrupts do arrive inside them and are visible here: nanosleep, which *)
(* halts in a loop, and the scan of FUTEX_WAKE.  Vector 0x80 is a trap     *)
(* gate (idt.c:240), so the keyboard interrupt can arrive during any call; *)
(* on the variables of this module it only turns BLOCKED into READY, which *)
(* commutes with the rest of the other calls.  What it does to a mailbox   *)
(* in the middle of a call is the subject of module MailboxRace; here a    *)
(* mailbox is only full or not full, and either may be the case.           *)
(***************************************************************************)
EXTENDS Integers, Sequences, FiniteSetsExt

CONSTANTS
  MAX_TASKS,          \* task.h:6, 64 in the code
  MAX_FUTEX_WAITERS,  \* task.c:594, 128 in the code
  UAddrs,             \* user addresses programs use as futex words
  MaxSleep,           \* bound: longest nanosleep, in timer ticks
  MaxWake,            \* bound: largest val given to FUTEX_WAKE
  Program             \* Program[i]: what the program in slot i may do

Slots == 0 .. MAX_TASKS - 1

Ops == {"exit", "send", "wait", "wait_any", "irq_register", "kill",
        "nanosleep", "shutdown", "clone", "spawn_at", "futex_wait",
        "futex_wake", "other", "fault", "panic"}

ASSUME KernelAssumption ==
  /\ MAX_TASKS \in Nat \ {0}
  /\ MAX_FUTEX_WAITERS \in Nat
  /\ MaxSleep \in Nat
  /\ MaxWake \in Nat
  /\ Program \in [Slots -> SUBSET Ops]

VARIABLES
  state,          \* tasks[i].state
  pid,            \* tasks[i].pid
  wait_idx,       \* tasks[i].wait_idx
  num_tasks,
  current_task,
  next_pid,
  irq_handler,    \* irq_handlers[1], the only entry that is ever read
  futex_waiters,  \* the first num_futex_waiters entries of the table
  cpu,            \* where the CPU is: see Modes
  sleep_left,     \* nanosleep: target - (ticks - start)
  fw,             \* FUTEX_WAKE: arguments and locals of the scan
  call            \* auxiliary: what each task's last call waits for

vars == <<state, pid, wait_idx, num_tasks, current_task, next_pid, irq_handler,
          futex_waiters, cpu, sleep_left, fw, call>>

tableVars == <<pid, num_tasks, next_pid>>
loopVars == <<cpu, sleep_left, fw>>

TASK_EXITED  == "EXITED"
TASK_READY   == "READY"
TASK_RUNNING == "RUNNING"
TASK_BLOCKED == "BLOCKED"

States == {TASK_EXITED, TASK_READY, TASK_RUNNING, TASK_BLOCKED}

\* boot: in kmain; user: in ring 3, interrupts on; sleep, wake: inside
\* nanosleep and FUTEX_WAKE; idle: kmain's last loop; off: after shutdown;
\* halt, panic: stopped with interrupts off.
Modes == {"boot", "user", "sleep", "wake", "idle", "off", "halt", "panic"}

NoCall == [op |-> "none", arg |-> -1]
NoWake == [uaddr |-> -1, val |-> 0, i |-> 1, woken |-> 0]

Init ==
  /\ state = [i \in Slots |-> TASK_EXITED]
  /\ pid = [i \in Slots |-> 0]
  /\ wait_idx = [i \in Slots |-> 0]
  /\ num_tasks = 0
  /\ current_task = -1
  /\ next_pid = 8
  /\ irq_handler = -1
  /\ futex_waiters = <<>>
  /\ cpu = "boot"
  /\ sleep_left = 0
  /\ fw = NoWake
  /\ call = [i \in Slots |-> NoCall]

-----------------------------------------------------------------------------
(* The scheduler, idt.c:26-56 and 163-177.  st is the state column of the  *)
(* task table, and n the number of tasks, when the scheduler is entered.   *)

ReadyAfter(st, n) ==
  {i \in 1 .. n - 1 : st[(current_task + i) % n] = TASK_READY}

\* Mutant: the search starts at slot 0 instead of behind current_task.
schedule_next_from_zero(st, n) ==
  LET ready == {i \in 0 .. n - 1 : st[i] = TASK_READY} IN
  IF ready = {} THEN current_task ELSE Min(ready)

schedule_next(st, n) ==
  IF ReadyAfter(st, n) = {}
  THEN current_task
  ELSE (current_task + Min(ReadyAfter(st, n))) % n

Resume(st, next) ==
  /\ state' = [st EXCEPT ![next] = TASK_RUNNING]
  /\ current_task' = next

Reschedule(st, n) == Resume(st, schedule_next(st, n))

\* Mutant: the preempted task stays RUNNING.
schedule_keeps_running(n) == Reschedule(state, n)

schedule(n) == Reschedule([state EXCEPT ![current_task] = TASK_READY], n)

\* Mutant: a caller that has exited is made READY.
Preempted_unless_blocked(st) ==
  IF st[current_task] = TASK_BLOCKED THEN st ELSE [st EXCEPT ![current_task] = TASK_READY]

Preempted(st) ==
  IF st[current_task] \in {TASK_BLOCKED, TASK_EXITED}
  THEN st
  ELSE [st EXCEPT ![current_task] = TASK_READY]

SyscallReturn(st, n) ==
  IF n > 1
  THEN Reschedule(Preempted(st), n)
  ELSE state' = st /\ UNCHANGED current_task

-----------------------------------------------------------------------------
(* Boot: kmain from task_init on (kernel.c:35-43).                         *)

\* A new entry of the table, task.c:310-322 and 578-589.
AddTask(p) ==
  /\ pid' = [pid EXCEPT ![num_tasks] = p]
  /\ wait_idx' = [wait_idx EXCEPT ![num_tasks] = -1]
  /\ num_tasks' = num_tasks + 1

\* init becomes task 0 with pid 1 and runs, or cannot be loaded and
\* scheduler_start returns to the idle loop.
kmain ==
  /\ cpu = "boot"
  /\ \/ /\ AddTask(1)
        /\ state' = [state EXCEPT ![0] = TASK_RUNNING]
        /\ current_task' = 0
        /\ cpu' = "user"
     \/ /\ cpu' = "idle"
        /\ UNCHANGED <<state, pid, wait_idx, num_tasks, current_task>>
  /\ UNCHANGED <<next_pid, irq_handler, futex_waiters, sleep_left, fw, call>>

-----------------------------------------------------------------------------
(* System calls.                                                           *)

Issues(op) == cpu = "user" /\ op \in Program[current_task]

NotWaiting == call' = [call EXCEPT ![current_task] = NoCall]

\* The slots a pid argument matches: sys_wait and sys_getstate look at every
\* task, sys_send and sys_kill skip exited ones.
SlotsOf(p) == {i \in 0 .. num_tasks - 1 : pid[i] = p}
LiveSlotsOf(p) == {i \in SlotsOf(p) : state[i] # TASK_EXITED}

\* Pids a program can pass: those handed out so far and one that is not.
PidArgs == {pid[i] : i \in 0 .. num_tasks - 1} \cup {next_pid}

Unblocked(st, i) == IF st[i] = TASK_BLOCKED THEN [st EXCEPT ![i] = TASK_READY] ELSE st

\* Calls that leave this module's tables alone: getpid, recv, inb, outb,
\* getstate, mmap, munmap, getticks, debug_putc, mprotect, brk, irq_ack,
\* mmap_phys, inw, outw, yield and unknown numbers.
other_call ==
  /\ Issues("other")
  /\ NotWaiting
  /\ SyscallReturn(state, num_tasks)
  /\ UNCHANGED <<tableVars, wait_idx, irq_handler, futex_waiters, loopVars>>

\* A full mailbox, like a pid without a live task, makes send return -1.
sys_send ==
  /\ Issues("send")
  /\ NotWaiting
  /\ \E p \in PidArgs, full \in BOOLEAN :
       LET target == LiveSlotsOf(p) IN
       SyscallReturn(IF target = {} \/ full THEN state ELSE Unblocked(state, Min(target)),
                     num_tasks)
  /\ UNCHANGED <<tableVars, wait_idx, irq_handler, futex_waiters, loopVars>>

\* Mutant: the waiter is not woken.
Exited_silently == [state EXCEPT ![current_task] = TASK_EXITED]

\* The state column after sys_exit: the recorded waiter is made READY
\* whatever its state, then the caller is EXITED.
Exited ==
  LET w == wait_idx[current_task]
      woken == IF w >= 0 THEN [state EXCEPT ![w] = TASK_READY] ELSE state
  IN [woken EXCEPT ![current_task] = TASK_EXITED]

sys_exit ==
  /\ Issues("exit")
  /\ NotWaiting
  /\ SyscallReturn(Exited, num_tasks)
  /\ UNCHANGED <<tableVars, wait_idx, irq_handler, futex_waiters, loopVars>>

\* Mutant: the caller is recorded as waiter but not BLOCKED.
sys_wait_unblocked ==
  /\ Issues("wait")
  /\ \E p \in PidArgs :
       LET found == SlotsOf(p)
           i == Min(found)
       IN IF found = {} \/ state[i] = TASK_EXITED
          THEN NotWaiting /\ UNCHANGED wait_idx
          ELSE /\ wait_idx' = [wait_idx EXCEPT ![i] = current_task]
               /\ call' = [call EXCEPT ![current_task] = [op |-> "wait", arg |-> i]]
  /\ SyscallReturn(state, num_tasks)
  /\ UNCHANGED <<tableVars, irq_handler, futex_waiters, loopVars>>

sys_wait ==
  /\ Issues("wait")
  /\ \E p \in PidArgs :
       LET found == SlotsOf(p)
           i == Min(found)
       IN IF found = {} \/ state[i] = TASK_EXITED
          THEN /\ NotWaiting
               /\ SyscallReturn(state, num_tasks)
               /\ UNCHANGED wait_idx
          ELSE /\ wait_idx' = [wait_idx EXCEPT ![i] = current_task]
               /\ call' = [call EXCEPT ![current_task] = [op |-> "wait", arg |-> i]]
               /\ SyscallReturn([state EXCEPT ![current_task] = TASK_BLOCKED], num_tasks)
  /\ UNCHANGED <<tableVars, irq_handler, futex_waiters, loopVars>>

sys_wait_any ==
  /\ Issues("wait_any")
  /\ LET others == (0 .. num_tasks - 1) \ {current_task} IN
     IF \E i \in others : state[i] = TASK_EXITED
     THEN /\ NotWaiting
          /\ SyscallReturn(state, num_tasks)
          /\ UNCHANGED wait_idx
     ELSE /\ wait_idx' = [i \in Slots |-> IF i \in others THEN current_task ELSE wait_idx[i]]
          /\ call' = [call EXCEPT ![current_task] = [op |-> "wait_any", arg |-> -1]]
          /\ SyscallReturn([state EXCEPT ![current_task] = TASK_BLOCKED], num_tasks)
  /\ UNCHANGED <<tableVars, irq_handler, futex_waiters, loopVars>>

sys_irq_register ==
  /\ Issues("irq_register")
  /\ NotWaiting
  /\ irq_handler' = current_task
  /\ SyscallReturn(state, num_tasks)
  /\ UNCHANGED <<tableVars, wait_idx, futex_waiters, loopVars>>

\* Unlike sys_exit, kill does not look at the victim's wait_idx.
sys_kill ==
  /\ Issues("kill")
  /\ NotWaiting
  /\ \E p \in PidArgs :
       LET victim == LiveSlotsOf(p) IN
       SyscallReturn(IF victim = {} THEN state
                     ELSE [state EXCEPT ![Min(victim)] = TASK_EXITED], num_tasks)
  /\ UNCHANGED <<tableVars, wait_idx, irq_handler, futex_waiters, loopVars>>

\* Mutant: next_pid is not incremented.
NewTask_same_pid(op) ==
  /\ Issues(op)
  /\ NotWaiting
  /\ num_tasks < MAX_TASKS
  /\ AddTask(next_pid)
  /\ SyscallReturn([state EXCEPT ![num_tasks] = TASK_READY], num_tasks + 1)
  /\ UNCHANGED <<next_pid, irq_handler, futex_waiters, loopVars>>

\* spawn_at of a valid ELF and clone both append a READY task; they fail
\* when the table is full, on a bad image or without memory.
NewTask(op) ==
  /\ Issues(op)
  /\ NotWaiting
  /\ \/ /\ num_tasks < MAX_TASKS
        /\ AddTask(next_pid)
        /\ next_pid' = next_pid + 1
        /\ SyscallReturn([state EXCEPT ![num_tasks] = TASK_READY], num_tasks + 1)
     \/ /\ SyscallReturn(state, num_tasks)
        /\ UNCHANGED <<tableVars, wait_idx>>
  /\ UNCHANGED <<irq_handler, futex_waiters, loopVars>>

sys_spawn_at == NewTask("spawn_at")
sys_clone == NewTask("clone")

sys_shutdown ==
  /\ Issues("shutdown")
  /\ NotWaiting
  /\ cpu' = "off"
  /\ UNCHANGED <<state, current_task, tableVars, wait_idx, irq_handler, futex_waiters,
                 sleep_left, fw>>

-----------------------------------------------------------------------------
(* nanosleep, task.c:484-494: the caller is BLOCKED while it halts, and    *)
(* every interrupt returns into the loop, which makes it BLOCKED again.    *)
(* Timer interrupts taken here come from ring 0 and do not reschedule.     *)

Awake == [state EXCEPT ![current_task] = TASK_RUNNING]

sys_nanosleep ==
  /\ Issues("nanosleep")
  /\ NotWaiting
  /\ \/ /\ SyscallReturn(Awake, num_tasks)     \* ns / 2000000 = 0
        /\ UNCHANGED loopVars
     \/ /\ sleep_left' \in 1 .. MaxSleep
        /\ cpu' = "sleep"
        /\ state' = [state EXCEPT ![current_task] = TASK_BLOCKED]
        /\ UNCHANGED <<current_task, fw>>
  /\ UNCHANGED <<tableVars, wait_idx, irq_handler, futex_waiters>>

\* Mutant: (ticks - start) <= target.
sleep_tick_once_more ==
  /\ cpu = "sleep"
  /\ sleep_left' = sleep_left - 1
  /\ IF sleep_left >= 1
     THEN UNCHANGED <<state, current_task, cpu>>
     ELSE cpu' = "user" /\ SyscallReturn(Awake, num_tasks)
  /\ UNCHANGED <<tableVars, wait_idx, irq_handler, futex_waiters, fw, call>>

sleep_tick ==
  /\ cpu = "sleep"
  /\ sleep_left' = sleep_left - 1
  /\ IF sleep_left > 1
     THEN UNCHANGED <<state, current_task, cpu>>
     ELSE cpu' = "user" /\ SyscallReturn(Awake, num_tasks)
  /\ UNCHANGED <<tableVars, wait_idx, irq_handler, futex_waiters, fw, call>>

-----------------------------------------------------------------------------
(* sys_futex, task.c:594-629.                                              *)

\* equal: whether *uaddr = val, which only the programs decide.
futex_wait ==
  /\ Issues("futex_wait")
  /\ \E u \in UAddrs, equal \in BOOLEAN :
       IF equal /\ Len(futex_waiters) < MAX_FUTEX_WAITERS
       THEN /\ futex_waiters' = Append(futex_waiters, [uaddr |-> u, task_idx |-> current_task])
            /\ call' = [call EXCEPT ![current_task] = [op |-> "futex", arg |-> u]]
            /\ SyscallReturn([state EXCEPT ![current_task] = TASK_BLOCKED], num_tasks)
       ELSE /\ NotWaiting
            /\ SyscallReturn(state, num_tasks)
            /\ UNCHANGED futex_waiters
  /\ UNCHANGED <<tableVars, wait_idx, irq_handler, loopVars>>

futex_wake ==
  /\ Issues("futex_wake")
  /\ NotWaiting
  /\ \E u \in UAddrs, val \in 0 .. MaxWake :
       fw' = [uaddr |-> u, val |-> val, i |-> 1, woken |-> 0]
  /\ cpu' = "wake"
  /\ UNCHANGED <<state, current_task, tableVars, wait_idx, irq_handler, futex_waiters,
                 sleep_left>>

Scanning == fw.i <= Len(futex_waiters) /\ fw.woken < fw.val

\* Mutant: the last entry is dropped without being moved.
DropLast(s, i) == [j \in 1 .. Len(s) - 1 |-> s[j]]

\* futex_waiters[i] = futex_waiters[--num_futex_waiters], task.c:622.
SwapRemove(s, i) == [j \in 1 .. Len(s) - 1 |-> IF j = i THEN s[Len(s)] ELSE s[j]]

\* Mutants of the scan's round: the index moves on after a removal; the entry
\* of a woken task stays; the address is not compared; an entry is removed
\* only if its task was BLOCKED.
wake_scan_skips ==
  /\ cpu = "wake"
  /\ Scanning
  /\ LET e == futex_waiters[fw.i] IN
     IF e.uaddr = fw.uaddr
     THEN /\ futex_waiters' = SwapRemove(futex_waiters, fw.i)
          /\ state' = Unblocked(state, e.task_idx)
     ELSE UNCHANGED <<futex_waiters, state>>
  /\ fw' = [fw EXCEPT !.i = @ + 1]
  /\ UNCHANGED <<current_task, tableVars, wait_idx, irq_handler, cpu, sleep_left, call>>

wake_scan_keeps ==
  /\ cpu = "wake"
  /\ Scanning
  /\ LET e == futex_waiters[fw.i] IN
     state' = IF e.uaddr = fw.uaddr THEN Unblocked(state, e.task_idx) ELSE state
  /\ fw' = [fw EXCEPT !.i = @ + 1]
  /\ UNCHANGED <<current_task, tableVars, wait_idx, irq_handler, futex_waiters, cpu,
                 sleep_left, call>>

wake_scan_any ==
  /\ cpu = "wake"
  /\ Scanning
  /\ futex_waiters' = SwapRemove(futex_waiters, fw.i)
  /\ state' = Unblocked(state, futex_waiters[fw.i].task_idx)
  /\ fw' = [fw EXCEPT !.woken = @ + 1]
  /\ UNCHANGED <<current_task, tableVars, wait_idx, irq_handler, cpu, sleep_left, call>>

wake_scan_stuck ==
  /\ cpu = "wake"
  /\ Scanning
  /\ LET e == futex_waiters[fw.i] IN
     IF e.uaddr # fw.uaddr
     THEN fw' = [fw EXCEPT !.i = @ + 1] /\ UNCHANGED <<futex_waiters, state>>
     ELSE IF state[e.task_idx] = TASK_BLOCKED
     THEN /\ futex_waiters' = SwapRemove(futex_waiters, fw.i)
          /\ state' = Unblocked(state, e.task_idx)
          /\ fw' = [fw EXCEPT !.woken = @ + 1]
     ELSE UNCHANGED <<futex_waiters, state, fw>>
  /\ UNCHANGED <<current_task, tableVars, wait_idx, irq_handler, cpu, sleep_left, call>>

\* One round of the loop at task.c:615.  After a removal the same index is
\* looked at again (the i-- at task.c:623).
wake_scan ==
  /\ cpu = "wake"
  /\ Scanning
  /\ LET e == futex_waiters[fw.i] IN
     IF e.uaddr = fw.uaddr
     THEN /\ futex_waiters' = SwapRemove(futex_waiters, fw.i)
          /\ state' = Unblocked(state, e.task_idx)
          /\ fw' = IF state[e.task_idx] = TASK_BLOCKED
                   THEN [fw EXCEPT !.woken = @ + 1] ELSE fw
     ELSE /\ fw' = [fw EXCEPT !.i = @ + 1]
          /\ UNCHANGED <<futex_waiters, state>>
  /\ UNCHANGED <<current_task, tableVars, wait_idx, irq_handler, cpu, sleep_left, call>>

wake_return ==
  /\ cpu = "wake"
  /\ ~Scanning
  /\ cpu' = "user"
  /\ fw' = NoWake
  /\ SyscallReturn(state, num_tasks)
  /\ UNCHANGED <<tableVars, wait_idx, irq_handler, futex_waiters, sleep_left, call>>

-----------------------------------------------------------------------------
(* Interrupts and exceptions, idt.c:58-161.                                *)

\* IRQ 0 in ring 3.
timer_irq ==
  /\ cpu = "user"
  /\ num_tasks > 1
  /\ schedule(num_tasks)
  /\ UNCHANGED <<tableVars, wait_idx, irq_handler, futex_waiters, loopVars, call>>

\* IRQ 1, anywhere interrupts are on: a message for the registered live task,
\* unless its mailbox is full, wakes it if it is BLOCKED.  A task halted in
\* nanosleep goes straight back to BLOCKED.
keyboard_irq ==
  /\ cpu \notin {"halt", "panic"}
  /\ irq_handler >= 0
  /\ state[irq_handler] # TASK_EXITED
  /\ ~(cpu = "sleep" /\ irq_handler = current_task)
  /\ state' = Unblocked(state, irq_handler)
  /\ UNCHANGED <<current_task, tableVars, wait_idx, irq_handler, futex_waiters, loopVars, call>>

\* Mutant: the search for a READY task leaves out slot 0.
page_fault_from_one ==
  /\ Issues("fault")
  /\ NotWaiting
  /\ LET ready == {i \in 1 .. num_tasks - 1 : Exited[i] = TASK_READY} IN
     IF ready = {}
     THEN cpu' = "halt" /\ state' = Exited /\ UNCHANGED current_task
     ELSE Resume(Exited, Min(ready)) /\ UNCHANGED cpu
  /\ UNCHANGED <<tableVars, wait_idx, irq_handler, futex_waiters, sleep_left, fw>>

\* A page fault in ring 3: sys_exit, then the READY task with the smallest
\* index, whose entry the loop finds first; with none, halt for good.
page_fault ==
  /\ Issues("fault")
  /\ NotWaiting
  /\ LET ready == {i \in 0 .. num_tasks - 1 : Exited[i] = TASK_READY} IN
     IF ready = {}
     THEN /\ cpu' = "halt"
          /\ state' = Exited
          /\ UNCHANGED current_task
     ELSE /\ Resume(Exited, Min(ready))
          /\ UNCHANGED cpu
  /\ UNCHANGED <<tableVars, wait_idx, irq_handler, futex_waiters, sleep_left, fw>>

\* Any other exception, and a page fault in ring 0 (a bad pointer argument).
panic ==
  /\ Issues("panic")
  /\ cpu' = "panic"
  /\ UNCHANGED <<state, current_task, tableVars, wait_idx, irq_handler, futex_waiters,
                 sleep_left, fw, call>>

-----------------------------------------------------------------------------
Syscall ==
  \/ other_call \/ sys_send \/ sys_exit \/ sys_wait \/ sys_wait_any
  \/ sys_irq_register \/ sys_kill \/ sys_spawn_at \/ sys_clone \/ sys_shutdown
  \/ sys_nanosleep \/ futex_wait \/ futex_wake

Next ==
  \/ kmain \/ Syscall
  \/ sleep_tick \/ wake_scan \/ wake_return
  \/ timer_irq \/ keyboard_irq \/ page_fault \/ panic

Spec == Init /\ [][Next]_vars

\* The PIT interrupts at 500 Hz and ring 3 cannot turn interrupts off; code
\* inside the kernel runs on.
Fairness ==
  /\ WF_vars(kmain)
  /\ WF_vars(timer_irq)
  /\ WF_vars(sleep_tick)
  /\ WF_vars(wake_scan \/ wake_return)

FairSpec == Spec /\ Fairness

-----------------------------------------------------------------------------
(* Properties.                                                             *)

FutexEntries == [uaddr : UAddrs, task_idx : Slots]

Stopped == cpu \in {"idle", "off", "halt", "panic"}

\* Every variable stays in its range; created tasks fill the table from 0.
TypeOK ==
  /\ state \in [Slots -> States]
  /\ pid \in [Slots -> Nat]
  /\ wait_idx \in [Slots -> Slots \cup {-1}]
  /\ num_tasks \in 0 .. MAX_TASKS
  /\ current_task \in -1 .. num_tasks - 1
  /\ next_pid \in Nat
  /\ irq_handler \in Slots \cup {-1}
  /\ futex_waiters \in Seq(FutexEntries)
  /\ Len(futex_waiters) <= MAX_FUTEX_WAITERS
  /\ cpu \in Modes
  /\ sleep_left \in 0 .. MaxSleep
  /\ fw \in [uaddr : UAddrs \cup {-1}, val : 0 .. MaxWake, i : Nat \ {0}, woken : Nat]
  /\ call \in [Slots -> [op : {"none", "wait", "wait_any", "futex"},
                         arg : Slots \cup UAddrs \cup {-1}]]
  /\ cpu \notin {"boot", "idle"} => current_task >= 0
  /\ cpu = "boot" => num_tasks = 0
  /\ cpu = "sleep" => sleep_left > 0

\* No task but current_task is ever marked RUNNING, and once there are two
\* tasks the one in ring 3 is: what schedule_next, the timer, the end of a
\* system call and the page-fault path must agree on.
OneRunning ==
  /\ \A i \in Slots : state[i] = TASK_RUNNING => i = current_task
  /\ cpu = "user" /\ num_tasks > 1 => state[current_task] = TASK_RUNNING

\* A pid names at most one task for ever, exited or not, which is what makes
\* the first match of sys_wait, sys_kill and sys_send the only one.
PidsUnique ==
  \A i, j \in 0 .. num_tasks - 1 : pid[i] = pid[j] => i = j

\* A task that FUTEX_WAIT put to sleep is still in the waiter table for its
\* address: no interleaving of waits, wakes, kills, messages and exits
\* removes the entry and leaves the task asleep.
FutexSleeperQueued ==
  \A i \in Slots :
    state[i] = TASK_BLOCKED /\ call[i].op = "futex" =>
      \E k \in 1 .. Len(futex_waiters) :
        futex_waiters[k] = [uaddr |-> call[i].arg, task_idx |-> i]

\* While FUTEX_WAKE scans the table that it reorders by swap-removal, no
\* entry for its address is behind the scan index: a wake that returns fewer
\* than val has left no waiter of its address in the table.
FutexScanned ==
  cpu = "wake" =>
    \A k \in 1 .. Len(futex_waiters) : k < fw.i => futex_waiters[k].uaddr # fw.uaddr

\* Programs P under which waiting is dependable: init neither ends nor sleeps
\* except in nanosleep, nobody kills, sends messages, waits for any child or
\* takes the keyboard, and only one program calls wait (a task has room for
\* one waiter).
Orderly(P) ==
  /\ P[0] \cap {"exit", "fault", "wait", "futex_wait"} = {}
  /\ \A i \in Slots : P[i] \cap {"kill", "send", "wait_any", "irq_register"} = {}
  /\ \A i, j \in Slots : "wait" \in P[i] /\ "wait" \in P[j] => i = j

\* wait has returned to ring 3 only if the task it named has exited.
WaitReturnsAfterExit ==
  cpu = "user" /\ call[current_task].op = "wait" =>
    state[call[current_task].arg] = TASK_EXITED

\* FUTEX_WAIT has returned to ring 3 only because a wake removed its entry.
FutexReturnsAfterWake ==
  cpu = "user" /\ call[current_task].op = "futex" =>
    \A k \in 1 .. Len(futex_waiters) :
      futex_waiters[k] # [uaddr |-> call[current_task].arg, task_idx |-> current_task]

\* A task asleep in wait is the recorded waiter of a task that has not
\* exited, so the exit it waits for is still to come and will wake it.
WaiterRegistered ==
  \A i \in Slots :
    state[i] = TASK_BLOCKED /\ call[i].op = "wait" =>
      wait_idx[call[i].arg] = i /\ state[call[i].arg] # TASK_EXITED

\* A page fault of a program never stops the machine.
NeverHalts == cpu # "halt"

\* An exited task never becomes schedulable again.
DeadStaysDead ==
  [][\A i \in 0 .. num_tasks - 1 : state[i] = TASK_EXITED => state'[i] = TASK_EXITED]_vars

\* What FUTEX_WAKE counts as woken is a task asleep in FUTEX_WAIT on the
\* address of the wake.
FutexWakesItsWaiters ==
  [][\A i \in Slots :
       state[i] = TASK_BLOCKED /\ state'[i] = TASK_READY /\ fw'.woken > fw.woken =>
         call[i] = [op |-> "futex", arg |-> fw.uaddr]]_vars

\* Round robin: a READY task gets the CPU, is killed, or the machine stops.
\* (A task that is alone can run while marked READY.)
NoStarvation ==
  \A i \in Slots :
    state[i] = TASK_READY ~> (current_task = i \/ state[i] # TASK_READY \/ Stopped)

\* The scan of FUTEX_WAKE ends, although it looks at an index again after
\* each removal and removes entries without counting them as woken.
WakeReturns == cpu = "wake" ~> cpu # "wake"
=============================================================================

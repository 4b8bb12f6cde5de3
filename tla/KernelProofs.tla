---------------------------- MODULE KernelProofs ----------------------------
(***************************************************************************)
(* Theorems about module Kernel, for any number of tasks, any futex table, *)
(* any addresses and any programs.                                         *)
(***************************************************************************)
EXTENDS Kernel, WellFoundedInduction, TLAPS

\* The smallest element of a nonempty set of naturals belongs to it.
LEMMA MinInSet ==
  ASSUME NEW S \in SUBSET Nat, S # {}
  PROVE  Min(S) \in S /\ \A y \in S : Min(S) <= y
<1> DEFINE R == {ss \in Nat \X Nat : ss[1] < ss[2]}
<1>1. R = OpToRel(<, Nat)
  BY Zenon DEF OpToRel
<1>2. IsWellFoundedOn(R, Nat)
  BY <1>1, NatLessThanWellFounded, Zenon
<1>3. \E x \in S : \A y \in S : ~(<<y, x>> \in R)
  <2> HIDE DEF R
  <2> QED BY Zenon, <1>2, WFMin
<1>4. \A x, y \in Nat : <<y, x>> \in R <=> y < x
  OBVIOUS
<1>5. \E x \in S : \A y \in S : x <= y
  <2>1. PICK x \in S : \A y \in S : ~(<<y, x>> \in R)
    BY <1>3
  <2>2. ASSUME NEW y \in S PROVE x <= y
    <3>1. x \in Nat /\ y \in Nat
      OBVIOUS
    <3>2. ~(y < x)
      BY <1>4, <2>1, <3>1, Zenon
    <3> QED BY <3>1, <3>2
  <2> QED BY <2>2
<1> QED
  BY Zenon, <1>5 DEF Min

-----------------------------------------------------------------------------
(* The scheduler.                                                          *)

\* schedule_next returns the index of a created task.
LEMMA ScheduleNextRange ==
  ASSUME NEW st, NEW n \in Nat \ {0}, current_task \in 0 .. n - 1
  PROVE  schedule_next(st, n) \in 0 .. n - 1
<1>1. CASE ReadyAfter(st, n) = {}
  BY <1>1 DEF schedule_next
<1>2. CASE ReadyAfter(st, n) # {}
  <2>1. Min(ReadyAfter(st, n)) \in Nat
    BY <1>2, MinInSet DEF ReadyAfter
  <2>2. current_task + Min(ReadyAfter(st, n)) \in Nat
    BY <2>1
  <2> HIDE DEF ReadyAfter
  <2>3. (current_task + Min(ReadyAfter(st, n))) % n \in 0 .. n - 1
    BY <2>2
  <2> QED BY <1>2, <2>3 DEF schedule_next
<1> QED BY <1>1, <1>2

\* A task table in which only the current task may be RUNNING.
Sane(st) ==
  /\ st \in [Slots -> States]
  /\ \A i \in Slots : st[i] = TASK_RUNNING => i = current_task

\* What rescheduling does to a table in which nobody is RUNNING or only the
\* task that is resumed is: it blocks nobody and resumes exactly one task.
LEMMA ResumeEffect ==
  ASSUME NEW st \in [Slots -> States], NEW next \in Slots,
         \A i \in Slots : st[i] = TASK_RUNNING => i = next,
         Resume(st, next)
  PROVE  /\ state' \in [Slots -> States]
         /\ current_task' = next
         /\ \A i \in Slots : state'[i] = TASK_RUNNING => i = current_task'
         /\ state'[current_task'] = TASK_RUNNING
         /\ \A i \in Slots : state'[i] = TASK_BLOCKED => st[i] = TASK_BLOCKED
  BY DEF Resume, States, TASK_RUNNING, TASK_BLOCKED

\* The end of a system call, idt.c:163-177.
LEMMA SyscallReturnEffect ==
  ASSUME NEW st, Sane(st), NEW n \in 1 .. MAX_TASKS, current_task \in 0 .. n - 1,
         SyscallReturn(st, n)
  PROVE  /\ state' \in [Slots -> States]
         /\ current_task' \in 0 .. n - 1
         /\ \A i \in Slots : state'[i] = TASK_RUNNING => i = current_task'
         /\ n > 1 => state'[current_task'] = TASK_RUNNING
         /\ \A i \in Slots : state'[i] = TASK_BLOCKED => st[i] = TASK_BLOCKED
<1> DEFINE pre == Preempted(st)
           next == schedule_next(pre, n)
<1>1. current_task \in Slots /\ n \in Nat \ {0} /\ MAX_TASKS \in Nat
  BY KernelAssumption DEF Slots
<1>2. CASE n > 1
  <2>1. next \in 0 .. n - 1
    BY <1>1, ScheduleNextRange
  <2>2. next \in Slots
    BY <2>1, <1>1 DEF Slots
  <2>3. /\ pre \in [Slots -> States]
        /\ \A i \in Slots : pre[i] # TASK_RUNNING
        /\ \A i \in Slots : pre[i] = TASK_BLOCKED => st[i] = TASK_BLOCKED
    BY <1>1 DEF Preempted, Sane, States, TASK_READY, TASK_RUNNING, TASK_BLOCKED, TASK_EXITED
  <2>4. Resume(pre, next)
    BY <1>2 DEF SyscallReturn, Reschedule
  <2> HIDE DEF pre, next
  <2> QED BY <2>1, <2>2, <2>3, <2>4, ResumeEffect
<1>3. CASE ~(n > 1)
  BY <1>1, <1>3 DEF SyscallReturn, Sane
<1> QED BY <1>2, <1>3
-----------------------------------------------------------------------------
(* Types, and the one RUNNING task.                                        *)

\* The facts every action that runs on behalf of a task starts from.
LEMMA TaskFacts ==
  ASSUME TypeOK, OneRunning, cpu \notin {"boot", "idle"}
  PROVE  /\ current_task \in 0 .. num_tasks - 1
         /\ current_task \in Slots
         /\ num_tasks \in 1 .. MAX_TASKS
         /\ num_tasks \in Nat /\ MAX_TASKS \in Nat
         /\ 0 .. num_tasks - 1 \subseteq Slots
         /\ Sane(state)
  BY KernelAssumption DEF TypeOK, OneRunning, Slots, Sane

\* The updates of the state column that system calls make keep it sane.
LEMMA SaneUpdates ==
  ASSUME TypeOK, OneRunning, cpu \notin {"boot", "idle"}
  PROVE  /\ Sane([state EXCEPT ![current_task] = TASK_BLOCKED])
         /\ Sane(Awake)
         /\ Sane(Exited)
         /\ \A i \in Slots : /\ Sane(Unblocked(state, i))
                             /\ Sane([state EXCEPT ![i] = TASK_EXITED])
                             /\ Sane([state EXCEPT ![i] = TASK_READY])
<1> USE TaskFacts DEF Sane, States, TASK_READY, TASK_RUNNING, TASK_BLOCKED, TASK_EXITED
<1>1. Sane([state EXCEPT ![current_task] = TASK_BLOCKED]) /\ Sane(Awake)
  BY DEF Awake
<1>2. \A i \in Slots : /\ Sane(Unblocked(state, i))
                       /\ Sane([state EXCEPT ![i] = TASK_EXITED])
                       /\ Sane([state EXCEPT ![i] = TASK_READY])
  BY DEF Unblocked
<1>3. Sane(Exited)
  <2>1. wait_idx[current_task] \in Slots \cup {-1}
    BY DEF TypeOK
  <2> QED BY Zenon, <2>1 DEF Exited, Slots
<1> QED BY <1>1, <1>2, <1>3

\* The part of TypeOK that the scheduler does not touch.
TableOK ==
  /\ pid \in [Slots -> Nat]
  /\ wait_idx \in [Slots -> Slots \cup {-1}]
  /\ next_pid \in Nat
  /\ irq_handler \in Slots \cup {-1}
  /\ futex_waiters \in Seq(FutexEntries)
  /\ Len(futex_waiters) <= MAX_FUTEX_WAITERS
  /\ sleep_left \in 0 .. MaxSleep
  /\ fw \in [uaddr : UAddrs \cup {-1}, val : 0 .. MaxWake, i : Nat \ {0}, woken : Nat]
  /\ call \in [Slots -> [op : {"none", "wait", "wait_any", "futex"},
                         arg : Slots \cup UAddrs \cup {-1}]]

\* The part it does.
CpuOK ==
  /\ num_tasks \in 0 .. MAX_TASKS
  /\ state \in [Slots -> States]
  /\ current_task \in -1 .. num_tasks - 1
  /\ cpu \in Modes
  /\ cpu \notin {"boot", "idle"} => current_task >= 0
  /\ cpu = "boot" => num_tasks = 0
  /\ cpu = "sleep" => sleep_left > 0
  /\ OneRunning

LEMMA TypeSplit == TypeOK /\ OneRunning <=> TableOK /\ CpuOK
  BY Zenon DEF TypeOK, TableOK, CpuOK

\* A call that ends in ring 3 with a sane table gives back a good one.
LEMMA ReturnOK ==
  ASSUME TypeOK, OneRunning, cpu \notin {"boot", "idle"},
         NEW st, Sane(st), num_tasks' \in {num_tasks, num_tasks + 1},
         num_tasks' <= MAX_TASKS, cpu' = "user",
         SyscallReturn(st, num_tasks')
  PROVE  CpuOK'
<1>1. /\ num_tasks' \in 1 .. MAX_TASKS
      /\ current_task \in 0 .. num_tasks' - 1
  BY TaskFacts
<1>2. /\ state' \in [Slots -> States]
      /\ current_task' \in 0 .. num_tasks' - 1
      /\ \A i \in Slots : state'[i] = TASK_RUNNING => i = current_task'
      /\ num_tasks' > 1 => state'[current_task'] = TASK_RUNNING
  BY Zenon, <1>1, SyscallReturnEffect
<1>3. OneRunning'
  BY <1>2 DEF OneRunning
<1>4. num_tasks' \in 0 .. MAX_TASKS
  BY <1>1
<1>5. current_task' >= 0
  BY <1>2
<1>6. current_task' \in -1 .. num_tasks' - 1
  BY <1>2
<1>7. cpu' \in Modes /\ cpu' # "boot" /\ cpu' # "sleep"
  BY DEF Modes
<1> QED BY Zenon, <1>2, <1>3, <1>4, <1>5, <1>6, <1>7 DEF CpuOK

\* NotWaiting and the other updates of the auxiliary variable keep its type.
LEMMA CallTypes ==
  ASSUME TableOK, current_task \in Slots,
         NEW c \in [op : {"none", "wait", "wait_any", "futex"},
                    arg : Slots \cup UAddrs \cup {-1}],
         call' = [call EXCEPT ![current_task] = c]
  PROVE  call' \in [Slots -> [op : {"none", "wait", "wait_any", "futex"},
                              arg : Slots \cup UAddrs \cup {-1}]]
  BY DEF TableOK

LEMMA NotWaitingType ==
  ASSUME TableOK, current_task \in Slots, NotWaiting
  PROVE  call' \in [Slots -> [op : {"none", "wait", "wait_any", "futex"},
                              arg : Slots \cup UAddrs \cup {-1}]]
<1>1. NoCall \in [op : {"none", "wait", "wait_any", "futex"},
                  arg : Slots \cup UAddrs \cup {-1}]
  BY DEF NoCall
<1> HIDE DEF NoCall
<1> QED BY Zenon, <1>1, CallTypes DEF NotWaiting

\* The slots a pid matches are created tasks, so the first is a slot.
LEMMA FirstMatch ==
  ASSUME TypeOK, NEW p
  PROVE  /\ SlotsOf(p) # {} => Min(SlotsOf(p)) \in 0 .. num_tasks - 1
         /\ LiveSlotsOf(p) # {} => Min(LiveSlotsOf(p)) \in 0 .. num_tasks - 1
<1>1. SlotsOf(p) \in SUBSET Nat /\ SlotsOf(p) \subseteq 0 .. num_tasks - 1
  BY DEF SlotsOf
<1>2. LiveSlotsOf(p) \in SUBSET Nat /\ LiveSlotsOf(p) \subseteq 0 .. num_tasks - 1
  BY <1>1 DEF LiveSlotsOf
<1> QED BY <1>1, <1>2, MinInSet

\* The calls that only reschedule.
LEMMA PlainCallOK ==
  ASSUME TypeOK, OneRunning, cpu = "user", NotWaiting,
         NEW st, Sane(st), SyscallReturn(st, num_tasks),
         UNCHANGED <<tableVars, wait_idx, futex_waiters, loopVars>>,
         irq_handler' \in Slots \cup {-1}
  PROVE  TableOK' /\ CpuOK'
<1>1. TableOK /\ current_task \in Slots /\ num_tasks <= MAX_TASKS
  BY TypeSplit, TaskFacts
<1>2. TableOK'
  BY <1>1, NotWaitingType DEF TableOK, tableVars, loopVars
<1>3. CpuOK'
  BY <1>1, ReturnOK DEF tableVars, loopVars
<1> QED BY <1>2, <1>3

\* A new task.
LEMMA NewTaskOK ==
  ASSUME TypeOK, OneRunning, NEW op, NewTask(op)
  PROVE  TableOK' /\ CpuOK'
<1> USE DEF NewTask, Issues
<1>1. TableOK /\ current_task \in Slots /\ Sane(state) /\ num_tasks \in 1 .. MAX_TASKS
  BY TypeSplit, TaskFacts
<1>2. CASE UNCHANGED <<tableVars, wait_idx>> /\ SyscallReturn(state, num_tasks)
  BY Zenon, <1>1, <1>2, PlainCallOK DEF TableOK
<1>3. CASE /\ num_tasks < MAX_TASKS
           /\ AddTask(next_pid)
           /\ next_pid' = next_pid + 1
           /\ SyscallReturn([state EXCEPT ![num_tasks] = TASK_READY], num_tasks + 1)
  <2>1. num_tasks \in Slots
    BY <1>1, <1>3, KernelAssumption DEF Slots
  <2>2. Sane([state EXCEPT ![num_tasks] = TASK_READY])
    BY Zenon, <2>1, SaneUpdates
  <2>3. CpuOK'
    <3>1. num_tasks' = num_tasks + 1 /\ cpu' = "user"
      BY <1>3 DEF AddTask, loopVars
    <3>2. num_tasks' <= MAX_TASKS
      BY <3>1, <1>1, <1>3, KernelAssumption
    <3> QED BY <3>1, <3>2, <2>2, <1>3, ReturnOK
  <2>4. TableOK'
    BY SMTT(30), <1>1, <1>3, <2>1, NotWaitingType DEF TableOK, AddTask, loopVars
  <2> QED BY <2>3, <2>4
<1> QED BY <1>2, <1>3

\* Swap-removal drops one position; what was last moves into the hole.
LEMMA SwapRemoveEffect ==
  ASSUME NEW S, NEW s \in Seq(S), NEW i \in 1 .. Len(s)
  PROVE  /\ SwapRemove(s, i) \in Seq(S)
         /\ Len(SwapRemove(s, i)) = Len(s) - 1
         /\ \A j \in 1 .. Len(s) - 1 :
              SwapRemove(s, i)[j] = IF j = i THEN s[Len(s)] ELSE s[j]
  BY DEF SwapRemove

\* One step keeps the types and the one RUNNING task.
LEMMA StepOK ==
  ASSUME TypeOK, OneRunning, [Next]_vars
  PROVE  TableOK' /\ CpuOK'
<1>0. TableOK /\ CpuOK
  BY TypeSplit
<1>1. CASE UNCHANGED vars
  BY <1>0, <1>1 DEF vars, TableOK, CpuOK, OneRunning
<1>2. CASE kmain
  <2>1. /\ cpu = "boot" /\ num_tasks = 0 /\ current_task = -1
        /\ 0 \in Slots /\ MAX_TASKS \in Nat \ {0}
    BY <1>0, <1>2, KernelAssumption DEF kmain, CpuOK, Slots
  <2>2. \A i \in Slots : state[i] # TASK_RUNNING
    BY <1>0, <2>1 DEF CpuOK, OneRunning, Slots
  <2>3. CASE cpu' = "idle" /\ UNCHANGED <<state, pid, wait_idx, num_tasks, current_task>>
    <3>1. TableOK'
      BY <1>0, <1>2, <2>3 DEF kmain, TableOK
    <3>2. CpuOK'
      BY <1>0, <2>2, <2>3 DEF CpuOK, OneRunning, Modes
    <3> QED BY <3>1, <3>2
  <2>4. CASE /\ AddTask(1)
             /\ state' = [state EXCEPT ![0] = TASK_RUNNING]
             /\ current_task' = 0
             /\ cpu' = "user"
    <3>1. TableOK'
      BY <1>0, <1>2, <2>1, <2>4 DEF kmain, TableOK, AddTask
    <3>2. num_tasks' = 1 /\ num_tasks' \in 0 .. MAX_TASKS
      BY <2>1, <2>4 DEF AddTask
    <3>3. state' \in [Slots -> States]
      BY Zenon, <1>0, <2>4 DEF CpuOK, States
    <3>4. OneRunning'
      BY <1>0, <2>1, <2>2, <2>4, <3>2 DEF OneRunning, CpuOK
    <3> QED BY <2>4, <3>1, <3>2, <3>3, <3>4 DEF CpuOK, Modes
  <2> QED BY <1>2, <2>3, <2>4 DEF kmain
<1>3. CASE other_call
  BY Zenon, <1>0, <1>3, PlainCallOK, TaskFacts DEF other_call, Issues, TableOK
<1>4. CASE sys_send
  <2>1. PICK p \in PidArgs, full \in BOOLEAN :
          SyscallReturn(IF LiveSlotsOf(p) = {} \/ full THEN state
                        ELSE Unblocked(state, Min(LiveSlotsOf(p))), num_tasks)
    BY <1>4 DEF sys_send
  <2>2. cpu = "user"
    BY <1>4 DEF sys_send, Issues
  <2>3. Sane(IF LiveSlotsOf(p) = {} \/ full THEN state
             ELSE Unblocked(state, Min(LiveSlotsOf(p))))
    BY Zenon, <2>2, FirstMatch, TaskFacts, SaneUpdates
  <2> QED BY Zenon, <1>0, <1>4, <2>1, <2>2, <2>3, PlainCallOK DEF sys_send, TableOK
<1>5. CASE sys_exit
  BY Zenon, <1>0, <1>5, PlainCallOK, SaneUpdates DEF sys_exit, Issues, TableOK
<1>6. CASE sys_wait
  <2>1. cpu = "user" /\ current_task \in Slots /\ num_tasks <= MAX_TASKS
    BY <1>6, TaskFacts DEF sys_wait, Issues
  <2>2. PICK p \in PidArgs :
          IF SlotsOf(p) = {} \/ state[Min(SlotsOf(p))] = TASK_EXITED
          THEN /\ NotWaiting
               /\ SyscallReturn(state, num_tasks)
               /\ UNCHANGED wait_idx
          ELSE /\ wait_idx' = [wait_idx EXCEPT ![Min(SlotsOf(p))] = current_task]
               /\ call' = [call EXCEPT ![current_task] = [op |-> "wait", arg |-> Min(SlotsOf(p))]]
               /\ SyscallReturn([state EXCEPT ![current_task] = TASK_BLOCKED], num_tasks)
    BY <1>6 DEF sys_wait
  <2>3. CASE SlotsOf(p) = {} \/ state[Min(SlotsOf(p))] = TASK_EXITED
    BY Zenon, <1>0, <1>6, <2>1, <2>2, <2>3, PlainCallOK, TaskFacts DEF sys_wait, TableOK
  <2>4. CASE ~(SlotsOf(p) = {} \/ state[Min(SlotsOf(p))] = TASK_EXITED)
    <3>1. Min(SlotsOf(p)) \in Slots
      BY <2>1, <2>4, FirstMatch, TaskFacts
    <3>2. call' \in [Slots -> [op : {"none", "wait", "wait_any", "futex"},
                               arg : Slots \cup UAddrs \cup {-1}]]
      <4>1. [op |-> "wait", arg |-> Min(SlotsOf(p))] \in
              [op : {"none", "wait", "wait_any", "futex"}, arg : Slots \cup UAddrs \cup {-1}]
        BY <3>1
      <4> QED BY Zenon, <4>1, <1>0, <2>1, <2>2, <2>4, CallTypes
    <3>3. TableOK'
      BY SMTT(30), <1>0, <1>6, <2>1, <2>2, <2>4, <3>1, <3>2 DEF TableOK, sys_wait, tableVars, loopVars
    <3>4. CpuOK'
      BY <1>6, <2>1, <2>2, <2>4, ReturnOK, SaneUpdates DEF sys_wait, tableVars, loopVars
    <3> QED BY <3>3, <3>4
  <2> QED BY <2>3, <2>4
<1>7. CASE sys_wait_any
  <2> DEFINE others == (0 .. num_tasks - 1) \ {current_task}
  <2>1. cpu = "user" /\ current_task \in Slots /\ num_tasks <= MAX_TASKS
    BY <1>7, TaskFacts DEF sys_wait_any, Issues
  <2>2. CASE \E i \in others : state[i] = TASK_EXITED
    BY Zenon, <1>0, <1>7, <2>1, <2>2, PlainCallOK, TaskFacts DEF sys_wait_any, TableOK
  <2>3. CASE ~(\E i \in others : state[i] = TASK_EXITED)
    <3>1. /\ wait_idx' = [i \in Slots |-> IF i \in others THEN current_task ELSE wait_idx[i]]
          /\ call' = [call EXCEPT ![current_task] = [op |-> "wait_any", arg |-> -1]]
          /\ SyscallReturn([state EXCEPT ![current_task] = TASK_BLOCKED], num_tasks)
      BY <1>7, <2>3 DEF sys_wait_any
    <3>2. call' \in [Slots -> [op : {"none", "wait", "wait_any", "futex"},
                               arg : Slots \cup UAddrs \cup {-1}]]
      <4>1. [op |-> "wait_any", arg |-> -1] \in
              [op : {"none", "wait", "wait_any", "futex"}, arg : Slots \cup UAddrs \cup {-1}]
        OBVIOUS
      <4> QED BY Zenon, <4>1, <1>0, <2>1, <3>1, CallTypes
    <3>3. TableOK'
      <4> HIDE DEF others
      <4> QED BY <1>0, <1>7, <2>1, <3>1, <3>2 DEF TableOK, sys_wait_any, tableVars, loopVars
    <3>4. CpuOK'
      BY <1>7, <2>1, <3>1, ReturnOK, SaneUpdates DEF sys_wait_any, tableVars, loopVars
    <3> QED BY <3>3, <3>4
  <2> QED BY <2>2, <2>3
<1>8. CASE sys_irq_register
  BY Zenon, <1>0, <1>8, PlainCallOK, TaskFacts DEF sys_irq_register, Issues, TableOK
<1>9. CASE sys_kill
  <2>1. PICK p \in PidArgs :
          SyscallReturn(IF LiveSlotsOf(p) = {} THEN state
                        ELSE [state EXCEPT ![Min(LiveSlotsOf(p))] = TASK_EXITED], num_tasks)
    BY <1>9 DEF sys_kill
  <2>2. cpu = "user"
    BY <1>9 DEF sys_kill, Issues
  <2>3. Sane(IF LiveSlotsOf(p) = {} THEN state
             ELSE [state EXCEPT ![Min(LiveSlotsOf(p))] = TASK_EXITED])
    BY Zenon, <2>2, FirstMatch, TaskFacts, SaneUpdates
  <2> QED BY Zenon, <1>0, <1>9, <2>1, <2>2, <2>3, PlainCallOK DEF sys_kill, TableOK
<1>10. CASE sys_spawn_at \/ sys_clone
  BY <1>10, NewTaskOK DEF sys_spawn_at, sys_clone
<1>11. CASE sys_shutdown
  <2>1. TableOK'
    BY Zenon, <1>0, <1>11, NotWaitingType, TaskFacts DEF sys_shutdown, Issues, TableOK, tableVars
  <2>2. CpuOK'
    BY <1>0, <1>11 DEF sys_shutdown, Issues, CpuOK, OneRunning, Modes, tableVars
  <2> QED BY <2>1, <2>2
<1>12. CASE sys_nanosleep
  <2>1. cpu = "user" /\ current_task \in Slots
    BY <1>12, TaskFacts DEF sys_nanosleep, Issues
  <2>2. CASE SyscallReturn(Awake, num_tasks) /\ UNCHANGED loopVars
    BY Zenon, <1>0, <1>12, <2>1, <2>2, PlainCallOK, SaneUpdates DEF sys_nanosleep, TableOK
  <2>3. CASE /\ sleep_left' \in 1 .. MaxSleep
             /\ cpu' = "sleep"
             /\ state' = [state EXCEPT ![current_task] = TASK_BLOCKED]
             /\ UNCHANGED <<current_task, fw>>
    <3>1. TableOK'
      BY <1>0, <1>12, <2>1, <2>3, NotWaitingType, KernelAssumption
      DEF sys_nanosleep, TableOK, tableVars
    <3>2. CpuOK'
      <4>1. sleep_left' > 0
        BY <2>3, KernelAssumption
      <4> QED BY <1>0, <1>12, <2>1, <2>3, <4>1
      DEF sys_nanosleep, CpuOK, OneRunning, Modes, States, tableVars, TASK_BLOCKED, TASK_RUNNING
    <3> QED BY <3>1, <3>2
  <2> QED BY <1>12, <2>2, <2>3 DEF sys_nanosleep
<1>13. CASE sleep_tick
  <2>1. cpu = "sleep" /\ sleep_left \in 0 .. MaxSleep /\ sleep_left > 0 /\ MaxSleep \in Nat
    BY <1>0, <1>13, KernelAssumption DEF sleep_tick, TableOK, CpuOK
  <2>2. sleep_left' \in 0 .. MaxSleep
    BY <1>13, <2>1 DEF sleep_tick
  <2>3. TableOK'
    BY <1>0, <1>13, <2>2 DEF sleep_tick, TableOK, tableVars
  <2>4. CASE sleep_left > 1
    <3>1. sleep_left' > 0
      BY <1>13, <2>1, <2>4 DEF sleep_tick
    <3>2. UNCHANGED <<state, current_task, cpu, num_tasks>>
      BY <1>13, <2>4 DEF sleep_tick, tableVars
    <3>3. CpuOK'
      BY <1>0, <3>1, <3>2 DEF CpuOK, OneRunning
    <3> QED BY <2>3, <3>3
  <2>5. CASE ~(sleep_left > 1)
    <3>1. cpu' = "user" /\ num_tasks' = num_tasks /\ SyscallReturn(Awake, num_tasks)
      BY <1>13, <2>5 DEF sleep_tick, tableVars
    <3>2. Sane(Awake) /\ num_tasks <= MAX_TASKS
      BY <2>1, SaneUpdates, TaskFacts
    <3>3. CpuOK'
      BY <2>1, <3>1, <3>2, ReturnOK
    <3> QED BY <2>3, <3>3
  <2> QED BY <2>4, <2>5
<1>14. CASE futex_wait
  <2>1. cpu = "user" /\ current_task \in Slots /\ num_tasks <= MAX_TASKS
    BY <1>14, TaskFacts DEF futex_wait, Issues
  <2>2. PICK u \in UAddrs, equal \in BOOLEAN :
       IF equal /\ Len(futex_waiters) < MAX_FUTEX_WAITERS
       THEN /\ futex_waiters' = Append(futex_waiters, [uaddr |-> u, task_idx |-> current_task])
            /\ call' = [call EXCEPT ![current_task] = [op |-> "futex", arg |-> u]]
            /\ SyscallReturn([state EXCEPT ![current_task] = TASK_BLOCKED], num_tasks)
       ELSE /\ NotWaiting
            /\ SyscallReturn(state, num_tasks)
            /\ UNCHANGED futex_waiters
    BY <1>14 DEF futex_wait
  <2>3. CASE ~(equal /\ Len(futex_waiters) < MAX_FUTEX_WAITERS)
    BY Zenon, <1>0, <1>14, <2>1, <2>2, <2>3, PlainCallOK, TaskFacts DEF futex_wait, TableOK
  <2>4. CASE equal /\ Len(futex_waiters) < MAX_FUTEX_WAITERS
    <3>1. call' \in [Slots -> [op : {"none", "wait", "wait_any", "futex"},
                               arg : Slots \cup UAddrs \cup {-1}]]
      <4>1. [op |-> "futex", arg |-> u] \in
              [op : {"none", "wait", "wait_any", "futex"}, arg : Slots \cup UAddrs \cup {-1}]
        OBVIOUS
      <4> QED BY Zenon, <4>1, <1>0, <2>1, <2>2, <2>4, CallTypes
    <3>2. /\ futex_waiters' \in Seq(FutexEntries)
          /\ Len(futex_waiters') <= MAX_FUTEX_WAITERS
      <4>1. [uaddr |-> u, task_idx |-> current_task] \in FutexEntries
        BY <2>1 DEF FutexEntries
      <4>2. futex_waiters \in Seq(FutexEntries) /\ Len(futex_waiters) \in Nat
        BY <1>0 DEF TableOK
      <4> HIDE DEF FutexEntries
      <4> QED BY SMTT(30), <2>2, <2>4, <4>1, <4>2, KernelAssumption
    <3>3. TableOK'
      BY <1>0, <1>14, <3>1, <3>2 DEF TableOK, futex_wait, tableVars, loopVars
    <3>4. CpuOK'
      BY <1>14, <2>1, <2>2, <2>4, ReturnOK, SaneUpdates DEF futex_wait, tableVars, loopVars
    <3> QED BY <3>3, <3>4
  <2> QED BY <2>3, <2>4
<1>15. CASE futex_wake
  <2>1. cpu = "user" /\ current_task \in Slots
    BY <1>15, TaskFacts DEF futex_wake, Issues
  <2>2. TableOK'
    BY <1>0, <1>15, <2>1, NotWaitingType DEF futex_wake, TableOK, tableVars
  <2>3. CpuOK'
    BY <1>0, <1>15, <2>1 DEF futex_wake, CpuOK, OneRunning, Modes, tableVars
  <2> QED BY <2>2, <2>3
<1>16. CASE wake_scan
  <2> DEFINE e == futex_waiters[fw.i]
  <2>1. /\ cpu = "wake" /\ fw.i \in Nat \ {0} /\ fw.woken \in Nat
        /\ futex_waiters \in Seq(FutexEntries)
        /\ Len(futex_waiters) \in Nat
        /\ fw.i \in 1 .. Len(futex_waiters)
    BY <1>0, <1>16 DEF wake_scan, Scanning, TableOK
  <2>2. e \in FutexEntries
    BY <2>1
  <2>3. e.task_idx \in Slots
    BY <2>2 DEF FutexEntries
  <2>4. UNCHANGED <<current_task, num_tasks, cpu, sleep_left, pid, next_pid, wait_idx,
                    irq_handler, call>>
    BY <1>16 DEF wake_scan, tableVars
  <2>5. CASE e.uaddr = fw.uaddr
    <3>1. /\ futex_waiters' = SwapRemove(futex_waiters, fw.i)
          /\ state' = Unblocked(state, e.task_idx)
          /\ fw' = IF state[e.task_idx] = TASK_BLOCKED THEN [fw EXCEPT !.woken = @ + 1] ELSE fw
      BY <1>16, <2>5 DEF wake_scan
    <3>2. /\ futex_waiters' \in Seq(FutexEntries)
          /\ Len(futex_waiters') = Len(futex_waiters) - 1
      BY <2>1, <3>1, SwapRemoveEffect
    <3>3. Len(futex_waiters') <= MAX_FUTEX_WAITERS
      BY <1>0, <2>1, <3>2, KernelAssumption DEF TableOK
    <3>4. fw' \in [uaddr : UAddrs \cup {-1}, val : 0 .. MaxWake, i : Nat \ {0}, woken : Nat]
      <4>1. fw \in [uaddr : UAddrs \cup {-1}, val : 0 .. MaxWake, i : Nat \ {0}, woken : Nat]
        BY <1>0 DEF TableOK
      <4>2. fw.woken + 1 \in Nat
        BY <2>1
      <4> QED BY <3>1, <4>1, <4>2
    <3>5. TableOK'
      BY Zenon, <1>0, <2>4, <3>2, <3>3, <3>4 DEF TableOK
    <3>6. Sane(state')
      BY Zenon, <2>1, <2>3, <3>1, SaneUpdates
    <3>7. CpuOK'
      BY <1>0, <2>1, <2>4, <3>6 DEF CpuOK, Sane, OneRunning
    <3> QED BY <3>5, <3>7
  <2>6. CASE e.uaddr # fw.uaddr
    <3>1. fw' = [fw EXCEPT !.i = @ + 1] /\ UNCHANGED <<futex_waiters, state>>
      BY <1>16, <2>6 DEF wake_scan
    <3>2. fw' \in [uaddr : UAddrs \cup {-1}, val : 0 .. MaxWake, i : Nat \ {0}, woken : Nat]
      <4>1. fw \in [uaddr : UAddrs \cup {-1}, val : 0 .. MaxWake, i : Nat \ {0}, woken : Nat]
        BY <1>0 DEF TableOK
      <4>2. fw.i + 1 \in Nat \ {0}
        BY <2>1
      <4> QED BY <3>1, <4>1, <4>2
    <3>3. TableOK'
      BY <1>0, <2>4, <3>1, <3>2 DEF TableOK
    <3>4. CpuOK'
      BY <1>0, <2>4, <3>1 DEF CpuOK, OneRunning
    <3> QED BY <3>3, <3>4
  <2> QED BY <2>5, <2>6
<1>17. CASE wake_return
  <2>1. /\ cpu = "wake" /\ cpu' = "user" /\ num_tasks' = num_tasks
        /\ SyscallReturn(state, num_tasks)
    BY <1>17 DEF wake_return, tableVars
  <2>2. TableOK'
    <3>1. NoWake \in [uaddr : UAddrs \cup {-1}, val : 0 .. MaxWake, i : Nat \ {0}, woken : Nat]
      BY KernelAssumption DEF NoWake
    <3> QED BY <1>0, <1>17, <3>1 DEF wake_return, TableOK, tableVars
  <2>3. CpuOK'
    BY <2>1, TaskFacts, ReturnOK
  <2> QED BY <2>2, <2>3
<1>18. CASE timer_irq
  <2> DEFINE st == [state EXCEPT ![current_task] = TASK_READY]
             next == schedule_next(st, num_tasks)
  <2>1. /\ cpu = "user" /\ num_tasks > 1 /\ Resume(st, next)
        /\ UNCHANGED <<num_tasks, cpu, sleep_left, pid, next_pid, wait_idx, irq_handler,
                       futex_waiters, fw, call>>
    BY <1>18 DEF timer_irq, schedule, Reschedule, tableVars, loopVars
  <2>2. TableOK'
    BY <1>0, <2>1 DEF TableOK
  <2>3. next \in 0 .. num_tasks - 1 /\ next \in Slots
    BY <2>1, TaskFacts, ScheduleNextRange
  <2>4. st \in [Slots -> States] /\ \A i \in Slots : st[i] # TASK_RUNNING
    BY <2>1, TaskFacts DEF Sane, States, TASK_READY, TASK_RUNNING
  <2>5. /\ state' \in [Slots -> States]
        /\ current_task' = next
        /\ \A i \in Slots : state'[i] = TASK_RUNNING => i = current_task'
        /\ state'[current_task'] = TASK_RUNNING
    <3> HIDE DEF st, next
    <3> QED BY <2>1, <2>3, <2>4, ResumeEffect
  <2>6. CpuOK'
    <3> HIDE DEF next
    <3>1. OneRunning'
      BY <2>5 DEF OneRunning
    <3>2. current_task' >= 0
      BY <2>3, <2>5
    <3>3. current_task' \in -1 .. num_tasks' - 1
      BY <2>1, <2>3, <2>5
    <3> QED BY <1>0, <2>1, <2>5, <3>1, <3>2, <3>3 DEF CpuOK
  <2> QED BY <2>2, <2>6
<1>19. CASE keyboard_irq
  <2>1. irq_handler \in Slots
    BY <1>0, <1>19 DEF keyboard_irq, TableOK, Slots
  <2>2. TableOK'
    BY <1>0, <1>19 DEF keyboard_irq, TableOK, tableVars, loopVars
  <2>3. CpuOK'
    BY <1>0, <1>19, <2>1
    DEF keyboard_irq, Unblocked, CpuOK, OneRunning, tableVars, loopVars, States,
        TASK_BLOCKED, TASK_READY, TASK_RUNNING
  <2> QED BY <2>2, <2>3
<1>20. CASE page_fault
  <2> DEFINE ready == {i \in 0 .. num_tasks - 1 : Exited[i] = TASK_READY}
  <2>1. cpu = "user" /\ current_task \in Slots /\ Sane(Exited)
    BY <1>20, TaskFacts, SaneUpdates DEF page_fault, Issues
  <2>2. UNCHANGED <<num_tasks, sleep_left, pid, next_pid, wait_idx, irq_handler,
                    futex_waiters, fw>>
    BY <1>20 DEF page_fault, tableVars
  <2>3. TableOK'
    BY <1>0, <1>20, <2>1, <2>2, NotWaitingType DEF page_fault, TableOK
  <2>4. CASE ready = {}
    <3>1. cpu' = "halt" /\ state' = Exited /\ UNCHANGED current_task
      BY <1>20, <2>4 DEF page_fault
    <3>2. CpuOK'
      BY <1>0, <2>1, <2>2, <3>1 DEF CpuOK, OneRunning, Sane, Modes
    <3> QED BY <2>3, <3>2
  <2>5. CASE ready # {}
    <3>1. Resume(Exited, Min(ready)) /\ UNCHANGED cpu
      BY <1>20, <2>5 DEF page_fault
    <3>2. ready \in SUBSET Nat
      BY <2>1, TaskFacts
    <3>3. Min(ready) \in 0 .. num_tasks - 1
      BY <2>5, <3>2, MinInSet
    <3>4. Min(ready) \in Slots
      BY <2>1, <3>3, TaskFacts
    <3>5. \A i \in Slots : Exited[i] # TASK_RUNNING
      BY <2>1 DEF Sane, Exited, TASK_EXITED, TASK_RUNNING
    <3>6. /\ state' \in [Slots -> States]
          /\ current_task' = Min(ready)
          /\ \A i \in Slots : state'[i] = TASK_RUNNING => i = current_task'
          /\ state'[current_task'] = TASK_RUNNING
      <4> HIDE DEF ready
      <4> QED BY <2>1, <3>1, <3>4, <3>5, ResumeEffect DEF Sane
    <3>7. CpuOK'
      <4> HIDE DEF ready
      <4>1. OneRunning'
        BY <3>6 DEF OneRunning
      <4>2. current_task' >= 0
        BY <3>3, <3>6
      <4>3. current_task' \in -1 .. num_tasks' - 1
        BY <2>2, <3>3, <3>6
      <4> QED BY <1>0, <2>1, <2>2, <3>1, <3>6, <4>1, <4>2, <4>3 DEF CpuOK
    <3> QED BY <2>3, <3>7
  <2> QED BY Zenon, <2>4, <2>5
<1>21. CASE panic
  BY <1>0, <1>21 DEF panic, Issues, TableOK, CpuOK, OneRunning, Modes, tableVars
<1> QED
  BY <1>1, <1>2, <1>3, <1>4, <1>5, <1>6, <1>7, <1>8, <1>9, <1>10, <1>11, <1>12, <1>13,
     <1>14, <1>15, <1>16, <1>17, <1>18, <1>19, <1>20, <1>21
  DEF Next, Syscall

LEMMA InitOK == Init => TableOK /\ CpuOK
<1> SUFFICES ASSUME Init PROVE TableOK /\ CpuOK
  OBVIOUS
<1>1. NoCall \in [op : {"none", "wait", "wait_any", "futex"}, arg : Slots \cup UAddrs \cup {-1}]
  BY DEF NoCall
<1>2. NoWake \in [uaddr : UAddrs \cup {-1}, val : 0 .. MaxWake, i : Nat \ {0}, woken : Nat]
  BY KernelAssumption DEF NoWake
<1>3. 0 \in Slots
  BY KernelAssumption DEF Slots
<1>4. TableOK
  BY <1>1, <1>2, <1>3, KernelAssumption DEF Init, TableOK
<1>5. CpuOK
  BY KernelAssumption DEF Init, CpuOK, OneRunning, Modes, States, TASK_EXITED, TASK_RUNNING
<1> QED BY <1>4, <1>5

LEMMA TypeAndRunning == Spec => [](TypeOK /\ OneRunning)
<1>1. Init => TypeOK /\ OneRunning
  BY InitOK, TypeSplit
<1>2. TypeOK /\ OneRunning /\ [Next]_vars => TypeOK' /\ OneRunning'
  <2>1. TypeOK /\ OneRunning /\ [Next]_vars => TableOK' /\ CpuOK'
    BY StepOK
  <2>2. TableOK' /\ CpuOK' => TypeOK' /\ OneRunning'
    BY TypeSplit, PTL
  <2> QED BY <2>1, <2>2
<1> QED BY <1>1, <1>2, PTL DEF Spec

\* Whatever the programs do, every table of the kernel stays in its bounds:
\* indices kept in wait_idx, irq_handlers and the futex table are slots.
THEOREM TypeCorrect == Spec => []TypeOK
  BY TypeAndRunning, PTL

\* Whatever the programs do, no task but current_task is RUNNING, and with
\* two or more tasks the one in ring 3 is.
THEOREM OneRunningCorrect == Spec => []OneRunning
  BY TypeAndRunning, PTL

-----------------------------------------------------------------------------
(* Pids.                                                                   *)

\* Pids are handed out in slot order: init is 1, the others count from 8.
PidOrder ==
  /\ num_tasks = 0 => cpu \in {"boot", "idle"} /\ next_pid = 8
  /\ num_tasks > 0 => next_pid = num_tasks + 7
  /\ \A i \in 0 .. num_tasks - 1 : pid[i] = IF i = 0 THEN 1 ELSE i + 7

\* Only kmain and the two calls that create a task touch the columns.
LEMMA PidOrderStep ==
  ASSUME TypeOK, OneRunning, PidOrder, [Next]_vars
  PROVE  PidOrder'
<1>0. num_tasks \in Nat /\ pid \in [Slots -> Nat] /\ MAX_TASKS \in Nat \ {0}
  BY KernelAssumption DEF TypeOK
<1>1. CASE kmain
  <2>1. num_tasks = 0 /\ next_pid = 8 /\ next_pid' = 8 /\ 0 \in Slots
    BY <1>0, <1>1 DEF kmain, PidOrder, TypeOK, Slots
  <2>2. CASE cpu' = "idle" /\ UNCHANGED <<pid, num_tasks>>
    BY <2>1, <2>2 DEF PidOrder
  <2>3. CASE AddTask(1)
    BY <1>0, <2>1, <2>3 DEF AddTask, PidOrder
  <2> QED BY <1>1, <2>2, <2>3 DEF kmain
<1>2. ASSUME NEW op, NewTask(op) PROVE PidOrder'
  <2>1. cpu = "user" /\ num_tasks \in 1 .. MAX_TASKS /\ next_pid = num_tasks + 7
    BY <1>2, TaskFacts DEF NewTask, Issues, PidOrder
  <2>2. CASE UNCHANGED tableVars
    BY <1>2, <2>1, <2>2 DEF NewTask, PidOrder, tableVars, loopVars
  <2>3. CASE num_tasks < MAX_TASKS /\ AddTask(next_pid) /\ next_pid' = next_pid + 1
    <3>1. /\ num_tasks' = num_tasks + 1 /\ next_pid' = num_tasks' + 7
          /\ pid' = [pid EXCEPT ![num_tasks] = num_tasks + 7] /\ num_tasks \in Slots
      BY <1>0, <2>1, <2>3 DEF AddTask, Slots
    <3>2. \A i \in 0 .. num_tasks' - 1 : pid'[i] = IF i = 0 THEN 1 ELSE i + 7
      BY <1>0, <2>1, <3>1 DEF PidOrder
    <3> QED BY <1>0, <3>1, <3>2 DEF PidOrder
  <2> QED BY <1>2, <2>2, <2>3 DEF NewTask
<1>3. CASE UNCHANGED tableVars /\ (num_tasks = 0 => UNCHANGED cpu)
  BY <1>3 DEF PidOrder, tableVars
<1>4. cpu \notin {"boot", "idle"} => num_tasks # 0
  BY DEF PidOrder
<1> QED
  BY Zenon, <1>1, <1>2, <1>3, <1>4
  DEF Next, Syscall, vars, tableVars, loopVars, other_call, sys_send, sys_exit, sys_wait,
      sys_wait_any, sys_irq_register, sys_kill, sys_spawn_at, sys_clone, sys_shutdown,
      sys_nanosleep, futex_wait, futex_wake, sleep_tick, wake_scan, wake_return, timer_irq,
      keyboard_irq, page_fault, panic, Issues

\* No two tasks that were ever created have the same pid.
THEOREM PidsUniqueCorrect == Spec => []PidsUnique
<1>1. Init => PidOrder
  BY DEF Init, PidOrder
<1>2. TypeOK /\ OneRunning /\ PidOrder /\ [Next]_vars => PidOrder'
  BY PidOrderStep
<1>3. TypeOK /\ PidOrder => PidsUnique
  <2> SUFFICES ASSUME num_tasks \in Nat, PidOrder, NEW i \in 0 .. num_tasks - 1,
                      NEW j \in 0 .. num_tasks - 1, pid[i] = pid[j]
               PROVE  i = j
    BY DEF TypeOK, PidsUnique
  <2>1. (IF i = 0 THEN 1 ELSE i + 7) = (IF j = 0 THEN 1 ELSE j + 7)
    BY DEF PidOrder
  <2>2. i \in Nat /\ j \in Nat
    OBVIOUS
  <2>3. \A a, b \in Nat :
          (IF a = 0 THEN 1 ELSE a + 7) = (IF b = 0 THEN 1 ELSE b + 7) => a = b
    OBVIOUS
  <2> QED BY Zenon, <2>1, <2>2, <2>3
<1> QED BY <1>1, <1>2, <1>3, TypeAndRunning, PTL DEF Spec

-----------------------------------------------------------------------------
(* The futex table.                                                        *)

\* A step that keeps the table and puts nobody to sleep on a futex.
LEMMA SleepersKept ==
  ASSUME FutexSleeperQueued, UNCHANGED futex_waiters,
         \A i \in Slots : state'[i] = TASK_BLOCKED /\ call'[i].op = "futex" =>
                            state[i] = TASK_BLOCKED /\ call'[i] = call[i]
  PROVE  FutexSleeperQueued'
  BY DEF FutexSleeperQueued

\* So does a system call that ends with its caller not in FUTEX_WAIT.
LEMMA CallKeepsSleepers ==
  ASSUME TypeOK, OneRunning, FutexSleeperQueued, cpu \notin {"boot", "idle"},
         NEW st, Sane(st), NEW n \in {num_tasks, num_tasks + 1}, n <= MAX_TASKS,
         SyscallReturn(st, n),
         \A i \in Slots \ {current_task} : st[i] = TASK_BLOCKED => state[i] = TASK_BLOCKED,
         NEW c, c.op # "futex", call' = [call EXCEPT ![current_task] = c],
         UNCHANGED futex_waiters
  PROVE  FutexSleeperQueued'
<1>1. n \in 1 .. MAX_TASKS /\ current_task \in 0 .. n - 1 /\ current_task \in Slots
  BY TaskFacts
<1>2. \A i \in Slots : state'[i] = TASK_BLOCKED => st[i] = TASK_BLOCKED
  BY <1>1, SyscallReturnEffect
<1>3. call \in [Slots -> [op : {"none", "wait", "wait_any", "futex"},
                          arg : Slots \cup UAddrs \cup {-1}]]
  BY DEF TypeOK
<1> QED BY <1>1, <1>2, <1>3, SleepersKept

\* Calls that end with NotWaiting.
LEMMA NotWaitingKeepsSleepers ==
  ASSUME TypeOK, OneRunning, FutexSleeperQueued, cpu \notin {"boot", "idle"},
         NEW st, Sane(st), NEW n \in {num_tasks, num_tasks + 1}, n <= MAX_TASKS,
         SyscallReturn(st, n),
         \A i \in Slots \ {current_task} : st[i] = TASK_BLOCKED => state[i] = TASK_BLOCKED,
         NotWaiting, UNCHANGED futex_waiters
  PROVE  FutexSleeperQueued'
<1>1. NoCall.op # "futex"
  BY DEF NoCall
<1> HIDE DEF NoCall
<1> QED BY Zenon, <1>1, CallKeepsSleepers DEF NotWaiting

\* The same updates as in SaneUpdates wake tasks but block only the caller.
LEMMA UpdatesBlockNobodyElse ==
  ASSUME TypeOK, OneRunning, cpu \notin {"boot", "idle"}
  PROVE  \A i \in Slots \ {current_task} :
           /\ [state EXCEPT ![current_task] = TASK_BLOCKED][i] = TASK_BLOCKED
                => state[i] = TASK_BLOCKED
           /\ Awake[i] = TASK_BLOCKED => state[i] = TASK_BLOCKED
           /\ Exited[i] = TASK_BLOCKED => state[i] = TASK_BLOCKED
           /\ \A j \in Slots :
                /\ Unblocked(state, j)[i] = TASK_BLOCKED => state[i] = TASK_BLOCKED
                /\ [state EXCEPT ![j] = TASK_EXITED][i] = TASK_BLOCKED => state[i] = TASK_BLOCKED
                /\ [state EXCEPT ![j] = TASK_READY][i] = TASK_BLOCKED => state[i] = TASK_BLOCKED
<1>1. state \in [Slots -> States] /\ current_task \in Slots
      /\ wait_idx[current_task] \in Slots \cup {-1}
  BY TaskFacts DEF TypeOK
<1> TAKE i \in Slots \ {current_task}
<1>2. [state EXCEPT ![current_task] = TASK_BLOCKED][i] = state[i] /\ Awake[i] = state[i]
  BY <1>1 DEF Awake
<1>3. Exited[i] = TASK_BLOCKED => state[i] = TASK_BLOCKED
  BY <1>1 DEF Exited, TASK_READY, TASK_BLOCKED
<1>4. \A j \in Slots :
        /\ Unblocked(state, j)[i] = TASK_BLOCKED => state[i] = TASK_BLOCKED
        /\ [state EXCEPT ![j] = TASK_EXITED][i] = TASK_BLOCKED => state[i] = TASK_BLOCKED
        /\ [state EXCEPT ![j] = TASK_READY][i] = TASK_BLOCKED => state[i] = TASK_BLOCKED
  BY <1>1 DEF Unblocked, TASK_READY, TASK_BLOCKED, TASK_EXITED
<1> QED BY <1>2, <1>3, <1>4

\* What FUTEX_WAIT appends comes last and leaves the other entries in place.
LEMMA AppendEntry ==
  ASSUME futex_waiters \in Seq(FutexEntries), NEW u \in UAddrs, NEW t \in Slots,
         NEW s, s = Append(futex_waiters, [uaddr |-> u, task_idx |-> t])
  PROVE  /\ Len(s) = Len(futex_waiters) + 1
         /\ s[Len(futex_waiters) + 1] = [uaddr |-> u, task_idx |-> t]
         /\ \A k \in 1 .. Len(futex_waiters) : s[k] = futex_waiters[k]
<1> DEFINE e == [uaddr |-> u, task_idx |-> t]
<1>1. e \in FutexEntries
  BY DEF FutexEntries
<1>2. s = Append(futex_waiters, e)
  OBVIOUS
<1> HIDE DEF e
<1>3. /\ Len(s) = Len(futex_waiters) + 1
      /\ s[Len(futex_waiters) + 1] = e
      /\ \A k \in 1 .. Len(futex_waiters) : s[k] = futex_waiters[k]
  BY <1>1, <1>2
<1> QED BY <1>3 DEF e

\* One step keeps every futex sleeper in the table.
LEMMA SleeperStep ==
  ASSUME TypeOK, OneRunning, FutexSleeperQueued, [Next]_vars
  PROVE  FutexSleeperQueued'
<1>0. /\ state \in [Slots -> States]
      /\ call \in [Slots -> [op : {"none", "wait", "wait_any", "futex"},
                             arg : Slots \cup UAddrs \cup {-1}]]
      /\ futex_waiters \in Seq(FutexEntries) /\ Len(futex_waiters) \in Nat
  BY DEF TypeOK
<1>a. cpu \notin {"boot", "idle"} =>
        /\ num_tasks \in {num_tasks, num_tasks + 1} /\ num_tasks <= MAX_TASKS
        /\ Sane(state) /\ current_task \in Slots
  BY TaskFacts
<1>1. CASE UNCHANGED vars
  BY <1>1 DEF vars, FutexSleeperQueued
<1>2. CASE kmain
  BY <1>0, <1>2, SleepersKept DEF kmain, AddTask, TASK_RUNNING, TASK_BLOCKED
<1>3. CASE other_call
  BY <1>3, <1>a, NotWaitingKeepsSleepers DEF other_call, Issues
<1>4. CASE sys_send
  <2>1. PICK p \in PidArgs, full \in BOOLEAN :
          SyscallReturn(IF LiveSlotsOf(p) = {} \/ full THEN state
                        ELSE Unblocked(state, Min(LiveSlotsOf(p))), num_tasks)
    BY Zenon, <1>4 DEF sys_send
  <2>2. cpu = "user" /\ NotWaiting /\ UNCHANGED futex_waiters
    BY <1>4 DEF sys_send, Issues
  <2>3. LiveSlotsOf(p) # {} => Min(LiveSlotsOf(p)) \in Slots
    BY <2>2, FirstMatch, TaskFacts
  <2>4. CASE LiveSlotsOf(p) = {} \/ full
    BY Zenon, <1>a, <2>1, <2>2, <2>4, NotWaitingKeepsSleepers
  <2>5. CASE ~(LiveSlotsOf(p) = {} \/ full)
    <3>1. Sane(Unblocked(state, Min(LiveSlotsOf(p))))
      BY Zenon, <2>2, <2>3, <2>5, SaneUpdates
    <3>2. \A i \in Slots \ {current_task} :
            Unblocked(state, Min(LiveSlotsOf(p)))[i] = TASK_BLOCKED => state[i] = TASK_BLOCKED
      BY <2>2, <2>3, <2>5, UpdatesBlockNobodyElse
    <3> QED BY <1>a, <2>1, <2>2, <2>5, <3>1, <3>2, NotWaitingKeepsSleepers
  <2> QED BY <2>4, <2>5
<1>5. CASE sys_exit
  BY <1>5, <1>a, NotWaitingKeepsSleepers, SaneUpdates, UpdatesBlockNobodyElse
  DEF sys_exit, Issues
<1>6. CASE sys_wait
  <2>1. cpu = "user" /\ UNCHANGED futex_waiters
    BY <1>6 DEF sys_wait, Issues
  <2>2. CASE NotWaiting /\ SyscallReturn(state, num_tasks)
    BY <1>a, <2>1, <2>2, NotWaitingKeepsSleepers
  <2>3. CASE \E i : /\ call' = [call EXCEPT ![current_task] = [op |-> "wait", arg |-> i]]
                    /\ SyscallReturn([state EXCEPT ![current_task] = TASK_BLOCKED], num_tasks)
    <3>1. PICK i : /\ call' = [call EXCEPT ![current_task] = [op |-> "wait", arg |-> i]]
                   /\ SyscallReturn([state EXCEPT ![current_task] = TASK_BLOCKED], num_tasks)
      BY Zenon, <2>3
    <3>2. [op |-> "wait", arg |-> i].op # "futex"
      OBVIOUS
    <3>3. Sane([state EXCEPT ![current_task] = TASK_BLOCKED])
      BY <2>1, SaneUpdates
    <3>4. \A k \in Slots \ {current_task} :
            [state EXCEPT ![current_task] = TASK_BLOCKED][k] = TASK_BLOCKED
              => state[k] = TASK_BLOCKED
      BY <2>1, UpdatesBlockNobodyElse
    <3> QED BY Zenon, <1>a, <2>1, <3>1, <3>2, <3>3, <3>4, CallKeepsSleepers
  <2> QED BY Zenon, <1>6, <2>2, <2>3 DEF sys_wait
<1>7. CASE sys_wait_any
  <2>1. cpu = "user" /\ UNCHANGED futex_waiters
    BY <1>7 DEF sys_wait_any, Issues
  <2>2. CASE NotWaiting /\ SyscallReturn(state, num_tasks)
    BY <1>a, <2>1, <2>2, NotWaitingKeepsSleepers
  <2>3. CASE /\ call' = [call EXCEPT ![current_task] = [op |-> "wait_any", arg |-> -1]]
             /\ SyscallReturn([state EXCEPT ![current_task] = TASK_BLOCKED], num_tasks)
    <3>1. [op |-> "wait_any", arg |-> -1].op # "futex"
      OBVIOUS
    <3>2. Sane([state EXCEPT ![current_task] = TASK_BLOCKED])
      BY <2>1, SaneUpdates
    <3>3. \A k \in Slots \ {current_task} :
            [state EXCEPT ![current_task] = TASK_BLOCKED][k] = TASK_BLOCKED
              => state[k] = TASK_BLOCKED
      BY <2>1, UpdatesBlockNobodyElse
    <3> QED BY Zenon, <1>a, <2>1, <2>3, <3>1, <3>2, <3>3, CallKeepsSleepers
  <2> QED BY <1>7, <2>2, <2>3 DEF sys_wait_any
<1>8. CASE sys_irq_register
  BY <1>8, <1>a, NotWaitingKeepsSleepers DEF sys_irq_register, Issues
<1>9. CASE sys_kill
  <2>1. PICK p \in PidArgs :
          SyscallReturn(IF LiveSlotsOf(p) = {} THEN state
                        ELSE [state EXCEPT ![Min(LiveSlotsOf(p))] = TASK_EXITED], num_tasks)
    BY <1>9 DEF sys_kill
  <2>2. cpu = "user" /\ NotWaiting /\ UNCHANGED futex_waiters
    BY <1>9 DEF sys_kill, Issues
  <2>3. LiveSlotsOf(p) # {} => Min(LiveSlotsOf(p)) \in Slots
    BY <2>2, FirstMatch, TaskFacts
  <2>4. CASE LiveSlotsOf(p) = {}
    BY <1>a, <2>1, <2>2, <2>4, NotWaitingKeepsSleepers
  <2>5. CASE LiveSlotsOf(p) # {}
    <3>1. Sane([state EXCEPT ![Min(LiveSlotsOf(p))] = TASK_EXITED])
      BY Zenon, <2>2, <2>3, <2>5, SaneUpdates
    <3>2. \A i \in Slots \ {current_task} :
            [state EXCEPT ![Min(LiveSlotsOf(p))] = TASK_EXITED][i] = TASK_BLOCKED
              => state[i] = TASK_BLOCKED
      BY <2>2, <2>3, <2>5, UpdatesBlockNobodyElse
    <3> QED BY Zenon, <1>a, <2>1, <2>2, <2>5, <3>1, <3>2, NotWaitingKeepsSleepers
  <2> QED BY <2>4, <2>5
<1>10. ASSUME NEW op, NewTask(op) PROVE FutexSleeperQueued'
  <2>1. cpu = "user" /\ NotWaiting /\ UNCHANGED futex_waiters
    BY <1>10 DEF NewTask, Issues
  <2>2. CASE SyscallReturn(state, num_tasks)
    BY <1>a, <2>1, <2>2, NotWaitingKeepsSleepers
  <2>3. CASE /\ num_tasks < MAX_TASKS
             /\ SyscallReturn([state EXCEPT ![num_tasks] = TASK_READY], num_tasks + 1)
    <3>1. num_tasks \in Slots /\ num_tasks + 1 <= MAX_TASKS
      BY <2>1, <2>3, TaskFacts DEF Slots
    <3>2. Sane([state EXCEPT ![num_tasks] = TASK_READY])
      BY Zenon, <2>1, <3>1, SaneUpdates
    <3>3. \A i \in Slots \ {current_task} :
            [state EXCEPT ![num_tasks] = TASK_READY][i] = TASK_BLOCKED => state[i] = TASK_BLOCKED
      BY <2>1, <3>1, UpdatesBlockNobodyElse
    <3>4. num_tasks + 1 \in {num_tasks, num_tasks + 1}
      OBVIOUS
    <3> QED BY Zenon, <2>1, <2>3, <3>1, <3>2, <3>3, <3>4, NotWaitingKeepsSleepers
  <2> QED BY <1>10, <2>2, <2>3 DEF NewTask
<1>11. CASE sys_shutdown
  BY <1>0, <1>11, <1>a, SleepersKept DEF sys_shutdown, NotWaiting, NoCall, Issues
<1>12. CASE sys_nanosleep
  <2>1. cpu = "user" /\ NotWaiting /\ UNCHANGED futex_waiters
    BY <1>12 DEF sys_nanosleep, Issues
  <2>2. CASE SyscallReturn(Awake, num_tasks)
    BY <1>a, <2>1, <2>2, NotWaitingKeepsSleepers, SaneUpdates, UpdatesBlockNobodyElse
  <2>3. CASE state' = [state EXCEPT ![current_task] = TASK_BLOCKED]
    BY <1>0, <1>a, <2>1, <2>3, SleepersKept DEF NotWaiting, NoCall
  <2> QED BY <1>12, <2>2, <2>3 DEF sys_nanosleep
<1>13. CASE sleep_tick
  <2>1. cpu = "sleep" /\ UNCHANGED <<call, futex_waiters>>
    BY <1>13 DEF sleep_tick
  <2>2. CASE UNCHANGED state
    BY <2>1, <2>2, SleepersKept
  <2>3. CASE SyscallReturn(Awake, num_tasks)
    <3>1. Sane(Awake) /\ num_tasks \in 1 .. MAX_TASKS /\ current_task \in 0 .. num_tasks - 1
      BY <2>1, SaneUpdates, TaskFacts
    <3>2. \A i \in Slots : state'[i] = TASK_BLOCKED => Awake[i] = TASK_BLOCKED
      BY <2>3, <3>1, SyscallReturnEffect
    <3>3. \A i \in Slots : Awake[i] = TASK_BLOCKED => state[i] = TASK_BLOCKED
      BY <1>0, <1>a, <2>1 DEF Awake, TASK_RUNNING, TASK_BLOCKED
    <3> QED BY <2>1, <3>2, <3>3, SleepersKept
  <2> QED BY <1>13, <2>2, <2>3 DEF sleep_tick
<1>14. CASE futex_wait
  <2>1. cpu = "user" /\ current_task \in Slots
    BY <1>14, <1>a DEF futex_wait, Issues
  <2>2. CASE NotWaiting /\ SyscallReturn(state, num_tasks) /\ UNCHANGED futex_waiters
    BY <1>a, <2>1, <2>2, NotWaitingKeepsSleepers
  <2>3. ASSUME NEW u \in UAddrs,
               futex_waiters' = Append(futex_waiters, [uaddr |-> u, task_idx |-> current_task]),
               call' = [call EXCEPT ![current_task] = [op |-> "futex", arg |-> u]],
               SyscallReturn([state EXCEPT ![current_task] = TASK_BLOCKED], num_tasks)
        PROVE  FutexSleeperQueued'
    <3> DEFINE e == [uaddr |-> u, task_idx |-> current_task]
    <3>1. futex_waiters \in Seq(FutexEntries)
      BY <1>0
    <3>2. /\ Len(futex_waiters') = Len(futex_waiters) + 1
          /\ futex_waiters'[Len(futex_waiters) + 1] = e
          /\ \A k \in 1 .. Len(futex_waiters) : futex_waiters'[k] = futex_waiters[k]
      BY <2>1, <2>3, <3>1, AppendEntry
    <3>3. \A i \in Slots : state'[i] = TASK_BLOCKED =>
                             [state EXCEPT ![current_task] = TASK_BLOCKED][i] = TASK_BLOCKED
      BY Zenon, <2>1, <2>3, SaneUpdates, TaskFacts, SyscallReturnEffect
    <3>4. SUFFICES ASSUME NEW i \in Slots, state'[i] = TASK_BLOCKED, call'[i].op = "futex"
                   PROVE  \E k \in 1 .. Len(futex_waiters') :
                            futex_waiters'[k] = [uaddr |-> call'[i].arg, task_idx |-> i]
      BY DEF FutexSleeperQueued
    <3>5. CASE i = current_task
      <4>1. [uaddr |-> call'[i].arg, task_idx |-> i] = e
        BY <1>0, <2>1, <2>3, <3>5
      <4>2. Len(futex_waiters) + 1 \in 1 .. Len(futex_waiters')
        BY <1>0, <3>2
      <4> QED BY <3>2, <4>1, <4>2
    <3>6. CASE i # current_task
      <4>1. state[i] = TASK_BLOCKED /\ call'[i] = call[i]
        BY Zenon, <1>0, <2>1, <2>3, <3>3, <3>4, <3>6
      <4>2. PICK k \in 1 .. Len(futex_waiters) :
              futex_waiters[k] = [uaddr |-> call[i].arg, task_idx |-> i]
        BY <3>4, <4>1 DEF FutexSleeperQueued
      <4>3. k \in 1 .. Len(futex_waiters')
        BY SMTT(30), <1>0, <3>2
      <4> QED BY <3>2, <4>1, <4>2, <4>3
    <3> QED BY <3>5, <3>6
  <2> QED BY Zenon, <1>14, <2>2, <2>3 DEF futex_wait
<1>15. CASE futex_wake
  BY <1>0, <1>15, <1>a, SleepersKept DEF futex_wake, NotWaiting, NoCall, Issues
<1>16. CASE wake_scan
  <2> DEFINE e == futex_waiters[fw.i]
             n == Len(futex_waiters)
  <2>1. fw.i \in 1 .. n /\ UNCHANGED call
    BY SMTT(30), <1>0, <1>16 DEF wake_scan, Scanning, TypeOK
  <2>2. CASE e.uaddr # fw.uaddr
    BY Zenon, <1>16, <2>1, <2>2, SleepersKept DEF wake_scan
  <2>3. CASE e.uaddr = fw.uaddr
    <3>1. futex_waiters' = SwapRemove(futex_waiters, fw.i) /\ state' = Unblocked(state, e.task_idx)
      BY Zenon, <1>16, <2>3 DEF wake_scan
    <3>2. /\ Len(futex_waiters') = n - 1
          /\ \A j \in 1 .. n - 1 :
               futex_waiters'[j] = IF j = fw.i THEN futex_waiters[n] ELSE futex_waiters[j]
      BY Zenon, <1>0, <2>1, <3>1, SwapRemoveEffect
    <3>3. SUFFICES ASSUME NEW i \in Slots, state'[i] = TASK_BLOCKED, call'[i].op = "futex"
                   PROVE  \E k \in 1 .. Len(futex_waiters') :
                            futex_waiters'[k] = [uaddr |-> call'[i].arg, task_idx |-> i]
      BY Zenon DEF FutexSleeperQueued
    <3>4. e \in FutexEntries /\ e.task_idx \in Slots
      <4>1. e \in FutexEntries
        BY <1>0, <2>1
      <4> QED BY <4>1 DEF FutexEntries
    <3>5. state[i] = TASK_BLOCKED /\ i # e.task_idx
      BY Zenon, <1>0, <3>1, <3>3, <3>4 DEF Unblocked, TASK_READY, TASK_BLOCKED
    <3>6. PICK k \in 1 .. n : futex_waiters[k] = [uaddr |-> call[i].arg, task_idx |-> i]
      BY <2>1, <3>3, <3>5 DEF FutexSleeperQueued
    <3>7. k # fw.i
      BY <3>5, <3>6
    <3>8. CASE k = n
      <4>1. fw.i \in 1 .. n - 1
        BY <1>0, <2>1, <3>7, <3>8
      <4> QED BY <2>1, <3>2, <3>6, <3>8, <4>1
    <3>9. CASE k # n
      <4>1. k \in 1 .. n - 1
        BY <1>0, <3>6, <3>9
      <4> QED BY <2>1, <3>2, <3>6, <3>7, <4>1
    <3> QED BY <3>8, <3>9
  <2> QED BY <2>2, <2>3
<1>17. CASE wake_return
  <2>1. cpu = "wake" /\ SyscallReturn(state, num_tasks) /\ UNCHANGED <<call, futex_waiters>>
    BY <1>17 DEF wake_return
  <2>2. \A i \in Slots : state'[i] = TASK_BLOCKED => state[i] = TASK_BLOCKED
    BY <2>1, TaskFacts, SyscallReturnEffect
  <2> QED BY <2>1, <2>2, SleepersKept
<1>18. CASE timer_irq
  <2>1. cpu = "user" /\ UNCHANGED <<call, futex_waiters>>
    BY <1>18 DEF timer_irq
  <2>2. \A i \in Slots : state'[i] = TASK_BLOCKED => state[i] = TASK_BLOCKED
    BY <1>0, <1>18, <1>a, <2>1
    DEF timer_irq, schedule, Reschedule, Resume, TASK_READY, TASK_RUNNING, TASK_BLOCKED
  <2> QED BY <2>1, <2>2, SleepersKept
<1>19. CASE keyboard_irq
  BY <1>0, <1>19, SleepersKept
  DEF keyboard_irq, Unblocked, TypeOK, Slots, TASK_READY, TASK_BLOCKED
<1>20. CASE page_fault
  <2>1. cpu = "user" /\ NotWaiting /\ UNCHANGED futex_waiters
    BY <1>20 DEF page_fault, Issues
  <2>2. \A i \in Slots : state'[i] = TASK_BLOCKED => Exited[i] = TASK_BLOCKED
    BY <1>20, <2>1, SaneUpdates DEF page_fault, Resume, Sane, TASK_RUNNING, TASK_BLOCKED
  <2>3. \A i \in Slots : Exited[i] = TASK_BLOCKED => i # current_task /\ state[i] = TASK_BLOCKED
    <3>1. Exited[current_task] # TASK_BLOCKED
      BY Zenon, <1>0, <1>a, <2>1 DEF Exited, TASK_EXITED, TASK_BLOCKED
    <3> QED BY <2>1, <3>1, UpdatesBlockNobodyElse
  <2> QED BY Zenon, <1>0, <1>a, <2>1, <2>2, <2>3, SleepersKept DEF NotWaiting
<1>21. CASE panic
  BY <1>21, SleepersKept DEF panic
<1> QED
  BY Zenon, <1>1, <1>2, <1>3, <1>4, <1>5, <1>6, <1>7, <1>8, <1>9, <1>10, <1>11, <1>12, <1>13,
     <1>14, <1>15, <1>16, <1>17, <1>18, <1>19, <1>20, <1>21
  DEF Next, Syscall, sys_spawn_at, sys_clone

\* Whatever the programs do, a task asleep in FUTEX_WAIT keeps its entry in
\* the waiter table, so a later wake on its address can reach it.
THEOREM FutexSleeperCorrect == Spec => []FutexSleeperQueued
<1>1. Init => FutexSleeperQueued
  BY DEF Init, FutexSleeperQueued, TASK_EXITED, TASK_BLOCKED
<1>2. TypeOK /\ OneRunning /\ FutexSleeperQueued /\ [Next]_vars => FutexSleeperQueued'
  BY SleeperStep
<1> QED BY <1>1, <1>2, TypeAndRunning, PTL DEF Spec

\* FUTEX_WAKE's scan leaves no entry of its address behind its index.
THEOREM FutexScanCorrect == Spec => []FutexScanned
<1>1. Init => FutexScanned
  BY DEF Init, FutexScanned
<1>2. TypeOK /\ FutexScanned /\ [Next]_vars => FutexScanned'
  <2> SUFFICES ASSUME TypeOK, FutexScanned, [Next]_vars PROVE FutexScanned'
    OBVIOUS
  <2>1. CASE wake_scan
    <3>1. /\ futex_waiters \in Seq(FutexEntries) /\ Len(futex_waiters) \in Nat
          /\ fw.i \in 1 .. Len(futex_waiters) /\ cpu = "wake"
      BY SMTT(30), <2>1 DEF wake_scan, Scanning, TypeOK
    <3>2. CASE futex_waiters[fw.i].uaddr # fw.uaddr
      <4>1. fw' = [fw EXCEPT !.i = @ + 1] /\ UNCHANGED futex_waiters
        BY <2>1, <3>2 DEF wake_scan
      <4>2. fw'.i = fw.i + 1 /\ fw'.uaddr = fw.uaddr
        BY Zenon, <4>1 DEF TypeOK
      <4> QED BY <3>1, <3>2, <4>1, <4>2 DEF FutexScanned
    <3>3. CASE futex_waiters[fw.i].uaddr = fw.uaddr
      <4>1. /\ futex_waiters' = SwapRemove(futex_waiters, fw.i)
            /\ fw'.i = fw.i /\ fw'.uaddr = fw.uaddr
        BY Zenon, <2>1, <3>3 DEF wake_scan, TypeOK
      <4>2. /\ Len(futex_waiters') = Len(futex_waiters) - 1
            /\ \A j \in 1 .. Len(futex_waiters) - 1 :
                 futex_waiters'[j] = IF j = fw.i THEN futex_waiters[Len(futex_waiters)]
                                     ELSE futex_waiters[j]
        BY Zenon, <3>1, <4>1, SwapRemoveEffect
      <4> QED BY <3>1, <4>1, <4>2 DEF FutexScanned
    <3> QED BY Zenon, <3>2, <3>3
  <2>2. CASE futex_wake
    <3>1. fw'.i = 1
      BY <2>2 DEF futex_wake
    <3> QED BY <3>1 DEF FutexScanned
  <2>3. CASE cpu' = "wake" => cpu = "wake" /\ UNCHANGED <<fw, futex_waiters>>
    BY <2>3 DEF FutexScanned
  <2> QED
    BY Zenon, <2>1, <2>2, <2>3
    DEF Next, Syscall, vars, loopVars, kmain, other_call, sys_send, sys_exit, sys_wait,
        sys_wait_any, sys_irq_register, sys_kill, sys_spawn_at, sys_clone, NewTask,
        sys_shutdown, sys_nanosleep, futex_wait, sleep_tick, wake_return, timer_irq,
        keyboard_irq, page_fault, panic, Issues
<1> QED BY <1>1, <1>2, TypeAndRunning, PTL DEF Spec
=============================================================================

--------------------------- MODULE OrderlyProofs ----------------------------
(***************************************************************************)
(* Theorems about module Kernel when the programs are orderly: for any     *)
(* number of tasks, any futex table and any addresses, what a task that    *)
(* waits can rely on.                                                      *)
(*                                                                         *)
(* The invariants speak of a state column st, so that they can be stated   *)
(* of the column a system call leaves to the scheduler.                    *)
(***************************************************************************)
EXTENDS KernelProofs

\* A task whose last call was wait is asleep and the recorded waiter of a
\* living task, or the task it named has exited.
Waiting(st, c, wi, n) ==
  \A i \in Slots : c[i].op = "wait" =>
    /\ c[i].arg \in 0 .. n - 1
    /\ "wait" \in Program[i]
    /\ st[i] = TASK_BLOCKED => wi[c[i].arg] = i /\ st[c[i].arg] # TASK_EXITED
    /\ st[i] # TASK_BLOCKED => st[c[i].arg] = TASK_EXITED

\* The waiter recorded in a living task is asleep in wait for that task.
Recorded(st, c, wi) ==
  \A j \in Slots : st[j] # TASK_EXITED /\ wi[j] # -1 =>
    st[wi[j]] = TASK_BLOCKED /\ c[wi[j]] = [op |-> "wait", arg |-> j]

\* Every entry of the futex table is that of a task asleep on its address,
\* and no task has two.
Entries(st, c, q) ==
  /\ \A k \in 1 .. Len(q) :
       /\ st[q[k].task_idx] = TASK_BLOCKED
       /\ c[q[k].task_idx] = [op |-> "futex", arg |-> q[k].uaddr]
  /\ \A k, l \in 1 .. Len(q) : q[k].task_idx = q[l].task_idx => k = l

Uncreated(st, c, n) ==
  \A i \in Slots : i >= n => st[i] = TASK_EXITED /\ c[i] = NoCall

Settled(st, c, wi, q, n) ==
  Waiting(st, c, wi, n) /\ Recorded(st, c, wi) /\ Entries(st, c, q) /\ Uncreated(st, c, n)

\* Where the CPU is: a task that runs, in ring 3 or in FUTEX_WAKE, is not
\* asleep; init never is, but in nanosleep; the keyboard has no handler.
Running ==
  /\ irq_handler = -1
  /\ num_tasks = 0 => cpu \in {"boot", "idle"}
  /\ cpu \in {"user", "wake"} => state[current_task] \notin {TASK_BLOCKED, TASK_EXITED}
  /\ cpu = "sleep" => call[current_task] = NoCall /\ state[current_task] = TASK_BLOCKED
  /\ num_tasks > 0 /\ ~(cpu = "sleep" /\ current_task = 0) =>
       state[0] \notin {TASK_BLOCKED, TASK_EXITED}
  /\ cpu # "halt"

OrderlyInv == Running /\ Settled(state, call, wait_idx, futex_waiters, num_tasks)

Asleep == {TASK_BLOCKED, TASK_EXITED}

\* Two state columns with the same sleeping and the same exited tasks.
SameSleep(st, st2) ==
  \A i \in Slots : /\ st2[i] = TASK_BLOCKED <=> st[i] = TASK_BLOCKED
                   /\ st2[i] = TASK_EXITED <=> st[i] = TASK_EXITED

CallTypeOK(c) == c \in [Slots -> [op : {"none", "wait", "wait_any", "futex"},
                                  arg : Slots \cup UAddrs \cup {-1}]]

LEMMA EntryTypes ==
  ASSUME NEW q \in Seq(FutexEntries)
  PROVE  \A k \in 1 .. Len(q) : q[k].task_idx \in Slots /\ q[k].uaddr \in UAddrs
<1> TAKE k \in 1 .. Len(q)
<1>1. q[k] \in FutexEntries
  OBVIOUS
<1> QED BY <1>1 DEF FutexEntries

LEMMA SettledSame ==
  ASSUME NEW st, NEW st2, NEW c, NEW wi, NEW q, NEW n \in 0 .. MAX_TASKS,
         Settled(st, c, wi, q, n), SameSleep(st, st2),
         wi \in [Slots -> Slots \cup {-1}], q \in Seq(FutexEntries)
  PROVE  Settled(st2, c, wi, q, n)
<1>0. 0 .. n - 1 \subseteq Slots
  BY KernelAssumption DEF Slots
<1>1. Waiting(st2, c, wi, n)
  BY <1>0 DEF Settled, Waiting, SameSleep
<1>2. Recorded(st2, c, wi)
  <2> SUFFICES ASSUME NEW j \in Slots, st2[j] # TASK_EXITED, wi[j] # -1
               PROVE  st2[wi[j]] = TASK_BLOCKED /\ c[wi[j]] = [op |-> "wait", arg |-> j]
    BY DEF Recorded
  <2>1. wi[j] \in Slots /\ st[j] # TASK_EXITED
    BY DEF SameSleep
  <2> QED BY <2>1 DEF Settled, Recorded, SameSleep
<1>3. Entries(st2, c, q)
  <2>1. \A k \in 1 .. Len(q) : q[k].task_idx \in Slots
    BY EntryTypes
  <2> QED BY <2>1, Zenon DEF Settled, Entries, SameSleep
<1>4. Uncreated(st2, c, n)
  BY DEF Settled, Uncreated, SameSleep
<1> QED BY <1>1, <1>2, <1>3, <1>4 DEF Settled

\* With init awake, the scheduler resumes a task that is neither asleep nor
\* exited.
LEMMA ReturnExact ==
  ASSUME NEW st, Sane(st), NEW n \in 1 .. MAX_TASKS, current_task \in 0 .. n - 1,
         SyscallReturn(st, n), st[0] \notin Asleep
  PROVE  /\ SameSleep(st, state')
         /\ state'[current_task'] \notin Asleep
<1> DEFINE pre == Preempted(st)
           next == schedule_next(pre, n)
<1>1. current_task \in Slots /\ n \in Nat \ {0} /\ MAX_TASKS \in Nat /\ 0 \in Slots
  BY KernelAssumption DEF Slots
<1>2. CASE n > 1
  <2>1. /\ pre \in [Slots -> States]
        /\ \A i \in Slots : pre[i] # TASK_RUNNING
        /\ SameSleep(st, pre)
        /\ current_task = 0 \/ st[current_task] \notin Asleep => pre[current_task] = TASK_READY
        /\ pre[0] = TASK_READY
    BY <1>1 DEF Preempted, Sane, States, TASK_READY, TASK_RUNNING, TASK_BLOCKED, TASK_EXITED,
                Asleep, SameSleep
  <2>2. Resume(pre, next)
    BY <1>2 DEF SyscallReturn, Reschedule
  <2> HIDE DEF pre
  <2>3. pre[next] = TASK_READY /\ next \in Slots
    <3>1. CASE ReadyAfter(pre, n) = {}
      <4>1. current_task = 0
        <5> SUFFICES ASSUME current_task # 0 PROVE FALSE
          OBVIOUS
        <5>1. n - current_task \in 1 .. n - 1 /\ (current_task + (n - current_task)) % n = 0
          BY <1>1
        <5>2. n - current_task \in ReadyAfter(pre, n)
          BY <2>1, <5>1 DEF ReadyAfter
        <5> QED BY <3>1, <5>2
      <4> QED BY <2>1, <3>1, <4>1, <1>1 DEF schedule_next
    <3>2. CASE ReadyAfter(pre, n) # {}
      <4>1. Min(ReadyAfter(pre, n)) \in ReadyAfter(pre, n)
        <5>1. ReadyAfter(pre, n) \in SUBSET Nat
          BY DEF ReadyAfter
        <5> QED BY <3>2, <5>1, MinInSet
      <4>2. next = (current_task + Min(ReadyAfter(pre, n))) % n
        BY <3>2 DEF schedule_next
      <4>3. pre[next] = TASK_READY
        BY <4>1, <4>2 DEF ReadyAfter
      <4>4. next \in 0 .. n - 1
        BY <1>1, ScheduleNextRange
      <4> QED BY <4>3, <4>4, <1>1 DEF Slots
    <3> QED BY <3>1, <3>2
  <2> HIDE DEF next
  <2>4. SameSleep(pre, state') /\ state'[current_task'] \notin Asleep
    BY <2>1, <2>2, <2>3 DEF Resume, SameSleep, Asleep, TASK_READY, TASK_RUNNING, TASK_BLOCKED, TASK_EXITED
  <2> QED BY <2>1, <2>4 DEF SameSleep
<1>3. CASE ~(n > 1)
  <2>1. n = 1 /\ current_task = 0
    BY <1>3
  <2>2. state' = st /\ current_task' = current_task
    BY <2>1 DEF SyscallReturn
  <2> QED BY <2>1, <2>2 DEF SameSleep
<1> QED BY <1>2, <1>3

\* A call that ends with a settled table in which init is awake.
LEMMA ReturnKeeps ==
  ASSUME TypeOK, OneRunning, cpu \notin {"boot", "idle"}, TypeOK',
         NEW st, Sane(st), NEW n \in 1 .. MAX_TASKS, current_task \in 0 .. n - 1, SyscallReturn(st, n),
         num_tasks' = n, cpu' = "user", irq_handler' = -1, st[0] \notin Asleep,
         Settled(st, call', wait_idx', futex_waiters', n)
  PROVE  OrderlyInv' /\ SameSleep(st, state')
<1>1. SameSleep(st, state') /\ state'[current_task'] \notin Asleep
  BY ReturnExact
<1>2. Settled(state', call', wait_idx', futex_waiters', n)
  <2>1. n \in 0 .. MAX_TASKS
    BY KernelAssumption
  <2>2. wait_idx' \in [Slots -> Slots \cup {-1}] /\ futex_waiters' \in Seq(FutexEntries)
    BY DEF TypeOK
  <2> QED BY <1>1, <2>1, <2>2, SettledSame
<1>3. Running'
  <2>1. 0 \in Slots
    BY KernelAssumption DEF Slots
  <2>2. state'[0] \notin Asleep
    BY <1>1, <2>1 DEF Asleep, SameSleep
  <2> QED BY <1>1, <2>2 DEF Running, Asleep
<1> QED BY <1>1, <1>2, <1>3 DEF OrderlyInv

\* What a task that runs was waiting for can be forgotten.
LEMMA ForgetCall ==
  ASSUME TypeOK, NEW t \in Slots, state[t] \notin Asleep, t < num_tasks,
         Settled(state, call, wait_idx, futex_waiters, num_tasks),
         NEW c, c = [call EXCEPT ![t] = NoCall]
  PROVE  Settled(state, c, wait_idx, futex_waiters, num_tasks)
<1>0. call \in [Slots -> [op : {"none", "wait", "wait_any", "futex"},
                          arg : Slots \cup UAddrs \cup {-1}]]
      /\ wait_idx \in [Slots -> Slots \cup {-1}] /\ futex_waiters \in Seq(FutexEntries)
      /\ num_tasks \in Nat /\ Slots \subseteq Nat
  BY DEF TypeOK, Slots
<1>1. c[t] = NoCall /\ (\A i \in Slots : i # t => c[i] = call[i]) /\ NoCall.op # "wait"
  BY <1>0 DEF NoCall
<1>2. Waiting(state, c, wait_idx, num_tasks)
  BY <1>1, Zenon DEF Settled, Waiting
<1>3. Recorded(state, c, wait_idx)
  BY <1>0, <1>1 DEF Settled, Recorded, Asleep
<1>4. Entries(state, c, futex_waiters)
  <2>1. \A k \in 1 .. Len(futex_waiters) : futex_waiters[k].task_idx \in Slots
    BY <1>0, EntryTypes
  <2> QED BY <1>1, <2>1, Zenon DEF Settled, Entries, Asleep
<1>5. Uncreated(state, c, num_tasks)
  BY <1>0, <1>1 DEF Settled, Uncreated
<1> QED BY <1>2, <1>3, <1>4, <1>5 DEF Settled

\* The facts a call starts from.
LEMMA OrderlyFacts ==
  ASSUME TypeOK, OneRunning, OrderlyInv, cpu \in {"user", "wake", "sleep"}
  PROVE  /\ current_task \in 0 .. num_tasks - 1 /\ current_task \in Slots /\ current_task < num_tasks
         /\ num_tasks \in 1 .. MAX_TASKS /\ num_tasks \in Nat /\ 0 \in Slots
         /\ Sane(state) /\ irq_handler = -1
         /\ cpu # "sleep" => state[current_task] \notin Asleep /\ state[0] \notin Asleep
         /\ Settled(state, call, wait_idx, futex_waiters, num_tasks)
<1>1. cpu \notin {"boot", "idle"}
  OBVIOUS
<1>2. /\ current_task \in 0 .. num_tasks - 1 /\ current_task \in Slots
      /\ num_tasks \in 1 .. MAX_TASKS /\ num_tasks \in Nat /\ Sane(state)
  BY <1>1, TaskFacts
<1>3. 0 \in Slots
  BY KernelAssumption DEF Slots
<1>4. num_tasks > 0 /\ current_task < num_tasks
  BY <1>2
<1> QED BY <1>2, <1>3, <1>4 DEF OrderlyInv, Running, Asleep

\* Calls that only forget what the caller waited for, and reschedule.
LEMMA PlainCallOrderly ==
  ASSUME TypeOK, OneRunning, TypeOK', OrderlyInv, cpu = "user", NotWaiting,
         SyscallReturn(state, num_tasks),
         UNCHANGED <<tableVars, wait_idx, irq_handler, futex_waiters, cpu>>
  PROVE  OrderlyInv' /\ SameSleep(state, state')
<1>1. /\ current_task \in 0 .. num_tasks - 1 /\ current_task \in Slots /\ current_task < num_tasks
      /\ num_tasks \in 1 .. MAX_TASKS
      /\ Sane(state) /\ irq_handler = -1
      /\ state[current_task] \notin Asleep /\ state[0] \notin Asleep
      /\ Settled(state, call, wait_idx, futex_waiters, num_tasks)
  BY OrderlyFacts
<1>2. Settled(state, call', wait_idx', futex_waiters', num_tasks)
  BY Zenon, <1>1, ForgetCall DEF NotWaiting
<1>3. num_tasks' = num_tasks
  BY DEF tableVars
<1> QED BY <1>1, <1>2, <1>3, ReturnKeeps

\* sys_exit wakes exactly the task that waits for the caller.
LEMMA ExitedOrderly ==
  ASSUME TypeOK, OneRunning, OrderlyInv, cpu = "user", current_task # 0, NotWaiting
  PROVE  /\ Settled(Exited, call', wait_idx, futex_waiters, num_tasks)
         /\ Exited[0] \notin Asleep
         /\ Exited[0] \in {state[0], TASK_READY}
         /\ \A i \in Slots : state[i] = TASK_EXITED => Exited[i] = TASK_EXITED
<1> DEFINE x == current_task
           w == wait_idx[x]
<1>1. /\ x \in Slots /\ x < num_tasks /\ num_tasks \in Nat /\ 0 \in Slots /\ Slots \subseteq Nat
      /\ state[x] \notin Asleep /\ state[0] \notin Asleep
      /\ Settled(state, call, wait_idx, futex_waiters, num_tasks)
      /\ Settled(state, call', wait_idx, futex_waiters, num_tasks)
  <2>1. /\ x \in Slots /\ x < num_tasks /\ num_tasks \in Nat /\ 0 \in Slots
        /\ state[x] \notin Asleep /\ state[0] \notin Asleep
        /\ Settled(state, call, wait_idx, futex_waiters, num_tasks)
    BY OrderlyFacts
  <2>2. Settled(state, call', wait_idx, futex_waiters, num_tasks)
    BY Zenon, <2>1, ForgetCall DEF NotWaiting
  <2> QED BY <2>1, <2>2 DEF Slots
<1>2. /\ state \in [Slots -> States] /\ w \in Slots \cup {-1} /\ -1 \notin Slots
      /\ wait_idx \in [Slots -> Slots \cup {-1}] /\ futex_waiters \in Seq(FutexEntries)
      /\ call \in [Slots -> [op : {"none", "wait", "wait_any", "futex"},
                             arg : Slots \cup UAddrs \cup {-1}]]
  BY <1>1 DEF TypeOK, Slots
<1>3. w # -1 => /\ w \in Slots /\ state[w] = TASK_BLOCKED /\ w # x
                /\ call[w] = [op |-> "wait", arg |-> x]
                /\ call'[w] = [op |-> "wait", arg |-> x]
  BY <1>1, <1>2 DEF Settled, Recorded, Asleep, NotWaiting
<1>4. /\ Exited[x] = TASK_EXITED
      /\ w # -1 => Exited[w] = TASK_READY
      /\ \A i \in Slots : i # x /\ i # w => Exited[i] = state[i]
  <2>1. w >= 0 <=> w # -1
    BY <1>1, <1>2
  <2> QED BY <1>1, <1>2, <1>3, <2>1 DEF Exited, TASK_READY
<1>5. call'[x] = NoCall /\ \A i \in Slots : i # x => call'[i] = call[i]
  BY <1>1, <1>2 DEF NotWaiting
<1> HIDE DEF x, w
<1>6. Waiting(Exited, call', wait_idx, num_tasks)
  <2> SUFFICES ASSUME NEW i \in Slots, call'[i].op = "wait"
               PROVE  /\ call'[i].arg \in 0 .. num_tasks - 1
                      /\ "wait" \in Program[i]
                      /\ Exited[i] = TASK_BLOCKED => wait_idx[call'[i].arg] = i /\ Exited[call'[i].arg] # TASK_EXITED
                      /\ Exited[i] # TASK_BLOCKED => Exited[call'[i].arg] = TASK_EXITED
    BY DEF Waiting
  <2> DEFINE a == call'[i].arg
  <2>1. i # x
    BY <1>5 DEF NoCall
  <2>2. /\ a \in 0 .. num_tasks - 1 /\ "wait" \in Program[i]
        /\ state[i] = TASK_BLOCKED => wait_idx[a] = i /\ state[a] # TASK_EXITED
        /\ state[i] # TASK_BLOCKED => state[a] = TASK_EXITED
    BY <1>1 DEF Settled, Waiting
  <2>3. a \in Slots
    BY <2>2, KernelAssumption DEF Slots, TypeOK
  <2>4. CASE i = w
    <3>1. a = x
      BY <1>2, <1>3, <2>4 DEF Slots
    <3> QED BY <1>2, <1>3, <1>4, <2>2, <2>4, <3>1 DEF TASK_READY, TASK_BLOCKED
  <2>5. CASE i # w
    <3>1. Exited[i] = state[i]
      BY <1>4, <2>1, <2>5
    <3>2. a # x
      BY <1>1, <2>2, <2>5 DEF x, w, Asleep
    <3>3. CASE a = w
      <4>1. w # -1
        BY <1>2, <2>3, <3>3
      <4> QED BY <1>3, <1>4, <2>2, <3>1, <3>3, <4>1 DEF TASK_READY, TASK_BLOCKED, TASK_EXITED
    <3>4. CASE a # w
      BY <1>4, <2>2, <2>3, <3>1, <3>2, <3>4
    <3> QED BY <3>3, <3>4
  <2> QED BY <2>4, <2>5
<1>7. Recorded(Exited, call', wait_idx)
  <2> SUFFICES ASSUME NEW j \in Slots, Exited[j] # TASK_EXITED, wait_idx[j] # -1
               PROVE  Exited[wait_idx[j]] = TASK_BLOCKED /\ call'[wait_idx[j]] = [op |-> "wait", arg |-> j]
    BY DEF Recorded
  <2> DEFINE v == wait_idx[j]
  <2>1. j # x /\ v \in Slots
    BY <1>2, <1>4
  <2>2. state[j] # TASK_EXITED
    BY <1>2, <1>3, <1>4, <2>1 DEF TASK_BLOCKED, TASK_EXITED
  <2>3. state[v] = TASK_BLOCKED /\ call'[v] = [op |-> "wait", arg |-> j]
    BY <1>1, <2>2 DEF Settled, Recorded
  <2>4. v # x
    BY <1>1, <2>3 DEF Asleep
  <2>5. v # w
    <3> SUFFICES ASSUME v = w PROVE FALSE
      OBVIOUS
    <3>1. [op |-> "wait", arg |-> j] = [op |-> "wait", arg |-> x]
      BY <1>2, <1>3, <2>1, <2>3
    <3> QED BY <2>1, <3>1
  <2> QED BY <1>4, <2>1, <2>3, <2>4, <2>5
<1>8. Entries(Exited, call', futex_waiters)
  <2> SUFFICES ASSUME NEW k \in 1 .. Len(futex_waiters)
               PROVE  Exited[futex_waiters[k].task_idx] = TASK_BLOCKED
    BY <1>1, Zenon DEF Entries, Settled
  <2> DEFINE v == futex_waiters[k].task_idx
  <2>1. v \in Slots
    BY <1>2, EntryTypes
  <2>2. state[v] = TASK_BLOCKED /\ call'[v] = [op |-> "futex", arg |-> futex_waiters[k].uaddr]
    BY <1>1 DEF Settled, Entries
  <2>3. v # x /\ v # w
    BY <1>1, <1>2, <1>3, <2>1, <2>2 DEF Asleep
  <2> QED BY <1>4, <2>1, <2>2, <2>3
<1>9. Uncreated(Exited, call', num_tasks)
  <2> SUFFICES ASSUME NEW i \in Slots, i >= num_tasks
               PROVE  Exited[i] = TASK_EXITED /\ call'[i] = NoCall
    BY DEF Uncreated
  <2>1. state[i] = TASK_EXITED /\ call'[i] = NoCall
    BY <1>1 DEF Settled, Uncreated
  <2>2. i # w
    BY <1>2, <1>3, <2>1 DEF TASK_EXITED, TASK_BLOCKED
  <2> QED BY <1>4, <2>1, <2>2
<1>10. Exited[0] \in {state[0], TASK_READY} /\ Exited[0] \notin Asleep
  <2>1. 0 # x
    BY DEF x
  <2>2. 0 # w
    BY <1>1, <1>2, <1>3 DEF Asleep
  <2> QED BY <1>1, <1>4, <2>1, <2>2
<1>11. \A i \in Slots : state[i] = TASK_EXITED => Exited[i] = TASK_EXITED
  BY <1>1, <1>2, <1>3, <1>4 DEF Asleep, TASK_EXITED, TASK_BLOCKED
<1> QED BY <1>6, <1>7, <1>8, <1>9, <1>10, <1>11 DEF Settled

\* wait for a living task.
LEMMA WaitOrderly ==
  ASSUME TypeOK, OneRunning, OrderlyInv, Orderly(Program), Issues("wait"),
         NEW i \in 0 .. num_tasks - 1, state[i] # TASK_EXITED,
         wait_idx' = [wait_idx EXCEPT ![i] = current_task],
         call' = [call EXCEPT ![current_task] = [op |-> "wait", arg |-> i]]
  PROVE  Settled([state EXCEPT ![current_task] = TASK_BLOCKED], call', wait_idx',
                 futex_waiters, num_tasks)
<1> DEFINE x == current_task
           st == [state EXCEPT ![current_task] = TASK_BLOCKED]
<1>1. /\ x \in Slots /\ x < num_tasks /\ num_tasks \in Nat /\ num_tasks <= MAX_TASKS
      /\ Slots \subseteq Nat /\ cpu = "user"
      /\ state[x] \notin Asleep /\ "wait" \in Program[x]
      /\ Settled(state, call, wait_idx, futex_waiters, num_tasks)
  BY OrderlyFacts DEF Slots, Issues
<1>2. /\ state \in [Slots -> States] /\ -1 \notin Slots
      /\ wait_idx \in [Slots -> Slots \cup {-1}] /\ futex_waiters \in Seq(FutexEntries)
      /\ call \in [Slots -> [op : {"none", "wait", "wait_any", "futex"},
                             arg : Slots \cup UAddrs \cup {-1}]]
  BY <1>1 DEF TypeOK, Slots
<1>3. i \in Slots
  BY <1>1, KernelAssumption DEF Slots
<1>4. /\ call'[x] = [op |-> "wait", arg |-> i] /\ \A j \in Slots : j # x => call'[j] = call[j]
      /\ wait_idx'[i] = x /\ \A j \in Slots : j # i => wait_idx'[j] = wait_idx[j]
      /\ st[x] = TASK_BLOCKED /\ \A j \in Slots : j # x => st[j] = state[j]
  BY <1>1, <1>2, <1>3
<1>5. \A j \in Slots : (st[j] = TASK_EXITED <=> state[j] = TASK_EXITED)
  BY <1>1, <1>4 DEF Asleep, TASK_EXITED, TASK_BLOCKED
<1> HIDE DEF x, st
<1>6. Waiting(st, call', wait_idx', num_tasks)
  <2> SUFFICES ASSUME NEW j \in Slots, call'[j].op = "wait"
               PROVE  /\ call'[j].arg \in 0 .. num_tasks - 1
                      /\ "wait" \in Program[j]
                      /\ st[j] = TASK_BLOCKED => wait_idx'[call'[j].arg] = j /\ st[call'[j].arg] # TASK_EXITED
                      /\ st[j] # TASK_BLOCKED => st[call'[j].arg] = TASK_EXITED
    BY DEF Waiting
  <2>1. CASE j = x
    BY <1>1, <1>3, <1>4, <1>5, <2>1
  <2>2. CASE j # x
    <3>1. "wait" \in Program[j]
      BY <1>1, <1>4, <2>2 DEF Settled, Waiting
    <3> QED BY <1>1, <2>2, <3>1 DEF Orderly
  <2> QED BY <2>1, <2>2
<1>7. Recorded(st, call', wait_idx')
  <2> SUFFICES ASSUME NEW j \in Slots, st[j] # TASK_EXITED, wait_idx'[j] # -1
               PROVE  st[wait_idx'[j]] = TASK_BLOCKED /\ call'[wait_idx'[j]] = [op |-> "wait", arg |-> j]
    BY DEF Recorded
  <2>1. CASE j = i
    BY <1>4, <2>1
  <2>2. CASE j # i
    <3>1. wait_idx'[j] = wait_idx[j] /\ wait_idx[j] \in Slots
      BY <1>2, <1>4, <2>2
    <3>2. state[wait_idx[j]] = TASK_BLOCKED /\ call[wait_idx[j]] = [op |-> "wait", arg |-> j]
      BY <1>1, <1>5, <3>1 DEF Settled, Recorded
    <3>3. wait_idx[j] # x
      BY <1>1, <3>2 DEF Asleep
    <3> QED BY <1>4, <3>1, <3>2, <3>3
  <2> QED BY <2>1, <2>2
<1>8. Entries(st, call', futex_waiters)
  <2> SUFFICES ASSUME NEW k \in 1 .. Len(futex_waiters)
               PROVE  /\ st[futex_waiters[k].task_idx] = TASK_BLOCKED
                      /\ call'[futex_waiters[k].task_idx] = [op |-> "futex", arg |-> futex_waiters[k].uaddr]
    BY <1>1, Zenon DEF Entries, Settled
  <2> DEFINE v == futex_waiters[k].task_idx
  <2>1. v \in Slots
    BY <1>2, EntryTypes
  <2>2. state[v] = TASK_BLOCKED /\ call[v] = [op |-> "futex", arg |-> futex_waiters[k].uaddr]
    BY <1>1 DEF Settled, Entries
  <2>3. v # x
    BY <1>1, <2>2 DEF Asleep
  <2> QED BY <1>4, <2>1, <2>2, <2>3
<1>9. Uncreated(st, call', num_tasks)
  <2>1. \A j \in Slots : j >= num_tasks => j # x
    BY <1>1
  <2> QED BY <1>1, <1>4, <1>5, <2>1 DEF Settled, Uncreated
<1> QED BY <1>6, <1>7, <1>8, <1>9 DEF Settled, st

\* FUTEX_WAIT that goes to sleep.
LEMMA FutexWaitOrderly ==
  ASSUME TypeOK, OneRunning, OrderlyInv, cpu = "user", NEW u \in UAddrs,
         futex_waiters' = Append(futex_waiters, [uaddr |-> u, task_idx |-> current_task]),
         call' = [call EXCEPT ![current_task] = [op |-> "futex", arg |-> u]]
  PROVE  Settled([state EXCEPT ![current_task] = TASK_BLOCKED], call', wait_idx,
                 futex_waiters', num_tasks)
<1> DEFINE x == current_task
           st == [state EXCEPT ![current_task] = TASK_BLOCKED]
           q == futex_waiters
           n == Len(futex_waiters)
<1>1. /\ x \in Slots /\ x < num_tasks /\ num_tasks \in Nat /\ num_tasks <= MAX_TASKS
      /\ Slots \subseteq Nat
      /\ state[x] \notin Asleep
      /\ Settled(state, call, wait_idx, q, num_tasks)
  BY OrderlyFacts DEF Slots
<1>2. /\ state \in [Slots -> States] /\ -1 \notin Slots
      /\ wait_idx \in [Slots -> Slots \cup {-1}] /\ q \in Seq(FutexEntries) /\ n \in Nat
      /\ call \in [Slots -> [op : {"none", "wait", "wait_any", "futex"},
                             arg : Slots \cup UAddrs \cup {-1}]]
  BY <1>1 DEF TypeOK, Slots
<1>3. /\ call'[x] = [op |-> "futex", arg |-> u] /\ \A j \in Slots : j # x => call'[j] = call[j]
      /\ st[x] = TASK_BLOCKED /\ \A j \in Slots : j # x => st[j] = state[j]
  BY <1>1, <1>2
<1>4. \A j \in Slots : (st[j] = TASK_EXITED <=> state[j] = TASK_EXITED)
  BY <1>1, <1>3 DEF Asleep, TASK_EXITED, TASK_BLOCKED
<1>5. /\ Len(q') = n + 1 /\ q'[n + 1] = [uaddr |-> u, task_idx |-> x]
      /\ \A k \in 1 .. n : q'[k] = q[k]
  BY <1>1, <1>2, AppendEntry
<1>6. \A k \in 1 .. n : /\ q[k].task_idx \in Slots
                        /\ state[q[k].task_idx] = TASK_BLOCKED
                        /\ call[q[k].task_idx] = [op |-> "futex", arg |-> q[k].uaddr]
                        /\ q[k].task_idx # x
  <2> TAKE k \in 1 .. n
  <2>1. q[k].task_idx \in Slots
    BY <1>2, EntryTypes
  <2>2. /\ state[q[k].task_idx] = TASK_BLOCKED
        /\ call[q[k].task_idx] = [op |-> "futex", arg |-> q[k].uaddr]
    BY <1>1 DEF Settled, Entries
  <2> QED BY <1>1, <2>1, <2>2 DEF Asleep
<1> HIDE DEF x, st
<1>7. Waiting(st, call', wait_idx, num_tasks)
  <2> SUFFICES ASSUME NEW j \in Slots, call'[j].op = "wait"
               PROVE  /\ call'[j].arg \in 0 .. num_tasks - 1
                      /\ "wait" \in Program[j]
                      /\ st[j] = TASK_BLOCKED =>
                           wait_idx[call'[j].arg] = j /\ st[call'[j].arg] # TASK_EXITED
                      /\ st[j] # TASK_BLOCKED => st[call'[j].arg] = TASK_EXITED
    BY DEF Waiting
  <2>1. j # x
    BY <1>3
  <2>2. /\ call'[j] = call[j] /\ st[j] = state[j]
    BY <1>3, <2>1
  <2>3. /\ call[j].arg \in 0 .. num_tasks - 1
        /\ "wait" \in Program[j]
        /\ state[j] = TASK_BLOCKED => wait_idx[call[j].arg] = j /\ state[call[j].arg] # TASK_EXITED
        /\ state[j] # TASK_BLOCKED => state[call[j].arg] = TASK_EXITED
    BY <1>1, <2>2 DEF Settled, Waiting
  <2>4. call[j].arg \in Slots
    BY <1>1, <2>3, KernelAssumption DEF Slots
  <2> QED BY <1>4, <2>2, <2>3, <2>4
<1>8. Recorded(st, call', wait_idx)
  <2> SUFFICES ASSUME NEW j \in Slots, st[j] # TASK_EXITED, wait_idx[j] # -1
               PROVE  st[wait_idx[j]] = TASK_BLOCKED /\ call'[wait_idx[j]] = [op |-> "wait", arg |-> j]
    BY DEF Recorded
  <2>1. wait_idx[j] \in Slots
    BY <1>2
  <2>2. state[wait_idx[j]] = TASK_BLOCKED /\ call[wait_idx[j]] = [op |-> "wait", arg |-> j]
    BY <1>1, <1>4, <2>1 DEF Settled, Recorded
  <2>3. wait_idx[j] # x
    BY <1>1, <2>2 DEF Asleep
  <2> QED BY <1>3, <2>1, <2>2, <2>3
<1>9. Entries(st, call', q')
  <2>1. ASSUME NEW k \in 1 .. n + 1
        PROVE  /\ st[q'[k].task_idx] = TASK_BLOCKED
               /\ call'[q'[k].task_idx] = [op |-> "futex", arg |-> q'[k].uaddr]
    <3>1. CASE k = n + 1
      BY <1>3, <1>5, <3>1
    <3>2. CASE k # n + 1
      <4>1. k \in 1 .. n
        BY <1>2, <3>2
      <4> QED BY <1>3, <1>5, <1>6, <4>1
    <3> QED BY <3>1, <3>2
  <2>2. ASSUME NEW k \in 1 .. n + 1, NEW l \in 1 .. n + 1, q'[k].task_idx = q'[l].task_idx
        PROVE  k = l
    <3>1. \A a, b \in 1 .. n : q[a].task_idx = q[b].task_idx => a = b
      BY <1>1 DEF Settled, Entries
    <3>2. q'[n + 1].task_idx = x
      BY <1>5
    <3>3. k \in 1 .. n \/ k = n + 1
      BY <1>2
    <3>4. l \in 1 .. n \/ l = n + 1
      BY <1>2
    <3> QED BY Zenon, <1>5, <1>6, <2>2, <3>1, <3>2, <3>3, <3>4
  <2> QED BY <1>5, <2>1, <2>2 DEF Entries
<1>10. Uncreated(st, call', num_tasks)
  <2>1. \A j \in Slots : j >= num_tasks => j # x
    BY <1>1
  <2> QED BY <1>1, <1>3, <1>4, <2>1 DEF Settled, Uncreated
<1> QED BY <1>7, <1>8, <1>9, <1>10 DEF Settled, st

\* A new task is waited for by nobody.
LEMMA NewTaskOrderly ==
  ASSUME TypeOK, OneRunning, OrderlyInv, cpu = "user", num_tasks < MAX_TASKS,
         NotWaiting, wait_idx' = [wait_idx EXCEPT ![num_tasks] = -1]
  PROVE  Settled([state EXCEPT ![num_tasks] = TASK_READY], call', wait_idx', futex_waiters,
                 num_tasks + 1)
<1> DEFINE y == num_tasks
           st == [state EXCEPT ![num_tasks] = TASK_READY]
<1>1. /\ num_tasks \in Nat /\ y \in Slots /\ Slots \subseteq Nat /\ current_task \in Slots
      /\ current_task < num_tasks
      /\ Settled(state, call', wait_idx, futex_waiters, num_tasks)
  <2>1. /\ current_task \in Slots /\ current_task < num_tasks /\ num_tasks \in Nat
        /\ state[current_task] \notin Asleep
        /\ Settled(state, call, wait_idx, futex_waiters, num_tasks)
    BY OrderlyFacts
  <2>2. Settled(state, call', wait_idx, futex_waiters, num_tasks)
    BY Zenon, <2>1, ForgetCall DEF NotWaiting
  <2> QED BY <2>1, <2>2, KernelAssumption DEF Slots
<1>2. /\ state \in [Slots -> States] /\ -1 \notin Slots
      /\ wait_idx \in [Slots -> Slots \cup {-1}] /\ futex_waiters \in Seq(FutexEntries)
  BY <1>1 DEF TypeOK, Slots
<1>3. /\ wait_idx'[y] = -1 /\ \A j \in Slots : j # y => wait_idx'[j] = wait_idx[j]
      /\ st[y] = TASK_READY /\ \A j \in Slots : j # y => st[j] = state[j]
      /\ state[y] = TASK_EXITED /\ call'[y] = NoCall
  BY <1>1, <1>2 DEF Settled, Uncreated
<1> HIDE DEF y, st
<1>4. Waiting(st, call', wait_idx', num_tasks + 1)
  <2> SUFFICES ASSUME NEW j \in Slots, call'[j].op = "wait"
               PROVE  /\ call'[j].arg \in 0 .. (num_tasks + 1) - 1
                      /\ "wait" \in Program[j]
                      /\ st[j] = TASK_BLOCKED =>
                           wait_idx'[call'[j].arg] = j /\ st[call'[j].arg] # TASK_EXITED
                      /\ st[j] # TASK_BLOCKED => st[call'[j].arg] = TASK_EXITED
    BY DEF Waiting
  <2> DEFINE a == call'[j].arg
  <2>1. /\ a \in 0 .. num_tasks - 1
        /\ "wait" \in Program[j]
        /\ state[j] = TASK_BLOCKED => wait_idx[a] = j /\ state[a] # TASK_EXITED
        /\ state[j] # TASK_BLOCKED => state[a] = TASK_EXITED
    BY <1>1 DEF Settled, Waiting
  <2>2. a \in Slots /\ a # y /\ a \in 0 .. (num_tasks + 1) - 1
    BY <1>1, <2>1, KernelAssumption DEF Slots, y
  <2>3. j # y
    BY <1>3 DEF NoCall
  <2> HIDE DEF a
  <2>4. st[j] = state[j] /\ st[a] = state[a] /\ wait_idx'[a] = wait_idx[a]
    BY <1>3, <2>2, <2>3
  <2> QED BY <2>1, <2>2, <2>4 DEF a
<1>5. Recorded(st, call', wait_idx')
  <2> SUFFICES ASSUME NEW j \in Slots, st[j] # TASK_EXITED, wait_idx'[j] # -1
               PROVE  st[wait_idx'[j]] = TASK_BLOCKED
                      /\ call'[wait_idx'[j]] = [op |-> "wait", arg |-> j]
    BY DEF Recorded
  <2>1. j # y /\ wait_idx'[j] = wait_idx[j] /\ wait_idx[j] \in Slots /\ st[j] = state[j]
    BY <1>2, <1>3
  <2>2. state[wait_idx[j]] = TASK_BLOCKED /\ call'[wait_idx[j]] = [op |-> "wait", arg |-> j]
    BY <1>1, <2>1 DEF Settled, Recorded
  <2>3. wait_idx[j] # y
    BY <1>3, <2>2 DEF TASK_BLOCKED, TASK_EXITED
  <2> QED BY <1>3, <2>1, <2>2, <2>3
<1>6. Entries(st, call', futex_waiters)
  <2> SUFFICES ASSUME NEW k \in 1 .. Len(futex_waiters)
               PROVE  st[futex_waiters[k].task_idx] = TASK_BLOCKED
    BY <1>1, Zenon DEF Entries, Settled
  <2>1. futex_waiters[k].task_idx \in Slots
    BY <1>2, EntryTypes
  <2>2. state[futex_waiters[k].task_idx] = TASK_BLOCKED
    BY Zenon, <1>1 DEF Settled, Entries
  <2> QED BY <1>3, <2>1, <2>2 DEF TASK_BLOCKED, TASK_EXITED
<1>7. Uncreated(st, call', num_tasks + 1)
  <2> SUFFICES ASSUME NEW i \in Slots, i >= num_tasks + 1
               PROVE  st[i] = TASK_EXITED /\ call'[i] = NoCall
    BY DEF Uncreated
  <2>1. i >= num_tasks /\ i # y
    BY <1>1 DEF y
  <2> QED BY <1>1, <1>3, <2>1 DEF Settled, Uncreated
<1> QED BY <1>4, <1>5, <1>6, <1>7 DEF Settled, st

\* Nothing depends on whether a living task that waits for nothing sleeps.
LEMMA SleepOrderly ==
  ASSUME NEW st \in [Slots -> States], NEW c, NEW wi \in [Slots -> Slots \cup {-1}],
         NEW q \in Seq(FutexEntries), NEW n \in 0 .. MAX_TASKS,
         Settled(st, c, wi, q, n),
         NEW t \in Slots, c[t] = NoCall, st[t] # TASK_EXITED,
         NEW v \in States, v # TASK_EXITED
  PROVE  Settled([st EXCEPT ![t] = v], c, wi, q, n)
<1> DEFINE st2 == [st EXCEPT ![t] = v]
<1>1. /\ \A i \in Slots : i # t => st2[i] = st[i]
      /\ \A i \in Slots : st2[i] = TASK_EXITED <=> st[i] = TASK_EXITED
      /\ c[t].op = "none" /\ c[t].arg = -1
  BY DEF NoCall
<1> HIDE DEF st2
<1>2. 0 .. n - 1 \subseteq Slots /\ -1 \notin Slots
  BY KernelAssumption DEF Slots
<1>3. Waiting(st2, c, wi, n)
  BY <1>1, <1>2, Zenon DEF Settled, Waiting
<1>4. Recorded(st2, c, wi)
  <2> SUFFICES ASSUME NEW j \in Slots, st2[j] # TASK_EXITED, wi[j] # -1
               PROVE  st2[wi[j]] = TASK_BLOCKED /\ c[wi[j]] = [op |-> "wait", arg |-> j]
    BY DEF Recorded
  <2>1. wi[j] \in Slots /\ st[wi[j]] = TASK_BLOCKED /\ c[wi[j]] = [op |-> "wait", arg |-> j]
    BY <1>1 DEF Settled, Recorded
  <2>2. wi[j] # t
    BY <1>1, <2>1
  <2> QED BY <1>1, <2>1, <2>2
<1>5. Entries(st2, c, q)
  <2> SUFFICES ASSUME NEW k \in 1 .. Len(q) PROVE st2[q[k].task_idx] = TASK_BLOCKED
    BY Zenon DEF Entries, Settled
  <2>1. q[k].task_idx \in Slots
    BY EntryTypes
  <2>2. st[q[k].task_idx] = TASK_BLOCKED /\ c[q[k].task_idx] = [op |-> "futex", arg |-> q[k].uaddr]
    BY DEF Settled, Entries
  <2>3. q[k].task_idx # t
    BY <1>1, <2>2
  <2> QED BY <1>1, <2>1, <2>2, <2>3
<1>6. Uncreated(st2, c, n)
  BY <1>1 DEF Settled, Uncreated
<1> QED BY <1>3, <1>4, <1>5, <1>6 DEF Settled, st2

\* One removal of FUTEX_WAKE's scan wakes the task of the entry, which is
\* asleep on the address of the wake.
LEMMA ScanOrderly ==
  ASSUME TypeOK, OneRunning, OrderlyInv, wake_scan
  PROVE  /\ OrderlyInv'
         /\ \A i \in Slots : state[i] = TASK_EXITED => state'[i] = TASK_EXITED
         /\ \A i \in Slots : state'[i] # state[i] => call[i] = [op |-> "futex", arg |-> fw.uaddr]
<1> DEFINE q == futex_waiters
           n == Len(futex_waiters)
           t == futex_waiters[fw.i].task_idx
<1>1. /\ cpu = "wake" /\ UNCHANGED <<current_task, num_tasks, wait_idx, irq_handler, cpu, call>>
      /\ Running /\ Settled(state, call, wait_idx, q, num_tasks)
  BY DEF wake_scan, tableVars, OrderlyInv
<1>2. /\ state \in [Slots -> States] /\ q \in Seq(FutexEntries) /\ n \in Nat
      /\ wait_idx \in [Slots -> Slots \cup {-1}] /\ fw.i \in 1 .. n
      /\ current_task \in Slots /\ num_tasks \in 1 .. MAX_TASKS
      /\ state[current_task] \notin Asleep /\ state[0] \notin Asleep /\ 0 \in Slots
  <2>1. state \in [Slots -> States] /\ q \in Seq(FutexEntries) /\ n \in Nat
        /\ wait_idx \in [Slots -> Slots \cup {-1}]
    BY DEF TypeOK
  <2>2. fw.i \in 1 .. n
    BY <2>1 DEF wake_scan, Scanning, TypeOK
  <2> QED BY <1>1, <2>1, <2>2, OrderlyFacts
<1>3. CASE q[fw.i].uaddr # fw.uaddr
  <2>1. UNCHANGED <<futex_waiters, state>>
    BY <1>3 DEF wake_scan
  <2> QED BY <1>1, <2>1 DEF OrderlyInv, Running
<1>4. CASE q[fw.i].uaddr = fw.uaddr
  <2>1. q' = SwapRemove(q, fw.i) /\ state' = Unblocked(state, t)
    BY <1>4 DEF wake_scan
  <2>2. /\ Len(q') = n - 1
        /\ \A j \in 1 .. n - 1 : q'[j] = IF j = fw.i THEN q[n] ELSE q[j]
    BY Zenon, <1>2, <2>1, SwapRemoveEffect
  <2>3. t \in Slots /\ state[t] = TASK_BLOCKED /\ call[t] = [op |-> "futex", arg |-> fw.uaddr]
    BY <1>1, <1>2, <1>4, EntryTypes DEF Settled, Entries
  <2>4. state' = [state EXCEPT ![t] = TASK_READY]
    BY <2>1, <2>3 DEF Unblocked
  <2>5. /\ state'[t] = TASK_READY /\ \A i \in Slots : i # t => state'[i] = state[i]
        /\ \A i \in Slots : state'[i] = TASK_EXITED <=> state[i] = TASK_EXITED
    BY <1>2, <2>3, <2>4 DEF TASK_EXITED, TASK_READY, TASK_BLOCKED
  <2> HIDE DEF t
  <2>6. Waiting(state', call, wait_idx, num_tasks)
    <3> SUFFICES ASSUME NEW j \in Slots, call[j].op = "wait"
                 PROVE  /\ call[j].arg \in 0 .. num_tasks - 1
                        /\ "wait" \in Program[j]
                        /\ state'[j] = TASK_BLOCKED =>
                             wait_idx[call[j].arg] = j /\ state'[call[j].arg] # TASK_EXITED
                        /\ state'[j] # TASK_BLOCKED => state'[call[j].arg] = TASK_EXITED
      BY DEF Waiting
    <3>1. j # t
      BY <2>3
    <3>2. /\ call[j].arg \in 0 .. num_tasks - 1
          /\ "wait" \in Program[j]
          /\ state[j] = TASK_BLOCKED => wait_idx[call[j].arg] = j /\ state[call[j].arg] # TASK_EXITED
          /\ state[j] # TASK_BLOCKED => state[call[j].arg] = TASK_EXITED
      BY <1>1 DEF Settled, Waiting
    <3>3. call[j].arg \in Slots
      BY <1>2, <3>2, KernelAssumption DEF Slots
    <3> QED BY <2>5, <3>1, <3>2, <3>3
  <2>7. Recorded(state', call, wait_idx)
    <3> SUFFICES ASSUME NEW j \in Slots, state'[j] # TASK_EXITED, wait_idx[j] # -1
                 PROVE  /\ state'[wait_idx[j]] = TASK_BLOCKED
                        /\ call[wait_idx[j]] = [op |-> "wait", arg |-> j]
      BY DEF Recorded
    <3>1. wait_idx[j] \in Slots /\ state[wait_idx[j]] = TASK_BLOCKED
          /\ call[wait_idx[j]] = [op |-> "wait", arg |-> j]
      BY <1>1, <1>2, <2>5 DEF Settled, Recorded
    <3>2. wait_idx[j] # t
      BY <2>3, <3>1
    <3> QED BY <2>5, <3>1, <3>2
  <2>8. Entries(state', call, q')
    <3>1. \A k, l \in 1 .. n : q[k].task_idx = q[l].task_idx => k = l
      BY <1>1 DEF Settled, Entries
    <3>2. \A j \in 1 .. n - 1 : \E k \in 1 .. n : k # fw.i /\ q'[j] = q[k]
      <4> TAKE j \in 1 .. n - 1
      <4>1. CASE j = fw.i
        BY <1>2, <2>2, <4>1
      <4>2. CASE j # fw.i
        BY <1>2, <2>2, <4>2
      <4> QED BY <4>1, <4>2
    <3>3. ASSUME NEW j \in 1 .. n - 1
          PROVE  /\ state'[q'[j].task_idx] = TASK_BLOCKED
                 /\ call[q'[j].task_idx] = [op |-> "futex", arg |-> q'[j].uaddr]
      <4>1. PICK k \in 1 .. n : k # fw.i /\ q'[j] = q[k]
        BY <3>2
      <4>2. q[k].task_idx # t
        BY <1>2, <3>1, <4>1 DEF t
      <4>3. q[k].task_idx \in Slots
        BY <1>2, EntryTypes
      <4>4. /\ state[q[k].task_idx] = TASK_BLOCKED
            /\ call[q[k].task_idx] = [op |-> "futex", arg |-> q[k].uaddr]
        BY <1>1 DEF Settled, Entries
      <4> QED BY <2>5, <4>1, <4>2, <4>3, <4>4
    <3>4. ASSUME NEW j \in 1 .. n - 1, NEW l \in 1 .. n - 1, q'[j].task_idx = q'[l].task_idx
          PROVE  j = l
      <4>1. /\ q'[j] = q[IF j = fw.i THEN n ELSE j]
            /\ q'[l] = q[IF l = fw.i THEN n ELSE l]
        BY <2>2
      <4>2. (IF j = fw.i THEN n ELSE j) \in 1 .. n /\ (IF l = fw.i THEN n ELSE l) \in 1 .. n
        BY <1>2
      <4>3. (IF j = fw.i THEN n ELSE j) = (IF l = fw.i THEN n ELSE l)
        BY <3>1, <3>4, <4>1, <4>2
      <4> QED BY <1>2, <4>3
    <3> QED BY <2>2, <3>3, <3>4 DEF Entries
  <2>9. Uncreated(state', call, num_tasks)
    BY <1>1, <2>5 DEF Settled, Uncreated
  <2>10. Running'
    <3>1. current_task # t /\ 0 # t
      BY <1>2, <2>3 DEF Asleep
    <3>2. state'[current_task] = state[current_task] /\ state'[0] = state[0]
      BY <1>2, <2>5, <3>1
    <3> QED BY <1>1, <3>2 DEF Running
  <2> QED BY <1>1, <2>3, <2>5, <2>6, <2>7, <2>8, <2>9, <2>10 DEF OrderlyInv, Settled
<1> QED BY <1>3, <1>4

\* The steps of DeadStaysDead and FutexWakesItsWaiters.
DeadStep ==
  \A i \in 0 .. num_tasks - 1 : state[i] = TASK_EXITED => state'[i] = TASK_EXITED

WakeStep ==
  \A i \in Slots :
    state[i] = TASK_BLOCKED /\ state'[i] = TASK_READY /\ fw'.woken > fw.woken =>
      call[i] = [op |-> "futex", arg |-> fw.uaddr]

\* One step under orderly programs.
LEMMA OrderlyStep ==
  ASSUME Orderly(Program), TypeOK, OneRunning, OrderlyInv, [Next]_vars
  PROVE  OrderlyInv' /\ DeadStep
<1>0. TypeOK'
  BY StepOK, TypeSplit, PTL
<1>a. cpu = "user" =>
        /\ current_task \in 0 .. num_tasks - 1 /\ current_task \in Slots /\ current_task < num_tasks
        /\ num_tasks \in 1 .. MAX_TASKS /\ num_tasks \in Nat /\ 0 \in Slots
        /\ Sane(state) /\ irq_handler = -1
        /\ state[current_task] \notin Asleep /\ state[0] \notin Asleep
        /\ Settled(state, call, wait_idx, futex_waiters, num_tasks)
  BY OrderlyFacts
<1>b. 0 .. num_tasks - 1 \subseteq Slots /\ 0 \in Slots
  BY KernelAssumption DEF TypeOK, Slots
<1>c. SameSleep(state, state') => DeadStep
  BY <1>b DEF SameSleep, DeadStep
<1>d. ASSUME UNCHANGED state PROVE DeadStep
  BY <1>d DEF DeadStep
<1>e. cpu = "user" => \A op \in {"kill", "send", "wait_any", "irq_register"} : ~Issues(op)
  BY <1>a DEF Orderly, Issues
<1>f. \A op \in {"exit", "fault", "wait", "futex_wait"} : Issues(op) => current_task # 0
  BY <1>a DEF Orderly, Issues
<1>1. CASE UNCHANGED vars
  <2>1. UNCHANGED <<state, call, wait_idx, futex_waiters, num_tasks, irq_handler, cpu, current_task>>
    BY <1>1 DEF vars
  <2> QED BY <1>d, <2>1 DEF OrderlyInv, Running
<1>2. CASE kmain
  <2>1. /\ cpu = "boot" /\ num_tasks = 0 /\ UNCHANGED <<irq_handler, call, futex_waiters>>
        /\ MAX_TASKS \in Nat \ {0}
    BY <1>2, KernelAssumption DEF kmain, TypeOK
  <2>2. Settled(state, call, wait_idx, futex_waiters, 0) /\ irq_handler = -1
    BY <2>1 DEF OrderlyInv, Running
  <2>3. DeadStep
    BY <2>1 DEF DeadStep
  <2>4. CASE cpu' = "idle" /\ UNCHANGED <<state, wait_idx, num_tasks, current_task>>
    BY <2>1, <2>2, <2>3, <2>4 DEF OrderlyInv, Running
  <2>5. CASE AddTask(1) /\ state' = [state EXCEPT ![0] = TASK_RUNNING] /\ current_task' = 0 /\ cpu' = "user"
    <3>1. num_tasks' = 1 /\ wait_idx' = [wait_idx EXCEPT ![0] = -1]
      BY <2>1, <2>5 DEF AddTask
    <3>2. state \in [Slots -> States] /\ wait_idx \in [Slots -> Slots \cup {-1}]
      BY DEF TypeOK
    <3>3. \A i \in Slots : state[i] = TASK_EXITED /\ call[i] = NoCall
      BY <2>2 DEF Settled, Uncreated, Slots
    <3>4. futex_waiters = <<>>
      <4>1. futex_waiters \in Seq(FutexEntries) /\ Len(futex_waiters) \in Nat
        BY DEF TypeOK
      <4>2. Len(futex_waiters) = 0
        <5> SUFFICES ASSUME Len(futex_waiters) # 0 PROVE FALSE
          OBVIOUS
        <5>1. 1 \in 1 .. Len(futex_waiters)
          BY <4>1
        <5>2. futex_waiters[1].task_idx \in Slots
          BY <4>1, <5>1, EntryTypes
        <5> QED BY Zenon, <2>2, <3>3, <5>1, <5>2 DEF Settled, Entries, TASK_EXITED, TASK_BLOCKED
      <4> QED BY <4>1, <4>2
    <3>5. state' [0] = TASK_RUNNING /\ wait_idx'[0] = -1 /\ \A i \in Slots : i # 0 => state'[i] = TASK_EXITED
      BY <1>b, <2>5, <3>1, <3>2, <3>3
    <3>6. Settled(state', call, wait_idx', futex_waiters, 1)
      <4>1. Waiting(state', call, wait_idx', 1)
        BY <3>3 DEF Waiting, NoCall
      <4>2. Recorded(state', call, wait_idx')
        BY <3>5 DEF Recorded
      <4>3. Entries(state', call, futex_waiters)
        BY <3>4 DEF Entries
      <4>4. Uncreated(state', call, 1)
        BY <3>3, <3>5 DEF Uncreated, Slots
      <4> QED BY <4>1, <4>2, <4>3, <4>4 DEF Settled
    <3>7. Running'
      BY <2>1, <2>2, <2>5, <3>1, <3>5 DEF Running, TASK_RUNNING, TASK_BLOCKED, TASK_EXITED
    <3> QED BY <2>1, <2>3, <3>1, <3>6, <3>7 DEF OrderlyInv
  <2> QED BY <1>2, <2>4, <2>5 DEF kmain
<1>3. CASE other_call
  BY <1>0, <1>3, <1>c, PlainCallOrderly DEF other_call, Issues, loopVars
<1>4. CASE sys_send \/ sys_kill \/ sys_irq_register \/ sys_wait_any
  BY <1>4, <1>e DEF sys_send, sys_kill, sys_irq_register, sys_wait_any, Issues
<1>5. CASE sys_exit
  <2>1. /\ cpu = "user" /\ current_task # 0 /\ NotWaiting /\ SyscallReturn(Exited, num_tasks)
        /\ UNCHANGED <<wait_idx, futex_waiters, irq_handler>> /\ num_tasks' = num_tasks /\ cpu' = "user"
    BY <1>5, <1>f DEF sys_exit, Issues, tableVars, loopVars
  <2>2. /\ Settled(Exited, call', wait_idx', futex_waiters', num_tasks)
        /\ Exited[0] \notin Asleep
        /\ \A i \in Slots : state[i] = TASK_EXITED => Exited[i] = TASK_EXITED
    BY <2>1, ExitedOrderly
  <2>3. Sane(Exited)
    BY <2>1, SaneUpdates
  <2>4. OrderlyInv' /\ SameSleep(Exited, state')
    BY <1>0, <1>a, <2>1, <2>2, <2>3, ReturnKeeps
  <2> QED BY <1>b, <2>2, <2>4 DEF DeadStep, SameSleep
<1>6. CASE sys_wait
  <2>1. /\ Issues("wait") /\ cpu = "user" /\ current_task # 0 /\ num_tasks' = num_tasks /\ cpu' = "user"
        /\ UNCHANGED <<tableVars, futex_waiters, irq_handler, cpu>>
    BY <1>6, <1>f DEF sys_wait, Issues, tableVars, loopVars
  <2>2. PICK p \in PidArgs :
          IF SlotsOf(p) = {} \/ state[Min(SlotsOf(p))] = TASK_EXITED
          THEN /\ NotWaiting
               /\ SyscallReturn(state, num_tasks)
               /\ UNCHANGED wait_idx
          ELSE /\ wait_idx' = [wait_idx EXCEPT ![Min(SlotsOf(p))] = current_task]
               /\ call' = [call EXCEPT ![current_task] = [op |-> "wait", arg |-> Min(SlotsOf(p))]]
               /\ SyscallReturn([state EXCEPT ![current_task] = TASK_BLOCKED], num_tasks)
    BY <1>6 DEF sys_wait
  <2>3. CASE SlotsOf(p) = {} \/ state[Min(SlotsOf(p))] = TASK_EXITED
    BY <1>0, <1>c, <2>1, <2>2, <2>3, PlainCallOrderly
  <2>4. CASE ~(SlotsOf(p) = {} \/ state[Min(SlotsOf(p))] = TASK_EXITED)
    <3> DEFINE st == [state EXCEPT ![current_task] = TASK_BLOCKED]
    <3>1. Min(SlotsOf(p)) \in 0 .. num_tasks - 1
      BY <2>4, FirstMatch
    <3>2. Settled(st, call', wait_idx', futex_waiters', num_tasks)
      BY Zenon, <2>1, <2>2, <2>4, <3>1, WaitOrderly
    <3>3. /\ Sane(st) /\ st[0] \notin Asleep
          /\ \A i \in Slots : state[i] = TASK_EXITED => st[i] = TASK_EXITED
      BY <1>a, <2>1, SaneUpdates DEF Sane, Asleep
    <3>4. SyscallReturn(st, num_tasks)
      BY <2>2, <2>4
    <3> HIDE DEF st
    <3>5. OrderlyInv' /\ SameSleep(st, state')
      BY <1>0, <1>a, <2>1, <3>2, <3>3, <3>4, ReturnKeeps
    <3> QED BY <1>b, <3>3, <3>5 DEF DeadStep, SameSleep
  <2> QED BY <2>3, <2>4
<1>10. ASSUME NEW op, NewTask(op) PROVE OrderlyInv' /\ DeadStep
  <2>1. /\ cpu = "user" /\ cpu' = "user" /\ NotWaiting
        /\ UNCHANGED <<futex_waiters, irq_handler, cpu>>
    BY <1>10 DEF NewTask, Issues, loopVars
  <2>2. CASE SyscallReturn(state, num_tasks) /\ UNCHANGED <<tableVars, wait_idx>>
    BY <1>0, <1>c, <2>1, <2>2, PlainCallOrderly
  <2>3. CASE /\ num_tasks < MAX_TASKS /\ AddTask(next_pid)
             /\ SyscallReturn([state EXCEPT ![num_tasks] = TASK_READY], num_tasks + 1)
    <3> DEFINE st == [state EXCEPT ![num_tasks] = TASK_READY]
               n == num_tasks + 1
    <3>1. /\ num_tasks \in Slots /\ n \in 1 .. MAX_TASKS /\ current_task \in 0 .. n - 1 /\ num_tasks # 0
      BY <1>a, <2>1, <2>3, KernelAssumption DEF Slots
    <3>2. wait_idx' = [wait_idx EXCEPT ![num_tasks] = -1] /\ num_tasks' = n
      BY <2>3 DEF AddTask
    <3>3. Settled(st, call', wait_idx', futex_waiters', n)
      BY <2>1, <2>3, <3>2, NewTaskOrderly
    <3>4. Sane(st)
      BY Zenon, <2>1, <3>1, SaneUpdates
    <3>5. /\ st[0] \notin Asleep
          /\ \A i \in 0 .. num_tasks - 1 : state[i] = TASK_EXITED => st[i] = TASK_EXITED
      <4>1. state \in [Slots -> States] /\ num_tasks \in Nat
        BY DEF TypeOK
      <4> QED BY <1>a, <1>b, <2>1, <3>1, <4>1
    <3>6. SyscallReturn(st, n)
      BY <2>3
    <3> HIDE DEF st, n
    <3>7. OrderlyInv' /\ SameSleep(st, state')
      BY Zenon, <1>0, <1>a, <2>1, <3>1, <3>2, <3>3, <3>4, <3>5, <3>6, ReturnKeeps
    <3> QED BY <1>b, <3>5, <3>7 DEF DeadStep, SameSleep
  <2> QED BY <1>10, <2>2, <2>3 DEF NewTask
<1>11. CASE sys_shutdown
  <2>1. /\ cpu = "user" /\ cpu' = "off" /\ NotWaiting
        /\ UNCHANGED <<state, current_task, num_tasks, wait_idx, irq_handler, futex_waiters>>
    BY <1>11 DEF sys_shutdown, Issues, tableVars
  <2>2. Settled(state, call', wait_idx, futex_waiters, num_tasks)
    BY Zenon, <1>a, <2>1, ForgetCall DEF NotWaiting
  <2> QED BY <1>a, <1>d, <2>1, <2>2 DEF OrderlyInv, Running, Asleep
<1>12. CASE sys_nanosleep
  <2>1. /\ cpu = "user" /\ NotWaiting /\ num_tasks' = num_tasks
        /\ UNCHANGED <<wait_idx, irq_handler, futex_waiters>>
    BY <1>12 DEF sys_nanosleep, Issues, tableVars
  <2>2. /\ Settled(state, call', wait_idx, futex_waiters, num_tasks)
        /\ call'[current_task] = NoCall
    BY Zenon, <1>a, <2>1, ForgetCall DEF NotWaiting, TypeOK
  <2>3. /\ state \in [Slots -> States] /\ wait_idx \in [Slots -> Slots \cup {-1}]
        /\ futex_waiters \in Seq(FutexEntries) /\ num_tasks \in 0 .. MAX_TASKS
        /\ TASK_BLOCKED \in States /\ TASK_RUNNING \in States
        /\ TASK_BLOCKED # TASK_EXITED /\ TASK_RUNNING # TASK_EXITED
        /\ state[current_task] # TASK_EXITED
    BY <1>a, <2>1 DEF TypeOK, States, Asleep, TASK_BLOCKED, TASK_EXITED, TASK_RUNNING
  <2>4. CASE SyscallReturn(Awake, num_tasks) /\ UNCHANGED loopVars
    <3>1. Settled(Awake, call', wait_idx', futex_waiters', num_tasks)
      BY <1>a, <2>1, <2>2, <2>3, SleepOrderly DEF Awake
    <3>2. Awake[0] \notin Asleep /\ \A i \in Slots : state[i] = TASK_EXITED => Awake[i] = TASK_EXITED
      BY <1>a, <2>1, <2>3 DEF Awake, Asleep, TASK_RUNNING, TASK_BLOCKED, TASK_EXITED
    <3>3. Sane(Awake) /\ cpu' = "user"
      BY <2>1, <2>4, SaneUpdates DEF loopVars
    <3>4. OrderlyInv' /\ SameSleep(Awake, state')
      BY <1>0, <1>a, <2>1, <2>4, <3>1, <3>2, <3>3, ReturnKeeps
    <3> QED BY <1>b, <3>2, <3>4 DEF DeadStep, SameSleep
  <2>5. CASE /\ cpu' = "sleep"
             /\ state' = [state EXCEPT ![current_task] = TASK_BLOCKED]
             /\ UNCHANGED current_task
    <3>1. Settled(state', call', wait_idx', futex_waiters', num_tasks)
      BY Zenon, <1>a, <2>1, <2>2, <2>3, <2>5, SleepOrderly
    <3>2. /\ state'[current_task] = TASK_BLOCKED
          /\ \A i \in Slots : i # current_task => state'[i] = state[i]
      BY <1>a, <2>1, <2>3, <2>5
    <3>3. Running'
      BY <1>a, <2>1, <2>2, <2>5, <3>2 DEF Running, Asleep
    <3>4. DeadStep
      BY <1>a, <1>b, <2>1, <2>3, <3>2 DEF DeadStep
    <3> QED BY <2>1, <3>1, <3>3, <3>4 DEF OrderlyInv
  <2> QED BY <1>12, <2>4, <2>5 DEF sys_nanosleep
<1>13. CASE sleep_tick
  <2>1. /\ cpu = "sleep" /\ num_tasks' = num_tasks
        /\ UNCHANGED <<wait_idx, irq_handler, futex_waiters, call>>
    BY <1>13 DEF sleep_tick, tableVars
  <2>2. CASE UNCHANGED <<state, current_task, cpu>>
    BY <1>d, <2>1, <2>2 DEF OrderlyInv, Running
  <2>3. CASE cpu' = "user" /\ SyscallReturn(Awake, num_tasks)
    <3>1. /\ current_task \in 0 .. num_tasks - 1 /\ current_task \in Slots
          /\ num_tasks \in 1 .. MAX_TASKS /\ irq_handler = -1
          /\ Settled(state, call, wait_idx, futex_waiters, num_tasks)
          /\ call[current_task] = NoCall /\ state[current_task] = TASK_BLOCKED
          /\ Sane(Awake)
      BY <2>1, OrderlyFacts, SaneUpdates DEF OrderlyInv, Running
    <3>2. /\ state \in [Slots -> States] /\ wait_idx \in [Slots -> Slots \cup {-1}]
          /\ futex_waiters \in Seq(FutexEntries) /\ num_tasks \in 0 .. MAX_TASKS
          /\ TASK_RUNNING \in States /\ TASK_RUNNING # TASK_EXITED
          /\ TASK_BLOCKED # TASK_EXITED /\ TASK_RUNNING # TASK_BLOCKED
      BY DEF TypeOK, States, TASK_BLOCKED, TASK_EXITED, TASK_RUNNING
    <3>3. Settled(Awake, call', wait_idx', futex_waiters', num_tasks)
      BY Zenon, <2>1, <3>1, <3>2, SleepOrderly DEF Awake
    <3>4. /\ Awake[current_task] = TASK_RUNNING
          /\ \A i \in Slots : i # current_task => Awake[i] = state[i]
      BY <3>1, <3>2 DEF Awake
    <3>5. Awake[0] \notin Asleep
      <4>1. current_task # 0 => state[0] \notin Asleep
        BY <2>1, <3>1 DEF OrderlyInv, Running, Asleep
      <4> QED BY <1>b, <3>2, <3>4, <4>1 DEF Asleep
    <3>6. OrderlyInv' /\ SameSleep(Awake, state')
      BY <1>0, <2>1, <2>3, <3>1, <3>3, <3>5, ReturnKeeps
    <3> QED BY <1>b, <3>1, <3>2, <3>4, <3>6 DEF DeadStep, SameSleep
  <2> QED BY <1>13, <2>2, <2>3 DEF sleep_tick
<1>14. CASE futex_wait
  <2>1. /\ cpu = "user" /\ current_task # 0 /\ num_tasks' = num_tasks /\ cpu' = "user"
        /\ UNCHANGED <<tableVars, wait_idx, irq_handler, cpu>>
    BY <1>14, <1>f DEF futex_wait, Issues, tableVars, loopVars
  <2>2. CASE NotWaiting /\ SyscallReturn(state, num_tasks) /\ UNCHANGED futex_waiters
    BY <1>0, <1>c, <2>1, <2>2, PlainCallOrderly
  <2>3. ASSUME NEW u \in UAddrs,
               futex_waiters' = Append(futex_waiters, [uaddr |-> u, task_idx |-> current_task]),
               call' = [call EXCEPT ![current_task] = [op |-> "futex", arg |-> u]],
               SyscallReturn([state EXCEPT ![current_task] = TASK_BLOCKED], num_tasks)
        PROVE  OrderlyInv' /\ DeadStep
    <3> DEFINE st == [state EXCEPT ![current_task] = TASK_BLOCKED]
    <3>1. Settled(st, call', wait_idx', futex_waiters', num_tasks)
      BY Zenon, <2>1, <2>3, FutexWaitOrderly
    <3>2. /\ Sane(st) /\ st[0] \notin Asleep
          /\ \A i \in Slots : state[i] = TASK_EXITED => st[i] = TASK_EXITED
      BY <1>a, <2>1, SaneUpdates DEF Sane, Asleep
    <3>3. SyscallReturn(st, num_tasks)
      BY <2>3
    <3> HIDE DEF st
    <3>4. OrderlyInv' /\ SameSleep(st, state')
      BY <1>0, <1>a, <2>1, <3>1, <3>2, <3>3, ReturnKeeps
    <3> QED BY <1>b, <3>2, <3>4 DEF DeadStep, SameSleep
  <2> QED BY Zenon, <1>14, <2>2, <2>3 DEF futex_wait
<1>15. CASE futex_wake
  <2>1. /\ cpu = "user" /\ cpu' = "wake" /\ NotWaiting
        /\ UNCHANGED <<state, current_task, num_tasks, wait_idx, irq_handler, futex_waiters>>
    BY <1>15 DEF futex_wake, Issues, tableVars
  <2>2. Settled(state, call', wait_idx, futex_waiters, num_tasks)
    BY Zenon, <1>a, <2>1, ForgetCall DEF NotWaiting
  <2> QED BY <1>a, <1>d, <2>1, <2>2 DEF OrderlyInv, Running, Asleep
<1>16. CASE wake_scan
  BY <1>16, <1>b, ScanOrderly DEF DeadStep
<1>17. CASE wake_return
  <2>1. /\ cpu = "wake" /\ cpu' = "user" /\ SyscallReturn(state, num_tasks)
        /\ num_tasks' = num_tasks /\ UNCHANGED <<wait_idx, irq_handler, futex_waiters, call>>
    BY <1>17 DEF wake_return, tableVars
  <2>2. /\ current_task \in 0 .. num_tasks - 1 /\ num_tasks \in 1 .. MAX_TASKS
        /\ Sane(state) /\ irq_handler = -1 /\ state[0] \notin Asleep
        /\ Settled(state, call, wait_idx, futex_waiters, num_tasks)
    BY <2>1, OrderlyFacts
  <2>3. OrderlyInv' /\ SameSleep(state, state')
    BY <1>0, <2>1, <2>2, ReturnKeeps
  <2> QED BY <1>c, <2>3
<1>18. CASE timer_irq
  <2>1. /\ cpu = "user" /\ cpu' = "user" /\ num_tasks > 1 /\ schedule(num_tasks)
        /\ num_tasks' = num_tasks /\ UNCHANGED <<wait_idx, irq_handler, futex_waiters, call>>
    BY <1>18 DEF timer_irq, tableVars, loopVars
  <2>2. SyscallReturn(state, num_tasks)
    BY <1>a, <2>1 DEF SyscallReturn, schedule, Preempted, Asleep
  <2>3. OrderlyInv' /\ SameSleep(state, state')
    BY <1>0, <1>a, <2>1, <2>2, ReturnKeeps
  <2> QED BY <1>c, <2>3
<1>19. CASE keyboard_irq
  BY <1>19 DEF keyboard_irq, OrderlyInv, Running
<1>20. CASE page_fault
  <2> DEFINE ready == {i \in 0 .. num_tasks - 1 : Exited[i] = TASK_READY}
  <2>1. /\ cpu = "user" /\ current_task # 0 /\ NotWaiting /\ num_tasks' = num_tasks
        /\ UNCHANGED <<wait_idx, futex_waiters, irq_handler>>
    BY <1>20, <1>f DEF page_fault, Issues, tableVars
  <2>2. /\ Settled(Exited, call', wait_idx', futex_waiters', num_tasks)
        /\ Exited[0] \notin Asleep /\ Exited[0] \in {state[0], TASK_READY}
        /\ \A i \in Slots : state[i] = TASK_EXITED => Exited[i] = TASK_EXITED
    BY <2>1, ExitedOrderly
  <2>3. Exited[0] = TASK_READY
    BY <1>a, <2>1, <2>2 DEF Sane, States, Asleep
  <2>4. 0 \in ready /\ ready \in SUBSET Nat
    BY <1>a, <2>1, <2>3
  <2>5. Min(ready) \in ready
    BY <2>4, MinInSet
  <2>6. Resume(Exited, Min(ready)) /\ UNCHANGED cpu
    BY <1>20, <2>4 DEF page_fault
  <2> DEFINE m == Min(ready)
  <2>7. m \in Slots /\ Exited[m] = TASK_READY
    BY <1>b, <2>5
  <2>8. Exited \in [Slots -> States]
    BY <2>1, SaneUpdates DEF Sane
  <2> HIDE DEF ready, m
  <2>9. SameSleep(Exited, state') /\ state'[current_task'] = TASK_RUNNING
    BY <2>6, <2>7, <2>8 DEF m, Resume, SameSleep, TASK_READY, TASK_RUNNING, TASK_BLOCKED, TASK_EXITED
  <2>10. Settled(state', call', wait_idx', futex_waiters', num_tasks)
    <3>1. /\ wait_idx' \in [Slots -> Slots \cup {-1}] /\ futex_waiters' \in Seq(FutexEntries)
          /\ num_tasks \in 0 .. MAX_TASKS
      BY <1>0 DEF TypeOK
    <3> QED BY <2>2, <2>9, <3>1, SettledSame
  <2>11. state'[0] \notin Asleep
    BY <1>b, <2>2, <2>9 DEF SameSleep, Asleep
  <2>12. Running'
    BY <1>a, <2>1, <2>6, <2>9, <2>11 DEF Running, Asleep, TASK_RUNNING, TASK_BLOCKED, TASK_EXITED
  <2> QED BY <1>b, <2>1, <2>2, <2>9, <2>10, <2>12 DEF OrderlyInv, DeadStep, SameSleep
<1>21. CASE panic
  <2>1. /\ cpu = "user" /\ cpu' = "panic"
        /\ UNCHANGED <<state, current_task, num_tasks, wait_idx, irq_handler, futex_waiters, call>>
    BY <1>21 DEF panic, Issues, tableVars
  <2> QED BY <1>a, <1>d, <2>1 DEF OrderlyInv, Running, Asleep
<1> QED
  BY Zenon, <1>1, <1>2, <1>3, <1>4, <1>5, <1>6, <1>10, <1>11, <1>12, <1>13,
     <1>14, <1>15, <1>16, <1>17, <1>18, <1>19, <1>20, <1>21
  DEF Next, Syscall, sys_spawn_at, sys_clone

\* Only the scan of FUTEX_WAKE counts tasks as woken.
LEMMA WakeCounts ==
  ASSUME TypeOK, OneRunning, OrderlyInv, [Next]_vars
  PROVE  WakeStep
<1>1. CASE wake_scan
  <2>1. \A i \in Slots : state'[i] # state[i] => call[i] = [op |-> "futex", arg |-> fw.uaddr]
    BY <1>1, ScanOrderly
  <2> QED BY <2>1 DEF WakeStep, TASK_BLOCKED, TASK_READY
<1>2. fw.woken \in Nat
  BY DEF TypeOK
<1>3. CASE fw'.woken = 0 \/ fw' = fw
  BY <1>2, <1>3 DEF WakeStep
<1>4. CASE futex_wake
  <2>1. fw'.woken = 0
    BY <1>4 DEF futex_wake
  <2> QED BY <1>3, <2>1
<1>5. CASE wake_return
  <2>1. fw'.woken = 0
    BY <1>5 DEF wake_return, NoWake
  <2> QED BY <1>3, <2>1
<1> QED
  BY Zenon, <1>1, <1>3, <1>4, <1>5
  DEF Next, Syscall, vars, loopVars, kmain, other_call, sys_send, sys_exit, sys_wait,
      sys_wait_any, sys_irq_register, sys_kill, sys_spawn_at, sys_clone, NewTask,
      sys_shutdown, sys_nanosleep, futex_wait, sleep_tick, timer_irq,
      keyboard_irq, page_fault, panic

LEMMA InitOrderly == Init => OrderlyInv
<1> SUFFICES ASSUME Init PROVE OrderlyInv
  OBVIOUS
<1>1. /\ \A i \in Slots : state[i] = TASK_EXITED /\ call[i] = NoCall
      /\ futex_waiters = <<>> /\ num_tasks = 0 /\ cpu = "boot" /\ irq_handler = -1
  BY DEF Init
<1>2. Running
  BY <1>1 DEF Running
<1>3. Waiting(state, call, wait_idx, num_tasks)
  BY <1>1 DEF Waiting, NoCall
<1>4. Recorded(state, call, wait_idx)
  BY <1>1 DEF Recorded
<1>5. Entries(state, call, futex_waiters)
  BY <1>1 DEF Entries
<1>6. Uncreated(state, call, num_tasks)
  BY <1>1 DEF Uncreated
<1> QED BY <1>2, <1>3, <1>4, <1>5, <1>6 DEF OrderlyInv, Settled

\* The inductive invariant of the theorems about orderly programs.
LEMMA OrderlyCorrect ==
  ASSUME Orderly(Program)
  PROVE  Spec => [](TypeOK /\ OneRunning /\ OrderlyInv)
<1>1. TypeOK /\ OneRunning /\ OrderlyInv /\ [Next]_vars => OrderlyInv'
  BY OrderlyStep
<1> QED BY <1>1, InitOrderly, TypeAndRunning, PTL DEF Spec

\* In ring 3 the current task is awake, also when it is the only one.
LEMMA UserAwake ==
  ASSUME TypeOK, OneRunning, OrderlyInv, cpu = "user"
  PROVE  current_task \in Slots /\ state[current_task] # TASK_BLOCKED
         /\ Settled(state, call, wait_idx, futex_waiters, num_tasks)
  BY OrderlyFacts DEF Asleep

\* For every table and all orderly programs: wait comes back to ring 3 only
\* when the task it named has exited.
THEOREM WaitCorrect ==
  ASSUME Orderly(Program)
  PROVE  Spec => []WaitReturnsAfterExit
<1>1. TypeOK /\ OneRunning /\ OrderlyInv => WaitReturnsAfterExit
  BY UserAwake DEF WaitReturnsAfterExit, Settled, Waiting
<1> QED BY <1>1, OrderlyCorrect, PTL

\* FUTEX_WAIT comes back to ring 3 only after its entry has been removed.
THEOREM FutexReturnCorrect ==
  ASSUME Orderly(Program)
  PROVE  Spec => []FutexReturnsAfterWake
<1>1. TypeOK /\ OneRunning /\ OrderlyInv => FutexReturnsAfterWake
  <2> SUFFICES ASSUME TypeOK, OneRunning, OrderlyInv, cpu = "user",
                      NEW k \in 1 .. Len(futex_waiters),
                      futex_waiters[k] = [uaddr |-> call[current_task].arg,
                                          task_idx |-> current_task]
               PROVE  FALSE
    BY DEF FutexReturnsAfterWake
  <2>1. futex_waiters[k].task_idx = current_task
    OBVIOUS
  <2> QED BY Zenon, <2>1, UserAwake DEF Settled, Entries
<1> QED BY <1>1, OrderlyCorrect, PTL

\* A task asleep in wait is recorded in the task it waits for, which has not
\* exited: the wake-up it relies on is still to come.
THEOREM WaiterCorrect ==
  ASSUME Orderly(Program)
  PROVE  Spec => []WaiterRegistered
<1>1. TypeOK /\ OneRunning /\ OrderlyInv => WaiterRegistered
  BY DEF WaiterRegistered, OrderlyInv, Settled, Waiting
<1> QED BY <1>1, OrderlyCorrect, PTL

\* No page fault of a program stops the machine: init is there to run.
THEOREM NeverHaltsCorrect ==
  ASSUME Orderly(Program)
  PROVE  Spec => []NeverHalts
<1>1. OrderlyInv => NeverHalts
  BY DEF NeverHalts, OrderlyInv, Running
<1> QED BY <1>1, OrderlyCorrect, PTL

\* No exit of another task, no wake and no scheduling revives an exited task.
THEOREM DeadStaysDeadCorrect ==
  ASSUME Orderly(Program)
  PROVE  Spec => DeadStaysDead
<1>1. TypeOK /\ OneRunning /\ OrderlyInv /\ [Next]_vars => DeadStep
  BY OrderlyStep
<1>2. Spec => [][DeadStep]_vars
  BY <1>1, OrderlyCorrect, PTL DEF Spec
<1> QED BY <1>2 DEF DeadStaysDead, DeadStep

\* What FUTEX_WAKE counts as woken was asleep on the address of the wake.
THEOREM FutexWakesCorrect ==
  ASSUME Orderly(Program)
  PROVE  Spec => FutexWakesItsWaiters
<1>1. TypeOK /\ OneRunning /\ OrderlyInv /\ [Next]_vars => WakeStep
  BY WakeCounts
<1>2. Spec => [][WakeStep]_vars
  BY <1>1, OrderlyCorrect, PTL DEF Spec
<1> QED BY <1>2 DEF FutexWakesItsWaiters, WakeStep
=============================================================================

---------------------------- MODULE FramesProofs ----------------------------
(***************************************************************************)
(* Proofs about module Frames for every number of tasks and every set of   *)
(* pages.                                                                  *)
(***************************************************************************)
EXTENDS Frames, TLAPS

\* What FramesKept and ResumesOwn need at the other points of the program: which
\* slots are in use, that the frame on the kernel stack is the current task's,
\* and that the page into which the frame of an ended task is saved is nobody's.
Current ==
  /\ free \cap data = {}
  /\ \A t \in Slots : state[t] # "none" <=> t < num_tasks
  /\ mode \in {"user", "return"} => ~Ended(current_task)
  /\ mode \in {"user", "kernel"} => ret = r
  /\ mode = "kernel" => cells[r] = left[current_task]
  /\ mode = "kernel" /\ Ended(current_task) =>
       ~masked /\ stack_phys[current_task] \in free \cup {0}
  /\ mode = "return" => ret \in {r, Low(stack_phys[current_task])}

Inv == TypeOK /\ FramesKept /\ ResumesOwn /\ (mode # "broken" => Current)

\* The frames of different pages are different cells, none of them is the frame
\* on the kernel stack, and none of them is just below a frame.
LEMMA CellsApart ==
  ASSUME NEW p \in Pages \cup {0}, NEW q \in Pages \cup {0}
  PROVE  /\ Low(p) = Low(q) => p = q
         /\ Low(p) # r /\ Low(p) # r - 1
         /\ Low(p) # Low(q) - 1 /\ Low(p) # High(q)
         /\ Low(p) \in Cells /\ r \in Cells
BY FramesAssumption DEF Low, High, r, Cells

LEMMA InitInv == Init => Inv
<1> SUFFICES ASSUME Init PROVE Inv
  OBVIOUS
<1>1. PICK p \in Pages, c \in Contexts :
        /\ cells \in [Cells -> {c}]
        /\ free = Pages \ {p}
        /\ stack_phys = [t \in Slots |-> IF t = 0 THEN p ELSE 0]
        /\ rsp = [t \in Slots |-> IF t = 0 THEN Low(p) ELSE 0]
        /\ ret = Low(p)
        /\ left = [t \in Slots |-> c]
  BY DEF Init
<1>2. 0 \in Slots /\ Slots \subseteq Nat /\ \A t \in Slots : t < 1 <=> t = 0
  BY FramesAssumption DEF Slots
<1>3. Low(0) = 0 /\ Low(p) \in Cells
  BY CellsApart DEF Low
<1>4. TypeOK
  BY <1>1, <1>2, <1>3, FramesAssumption DEF Init, TypeOK, States
<1>5. FramesKept /\ ResumesOwn /\ Current
  BY <1>1, <1>2, <1>3 DEF Init, FramesKept, ResumesOwn, Current, Live, Ended
<1> QED
  BY <1>4, <1>5 DEF Inv

\* A step that creates and ends no task.
SameTasks ==
  /\ state' \in [Slots -> States]
  /\ \A t \in Slots :
       \/ state'[t] = state[t]
       \/ state[t] \notin {"none", "exited"} /\ state'[t] \notin {"none", "exited"}

LEMMA SameState == Inv /\ UNCHANGED state => SameTasks
<1>1. ASSUME Inv PROVE state \in [Slots -> States]
  BY <1>1 DEF Inv, TypeOK
<1> QED
  BY <1>1 DEF SameTasks

\* Calls, interrupts and program steps that create and end no task and save
\* nothing: the frames stay where they are.
LEMMA QuietStep ==
  ASSUME Inv, mode # "broken",
         UNCHANGED <<stack_phys, rsp, num_tasks, current_task>>,
         cells' \in [Cells -> Contexts],
         \A p \in Pages \ (free \cup data) : cells'[Low(p)] = cells[Low(p)],
         SameTasks,
         free' \subseteq free, data' \subseteq data \cup (free \ free'),
         left' \in [Slots -> Contexts],
         \A t \in Slots \ {current_task} : left'[t] = left[t]
  PROVE  /\ FramesKept'
         /\ free' \cap data' = {}
         /\ \A t \in Slots : state'[t] # "none" <=> t < num_tasks'
<1>1. /\ free' \cap data' = {}
      /\ \A t \in Slots : state'[t] # "none" <=> t < num_tasks'
  BY DEF Inv, Current, SameTasks
<1>2. Live' = Live
  BY DEF Live, Ended, SameTasks
<1>3. ASSUME mode' # "broken", NEW t \in Live
      PROVE  /\ stack_phys'[t] \in Pages \ (free' \cup data')
             /\ \A u \in Live' : stack_phys'[u] = stack_phys'[t] => u = t
             /\ t # current_task' => /\ rsp'[t] = Low(stack_phys'[t])
                                    /\ cells'[rsp'[t]] = left'[t]
  BY <1>2 DEF Inv, FramesKept, Live
<1> QED
  BY <1>1, <1>2, <1>3 DEF FramesKept

LEMMA RunInv == Inv /\ Run => Inv'
<1> SUFFICES ASSUME Inv, Run PROVE Inv'
  OBVIOUS
<1>1. /\ cells' \in [Cells -> Contexts]
      /\ \A p \in Pages \ (free \cup data) : cells'[Low(p)] = cells[Low(p)]
  <2>1. PICK a \in UNION {{Low(p), High(p)} : p \in data}, c \in Contexts :
          cells' = [cells EXCEPT ![a] = c]
    BY DEF Run
  <2>2. PICK p \in data : a \in {Low(p), High(p)}
    OBVIOUS
  <2>3. \A q \in Pages \ (free \cup data) : Low(q) # a
    BY <2>2, CellsApart DEF Inv, TypeOK
  <2> QED
    BY <2>1, <2>3, CellsApart DEF Inv, TypeOK
<1>2. FramesKept' /\ free' \cap data' = {}
      /\ \A t \in Slots : state'[t] # "none" <=> t < num_tasks'
  <2> SUFFICES mode # "broken" /\ UNCHANGED <<free, data, state, left, stack_phys,
                                            rsp, num_tasks, current_task>>
    BY <1>1, QuietStep, SameState DEF Inv, TypeOK
  <2> QED
    BY DEF Run, memory, tables
<1>3. TypeOK'
  BY <1>1 DEF Inv, TypeOK, Run, memory, tables
<1> QED
  BY <1>2, <1>3 DEF Inv, Run, memory, tables, ResumesOwn, Current, Ended

\* Entering the kernel writes the frame at r only.
LEMMA EnterFacts ==
  ASSUME Inv, NEW off \in BOOLEAN, NEW c \in Contexts, Enter(off, c)
  PROVE  /\ mode = "user" /\ masked' = off
         /\ current_task \in Slots /\ ~Ended(current_task)
         /\ cells' \in [Cells -> Contexts]
         /\ cells'[r] = c
         /\ \A p \in Pages : cells'[Low(p)] = cells[Low(p)]
         /\ left' \in [Slots -> Contexts]
         /\ left'[current_task] = c
         /\ \A t \in Slots \ {current_task} : left'[t] = left[t]
<1>1. r \in Cells /\ \A p \in Pages : Low(p) # r
  BY CellsApart
<1>2. current_task \in Slots
  BY FramesAssumption DEF Inv, TypeOK, Slots
<1> QED
  BY <1>1, <1>2 DEF Enter, Inv, TypeOK, Current

LEMMA TimerInv == Inv /\ Timer => Inv'
<1> SUFFICES ASSUME Inv, Timer PROVE Inv'
  OBVIOUS
<1>1. PICK c \in Contexts : Enter(TRUE, c)
  BY DEF Timer
<1>2. UNCHANGED <<free, data, state, stack_phys, rsp, num_tasks, current_task,
                  code_pages, ret>> /\ mode' = "kernel"
  BY DEF Timer, memory, tables
<1>3. FramesKept' /\ free' \cap data' = {}
      /\ \A t \in Slots : state'[t] # "none" <=> t < num_tasks'
  BY <1>1, <1>2, EnterFacts, QuietStep, SameState DEF Inv, TypeOK
<1>4. TypeOK'
  BY <1>1, <1>2, EnterFacts DEF Inv, TypeOK
<1> QED
  BY <1>1, <1>2, <1>3, <1>4, EnterFacts DEF Inv, ResumesOwn, Current, Ended

LEMMA WakesFacts ==
  ASSUME Inv, NEW woken, Wakes(woken)
  PROVE  SameTasks
<1>1. state \in [Slots -> States]
  BY DEF Inv, TypeOK
<1> QED
  BY <1>1 DEF Wakes, SameTasks, States

LEMMA KeyboardInv == Inv /\ Keyboard => Inv'
<1> SUFFICES ASSUME Inv, Keyboard PROVE Inv'
  OBVIOUS
<1>1. PICK c \in Contexts : Enter(TRUE, c)
  BY DEF Keyboard
<1>2. UNCHANGED <<free, data, stack_phys, rsp, num_tasks, current_task, code_pages, ret>>
      /\ mode' = "return"
  BY DEF Keyboard, memory
<1>3. SameTasks
  BY WakesFacts DEF Keyboard
<1>4. FramesKept' /\ free' \cap data' = {}
      /\ \A t \in Slots : state'[t] # "none" <=> t < num_tasks'
  BY <1>1, <1>2, <1>3, EnterFacts, QuietStep DEF Inv, TypeOK
<1>5. TypeOK'
  BY <1>1, <1>2, <1>3, EnterFacts DEF Inv, TypeOK, SameTasks
<1> QED
  BY <1>1, <1>2, <1>3, <1>4, <1>5, EnterFacts
     DEF Inv, ResumesOwn, Current, Ended, SameTasks

\* A call that neither creates nor ends a task.
LEMMA PlainCall ==
  ASSUME Inv, Syscall,
         UNCHANGED <<stack_phys, rsp, num_tasks, current_task, code_pages>>,
         SameTasks,
         free' \subseteq free, data' \subseteq data \cup (free \ free')
  PROVE  Inv'
<1>1. PICK c \in Contexts : Enter(FALSE, c)
  BY DEF Syscall
<1>2. mode' = "kernel" /\ UNCHANGED ret
  BY DEF Syscall
<1>3. FramesKept' /\ free' \cap data' = {}
      /\ \A t \in Slots : state'[t] # "none" <=> t < num_tasks'
  <2>1. /\ mode # "broken" /\ cells' \in [Cells -> Contexts]
        /\ \A p \in Pages : cells'[Low(p)] = cells[Low(p)]
        /\ left' \in [Slots -> Contexts]
        /\ \A t \in Slots \ {current_task} : left'[t] = left[t]
    BY <1>1, EnterFacts
  <2> QED
    BY <2>1, QuietStep
<1>4. TypeOK'
  BY <1>1, <1>2, EnterFacts DEF Inv, TypeOK, SameTasks
<1> QED
  BY <1>1, <1>2, <1>3, <1>4, EnterFacts
     DEF Inv, ResumesOwn, Current, Ended, SameTasks

LEMMA CallInv == Inv /\ (Call \/ Block \/ map_pages) => Inv'
<1>1. ASSUME Inv, Call PROVE Inv'
  <2>1. PICK woken \in SUBSET Slots : Wakes(woken)
    BY <1>1 DEF Call
  <2>2. Syscall /\ UNCHANGED <<free, data, stack_phys, rsp, num_tasks, current_task, code_pages>>
    BY <1>1 DEF Call, memory
  <2>3. SameTasks
    BY <1>1, <2>1, WakesFacts
  <2> QED
    BY <1>1, <2>2, <2>3, PlainCall
<1>2. ASSUME Inv, Block PROVE Inv'
  <2>1. current_task \in Slots /\ state[current_task] \notin {"none", "exited"}
    BY <1>2, FramesAssumption DEF Inv, TypeOK, Slots, Current, Ended, Block, Syscall, Enter
  <2>2. state \in [Slots -> States]
    BY <1>2 DEF Inv, TypeOK
  <2>3. SameTasks
    BY <1>2, <2>1, <2>2 DEF Block, SameTasks, States
  <2>4. Syscall /\ UNCHANGED <<free, data, stack_phys, rsp, num_tasks, current_task, code_pages>>
    BY <1>2 DEF Block, memory
  <2> QED
    BY <1>2, <2>3, <2>4, PlainCall
<1>3. ASSUME Inv, map_pages PROVE Inv'
  <2>1. SameTasks
    BY <1>3, SameState DEF map_pages, tables
  <2>2. free' \subseteq free /\ data' \subseteq data \cup (free \ free')
    BY <1>3 DEF map_pages
  <2>3. Syscall /\ UNCHANGED <<stack_phys, rsp, num_tasks, current_task, code_pages>>
    BY <1>3 DEF map_pages, tables
  <2> QED
    BY <1>3, <2>1, <2>2, <2>3, PlainCall
<1> QED
  BY <1>1, <1>2, <1>3

\* sys_recv writes to the program and to the kernel stack.
LEMMA RecvInv == Inv /\ sys_recv => Inv'
<1> SUFFICES ASSUME Inv, sys_recv PROVE Inv'
  OBVIOUS
<1>1. PICK a \in UNION {{Low(p), High(p)} : p \in data}, c \in Contexts, m \in Contexts :
        /\ cells' = [cells EXCEPT ![a] = m, ![r] = c]
        /\ left' = [left EXCEPT ![current_task] = c]
  BY DEF sys_recv
<1>2. /\ mode = "user" /\ mode' = "kernel" /\ masked' = FALSE
      /\ UNCHANGED <<free, data, state, stack_phys, rsp, num_tasks, current_task,
                     code_pages, ret>>
  BY DEF sys_recv, memory, tables
<1>3. current_task \in Slots /\ ~Ended(current_task)
  BY <1>2, FramesAssumption DEF Inv, TypeOK, Slots, Current
<1>4. /\ cells' \in [Cells -> Contexts] /\ cells'[r] = c
      /\ \A p \in Pages \ (free \cup data) : cells'[Low(p)] = cells[Low(p)]
  <2>1. PICK p \in data : a \in {Low(p), High(p)}
    OBVIOUS
  <2>2. \A q \in Pages \ (free \cup data) : Low(q) # a /\ Low(q) # r /\ Low(q) \in Cells
    BY <2>1, CellsApart DEF Inv, TypeOK
  <2>3. r \in Cells
    BY CellsApart
  <2> QED
    BY <1>1, <2>2, <2>3 DEF Inv, TypeOK
<1>5. /\ left' \in [Slots -> Contexts] /\ left'[current_task] = c
      /\ \A t \in Slots \ {current_task} : left'[t] = left[t]
  BY <1>1, <1>3 DEF Inv, TypeOK
<1>6. FramesKept' /\ free' \cap data' = {}
      /\ \A t \in Slots : state'[t] # "none" <=> t < num_tasks'
  BY <1>2, <1>4, <1>5, QuietStep, SameState DEF Inv, TypeOK
<1>7. TypeOK'
  BY <1>2, <1>4, <1>5 DEF Inv, TypeOK
<1> QED
  BY <1>2, <1>3, <1>4, <1>5, <1>6, <1>7 DEF Inv, ResumesOwn, Current, Ended

LEMMA NewTaskInv ==
  ASSUME NEW code \in {0, 1}, NEW others \in SUBSET free
  PROVE  Inv /\ num_tasks < MAX_TASKS /\ NewTask(code, others) => Inv'
<1> SUFFICES ASSUME Inv, num_tasks < MAX_TASKS, NewTask(code, others) PROVE Inv'
  OBVIOUS
<1>1. PICK c \in Contexts, first \in Contexts, p \in free \ others :
       /\ cells' = [cells EXCEPT ![Low(p)] = first, ![r] = c]
       /\ left' = [left EXCEPT ![num_tasks] = first, ![current_task] = c]
       /\ free' = free \ ({p} \cup others)
       /\ stack_phys' = [stack_phys EXCEPT ![num_tasks] = p]
       /\ rsp' = [rsp EXCEPT ![num_tasks] = Low(p)]
  BY DEF NewTask
<1>2. /\ mode = "user" /\ mode' = "kernel" /\ masked' = FALSE
      /\ data' = data \cup others
      /\ state' = [state EXCEPT ![num_tasks] = "ready"]
      /\ code_pages' = [code_pages EXCEPT ![num_tasks] = code]
      /\ num_tasks' = num_tasks + 1
      /\ UNCHANGED <<current_task, ret>>
  BY DEF NewTask
<1>3. /\ p \in Pages /\ num_tasks \in Slots /\ current_task \in Slots
      /\ current_task # num_tasks
      /\ \A t \in Slots : t < num_tasks + 1 <=> t < num_tasks \/ t = num_tasks
      /\ ~(num_tasks < num_tasks)
  BY <1>2, FramesAssumption DEF Inv, TypeOK, Slots
<1>4. /\ Low(p) \in Cells /\ r \in Cells
      /\ \A q \in Pages : Low(q) # r /\ (Low(p) = Low(q) => p = q)
  BY <1>3, CellsApart
<1>5. TypeOK'
  <2>1. cells' \in [Cells -> Contexts] /\ left' \in [Slots -> Contexts]
    BY <1>1 DEF Inv, TypeOK
  <2>2. num_tasks' \in 1 .. MAX_TASKS /\ current_task' \in 0 .. num_tasks' - 1
    BY <1>2, FramesAssumption DEF Inv, TypeOK
  <2>3. /\ stack_phys' \in [Slots -> Pages \cup {0}]
        /\ rsp' \in [Slots -> {Low(q) : q \in Pages \cup {0}}]
    BY <1>1, <1>3 DEF Inv, TypeOK
  <2> QED
    BY <1>1, <1>2, <2>1, <2>2, <2>3 DEF Inv, TypeOK, States
<1>6. /\ cells'[r] = c
      /\ cells'[Low(p)] = first
      /\ \A q \in Pages \ {p} : cells'[Low(q)] = cells[Low(q)]
  <2>1. \A q \in Pages : Low(q) \in Cells
    BY CellsApart
  <2> QED
    BY <1>1, <1>3, <1>4, <2>1 DEF Inv, TypeOK
<1>7. /\ Live' = Live \cup {num_tasks} /\ num_tasks \notin Live
      /\ \A t \in Slots : state'[t] # "none" <=> t < num_tasks'
      /\ ~Ended(current_task)'
  BY <1>2, <1>3 DEF Inv, TypeOK, Live, Ended, Current
<1>8. FramesKept'
  <2>1. \A t \in Live : /\ stack_phys'[t] = stack_phys[t] /\ stack_phys[t] \in Pages \ {p}
                        /\ rsp'[t] = rsp[t] /\ (t # current_task => left'[t] = left[t])
    BY <1>1, <1>2, <1>3, <1>7 DEF Inv, TypeOK, FramesKept, Live
  <2>2. stack_phys'[num_tasks] = p /\ rsp'[num_tasks] = Low(p) /\ left'[num_tasks] = first
    BY <1>1, <1>3 DEF Inv, TypeOK
  <2>3. \A t \in Live : t # current_task => rsp[t] = Low(stack_phys[t])
    BY <1>2 DEF Inv, FramesKept
  <2>4. p \notin free' \cup data'
    BY <1>1, <1>2 DEF Inv, Current
  <2>5. ASSUME NEW t \in Live
        PROVE  /\ stack_phys'[t] \in Pages \ (free' \cup data')
               /\ \A u \in Live' : stack_phys'[u] = stack_phys'[t] => u = t
               /\ t # current_task' => /\ rsp'[t] = Low(stack_phys'[t])
                                      /\ cells'[rsp'[t]] = left'[t]
    <3>1. /\ stack_phys[t] \in Pages \ (free \cup data)
          /\ \A u \in Live : stack_phys[u] = stack_phys[t] => u = t
          /\ t # current_task => cells[rsp[t]] = left[t]
      BY <1>2 DEF Inv, FramesKept
    <3>2. stack_phys'[t] \in Pages \ (free' \cup data')
      BY <1>1, <1>2, <2>1, <3>1
    <3>3. \A u \in Live' : stack_phys'[u] = stack_phys'[t] => u = t
      BY <1>7, <2>1, <2>2, <3>1
    <3>4. ASSUME t # current_task'
          PROVE  rsp'[t] = Low(stack_phys'[t]) /\ cells'[rsp'[t]] = left'[t]
      BY <1>2, <1>6, <2>1, <2>3, <3>1, <3>4
    <3> QED
      BY <3>2, <3>3, <3>4
  <2>6. /\ stack_phys'[num_tasks] \in Pages \ (free' \cup data')
        /\ \A u \in Live' : stack_phys'[u] = stack_phys'[num_tasks] => u = num_tasks
        /\ rsp'[num_tasks] = Low(stack_phys'[num_tasks])
        /\ cells'[rsp'[num_tasks]] = left'[num_tasks]
    BY <1>3, <1>6, <1>7, <2>1, <2>2, <2>4
  <2> QED
    BY <1>7, <2>5, <2>6 DEF FramesKept
<1>9. left'[current_task] = c
  BY <1>1, <1>3 DEF Inv, TypeOK
<1> QED
  BY <1>1, <1>2, <1>5, <1>6, <1>7, <1>8, <1>9 DEF Inv, ResumesOwn, Current

LEMMA CloneInv == Inv /\ (sys_clone \/ sys_spawn_at) => Inv'
BY NewTaskInv DEF sys_clone, sys_spawn_at

\* The task table when task e ends and the others at most wake up.
Ends(e) ==
  /\ state' \in [Slots -> States]
  /\ state'[e] = "exited"
  /\ \A t \in Slots \ {e} :
       \/ state'[t] = state[t]
       \/ state[t] \notin {"none", "exited"} /\ state'[t] \notin {"none", "exited"}

\* The end of a task takes its own frame away and no other.
LEMMA EndStep ==
  ASSUME Inv, mode # "broken", NEW e \in Live, Ends(e), GiveBack(e),
         stack_phys' \in [Slots -> Pages \cup {0}],
         \A t \in Slots \ {e} : stack_phys'[t] = stack_phys[t],
         UNCHANGED <<rsp, num_tasks>>,
         current_task' = current_task \/ e = current_task,
         cells' \in [Cells -> Contexts],
         \A p \in Pages : cells'[Low(p)] = cells[Low(p)],
         left' \in [Slots -> Contexts],
         \A t \in Slots \ {current_task} : left'[t] = left[t]
  PROVE  /\ FramesKept'
         /\ stack_phys[e] \in Pages \cap free'
         /\ free' \subseteq Pages /\ data' \subseteq Pages /\ free' \cap data' = {}
         /\ \A t \in Slots : state'[t] # "none" <=> t < num_tasks'
<1>1. free' = free \cup {stack_phys[e]} /\ data' = data
  BY DEF GiveBack
<1>2. e \in Slots /\ state[e] # "none" /\ stack_phys[e] \in Pages \ (free \cup data)
  BY DEF Live, Inv, FramesKept, Current
<1>3. 0 \notin Pages
  BY FramesAssumption
<1>4. stack_phys[e] \in Pages \cap free'
  BY <1>1, <1>2, <1>3
<1>5. free' \subseteq Pages /\ data' \subseteq Pages /\ free' \cap data' = {}
  BY <1>1, <1>2 DEF Inv, TypeOK, Current
<1>6. \A t \in Slots : state'[t] # "none" <=> t < num_tasks'
  BY <1>2 DEF Ends, Inv, Current
<1>7. Live' = Live \ {e}
  BY <1>2 DEF Live, Ended, Ends
<1>8. ASSUME NEW t \in Live'
      PROVE  /\ stack_phys'[t] \in Pages \ (free' \cup data')
             /\ \A u \in Live' : stack_phys'[u] = stack_phys'[t] => u = t
             /\ t # current_task' => /\ rsp'[t] = Low(stack_phys'[t])
                                     /\ cells'[rsp'[t]] = left'[t]
  <2>1. t \in Live /\ t \in Slots /\ t # e /\ stack_phys'[t] = stack_phys[t]
    BY <1>7 DEF Live
  <2>2. /\ stack_phys[t] \in Pages \ (free \cup data)
        /\ \A u \in Live : stack_phys[u] = stack_phys[t] => u = t
        /\ t # current_task => rsp[t] = Low(stack_phys[t]) /\ cells[rsp[t]] = left[t]
    BY <2>1 DEF Inv, FramesKept
  <2>3. stack_phys'[t] \in Pages \ (free' \cup data')
    BY <1>1, <2>1, <2>2
  <2>4. \A u \in Live' : stack_phys'[u] = stack_phys'[t] => u = t
    BY <1>7, <2>1, <2>2 DEF Live
  <2>5. ASSUME t # current_task'
        PROVE  rsp'[t] = Low(stack_phys'[t]) /\ cells'[rsp'[t]] = left'[t]
    BY <2>1, <2>2, <2>5
  <2> QED
    BY <2>3, <2>4, <2>5
<1> QED
  BY <1>4, <1>5, <1>6, <1>8 DEF FramesKept

\* In user mode the current task is one of the living.
LEMMA CurrentLive ==
  ASSUME Inv, mode \in {"user", "return"}
  PROVE  current_task \in Slots /\ current_task \in Live
BY FramesAssumption DEF Inv, TypeOK, Slots, Live, Current

\* An exit that revives nobody ends one task and at most wakes another.
LEMMA AfterExitFacts ==
  ASSUME Inv, mode = "user", NEW w \in Waiters
  PROVE  /\ AfterExit(w) \in [Slots -> States]
         /\ AfterExit(w)[current_task] = "exited"
         /\ ~Revives(w) => \A t \in Slots \ {current_task} :
              \/ AfterExit(w)[t] = state[t]
              \/ state[t] \notin {"none", "exited"} /\ AfterExit(w)[t] \notin {"none", "exited"}
<1>1. state \in [Slots -> States] /\ current_task \in Slots
  BY FramesAssumption DEF Inv, TypeOK, Slots
<1>2. AfterExit(w) \in [Slots -> States] /\ AfterExit(w)[current_task] = "exited"
  BY <1>1 DEF AfterExit, States
<1>3. ASSUME ~Revives(w), NEW t \in Slots \ {current_task}
      PROVE  \/ AfterExit(w)[t] = state[t]
             \/ state[t] \notin {"none", "exited"} /\ AfterExit(w)[t] \notin {"none", "exited"}
  <2>1. CASE t = w
    <3>1. t < num_tasks
      BY <2>1, FramesAssumption DEF Waiters, Slots, Inv, TypeOK
    <3>2. state[t] # "none"
      BY <3>1 DEF Inv, Current
    <3>3. state[t] # "exited"
      BY <1>3, <2>1 DEF Revives, Ended
    <3> QED
      BY <2>1, <3>2, <3>3 DEF AfterExit
  <2>2. CASE t # w
    BY <2>2 DEF AfterExit
  <2> QED
    BY <2>1, <2>2
<1> QED
  BY <1>2, <1>3

\* What sys_exit does with the pages, for the call and for the page fault.
LEMMA ExitPages ==
  ASSUME Inv, ExitTables
  PROVE  /\ GiveBack(current_task)
         /\ stack_phys' \in [Slots -> Pages \cup {0}]
         /\ \A t \in Slots \ {current_task} : stack_phys'[t] = stack_phys[t]
         /\ current_task \in Slots => stack_phys'[current_task] = 0
         /\ UNCHANGED <<rsp, num_tasks, code_pages>>
BY DEF Inv, TypeOK, ExitTables

LEMMA ExitInv == Inv /\ sys_exit => Inv'
<1> SUFFICES ASSUME Inv, sys_exit PROVE Inv'
  OBVIOUS
<1>1. PICK c \in Contexts : Enter(FALSE, c)
  BY DEF sys_exit
<1>2. PICK w \in Waiters : /\ state' = AfterExit(w)
                          /\ mode' = IF Revives(w) THEN "broken" ELSE "kernel"
  BY DEF sys_exit
<1>3. UNCHANGED <<ret, rsp, num_tasks, current_task, code_pages>>
  BY ExitPages DEF sys_exit
<1>4. /\ mode = "user" /\ masked' = FALSE
      /\ cells' \in [Cells -> Contexts] /\ cells'[r] = c
      /\ \A p \in Pages : cells'[Low(p)] = cells[Low(p)]
      /\ left' \in [Slots -> Contexts] /\ left'[current_task] = c
      /\ \A t \in Slots \ {current_task} : left'[t] = left[t]
  BY <1>1, EnterFacts
<1>5. current_task \in Slots /\ current_task \in Live
  BY <1>4, CurrentLive
<1>6. /\ GiveBack(current_task)
      /\ stack_phys' \in [Slots -> Pages \cup {0}]
      /\ \A t \in Slots \ {current_task} : stack_phys'[t] = stack_phys[t]
      /\ stack_phys'[current_task] = 0
  BY <1>5, ExitPages DEF sys_exit
<1>7. state' \in [Slots -> States]
  BY <1>2, <1>4, AfterExitFacts
<1>8. free' \subseteq Pages /\ data' \subseteq Pages
  BY <1>4, <1>5, <1>6 DEF GiveBack, Inv, TypeOK, FramesKept
<1>9. TypeOK'
  BY <1>2, <1>3, <1>4, <1>6, <1>7, <1>8 DEF Inv, TypeOK
<1>10. CASE Revives(w)
  BY <1>2, <1>9, <1>10 DEF Inv, FramesKept, ResumesOwn
<1>11. CASE ~Revives(w)
  <2>1. Ends(current_task)
    BY <1>2, <1>4, <1>7, <1>11, AfterExitFacts DEF Ends
  <2>2. /\ FramesKept' /\ free' \cap data' = {}
        /\ \A t \in Slots : state'[t] # "none" <=> t < num_tasks'
    BY <1>3, <1>4, <1>5, <1>6, <2>1, EndStep
  <2> QED
    BY <1>2, <1>3, <1>4, <1>6, <1>9, <1>11, <2>2 DEF Inv, ResumesOwn, Current
<1> QED
  BY <1>10, <1>11

LEMMA KillInv == ASSUME NEW e \in Slots PROVE Inv /\ sys_kill(e) => Inv'
<1> SUFFICES ASSUME Inv, sys_kill(e) PROVE Inv'
  OBVIOUS
<1>1. PICK c \in Contexts : Enter(FALSE, c)
  BY DEF sys_kill, Syscall
<1>2. mode' = "kernel" /\ UNCHANGED <<ret, stack_phys, rsp, num_tasks, current_task,
                                           code_pages>>
  BY DEF sys_kill, Syscall
<1>3. /\ mode = "user" /\ masked' = FALSE
      /\ cells' \in [Cells -> Contexts] /\ cells'[r] = c
      /\ \A p \in Pages : cells'[Low(p)] = cells[Low(p)]
      /\ left' \in [Slots -> Contexts] /\ left'[current_task] = c
      /\ \A t \in Slots \ {current_task} : left'[t] = left[t]
  BY <1>1, EnterFacts
<1>4. e \in Live /\ GiveBack(e)
  BY DEF sys_kill, Live
<1>5. Ends(e)
  BY DEF Inv, TypeOK, sys_kill, Ends, States
<1>6. /\ stack_phys' \in [Slots -> Pages \cup {0}]
      /\ \A t \in Slots \ {e} : stack_phys'[t] = stack_phys[t]
  BY <1>2 DEF Inv, TypeOK
<1>7. /\ FramesKept'
      /\ stack_phys[e] \in Pages \cap free'
      /\ free' \subseteq Pages /\ data' \subseteq Pages /\ free' \cap data' = {}
      /\ \A t \in Slots : state'[t] # "none" <=> t < num_tasks'
  BY <1>2, <1>3, <1>4, <1>5, <1>6, EndStep
<1>8. TypeOK'
  BY <1>2, <1>3, <1>5, <1>6, <1>7 DEF Inv, TypeOK, Ends
<1>9. Ended(current_task)' => stack_phys'[current_task'] \in free' \cup {0}
  <2>1. current_task \in Slots /\ ~Ended(current_task)
    BY <1>3, CurrentLive DEF Live
  <2> QED
    BY <1>2, <1>5, <1>7, <2>1 DEF Ended, Ends
<1> QED
  BY <1>2, <1>3, <1>7, <1>8, <1>9 DEF Inv, ResumesOwn, Current

LEMMA FaultInv == Inv /\ page_fault => Inv'
<1> SUFFICES ASSUME Inv, page_fault PROVE Inv'
  OBVIOUS
<1>1. PICK c \in Contexts : Enter(TRUE, c)
  BY DEF page_fault
<1>2. /\ mode = "user" /\ masked' \in BOOLEAN
      /\ cells' \in [Cells -> Contexts]
      /\ \A p \in Pages : cells'[Low(p)] = cells[Low(p)]
      /\ left' \in [Slots -> Contexts]
      /\ \A t \in Slots \ {current_task} : left'[t] = left[t]
  BY <1>1, EnterFacts
<1>3. current_task \in Slots /\ current_task \in Live
  BY <1>2, CurrentLive
<1>4. /\ GiveBack(current_task)
      /\ stack_phys' \in [Slots -> Pages \cup {0}]
      /\ \A t \in Slots \ {current_task} : stack_phys'[t] = stack_phys[t]
      /\ UNCHANGED <<rsp, num_tasks, code_pages>>
  BY ExitPages DEF page_fault
<1>5. free' \subseteq Pages /\ data' \subseteq Pages
  BY <1>2, <1>3, <1>4 DEF GiveBack, Inv, TypeOK, FramesKept
<1>6. PICK w \in Waiters :
        \/ /\ Revives(w) \/ Others(AfterExit(w)) = {}
           /\ mode' = IF Revives(w) THEN "broken" ELSE "halt"
           /\ state' = AfterExit(w)
           /\ UNCHANGED <<current_task, ret>>
        \/ /\ ~Revives(w)
           /\ mode' = "return"
           /\ current_task' \in Others(AfterExit(w))
           /\ ret' = rsp[current_task']
           /\ state' = [AfterExit(w) EXCEPT ![current_task'] = "running"]
  BY DEF page_fault
<1> DEFINE st == AfterExit(w)
<1>7. /\ st \in [Slots -> States]
      /\ st[current_task] = "exited"
      /\ ~Revives(w) => \A t \in Slots \ {current_task} :
           \/ st[t] = state[t]
           \/ state[t] \notin {"none", "exited"} /\ st[t] \notin {"none", "exited"}
  BY <1>2, AfterExitFacts
<1>8. CASE /\ mode' = IF Revives(w) THEN "broken" ELSE "halt"
           /\ state' = st
           /\ UNCHANGED <<current_task, ret>>
  <2>1. TypeOK'
    BY <1>2, <1>4, <1>5, <1>7, <1>8 DEF Inv, TypeOK
  <2>2. CASE Revives(w)
    BY <1>8, <2>1, <2>2 DEF Inv, FramesKept, ResumesOwn
  <2>3. CASE ~Revives(w)
    <3>1. Ends(current_task)
      BY <1>7, <1>8, <2>3 DEF Ends
    <3>2. /\ FramesKept' /\ free' \cap data' = {}
          /\ \A t \in Slots : state'[t] # "none" <=> t < num_tasks'
      BY <1>2, <1>3, <1>4, <1>8, <3>1, EndStep
    <3> QED
      BY <1>8, <2>1, <2>3, <3>2 DEF Inv, ResumesOwn, Current
  <2> QED
    BY <2>2, <2>3
<1>9. CASE /\ ~Revives(w)
           /\ mode' = "return"
           /\ current_task' \in Others(st)
           /\ ret' = rsp[current_task']
           /\ state' = [st EXCEPT ![current_task'] = "running"]
  <2> DEFINE next == current_task'
  <2>2. next \in Slots /\ next # current_task /\ st[next] = "ready"
    BY <1>9 DEF Others
  <2>3. state[next] \notin {"none", "exited"}
    BY <1>7, <1>9, <2>2
  <2>4. Ends(current_task) /\ ~Ended(current_task)'
    BY <1>3, <1>7, <1>9, <2>2, <2>3 DEF Ends, Ended, States
  <2>5. /\ FramesKept' /\ free' \cap data' = {}
        /\ \A t \in Slots : state'[t] # "none" <=> t < num_tasks'
    BY <1>2, <1>3, <1>4, <2>4, EndStep
  <2>6. next \in Live
    BY <1>2, <2>2, <2>3 DEF Live, Ended, Inv, Current
  <2>7. /\ rsp[next] = Low(stack_phys[next]) /\ cells[rsp[next]] = left[next]
        /\ stack_phys[next] \in Pages
    BY <1>2, <2>2, <2>6 DEF Inv, FramesKept
  <2>8. /\ ret' = Low(stack_phys'[next]) /\ cells'[ret'] = left'[next]
        /\ stack_phys'[next] \in Pages
    BY <1>2, <1>4, <1>9, <2>2, <2>7
  <2>9. current_task' \in 0 .. num_tasks' - 1
    BY <1>4, <2>2, <2>6, FramesAssumption DEF Live, Slots, Inv, TypeOK
  <2>10. TypeOK'
    BY <1>2, <1>4, <1>5, <1>9, <2>4, <2>8, <2>9 DEF Inv, TypeOK, Ends
  <2> QED
    BY <1>9, <2>4, <2>5, <2>8, <2>10 DEF Inv, ResumesOwn, Current
<1> QED
  BY <1>6, <1>8, <1>9

LEMMA NestedInv == Inv /\ Nested => Inv'
<1> SUFFICES ASSUME Inv, Nested PROVE Inv'
  OBVIOUS
<1>1. PICK c \in Contexts : cells' = [cells EXCEPT ![ret - 1] = c]
  BY DEF Nested
<1>2. /\ mode \in {"kernel", "return"}
      /\ UNCHANGED <<free, data, stack_phys, rsp, num_tasks, current_task,
                     code_pages, mode, masked, ret, left>>
  BY DEF Nested, memory
<1>3. SameTasks
  BY WakesFacts DEF Nested
<1>4. ret \in {r} \cup {Low(p) : p \in Pages \cup {0}}
  BY DEF Inv, TypeOK
<1>5. \A p \in Pages \cup {0} : Low(p) # ret - 1
  BY <1>4, CellsApart
<1>6. ret - 1 # ret
  BY <1>4, FramesAssumption DEF r, Low, High
<1>7. /\ cells' \in [Cells -> Contexts]
      /\ \A p \in Pages : cells'[Low(p)] = cells[Low(p)]
      /\ mode = "kernel" => cells'[r] = cells[r]
      /\ mode = "return" => cells'[ret] = cells[ret]
  <2>1. (mode = "kernel" => r # ret - 1) /\ (mode = "return" => ret # ret - 1)
    BY <1>6 DEF Inv, Current
  <2>2. r \in Cells /\ ret \in Cells /\ \A p \in Pages : Low(p) \in Cells
    BY CellsApart DEF Inv, TypeOK
  <2> QED
    BY <1>1, <1>5, <2>1, <2>2 DEF Inv, TypeOK
<1>8. FramesKept' /\ free' \cap data' = {}
      /\ \A t \in Slots : state'[t] # "none" <=> t < num_tasks'
  <2>1. mode # "broken" /\ left' \in [Slots -> Contexts] /\ free' \subseteq free
        /\ data' \subseteq data /\ \A t \in Slots \ {current_task} : left'[t] = left[t]
    BY <1>2 DEF Inv, TypeOK
  <2> QED
    BY <1>2, <1>3, <1>7, <2>1, QuietStep
<1>9. TypeOK'
  BY <1>2, <1>3, <1>7 DEF Inv, TypeOK, SameTasks
<1>10. Ended(current_task)' <=> Ended(current_task)
  <2>1. current_task \in Slots
    BY FramesAssumption DEF Inv, TypeOK, Slots
  <2> QED
    BY <1>2, <1>3, <2>1 DEF Ended, SameTasks
<1> QED
  BY <1>2, <1>7, <1>8, <1>9, <1>10 DEF Inv, ResumesOwn, Current

LEMMA iretqInv == Inv /\ iretq => Inv'
<1> SUFFICES ASSUME Inv, iretq PROVE Inv'
  OBVIOUS
<1>1. /\ mode = "return" /\ mode' = "user" /\ masked' = FALSE /\ ret' = r
      /\ UNCHANGED <<cells, free, data, state, stack_phys, rsp, num_tasks,
                     current_task, code_pages, left>>
  BY DEF iretq, memory, tables
<1> QED
  BY <1>1 DEF Inv, TypeOK, FramesKept, Live, Ended, ResumesOwn, Current

\* save_frame writes into the page of the current task or, when that has ended,
\* into page 0 or a free page.
LEMMA SaveFacts ==
  ASSUME Inv, mode = "kernel", save_frame
  PROVE  /\ current_task \in Slots
         /\ cells' \in [Cells -> Contexts]
         /\ rsp' \in [Slots -> {Low(p) : p \in Pages \cup {0}}]
         /\ rsp'[current_task] = Low(stack_phys[current_task])
         /\ cells'[Low(stack_phys[current_task])] = left[current_task]
         /\ \A t \in Live \ {current_task} :
              rsp'[t] = rsp[t] /\ cells'[Low(stack_phys[t])] = cells[Low(stack_phys[t])]
<1> DEFINE p == stack_phys[current_task]
<1>1. current_task \in Slots /\ Live \subseteq Slots
  BY FramesAssumption DEF Inv, TypeOK, Slots, Live
<1>2. p \in Pages \cup {0} /\ cells[r] = left[current_task]
  BY <1>1 DEF Inv, TypeOK, Current
<1>3. Low(p) \in Cells /\ r \in Cells
  BY <1>2, CellsApart
<1>4. ASSUME NEW t \in Live \ {current_task}
      PROVE  Low(stack_phys[t]) \in Cells /\ Low(stack_phys[t]) # Low(p)
  <2>1. stack_phys[t] \in Pages \ (free \cup data)
    BY DEF Inv, FramesKept
  <2>2. stack_phys[t] # p
    <3>1. CASE Ended(current_task)
      BY <2>1, <3>1, FramesAssumption DEF Inv, Current
    <3>2. CASE ~Ended(current_task)
      <4>1. current_task \in Live
        BY <1>1, <3>2, FramesAssumption DEF Inv, TypeOK, Live
      <4> QED
        BY <4>1 DEF Inv, FramesKept
    <3> QED
      BY <3>1, <3>2
  <2> QED
    BY <1>2, <2>1, <2>2, CellsApart
<1>5. /\ cells' \in [Cells -> Contexts] /\ cells'[Low(p)] = left[current_task]
      /\ \A t \in Live \ {current_task} :
           cells'[Low(stack_phys[t])] = cells[Low(stack_phys[t])]
  BY <1>2, <1>3, <1>4 DEF save_frame, Inv, TypeOK
<1>6. /\ rsp' \in [Slots -> {Low(q) : q \in Pages \cup {0}}]
      /\ rsp'[current_task] = Low(p)
      /\ \A t \in Live \ {current_task} : rsp'[t] = rsp[t]
  BY <1>1, <1>2 DEF save_frame, Inv, TypeOK
<1> QED
  BY <1>1, <1>5, <1>6

LEMMA LeaveInv == Inv /\ Leave => Inv'
<1> SUFFICES ASSUME Inv, Leave PROVE Inv'
  OBVIOUS
<1>1. /\ mode = "kernel"
      /\ mode' = IF /\ Ended(current_task)
                    /\ current_task' = current_task \/ stack_phys[current_task] # 0
                 THEN "broken" ELSE "return"
      /\ UNCHANGED <<free, data, stack_phys, num_tasks, code_pages, masked, left>>
  BY DEF Leave, memory
<1>2. current_task \in Slots /\ Live \subseteq Slots
  BY FramesAssumption DEF Inv, TypeOK, Slots, Live
<1>3. CASE num_tasks > 1
  <2>1. /\ save_frame
        /\ current_task' \in IF Others(state) = {} THEN {current_task} ELSE Others(state)
        /\ state' = [Preempted EXCEPT ![current_task'] = "running"]
        /\ ret' = rsp'[current_task']
    BY <1>3 DEF Leave
  <2>2. /\ current_task' \in Slots
        /\ current_task' = current_task \/ state[current_task'] = "ready"
    BY <1>2, <2>1 DEF Others
  <2>3. state[current_task] # "none" /\ state \in [Slots -> States]
    BY <1>1, <1>2 DEF Inv, TypeOK, Current
  <2>4. /\ state' \in [Slots -> States]
        /\ \A t \in Slots : state'[t] # "none" <=> state[t] # "none"
        /\ ~Ended(current_task)'
        /\ \A t \in Slots : t # current_task' /\ t # current_task => state'[t] = state[t]
    BY <1>2, <2>1, <2>2, <2>3 DEF Preempted, States, Ended
  <2>5. current_task' \in 0 .. num_tasks' - 1
    BY <1>1, <2>2, FramesAssumption DEF Inv, TypeOK, Current, Slots
  <2>6. TypeOK'
    BY <1>1, <2>1, <2>2, <2>4, <2>5, SaveFacts DEF Inv, TypeOK
  <2>7. CASE mode' = "broken"
    BY <2>6, <2>7 DEF Inv, FramesKept, ResumesOwn
  <2>8. CASE mode' # "broken"
    <3>1. mode' = "return" /\ ~Ended(current_task')
      BY <1>1, <2>2, <2>8 DEF Ended
    <3>2. current_task' \in Live
      BY <1>1, <2>2, <2>3, <3>1 DEF Live, Inv, Current, Ended
    <3>3. \A t \in Live' : t \in Live
      <4>1. ASSUME NEW t \in Live', t # current_task', t = current_task, Ended(current_task)
            PROVE  FALSE
        <5>1. ~masked /\ state[current_task] = "exited"
          BY <1>1, <4>1 DEF Inv, Current, Ended
        <5>2. state'[current_task] = "exited"
          BY <1>2, <2>1, <2>3, <4>1, <5>1 DEF Preempted
        <5> QED
          BY <4>1, <5>2 DEF Live, Ended
      <4> QED
        BY <1>1, <2>4, <3>2, <4>1 DEF Live, Ended
    <3>4. ASSUME NEW t \in Live
          PROVE  /\ stack_phys[t] \in Pages \ (free \cup data)
                 /\ \A u \in Live : stack_phys[u] = stack_phys[t] => u = t
                 /\ rsp'[t] = Low(stack_phys[t])
                 /\ cells'[rsp'[t]] = left[t]
      BY <1>1, <2>1, SaveFacts DEF Inv, FramesKept
    <3>5. FramesKept'
      BY <1>1, <3>3, <3>4 DEF FramesKept
    <3>6. ret' = Low(stack_phys'[current_task']) /\ ResumesOwn'
      BY <1>1, <2>1, <3>2, <3>4 DEF ResumesOwn
    <3>7. Current'
      BY <1>1, <2>4, <3>1, <3>6 DEF Current, Inv
    <3> QED
      BY <2>6, <3>5, <3>6, <3>7 DEF Inv
  <2> QED
    BY <2>7, <2>8
<1>4. CASE ~(num_tasks > 1)
  <2>1. UNCHANGED <<cells, rsp, current_task, state, ret>>
    BY <1>4 DEF Leave
  <2>2. TypeOK'
    BY <1>1, <2>1 DEF Inv, TypeOK
  <2>3. FramesKept' /\ ResumesOwn'
    BY <1>1, <2>1 DEF Inv, FramesKept, ResumesOwn, Live, Ended, Current
  <2>4. mode' # "broken" => Current'
    BY <1>1, <2>1 DEF Inv, Current, Ended
  <2> QED
    BY <2>2, <2>3, <2>4 DEF Inv
<1> QED
  BY <1>3, <1>4

LEMMA EndProcessInv == Inv /\ EndProcess => Inv'
<1> SUFFICES ASSUME Inv, EndProcess PROVE Inv'
  OBVIOUS
<1>1. mode' = "broken" /\ TypeOK'
  BY DEF EndProcess, Inv, TypeOK, memory, tables
<1> QED
  BY <1>1 DEF Inv, FramesKept, ResumesOwn

LEMMA StepInv == Inv /\ [Next]_vars => Inv'
<1>1. ASSUME Inv, UNCHANGED vars PROVE Inv'
  BY <1>1 DEF vars, memory, tables, Inv, TypeOK, FramesKept, ResumesOwn, Current, Live, Ended
<1> QED
  BY <1>1, RunInv, TimerInv, KeyboardInv, CallInv, RecvInv, CloneInv, ExitInv, KillInv,
     EndProcessInv, LeaveInv, FaultInv, NestedInv, iretqInv DEF Next

LEMMA FramesInv == Spec => []Inv
  BY InitInv, StepInv, PTL DEF Spec

\* Every variable stays in its type, whatever the number of tasks and of pages: in
\* particular a saved stack pointer (rsp in task_t) is the place of a frame in a
\* page, and num_tasks stays within MAX_TASKS.
THEOREM FramesTypes == Spec => []TypeOK
<1>1. Inv => TypeOK
  BY DEF Inv
<1> QED
  BY <1>1, FramesInv, PTL

\* Where the kernel keeps the registers of the tasks is safe, whatever the number
\* of tasks and of pages, until a process ends, a task kills itself or an exit
\* revives a waiter that has ended: the frames of the tasks that wait
\* (task_t.rsp) stay as they are, in pages that are nobody else's.
THEOREM FramesSafe == Spec => []FramesKept
<1>1. Inv => FramesKept
  BY DEF Inv
<1> QED
  BY <1>1, FramesInv, PTL

\* A task that the kernel returns to goes on with its own registers (the switch
\* in isr_handler, the pops and iretq of isr_stubs.asm), under the same
\* condition: no return is claimed to be right after one of the three events.
THEOREM FramesResume == Spec => []ResumesOwn
<1>1. Inv => ResumesOwn
  BY DEF Inv
<1> QED
  BY <1>1, FramesInv, PTL

\* The step of SpillsOnlyBelow.
SpillStep ==
  mode # "user" =>
    \A p \in data : /\ cells'[Low(p)] = cells[Low(p)]
                    /\ \/ cells'[High(p)] = cells[High(p)]
                       \/ mode = "return" /\ ~masked /\ ret = Low(p + 1)

LEMMA StepSpills == Inv /\ [Next]_vars => [SpillStep]_vars
<1> SUFFICES ASSUME Inv, Next, mode # "user", NEW p \in data
             PROVE  /\ cells'[Low(p)] = cells[Low(p)]
                    /\ \/ cells'[High(p)] = cells[High(p)]
                       \/ mode = "return" /\ ~masked /\ ret = Low(p + 1)
  BY DEF SpillStep
<1>1. p \in Pages /\ p \in Nat /\ p # KernelPage
  BY FramesAssumption DEF Inv, TypeOK
<1>2. Leave \/ Nested \/ iretq
  BY DEF Next, Run, Timer, Keyboard, Call, sys_recv, Block, map_pages, Syscall, Enter,
         sys_clone, sys_spawn_at, NewTask, sys_exit, sys_kill, EndProcess, page_fault
<1>3. CASE iretq
  BY <1>3 DEF iretq
<1>4. CASE Leave
  <2>1. CASE UNCHANGED cells
    BY <2>1
  <2>2. CASE save_frame
    <3>1. mode = "kernel" /\ current_task \in Slots
      BY <1>4, FramesAssumption DEF Leave, Inv, TypeOK, Slots
    <3>2. stack_phys[current_task] \in (Pages \cup {0}) \ data
      <4>1. CASE Ended(current_task)
        BY <3>1, <4>1, FramesAssumption DEF Inv, TypeOK, Current
      <4>2. CASE ~Ended(current_task)
        <5>1. current_task \in Live
          BY <3>1, <4>2, FramesAssumption DEF Inv, TypeOK, Live
        <5> QED
          BY <3>1, <5>1 DEF Inv, FramesKept
      <4> QED
        BY <4>1, <4>2
    <3>3. /\ Low(stack_phys[current_task]) # Low(p)
          /\ Low(stack_phys[current_task]) # High(p)
      BY <1>1, <3>2, CellsApart
    <3>4. \A a : a # Low(stack_phys[current_task]) /\ a \in Cells => cells'[a] = cells[a]
      BY <2>2 DEF save_frame, Inv, TypeOK
    <3>5. Low(p) \in Cells /\ High(p) \in Cells
      BY <1>1 DEF Cells
    <3> QED
      BY <3>3, <3>4, <3>5
  <2> QED
    BY <1>4, <2>1, <2>2 DEF Leave
<1>5. CASE Nested
  <2>1. PICK c \in Contexts : cells' = [cells EXCEPT ![ret - 1] = c]
    BY <1>5 DEF Nested
  <2>2. mode \in {"kernel", "return"} /\ ~masked
    BY <1>5 DEF Nested
  <2>3. ret \in {r} \cup {Low(q) : q \in Pages \cup {0}}
    BY DEF Inv, TypeOK
  <2>4. Low(p) # ret - 1
    BY <1>1, <2>3, CellsApart
  <2>5. Low(p) \in Cells /\ High(p) \in Cells
    BY <1>1 DEF Cells
  <2>6. cells'[Low(p)] = cells[Low(p)]
    BY <2>1, <2>4, <2>5 DEF Inv, TypeOK
  <2>7. CASE High(p) # ret - 1
    BY <2>1, <2>5, <2>6, <2>7 DEF Inv, TypeOK
  <2>8. CASE High(p) = ret - 1
    <3>1. ret # r
      <4>1. r - 1 # High(p)
        BY <1>1, FramesAssumption DEF r, High
      <4> QED
        BY <2>8, <4>1
    <3>2. ret = Low(p + 1)
      BY <1>1, <2>3, <2>8, <3>1, FramesAssumption DEF Low, High
    <3> QED
      BY <2>2, <2>6, <3>1, <3>2 DEF Inv, Current
  <2> QED
    BY <2>7, <2>8
<1> QED
  BY <1>2, <1>3, <1>4, <1>5

\* Saving and restoring registers (save_frame, isr_stubs.asm) writes to the page
\* of a program in one case only: an interrupt during the pops at the end of a
\* call pushes its frame into the page below.  What a call itself copies to its
\* program (sys_recv, the loader) is not meant.
THEOREM FramesSpill == Spec => SpillsOnlyBelow
<1>1. Spec => []Inv
  BY FramesInv
<1>2. Spec => [][SpillStep]_vars
  BY <1>1, StepSpills, PTL DEF Spec
<1> QED
  BY <1>2 DEF SpillsOnlyBelow, SpillStep
=============================================================================

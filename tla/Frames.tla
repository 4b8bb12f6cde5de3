------------------------------- MODULE Frames -------------------------------
(***************************************************************************)
(* Where the registers of the tasks are while they do not run: the frame   *)
(* that isr_common pushes on the one kernel stack (kernel/isr_stubs.asm),  *)
(* save_frame, which copies it to a page of the task (kernel/idt.c), and   *)
(* what the calls that create and end tasks do with these pages            *)
(* (kernel/task.c).  Which of the ready tasks is next is left open, see    *)
(* module Kernel.                                                          *)
(*                                                                         *)
(* Memory is a sequence of cells, two to a page: a frame is in the lower   *)
(* one, and the upper one is what a push below the next page hits (that    *)
(* the frames of an interrupt and of its handler are less than half a page *)
(* is taken for granted).                                                  *)
(*                                                                         *)
(* Three things break the list of free pages or make a task run without a  *)
(* page of its own, and nothing is claimed of frames afterwards (mode      *)
(* "broken"): the end of a process, which gives back a page of its tables  *)
(* several times (see Memory); a task that kills itself, whose registers   *)
(* are saved over the link in its freed page; and the exit of a task for   *)
(* which one waits that has ended meanwhile, as it makes that one ready.   *)
(* Other ends of threads, which have no pages but their frames', are fine. *)
(***************************************************************************)
EXTENDS Integers, FiniteSets

CONSTANTS
  MAX_TASKS,
  Pages,       \* pages that the allocator hands out
  KernelPage,  \* the page whose end is rsp0 of the TSS
  Contexts     \* contents of the registers

ASSUME FramesAssumption ==
  /\ MAX_TASKS \in Nat \ {0}
  /\ Pages \subseteq Nat \ {0}
  /\ KernelPage \in Nat \ ({0} \cup Pages)

Slots == 0 .. MAX_TASKS - 1
States == {"none", "ready", "running", "blocked", "exited"}
Low(p) == 2 * p
High(p) == 2 * p + 1
r == High(KernelPage)   \* the frame of an interrupt from user mode
Cells == UNION {{Low(p), High(p)} : p \in Pages \cup {0, KernelPage}}

VARIABLES cells, free, state, stack_phys, rsp, num_tasks, current_task,
          code_pages,  \* 0 for threads made by clone, 1 for processes
          data,    \* pages in use for anything else: programs, their tables
          mode,    \* "user", "kernel", "return" (the pops of isr_common),
                   \* "halt", "broken" (see above and Leave)
          masked,  \* interrupts are off: not so behind the trap gate of 0x80
          ret,     \* where the frame is: at r, or where isr_handler returns it
          left     \* auxiliary: the registers with which a task is to go on

tables == <<state, stack_phys, rsp, num_tasks, current_task, code_pages>>
memory == <<free, data>>
vars == <<cells, memory, tables, mode, masked, ret, left>>

\* scheduler_start: task 0, which kmain has created, is about to run.
Init ==
  /\ \E p \in Pages, c \in Contexts :
       /\ cells \in [Cells -> {c}]
       /\ free = Pages \ {p}
       /\ stack_phys = [t \in Slots |-> IF t = 0 THEN p ELSE 0]
       /\ rsp = [t \in Slots |-> IF t = 0 THEN Low(p) ELSE 0]
       /\ ret = Low(p)
       /\ left = [t \in Slots |-> c]
  /\ state = [t \in Slots |-> IF t = 0 THEN "running" ELSE "none"]
  /\ num_tasks = 1 /\ current_task = 0
  /\ code_pages = [t \in Slots |-> IF t = 0 THEN 1 ELSE 0]
  /\ data = {} /\ mode = "return" /\ masked = TRUE

Ended(t) == state[t] = "exited"

\* A program writes its memory (that it writes only pages of its own is what
\* Memory is about).
Run ==
  /\ mode = "user"
  /\ \E a \in UNION {{Low(p), High(p)} : p \in data}, c \in Contexts :
       cells' = [cells EXCEPT ![a] = c]
  /\ UNCHANGED <<memory, tables, mode, masked, ret, left>>

\* Into the kernel: the processor and isr_common push the registers at r.  They
\* hold what the program has made of them; c is the frame once rax has the result
\* of the call.
Enter(off, c) ==
  /\ mode = "user"
  /\ cells' = [cells EXCEPT ![r] = c]
  /\ left' = [left EXCEPT ![current_task] = c]
  /\ masked' = off

Wakes(woken) ==
  /\ woken \subseteq {t \in Slots : state[t] = "blocked"}
  /\ state' = [t \in Slots |-> IF t \in woken THEN "ready" ELSE state[t]]

Timer ==
  /\ \E c \in Contexts : Enter(TRUE, c)
  /\ mode' = "kernel"
  /\ UNCHANGED <<memory, tables, ret>>

\* Mutant: it returns to the saved frame, as the switch does.
Keyboard_to_saved ==
  /\ \E c \in Contexts : Enter(TRUE, c)
  /\ mode' = "return" /\ ret' = rsp[current_task]
  /\ UNCHANGED <<memory, tables>>

\* The keyboard interrupt makes the task that handles it ready and returns.
Keyboard ==
  /\ \E c \in Contexts : Enter(TRUE, c)
  /\ mode' = "return"
  /\ \E t \in Slots : Wakes({t}) \/ Wakes({})
  /\ UNCHANGED <<memory, stack_phys, rsp, num_tasks, current_task, code_pages, ret>>

\* A system call.
Syscall ==
  /\ \E c \in Contexts : Enter(FALSE, c)
  /\ mode' = "kernel"
  /\ UNCHANGED ret

\* The calls that leave the tasks alone or wake some of them up.
Call ==
  /\ Syscall
  /\ \E woken \in SUBSET Slots : Wakes(woken)
  /\ UNCHANGED <<memory, stack_phys, rsp, num_tasks, current_task, code_pages>>

\* sys_recv copies a message to the memory of the program.
sys_recv ==
  /\ mode = "user"
  /\ \E a \in UNION {{Low(p), High(p)} : p \in data}, c, m \in Contexts :
       /\ cells' = [cells EXCEPT ![a] = m, ![r] = c]
       /\ left' = [left EXCEPT ![current_task] = c]
  /\ mode' = "kernel" /\ masked' = FALSE
  /\ UNCHANGED <<memory, tables, ret>>

\* sys_wait, sys_wait_any and FUTEX_WAIT.
Block ==
  /\ Syscall
  /\ state' = [state EXCEPT ![current_task] = "blocked"]
  /\ UNCHANGED <<memory, stack_phys, rsp, num_tasks, current_task, code_pages>>

\* Pages that sys_mmap and sys_brk map, or that a spawn_at in vain does not give
\* back.  What is in them at first is left out, here and in NewTask: the program
\* may write anything to them before they matter.
map_pages ==
  /\ Syscall
  /\ \E pages \in SUBSET free : free' = free \ pages /\ data' = data \cup pages
  /\ UNCHANGED tables

\* A task and its first frame.  The other pages are those of its program.
NewTask(code, others) ==
  /\ mode = "user"
  /\ \E c, first \in Contexts, p \in free \ others :
       /\ cells' = [cells EXCEPT ![Low(p)] = first, ![r] = c]
       /\ left' = [left EXCEPT ![num_tasks] = first, ![current_task] = c]
       /\ free' = free \ ({p} \cup others)
       /\ stack_phys' = [stack_phys EXCEPT ![num_tasks] = p]
       /\ rsp' = [rsp EXCEPT ![num_tasks] = Low(p)]
  /\ data' = data \cup others
  /\ state' = [state EXCEPT ![num_tasks] = "ready"]
  /\ code_pages' = [code_pages EXCEPT ![num_tasks] = code]
  /\ num_tasks' = num_tasks + 1
  /\ mode' = "kernel" /\ masked' = FALSE
  /\ UNCHANGED <<current_task, ret>>

\* Mutant: one task too many.
sys_clone_one_more == num_tasks <= MAX_TASKS /\ NewTask(0, {})

sys_clone == num_tasks < MAX_TASKS /\ NewTask(0, {})

sys_spawn_at == num_tasks < MAX_TASKS /\ \E others \in SUBSET free : NewTask(1, others)

\* Mutant: the frame page of the caller instead of the task's.
GiveBack_of_caller(t) == free' = free \cup {stack_phys[current_task]} /\ UNCHANGED data

\* A thread that ends gives its frame's page back.
GiveBack(t) == free' = free \cup {stack_phys[t]} /\ UNCHANGED data

\* The state column after an exit, with w for the wait_idx of the task: who waits
\* for it is made ready, whatever it was before.
AfterExit(w) ==
  [t \in Slots |-> IF t = current_task THEN "exited" ELSE IF t = w THEN "ready" ELSE state[t]]

\* Who waits for a task is left open: nobody, or any task there is.
Waiters == {-1} \cup 0 .. num_tasks - 1

\* The exit makes a task ready that has ended.  Its page is free or another's.
Revives(w) == w \in Slots \ {current_task} /\ Ended(w)

\* What sys_exit does with the tables.
ExitTables ==
  /\ GiveBack(current_task)
  /\ stack_phys' = [stack_phys EXCEPT ![current_task] = 0]
  /\ UNCHANGED <<rsp, num_tasks, code_pages>>

sys_exit ==
  /\ code_pages[current_task] = 0
  /\ \E c \in Contexts : Enter(FALSE, c)
  /\ ExitTables
  /\ \E w \in Waiters : /\ state' = AfterExit(w)
                        /\ mode' = IF Revives(w) THEN "broken" ELSE "kernel"
  /\ UNCHANGED <<current_task, ret>>

\* sys_kill: the task keeps its stack_phys.
sys_kill(t) ==
  /\ t < num_tasks /\ ~Ended(t) /\ code_pages[t] = 0
  /\ Syscall
  /\ GiveBack(t)
  /\ state' = [state EXCEPT ![t] = "exited"]
  /\ UNCHANGED <<stack_phys, rsp, num_tasks, current_task, code_pages>>

\* exit, kill or a page fault ends a process.
EndProcess ==
  /\ mode = "user"
  /\ \E t \in Slots : t < num_tasks /\ ~Ended(t) /\ code_pages[t] # 0
  /\ mode' = "broken"
  /\ UNCHANGED <<cells, memory, tables, masked, ret, left>>

\* Mutant: the copy starts below the frame.
save_frame_from_below ==
  /\ LET dst == Low(stack_phys[current_task])
     IN  cells' = [cells EXCEPT ![dst] = cells[r], ![dst - 1] = cells[r - 1]]
  /\ rsp' = [rsp EXCEPT ![current_task] = Low(stack_phys[current_task])]

\* The frame goes to the page of the task, to page 0 after an exit.
save_frame ==
  /\ cells' = [cells EXCEPT ![Low(stack_phys[current_task])] = cells[r]]
  /\ rsp' = [rsp EXCEPT ![current_task] = Low(stack_phys[current_task])]

\* A call that has blocked or ended its caller does not make it ready; the
\* timer does (schedule).
Preempted ==
  IF ~masked /\ state[current_task] \in {"blocked", "exited"}
  THEN state ELSE [state EXCEPT ![current_task] = "ready"]

Others(st) == {t \in Slots : st[t] = "ready" /\ t # current_task}

\* The end of isr_handler for the timer and for 0x80: some other ready task is
\* next, and the same one if there is none.  A task that has ended then goes on
\* (see Kernel), and that is the end of what is claimed, as is the frame of a
\* task that has killed itself, saved in a free page.
Leave ==
  /\ mode = "kernel"
  /\ IF num_tasks > 1
     THEN /\ save_frame
          /\ current_task' \in IF Others(state) = {} THEN {current_task} ELSE Others(state)
          /\ state' = [Preempted EXCEPT ![current_task'] = "running"]
          /\ ret' = rsp'[current_task']
     ELSE UNCHANGED <<cells, rsp, current_task, state, ret>>
  /\ mode' = IF /\ Ended(current_task)
                /\ current_task' = current_task \/ stack_phys[current_task] # 0
             THEN "broken" ELSE "return"
  /\ UNCHANGED <<memory, stack_phys, num_tasks, code_pages, masked, left>>

\* A page fault in user mode ends the task; its frame is not saved.
page_fault ==
  /\ code_pages[current_task] = 0
  /\ \E c \in Contexts : Enter(TRUE, c)
  /\ ExitTables
  /\ \E w \in Waiters :
       \/ /\ Revives(w) \/ Others(AfterExit(w)) = {}
          /\ mode' = IF Revives(w) THEN "broken" ELSE "halt"
          /\ state' = AfterExit(w)
          /\ UNCHANGED <<current_task, ret>>
       \/ /\ ~Revives(w)
          /\ mode' = "return"
          /\ current_task' \in Others(AfterExit(w))
          /\ ret' = rsp[current_task']
          /\ state' = [AfterExit(w) EXCEPT ![current_task'] = "running"]

\* An interrupt in the kernel, which the trap gate of 0x80 leaves possible: its
\* frame goes below what is on the stack, and from isr_common:78 on the stack
\* is the frame that is being popped.  The handler finds ring 0 in it and
\* returns to it.
Nested ==
  /\ mode \in {"kernel", "return"} /\ ~masked
  /\ \E c \in Contexts : cells' = [cells EXCEPT ![ret - 1] = c]
  /\ \E t \in Slots : Wakes({t}) \/ Wakes({})
  /\ UNCHANGED <<memory, stack_phys, rsp, num_tasks, current_task, code_pages,
                 mode, masked, ret, left>>

\* The rest of isr_common: the registers become cells[ret], and the next
\* interrupt pushes them at r.
iretq ==
  /\ mode = "return"
  /\ mode' = "user" /\ masked' = FALSE /\ ret' = r
  /\ UNCHANGED <<cells, memory, tables, left>>

Next ==
  \/ Run \/ Timer \/ Keyboard \/ Call \/ sys_recv \/ Block \/ map_pages
  \/ sys_clone \/ sys_spawn_at \/ sys_exit \/ (\E t \in Slots : sys_kill(t)) \/ EndProcess
  \/ Leave \/ page_fault \/ Nested \/ iretq

Spec == Init /\ [][Next]_vars

-----------------------------------------------------------------------------
(* Properties                                                              *)

TypeOK ==
  /\ cells \in [Cells -> Contexts]
  /\ free \subseteq Pages /\ data \subseteq Pages
  /\ state \in [Slots -> States]
  /\ stack_phys \in [Slots -> Pages \cup {0}]
  /\ rsp \in [Slots -> {Low(p) : p \in Pages \cup {0}}]
  /\ code_pages \in [Slots -> {0, 1}]
  /\ num_tasks \in 1 .. MAX_TASKS /\ current_task \in 0 .. num_tasks - 1
  /\ mode \in {"user", "kernel", "return", "halt", "broken"} /\ masked \in BOOLEAN
  /\ ret \in {r} \cup {Low(p) : p \in Pages \cup {0}}
  /\ left \in [Slots -> Contexts]

Live == {t \in Slots : t < num_tasks /\ ~Ended(t)}

\* While a task waits for its turn its frame stays where save_frame or its
\* creation put it, whatever threads and programs the others create, end, map and
\* write: its page is neither free nor a program's nor another task's.  This is so
\* until one of the three events in the header of the module.
FramesKept ==
  mode # "broken" =>
  \A t \in Live :
    /\ stack_phys[t] \in Pages \ (free \cup data)
    /\ \A u \in Live : stack_phys[u] = stack_phys[t] => u = t
    /\ t # current_task => /\ rsp[t] = Low(stack_phys[t])
                           /\ cells[rsp[t]] = left[t]

\* A task goes on in user mode with the registers with which it left it, but
\* for the result of its call; also when interrupts hit the pops of isr_common,
\* and until one of the three events in the header of the module.
ResumesOwn ==
  mode = "return" => cells[ret] = left[current_task]

\* Once a call has done what it does for its program (recv and the loader copy to
\* program pages), the way back writes to a page of a program in one case only:
\* an interrupt that hits the pops at the end of a call pushes its frame into the
\* page below.  Neither save_frame nor an interrupt in the kernel does.
SpillsOnlyBelow ==
  [][mode # "user" =>
       \A p \in data : /\ cells'[Low(p)] = cells[Low(p)]
                       /\ \/ cells'[High(p)] = cells[High(p)]
                          \/ mode = "return" /\ ~masked /\ ret = Low(p + 1)]_vars
=============================================================================

------------------------------- MODULE Memory -------------------------------
(***************************************************************************)
(* The memory of the tasks: the ELF loader, clone, mmap, munmap, mprotect, *)
(* brk, mmap_phys, and what exit and kill give back (kernel/task.c).  A    *)
(* system call is one step: it is not preempted, and interrupt handlers    *)
(* take no memory.  Who runs when is left to module Kernel: here any live  *)
(* task may make the next call.                                            *)
(***************************************************************************)
EXTENDS Paging, FiniteSets

CONSTANTS
  MAX_TASKS,
  LOAD,          \* 0x400000, where programs are linked
  HEAP_START,    \* 0x600000
  STACK_PAGES,   \* 4
  STACK_GAP,     \* 0x20000: the loader puts the stack so far behind the program
  STACK_OFFSET,  \* 0x100000: exit and kill take it to end so far behind LOAD
  Images,        \* programs: bin_pages, and segs with start, end and writable
  UserPages,     \* where programs map memory
  Breaks,        \* the breaks that programs ask for
  Devices,       \* pages of devices, outside Frames
  MaxPages,      \* bound: pages of one call
  MaxCalls,      \* bound: calls that change an address space
  Ends           \* the ways tasks end: "thread" and "process" for what may exit
                 \* or be killed, "self" for a kill of oneself, "waiter" for an
                 \* exit for which one waits that has ended meanwhile

ASSUME DevicesAssumption == Devices \cap Frames = {}

Slots == 0 .. MAX_TASKS - 1
NoTask == [state |-> "none", stack_phys |-> 0, pml4 |-> 0, code_pages |-> 0]

VARIABLES mem, free_stack, tasks, num_tasks, heap_brk,
          view,   \* auxiliary: what the calls made of each address space
          calls,  \* how many calls have changed an address space
          waste   \* auxiliary: a call has left pages behind (see Use)

vars == <<mem, free_stack, tasks, num_tasks, heap_brk, view, calls, waste>>

\* A call starts, with the tables of the caller.
Now(root) == [mem |-> mem, free |-> free_stack, page |-> 0, ok |-> TRUE, root |-> root,
              buf |-> <<>>, kstack |-> 0, pml4 |-> 0]

Live(t) == tasks[t].state = "live"
MayEnd(t) == (IF tasks[t].code_pages = 0 THEN "thread" ELSE "process") \in Ends

\* The sequence lo, lo + 1, ..., hi - 1.
Interval(lo, hi) == [k \in 1 .. (IF hi > lo THEN hi - lo ELSE 0) |-> lo + k - 1]

-----------------------------------------------------------------------------
(* Loops of task.c.                                                        *)

\* What a loop does with the page it asked for: Then(m) with it, and without it
\* nothing more.
IfAny(m, Then(_)) == IF m.page = 0 THEN [m EXCEPT !.ok = FALSE] ELSE Then(m)

\* Allocate a page for virt and map it.
AllocMap(m, virt, flags) ==
  IF ~m.ok THEN m
  ELSE IfAny(pmm_alloc_page(m), LAMBDA a : map_page(a, virt, a.page, flags))

MapAll(m, virts, flags) == FoldLeft(LAMBDA s, v : AllocMap(s, v, flags), m, virts)

AllocBuffer(m, n) ==
  FoldLeft(LAMBDA s, k : IF ~s.ok THEN s
                         ELSE IfAny(pmm_alloc_page(s), LAMBDA a : [a EXCEPT !.buf = Append(@, a.page)]),
           m, Interval(0, n))

FreeAll(m, pages) == FoldLeft(pmm_free_page, m, pages)

\* task.c:217-219: the image is copied to consecutive addresses, from the first
\* page of the buffer on.  What is written to the buffer itself is not kept,
\* as nobody reads it after the call.
CopyImage(m, n) ==
  LET hit == {At(m, p) : p \in (m.buf[1] .. m.buf[1] + n - 1) \ Range(m.buf)}
  IN  [m EXCEPT !.mem = [f \in Frames |-> IF f \in hit THEN [k \in Indices |-> Data] ELSE @[f]]]

MapSegments(m, segs) ==
  FoldLeft(LAMBDA s, g : MapAll(s, Interval(g.start, g.end), IF g.writable THEN RW ELSE RO),
           m, segs)

MaxVaddr(img) == CHOOSE e \in {img.segs[k].end : k \in DOMAIN img.segs} :
                   \A k \in DOMAIN img.segs : img.segs[k].end <= e

\* The stack pages, the highest first.
StackPages(top) == [k \in 1 .. STACK_PAGES |-> top - k]

\* The call has ended: the registers of task t are saved on its stack page
\* (save_frame, idt.c:38), whatever that page is by now.
Finish(t, m, tk, n) ==
  /\ free_stack' = m.free
  /\ tasks' = tk
  /\ num_tasks' = n
  /\ mem' = IF n > 1 THEN Put(m, tk[t].stack_phys, 0, Data).mem ELSE m.mem

\* What a call that gives out page v promises of it, with memory left.
Granted(m, root, v, flags) ==
  IF m.ok /\ m.free # 0 /\ v < NPT * NPD
  THEN [addr |-> Translate(m.mem, root, v).addr, user |-> TRUE, write |-> "W" \in flags]
  ELSE Translate(m.mem, root, v)

\* Bookkeeping of a call for the given pages: f says what they are now.  Pages
\* are left behind when memory runs out in a call and when a page is replaced.
Use(root, m, pages, f) ==
  /\ calls < MaxCalls
  /\ calls' = calls + 1
  /\ view' = [view EXCEPT ![root] = [v \in pages \cup DOMAIN @ |-> IF v \in pages THEN f[v] ELSE @[v]]]
  /\ waste' = (waste \/ m.free = 0 \/ \E v \in pages \cap DOMAIN view[root] :
                 view[root][v].addr \in Frames /\ view[root][v].addr # f[v].addr)

-----------------------------------------------------------------------------
(* Processes.                                                              *)

Fail(m) == [m EXCEPT !.ok = FALSE]

\* Mutant: the buffer of the image is kept.
Loaded_keeps_buffer(m) == m

\* task.c:298: the image is in place and its buffer is given back.  Without
\* memory for all segments and the stack, everything taken so far stays taken.
Loaded(m) == IF m.ok THEN FreeAll(m, m.buf) ELSE m

\* task.c:265-296.
Load(m, img) ==
  Loaded(paging_switch(MapAll(MapSegments(paging_switch(m, m.pml4), img.segs),
                              StackPages(MaxVaddr(img) + STACK_GAP), RW), m.root))

\* task.c:258-263, after paging_clone_kernel.
WithTables(m, img) ==
  IF m.page = 0 THEN Fail(FreeAll(pmm_free_page(m, m.kstack), m.buf))
  ELSE Load([m EXCEPT !.pml4 = m.page], img)

\* task.c:240-244, after the page for the stack was asked for.
WithStack(m, img) ==
  IF m.page = 0 THEN Fail(FreeAll(m, m.buf))
  ELSE WithTables(paging_clone_kernel([m EXCEPT !.kstack = m.page]), img)

\* task.c:209-239.
WithBuffer(m, img) ==
  IF ~m.ok THEN FreeAll(m, m.buf)
  ELSE IF num_tasks >= MAX_TASKS THEN Fail(FreeAll(CopyImage(m, img.bin_pages), m.buf))
  ELSE WithStack(pmm_alloc_page(CopyImage(m, img.bin_pages)), img)

\* Memory after the loader has run, with m.ok for success and the pages that
\* go into the task table.
create_elf(root, img) == WithBuffer(AllocBuffer(Now(root), img.bin_pages), img)

\* A new task in the next slot, with its first frame on its stack page.
NewTask(t, m, pages) ==
  Finish(t, Put(m, m.kstack, 0, Data),
         [tasks EXCEPT ![num_tasks] =
            [state |-> "live", stack_phys |-> m.kstack, pml4 |-> m.pml4, code_pages |-> pages]],
         num_tasks + 1)

\* The address space of a program that was loaded, for the properties.  The stack
\* ends STACK_GAP behind the program (task.c:287); README.md:806 has it at
\* load_address + 0x100000, where exit and kill look for it (STACK_OFFSET).
Shown(m, img) ==
  LET top == MaxVaddr(img) + STACK_GAP
      code(v) == {k \in DOMAIN img.segs : v \in img.segs[k].start .. img.segs[k].end - 1}
      pages == {v \in LOAD .. top : code(v) # {} \/ v \in top - STACK_PAGES .. top - 1}
      flags(v) == IF code(v) = {} \/ \E k \in code(v) : img.segs[k].writable THEN RW ELSE RO
  IN  view @@ (m.pml4 :> [v \in pages |-> Granted(m, m.pml4, v, flags(v))])

\* task.c:300-327: the program is loaded, at the request of task t.
Created(t, m, img) ==
  /\ m.ok
  /\ NewTask(t, m, MaxVaddr(img) - LOAD)
  /\ view' = Shown(m, img)
  /\ UNCHANGED <<heap_brk, calls, waste>>

\* Pages stay behind when memory runs out after the stack page was taken.
NotCreated(t, m) ==
  /\ ~m.ok
  /\ Finish(t, m, tasks, num_tasks)
  /\ waste' = (waste \/ m.kstack # 0)
  /\ UNCHANGED <<heap_brk, view, calls>>

\* kmain loads init; without memory for it the machine halts.
kmain(img) ==
  /\ num_tasks = 0
  /\ Created(0, create_elf(0, img), img)

Spawned(t, m, img) == Created(t, m, img) \/ NotCreated(t, m)

sys_spawn_at(t, img) ==
  /\ Live(t)
  /\ Spawned(t, create_elf(tasks[t].pml4, img), img)

\* Mutant: the thread gets no page tables.
Cloned_no_pml4(t, m) ==
  IF num_tasks < MAX_TASKS /\ m.page # 0
  THEN NewTask(t, [m EXCEPT !.kstack = m.page], 0)
  ELSE Finish(t, Now(tasks[t].pml4), tasks, num_tasks)

\* Mutant: the thread gets the stack page of its parent.
Cloned_same_stack(t, m) ==
  IF num_tasks < MAX_TASKS /\ m.page # 0
  THEN NewTask(t, [m EXCEPT !.kstack = tasks[t].stack_phys, !.pml4 = tasks[t].pml4], 0)
  ELSE Finish(t, Now(tasks[t].pml4), tasks, num_tasks)

\* task.c:548-591, with the page for the stack.
Cloned(t, m) ==
  IF num_tasks < MAX_TASKS /\ m.page # 0
  THEN NewTask(t, [m EXCEPT !.kstack = m.page, !.pml4 = tasks[t].pml4], 0)
  ELSE Finish(t, Now(tasks[t].pml4), tasks, num_tasks)

sys_clone(t) ==
  /\ Live(t)
  /\ Cloned(t, pmm_alloc_page(Now(tasks[t].pml4)))
  /\ UNCHANGED <<heap_brk, view, calls, waste>>

\* The entry that read_pte returns is the one of the page directory.
read_pte(m, pml4, virt) ==
  LET pdt == Directory(m, pml4, virt)
  IN  IF pdt = 0 THEN 0 ELSE Below(m, pdt, pdt_i(virt))

free_user_range(m, pml4, start, end) ==
  LET FreeUnmap(s, v) == LET phys == read_pte(s, pml4, v)
                         IN  unmap_page(IF phys # 0 THEN pmm_free_page(s, phys) ELSE s, v)
  IN  paging_switch(FoldLeft(FreeUnmap, paging_switch(m, pml4), Interval(start, end)), m.root)

\* What exit and kill do with the user memory of task i.
FreeUser(m, i) ==
  IF tasks[i].pml4 = 0 \/ tasks[i].code_pages = 0 THEN m
  ELSE free_user_range(
         free_user_range(m, tasks[i].pml4, LOAD, LOAD + tasks[i].code_pages),
         tasks[i].pml4, LOAD + STACK_OFFSET - STACK_PAGES, LOAD + STACK_OFFSET)

FreeStack(m, i) ==
  IF tasks[i].stack_phys # 0 THEN pmm_free_page(m, tasks[i].stack_phys) ELSE m

\* The task table after the exit of task t, with w for its wait_idx: who waits for
\* it is made READY, whatever it was before.
AfterExit(t, w) ==
  [i \in Slots |-> IF i = t THEN [tasks[i] EXCEPT !.state = "dead", !.stack_phys = 0]
                   ELSE IF i = w THEN [tasks[i] EXCEPT !.state = "live"] ELSE tasks[i]]

\* Who waits for a task is left open: nobody, or any task that Ends allows.
Waiters == {-1} \cup {w \in 0 .. num_tasks - 1 : Live(w) \/ "waiter" \in Ends}

\* Mutant: the stack page is freed twice.
sys_exit_twice(t) ==
  /\ Live(t) /\ MayEnd(t)
  /\ \E w \in Waiters : Finish(t, FreeUser(FreeStack(FreeStack(Now(tasks[t].pml4), t), t), t),
                              AfterExit(t, w), num_tasks)
  /\ UNCHANGED <<heap_brk, view, calls, waste>>

\* Also at a page fault in ring 3.
sys_exit(t) ==
  /\ Live(t) /\ MayEnd(t)
  /\ \E w \in Waiters : Finish(t, FreeUser(FreeStack(Now(tasks[t].pml4), t), t),
                              AfterExit(t, w), num_tasks)
  /\ UNCHANGED <<heap_brk, view, calls, waste>>

\* The stack page of the victim stays in its entry.
sys_kill(t, i) ==
  /\ Live(t) /\ Live(i) /\ MayEnd(i)
  /\ t = i => "self" \in Ends
  /\ Finish(t, FreeUser(FreeStack(Now(tasks[t].pml4), i), i),
            [tasks EXCEPT ![i].state = "dead"], num_tasks)
  /\ UNCHANGED <<heap_brk, view, calls, waste>>

-----------------------------------------------------------------------------
(* Memory calls.  A range of bytes is the pages it touches, a sequence.    *)

\* The end of a call for the given pages of the caller; f says what they are.
Mapped(t, m, virts, f(_, _, _)) ==
  /\ Live(t)
  /\ Finish(t, m, tasks, num_tasks)
  /\ Use(tasks[t].pml4, m, Range(virts), [v \in Range(virts) |-> f(m, tasks[t].pml4, v)])

\* map_pages_at.
sys_mmap(t, virts, flags) ==
  /\ Mapped(t, MapAll(Now(tasks[t].pml4), virts, flags), virts,
            LAMBDA m, root, v : Granted(m, root, v, flags))
  /\ UNCHANGED heap_brk

\* Programs unmap and protect pages of their own.
Mine(t, virts) == \A v \in Range(virts) : Translate(mem, tasks[t].pml4, v).user

\* The pages behind the range are not freed.
sys_munmap(t, virts) ==
  /\ Live(t) /\ Mine(t, virts)
  /\ Mapped(t, FoldLeft(LAMBDA s, v : unmap_page(s, v), Now(tasks[t].pml4), virts), virts,
            LAMBDA m, root, v : Unmapped)
  /\ UNCHANGED heap_brk

sys_mprotect(t, virts, flags) ==
  /\ Live(t) /\ Mine(t, virts)
  /\ Mapped(t, FoldLeft(LAMBDA s, v : map_page_flags(s, v, flags), Now(tasks[t].pml4), virts), virts,
            LAMBDA m, root, v : [view[root][v] EXCEPT !.write = "W" \in flags])
  /\ UNCHANGED heap_brk

\* One heap_brk serves all processes; programs pass multiples of the page size.
\* A break of 0 asks for heap_brk and changes nothing.
sys_brk(t, addr) ==
  /\ Mapped(t, MapAll(Now(tasks[t].pml4), Interval(heap_brk, addr), RW), Interval(heap_brk, addr),
            LAMBDA m, root, v : Granted(m, root, v, RW))
  /\ heap_brk' = IF MapAll(Now(tasks[t].pml4), Interval(heap_brk, addr), RW).ok THEN addr ELSE heap_brk

sys_mmap_phys(t, virts, phys, flags) ==
  /\ phys .. phys + Len(virts) - 1 \subseteq Devices
  /\ Mapped(t, FoldLeft(LAMBDA s, v : map_page(s, v, phys + (v - virts[1]), flags),
                        Now(tasks[t].pml4), virts), virts,
            LAMBDA m, root, v :
              IF m.free = 0 THEN Translate(m.mem, root, v)
              ELSE [addr |-> phys + (v - virts[1]), user |-> v < NPT * NPD, write |-> "W" \in flags])
  /\ UNCHANGED heap_brk

-----------------------------------------------------------------------------
\* pmm_init leaves the pages in one list, the highest on top.
Init ==
  /\ mem = [f \in Frames |->
       LET Lower == {g \in Frames : g < f}
       IN  [ZeroPage EXCEPT ![0].addr = IF Lower = {} THEN 0 ELSE Max(Lower)]]
  /\ free_stack = Max(Frames)
  /\ tasks = [t \in Slots |-> NoTask]
  /\ num_tasks = 0
  /\ heap_brk = HEAP_START
  /\ view = <<>>
  /\ calls = 0
  /\ waste = FALSE

Ranges == {r \in {Interval(v, v + n) : v \in UserPages, n \in 1 .. MaxPages} :
             Range(r) \subseteq UserPages}

Next ==
  \/ \E img \in Images : kmain(img)
  \/ \E t \in Slots :
       \/ \E img \in Images : sys_spawn_at(t, img)
       \/ sys_clone(t)
       \/ sys_exit(t)
       \/ \E i \in Slots : sys_kill(t, i)
       \/ \E r \in Ranges, fl \in {RO, RW} : sys_mmap(t, r, fl)
       \/ \E r \in Ranges : sys_munmap(t, r)
       \/ \E r \in Ranges, fl \in {RO, RW} : sys_mprotect(t, r, fl)
       \/ \E b \in Breaks : sys_brk(t, b)
       \/ \E r \in Ranges, d \in Devices : sys_mmap_phys(t, r, d, RW)

Spec == Init /\ [][Next]_vars

-----------------------------------------------------------------------------
(* Properties.                                                             *)

Virtual == 0 .. NPT * NPD + NPT - 1
Roots == {tasks[t].pml4 : t \in {u \in Slots : Live(u)}}
AllRoots == {tasks[t].pml4 : t \in Slots} \ {0}

\* The free list as pmm_alloc_page follows it, cut off when it is longer than
\* there are pages.
FreeList ==
  FoldLeft(LAMBDA l, k : LET p == IF l = <<>> THEN free_stack ELSE mem[Last(l)][0].addr
                         IN  IF p \in Frames THEN Append(l, p) ELSE l,
           <<>>, Interval(0, Cardinality(Frames) + 1))
Free == Range(FreeList)

Tables(root) ==
  LET pdpts == TablesBelow(mem, {root})
      pdts == TablesBelow(mem, pdpts)
  IN  {root} \cup pdpts \cup pdts \cup TablesBelow(mem, pdts)
UserView(root) ==
  LET at == [v \in Virtual |-> Translate(mem, root, v)]
  IN  {<<v, at[v].addr>> : v \in {w \in Virtual : at[w].user}}
UserFrames(root) == {x[2] : x \in UserView(root)} \ Devices
Stacks == {tasks[t].stack_phys : t \in {u \in Slots : Live(u)}}

\* Words of memory are words, every task has page tables, the break is one
\* that somebody asked for.
TypeOK ==
  /\ mem \in [Frames -> [Indices -> [addr : 0 .. NPT * NPD + NPT,
                                      flags : SUBSET {"P", "W", "U", "PS", "data"}]]]
  /\ free_stack \in Frames \cup {0}
  /\ \A t \in 0 .. num_tasks - 1 : tasks[t].pml4 \in Frames
  /\ heap_brk \in Breaks \cup {HEAP_START}

\* FreeListSound, Isolated, AddressSpaceExact and NothingLost hold as long as only
\* threads end, none of them by a kill of itself, and no usable page is at an
\* address where programs have memory.  A thread that ended while it waited is
\* made READY by the exit it waited for (task.c:376), which breaks all four; a
\* program's page at the address of a free one hides the rest of the list
\* (pmm.c:50), which breaks NothingLost.

\* The free list ends, and no page of it is in use: not as a page table of a
\* live task, not as its stack, not as its memory.  So pmm_alloc_page never
\* hands out a page twice.
FreeListSound ==
  /\ Len(FreeList) <= Cardinality(Frames)
  /\ Free \cap (Stacks \cup UNION {Tables(r) \cup UserFrames(r) : r \in Roots}) = {}

\* "Kill a process by PID. Frees its memory" (README.md:222): what exit and
\* kill free is freed once, so the list of free pages has an end.
FreedOnce == Len(FreeList) <= Cardinality(Frames)

\* No page has two uses: memory of one process at one address, or a page
\* table of one process, or the stack page of one task (create_elf, sys_clone
\* and the memory calls of task.c).
Isolated ==
  LET user == [r \in Roots |-> UserView(r)]
      frames == [r \in Roots |-> {x[2] : x \in user[r]} \ Devices]
      tables == [r \in Roots |-> Tables(r)]
  IN  /\ \A r \in Roots :
           /\ frames[r] \cap (Stacks \cup UNION {tables[q] : q \in Roots}) = {}
           /\ tables[r] \cap Stacks = {}
           /\ \A q \in Roots \ {r} : (frames[r] \cup tables[r]) \cap (frames[q] \cup tables[q]) = {}
           /\ \A x, y \in user[r] : x[2] = y[2] /\ x[2] \notin Devices => x[1] = y[1]
      /\ \A t, u \in Slots : Live(t) /\ Live(u) /\ t # u => tasks[t].stack_phys # tasks[u].stack_phys

\* Each address space is what its calls made it: a page that was mapped,
\* protected or unmapped is exactly so, and every other page is as the kernel
\* has it, out of reach of the program.  (Where the calls put memory at the
\* address of a usable page, the kernel no longer finds that page there.)
AddressSpaceExact ==
  \A r \in Roots, v \in Virtual :
    Translate(mem, r, v) =
      IF v \in DOMAIN view[r] THEN view[r][v]
      ELSE IF v < NPT * NPD THEN [addr |-> v, user |-> FALSE, write |-> TRUE]
      ELSE Unmapped

\* Until memory runs out or a program unmaps or replaces pages, every page is
\* in the free list or in somebody's use: loading programs, making threads and
\* ending them loses none.
NothingLost ==
  ~waste => Frames = Free \cup Stacks \cup UNION {Tables(r) \cup UserFrames(r) : r \in AllRoots}
=============================================================================

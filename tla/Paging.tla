------------------------------- MODULE Paging -------------------------------
(***************************************************************************)
(* Page tables in physical memory, kernel/paging.c, on top of the list of  *)
(* free pages of kernel/pmm.c.  The functions of the kernel are operators  *)
(* on a record m that holds what they read and write:                      *)
(*   m.mem   the words of each page,     m.free  free_stack,               *)
(*   m.page  the page a call returned (0 for none),                        *)
(*   m.ok    FALSE once a loop around these calls has given up,            *)
(*   m.root  paging_root, 0 for the tables of the boot loader,             *)
(*   m.buf, m.kstack, m.pml4  the pages that create_elf has taken.         *)
(* Addresses count pages.  The kernel uses the address of a page as a      *)
(* pointer, so it reaches what the current tables have there (Word, Put).  *)
(* What the processor caches of the tables is left out.                    *)
(***************************************************************************)
EXTENDS Integers, Sequences, SequencesExt

CONSTANTS
  NPT,     \* entries of a page table, and pages of a large page: 512
  NPD,     \* entries of a page directory: 512
  NTOP,    \* entries of the two upper levels: 512
  Frames   \* the pages that pmm_init put into the list

ASSUME PagingAssumption ==
  /\ NPT \in Nat \ {0, 1} /\ NTOP \in Nat \ {0}
  /\ NPD \in Nat /\ NPD >= NPT /\ NPD >= NTOP
  /\ Frames \subseteq 1 .. NPT * NPD - 1   \* what stage2.asm maps

Indices == 0 .. NPD - 1

\* A word of memory: a page address and the flags of paging.h.
Zero == [addr |-> 0, flags |-> {}]
Data == [addr |-> 0, flags |-> {"data"}]   \* anything but a table entry
ZeroPage == [k \in Indices |-> Zero]

RO == {"P", "U"}
RW == {"P", "W", "U"}

Present(w) == "P" \in w.flags
Large(w) == "PS" \in w.flags

pml4_i(v) == v \div (NPT * NPD * NTOP)
pdpt_i(v) == (v \div (NPT * NPD)) % NTOP
pdt_i(v) == (v \div NPT) % NPD
pt_i(v) == v % NPT

-----------------------------------------------------------------------------
(* What the processor makes of the tables.                                 *)

Unmapped == [addr |-> 0, user |-> FALSE, write |-> FALSE]

\* Entry k of the table in page t.
Entry(memory, t, k) == IF t \in Frames THEN memory[t][k] ELSE Data

\* The entries on the way to page virt; the last one has its address.
Path(memory, root, virt) ==
  LET pml4e == Entry(memory, root, pml4_i(virt))
      pdpte == Entry(memory, pml4e.addr, pdpt_i(virt))
      pde == Entry(memory, pdpte.addr, pdt_i(virt))
      last == IF Large(pde) THEN [pde EXCEPT !.addr = @ + pt_i(virt)]
              ELSE Entry(memory, pde.addr, pt_i(virt))
  IN  <<pml4e, pdpte, pde, last>>

Translate(memory, root, virt) ==
  LET path == Path(memory, root, virt)
      All(flag) == \A k \in 1 .. 4 : flag \in path[k].flags
  IN  IF ~All("P") THEN Unmapped
      ELSE [addr |-> path[4].addr, user |-> All("U"), write |-> All("W")]

-----------------------------------------------------------------------------
(* Pointers of the kernel.                                                 *)

\* The page that the kernel finds at address p.
At(m, p) == IF m.root = 0 THEN p ELSE Path(m.mem, m.root, p)[4].addr

\* Word k of the page at address p; what is not memory of the allocator holds
\* no table and takes no writes that matter.
Word(m, p, k) == Entry(m.mem, At(m, p), k)

PutPage(m, p, content) ==
  LET f == At(m, p)
  IN  IF f \in Frames THEN [m EXCEPT !.mem[f] = content] ELSE m

Put(m, p, k, w) ==
  LET f == At(m, p)
  IN  IF f \in Frames THEN [m EXCEPT !.mem[f][k] = w] ELSE m

paging_switch(m, root) == [m EXCEPT !.root = root]

-----------------------------------------------------------------------------
pmm_alloc_page(m) ==
  IF m.free = 0
  THEN [m EXCEPT !.page = 0]
  ELSE PutPage([m EXCEPT !.page = m.free, !.free = Word(m, m.free, 0).addr], m.free, ZeroPage)

pmm_free_page(m, p) ==
  [Put(m, p, 0, [addr |-> m.free, flags |-> {}]) EXCEPT !.free = p]

\* The page just allocated, if any, becomes the table behind entry k of t.
Linked(m, t, k, flags) ==
  IF m.page = 0 THEN m ELSE Put(m, t, k, [addr |-> m.page, flags |-> flags])

\* The table behind entry k of table t, in m.page; a missing one is added.
Descend(m, t, k, flags) ==
  IF Present(Word(m, t, k))
  THEN [m EXCEPT !.page = Word(m, t, k).addr]
  ELSE Linked(pmm_alloc_page(m), t, k, flags)

\* paging.c:90-93: the page just allocated, filled with what the large page
\* of entry pde covered.
Filled(m, pde) ==
  IF m.page = 0 THEN m
  ELSE PutPage(m, m.page, [j \in Indices |->
         IF j < NPT THEN [addr |-> pde.addr + j, flags |-> pde.flags] ELSE Zero])

\* Mutant: the new page table is left empty.
Split_empty(m, pdt, k) ==
  Linked(pmm_alloc_page(m), pdt, k, RW)

\* paging.c:85-98: a large page becomes a table of small ones.
Split(m, pdt, k) ==
  Linked(Filled(pmm_alloc_page(m), Word(m, pdt, k)), pdt, k, RW)

\* map_page, level by level.  Without memory for a table it returns, and no
\* caller can tell.
SetEntry(m, virt, phys, flags) ==
  IF m.page = 0 THEN m
  ELSE Put(m, m.page, pt_i(virt), [addr |-> phys, flags |-> flags])

MapInDirectory(m, virt, phys, flags) ==
  IF m.page = 0 THEN m
  ELSE IF virt % NPT = 0 /\ phys % NPT = 0
  THEN Put(m, m.page, pdt_i(virt), [addr |-> phys, flags |-> flags \cup {"PS"}])
  ELSE SetEntry(IF {"P", "PS"} \subseteq Word(m, m.page, pdt_i(virt)).flags
                THEN Split(m, m.page, pdt_i(virt))
                ELSE Descend(m, m.page, pdt_i(virt), RW),
                virt, phys, flags)

MapBelow(m, virt, phys, flags) ==
  IF m.page = 0 THEN m
  ELSE MapInDirectory(Descend(m, m.page, pdpt_i(virt), {"P", "W"}), virt, phys, flags)

map_page(m, virt, phys, flags) ==
  MapBelow(Descend(m, m.root, pml4_i(virt), {"P", "W"}), virt, phys, flags)

\* The page that entry k of table t points to, 0 if there is none.
Below(m, t, k) == IF Present(Word(m, t, k)) THEN Word(m, t, k).addr ELSE 0

\* The page directory for virt under the given root, 0 if there is none.
Directory(m, root, virt) ==
  LET pdpt == Below(m, root, pml4_i(virt))
  IN  IF pdpt = 0 THEN 0 ELSE Below(m, pdpt, pdpt_i(virt))

\* A large page loses PAGE_PS here: ~0x1FF clears it and flags has none.
SetFlags(m, pdt, virt, flags) ==
  LET pde == Word(m, pdt, pdt_i(virt))
      pte == Word(m, pde.addr, pt_i(virt))
  IN  IF pdt = 0 \/ ~Present(pde) THEN m
      ELSE IF Large(pde) THEN Put(m, pdt, pdt_i(virt), [pde EXCEPT !.flags = flags])
      ELSE IF ~Present(pte) THEN m
      ELSE Put(m, pde.addr, pt_i(virt), [pte EXCEPT !.flags = flags])

map_page_flags(m, virt, flags) == SetFlags(m, Directory(m, m.root, virt), virt, flags)

\* paging.c does not look whether the directory entry is present; an entry
\* of zeros sends the write to page 0, which is nobody's.
Clear(m, pdt, virt) ==
  LET pde == Word(m, pdt, pdt_i(virt))
      pte == Word(m, pde.addr, pt_i(virt))
  IN  IF pdt = 0 THEN m
      ELSE IF Large(pde) THEN Put(m, pdt, pdt_i(virt), [pde EXCEPT !.flags = @ \ {"P"}])
      ELSE Put(m, pde.addr, pt_i(virt), [pte EXCEPT !.flags = @ \ {"P"}])

unmap_page(m, virt) == Clear(m, Directory(m, m.root, virt), virt)

\* The template maps the pages below NPT * NPD to themselves, by large pages
\* that only the kernel may use (boot/stage2.asm, setup_paging).  Pages
\* already taken are not given back when one is missing.
paging_clone_kernel(m) ==
  LET Tables(pml4, pdpt, m3) ==
        IF 0 \in {pml4, pdpt, m3.page}
        THEN [m3 EXCEPT !.page = 0]
        ELSE [PutPage(Put(Put(m3, pml4, 0, [addr |-> pdpt, flags |-> RW]),
                          pdpt, 0, [addr |-> m3.page, flags |-> RW]),
                      m3.page, [k \in Indices |-> [addr |-> k * NPT, flags |-> {"P", "W", "PS"}]])
              EXCEPT !.page = pml4]
      Second(pml4, m2) == Tables(pml4, m2.page, pmm_alloc_page(m2))
      First(m1) == Second(m1.page, pmm_alloc_page(m1))
  IN  First(pmm_alloc_page(m))

\* The tables that the tables in S point to.
TablesBelow(memory, S) ==
  {memory[x[1]][x[2]].addr : x \in {y \in (S \cap Frames) \X Indices :
     Present(memory[y[1]][y[2]]) /\ ~Large(memory[y[1]][y[2]])}}
=============================================================================

-------------------------------- MODULE Pmm ---------------------------------
(***************************************************************************)
(* The physical page allocator, kernel/pmm.c: pmm_init builds a linked     *)
(* list of free pages from the BIOS memory map, each page's first word     *)
(* holding the address of the next; pmm_alloc_page pops and zeroes a page, *)
(* pmm_free_page pushes one.  Nothing but the list remembers what is free. *)
(* The clients are assumed to free a page they own, once; what the code    *)
(* that frees a process's memory does is left to the address spaces.       *)
(***************************************************************************)
EXTENDS Integers, Sequences

CONSTANTS
  PAGE_SIZE,   \* pmm.h, 4096 in the code
  LOW,         \* 0x100000: memory below it is never used
  KernelEnd,   \* _end, the first address behind the kernel image
  BootAreas,   \* the addresses that pmm.c:34-35 leaves out, all below LOW
  MemPages,    \* bound: physical memory, in pages
  E820Maps,    \* memory maps the BIOS may report
  Words        \* what clients write into the first word of a page

Memory == 0 .. MemPages * PAGE_SIZE - 1
Pages == {k * PAGE_SIZE : k \in 1 .. MemPages - 1}

Entry == [base : Nat, len : Nat, type : Nat]
Bytes(e) == e.base .. e.base + e.len - 1

ASSUME PmmAssumption ==
  /\ PAGE_SIZE \in Nat \ {0}
  /\ LOW \in Nat \ {0} /\ LOW % PAGE_SIZE = 0
  /\ KernelEnd \in Nat
  /\ BootAreas \subseteq 0 .. LOW - 1
  /\ MemPages \in Nat
  /\ Words \subseteq Nat

\* Usable entries lie in memory and do not overlap.
ASSUME E820Assumption ==
  \A m \in E820Maps :
    /\ m \in Seq(Entry)
    /\ \A i \in 1 .. Len(m) : m[i].type = 1 => Bytes(m[i]) \subseteq Memory
    /\ \A i, j \in 1 .. Len(m) :
         m[i].type = 1 /\ m[j].type = 1 /\ i # j => Bytes(m[i]) \cap Bytes(m[j]) = {}

VARIABLES
  e820,        \* the memory map at E820_BASE
  i, addr,     \* pmm_init's loops; i > Len(e820) when it has returned
  free_stack,
  word,        \* the first word of each page
  owned,       \* pages handed out and not given back
  chain        \* auxiliary: the free pages, in the order of the list

vars == <<e820, i, addr, free_stack, word, owned, chain>>

RoundUp(a) == ((a + PAGE_SIZE - 1) \div PAGE_SIZE) * PAGE_SIZE
RoundDown(a) == (a \div PAGE_SIZE) * PAGE_SIZE

\* Mutant: the start of the entry is not rounded.
Start_unrounded(e) == IF e.base < LOW THEN LOW ELSE RoundDown(e.base)

\* start and end of pmm.c:24-31.
Start(e) == RoundUp(IF e.base < LOW THEN LOW ELSE e.base)
End(e) == RoundDown(e.base + e.len)

\* Mutant: off by one at the end of the kernel.
Skipped_too_much(a) == a \in BootAreas \/ (a >= LOW /\ a <= KernelEnd)

Skipped(a) == a \in BootAreas \/ (a >= LOW /\ a < KernelEnd)

Init ==
  /\ e820 \in E820Maps
  /\ i = 1
  /\ addr = -1          \* entry i is still to be looked at
  /\ free_stack = 0
  /\ word \in [Pages -> Words]
  /\ owned = {}
  /\ chain = <<>>

Booting == i <= Len(e820)

Push(p) ==
  /\ word' = [word EXCEPT ![p] = free_stack]
  /\ free_stack' = p
  /\ chain' = <<p>> \o chain

\* pmm.c:21-31: an entry that is not usable is skipped.
init_entry ==
  /\ Booting
  /\ addr = -1
  /\ IF e820[i].type # 1
        \/ (IF e820[i].base < LOW THEN LOW ELSE e820[i].base) >= e820[i].base + e820[i].len
     THEN i' = i + 1 /\ UNCHANGED addr
     ELSE addr' = Start(e820[i]) /\ UNCHANGED i
  /\ UNCHANGED <<e820, free_stack, word, owned, chain>>

\* pmm.c:33-40: one round of the loop over the pages of entry i.
init_page ==
  /\ Booting
  /\ addr >= 0
  /\ IF addr >= End(e820[i])
     THEN /\ i' = i + 1
          /\ addr' = -1
          /\ UNCHANGED <<free_stack, word, chain>>
     ELSE /\ addr' = addr + PAGE_SIZE
          /\ IF Skipped(addr) THEN UNCHANGED <<free_stack, word, chain>> ELSE Push(addr)
          /\ UNCHANGED i
  /\ UNCHANGED <<e820, owned>>

\* Mutant: the page behind the top of the list is handed out.
pmm_alloc_page_second ==
  /\ ~Booting
  /\ free_stack # 0
  /\ word[free_stack] # 0
  /\ owned' = owned \cup {word[free_stack]}
  /\ free_stack' = word[free_stack]
  /\ word' = [word EXCEPT ![free_stack] = 0]
  /\ chain' = Tail(chain)
  /\ UNCHANGED <<e820, i, addr>>

\* Mutant: the test for an empty list is missing.
pmm_alloc_page_unchecked ==
  /\ ~Booting
  /\ owned' = owned \cup {free_stack}
  /\ IF free_stack = 0
     THEN UNCHANGED <<free_stack, word, chain>>
     ELSE /\ free_stack' = word[free_stack]
          /\ word' = [word EXCEPT ![free_stack] = 0]
          /\ chain' = Tail(chain)
  /\ UNCHANGED <<e820, i, addr>>

\* With an empty list it returns 0 and changes nothing.
pmm_alloc_page ==
  /\ ~Booting
  /\ free_stack # 0
  /\ owned' = owned \cup {free_stack}
  /\ free_stack' = word[free_stack]
  /\ word' = [word EXCEPT ![free_stack] = 0]
  /\ chain' = Tail(chain)
  /\ UNCHANGED <<e820, i, addr>>

\* Mutant: free_stack is updated before it is stored in the page.
pmm_free_page_swapped(p) ==
  /\ ~Booting
  /\ word' = [word EXCEPT ![p] = p]
  /\ free_stack' = p
  /\ chain' = <<p>> \o chain
  /\ owned' = owned \ {p}
  /\ UNCHANGED <<e820, i, addr>>

pmm_free_page(p) ==
  /\ ~Booting
  /\ Push(p)
  /\ owned' = owned \ {p}
  /\ UNCHANGED <<e820, i, addr>>

\* The owner of a page writes to it.
client_write(p, w) ==
  /\ ~Booting
  /\ word' = [word EXCEPT ![p] = w]
  /\ UNCHANGED <<e820, i, addr, free_stack, owned, chain>>

Next ==
  \/ init_entry
  \/ init_page
  \/ pmm_alloc_page
  \/ \E p \in owned : pmm_free_page(p)
  \/ \E p \in owned, w \in Words : client_write(p, w)

Spec == Init /\ [][Next]_vars

-----------------------------------------------------------------------------
(* Properties.                                                             *)

\* Ranges of the variables.
TypeOK ==
  /\ e820 \in E820Maps
  /\ i \in Nat \ {0}
  /\ addr \in Nat \cup {-1}
  /\ word \in [Pages -> Nat]
  /\ free_stack \in Pages \cup {0}
  /\ owned \subseteq Pages
  /\ chain \in Seq(Pages)

\* The words in memory link exactly the free pages: whatever clients write
\* into the pages they own, the list that pmm_alloc_page follows is whole.
FreeListIntact ==
  /\ free_stack = IF chain = <<>> THEN 0 ELSE chain[1]
  /\ \A k \in 1 .. Len(chain) :
       word[chain[k]] = IF k = Len(chain) THEN 0 ELSE chain[k + 1]

\* No page is handed out twice: a page is in the list at most once, and not
\* while somebody owns it.
NoDoubleAllocation ==
  /\ \A j, k \in 1 .. Len(chain) : chain[j] = chain[k] => j = k
  /\ \A k \in 1 .. Len(chain) : chain[k] \notin owned

\* A page that may be used: whole, inside one usable entry, above LOW and
\* clear of the kernel image.
Usable(p) ==
  /\ p >= LOW /\ p >= KernelEnd
  /\ \E k \in 1 .. Len(e820) :
       e820[k].type = 1 /\ \A b \in p .. p + PAGE_SIZE - 1 : b \in Bytes(e820[k])

\* pmm_init takes over exactly the pages that may be used: no page of the
\* kernel, of a reserved area or only partly in memory, and none is lost,
\* then or later.
ExactlyUsable ==
  /\ \A k \in 1 .. Len(chain) : Usable(chain[k])
  /\ \A p \in owned : Usable(p)
  /\ ~Booting => \A p \in Pages : Usable(p) =>
       p \in owned \/ \E k \in 1 .. Len(chain) : chain[k] = p
=============================================================================

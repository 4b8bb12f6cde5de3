----------------------------- MODULE PmmProofs ------------------------------
(* The page allocator, for every memory map, page size and memory size.    *)
EXTENDS Pmm, TLAPS

Multiple(a) == \E q \in Nat : a = q * PAGE_SIZE

InEntry(p, e) == e.base <= p /\ p + PAGE_SIZE <= e.base + e.len

-----------------------------------------------------------------------------
(* Arithmetic of pages.                                                    *)

LEMMA Division ==
  ASSUME NEW n \in Nat \ {0}, NEW a \in Nat
  PROVE  (a \div n) \in Nat /\ (a \div n) * n <= a /\ a < ((a \div n) + 1) * n
<1>1. (a \div n) \in Nat /\ (a \div n) * n <= a
  OBVIOUS
<1>2. a < ((a \div n) + 1) * n
  OBVIOUS
<1> QED BY <1>1, <1>2

LEMMA Product ==
  ASSUME NEW n \in Nat \ {0}, NEW q \in Nat, NEW r \in Nat
  PROVE  /\ q * n < r * n => q < r
         /\ q < r => (q + 1) * n <= r * n
         /\ q * n \in Nat
         /\ (q + 1) * n = q * n + n
<1>1. q * n < r * n => q < r
  OBVIOUS
<1>2. q < r => (q + 1) * n <= r * n
  OBVIOUS
<1>3. q * n \in Nat /\ (q + 1) * n = q * n + n
  OBVIOUS
<1> QED BY <1>1, <1>2, <1>3

\* Between a page and a later one there is room for the page.
LEMMA NextPage ==
  ASSUME NEW a \in Nat, NEW b \in Nat, Multiple(a), Multiple(b), a < b
  PROVE  a + PAGE_SIZE <= b
<1>1. PICK q \in Nat : a = q * PAGE_SIZE
  BY DEF Multiple
<1>2. PICK r \in Nat : b = r * PAGE_SIZE
  BY DEF Multiple
<1>3. q < r /\ (q + 1) * PAGE_SIZE = q * PAGE_SIZE + PAGE_SIZE
  BY <1>1, <1>2, Product, PmmAssumption
<1>4. (q + 1) * PAGE_SIZE <= r * PAGE_SIZE
  BY <1>3, Product, PmmAssumption
<1> QED BY <1>1, <1>2, <1>3, <1>4

LEMMA AddPage ==
  ASSUME NEW a \in Nat, Multiple(a)
  PROVE  Multiple(a + PAGE_SIZE)
<1>1. PICK q \in Nat : a = q * PAGE_SIZE
  BY DEF Multiple
<1>2. (q + 1) * PAGE_SIZE = q * PAGE_SIZE + PAGE_SIZE /\ q + 1 \in Nat
  BY Product, PmmAssumption
<1> QED BY <1>1, <1>2 DEF Multiple

\* Rounding gives the nearest page boundaries.
LEMMA Down ==
  ASSUME NEW a \in Nat
  PROVE  /\ RoundDown(a) \in Nat /\ Multiple(RoundDown(a)) /\ RoundDown(a) <= a
         /\ \A b \in Nat : Multiple(b) /\ b <= a => b <= RoundDown(a)
<1>1. /\ a \div PAGE_SIZE \in Nat /\ RoundDown(a) <= a
      /\ a < ((a \div PAGE_SIZE) + 1) * PAGE_SIZE
  BY Division, PmmAssumption DEF RoundDown
<1>2. /\ RoundDown(a) \in Nat /\ Multiple(RoundDown(a))
      /\ a < RoundDown(a) + PAGE_SIZE
  BY <1>1, Product, PmmAssumption DEF RoundDown, Multiple
<1>3. ASSUME NEW b \in Nat, Multiple(b), b <= a, ~(b <= RoundDown(a))
      PROVE  FALSE
  <2>1. RoundDown(a) < b
    BY <1>2, <1>3
  <2>2. RoundDown(a) + PAGE_SIZE <= b
    BY <1>2, <1>3, <2>1, NextPage
  <2> QED BY <1>2, <1>3, <2>2, PmmAssumption
<1> QED BY <1>1, <1>2, <1>3

LEMMA Up ==
  ASSUME NEW a \in Nat
  PROVE  /\ RoundUp(a) \in Nat /\ Multiple(RoundUp(a)) /\ a <= RoundUp(a)
         /\ \A b \in Nat : Multiple(b) /\ a <= b => RoundUp(a) <= b
<1> DEFINE c == a + PAGE_SIZE - 1
<1>1. c \in Nat /\ RoundUp(a) = RoundDown(c)
  BY PmmAssumption DEF RoundUp, RoundDown
<1>2. /\ RoundDown(c) \in Nat /\ Multiple(RoundDown(c)) /\ RoundDown(c) <= c
  BY <1>1, Down
<1>3. a <= RoundDown(c)
  <2>1. c < ((c \div PAGE_SIZE) + 1) * PAGE_SIZE /\ c \div PAGE_SIZE \in Nat
    BY <1>1, Division, PmmAssumption
  <2>2. c < RoundDown(c) + PAGE_SIZE
    BY <2>1, Product, PmmAssumption DEF RoundDown
  <2> QED BY <1>2, <2>2, PmmAssumption
<1>4. ASSUME NEW b \in Nat, Multiple(b), a <= b, ~(RoundDown(c) <= b)
      PROVE  FALSE
  <2>1. b + PAGE_SIZE <= RoundDown(c)
    BY <1>2, <1>4, NextPage
  <2> QED BY <1>2, <1>4, <2>1, PmmAssumption
<1> QED BY <1>1, <1>2, <1>3, <1>4

\* A page above LOW that lies in memory is one of Pages.
LEMMA PageOfMemory ==
  ASSUME NEW a \in Nat, Multiple(a), a >= LOW, a + PAGE_SIZE - 1 \in Memory
  PROVE  a \in Pages
<1>1. PICK q \in Nat : a = q * PAGE_SIZE
  BY DEF Multiple
<1>2. (q + 1) * PAGE_SIZE = a + PAGE_SIZE /\ a + PAGE_SIZE <= MemPages * PAGE_SIZE
  <2>1. (q + 1) * PAGE_SIZE = a + PAGE_SIZE
    BY <1>1, Product, PmmAssumption
  <2>2. MemPages * PAGE_SIZE \in Nat
    BY Product, PmmAssumption
  <2> QED BY <2>1, <2>2, PmmAssumption DEF Memory
<1>3. q + 1 <= MemPages
  <2>1. SUFFICES ASSUME MemPages < q + 1 PROVE FALSE
    BY PmmAssumption
  <2>2. (MemPages + 1) * PAGE_SIZE <= (q + 1) * PAGE_SIZE
    BY <2>1, Product, PmmAssumption
  <2>3. (MemPages + 1) * PAGE_SIZE = MemPages * PAGE_SIZE + PAGE_SIZE
        /\ MemPages * PAGE_SIZE \in Nat
    BY Product, PmmAssumption
  <2> QED BY <1>2, <2>2, <2>3, PmmAssumption
<1>4. q # 0
  BY <1>1, PmmAssumption
<1>5. q \in 1 .. MemPages - 1
  BY <1>3, <1>4, PmmAssumption
<1> QED BY <1>1, <1>5 DEF Pages

LEMMA PagesArePages ==
  ASSUME NEW p \in Pages
  PROVE  p \in Nat \ {0} /\ Multiple(p)
<1>1. PICK q \in 1 .. MemPages - 1 : p = q * PAGE_SIZE
  BY DEF Pages
<1>2. q \in Nat \ {0}
  BY <1>1, PmmAssumption
<1>3. p \in Nat /\ Multiple(p)
  BY <1>1, <1>2, Product, PmmAssumption DEF Multiple
<1>4. p # 0
  BY <1>1, <1>2, PmmAssumption
<1> QED BY <1>3, <1>4

-----------------------------------------------------------------------------
(* The list.                                                               *)

LEMMA Cons ==
  ASSUME NEW s \in Seq(Pages), NEW p \in Pages
  PROVE  /\ <<p>> \o s \in Seq(Pages)
         /\ Len(<<p>> \o s) = Len(s) + 1
         /\ (<<p>> \o s)[1] = p
         /\ \A k \in 1 .. Len(s) : (<<p>> \o s)[k + 1] = s[k]
         /\ \A k \in 2 .. Len(s) + 1 : (<<p>> \o s)[k] = s[k - 1]
<1>1. <<p>> \in Seq(Pages) /\ Len(<<p>>) = 1
  OBVIOUS
<1> QED BY <1>1

\* The list part of the invariant: it does not mention the memory map.
List == /\ word \in [Pages -> Nat] /\ free_stack \in Pages \cup {0}
        /\ chain \in Seq(Pages) /\ FreeListIntact
        /\ \A j, k \in 1 .. Len(chain) : chain[j] = chain[k] => j = k

InChain(p) == \E k \in 1 .. Len(chain) : chain[k] = p

\* Pushing a page that is not in the list adds exactly that page.
LEMMA PushEffect ==
  ASSUME List, NEW p \in Pages, ~InChain(p), Push(p)
  PROVE  List' /\ \A q \in Pages : InChain(q)' <=> q = p \/ InChain(q)
<1>1. /\ chain' = <<p>> \o chain /\ free_stack' = p
      /\ word' = [word EXCEPT ![p] = free_stack]
  BY DEF Push
<1>2. /\ chain \in Seq(Pages) /\ Len(chain) \in Nat /\ word \in [Pages -> Nat]
      /\ free_stack \in Pages \cup {0}
  BY DEF List
<1>3. /\ chain' \in Seq(Pages) /\ Len(chain') = Len(chain) + 1 /\ chain'[1] = p
      /\ \A k \in 1 .. Len(chain) : chain'[k + 1] = chain[k]
      /\ \A k \in 2 .. Len(chain) + 1 : chain'[k] = chain[k - 1]
  BY Zenon, <1>1, <1>2, Cons
<1>4. \A k \in 1 .. Len(chain) : chain[k] \in Pages /\ chain[k] # p
  BY <1>2 DEF InChain
<1>5. word' \in [Pages -> Nat]
  <2>1. free_stack \in Nat
    BY <1>2, PagesArePages
  <2> QED BY <1>1, <1>2, <2>1
<1>6. FreeListIntact'
  <2>1. free_stack' = IF chain' = <<>> THEN 0 ELSE chain'[1]
    BY <1>1, <1>2, <1>3
  <2>2. ASSUME NEW k \in 1 .. Len(chain')
        PROVE  word'[chain'[k]] = IF k = Len(chain') THEN 0 ELSE chain'[k + 1]
    <3>1. CASE k = 1
      <4>1. word'[p] = free_stack
        BY <1>1, <1>2
      <4>2. CASE Len(chain) = 0
        <5>1. chain = <<>>
          BY <1>2, <4>2
        <5> QED BY <1>3, <3>1, <4>1, <4>2, <5>1 DEF List, FreeListIntact
      <4>3. CASE Len(chain) # 0
        <5>1. chain # <<>> /\ 1 \in 1 .. Len(chain) /\ k # Len(chain')
          BY <1>2, <1>3, <3>1, <4>3
        <5>2. free_stack = chain[1] /\ chain'[1 + 1] = chain[1]
          BY <1>3, <5>1 DEF List, FreeListIntact
        <5> QED BY <1>3, <3>1, <4>1, <5>1, <5>2
      <4> QED BY <4>2, <4>3
    <3>2. CASE k # 1
      <4>1. k \in 2 .. Len(chain) + 1 /\ k - 1 \in 1 .. Len(chain)
        BY <1>2, <1>3, <3>2
      <4>2. chain'[k] = chain[k - 1]
        BY <1>3, <4>1
      <4>3. word'[chain'[k]] = word[chain[k - 1]]
        BY <1>1, <1>2, <1>4, <4>1, <4>2
      <4>4. word[chain[k - 1]] = IF k - 1 = Len(chain) THEN 0 ELSE chain[(k - 1) + 1]
        BY <4>1 DEF List, FreeListIntact
      <4>5. CASE k = Len(chain')
        BY <1>2, <1>3, <4>1, <4>3, <4>4, <4>5
      <4>6. CASE k # Len(chain')
        <5>1. k - 1 # Len(chain) /\ (k - 1) + 1 = k /\ k \in 1 .. Len(chain)
          BY <1>2, <1>3, <4>1, <4>6
        <5> QED BY <1>3, <4>3, <4>4, <4>6, <5>1
      <4> QED BY <4>5, <4>6
    <3> QED BY <3>1, <3>2
  <2> QED BY <2>1, <2>2 DEF FreeListIntact
<1>7. ASSUME NEW j \in 1 .. Len(chain'), NEW k \in 1 .. Len(chain'), chain'[j] = chain'[k]
      PROVE  j = k
  <2>1. ASSUME NEW m \in 1 .. Len(chain'), m # 1
        PROVE  m - 1 \in 1 .. Len(chain) /\ chain'[m] = chain[m - 1] /\ chain'[m] # p
    <3>1. m \in 2 .. Len(chain) + 1 /\ m - 1 \in 1 .. Len(chain)
      BY <1>2, <1>3, <2>1
    <3> QED BY <1>3, <1>4, <3>1
  <2>2. CASE j = 1 \/ k = 1
    BY <1>3, <1>7, <2>1, <2>2
  <2>3. CASE j # 1 /\ k # 1
    <3>1. j - 1 = k - 1
      BY Zenon, <1>7, <2>1, <2>3 DEF List
    <3> QED BY <1>2, <1>3, <3>1
  <2> QED BY <2>2, <2>3
<1>8. ASSUME NEW q \in Pages
      PROVE  InChain(q)' <=> q = p \/ InChain(q)
  <2>1. ASSUME NEW k \in 1 .. Len(chain'), chain'[k] = q, q # p
        PROVE  InChain(q)
    <3>1. k # 1
      BY <1>3, <2>1
    <3>2. k \in 2 .. Len(chain) + 1 /\ k - 1 \in 1 .. Len(chain)
      BY <1>2, <1>3, <3>1
    <3> QED BY <1>3, <2>1, <3>2 DEF InChain
  <2>2. ASSUME NEW k \in 1 .. Len(chain), chain[k] = q
        PROVE  InChain(q)'
    <3>1. k + 1 \in 1 .. Len(chain')
      BY <1>2, <1>3
    <3> QED BY <1>3, <2>2, <3>1 DEF InChain
  <2>3. InChain(p)'
    <3>1. 1 \in 1 .. Len(chain')
      BY <1>2, <1>3
    <3> QED BY <1>3, <3>1 DEF InChain
  <2> QED BY <2>1, <2>2, <2>3 DEF InChain
<1> QED BY <1>1, <1>3, <1>5, <1>6, <1>7, <1>8 DEF List

\* Lists of at least two pages.
LEMMA SecondIndex ==
  ASSUME NEW n \in Nat, n >= 1, n # 1
  PROVE  1 + 1 \in 1 .. n /\ 1 \in 1 .. n - 1 /\ n - 1 # 0
  OBVIOUS

\* pmm_alloc_page hands out the first page of the list and removes it.
LEMMA PopEffect ==
  ASSUME List, free_stack # 0, chain' = Tail(chain), free_stack' = word[free_stack],
         word' = [word EXCEPT ![free_stack] = 0]
  PROVE  /\ List' /\ free_stack \in Pages /\ InChain(free_stack)
         /\ \A q \in Pages : InChain(q)' <=> q # free_stack /\ InChain(q)
<1>1. /\ chain \in Seq(Pages) /\ Len(chain) \in Nat /\ word \in [Pages -> Nat]
      /\ free_stack \in Pages
  BY DEF List
<1>2. chain # <<>> /\ Len(chain) >= 1 /\ free_stack = chain[1]
  <2>1. chain # <<>> /\ free_stack = chain[1]
    BY DEF List, FreeListIntact
  <2> QED BY <1>1, <2>1
<1>3. /\ chain' \in Seq(Pages) /\ Len(chain') = Len(chain) - 1
      /\ \A k \in 1 .. Len(chain) - 1 : chain'[k] = chain[k + 1]
  BY <1>1, <1>2
<1>n. Len(chain) \in Nat /\ Len(chain) >= 1 /\ Len(chain') = Len(chain) - 1
  BY <1>1, <1>2, <1>3
<1>4. 1 \in 1 .. Len(chain) /\ InChain(free_stack)
  BY <1>1, <1>2 DEF InChain
<1>5. ASSUME NEW k \in 1 .. Len(chain')
      PROVE  /\ k + 1 \in 1 .. Len(chain) /\ chain'[k] = chain[k + 1]
             /\ chain'[k] \in Pages /\ chain'[k] # free_stack
  <2>1. k + 1 \in 1 .. Len(chain) /\ k \in 1 .. Len(chain) - 1 /\ k + 1 # 1
    BY <1>1, <1>3
  <2>2. chain[k + 1] # chain[1]
    BY <1>4, <2>1 DEF List
  <2> QED BY <1>1, <1>2, <1>3, <2>1, <2>2
<1>6. word' \in [Pages -> Nat]
  BY <1>1
<1>7. word[free_stack] = IF 1 = Len(chain) THEN 0 ELSE chain[1 + 1]
  BY Zenon, <1>2, <1>4 DEF List, FreeListIntact
<1>8. FreeListIntact'
  <2>1. free_stack' = IF chain' = <<>> THEN 0 ELSE chain'[1]
    <3>1. CASE Len(chain) = 1
      <4>1. Len(chain') = 0
        BY <1>3, <3>1
      <4>2. chain' = <<>>
        BY <1>3, <4>1
      <4> QED BY <1>7, <3>1, <4>2
    <3>2. CASE Len(chain) # 1
      <4>1. 1 \in 1 .. Len(chain) - 1 /\ Len(chain') # 0
        BY Zenon, <1>n, <3>2, SecondIndex
      <4>2. chain' # <<>>
        BY Zenon, <4>1
      <4> QED BY <1>3, <1>7, <3>2, <4>1, <4>2
    <3> QED BY <3>1, <3>2
  <2>2. ASSUME NEW k \in 1 .. Len(chain')
        PROVE  word'[chain'[k]] = IF k = Len(chain') THEN 0 ELSE chain'[k + 1]
    <3>1. word'[chain'[k]] = word[chain[k + 1]]
      <4>1. chain'[k] \in Pages /\ chain'[k] # free_stack /\ chain'[k] = chain[k + 1]
        BY <1>5
      <4>2. \A q \in Pages : q # free_stack => word'[q] = word[q]
        BY <1>1
      <4> QED BY <4>1, <4>2
    <3>2. word[chain[k + 1]] = IF k + 1 = Len(chain) THEN 0 ELSE chain[(k + 1) + 1]
      BY <1>5 DEF List, FreeListIntact
    <3>3. CASE k = Len(chain')
      BY <1>1, <1>3, <3>1, <3>2, <3>3
    <3>4. CASE k # Len(chain')
      <4>1. k + 1 \in 1 .. Len(chain) - 1 /\ k + 1 # Len(chain)
        BY <1>n, <3>4
      <4> QED BY Zenon, <1>3, <3>1, <3>2, <3>4, <4>1
    <3> QED BY <3>3, <3>4
  <2> QED BY <2>1, <2>2 DEF FreeListIntact
<1>9. free_stack' \in Pages \cup {0}
  <2>1. CASE Len(chain) = 1
    BY <1>7, <2>1
  <2>2. CASE Len(chain) # 1
    <3>1. 1 + 1 \in 1 .. Len(chain)
      BY Zenon, <1>n, <2>2, SecondIndex
    <3>2. chain[1 + 1] \in Pages
      BY <1>1, <3>1
    <3> QED BY <1>7, <2>2, <3>2
  <2> QED BY <2>1, <2>2
<1>10. ASSUME NEW j \in 1 .. Len(chain'), NEW k \in 1 .. Len(chain'), chain'[j] = chain'[k]
       PROVE  j = k
  <2>1. j + 1 = k + 1
    BY <1>5, <1>10 DEF List
  <2> QED BY <1>1, <1>3, <2>1
<1>11. ASSUME NEW q \in Pages
       PROVE  InChain(q)' <=> q # free_stack /\ InChain(q)
  <2>1. ASSUME NEW k \in 1 .. Len(chain'), chain'[k] = q
        PROVE  q # free_stack /\ InChain(q)
    BY <1>5, <2>1 DEF InChain
  <2>2. ASSUME NEW k \in 1 .. Len(chain), chain[k] = q, q # free_stack
        PROVE  InChain(q)'
    <3>1. k # 1
      BY <1>2, <2>2
    <3>2. k - 1 \in 1 .. Len(chain) - 1 /\ (k - 1) + 1 = k
      BY <1>1, <3>1
    <3> QED BY Zenon, <1>3, <2>2, <3>2 DEF InChain
  <2> QED BY <2>1, <2>2 DEF InChain
<1> QED BY <1>1, <1>3, <1>4, <1>6, <1>8, <1>9, <1>10, <1>11 DEF List

-----------------------------------------------------------------------------
(* The pages that pmm_init has passed when its loops are at ii and aa.     *)

Passed(p, ii, aa) ==
  \E j \in 1 .. Len(e820) :
    /\ e820[j].type = 1
    /\ InEntry(p, e820[j])
    /\ j < ii \/ (j = ii /\ aa # -1 /\ p < aa)

Taken(p) == InChain(p) \/ p \in owned

\* The inductive invariant: besides the list, that the pages in it and the
\* pages handed out are together exactly the allowed pages passed so far.
IInv ==
  /\ e820 \in E820Maps /\ i \in Nat \ {0} /\ addr \in Nat \cup {-1} /\ owned \subseteq Pages
  /\ List
  /\ \A p \in owned : ~InChain(p)
  /\ Booting => owned = {}
  /\ addr # -1 => /\ Booting /\ e820[i].type = 1 /\ Multiple(addr)
                  /\ addr >= LOW /\ addr >= e820[i].base
  /\ \A p \in Pages : Taken(p) <=> p >= LOW /\ p >= KernelEnd /\ Passed(p, i, addr)

LEMMA MapFacts ==
  ASSUME e820 \in E820Maps
  PROVE  /\ e820 \in Seq(Entry) /\ Len(e820) \in Nat
         /\ \A j \in 1 .. Len(e820) : e820[j].base \in Nat /\ e820[j].len \in Nat
         /\ \A j \in 1 .. Len(e820) : e820[j].type = 1 => Bytes(e820[j]) \subseteq Memory
         /\ \A j, k \in 1 .. Len(e820) :
              e820[j].type = 1 /\ e820[k].type = 1 /\ j # k =>
                Bytes(e820[j]) \cap Bytes(e820[k]) = {}
<1>1. e820 \in Seq(Entry)
  BY E820Assumption
<1>2. Len(e820) \in Nat /\ \A j \in 1 .. Len(e820) : e820[j] \in Entry
  BY <1>1
<1>3. \A j \in 1 .. Len(e820) : e820[j].base \in Nat /\ e820[j].len \in Nat
  BY <1>2 DEF Entry
<1> QED BY Zenon, <1>1, <1>2, <1>3, E820Assumption

\* A page lies in an entry exactly if its bytes do.
LEMMA EntryBytes ==
  ASSUME NEW e, e.base \in Nat, e.len \in Nat, NEW p \in Nat
  PROVE  /\ InEntry(p, e) => p \in Bytes(e)
         /\ InEntry(p, e) <=> \A b \in p .. p + PAGE_SIZE - 1 : b \in Bytes(e)
<1>1. InEntry(p, e) => \A b \in p .. p + PAGE_SIZE - 1 : b \in Bytes(e)
  BY PmmAssumption DEF InEntry, Bytes
<1>2. p \in p .. p + PAGE_SIZE - 1 /\ p + PAGE_SIZE - 1 \in p .. p + PAGE_SIZE - 1
  BY PmmAssumption
<1>3. p \in Bytes(e) /\ p + PAGE_SIZE - 1 \in Bytes(e) => InEntry(p, e)
  BY PmmAssumption DEF InEntry, Bytes
<1> QED BY <1>1, <1>2, <1>3

\* A step of the loops that passes no allowed page and pushes none.
LEMMA SkipStep ==
  ASSUME IInv, UNCHANGED <<e820, free_stack, word, owned, chain>>,
         i' \in Nat \ {0}, addr' \in Nat \cup {-1}, i' >= i,
         addr' # -1 => /\ Booting' /\ e820[i'].type = 1 /\ Multiple(addr')
                       /\ addr' >= LOW /\ addr' >= e820[i'].base,
         \A p \in Pages : p >= LOW /\ p >= KernelEnd =>
                            (Passed(p, i', addr') <=> Passed(p, i, addr))
  PROVE  IInv'
<1>1. List' /\ \A p : InChain(p)' <=> InChain(p)
  BY DEF IInv, List, FreeListIntact, InChain
<1>2. \A p : Taken(p)' <=> Taken(p)
  BY <1>1 DEF Taken
<1>3. \A p : Passed(p, i, addr)' <=> Passed(p, i', addr')
  BY DEF Passed
<1>4. \A p \in Pages : Taken(p)' <=> p >= LOW /\ p >= KernelEnd /\ Passed(p, i, addr)'
  BY <1>2, <1>3 DEF IInv
<1>5. Booting' => Booting
  BY MapFacts DEF IInv, Booting
<1> QED BY <1>1, <1>4, <1>5, Zenon DEF IInv

LEMMA EntryStep == IInv /\ init_entry => IInv'
<1> SUFFICES ASSUME IInv, init_entry PROVE IInv'
  OBVIOUS
<1> DEFINE e == e820[i]
           lo == IF e.base < LOW THEN LOW ELSE e.base
<1>1. /\ i \in 1 .. Len(e820) /\ addr = -1 /\ i \in Nat \ {0}
      /\ UNCHANGED <<e820, free_stack, word, owned, chain>>
  BY MapFacts DEF init_entry, Booting, IInv
<1>2. e.base \in Nat /\ e.len \in Nat /\ lo \in Nat /\ lo >= LOW /\ lo >= e.base
  BY <1>1, MapFacts, PmmAssumption DEF IInv
<1>3. CASE e.type # 1 \/ lo >= e.base + e.len
  <2>1. i' = i + 1 /\ addr' = -1
    BY <1>1, <1>3 DEF init_entry
  <2>2. ASSUME NEW p \in Pages, p >= LOW
        PROVE  Passed(p, i + 1, -1) <=> Passed(p, i, -1)
    <3>1. p \in Nat
      BY PagesArePages
    <3>2. ~(e.type = 1 /\ InEntry(p, e))
      <4>1. CASE e.type # 1
        BY <4>1
      <4>2. CASE lo >= e.base + e.len
        <5> SUFFICES ASSUME InEntry(p, e) PROVE FALSE
          OBVIOUS
        <5>1. e.base <= p /\ p + PAGE_SIZE <= e.base + e.len
          BY DEF InEntry
        <5>2. lo <= p
          BY <1>2, <2>2, <3>1, <5>1
        <5> QED BY <1>2, <3>1, <4>2, <5>1, <5>2, PmmAssumption
      <4> QED BY <1>3, <4>1, <4>2
    <3>3. \A j \in 1 .. Len(e820) : j < i + 1 <=> j < i \/ j = i
      BY <1>1
    <3> QED BY <3>2, <3>3 DEF Passed
  <2>3. i' \in Nat \ {0} /\ i' >= i
    BY <1>1, <2>1
  <2> QED BY <1>1, <2>1, <2>2, <2>3, SkipStep
<1>4. CASE ~(e.type # 1 \/ lo >= e.base + e.len)
  <2>1. i' = i /\ addr' = Start(e)
    BY <1>1, <1>4 DEF init_entry
  <2>2. Start(e) = RoundUp(lo)
    BY DEF Start
  <2>3. /\ addr' \in Nat /\ Multiple(addr') /\ lo <= addr'
        /\ \A b \in Nat : Multiple(b) /\ lo <= b => addr' <= b
    <3> HIDE DEF lo
    <3> QED BY <1>2, <2>1, <2>2, Up
  <2>4. addr' >= LOW /\ addr' >= e.base
    <3> HIDE DEF lo, e
    <3> QED BY <1>2, <2>3, PmmAssumption
  <2>5. ASSUME NEW p \in Pages, p >= LOW
        PROVE  Passed(p, i, addr') <=> Passed(p, i, -1)
    <3>1. p \in Nat /\ Multiple(p)
      BY PagesArePages
    <3>2. ~(InEntry(p, e) /\ p < addr')
      <4> SUFFICES ASSUME InEntry(p, e), p < addr' PROVE FALSE
        OBVIOUS
      <4>1. lo <= p
        BY <1>2, <2>5, <3>1 DEF InEntry
      <4>2. addr' <= p
        BY <2>3, <3>1, <4>1
      <4> QED BY <2>3, <3>1, <4>2
    <3> QED BY <3>2 DEF Passed
  <2>6. Booting' /\ e820[i'].type = 1
    BY <1>1, <1>4, <2>1 DEF init_entry, Booting
  <2> QED BY <1>1, <2>1, <2>3, <2>4, <2>5, <2>6, SkipStep
<1> QED BY <1>3, <1>4

LEMMA PageStep == IInv /\ init_page => IInv'
<1> SUFFICES ASSUME IInv, init_page PROVE IInv'
  OBVIOUS
<1> DEFINE e == e820[i]
<1>1. /\ i \in 1 .. Len(e820) /\ i \in Nat \ {0} /\ addr \in Nat /\ addr # -1
      /\ e.type = 1 /\ Multiple(addr) /\ addr >= LOW /\ addr >= e.base
      /\ Booting /\ owned = {} /\ UNCHANGED <<e820, owned>>
  BY MapFacts DEF init_page, Booting, IInv
<1>2. e.base \in Nat /\ e.len \in Nat /\ e.base + e.len \in Nat /\ PAGE_SIZE \in Nat \ {0}
  BY <1>1, MapFacts, PmmAssumption DEF IInv
<1>3. /\ End(e) \in Nat /\ Multiple(End(e)) /\ End(e) <= e.base + e.len
      /\ \A b \in Nat : Multiple(b) /\ b <= e.base + e.len => b <= End(e)
  <2> HIDE DEF e
  <2> QED BY <1>2, Down DEF End
<1>4. CASE addr >= End(e)
  <2>1. i' = i + 1 /\ addr' = -1 /\ UNCHANGED <<free_stack, word, chain>>
    BY <1>1, <1>4 DEF init_page
  <2>2. ASSUME NEW p \in Pages
        PROVE  Passed(p, i + 1, -1) <=> Passed(p, i, addr)
    <3>1. p \in Nat /\ Multiple(p) /\ p + PAGE_SIZE \in Nat /\ Multiple(p + PAGE_SIZE)
      BY <1>2, PagesArePages, AddPage
    <3>2. InEntry(p, e) => p < addr
      <4> SUFFICES ASSUME InEntry(p, e) PROVE p < addr
        OBVIOUS
      <4>1. p + PAGE_SIZE <= End(e)
        BY <1>3, <3>1 DEF InEntry
      <4> QED BY <1>1, <1>2, <1>3, <1>4, <3>1, <4>1
    <3>3. \A j \in 1 .. Len(e820) : j < i + 1 <=> j < i \/ j = i
      BY <1>1
    <3> QED BY <1>1, <3>2, <3>3 DEF Passed
  <2>3. i' \in Nat \ {0} /\ i' >= i
    BY <1>1, <2>1
  <2> QED BY <1>1, <2>1, <2>2, <2>3, SkipStep
<1>5. CASE ~(addr >= End(e))
  <2>1. addr' = addr + PAGE_SIZE /\ i' = i
    BY <1>1, <1>5 DEF init_page
  <2>2. addr + PAGE_SIZE <= End(e)
    BY <1>1, <1>3, <1>5, NextPage
  <2>3. InEntry(addr, e)
    BY <1>1, <1>2, <1>3, <2>2 DEF InEntry
  <2>4. addr \in Pages
    <3>1. addr + PAGE_SIZE - 1 \in Bytes(e)
      BY <1>1, <1>2, <2>3 DEF InEntry, Bytes
    <3>2. Bytes(e) \subseteq Memory
      BY <1>1, MapFacts DEF IInv
    <3> QED BY <1>1, <3>1, <3>2, PageOfMemory
  <2>5. /\ addr' \in Nat /\ Multiple(addr') /\ addr' # -1 /\ addr' >= LOW /\ addr' >= e.base
        /\ Booting' /\ e820[i'].type = 1
    <3>1. addr' \in Nat /\ addr' # -1 /\ addr' >= LOW /\ addr' >= e.base
      BY <1>1, <1>2, <2>1, PmmAssumption
    <3> QED BY <1>1, <2>1, <3>1, AddPage DEF Booting
  <2>6. ASSUME NEW p \in Pages
        PROVE  Passed(p, i, addr') <=> Passed(p, i, addr) \/ p = addr
    <3>1. p \in Nat /\ Multiple(p)
      BY PagesArePages
    <3>2. p < addr' <=> p < addr \/ p = addr
      <4>1. addr < p => addr + PAGE_SIZE <= p
        BY <1>1, <3>1, NextPage
      <4> QED BY <1>1, <1>2, <2>1, <3>1, <4>1
    <3> QED BY <1>1, <2>3, <2>5, <3>2 DEF Passed
  <2>7. CASE Skipped(addr)
    <3>1. UNCHANGED <<free_stack, word, chain>>
      BY <1>5, <2>7 DEF init_page
    <3>2. addr < KernelEnd
      BY <1>1, <2>7, PmmAssumption DEF Skipped
    <3>3. \A p \in Pages : p >= LOW /\ p >= KernelEnd =>
                             (Passed(p, i', addr') <=> Passed(p, i, addr))
      BY <1>1, <2>1, <2>6, <3>2, PmmAssumption
    <3> QED BY <1>1, <2>1, <2>5, <3>1, <3>3, SkipStep
  <2>8. CASE ~Skipped(addr)
    <3>1. Push(addr)
      BY <1>5, <2>8 DEF init_page
    <3>2. addr >= KernelEnd
      BY <1>1, <2>8, PmmAssumption DEF Skipped
    <3>3. ~InChain(addr)
      <4> SUFFICES ASSUME InChain(addr) PROVE FALSE
        OBVIOUS
      <4>1. Passed(addr, i, addr)
        BY <2>4 DEF IInv, Taken
      <4>2. PICK j \in 1 .. Len(e820) : e820[j].type = 1 /\ InEntry(addr, e820[j])
                                        /\ (j < i \/ (j = i /\ addr < addr))
        BY <4>1 DEF Passed
      <4>3. j # i
        BY <1>1, <4>2
      <4>4. addr \in Bytes(e820[j]) /\ addr \in Bytes(e)
        <5>1. e820[j].base \in Nat /\ e820[j].len \in Nat
          BY MapFacts DEF IInv
        <5> QED BY Zenon, <1>1, <1>2, <2>3, <4>2, <5>1, EntryBytes
      <4>5. Bytes(e820[j]) \cap Bytes(e820[i]) = {}
        BY Zenon, <1>1, <4>2, <4>3, MapFacts DEF IInv
      <4> QED BY <4>4, <4>5
    <3>4. List' /\ \A q \in Pages : InChain(q)' <=> q = addr \/ InChain(q)
      BY Zenon, <2>4, <3>1, <3>3, PushEffect DEF IInv
    <3>5. \A p \in Pages : Taken(p)' <=> Taken(p) \/ p = addr
      BY <1>1, <3>4 DEF Taken
    <3>6. \A p : Passed(p, i, addr)' <=> Passed(p, i, addr')
      BY <1>1, <2>1 DEF Passed
    <3>7. \A p \in Pages : Taken(p)' <=> p >= LOW /\ p >= KernelEnd /\ Passed(p, i, addr)'
      BY <1>1, <2>6, <3>2, <3>5, <3>6 DEF IInv
    <3>8. e820' \in E820Maps /\ i' \in Nat \ {0} /\ owned' = {}
      BY <1>1, <2>1 DEF IInv
    <3>9. e820'[i'].base = e.base /\ e820'[i'].type = 1
      BY <1>1, <2>1
    <3> QED BY <2>5, <3>4, <3>7, <3>8, <3>9 DEF IInv
  <2> QED BY <2>7, <2>8
<1> QED BY <1>4, <1>5

LEMMA AllocStep == IInv /\ pmm_alloc_page => IInv'
<1> SUFFICES ASSUME IInv, pmm_alloc_page PROVE IInv'
  OBVIOUS
<1>1. /\ ~Booting /\ free_stack # 0 /\ owned' = owned \cup {free_stack}
      /\ free_stack' = word[free_stack] /\ word' = [word EXCEPT ![free_stack] = 0]
      /\ chain' = Tail(chain) /\ UNCHANGED <<e820, i, addr>>
  BY DEF pmm_alloc_page
<1>2. /\ List' /\ free_stack \in Pages /\ InChain(free_stack)
      /\ \A q \in Pages : InChain(q)' <=> q # free_stack /\ InChain(q)
  BY <1>1, PopEffect DEF IInv
<1>3. \A p \in Pages : Taken(p)' <=> Taken(p)
  BY <1>1, <1>2 DEF Taken
<1>4. \A p : Passed(p, i, addr)' <=> Passed(p, i, addr)
  BY <1>1 DEF Passed
<1>5. ~Booting' /\ owned' \subseteq Pages /\ \A p \in owned' : ~InChain(p)'
  BY <1>1, <1>2 DEF IInv, Booting
<1> QED BY <1>1, <1>2, <1>3, <1>4, <1>5, Zenon DEF IInv

LEMMA FreeStep == ASSUME NEW p \in owned PROVE IInv /\ pmm_free_page(p) => IInv'
<1> SUFFICES ASSUME IInv, pmm_free_page(p) PROVE IInv'
  OBVIOUS
<1>1. ~Booting /\ Push(p) /\ owned' = owned \ {p} /\ UNCHANGED <<e820, i, addr>>
  BY DEF pmm_free_page
<1>2. List' /\ p \in Pages /\ \A q \in Pages : InChain(q)' <=> q = p \/ InChain(q)
  BY <1>1, PushEffect DEF IInv
<1>3. \A q \in Pages : Taken(q)' <=> Taken(q)
  BY <1>1, <1>2 DEF Taken
<1>4. \A q : Passed(q, i, addr)' <=> Passed(q, i, addr)
  BY <1>1 DEF Passed
<1>5. ~Booting' /\ owned' \subseteq Pages /\ \A q \in owned' : ~InChain(q)'
  BY <1>1, <1>2 DEF IInv, Booting
<1> QED BY <1>1, <1>2, <1>3, <1>4, <1>5, Zenon DEF IInv

LEMMA WriteStep ==
  ASSUME NEW p \in owned, NEW w \in Words PROVE IInv /\ client_write(p, w) => IInv'
<1> SUFFICES ASSUME IInv, client_write(p, w) PROVE IInv'
  OBVIOUS
<1>1. /\ ~Booting /\ word' = [word EXCEPT ![p] = w] /\ p \in Pages /\ ~InChain(p)
      /\ UNCHANGED <<e820, i, addr, free_stack, owned, chain>>
  BY DEF client_write, IInv
<1>2. word \in [Pages -> Nat] /\ w \in Nat
  BY PmmAssumption DEF IInv, List
<1>3. word' \in [Pages -> Nat] /\ \A q \in Pages : q # p => word'[q] = word[q]
  BY <1>1, <1>2
<1>4. \A k \in 1 .. Len(chain) : chain[k] \in Pages /\ chain[k] # p
  BY <1>1 DEF InChain, IInv, List
<1>5. List'
  BY <1>1, <1>3, <1>4 DEF IInv, List, FreeListIntact
<1>6. \A q : InChain(q)' <=> InChain(q)
  BY <1>1 DEF InChain
<1>7. \A q : Taken(q)' <=> Taken(q)
  BY <1>1, <1>6 DEF Taken
<1>8. \A q : Passed(q, i, addr)' <=> Passed(q, i, addr)
  BY <1>1 DEF Passed
<1>9. ~Booting'
  BY <1>1 DEF Booting
<1> QED BY <1>1, <1>5, <1>6, <1>7, <1>8, <1>9, Zenon DEF IInv

LEMMA PmmInductive == Spec => []IInv
<1>1. Init => IInv
  <2> SUFFICES ASSUME Init PROVE IInv
    OBVIOUS
  <2>1. /\ e820 \in E820Maps /\ i = 1 /\ addr = -1 /\ free_stack = 0 /\ word \in [Pages -> Nat]
        /\ owned = {} /\ chain = <<>>
    BY Zenon, PmmAssumption DEF Init
  <2>2. List /\ \A p : ~InChain(p)
    BY <2>1 DEF List, FreeListIntact, InChain
  <2>3. \A p : ~Passed(p, i, addr)
    BY <2>1, MapFacts DEF Passed
  <2> QED BY <2>1, <2>2, <2>3 DEF IInv, Taken
<1>2. IInv /\ [Next]_vars => IInv'
  <2>1. IInv /\ UNCHANGED vars => IInv'
    BY DEF vars, IInv, List, FreeListIntact, InChain, Booting, Taken, Passed
  <2> QED BY <2>1, EntryStep, PageStep, AllocStep, FreeStep, WriteStep DEF Next
<1> QED BY <1>1, <1>2, PTL DEF Spec

-----------------------------------------------------------------------------
(* What it comes to.                                                       *)

\* The variables stay in their ranges.
THEOREM PmmTypes == Spec => []TypeOK
<1>1. IInv => TypeOK
  BY DEF IInv, List, TypeOK
<1> QED BY <1>1, PmmInductive, PTL

\* For every memory map and every sequence of allocations, frees and writes
\* by owners, the words in memory link exactly the free pages.
THEOREM FreeListCorrect == Spec => []FreeListIntact
<1>1. IInv => FreeListIntact
  BY DEF IInv, List
<1> QED BY <1>1, PmmInductive, PTL

\* pmm_alloc_page never hands out a page that somebody owns.
THEOREM NoDoubleAllocationCorrect == Spec => []NoDoubleAllocation
<1>1. IInv => NoDoubleAllocation
  BY DEF IInv, List, NoDoubleAllocation, InChain
<1> QED BY <1>1, PmmInductive, PTL

\* The pages in the list and with owners are exactly those that are usable,
\* whole, above LOW and behind the kernel.
THEOREM ExactlyUsableCorrect == Spec => []ExactlyUsable
<1>1. IInv => ExactlyUsable
  <2> SUFFICES ASSUME IInv PROVE ExactlyUsable
    OBVIOUS
  <2>1. ASSUME NEW p \in Pages
        PROVE  /\ Taken(p) => Usable(p)
               /\ ~Booting /\ Usable(p) => Taken(p)
    <3>1. p \in Nat
      BY PagesArePages
    <3>2. \A j \in 1 .. Len(e820) :
            InEntry(p, e820[j]) <=> \A b \in p .. p + PAGE_SIZE - 1 : b \in Bytes(e820[j])
      <4>1. \A j \in 1 .. Len(e820) : e820[j].base \in Nat /\ e820[j].len \in Nat
        BY MapFacts DEF IInv
      <4> QED BY Zenon, <3>1, <4>1, EntryBytes
    <3>3. Passed(p, i, addr) => \E j \in 1 .. Len(e820) : e820[j].type = 1 /\ InEntry(p, e820[j])
      BY DEF Passed
    <3>4. ~Booting => \A j \in 1 .. Len(e820) : j < i
      BY MapFacts DEF Booting, IInv
    <3>5. ~Booting /\ (\E j \in 1 .. Len(e820) : e820[j].type = 1 /\ InEntry(p, e820[j]))
            => Passed(p, i, addr)
      BY <3>4 DEF Passed
    <3> QED BY <3>2, <3>3, <3>5 DEF IInv, Usable
  <2>2. \A k \in 1 .. Len(chain) : chain[k] \in Pages /\ InChain(chain[k])
    BY DEF IInv, List, InChain
  <2>3. owned \subseteq Pages
    BY DEF IInv
  <2> QED BY <2>1, <2>2, <2>3 DEF ExactlyUsable, Taken, InChain
<1> QED BY <1>1, PmmInductive, PTL
=============================================================================

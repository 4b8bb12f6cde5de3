------------------------------ MODULE MCFrames ------------------------------
(* Three tasks, on the page of the kernel's stack and three free pages.    *)
EXTENDS Frames, TLC

Permutation == Permutations(Contexts)

\* What free pages, page 0 and the lower half of the kernel's stack page hold
\* makes no difference.
Relevant ==
  LET kept == {Low(p) : p \in Pages \ free} \cup {High(p) : p \in data} \cup {r}
  IN  <<[a \in kept |-> cells[a]], memory, tables, mode, masked, ret, left>>
=============================================================================

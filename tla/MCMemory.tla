------------------------------ MODULE MCMemory ------------------------------
(***************************************************************************)
(* Small programs for module Memory.  The machine, Frames in the .cfg, has *)
(* no usable page at an address where programs have memory, and none at    *)
(* the start of a large page.                                              *)
(***************************************************************************)
EXTENDS Memory

Seg(a, b, w) == [start |-> a, end |-> b, writable |-> w]

TextAndData == [bin_pages |-> 1, segs |-> <<Seg(LOAD, LOAD + 1, FALSE), Seg(LOAD + 1, LOAD + 2, TRUE)>>]

Programs == {TextAndData}
=============================================================================

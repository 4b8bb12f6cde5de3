----------------------------- MODULE MCServices -----------------------------
(***************************************************************************)
(* Two pieces of a file, and a line of up to two characters.               *)
(***************************************************************************)
EXTENDS Services

MCFile == <<"piece1", "piece2">>
=============================================================================

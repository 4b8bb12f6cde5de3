------------------------------- MODULE MCPmm --------------------------------
(* Memory maps for module Pmm: one or two entries, in either order, aligned *)
(* to pages or not, of usable memory or not.                                *)
EXTENDS Pmm

SmallEntry == [base : {0, 2, 3, 5}, len : {3, 4, 7}, type : {1, 2}]

SmallMaps ==
  {m \in {<<>>} \cup {<<e>> : e \in SmallEntry} \cup {<<e, f>> : e, f \in SmallEntry} :
     /\ \A k \in 1 .. Len(m) : m[k].type = 1 => Bytes(m[k]) \subseteq Memory
     /\ \A j, k \in 1 .. Len(m) :
          m[j].type = 1 /\ m[k].type = 1 /\ j # k => Bytes(m[j]) \cap Bytes(m[k]) = {}}

BigMap == <<[base |-> 0, len |-> 3, type |-> 1], [base |-> 3, len |-> 4, type |-> 2],
            [base |-> 7, len |-> 11, type |-> 1]>>

Maps == SmallMaps \cup {BigMap}
=============================================================================

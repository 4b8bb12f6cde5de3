------------------------------ MODULE MCFat32 -------------------------------
(***************************************************************************)
(* A disk of six clusters with a FAT of seven entries: the root at 2, the  *)
(* file A at 3 and 4, the directory D at 5 with the file X in it at 6; 7   *)
(* is free, and 8 is not on the disk.  In the one disk the first sector of *)
(* the root is full and the second has room, in the other the first has    *)
(* room for one name.                                                      *)
(***************************************************************************)
EXTENDS Fat32

Letters == [a |-> "A", b |-> "B", d |-> "D", x |-> "X"]

A == <<"a">>
B == <<"b", "b", "b", ".", "a", "b">>    \* cut to BB.A
D == <<"D">>
X == <<"d", "/", "x">>
Y == <<"b", "/", "x">>                    \* there is no directory B

Named(kind, path, cluster, size) ==
  [kind |-> kind, name |-> to_8_3(path), cluster |-> cluster, size |-> size]
Label == Named("label", <<"b">>, 0, 0)
Full(first) == [i \in 1 .. BPS |-> IF i <= Len(first) THEN first[i] ELSE Zero]
Piece(n) == [kind |-> "data", value |-> n]
Bytes(b) == [i \in 1 .. BPS |-> Piece(b)]

Disk(top, more) ==
  [fat |-> (2 :> EOC) @@ (3 :> 4) @@ (4 :> EOC) @@ (5 :> EOC) @@ (6 :> EOC)
           @@ [c \in 7 .. LAST |-> 0],
   sec |-> [c \in 2 .. LAST_DATA |-> [s \in 0 .. SPC - 1 |->
     CASE c = 2 -> Full(IF s = 0 THEN top ELSE more)
       [] c = 5 -> Full(IF s = 0 THEN <<[Zero EXCEPT !.kind = "dot"], [Zero EXCEPT !.kind = "dot"],
                                        Named("file", <<"x">>, 6, 1)>> ELSE <<>>)
       [] OTHER -> Bytes(10 * c + s)]],
   files |-> (Key(A) :> (Bytes(30) \o Bytes(31) \o <<Piece(40)>>)) @@ (Key(X) :> <<Piece(60)>>)
             @@ (Key(D) :> <<>>)]

MCDisks ==
  LET fileA == Named("file", A, 3, BPS * SPC + 1)
      dirD == Named("dir", D, 5, 0)
  IN  {Disk(<<fileA, Label, dirD>>, <<>>), Disk(<<fileA, dirD>>, <<>>)}

Request(op, path, data) == [op |-> op, path |-> path, data |-> data]
MCRequests ==
  {Request("read", p, <<>>) : p \in {A, B, X}} \cup
  {Request("spawn", p, <<>>) : p \in {A, X}} \cup
  {Request("write", A, d) : d \in {<<>>, <<Piece(1), Piece(2)>>}} \cup
  {Request("write", p, <<Piece(3)>>) : p \in {B, D, X, Y}} \cup
  {Request("delete", p, <<>>) : p \in {A, B, D, X, Y}} \cup
  {Request("mkdir", p, <<>>) : p \in {A, B, X, Y}} \cup
  {Request("malformed", <<>>, <<>>)}
=============================================================================

--------------------------- MODULE ServicesTexts ----------------------------
(***************************************************************************)
(* Which piece of an answer each message of a dialogue carries: what the   *)
(* sending, the arrival and the taking of a message leaves true of it.     *)
(***************************************************************************)
EXTENDS ServicesForms, TLAPS

(* Where the pieces of a text are: due, of which shown is the beginning.   *)

IsText(e) == e.from = "command" /\ e.type = 2

\* The texts among the messages of q are the pieces of d behind the first n, in
\* order; c counts them.
Counts(q, d, n, c) ==
  /\ c \in [0 .. Len(q) -> Nat] /\ c[0] = n
  /\ \A i \in 1 .. Len(q) :
       IF IsText(q[i]) THEN c[i] = c[i - 1] + 1 /\ q[i].text = d[c[i]] ELSE c[i] = c[i - 1]
\* The last of them up to message k is piece z.
Holds(q, d, n, k, z) == k \in 0 .. Len(q) /\ \E c : Counts(q, d, n, c) /\ c[k] = z

Shows(sh, d) == IsSeq(sh) /\ IsSeq(d) /\ \A i \in 1 .. Len(sh) : sh[i] = d[i]

\* What is still to come of d, with q in the mailbox of the shell: s from the
\* command server, and its end.
AnswerOwed(q, sh, d, s) ==
  /\ Shows(sh, d)
  /\ \E z \in Nat : /\ Holds(q, d, Len(sh), Len(q), z)
                    /\ Len(d) = z + Len(s) - 1 /\ Says(s, Len(s) - 1, d, z)
EndOwed(q, sh, d, end) ==
  /\ Shows(sh, d)
  /\ \E k \in 1 .. Len(q) : EndAt(q, k, end) /\ Holds(q, d, Len(sh), k, Len(d))

\* A response to op, s of it delivered and t not, and what becomes of its end.
ResponseSays(s, t, op, d, y) ==
  /\ \A i \in 1 .. Len(s) : IF s[i].type = 100 THEN s[i].text = d[y + i]
                            ELSE Closes(d, y + i - 1, Final(op, s[i].type))
  /\ \A i \in 1 .. Len(t) : IF t[i].type = 100 THEN t[i].text = d[y + Len(s) + i]
                            ELSE Closes(d, y + Len(s) + i - 1, Final(op, t[i].type))
ResponseOwed(q, sh, d, u, s, t, op) ==
  /\ Shows(sh, d)
  /\ \E z \in Nat : /\ Holds(q, d, Len(sh), Len(q), z)
                    /\ Says(u, Len(u), d, z) /\ ResponseSays(s, t, op, d, z + Len(u))

LEMMA HoldsLonger ==
  ASSUME NEW s, NEW t, NEW e, Longer(s, t, e), NEW d, NEW n, NEW k, NEW z, Holds(s, d, n, k, z)
  PROVE  /\ ~IsText(e) => Holds(t, d, n, k, z) /\ (k = Len(s) => Holds(t, d, n, Len(t), z))
         /\ k = Len(s) /\ IsText(e) /\ e.text = d[z + 1] => Holds(t, d, n, Len(t), z + 1)
<1>1. PICK c : Counts(s, d, n, c) /\ c[k] = z
  BY DEF Holds
<1>2. Len(s) \in Nat /\ k \in 0 .. Len(s) /\ c \in [0 .. Len(s) -> Nat]
  BY <1>1 DEF Holds, Longer, Counts
<1> DEFINE x == c[Len(s)] + (IF IsText(e) THEN 1 ELSE 0)
           c2 == [i \in 0 .. Len(s) + 1 |-> IF i <= Len(s) THEN c[i] ELSE x]
<1>3. /\ x \in Nat /\ c2 \in [0 .. Len(t) -> Nat] /\ c2[Len(t)] = x
      /\ \A i \in 0 .. Len(s) : c2[i] = c[i]
  BY <1>2 DEF Longer
<1>4. x = c[Len(s)] + (IF IsText(e) THEN 1 ELSE 0)
  OBVIOUS
<1> HIDE DEF x, c2
<1>5. ASSUME IsText(e) => e.text = d[c[Len(s)] + 1] PROVE Counts(t, d, n, c2)
  <2>1. c2[0] = n
    BY <1>1, <1>2, <1>3 DEF Counts
  <2>2. ASSUME NEW i \in 1 .. Len(t)
        PROVE  IF IsText(t[i]) THEN c2[i] = c2[i - 1] + 1 /\ t[i].text = d[c2[i]] ELSE c2[i] = c2[i - 1]
    <3>1. CASE i <= Len(s)
      <4>1. i \in 1 .. Len(s) /\ t[i] = s[i] /\ c2[i] = c[i] /\ c2[i - 1] = c[i - 1]
        BY <1>2, <1>3, <3>1 DEF Longer
      <4> QED
        BY <1>1, <4>1 DEF Counts
    <3>2. CASE i = Len(s) + 1
      <4>1. t[i] = e /\ c2[i] = x /\ c2[i - 1] = c[Len(s)]
        BY <1>2, <1>3, <3>2 DEF Longer
      <4>2. CASE IsText(e)
        BY <1>2, <1>4, <1>5, <4>1, <4>2
      <4>3. CASE ~IsText(e)
        BY <1>2, <1>4, <4>1, <4>3
      <4> QED
        BY <4>2, <4>3
    <3> QED
      BY <1>2, <3>1, <3>2 DEF Longer
  <2> QED
    BY <1>3, <2>1, <2>2 DEF Counts
<1>6. k \in 0 .. Len(t) /\ Len(t) \in 0 .. Len(t) /\ c2[k] = z
  BY <1>1, <1>2, <1>3 DEF Longer
<1>7. ASSUME ~IsText(e) PROVE Holds(t, d, n, k, z) /\ (k = Len(s) => Holds(t, d, n, Len(t), z))
  <2>1. Counts(t, d, n, c2)
    BY <1>5, <1>7
  <2>2. k = Len(s) => c2[Len(t)] = z
    BY <1>1, <1>2, <1>3, <1>4, <1>7
  <2> QED
    BY <1>6, <2>1, <2>2 DEF Holds
<1>8. ASSUME k = Len(s), IsText(e), e.text = d[z + 1] PROVE Holds(t, d, n, Len(t), z + 1)
  <2>1. Counts(t, d, n, c2)
    BY <1>1, <1>5, <1>8
  <2>2. c2[Len(t)] = z + 1
    BY <1>1, <1>3, <1>4, <1>8
  <2> QED
    BY <1>6, <2>1, <2>2 DEF Holds
<1> QED
  BY <1>7, <1>8

LEMMA HoldsShorter ==
  ASSUME NEW s, NEW t, NEW e, Shorter(s, t, e), NEW d, NEW n, NEW k, k # 0, NEW z, Holds(s, d, n, k, z)
  PROVE  /\ n \in Nat /\ k - 1 \in 0 .. Len(t)
         /\ ~IsText(e) => Holds(t, d, n, k - 1, z)
         /\ IsText(e) => e.text = d[n + 1] /\ Holds(t, d, n + 1, k - 1, z)
<1>1. PICK c : Counts(s, d, n, c) /\ c[k] = z
  BY DEF Holds
<1>2. Len(s) \in Nat \ {0} /\ k \in 1 .. Len(s) /\ c \in [0 .. Len(s) -> Nat] /\ c[0] = n /\ n \in Nat
  BY <1>1 DEF Holds, Shorter, Counts
<1> DEFINE c2 == [i \in 0 .. Len(s) - 1 |-> c[i + 1]]
<1>3. c2 \in [0 .. Len(t) -> Nat] /\ \A i \in 0 .. Len(t) : c2[i] = c[i + 1]
  BY <1>2 DEF Shorter
<1>4. k - 1 \in 0 .. Len(t) /\ c2[k - 1] = z
  BY <1>1, <1>2, <1>3 DEF Shorter
<1> HIDE DEF c2
<1>5. Counts(t, d, c[1], c2)
  <2>1. c2[0] = c[1]
    BY <1>2, <1>3 DEF Shorter
  <2>2. ASSUME NEW i \in 1 .. Len(t)
        PROVE  IF IsText(t[i]) THEN c2[i] = c2[i - 1] + 1 /\ t[i].text = d[c2[i]] ELSE c2[i] = c2[i - 1]
    <3>1. i + 1 \in 1 .. Len(s) /\ t[i] = s[i + 1] /\ c2[i] = c[i + 1] /\ c2[i - 1] = c[i + 1 - 1]
      BY <1>2, <1>3 DEF Shorter
    <3> QED
      BY <1>1, <3>1 DEF Counts
  <2> QED
    BY <1>3, <2>1, <2>2 DEF Counts
<1>6. IF IsText(e) THEN c[1] = n + 1 /\ e.text = d[n + 1] ELSE c[1] = n
  <2>1. 1 \in 1 .. Len(s) /\ s[1] = e /\ c[1 - 1] = n
    BY <1>2 DEF Shorter
  <2> QED
    BY <1>1, <2>1 DEF Counts
<1> QED
  BY <1>1, <1>2, <1>4, <1>5, <1>6 DEF Holds

\* Keys come and go.
LEMMA KeyOwed ==
  ASSUME NEW s, NEW t, NEW e, e.from # "command", Longer(s, t, e) \/ Shorter(s, t, e), NEW sh, NEW d
  PROVE  /\ \A u : AnswerOwed(s, sh, d, u) => AnswerOwed(t, sh, d, u)
         /\ \A end : EndOwed(s, sh, d, end) => EndOwed(t, sh, d, end)
         /\ \A u, v, w, op : ResponseOwed(s, sh, d, u, v, w, op) => ResponseOwed(t, sh, d, u, v, w, op)
<1>1. ~IsText(e)
  BY DEF IsText
<1>2. ASSUME NEW z, Holds(s, d, Len(sh), Len(s), z) PROVE Holds(t, d, Len(sh), Len(t), z)
  <2>1. CASE Longer(s, t, e)
    BY <1>1, <1>2, <2>1, HoldsLonger
  <2>2. CASE Shorter(s, t, e)
    <3>1. Len(s) # 0 /\ Len(t) = Len(s) - 1
      BY <2>2 DEF Shorter
    <3>2. Holds(t, d, Len(sh), Len(s) - 1, z)
      BY <1>1, <1>2, <2>2, <3>1, HoldsShorter
    <3> QED
      BY <3>1, <3>2
  <2> QED
    BY <2>1, <2>2
<1>3. ASSUME NEW end, EndOwed(s, sh, d, end) PROVE EndOwed(t, sh, d, end)
  <2>1. PICK k \in 1 .. Len(s) : EndAt(s, k, end) /\ Holds(s, d, Len(sh), k, Len(d))
    BY <1>3 DEF EndOwed
  <2>2. CASE Longer(s, t, e)
    <3>1. k \in 1 .. Len(t) /\ t[k] = s[k]
      BY <2>1, <2>2 DEF Longer
    <3>2. EndAt(t, k, end)
      BY <2>1, <2>2, <3>1 DEF Longer, EndAt
    <3>3. Holds(t, d, Len(sh), k, Len(d))
      BY <1>1, <2>1, <2>2, HoldsLonger
    <3> QED
      BY <1>3, <3>1, <3>2, <3>3 DEF EndOwed
  <2>3. CASE Shorter(s, t, e)
    <3>1. k # 1 /\ k # 0
      BY <2>1, <2>3 DEF Shorter, EndAt
    <3>2. k - 1 \in 1 .. Len(t) /\ t[k - 1] = s[k]
      BY <2>1, <2>3, <3>1 DEF Shorter
    <3>3. EndAt(t, k - 1, end)
      BY <2>1, <2>3, <3>1, <3>2, SMTT(30) DEF Shorter, EndAt
    <3>4. Holds(t, d, Len(sh), k - 1, Len(d))
      BY <1>1, <2>1, <2>3, <3>1, HoldsShorter
    <3> QED
      BY <1>3, <3>2, <3>3, <3>4 DEF EndOwed
  <2> QED
    BY <2>2, <2>3
<1> QED
  BY <1>2, <1>3, Zenon DEF AnswerOwed, ResponseOwed

\* The command server sends e.
LEMMA SentOwed ==
  ASSUME NEW q, NEW q2, NEW e, Longer(q, q2, e), e.from = "command", TextOnly(q),
         NEW u, NEW u2, NEW m, Shorter(u, u2, m), e.type = m.type, e.text = m.text, NEW sh, NEW d
  PROVE  /\ \A s, t, op : e.type = 2 /\ ResponseOwed(q, sh, d, u, s, t, op) => ResponseOwed(q2, sh, d, u2, s, t, op)
         /\ e.type = 2 /\ Len(u2) # 0 /\ AnswerOwed(q, sh, d, u) => AnswerOwed(q2, sh, d, u2)
         /\ \A end : e.type = end /\ end # 2 /\ Len(u2) = 0 /\ AnswerOwed(q, sh, d, u) => EndOwed(q2, sh, d, end)
<1>0. Len(u) \in Nat \ {0} /\ Len(u2) = Len(u) - 1 /\ u[1] = m /\ Len(u2) \in Nat
  BY DEF Shorter
<1>1. ASSUME NEW z \in Nat, NEW n, n <= Len(u), n \in Nat \ {0}, Says(u, n, d, z)
      PROVE  m.text = d[z + 1] /\ Says(u2, n - 1, d, z + 1)
  <2>1. m.text = d[z + 1]
    BY <1>0, <1>1 DEF Says
  <2>2. ASSUME NEW i \in 1 .. n - 1 PROVE u2[i].text = d[z + 1 + i]
    <3>1. i + 1 \in 1 .. n /\ u2[i] = u[i + 1] /\ z + (i + 1) = z + 1 + i
      BY <1>0, <1>1 DEF Shorter
    <3> QED
      BY <1>1, <3>1 DEF Says
  <2> QED
    BY <2>1, <2>2 DEF Says
<1>2. ASSUME e.type = 2, NEW z, Holds(q, d, Len(sh), Len(q), z), m.text = d[z + 1]
      PROVE  Holds(q2, d, Len(sh), Len(q2), z + 1)
  BY <1>2, HoldsLonger DEF IsText
<1>3. ASSUME NEW s, NEW t, NEW op, e.type = 2, ResponseOwed(q, sh, d, u, s, t, op)
      PROVE  ResponseOwed(q2, sh, d, u2, s, t, op)
  <2>1. PICK z \in Nat : /\ Holds(q, d, Len(sh), Len(q), z) /\ Says(u, Len(u), d, z)
                         /\ ResponseSays(s, t, op, d, z + Len(u))
    BY <1>3 DEF ResponseOwed
  <2>2. m.text = d[z + 1] /\ Says(u2, Len(u2), d, z + 1)
    BY <1>0, <1>1, <2>1
  <2>3. Holds(q2, d, Len(sh), Len(q2), z + 1)
    BY <1>2, <1>3, <2>1, <2>2
  <2>4. z + 1 \in Nat /\ z + 1 + Len(u2) = z + Len(u)
    BY <1>0, <2>1
  <2>5. ResponseSays(s, t, op, d, z + 1 + Len(u2))
    BY <2>1, <2>4
  <2> QED
    BY <1>3, <2>2, <2>3, <2>4, <2>5 DEF ResponseOwed
<1>4. ASSUME AnswerOwed(q, sh, d, u)
      PROVE  /\ e.type = 2 /\ Len(u2) # 0 => AnswerOwed(q2, sh, d, u2)
             /\ \A end : e.type = end /\ end # 2 /\ Len(u2) = 0 => EndOwed(q2, sh, d, end)
  <2>1. PICK z \in Nat : /\ Holds(q, d, Len(sh), Len(q), z)
                         /\ Len(d) = z + Len(u) - 1 /\ Says(u, Len(u) - 1, d, z)
    BY <1>4 DEF AnswerOwed
  <2>2. ASSUME e.type = 2, Len(u2) # 0 PROVE AnswerOwed(q2, sh, d, u2)
    <3>0. Len(u) - 1 \in Nat \ {0} /\ Len(u) - 1 <= Len(u)
      BY <1>0, <2>2
    <3>1. m.text = d[z + 1] /\ Says(u2, Len(u2) - 1, d, z + 1)
      BY <1>0, <1>1, <2>1, <3>0
    <3>2. Holds(q2, d, Len(sh), Len(q2), z + 1)
      BY <1>2, <2>1, <2>2, <3>1
    <3>3. z + 1 \in Nat /\ Len(d) = z + 1 + Len(u2) - 1
      BY <1>0, <2>1
    <3> QED
      BY <1>4, <3>1, <3>2, <3>3 DEF AnswerOwed
  <2>3. ASSUME NEW end, e.type = end, end # 2, Len(u2) = 0 PROVE EndOwed(q2, sh, d, end)
    <3>1. ~IsText(e)
      BY <2>3 DEF IsText
    <3>5. Holds(q2, d, Len(sh), Len(q2), z)
      BY <2>1, <3>1, HoldsLonger
    <3>6. Len(u) = 1 /\ z + 1 - 1 = z
      BY <1>0, <2>1, <2>3
    <3>2. Holds(q2, d, Len(sh), Len(q2), z) /\ Len(d) = z
      BY <2>1, <3>5, <3>6
    <3>3. Len(q2) \in 1 .. Len(q2)
      BY DEF Longer
    <3>4. EndAt(q2, Len(q2), end)
      BY <2>3 DEF Longer, TextOnly, EndAt
    <3> QED
      BY <1>4, <3>2, <3>3, <3>4 DEF EndOwed, AnswerOwed
  <2> QED
    BY <2>2, <2>3
<1> QED
  BY <1>3, <1>4

\* The file server sends e.
LEMMA PieceSent ==
  ASSUME NEW s, NEW s2, NEW e, Longer(s, s2, e), NEW t, NEW t2, NEW m, Shorter(t, t2, m),
         e.type = m.type, e.text = m.text, NEW op, NEW d, NEW y \in Nat, ResponseSays(s, t, op, d, y)
  PROVE  ResponseSays(s2, t2, op, d, y)
<1>0. Len(s) \in Nat /\ Len(t) \in Nat \ {0} /\ Len(s2) = Len(s) + 1 /\ Len(t2) = Len(t) - 1
  BY DEF Longer, Shorter
<1>1. ASSUME NEW i \in 1 .. Len(s2)
      PROVE  IF s2[i].type = 100 THEN s2[i].text = d[y + i] ELSE Closes(d, y + i - 1, Final(op, s2[i].type))
  <2>1. CASE i \in 1 .. Len(s)
    <3>1. s2[i] = s[i]
      BY <2>1 DEF Longer
    <3> QED
      BY <2>1, <3>1 DEF ResponseSays
  <2>2. CASE i = Len(s) + 1
    <3>1. s2[i] = e /\ t[1] = m /\ 1 \in 1 .. Len(t) /\ y + i = y + Len(s) + 1
      BY <1>0, <2>2 DEF Longer, Shorter
    <3> QED
      BY <3>1 DEF ResponseSays
  <2> QED
    BY <1>0, <2>1, <2>2
<1>2. ASSUME NEW i \in 1 .. Len(t2)
      PROVE  IF t2[i].type = 100 THEN t2[i].text = d[y + Len(s2) + i]
             ELSE Closes(d, y + Len(s2) + i - 1, Final(op, t2[i].type))
  <2>1. i + 1 \in 1 .. Len(t) /\ t2[i] = t[i + 1]
    BY <1>0 DEF Shorter
  <2>2. y + Len(s2) + i = y + Len(s) + (i + 1)
    BY <1>0
  <2>3. IF t[i + 1].type = 100 THEN t[i + 1].text = d[y + Len(s) + (i + 1)]
        ELSE Closes(d, y + Len(s) + (i + 1) - 1, Final(op, t[i + 1].type))
    BY <2>1 DEF ResponseSays
  <2> QED
    BY <2>1, <2>2, <2>3
<1> QED
  BY <1>1, <1>2 DEF ResponseSays

\* The command server takes e.
LEMMA PieceTaken ==
  ASSUME NEW s, NEW s2, NEW e, Shorter(s, s2, e), NEW t, Len(t) \in Nat,
         NEW op, NEW d, NEW y \in Nat, ResponseSays(s, t, op, d, y)
  PROVE  IF e.type = 100 THEN e.text = d[y + 1] /\ ResponseSays(s2, t, op, d, y + 1)
         ELSE Closes(d, y, Final(op, e.type))
<1>0. Len(s) \in Nat \ {0} /\ Len(s2) = Len(s) - 1 /\ s[1] = e /\ 1 \in 1 .. Len(s) /\ y + 1 - 1 = y
  BY DEF Shorter
<1>1. IF e.type = 100 THEN e.text = d[y + 1] ELSE Closes(d, y, Final(op, e.type))
  BY <1>0 DEF ResponseSays
<1>2. ASSUME NEW i \in 1 .. Len(s2)
      PROVE  IF s2[i].type = 100 THEN s2[i].text = d[y + 1 + i]
             ELSE Closes(d, y + 1 + i - 1, Final(op, s2[i].type))
  <2>1. i + 1 \in 1 .. Len(s) /\ s2[i] = s[i + 1] /\ y + 1 + i = y + (i + 1)
    BY <1>0 DEF Shorter
  <2> QED
    BY <2>1 DEF ResponseSays
<1>3. ASSUME NEW i \in 1 .. Len(t)
      PROVE  IF t[i].type = 100 THEN t[i].text = d[y + 1 + Len(s2) + i]
             ELSE Closes(d, y + 1 + Len(s2) + i - 1, Final(op, t[i].type))
  <2>1. y + 1 + Len(s2) + i = y + Len(s) + i
    BY <1>0
  <2> QED
    BY <2>1 DEF ResponseSays
<1> QED
  BY <1>1, <1>2, <1>3 DEF ResponseSays

LEMMA SameSeq ==
  ASSUME NEW s, IsSeq(s), NEW t, IsSeq(t), Len(t) = Len(s), \A i \in 1 .. Len(s) : s[i] = t[i]
  PROVE  s = t
<1>1. PICK S : s \in Seq(S)
  BY DEF IsSeq
<1>2. PICK T : t \in Seq(T)
  BY DEF IsSeq
<1>3. s \in Seq(S \cup T) /\ t \in Seq(S \cup T)
  BY <1>1, <1>2
<1>4. ASSUME NEW U, NEW v \in Seq(U), NEW w \in Seq(U), Len(v) = Len(w), \A i \in 1 .. Len(v) : v[i] = w[i]
      PROVE  v = w
  BY <1>4
<1> QED
  BY <1>3, <1>4

\* The shell takes e of the command server.
LEMMA TakenOwed ==
  ASSUME NEW q, NEW q2, NEW e, e.from = "command", Shorter(q, q2, e), NEW sh, NEW d
  PROVE  e.type = 2 => LET sh2 == Append(sh, e.text) IN
           /\ \A u : AnswerOwed(q, sh, d, u) => AnswerOwed(q2, sh2, d, u)
           /\ \A end : end # 2 /\ EndOwed(q, sh, d, end) => EndOwed(q2, sh2, d, end)
           /\ \A u, v, w, op : ResponseOwed(q, sh, d, u, v, w, op) => ResponseOwed(q2, sh2, d, u, v, w, op)
<1> DEFINE sh2 == Append(sh, e.text)
<1>0. Len(q) \in Nat \ {0} /\ Len(q2) = Len(q) - 1 /\ q[1] = e
  BY DEF Shorter
<1>1. ASSUME IsSeq(sh)
      PROVE  /\ IsSeq(sh2) /\ Len(sh) \in Nat /\ Len(sh2) = Len(sh) + 1 /\ sh2[Len(sh) + 1] = e.text
             /\ \A i \in 1 .. Len(sh) : sh2[i] = sh[i]
  <2>1. PICK S : sh \in Seq(S)
    BY <1>1 DEF IsSeq
  <2>2. sh \in Seq(S \cup {e.text})
    BY <2>1
  <2>3. sh2 \in Seq(S \cup {e.text})
    BY <2>2
  <2> QED
    BY <2>2, <2>3 DEF IsSeq
<1> HIDE DEF sh2
<1>2. ASSUME e.type = 2, Shows(sh, d), NEW k, k # 0, NEW z, Holds(q, d, Len(sh), k, z)
      PROVE  Shows(sh2, d) /\ Holds(q2, d, Len(sh2), k - 1, z)
  <2>1. e.text = d[Len(sh) + 1] /\ Holds(q2, d, Len(sh) + 1, k - 1, z)
    <3>1. IsText(e)
      BY <1>2 DEF IsText
    <3> QED
      BY <1>2, <3>1, HoldsShorter
  <2>2. Shows(sh2, d)
    BY <1>1, <1>2, <2>1 DEF Shows
  <2> QED
    BY <1>1, <1>2, <2>1, <2>2 DEF Shows
<1>3. ASSUME e.type = 2, Shows(sh, d), NEW z, Holds(q, d, Len(sh), Len(q), z)
      PROVE  Shows(sh2, d) /\ Holds(q2, d, Len(sh2), Len(q2), z)
  <2>1. Shows(sh2, d) /\ Holds(q2, d, Len(sh2), Len(q) - 1, z)
    BY <1>0, <1>2, <1>3
  <2> QED
    BY <1>0, <2>1
<1>4. ASSUME NEW end, end # 2, EndOwed(q, sh, d, end)
      PROVE  e.type = 2 => EndOwed(q2, sh2, d, end)
  <2>1. PICK k \in 1 .. Len(q) : EndAt(q, k, end) /\ Holds(q, d, Len(sh), k, Len(d))
    BY <1>4 DEF EndOwed
  <2>2. Shows(sh, d) /\ k # 0
    BY <1>4, <2>1 DEF EndOwed
  <2>3. ASSUME e.type = 2 PROVE EndOwed(q2, sh2, d, end)
    <3>1. k # 1
      BY <1>0, <1>4, <2>1, <2>3 DEF EndAt
    <3>2. k - 1 \in 1 .. Len(q2) /\ q2[k - 1] = q[k]
      BY <2>1, <3>1 DEF Shorter
    <3>3. EndAt(q2, k - 1, end)
      BY <2>1, <3>1, <3>2, SMTT(30) DEF Shorter, EndAt
    <3>4. Shows(sh2, d) /\ Holds(q2, d, Len(sh2), k - 1, Len(d))
      BY <1>2, <2>1, <2>2, <2>3
    <3> QED
      BY <3>2, <3>3, <3>4 DEF EndOwed
  <2> QED
    BY <2>3
<1> QED
  BY <1>3, <1>4, Zenon DEF AnswerOwed, ResponseOwed, sh2

\* Once the message that ends the answer is the next one, everything is shown.
LEMMA AllTaken ==
  ASSUME NEW q, NEW q2, NEW e, e.from = "command", Shorter(q, q2, e), e.type # 2, NEW sh, NEW d,
         NEW end, end # 2, EndOwed(q, sh, d, end)
  PROVE  sh = d
<1>0. Len(q) \in Nat \ {0} /\ q[1] = e
  BY DEF Shorter
<1>1. PICK k \in 1 .. Len(q) : EndAt(q, k, end) /\ Holds(q, d, Len(sh), k, Len(d))
  BY DEF EndOwed
<1>2. k = 1
  BY <1>0, <1>1 DEF EndAt
<1>3. Len(d) = Len(sh)
  <2>1. PICK c : Counts(q, d, Len(sh), c) /\ c[1] = Len(d)
    BY <1>1, <1>2 DEF Holds
  <2>2. 1 \in 1 .. Len(q) /\ 1 - 1 = 0 /\ ~IsText(e)
    BY <1>0 DEF IsText
  <2>3. c[1] = c[0] /\ c[0] = Len(sh)
    BY <1>0, <2>1, <2>2 DEF Counts
  <2> QED
    BY <2>1, <2>3
<1> QED
  BY <1>3, SameSeq DEF Shows, EndOwed

\* Nothing of an answer is in the mailbox of the shell when it begins.
LEMMA KeysHold ==
  ASSUME NEW q, Len(q) \in Nat, KeysOnly(q), NEW d, IsSeq(d)
  PROVE  /\ Len(<<>>) = 0 /\ Shows(<<>>, d) /\ Holds(q, d, 0, Len(q), 0)
<1> DEFINE c == [i \in 0 .. Len(q) |-> 0]
           e == <<>>
<1>1. Counts(q, d, 0, c) /\ c[Len(q)] = 0
  BY DEF Counts, KeysOnly, IsText
<1>2. IsSeq(e) /\ Len(e) = 0
  BY DEF IsSeq
<1> HIDE DEF c, e
<1>3. Shows(e, d)
  BY <1>2 DEF Shows
<1> QED
  BY <1>1, <1>2, <1>3 DEF Holds, e

LEMMA AnswerStarts ==
  ASSUME NEW q, Len(q) \in Nat, KeysOnly(q), NEW d, NEW s, AnswerSays(s, d)
  PROVE  AnswerOwed(q, <<>>, d, s)
<1>1. Len(d) \in Nat /\ IsSeq(d)
  BY DEF AnswerSays, IsSeq
<1> DEFINE e == <<>>
<1>2. Len(e) = 0 /\ Shows(e, d) /\ Holds(q, d, 0, Len(q), 0)
  BY <1>1, KeysHold
<1> HIDE DEF e
<1>3. Len(d) = 0 + Len(s) - 1 /\ Len(s) - 1 = Len(d)
  BY <1>1 DEF AnswerSays
<1>4. Says(s, Len(s) - 1, d, 0)
  BY <1>3 DEF AnswerSays
<1>5. AnswerOwed(q, e, d, s)
  BY <1>2, <1>3, <1>4 DEF AnswerOwed
<1> QED
  BY <1>5 DEF e

LEMMA ResponseStarts ==
  ASSUME NEW q, Len(q) \in Nat, KeysOnly(q), NEW d, IsSeq(d), NEW s, NEW n \in Nat, Reply(s, n),
         Says(s, n, d, 0), NEW op, Closes(d, n, Final(op, s[n + 1].type))
  PROVE  ResponseOwed(q, <<>>, d, <<>>, <<>>, s, op)
<1> DEFINE e == <<>>
<1>1. Len(e) = 0 /\ Shows(e, d) /\ Holds(q, d, 0, Len(q), 0)
  BY KeysHold
<1> HIDE DEF e
<1>2. Says(e, Len(e), d, 0)
  BY <1>1 DEF Says
<1>3. ASSUME NEW i \in 1 .. Len(s)
      PROVE  IF s[i].type = 100 THEN s[i].text = d[0 + i] ELSE Closes(d, i - 1, Final(op, s[i].type))
  <2>1. Len(s) = n + 1 /\ (s[i].type = 100 <=> i < n + 1)
    BY DEF Reply
  <2>2. CASE i <= n
    <3>1. i \in 1 .. n /\ i < n + 1
      BY <1>3, <2>2
    <3> QED
      BY <2>1, <3>1 DEF Says
  <2>3. CASE i = n + 1
    BY <2>1, <2>3
  <2> QED
    BY <2>1, <2>2, <2>3
<1>4. ResponseSays(e, s, op, d, 0)
  <2>1. \A i \in 1 .. Len(s) : 0 + Len(e) + i = 0 + i /\ 0 + Len(e) + i - 1 = i - 1
    BY <1>1
  <2>2. \A i \in 1 .. Len(s) : IF s[i].type = 100 THEN s[i].text = d[0 + Len(e) + i]
                               ELSE Closes(d, 0 + Len(e) + i - 1, Final(op, s[i].type))
    BY <1>3, <2>1
  <2> QED
    BY <1>1, <2>2 DEF ResponseSays
<1>5. ResponseOwed(q, e, d, e, e, s, op)
  <2>1. ResponseSays(e, s, op, d, 0 + Len(e))
    BY <1>1, <1>4
  <2> QED
    BY <1>1, <1>2, <2>1 DEF ResponseOwed
<1> QED
  BY <1>5 DEF e

\* The command server takes a piece and passes it on.
LEMMA ResponsePiece ==
  ASSUME NEW q, NEW sh, NEW d, NEW u, Len(u) = 0, NEW s, NEW s2, NEW e, Shorter(s, s2, e), NEW t, Len(t) \in Nat,
         NEW op, ResponseOwed(q, sh, d, u, s, t, op), e.type = 100, NEW u2, Len(u2) = 1, u2[1].text = e.text
  PROVE  ResponseOwed(q, sh, d, u2, s2, t, op)
<1>1. PICK z \in Nat : Holds(q, d, Len(sh), Len(q), z) /\ ResponseSays(s, t, op, d, z + Len(u))
  BY DEF ResponseOwed
<1>2. z + Len(u) = z /\ z + Len(u2) = z + 1
  BY <1>1
<1>3. e.text = d[z + 1] /\ ResponseSays(s2, t, op, d, z + 1)
  BY <1>1, <1>2, PieceTaken
<1>4. Says(u2, Len(u2), d, z)
  BY <1>3 DEF Says
<1> QED
  BY <1>1, <1>2, <1>3, <1>4 DEF ResponseOwed

\* The command server takes the end of the response and ends the answer.
LEMMA ResponseEnds ==
  ASSUME NEW q, NEW sh, NEW d, NEW u, Len(u) = 0, NEW s, NEW s2, NEW e, Shorter(s, s2, e), NEW t, Len(t) \in Nat,
         NEW op, ResponseOwed(q, sh, d, u, s, t, op), e.type # 100, NEW u2, AnswerSays(u2, Final(op, e.type))
  PROVE  AnswerOwed(q, sh, d, u2)
<1> DEFINE f == Final(op, e.type)
<1>1. PICK z \in Nat : Holds(q, d, Len(sh), Len(q), z) /\ ResponseSays(s, t, op, d, z + Len(u))
  BY DEF ResponseOwed
<1>2. z + Len(u) = z
  BY <1>1
<1>3. Closes(d, z, f)
  BY <1>1, <1>2, PieceTaken
<1>4. AnswerSays(u2, f)
  OBVIOUS
<1> HIDE DEF f
<1>5. Len(f) \in Nat /\ Len(u2) = Len(f) + 1 /\ Len(u2) - 1 = Len(f)
  BY <1>4 DEF AnswerSays, IsSeq
<1>6. Len(d) = z + Len(u2) - 1
  BY <1>1, <1>3, <1>5 DEF Closes
<1>7. Says(u2, Len(u2) - 1, d, z)
  <2>1. \A i \in 1 .. Len(f) : u2[i].text = f[0 + i] /\ d[z + i] = f[i] /\ 0 + i = i
    BY <1>3, <1>4, <1>5 DEF AnswerSays, Says, Closes
  <2> QED
    BY <1>5, <2>1 DEF Says
<1> QED
  BY <1>1, <1>6, <1>7 DEF AnswerOwed, ResponseOwed
=============================================================================

--------------------------- MODULE ServicesSteps ----------------------------
(***************************************************************************)
(* What each step of Services does: which message is taken, where the      *)
(* program goes on, what it will send and what it is to say.               *)
(* The types follow; what the steps mean to a dialogue is in               *)
(* ServicesProofs.                                                         *)
(***************************************************************************)
EXTENDS Services, ServicesForms, TLAPS

LEMMA EmptyFacts == IsSeq(<<>>) /\ Len(<<>>) = 0
BY DEF IsSeq

LEMMA LenFacts ==
  ASSUME NEW s, IsSeq(s)
  PROVE  Len(s) \in Nat /\ (s = <<>> <=> Len(s) = 0)
<1>1. PICK S : s \in Seq(S)
  BY DEF IsSeq
<1> QED
  BY <1>1

LEMMA TailFacts ==
  ASSUME NEW s, IsSeq(s), s # <<>>
  PROVE  /\ IsSeq(Tail(s)) /\ Len(s) \in Nat \ {0} /\ Len(Tail(s)) = Len(s) - 1
         /\ Head(s) = s[1]
         /\ \A i \in 1 .. Len(s) - 1 : Tail(s)[i] = s[i + 1]
<1>1. PICK S : s \in Seq(S)
  BY DEF IsSeq
<1>2. Tail(s) \in Seq(S)
  BY <1>1
<1> QED
  BY <1>1, <1>2 DEF IsSeq

LEMMA AppendFacts ==
  ASSUME NEW s, IsSeq(s), NEW e
  PROVE  /\ IsSeq(Append(s, e)) /\ Len(s) \in Nat /\ Len(Append(s, e)) = Len(s) + 1
         /\ Append(s, e)[Len(s) + 1] = e
         /\ \A i \in 1 .. Len(s) : Append(s, e)[i] = s[i]
<1>1. PICK S : s \in Seq(S)
  BY DEF IsSeq
<1>2. s \in Seq(S \cup {e})
  BY <1>1
<1>3. Append(s, e) \in Seq(S \cup {e})
  BY <1>2
<1> QED
  BY <1>2, <1>3 DEF IsSeq

LEMMA ConcatFacts ==
  ASSUME NEW s, IsSeq(s), NEW t, IsSeq(t)
  PROVE  /\ IsSeq(s \o t) /\ Len(s) \in Nat /\ Len(t) \in Nat
         /\ Len(s \o t) = Len(s) + Len(t)
         /\ \A i \in 1 .. Len(s \o t) : (s \o t)[i] = IF i <= Len(s) THEN s[i] ELSE t[i - Len(s)]
<1>1. PICK S : s \in Seq(S)
  BY DEF IsSeq
<1>2. PICK T : t \in Seq(T)
  BY DEF IsSeq
<1>3. s \in Seq(S \cup T) /\ t \in Seq(S \cup T)
  BY <1>1, <1>2
<1>4. s \o t \in Seq(S \cup T)
  BY <1>3
<1> QED
  BY <1>3, <1>4 DEF IsSeq

-----------------------------------------------------------------------------
(* The types, and the forms that mailboxes and messages to be sent have.   *)

\* Whom a program sends to, and who sends to it.
To == [keyboard |-> {"shell"}, serial |-> {"shell"}, shell |-> {"serial", "command"},
       command |-> {"shell", "fat32"}, fat32 |-> {"command"}]
From == [keyboard |-> {"kernel"}, serial |-> {"shell"}, shell |-> {"keyboard", "serial", "command"},
         command |-> {"shell", "fat32"}, fat32 |-> {"command"}]

MailTyped(p) ==
  /\ IsSeq(mail[p]) /\ Len(mail[p]) <= QUEUE
  /\ \A i \in 1 .. Len(mail[p]) : mail[p][i].from \in From[p]
OutTyped(p) ==
  /\ IsSeq(out[p])
  /\ \A i \in 1 .. Len(out[p]) : out[p][i].to \in To[p]

Typed ==
  /\ DOMAIN mail = Programs /\ DOMAIN out = Programs
  /\ \A p \in Programs : MailTyped(p) /\ OutTyped(p)
  /\ pc \in [Programs -> {"idle", "line", "wait", "bye", "exit", "stopped"} \cup DOMAIN Operation]
  /\ IsSeq(line) /\ Len(line) <= LINE
  /\ presses \in 0 .. MaxPresses /\ inputs \in 0 .. MaxInputs
  /\ lost \in BOOLEAN /\ stray \in BOOLEAN

\* The type of the message that ends the answer.
End == IF pc["command"] = "exit" THEN 3 ELSE 4

-----------------------------------------------------------------------------
(* What the programs send.                                                 *)

LEMMA PutsFacts ==
  ASSUME NEW n \in Nat
  PROVE  IsSeq(puts(n)) /\ Len(puts(n)) = n /\ EchoOnly(puts(n))
<1>1. puts(n) \in Seq({Msg("serial", 1, "")})
  BY DEF puts
<1>2. Len(puts(n)) = n /\ \A i \in 1 .. n : puts(n)[i] = Msg("serial", 1, "")
  BY DEF puts
<1>3. IsSeq(puts(n))
  BY <1>1 DEF IsSeq
<1>4. EchoOnly(puts(n))
  <2>1. Msg("serial", 1, "").to = "serial"
    BY DEF Msg
  <2> QED
    BY <1>2, <2>1 DEF EchoOnly
<1> QED
  BY <1>2, <1>3, <1>4

LEMMA OneFacts ==
  ASSUME NEW m
  PROVE  IsSeq(<<m>>) /\ Len(<<m>>) = 1 /\ <<m>>[1] = m
<1>1. <<m>> \in Seq({m})
  OBVIOUS
<1> QED
  BY <1>1, Zenon DEF IsSeq

LEMMA ThreeFacts ==
  ASSUME NEW a, NEW b, NEW c
  PROVE  IsSeq(<<a, b, c>>)
<1>1. <<a, b, c>> \in Seq({a, b, c})
  OBVIOUS
<1> QED
  BY <1>1, Zenon DEF IsSeq

LEMMA EchoConcat ==
  ASSUME NEW s, IsSeq(s), EchoOnly(s), NEW t, IsSeq(t), EchoOnly(t)
  PROVE  IsSeq(s \o t) /\ EchoOnly(s \o t)
<1>1. /\ IsSeq(s \o t) /\ Len(s) \in Nat /\ Len(t) \in Nat /\ Len(s \o t) = Len(s) + Len(t)
      /\ \A i \in 1 .. Len(s \o t) : (s \o t)[i] = IF i <= Len(s) THEN s[i] ELSE t[i - Len(s)]
  BY ConcatFacts
<1>2. EchoOnly(s \o t)
  BY <1>1 DEF EchoOnly
<1> QED
  BY <1>1, <1>2

\* The shell echoes a character, ends an empty line, or sends one off.
LEMMA EchoFacts ==
  /\ IsSeq(putc) /\ EchoOnly(putc)
  /\ IsSeq(putc \o putc \o puts(1)) /\ EchoOnly(putc \o putc \o puts(1))
<1>1. IsSeq(putc) /\ Len(putc) = 1 /\ putc[1].to = "serial"
  BY OneFacts DEF putc, Msg
<1>2. EchoOnly(putc)
  BY <1>1 DEF EchoOnly
<1>3. IsSeq(putc \o putc) /\ EchoOnly(putc \o putc)
  BY <1>1, <1>2, EchoConcat, Zenon
<1>4. IsSeq(puts(1)) /\ EchoOnly(puts(1))
  BY PutsFacts
<1>5. IsSeq(putc \o putc \o puts(1)) /\ EchoOnly(putc \o putc \o puts(1))
  BY <1>3, <1>4, EchoConcat, Zenon
<1> QED
  BY <1>1, <1>2, <1>5

LEMMA AskFacts ==
  ASSUME NEW l
  PROVE  LET s == putc \o putc \o <<Msg("command", 1, l)>>
         IN  /\ IsSeq(s) /\ Len(s) = 3
             /\ s[1].to = "serial" /\ s[2].to = "serial"
             /\ s[3].to = "command" /\ s[3].type = 1
<1> DEFINE b == Msg("command", 1, l)
           s == putc \o putc
           t == <<b>>
<1>1. IsSeq(putc) /\ Len(putc) = 1 /\ putc[1].to = "serial"
  BY OneFacts DEF putc, Msg
<1>2. IsSeq(t) /\ Len(t) = 1 /\ t[1].to = "command" /\ t[1].type = 1
  BY OneFacts DEF Msg
<1>3. IsSeq(s) /\ Len(s) = 2 /\ s[1].to = "serial" /\ s[2].to = "serial"
  <2>1. /\ IsSeq(s) /\ Len(s) = Len(putc) + Len(putc)
        /\ \A i \in 1 .. Len(s) : s[i] = IF i <= Len(putc) THEN putc[i] ELSE putc[i - Len(putc)]
    BY <1>1, ConcatFacts, Zenon
  <2> HIDE DEF s
  <2> QED
    BY <1>1, <2>1
<1> HIDE DEF s, t
<1>4. /\ IsSeq(s \o t) /\ Len(s \o t) = Len(s) + Len(t)
      /\ \A i \in 1 .. Len(s \o t) : (s \o t)[i] = IF i <= Len(s) THEN s[i] ELSE t[i - Len(s)]
  BY <1>2, <1>3, ConcatFacts, Zenon
<1>5. /\ IsSeq(s \o t) /\ Len(s \o t) = 3
      /\ (s \o t)[1].to = "serial" /\ (s \o t)[2].to = "serial"
      /\ (s \o t)[3].to = "command" /\ (s \o t)[3].type = 1
  BY <1>2, <1>3, <1>4
<1> QED
  BY <1>5 DEF s, t

LEMMA SendStrFacts ==
  ASSUME NEW text, IsSeq(text)
  PROVE  /\ IsSeq(send_str(text)) /\ Len(send_str(text)) = Len(text) /\ TextOut(send_str(text))
         /\ Len(text) \in Nat /\ Says(send_str(text), Len(text), text, 0)
<1>1. PICK S : text \in Seq(S)
  BY DEF IsSeq
<1>2. Len(text) \in Nat /\ DOMAIN text = 1 .. Len(text)
  BY <1>1
<1> DEFINE T == {Msg("shell", 2, text[i]) : i \in 1 .. Len(text)}
<1>3. send_str(text) \in [1 .. Len(text) -> T]
  BY <1>2 DEF send_str
<1>4. send_str(text) \in Seq(T) /\ Len(send_str(text)) = Len(text)
  BY <1>2, <1>3
<1>5. \A i \in 1 .. Len(text) : send_str(text)[i] = Msg("shell", 2, text[i])
  BY <1>2 DEF send_str
<1>6. Says(send_str(text), Len(text), text, 0)
  <2>1. \A t : Msg("shell", 2, t).text = t
    BY DEF Msg
  <2>3. \A i \in 1 .. Len(text) : send_str(text)[i].text = text[i]
    BY <1>5, <2>1, Zenon
  <2>2. \A i \in 1 .. Len(text) : 0 + i = i
    BY <1>2
  <2> QED
    BY <2>2, <2>3 DEF Says
<1> QED
  BY <1>2, <1>4, <1>5, <1>6 DEF IsSeq, TextOut, Msg

LEMMA AnswerFacts ==
  ASSUME NEW text, IsSeq(text), NEW end
  PROVE  /\ Answer(send_str(text) \o <<Msg("shell", end, "")>>, end)
         /\ AnswerSays(send_str(text) \o <<Msg("shell", end, "")>>, text)
<1> DEFINE s == send_str(text)
           t == <<Msg("shell", end, "")>>
<1>1. IsSeq(s) /\ TextOut(s) /\ Len(s) \in Nat /\ Len(s) = Len(text) /\ Says(s, Len(text), text, 0)
  BY SendStrFacts
<1>2. IsSeq(t) /\ Len(t) = 1 /\ t[1].to = "shell" /\ t[1].type = end
  BY OneFacts DEF Msg
<1> HIDE DEF s, t
<1>3. /\ IsSeq(s \o t) /\ Len(s \o t) = Len(s) + 1
      /\ \A i \in 1 .. Len(s \o t) : (s \o t)[i] = IF i <= Len(s) THEN s[i] ELSE t[i - Len(s)]
  BY <1>1, <1>2, ConcatFacts, ZenonT(30)
<1>4. s \o t # <<>>
  BY <1>1, <1>3, LenFacts
<1>5. Answer(s \o t, end)
  BY <1>1, <1>2, <1>3, <1>4 DEF Answer, TextOut
<1>6. AnswerSays(s \o t, text)
  BY <1>1, <1>3 DEF AnswerSays, Says
<1> QED
  BY <1>5, <1>6 DEF s, t

LEMMA LastFacts ==
  ASSUME NEW s, IsSeq(s), NEW m
  PROVE  /\ IsSeq(s \o <<m>>) /\ Len(s) \in Nat /\ Len(s \o <<m>>) = Len(s) + 1
         /\ \A i \in 1 .. Len(s \o <<m>>) : (s \o <<m>>)[i] = IF i <= Len(s) THEN s[i] ELSE m
<1> DEFINE t == <<m>>
<1>1. IsSeq(t) /\ Len(t) = 1 /\ t[1] = m
  BY OneFacts
<1> HIDE DEF t
<1>2. /\ IsSeq(s \o t) /\ Len(s) \in Nat /\ Len(s \o t) = Len(s) + Len(t)
      /\ \A i \in 1 .. Len(s \o t) : (s \o t)[i] = IF i <= Len(s) THEN s[i] ELSE t[i - Len(s)]
  BY <1>1, ConcatFacts, Zenon
<1>3. /\ IsSeq(s \o t) /\ Len(s) \in Nat /\ Len(s \o t) = Len(s) + 1
      /\ \A i \in 1 .. Len(s \o t) : (s \o t)[i] = IF i <= Len(s) THEN s[i] ELSE m
  BY <1>1, <1>2
<1> QED
  BY <1>3 DEF t

LEMMA PiecesFacts ==
  ASSUME NEW pieces, IsSeq(pieces)
  PROVE  LET s == [i \in DOMAIN pieces |-> Msg("command", 100, pieces[i])]
         IN  /\ IsSeq(s) /\ Len(pieces) \in Nat /\ Len(s) = Len(pieces)
             /\ \A i \in 1 .. Len(s) : s[i].to = "command" /\ s[i].type = 100
             /\ Says(s, Len(pieces), pieces, 0)
<1> DEFINE s == [i \in DOMAIN pieces |-> Msg("command", 100, pieces[i])]
<1>1. PICK S : pieces \in Seq(S)
  BY DEF IsSeq
<1>2. Len(pieces) \in Nat /\ DOMAIN pieces = 1 .. Len(pieces)
  BY <1>1
<1>3. IsSeq(s) /\ Len(s) = Len(pieces)
  <2> DEFINE T == {Msg("command", 100, pieces[i]) : i \in 1 .. Len(pieces)}
  <2>1. s \in [1 .. Len(pieces) -> T]
    BY <1>2
  <2>2. s \in Seq(T) /\ Len(s) = Len(pieces)
    BY <1>2, <2>1
  <2> QED
    BY <2>2, Zenon DEF IsSeq
<1>4. \A i \in 1 .. Len(s) : s[i].to = "command" /\ s[i].type = 100
  BY <1>2, <1>3 DEF Msg
<1>5. Says(s, Len(pieces), pieces, 0)
  BY <1>2 DEF Says, Msg
<1> QED
  BY <1>2, <1>3, <1>4, <1>5

\* The response of the file server ends with its only message that is no piece.
LEMMA ResponseFacts ==
  ASSUME NEW pieces, IsSeq(pieces), NEW end, end # 100
  PROVE  LET s == [i \in DOMAIN pieces |-> Msg("command", 100, pieces[i])] \o <<Msg("command", end, "")>>
         IN  /\ IsSeq(s) /\ Len(s) = Len(pieces) + 1 /\ Len(pieces) \in Nat
             /\ \A i \in 1 .. Len(s) : s[i].to = "command" /\ (s[i].type = 100 <=> i < Len(s))
             /\ s[Len(s)].type = end /\ Says(s, Len(pieces), pieces, 0)
<1> DEFINE s == [i \in DOMAIN pieces |-> Msg("command", 100, pieces[i])]
           m == Msg("command", end, "")
<1>1. /\ IsSeq(s) /\ Len(pieces) \in Nat /\ Len(s) = Len(pieces)
      /\ \A i \in 1 .. Len(s) : s[i].to = "command" /\ s[i].type = 100
      /\ Says(s, Len(pieces), pieces, 0)
  BY PiecesFacts, Zenon
<1>2. m.to = "command" /\ m.type # 100 /\ m.type = end
  BY DEF Msg
<1> HIDE DEF s, m
<1>3. /\ IsSeq(s \o <<m>>) /\ Len(s \o <<m>>) = Len(s) + 1
      /\ \A i \in 1 .. Len(s \o <<m>>) : (s \o <<m>>)[i] = IF i <= Len(s) THEN s[i] ELSE m
  <2>1. IsSeq(s)
    BY <1>1
  <2> QED
    BY <2>1, LastFacts, Zenon
<1> DEFINE u == s \o <<m>>
<1> HIDE DEF u
<1>4. \A i \in 1 .. Len(u) : u[i].to = "command" /\ (u[i].type = 100 <=> i < Len(u))
  BY <1>1, <1>2, <1>3 DEF u
<1>5. u[Len(u)].type = end /\ Says(u, Len(pieces), pieces, 0)
  BY <1>1, <1>2, <1>3 DEF u, Says
<1> QED
  BY <1>1, <1>3, <1>4, <1>5 DEF s, m, u

-----------------------------------------------------------------------------
(* What a send and a receive do to the mailboxes.                          *)

Received(p, m) ==
  /\ out[p] = <<>> /\ m = mail[p][1] /\ Len(mail[p]) \in Nat \ {0}
  /\ IsSeq(mail'[p]) /\ Len(mail'[p]) = Len(mail[p]) - 1
  /\ \A i \in 1 .. Len(mail[p]) - 1 : mail'[p][i] = mail[p][i + 1]
  /\ DOMAIN mail' = Programs /\ \A q \in Programs \ {p} : mail'[q] = mail[q]

Taken(p, next, messages) ==
  /\ DOMAIN out' = Programs /\ out'[p] = messages
  /\ \A q \in Programs \ {p} : out'[q] = out[q]
  /\ DOMAIN pc' = Programs /\ pc'[p] = next
  /\ \A q \in Programs \ {p} : pc'[q] = pc[q]

\* m leaves p, and arrives.
Gone(p, m) ==
  /\ m = out[p][1] /\ m.to \in To[p] /\ Len(out[p]) \in Nat \ {0}
  /\ IsSeq(out'[p]) /\ Len(out'[p]) = Len(out[p]) - 1
  /\ \A i \in 1 .. Len(out[p]) - 1 : out'[p][i] = out[p][i + 1]
  /\ DOMAIN out' = Programs /\ \A q \in Programs \ {p} : out'[q] = out[q]
Arrived(q, e) ==
  /\ IsSeq(mail'[q]) /\ Len(mail[q]) \in Nat /\ Len(mail'[q]) = Len(mail[q]) + 1
  /\ mail'[q][Len(mail[q]) + 1] = e
  /\ \A i \in 1 .. Len(mail[q]) : mail'[q][i] = mail[q][i]
  /\ DOMAIN mail' = Programs /\ \A r \in Programs \ {q} : mail'[r] = mail[r]

LEMMA RecvEffect ==
  ASSUME Typed, NEW p \in Programs, NEW m, recv(p, m)
  PROVE  Received(p, m)
<1>1. IsSeq(mail[p]) /\ mail[p] # <<>>
  BY DEF Typed, MailTyped, recv
<1>2. /\ IsSeq(Tail(mail[p])) /\ Len(mail[p]) \in Nat \ {0} /\ Len(Tail(mail[p])) = Len(mail[p]) - 1
      /\ Head(mail[p]) = mail[p][1]
      /\ \A i \in 1 .. Len(mail[p]) - 1 : Tail(mail[p])[i] = mail[p][i + 1]
  BY <1>1, TailFacts
<1>3. /\ mail'[p] = Tail(mail[p]) /\ m = Head(mail[p]) /\ out[p] = <<>>
      /\ DOMAIN mail' = Programs /\ \A q \in Programs \ {p} : mail'[q] = mail[q]
  BY DEF Typed, recv
<1> QED
  BY <1>2, <1>3 DEF Received

LEMMA ThenEffect ==
  ASSUME Typed, NEW p \in Programs, NEW next, NEW messages, Then(p, next, messages)
  PROVE  Taken(p, next, messages)
BY DEF Typed, Then, Taken

LEMMA SendEffect ==
  ASSUME Typed, NEW p \in Programs, send(p)
  PROVE  \E m : /\ Gone(p, m)
                /\ \/ /\ mail' = mail /\ lost' = (lost \/ {p, m.to} \subseteq Dialogue)
                   \/ /\ Arrived(m.to, [from |-> p, type |-> m.type, text |-> m.text])
                      /\ Len(mail[m.to]) < QUEUE /\ lost' = lost
<1> DEFINE m == Head(out[p])
           e == [from |-> p, type |-> m.type, text |-> m.text]
<1>1. IsSeq(out[p]) /\ out[p] # <<>>
  BY DEF Typed, OutTyped, send
<1>2. /\ IsSeq(Tail(out[p])) /\ Len(out[p]) \in Nat \ {0} /\ Len(Tail(out[p])) = Len(out[p]) - 1
      /\ m = out[p][1]
      /\ \A i \in 1 .. Len(out[p]) - 1 : Tail(out[p])[i] = out[p][i + 1]
  BY <1>1, TailFacts
<1>3. m.to \in To[p] /\ To[p] \subseteq Programs
  BY <1>2 DEF Typed, OutTyped, To, Programs
<1>4. /\ out'[p] = Tail(out[p]) /\ DOMAIN out' = Programs
      /\ \A q \in Programs \ {p} : out'[q] = out[q]
  BY DEF Typed, send
<1>5. Gone(p, m)
  BY <1>2, <1>3, <1>4 DEF Gone
<1>6. IsSeq(mail[m.to]) /\ Len(mail[m.to]) \in Nat /\ QUEUE \in Nat
  <2> HIDE DEF m
  <2>1. MailTyped(m.to)
    BY <1>3 DEF Typed
  <2> QED
    BY <2>1, LenFacts, ServicesAssumption DEF MailTyped
<1>7. CASE Len(mail[m.to]) >= QUEUE
  <2>1. mail' = mail /\ lost' = (lost \/ {p, m.to} \subseteq Dialogue)
    BY <1>7 DEF send
  <2> HIDE DEF m
  <2> QED
    BY <1>5, <2>1, Zenon
<1>8. CASE ~(Len(mail[m.to]) >= QUEUE)
  <2> DEFINE b == Append(mail[m.to], e)
  <2>1. /\ IsSeq(b) /\ Len(b) = Len(mail[m.to]) + 1 /\ b[Len(mail[m.to]) + 1] = e
        /\ \A i \in 1 .. Len(mail[m.to]) : b[i] = mail[m.to][i]
    <3> HIDE DEF m, e
    <3> QED
      BY <1>6, AppendFacts
  <2>2. mail' = [mail EXCEPT ![m.to] = b] /\ lost' = (lost \/ FALSE)
    BY <1>8 DEF send
  <2> HIDE DEF b, e, m
  <2>3. mail'[m.to] = b /\ DOMAIN mail' = Programs /\ \A q \in Programs \ {m.to} : mail'[q] = mail[q]
    BY <1>3, <2>2 DEF Typed
  <2>4. Arrived(m.to, e)
    BY <1>6, <2>1, <2>3 DEF Arrived
  <2>5. Len(mail[m.to]) < QUEUE
    BY <1>6, <1>8
  <2>6. lost' = lost
    BY <2>2 DEF Typed
  <2> QED
    BY <1>5, <2>4, <2>5, <2>6 DEF e
<1> QED
  BY <1>7, <1>8

\* The types of the mailboxes and of the messages to be sent.
LEMMA RecvTyped ==
  ASSUME Typed, NEW p \in Programs, NEW m, Received(p, m)
  PROVE  \A q \in Programs : MailTyped(q)'
<1>1. ASSUME NEW q \in Programs \ {p} PROVE MailTyped(q)'
  BY <1>1 DEF Received, Typed, MailTyped
<1>2. MailTyped(p)'
  <2>1. MailTyped(p) /\ QUEUE \in Nat
    BY ServicesAssumption DEF Typed
  <2>2. IsSeq(mail'[p]) /\ Len(mail'[p]) <= QUEUE
    BY <2>1 DEF Received, MailTyped
  <2>3. ASSUME NEW i \in 1 .. Len(mail'[p]) PROVE mail'[p][i].from \in From[p]
    <3>1. i \in 1 .. Len(mail[p]) - 1 /\ i + 1 \in 1 .. Len(mail[p])
      BY <2>3 DEF Received
    <3>2. mail'[p][i] = mail[p][i + 1]
      BY <3>1 DEF Received
    <3> QED
      BY <2>1, <3>1, <3>2 DEF MailTyped
  <2> QED
    BY <2>2, <2>3 DEF MailTyped
<1> QED
  BY <1>1, <1>2

LEMMA ArrivedTyped ==
  ASSUME Typed, NEW p \in Programs, NEW e, Arrived(p, e), e.from \in From[p], Len(mail[p]) < QUEUE
  PROVE  \A q \in Programs : MailTyped(q)'
<1>1. ASSUME NEW q \in Programs \ {p} PROVE MailTyped(q)'
  BY <1>1 DEF Arrived, Typed, MailTyped
<1>2. MailTyped(p)'
  <2>1. MailTyped(p) /\ QUEUE \in Nat
    BY ServicesAssumption DEF Typed
  <2> QED
    BY <2>1 DEF Arrived, MailTyped
<1> QED
  BY <1>1, <1>2

LEMMA TakenTyped ==
  ASSUME Typed, NEW p \in Programs, NEW next, NEW messages, Taken(p, next, messages),
         IsSeq(messages), \A i \in 1 .. Len(messages) : messages[i].to \in To[p]
  PROVE  \A q \in Programs : OutTyped(q)'
<1>1. ASSUME NEW q \in Programs \ {p} PROVE OutTyped(q)'
  BY <1>1 DEF Taken, Typed, OutTyped
<1>2. OutTyped(p)'
  BY SMTT(30) DEF Taken, OutTyped
<1> QED
  BY <1>1, <1>2

-----------------------------------------------------------------------------
(* Types.                                                                  *)

LEMMA SendTyped ==
  ASSUME Typed, ~lost, NEW p \in Programs, send(p)
  PROVE  Typed'
<1>1. PICK m : /\ Gone(p, m)
               /\ \/ /\ mail' = mail /\ lost' = (lost \/ {p, m.to} \subseteq Dialogue)
                  \/ /\ Arrived(m.to, [from |-> p, type |-> m.type, text |-> m.text])
                     /\ Len(mail[m.to]) < QUEUE /\ lost' = lost
  BY SendEffect
<1>2. m.to \in Programs /\ p \in From[m.to]
  BY <1>1 DEF Gone, To, From, Programs
<1>3. lost' \in BOOLEAN
  BY <1>1, Zenon DEF Typed
<1>4. ASSUME NEW q \in Programs PROVE OutTyped(q)'
  <2>1. CASE q = p
    <3>1. OutTyped(p)
      BY DEF Typed
    <3>2. OutTyped(p)'
      BY <1>1, <3>1 DEF Gone, OutTyped
    <3> QED
      BY <2>1, <3>2
  <2>2. CASE q # p
    BY <1>1, <2>2 DEF Gone, Typed, OutTyped
  <2> QED
    BY <2>1, <2>2
<1>5. DOMAIN mail' = Programs /\ \A q \in Programs : MailTyped(q)'
  <2>1. CASE mail' = mail
    BY <2>1 DEF Typed, MailTyped
  <2>2. CASE /\ Arrived(m.to, [from |-> p, type |-> m.type, text |-> m.text])
             /\ Len(mail[m.to]) < QUEUE
    <3> DEFINE e == [from |-> p, type |-> m.type, text |-> m.text]
    <3>1. e.from \in From[m.to]
      BY <1>2
    <3>2. \A q \in Programs : MailTyped(q)'
      BY <1>2, <2>2, <3>1, ArrivedTyped
    <3> QED
      BY <2>2, <3>2 DEF Arrived
  <2> QED
    BY <1>1, <2>1, <2>2
<1> QED
  BY <1>1, <1>3, <1>4, <1>5, Zenon DEF Typed, Gone, send

LEMMA PressTyped ==
  ASSUME Typed, Press
  PROVE  Typed'
<1>1. PICK sc : mail' = IF Len(mail["keyboard"]) >= QUEUE THEN mail
               ELSE [mail EXCEPT !["keyboard"] = Append(@, [from |-> "kernel", type |-> 0, text |-> sc])]
  BY Zenon DEF Press
<1>2. "keyboard" \in Programs /\ QUEUE \in Nat /\ MaxPresses \in Nat
  BY ServicesAssumption DEF Programs
<1>3. DOMAIN mail' = Programs /\ \A q \in Programs : MailTyped(q)'
  <2>1. CASE mail' = mail
    BY <2>1 DEF Typed, MailTyped
  <2>2. CASE mail' # mail
    <3> DEFINE e == [from |-> "kernel", type |-> 0, text |-> sc]
               s == mail["keyboard"]
    <3>1. IsSeq(s)
      BY <1>2 DEF Typed, MailTyped
    <3>2. /\ IsSeq(Append(s, e)) /\ Len(s) \in Nat /\ Len(Append(s, e)) = Len(s) + 1
          /\ Append(s, e)[Len(s) + 1] = e
          /\ \A i \in 1 .. Len(s) : Append(s, e)[i] = s[i]
      BY <3>1, AppendFacts
    <3>3. mail' = [mail EXCEPT !["keyboard"] = Append(s, e)] /\ Len(s) < QUEUE
      BY <1>1, <1>2, <2>2, <3>2
    <3>4. e.from \in From["keyboard"]
      BY DEF From
    <3> HIDE DEF e
    <3>5. Arrived("keyboard", e)
      BY <1>2, <3>2, <3>3 DEF Arrived, Typed
    <3>6. \A q \in Programs : MailTyped(q)'
      BY <1>2, <3>3, <3>4, <3>5, ArrivedTyped
    <3> QED
      BY <3>5, <3>6 DEF Arrived
  <2> QED
    BY <2>1, <2>2
<1>4. \A q \in Programs : OutTyped(q)'
  BY DEF Press, Typed, OutTyped
<1>5. presses' \in 0 .. MaxPresses
  BY <1>2 DEF Press, Typed
<1> QED
  BY <1>3, <1>4, <1>5 DEF Press, Typed, Ghosts

\* A program takes a message.
LEMMA TakeTyped ==
  ASSUME Typed, NEW p \in Programs, NEW m, recv(p, m), NEW next, NEW messages,
         Then(p, next, messages), IsSeq(messages),
         \A i \in 1 .. Len(messages) : messages[i].to \in To[p],
         next \in {"idle", "line", "wait", "bye", "exit", "stopped"} \cup DOMAIN Operation,
         UNCHANGED <<presses, inputs, lost>>, IsSeq(line'), Len(line') <= LINE, stray' \in BOOLEAN
  PROVE  Typed'
<1>1. Received(p, m)
  BY RecvEffect
<1>2. Taken(p, next, messages)
  BY ThenEffect
<1>3. \A q \in Programs : MailTyped(q)'
  BY <1>1, RecvTyped
<1>4. \A q \in Programs : OutTyped(q)'
  BY <1>2, TakenTyped
<1>5. pc' \in [Programs -> {"idle", "line", "wait", "bye", "exit", "stopped"} \cup DOMAIN Operation]
  BY DEF Then, Typed
<1>6. DOMAIN mail' = Programs /\ DOMAIN out' = Programs
  BY <1>1, <1>2 DEF Received, Taken
<1> QED
  BY <1>3, <1>4, <1>5, <1>6 DEF Typed

LEMMA SkipTyped ==
  ASSUME Typed, NEW p \in Programs, NEW m, recv(p, m), UNCHANGED <<out, pc, line, presses, inputs, lost, stray>>
  PROVE  Typed'
<1>1. Received(p, m)
  BY RecvEffect
<1>2. \A q \in Programs : MailTyped(q)'
  BY <1>1, RecvTyped
<1>3. DOMAIN mail' = Programs
  BY <1>1 DEF Received
<1> QED
  BY <1>2, <1>3 DEF Typed, OutTyped

-----------------------------------------------------------------------------
(* The outcomes of the steps of the dialogue.                              *)

Took(p, m, next, messages) ==
  /\ recv(p, m) /\ Then(p, next, messages) /\ IsSeq(messages)
  /\ \A i \in 1 .. Len(messages) : messages[i].to \in To[p]
  /\ next \in {"idle", "line", "wait", "bye", "exit", "stopped"} \cup DOMAIN Operation
  /\ UNCHANGED <<presses, inputs, lost>>
Skipped(p, m) == recv(p, m) /\ UNCHANGED <<out, pc, line, presses, inputs, lost, stray>>

Ask(s) ==
  /\ Len(s) = 3 /\ s[1].to = "serial" /\ s[2].to = "serial"
  /\ s[3].to = "command" /\ s[3].type = 1

ShellKeyOutcome(m, messages) ==
  /\ pc["shell"] = "line" /\ stray' = stray
  /\ IsSeq(line') /\ Len(line') <= LINE
  /\ \/ Took("shell", m, "line", messages) /\ EchoOnly(messages) /\ UNCHANGED <<due, shown>>
     \/ Took("shell", m, "wait", messages) /\ Ask(messages) /\ shown' = <<>>

LEMMA ShellKeyCases ==
  ASSUME Typed, ShellKey
  PROVE  \E m, messages : ShellKeyOutcome(m, messages)
<1>1. PICK m \in Range(mail["shell"]) : recv("shell", m) /\ \E c \in First(m) :
       CASE c # "enter" ->
              /\ Then("shell", "line", putc)
              /\ line' = IF Len(line) < LINE THEN Append(line, c) ELSE line
              /\ UNCHANGED <<due, shown>>
         [] c = "enter" /\ (line = <<>> \/ Head(line) = "NUL") ->
              /\ Then("shell", "line", putc \o putc \o puts(1))
              /\ line' = <<>>
              /\ UNCHANGED <<due, shown>>
         [] OTHER ->
              /\ Then("shell", "wait", putc \o putc \o <<Msg("command", 1, line)>>)
              /\ line' = <<>>
              /\ due' = <<>> /\ shown' = <<>>
  BY DEF ShellKey
<1>2. PICK c \in First(m) :
       CASE c # "enter" ->
              /\ Then("shell", "line", putc)
              /\ line' = IF Len(line) < LINE THEN Append(line, c) ELSE line
              /\ UNCHANGED <<due, shown>>
         [] c = "enter" /\ (line = <<>> \/ Head(line) = "NUL") ->
              /\ Then("shell", "line", putc \o putc \o puts(1))
              /\ line' = <<>>
              /\ UNCHANGED <<due, shown>>
         [] OTHER ->
              /\ Then("shell", "wait", putc \o putc \o <<Msg("command", 1, line)>>)
              /\ line' = <<>>
              /\ due' = <<>> /\ shown' = <<>>
  BY <1>1
<1>3. pc["shell"] = "line" /\ UNCHANGED <<presses, inputs, lost, stray>>
  BY DEF ShellKey
<1>4. LINE \in Nat /\ IsSeq(<<>>) /\ Len(<<>>) = 0
  BY ServicesAssumption, EmptyFacts
<1>5. ASSUME NEW s, IsSeq(s), EchoOnly(s), Then("shell", "line", s), IsSeq(line'), Len(line') <= LINE,
             UNCHANGED <<due, shown>>
      PROVE  ShellKeyOutcome(m, s)
  <2>1. \A i \in 1 .. Len(s) : s[i].to \in To["shell"]
    BY <1>5 DEF EchoOnly, To
  <2>2. Took("shell", m, "line", s)
    BY <1>1, <1>3, <1>5, <2>1 DEF Took
  <2> QED
    BY <1>3, <1>5, <2>2 DEF ShellKeyOutcome
<1>6. CASE c # "enter"
  <2>1. /\ Then("shell", "line", putc) /\ UNCHANGED <<due, shown>>
        /\ line' = IF Len(line) < LINE THEN Append(line, c) ELSE line
    BY <1>2, <1>6
  <2>2. /\ IsSeq(Append(line, c)) /\ Len(line) \in Nat /\ Len(Append(line, c)) = Len(line) + 1
    BY AppendFacts DEF Typed
  <2>3. IsSeq(line') /\ Len(line') <= LINE
    BY <1>4, <2>1, <2>2 DEF Typed
  <2>4. ShellKeyOutcome(m, putc)
    BY <1>5, <2>1, <2>3, EchoFacts
  <2> QED
    BY <2>4
<1>7. CASE c = "enter" /\ (line = <<>> \/ Head(line) = "NUL")
  <2>1. Then("shell", "line", putc \o putc \o puts(1)) /\ line' = <<>> /\ UNCHANGED <<due, shown>>
    BY <1>2, <1>7
  <2>2. IsSeq(line') /\ Len(line') <= LINE
    BY <1>4, <2>1
  <2>3. ShellKeyOutcome(m, putc \o putc \o puts(1))
    BY <1>5, <2>1, <2>2, EchoFacts
  <2> QED
    BY <2>3
<1>8. CASE c = "enter" /\ ~(line = <<>> \/ Head(line) = "NUL")
  <2> DEFINE s == putc \o putc \o <<Msg("command", 1, line)>>
  <2>1. Then("shell", "wait", s) /\ line' = <<>> /\ shown' = <<>>
    BY <1>2, <1>8
  <2>2. IsSeq(line') /\ Len(line') <= LINE
    BY <1>4, <2>1
  <2>3. IsSeq(s) /\ Ask(s)
    BY AskFacts DEF Ask
  <2> HIDE DEF s
  <2>4. \A i \in 1 .. Len(s) : s[i].to \in To["shell"]
    BY <2>3 DEF Ask, To
  <2>5. Took("shell", m, "wait", s)
    BY <1>1, <1>3, <2>1, <2>3, <2>4 DEF Took
  <2>6. ShellKeyOutcome(m, s)
    BY <1>3, <2>1, <2>2, <2>3, <2>5 DEF ShellKeyOutcome
  <2> QED
    BY <2>6
<1> QED
  BY <1>6, <1>7, <1>8

ShellAnswerOutcome(m, messages) ==
  /\ pc["shell"] = "wait" /\ UNCHANGED <<line, stray, due>>
  /\ \/ m.from # "command" /\ Skipped("shell", m) /\ shown' = shown
     \/ /\ m.from = "command" /\ EchoOnly(messages)
        /\ shown' = IF m.type \in {3, 4} THEN shown ELSE Append(shown, m.text)
        /\ Took("shell", m, IF m.type = 3 THEN "bye" ELSE IF m.type = 4 THEN "line" ELSE "wait", messages)

LEMMA ShellAnswerCases ==
  ASSUME Typed, ShellAnswer
  PROVE  \E m, messages : ShellAnswerOutcome(m, messages)
<1>1. PICK m \in Range(mail["shell"]) :
       /\ recv("shell", m)
       /\ CASE m.from # "command" -> UNCHANGED <<pc, out, shown>>
            [] m.from = "command" /\ m.type = 3 ->
                 Then("shell", "bye", puts(1)) /\ UNCHANGED shown
            [] m.from = "command" /\ m.type = 4 ->
                 Then("shell", "line", puts(1)) /\ UNCHANGED shown
            [] OTHER ->
                 Then("shell", "wait", puts(1)) /\ shown' = Append(shown, m.text)
  BY DEF ShellAnswer
<1>2. pc["shell"] = "wait" /\ UNCHANGED <<line, presses, inputs, lost, stray, due>>
  BY DEF ShellAnswer
<1>3. CASE m.from # "command"
  <2>1. UNCHANGED <<pc, out, shown>>
    BY <1>1, <1>3
  <2>2. ShellAnswerOutcome(m, <<>>)
    BY <1>1, <1>2, <1>3, <2>1 DEF ShellAnswerOutcome, Skipped
  <2> QED
    BY <2>2
<1>4. CASE m.from = "command"
  <2> DEFINE next == IF m.type = 3 THEN "bye" ELSE IF m.type = 4 THEN "line" ELSE "wait"
             s == puts(1)
  <2>1. Then("shell", next, s) /\ shown' = IF m.type \in {3, 4} THEN shown ELSE Append(shown, m.text)
    BY <1>1, <1>4
  <2>2. IsSeq(s) /\ EchoOnly(s)
    BY PutsFacts
  <2>3. next \in {"idle", "line", "wait", "bye", "exit", "stopped"} \cup DOMAIN Operation
    OBVIOUS
  <2> HIDE DEF s
  <2>4. \A i \in 1 .. Len(s) : s[i].to \in To["shell"]
    BY <2>2 DEF EchoOnly, To
  <2>5. Took("shell", m, next, s)
    BY <1>1, <1>2, <2>1, <2>2, <2>3, <2>4 DEF Took
  <2>6. ShellAnswerOutcome(m, s)
    BY <1>2, <1>4, <2>1, <2>2, <2>5 DEF ShellAnswerOutcome
  <2> QED
    BY <2>6
<1> QED
  BY <1>3, <1>4

CommandTakeOutcome(m, messages) ==
  /\ pc["command"] = "idle" /\ UNCHANGED <<line, stray, shown>>
  /\ \/ m.type # 1 /\ Skipped("command", m)
     \/ Took("command", m, "exit", messages) /\ Answer(messages, 3) /\ AnswerSays(messages, due')
     \/ Took("command", m, "idle", messages) /\ Answer(messages, 4) /\ AnswerSays(messages, due')
     \/ Took("command", m, "idle", messages) /\ TextOut(messages)
     \/ \E cmd \in DOMAIN Operation :
          Took("command", m, cmd, messages) /\ Request(messages, Operation[cmd])

LEMMA ToShell ==
  ASSUME NEW s, (\E end : Answer(s, end)) \/ TextOut(s)
  PROVE  \A i \in 1 .. Len(s) : s[i].to \in To["command"]
BY DEF Answer, TextOut, To

LEMMA CommandTakeCases ==
  ASSUME Typed, CommandTake
  PROVE  \E m, messages : CommandTakeOutcome(m, messages)
<1> DEFINE Served(m) ==
      LET cmd == Head(m.text)
      IN  CASE cmd = "e" ->
                 /\ Then("command", "exit", send_str(<<"bye">>) \o <<Msg("shell", 3, "")>>)
                 /\ due' = <<"bye">> /\ UNCHANGED mute
            [] cmd = "w" /\ ~HasPath(m.text) ->
                 /\ Then("command", "idle", send_str(<<"usage">>))
                 /\ mute' = TRUE /\ due' = <<"usage">>
            [] cmd \in DOMAIN Operation /\ (cmd = "w" => HasPath(m.text)) ->
                 /\ Then("command", cmd, <<Msg("fat32", Operation[cmd], "path")>>)
                 /\ UNCHANGED <<mute, due>>
            [] OTHER ->
                 LET text == IF cmd \in DOMAIN Plain THEN Plain[cmd] ELSE <<"unknown">>
                 IN  /\ Then("command", "idle", send_str(text) \o Done)
                     /\ due' = text /\ UNCHANGED mute
<1>1. PICK m \in Range(mail["command"]) :
       /\ recv("command", m)
       /\ IF m.type # 1 THEN UNCHANGED <<pc, out, mute, due>> ELSE Served(m)
  BY DEF CommandTake
<1>2. pc["command"] = "idle" /\ UNCHANGED <<line, presses, inputs, lost, stray, shown>>
  BY DEF CommandTake
<1>3. CASE m.type # 1
  <2>1. UNCHANGED <<pc, out>>
    BY <1>1, <1>3
  <2>2. CommandTakeOutcome(m, <<>>)
    BY <1>1, <1>2, <1>3, <2>1 DEF CommandTakeOutcome, Skipped
  <2> QED
    BY <2>2
<1>4. CASE m.type = 1
  <2> DEFINE cmd == Head(m.text)
  <2>1. Served(m)
    BY <1>1, <1>4
  <2>2. CASE cmd = "e"
    <3> DEFINE s == send_str(<<"bye">>) \o <<Msg("shell", 3, "")>>
    <3>1. Then("command", "exit", s) /\ due' = <<"bye">>
      BY <2>1, <2>2 DEF Operation
    <3>2. IsSeq(<<"bye">>)
      BY OneFacts
    <3>3. Answer(s, 3) /\ AnswerSays(s, due')
      BY <3>1, <3>2, AnswerFacts
    <3> HIDE DEF s
    <3>4. \A i \in 1 .. Len(s) : s[i].to \in To["command"]
      BY <3>3, ToShell
    <3>5. Took("command", m, "exit", s)
      BY <1>1, <1>2, <3>1, <3>3, <3>4 DEF Took, Answer
    <3>6. CommandTakeOutcome(m, s)
      BY <1>2, <3>3, <3>5 DEF CommandTakeOutcome
    <3> QED
      BY <3>6
  <2>3. CASE cmd = "w" /\ ~HasPath(m.text)
    <3> DEFINE s == send_str(<<"usage">>)
    <3>1. Then("command", "idle", s)
      BY <2>1, <2>3
    <3>2. IsSeq(<<"usage">>)
      BY OneFacts
    <3>3. IsSeq(s) /\ TextOut(s)
      BY <3>2, SendStrFacts
    <3> HIDE DEF s
    <3>4. \A i \in 1 .. Len(s) : s[i].to \in To["command"]
      BY <3>3, ToShell
    <3>5. Took("command", m, "idle", s)
      BY <1>1, <1>2, <3>1, <3>3, <3>4 DEF Took
    <3>6. CommandTakeOutcome(m, s)
      BY <1>2, <3>3, <3>5 DEF CommandTakeOutcome
    <3> QED
      BY <3>6
  <2>4. CASE cmd \in DOMAIN Operation /\ (cmd = "w" => HasPath(m.text))
    <3> DEFINE e == Msg("fat32", Operation[cmd], "path")
               s == <<e>>
    <3>1. Then("command", cmd, s)
      BY <2>1, <2>4 DEF Operation
    <3>2. IsSeq(s) /\ Len(s) = 1 /\ s[1] = e
      BY OneFacts
    <3>3. e.to = "fat32" /\ e.type = Operation[cmd]
      BY DEF Msg
    <3> HIDE DEF s, e, cmd
    <3>4. Request(s, Operation[cmd]) /\ \A i \in 1 .. Len(s) : s[i].to \in To["command"]
      BY <3>2, <3>3 DEF Request, To
    <3>5. Took("command", m, cmd, s)
      BY <1>1, <1>2, <2>4, <3>1, <3>2, <3>4 DEF Took
    <3>6. CommandTakeOutcome(m, s)
      BY <1>2, <2>4, <3>4, <3>5 DEF CommandTakeOutcome
    <3> QED
      BY <3>6
  <2>5. CASE cmd # "e" /\ cmd \notin DOMAIN Operation
    <3> DEFINE text == IF cmd \in DOMAIN Plain THEN Plain[cmd] ELSE <<"unknown">>
               s == send_str(text) \o Done
    <3>1. Then("command", "idle", s) /\ due' = text
      BY <2>1, <2>5 DEF Operation
    <3>2. IsSeq(text)
      <4>1. IsSeq(<<"help1", "help2", "help3">>)
        BY ThreeFacts
      <4>2. IsSeq(<<"clear">>) /\ IsSeq(<<"unknown">>)
        BY OneFacts
      <4>3. CASE cmd = "h"
        BY <4>1, <4>3 DEF Plain
      <4>4. CASE cmd = "c"
        BY <4>2, <4>4 DEF Plain
      <4>5. CASE cmd \notin {"h", "c"}
        BY <4>2, <4>5 DEF Plain
      <4> QED
        BY <4>3, <4>4, <4>5
    <3>3. Answer(s, 4) /\ AnswerSays(s, due')
      <4> HIDE DEF text
      <4> QED
        BY <3>1, <3>2, AnswerFacts DEF Done
    <3> HIDE DEF s
    <3>4. \A i \in 1 .. Len(s) : s[i].to \in To["command"]
      BY <3>3, ToShell
    <3>5. Took("command", m, "idle", s)
      BY <1>1, <1>2, <3>1, <3>3, <3>4 DEF Took, Answer
    <3>6. CommandTakeOutcome(m, s)
      BY <1>2, <3>3, <3>5 DEF CommandTakeOutcome
    <3> QED
      BY <3>6
  <2> QED
    BY <2>2, <2>3, <2>4, <2>5
<1> QED
  BY <1>3, <1>4

CommandResponseOutcome(m, messages) ==
  /\ pc["command"] \in DOMAIN Operation /\ UNCHANGED <<line, due, shown>>
  /\ \/ m.from # "fat32" /\ Skipped("command", m)
     \/ /\ pc["command"] = "r" /\ m.type = 100 /\ stray' = stray
        /\ Took("command", m, "r", messages) /\ TextOut(messages)
        /\ Len(messages) = 1 /\ messages[1].text = m.text
     \/ stray' = TRUE /\ Took("command", m, "idle", messages)
     \/ /\ m.from = "fat32" /\ (pc["command"] = "r" => m.type # 100) /\ stray' = stray
        /\ Took("command", m, "idle", messages) /\ Answer(messages, 4)
        /\ AnswerSays(messages, Final(pc["command"], m.type))

\* The two answers that a failed readfile gives.
LEMMA TwiceFacts ==
  ASSUME NEW a, IsSeq(a), NEW b, IsSeq(b), NEW c, IsSeq(c), Answer(a, 4), TextOut(b), TextOut(c) \/ Answer(c, 4)
  PROVE  /\ IsSeq(a \o b \o c)
         /\ \A i \in 1 .. Len(a \o b \o c) : (a \o b \o c)[i].to \in To["command"]
<1> DEFINE P(s) == \A i \in 1 .. Len(s) : s[i].to \in To["command"]
<1>1. ASSUME NEW s, IsSeq(s), P(s), NEW t, IsSeq(t), P(t) PROVE IsSeq(s \o t) /\ P(s \o t)
  <2>1. /\ IsSeq(s \o t) /\ Len(s) \in Nat /\ Len(t) \in Nat /\ Len(s \o t) = Len(s) + Len(t)
        /\ \A i \in 1 .. Len(s \o t) : (s \o t)[i] = IF i <= Len(s) THEN s[i] ELSE t[i - Len(s)]
    BY <1>1, ConcatFacts
  <2> QED
    BY <1>1, <2>1
<1>2. P(a) /\ P(b) /\ P(c)
  BY ToShell
<1> HIDE DEF P
<1>3. IsSeq(a \o b) /\ P(a \o b)
  BY <1>1, <1>2, Zenon
<1>4. IsSeq(a \o b \o c) /\ P(a \o b \o c)
  BY <1>1, <1>2, <1>3, Zenon
<1> QED
  BY <1>4 DEF P

LEMMA CommandResponseCases ==
  ASSUME Typed, CommandResponse
  PROVE  \E m, messages : CommandResponseOutcome(m, messages)
<1>1. PICK m \in Range(mail["command"]) :
       /\ recv("command", m)
       /\ IF m.from # "fat32" THEN UNCHANGED <<pc, out, stray>>
          ELSE IF pc["command"] = "r" THEN ReadResponse(m) ELSE Response(m)
  BY DEF CommandResponse
<1>2. pc["command"] \in DOMAIN Operation /\ UNCHANGED <<line, presses, inputs, lost, due, shown>>
  BY DEF CommandResponse
<1>3. CASE m.from # "fat32"
  <2>1. UNCHANGED <<pc, out, stray>>
    BY <1>1, <1>3
  <2>2. CommandResponseOutcome(m, <<>>)
    BY <1>1, <1>2, <1>3, <2>1 DEF CommandResponseOutcome, Skipped
  <2> QED
    BY <2>2
<1>4. ASSUME m.from = "fat32", pc["command"] = "r" => m.type # 100, stray' = stray, NEW text, IsSeq(text),
             Then("command", "idle", send_str(text) \o Done), text = Final(pc["command"], m.type)
      PROVE  \E messages : CommandResponseOutcome(m, messages)
  <2> DEFINE s == send_str(text) \o Done
  <2>1. Answer(s, 4) /\ AnswerSays(s, text)
    BY <1>4, AnswerFacts DEF Done
  <2>2. Then("command", "idle", s)
    BY <1>4
  <2> HIDE DEF s
  <2>3. \A i \in 1 .. Len(s) : s[i].to \in To["command"]
    BY <2>1, ToShell
  <2>4. Took("command", m, "idle", s)
    BY <1>1, <1>2, <2>1, <2>2, <2>3 DEF Took, Answer
  <2>5. CommandResponseOutcome(m, s)
    BY <1>2, <1>4, <2>1, <2>4 DEF CommandResponseOutcome
  <2> QED
    BY <2>5
<1>5. CASE m.from = "fat32" /\ pc["command"] = "r" /\ m.type = 100
  <2> DEFINE s == send_str(<<m.text>>)
  <2>1. Then("command", "r", s) /\ stray' = stray
    BY <1>1, <1>5 DEF ReadResponse
  <2>2. IsSeq(<<m.text>>)
    BY OneFacts
  <2>3. IsSeq(s) /\ TextOut(s) /\ Len(s) = 1 /\ s[1].text = m.text
    <3> DEFINE text == <<m.text>>
    <3>1. IsSeq(text) /\ Len(text) = 1 /\ text[1] = m.text
      BY OneFacts
    <3> HIDE DEF text
    <3>2. /\ IsSeq(send_str(text)) /\ TextOut(send_str(text)) /\ Len(send_str(text)) = 1
          /\ send_str(text)[1].text = text[0 + 1]
      BY <3>1, SendStrFacts DEF Says
    <3> QED
      BY <3>1, <3>2 DEF text
  <2> HIDE DEF s
  <2>4. \A i \in 1 .. Len(s) : s[i].to \in To["command"]
    BY <2>3, ToShell
  <2>5. Took("command", m, "r", s)
    BY <1>1, <1>2, <2>1, <2>3, <2>4 DEF Took, Operation
  <2>6. CommandResponseOutcome(m, s)
    BY <1>2, <1>5, <2>1, <2>3, <2>5 DEF CommandResponseOutcome
  <2> QED
    BY <2>6
<1>6. CASE m.from = "fat32" /\ pc["command"] = "r" /\ m.type = 255
  <2> DEFINE a == send_str(<<"error">>) \o Done
             b == send_str(<<"crlf">>)
             s == a \o b \o Done
  <2>1. Then("command", "idle", s) /\ stray' = TRUE
    BY <1>1, <1>6 DEF ReadResponse
  <2>2. IsSeq(<<"error">>) /\ IsSeq(<<"crlf">>)
    BY OneFacts
  <2>3. Answer(a, 4)
    BY <2>2, AnswerFacts DEF Done
  <2>4. IsSeq(b) /\ TextOut(b)
    BY <2>2, SendStrFacts
  <2>5. IsSeq(Done) /\ Answer(Done, 4)
    <3>1. IsSeq(Done) /\ Len(Done) = 1 /\ Done[1].to = "shell" /\ Done[1].type = 4
      BY OneFacts DEF Done, Msg
    <3>2. Done # <<>>
      BY <3>1, EmptyFacts, SMTT(30)
    <3> QED
      BY <3>1, <3>2 DEF Answer
  <2> HIDE DEF a, b
  <2>6. IsSeq(s) /\ \A i \in 1 .. Len(s) : s[i].to \in To["command"]
    <3>1. IsSeq(a)
      BY <2>3 DEF Answer
    <3> QED
      BY <2>3, <2>4, <2>5, <3>1, TwiceFacts
  <2> HIDE DEF s
  <2>7. Took("command", m, "idle", s)
    BY <1>1, <1>2, <2>1, <2>6 DEF Took
  <2>8. CommandResponseOutcome(m, s)
    BY <1>2, <2>1, <2>7, Zenon DEF CommandResponseOutcome
  <2> QED
    BY <2>8
<1>7. CASE m.from = "fat32" /\ pc["command"] = "r" /\ m.type \notin {100, 255}
  <2>1. Then("command", "idle", send_str(<<"crlf">>) \o Done) /\ stray' = stray
    BY <1>1, <1>7 DEF ReadResponse
  <2>2. IsSeq(<<"crlf">>)
    BY OneFacts
  <2>3. Final(pc["command"], m.type) = <<"crlf">>
    BY <1>7 DEF Final
  <2> QED
    BY <1>4, <1>7, <2>1, <2>2, <2>3
<1>8. CASE m.from = "fat32" /\ pc["command"] # "r"
  <2> DEFINE text == IF m.type = 255 THEN <<"error">>
                     ELSE IF pc["command"] = "s" THEN <<"spawned", "pid", "crlf">>
                     ELSE <<"ok">>
  <2>1. Then("command", "idle", send_str(text) \o Done) /\ stray' = stray
    BY <1>1, <1>8 DEF Response
  <2>2. IsSeq(<<"error">>) /\ IsSeq(<<"spawned", "pid", "crlf">>) /\ IsSeq(<<"ok">>)
    BY OneFacts, ThreeFacts
  <2>3. IsSeq(text)
    BY <2>2
  <2>4. text = Final(pc["command"], m.type)
    BY <1>8 DEF Final
  <2> HIDE DEF text
  <2> QED
    BY <1>4, <1>8, <2>1, <2>3, <2>4
<1> QED
  BY <1>3, <1>5, <1>6, <1>7, <1>8

Fat32Outcome(m, messages) ==
  /\ UNCHANGED <<line, stray, shown>> /\ Took("fat32", m, "idle", messages) /\ IsSeq(due')
  /\ \E n \in Nat :
       /\ Reply(messages, n) /\ (m.type # 0 => n = 0)
       /\ Says(messages, n, due', 0)
       /\ \A op \in DOMAIN Operation :
            m.type = Operation[op] => Closes(due', n, Final(op, messages[n + 1].type))

Fat32Stops(m) ==
  UNCHANGED <<line, stray, shown>> /\ Took("fat32", m, "stopped", <<>>)

Fat32Answers(m) ==
  UNCHANGED <<line, presses, inputs, lost, stray, shown>> /\ recv("fat32", m) /\ Fat32Answer(m)

LEMMA Fat32AnswerCases ==
  ASSUME NEW m, Fat32Answers(m)
  PROVE  \E messages : Fat32Outcome(m, messages)
<1> DEFINE Served(ok, n) ==
            LET pieces == IF m.type = 0 THEN SubSeq(FILE, 1, n) ELSE <<>>
                end == IF ~ok THEN 255 ELSE IF m.type \in {0, 1} THEN 101 ELSE 200
            IN  /\ m.type # 0 => n = 0
                /\ Then("fat32", "idle", [i \in DOMAIN pieces |-> Msg("command", 100, pieces[i])] \o <<Msg("command", end, "")>>)
                /\ due' = CASE m.type = 0 -> pieces \o (IF ok THEN <<"crlf">> ELSE <<"error">>)
                            [] m.type # 0 /\ ~ok -> <<"error">>
                            [] m.type = 1 /\ ok -> <<"spawned", "pid", "crlf">>
                            [] OTHER -> <<"ok">>
<1>1. PICK ok \in BOOLEAN, n \in 0 .. Len(FILE) : Served(ok, n)
  BY DEF Fat32Answers, Fat32Answer
<1> DEFINE pieces == IF m.type = 0 THEN SubSeq(FILE, 1, n) ELSE <<>>
           end == IF ~ok THEN 255 ELSE IF m.type \in {0, 1} THEN 101 ELSE 200
           s == [i \in DOMAIN pieces |-> Msg("command", 100, pieces[i])] \o <<Msg("command", end, "")>>
           f == Final(IF m.type = 0 THEN "r" ELSE IF m.type = 1 THEN "s" ELSE "w", end)
<1>2. /\ recv("fat32", m) /\ Then("fat32", "idle", s)
      /\ UNCHANGED <<line, presses, inputs, lost, stray, shown>>
  BY <1>1 DEF Fat32Answers
<1>3. IsSeq(pieces) /\ (m.type # 0 => Len(pieces) = 0)
  <2>1. SubSeq(FILE, 1, n) \in Seq(STRING)
    BY ServicesAssumption
  <2>2. IsSeq(SubSeq(FILE, 1, n))
    BY <2>1, SMTT(30) DEF IsSeq
  <2> QED
    BY <2>2, EmptyFacts
<1>4. end # 100
  OBVIOUS
<1>5. IsSeq(f)
  BY OneFacts, ThreeFacts DEF Final
<1>6. due' = IF m.type = 0 THEN pieces \o f ELSE f
  <2>1. due' = CASE m.type = 0 -> pieces \o (IF ok THEN <<"crlf">> ELSE <<"error">>)
                 [] m.type # 0 /\ ~ok -> <<"error">>
                 [] m.type = 1 /\ ok -> <<"spawned", "pid", "crlf">>
                 [] OTHER -> <<"ok">>
    BY <1>1
  <2> HIDE DEF pieces
  <2>2. CASE m.type = 0
    <3>1. f = IF ok THEN <<"crlf">> ELSE <<"error">>
      BY <2>2 DEF Final
    <3>2. due' = pieces \o (IF ok THEN <<"crlf">> ELSE <<"error">>)
      BY <2>1, <2>2
    <3> QED
      BY <2>2, <3>1, <3>2, Zenon
  <2>3. CASE m.type # 0 /\ ~ok
    BY <2>1, <2>3 DEF Final
  <2>4. CASE m.type = 1 /\ ok
    BY <2>1, <2>4 DEF Final
  <2>5. CASE m.type \notin {0, 1} /\ ok
    BY <2>1, <2>5 DEF Final
  <2> QED
    BY <2>2, <2>3, <2>4, <2>5
<1>7. \A op \in DOMAIN Operation : m.type = Operation[op] => Final(op, end) = f
  BY DEF Operation, Final
<1> HIDE DEF pieces, end, f
<1>8. /\ IsSeq(s) /\ Len(s) = Len(pieces) + 1 /\ Len(pieces) \in Nat
      /\ \A i \in 1 .. Len(s) : s[i].to = "command" /\ (s[i].type = 100 <=> i < Len(s))
      /\ s[Len(s)].type = end /\ Says(s, Len(pieces), pieces, 0)
  <2>1. IsSeq(pieces)
    BY <1>3
  <2> QED
    BY <1>4, <2>1, ResponseFacts
<1> HIDE DEF s
<1>9. Reply(s, Len(pieces)) /\ \A i \in 1 .. Len(s) : s[i].to \in To["fat32"]
  BY <1>8 DEF Reply, To
<1>10. Took("fat32", m, "idle", s)
  BY <1>2, <1>8, <1>9 DEF Took
<1>11. IsSeq(due') /\ Closes(due', Len(pieces), f) /\ \A i \in 1 .. Len(pieces) : due'[i] = pieces[i]
  <2>1. Len(f) \in Nat
    BY <1>5, LenFacts
  <2>2. CASE m.type = 0
    <3>1. /\ IsSeq(due') /\ Len(due') = Len(pieces) + Len(f)
          /\ \A i \in 1 .. Len(due') : due'[i] = IF i <= Len(pieces) THEN pieces[i] ELSE f[i - Len(pieces)]
      BY <1>3, <1>5, <1>6, <2>2, ConcatFacts, Zenon
    <3> QED
      BY <1>8, <2>1, <3>1 DEF Closes
  <2>3. CASE m.type # 0
    <3>1. due' = f /\ Len(pieces) = 0
      BY <1>3, <1>6, <2>3
    <3> QED
      BY <1>5, <2>1, <3>1 DEF Closes
  <2> QED
    BY <2>2, <2>3
<1>12. Says(s, Len(pieces), due', 0)
  BY <1>8, <1>11 DEF Says
<1>13. Fat32Outcome(m, s)
  BY <1>2, <1>3, <1>7, <1>8, <1>9, <1>10, <1>11, <1>12 DEF Fat32Outcome
<1> QED
  BY <1>13

LEMMA Fat32TakeCases ==
  ASSUME Typed, Fat32Take
  PROVE  \E m : Fat32Stops(m) \/ \E messages : Fat32Outcome(m, messages)
<1>1. PICK m : recv("fat32", m) /\ (Fat32Answer(m) \/ Fat32Fault(m))
  BY DEF Fat32Take
<1>2. UNCHANGED <<line, presses, inputs, lost, stray, shown>>
  BY DEF Fat32Take
<1>3. CASE Fat32Answer(m)
  BY <1>1, <1>2, <1>3, Fat32AnswerCases DEF Fat32Answers
<1>4. CASE Fat32Fault(m)
  <2>1. Then("fat32", "stopped", <<>>)
    BY <1>4 DEF Fat32Fault
  <2> QED
    BY <1>1, <1>2, <2>1, EmptyFacts DEF Fat32Stops, Took
<1> QED
  BY <1>1, <1>3, <1>4

LEMMA TookTyped ==
  ASSUME Typed, NEW p \in Programs, NEW m, NEW next, NEW messages, Took(p, m, next, messages),
         IsSeq(line'), Len(line') <= LINE, stray' \in BOOLEAN
  PROVE  Typed'
BY TakeTyped DEF Took

LEMMA SkippedTyped ==
  ASSUME Typed, NEW p \in Programs, NEW m, Skipped(p, m)
  PROVE  Typed'
BY SkipTyped DEF Skipped

\* The drivers leave the dialogue alone.
Aside ==
  /\ UNCHANGED <<lost, stray, due, shown>>
  /\ \A p \in Dialogue : UNCHANGED <<mail[p], out[p], pc[p]>>

LEMMA DriverStep ==
  ASSUME Typed, Press \/ Keyboard \/ SerialOut \/ SerialIn
  PROVE  Typed' /\ Aside
<1> USE DEF Programs, Dialogue
<1>1. IsSeq(line) /\ Len(line) <= LINE /\ stray \in BOOLEAN /\ IsSeq(<<>>) /\ Len(<<>>) = 0
  BY EmptyFacts DEF Typed
<1>2. CASE Press
  <2>1. Typed'
    BY <1>2, PressTyped
  <2>2. Aside
    BY <1>2 DEF Press, Aside, Ghosts, Typed
  <2> QED
    BY <2>1, <2>2
<1>3. CASE Keyboard
  <2>1. PICK m : /\ recv("keyboard", m)
                 /\ Then("keyboard", "idle", IF m.text.release \/ m.text.key = "unmapped" THEN <<>>
                                             ELSE <<Msg("shell", 0, m.text.key)>>)
    BY <1>3 DEF Keyboard
  <2> DEFINE s == IF m.text.release \/ m.text.key = "unmapped" THEN <<>> ELSE <<Msg("shell", 0, m.text.key)>>
  <2>2. IsSeq(s) /\ \A i \in 1 .. Len(s) : s[i].to \in To["keyboard"]
    <3> DEFINE e == Msg("shell", 0, m.text.key)
    <3>1. e.to = "shell"
      BY DEF Msg
    <3>2. IsSeq(<<e>>) /\ Len(<<e>>) = 1 /\ <<e>>[1] = e
      BY OneFacts
    <3> HIDE DEF e
    <3>3. IsSeq(<<e>>) /\ \A i \in 1 .. Len(<<e>>) : <<e>>[i].to \in To["keyboard"]
      BY <3>1, <3>2 DEF To
    <3>4. IsSeq(<<>>) /\ \A i \in 1 .. Len(<<>>) : <<>>[i].to \in To["keyboard"]
      BY <1>1
    <3>5. CASE m.text.release \/ m.text.key = "unmapped"
      BY <3>4, <3>5
    <3>6. CASE ~(m.text.release \/ m.text.key = "unmapped")
      BY <3>3, <3>6 DEF e
    <3> QED
      BY <3>5, <3>6
  <2>3. recv("keyboard", m) /\ Then("keyboard", "idle", s) /\ UNCHANGED <<line, presses, inputs, lost, stray, due, shown>>
    BY <1>3, <2>1 DEF Keyboard, Ghosts
  <2> HIDE DEF s
  <2>4. Took("keyboard", m, "idle", s)
    BY <2>2, <2>3 DEF Took
  <2>5. Typed'
    BY <1>1, <2>3, <2>4, TookTyped
  <2>6. Received("keyboard", m) /\ Taken("keyboard", "idle", s)
    BY <2>3, RecvEffect, ThenEffect
  <2>7. Aside
    BY <2>3, <2>6 DEF Aside, Received, Taken
  <2> QED
    BY <2>5, <2>7
<1>4. CASE SerialOut
  <2>1. PICK m : recv("serial", m)
    BY <1>4 DEF SerialOut
  <2>2. UNCHANGED <<out, pc, line, presses, inputs, lost, stray, due, shown>>
    BY <1>4 DEF SerialOut, Ghosts
  <2>3. Typed'
    BY <2>1, <2>2, SkipTyped
  <2>4. Received("serial", m)
    BY <2>1, RecvEffect
  <2>5. Aside
    BY <2>2, <2>4 DEF Aside, Received
  <2> QED
    BY <2>3, <2>5
<1>5. CASE SerialIn
  <2>1. PICK c : Then("serial", "idle", <<Msg("shell", 0, c)>>)
    BY <1>5 DEF SerialIn
  <2> DEFINE e == Msg("shell", 0, c)
             s == <<e>>
  <2>2. e.to = "shell" /\ IsSeq(s) /\ Len(s) = 1 /\ s[1] = e
    BY OneFacts DEF Msg
  <2>3. Then("serial", "idle", s) /\ UNCHANGED <<mail, line, presses, lost, stray, due, shown>>
    BY <1>5, <2>1 DEF SerialIn, Ghosts
  <2> HIDE DEF e, s
  <2>4. Taken("serial", "idle", s)
    BY <2>3, ThenEffect
  <2>5. \A i \in 1 .. Len(s) : s[i].to \in To["serial"]
    BY <2>2 DEF To
  <2>6. \A q \in Programs : OutTyped(q)'
    BY <2>2, <2>4, <2>5, TakenTyped
  <2>7. inputs' \in 0 .. MaxInputs
    BY <1>5, ServicesAssumption DEF SerialIn, Typed
  <2>8. pc' \in [Programs -> {"idle", "line", "wait", "bye", "exit", "stopped"} \cup DOMAIN Operation]
    BY <2>3, SMTT(30) DEF Then, Typed
  <2>9. Typed'
    BY <2>3, <2>4, <2>6, <2>7, <2>8 DEF Typed, Taken, MailTyped
  <2>10. Aside
    BY <2>3, <2>4 DEF Aside, Taken
  <2> QED
    BY <2>9, <2>10
<1> QED
  BY <1>2, <1>3, <1>4, <1>5

LEMMA TypedStep ==
  ASSUME Typed, Next
  PROVE  Typed' /\ (stray => stray')
<1>1. "shell" \in Programs /\ "command" \in Programs /\ "fat32" \in Programs /\ TRUE \in BOOLEAN
  BY DEF Programs
<1>2. IsSeq(line) /\ Len(line) <= LINE /\ stray \in BOOLEAN
  BY SMTT(30) DEF Typed
<1>3. ASSUME NEW p \in Programs, send(p) PROVE Typed' /\ (stray => stray')
  <2>1. Typed'
    BY <1>3, SendTyped DEF Next
  <2> QED
    BY <1>3, <2>1 DEF send
<1>4. CASE Press \/ Keyboard \/ SerialOut \/ SerialIn
  BY <1>4, DriverStep DEF Aside
<1>5. CASE ShellKey
  <2>1. PICK m, messages : ShellKeyOutcome(m, messages)
    BY <1>5, ShellKeyCases
  <2>2. Typed'
    BY <1>1, <1>2, <2>1, TookTyped DEF ShellKeyOutcome
  <2> QED
    BY <2>1, <2>2 DEF ShellKeyOutcome
<1>6. CASE ShellAnswer
  <2>1. PICK m, messages : ShellAnswerOutcome(m, messages)
    BY <1>6, ShellAnswerCases
  <2>2. Typed'
    BY <1>1, <1>2, <2>1, TookTyped, SkippedTyped DEF ShellAnswerOutcome
  <2> QED
    BY <2>1, <2>2 DEF ShellAnswerOutcome
<1>7. CASE CommandTake
  <2>1. PICK m, messages : CommandTakeOutcome(m, messages)
    BY <1>7, CommandTakeCases
  <2>2. Typed'
    BY <1>1, <1>2, <2>1, TookTyped, SkippedTyped DEF CommandTakeOutcome
  <2> QED
    BY <2>1, <2>2 DEF CommandTakeOutcome
<1>8. CASE CommandResponse
  <2>1. PICK m, messages : CommandResponseOutcome(m, messages)
    BY <1>8, CommandResponseCases
  <2>2. Typed'
    BY <1>1, <1>2, <2>1, TookTyped, SkippedTyped, Zenon DEF CommandResponseOutcome
  <2> QED
    BY <2>1, <2>2 DEF CommandResponseOutcome, Skipped
<1>9. CASE Fat32Take
  <2>1. PICK m, messages : Fat32Stops(m) \/ Fat32Outcome(m, messages)
    BY <1>9, Fat32TakeCases
  <2>2. Typed'
    BY <1>1, <1>2, <2>1, TookTyped DEF Fat32Outcome, Fat32Stops
  <2> QED
    BY <2>1, <2>2 DEF Fat32Outcome, Fat32Stops
<1> QED
  BY <1>3, <1>4, <1>5, <1>6, <1>7, <1>8, <1>9 DEF Next
=============================================================================

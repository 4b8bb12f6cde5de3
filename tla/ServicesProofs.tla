--------------------------- MODULE ServicesProofs ---------------------------
(***************************************************************************)
(* That the programs of Services stay in step and the shell shows what the *)
(* servers answer, for mailboxes of every size, lines and files of every   *)
(* length and any keys.  The dialogue about a line goes through the phases *)
(* below; in each the messages under way are known, and which piece of the *)
(* text each of them carries.                                              *)
(***************************************************************************)
EXTENDS ServicesSteps, ServicesTexts

-----------------------------------------------------------------------------
(* The phases.                                                             *)

\* The shell reads a line.
Reading ==
  /\ pc["shell"] = "line" /\ EchoOnly(out["shell"]) /\ KeysOnly(mail["shell"])
  /\ pc["command"] = "idle" /\ out["command"] = <<>> /\ mail["command"] = <<>>
  /\ mail["fat32"] = <<>> /\ out["fat32"] = <<>> /\ shown = due

\* The shell is about to send the line to the command server.
Asking ==
  /\ pc["shell"] = "wait" /\ LineLast(out["shell"]) /\ KeysOnly(mail["shell"])
  /\ pc["command"] = "idle" /\ out["command"] = <<>> /\ mail["command"] = <<>>
  /\ mail["fat32"] = <<>> /\ out["fat32"] = <<>> /\ shown = <<>>

\* The line is in the mailbox of the command server.
Asked ==
  /\ pc["shell"] = "wait" /\ EchoOnly(out["shell"]) /\ KeysOnly(mail["shell"])
  /\ pc["command"] = "idle" /\ out["command"] = <<>> /\ Only(mail["command"], 1)
  /\ mail["fat32"] = <<>> /\ out["fat32"] = <<>> /\ shown = <<>>

\* The command server is about to send its request to the file server.
Requesting ==
  /\ pc["shell"] = "wait" /\ EchoOnly(out["shell"]) /\ KeysOnly(mail["shell"])
  /\ pc["command"] \in DOMAIN Operation /\ Request(out["command"], Operation[pc["command"]])
  /\ mail["command"] = <<>> /\ mail["fat32"] = <<>> /\ out["fat32"] = <<>> /\ shown = <<>>

\* The request is in the mailbox of the file server.
Requested ==
  /\ pc["shell"] = "wait" /\ EchoOnly(out["shell"]) /\ KeysOnly(mail["shell"])
  /\ pc["command"] \in DOMAIN Operation /\ out["command"] = <<>> /\ mail["command"] = <<>>
  /\ Only(mail["fat32"], Operation[pc["command"]]) /\ out["fat32"] = <<>> /\ shown = <<>>

\* The response is under way.
Responding ==
  /\ pc["shell"] = "wait" /\ EchoOnly(out["shell"]) /\ TextOnly(mail["shell"])
  /\ pc["command"] \in DOMAIN Operation /\ TextOut(out["command"]) /\ mail["fat32"] = <<>>
  /\ UnderWay(mail["command"], out["fat32"], pc["command"])
  /\ ResponseOwed(mail["shell"], shown, due, out["command"], mail["command"], out["fat32"], pc["command"])

\* The command server is done but for the messages it has to send.
Answering ==
  /\ pc["shell"] = "wait" /\ EchoOnly(out["shell"]) /\ TextOnly(mail["shell"])
  /\ pc["command"] \in {"idle", "exit"} /\ Answer(out["command"], End) /\ mail["command"] = <<>>
  /\ mail["fat32"] = <<>> /\ out["fat32"] = <<>>
  /\ AnswerOwed(mail["shell"], shown, due, out["command"])

\* The end of the answer is in the mailbox of the shell.
Ending ==
  /\ pc["shell"] = "wait" /\ EchoOnly(out["shell"]) /\ EndIn(mail["shell"], End)
  /\ pc["command"] \in {"idle", "exit"} /\ out["command"] = <<>> /\ mail["command"] = <<>>
  /\ mail["fat32"] = <<>> /\ out["fat32"] = <<>>
  /\ EndOwed(mail["shell"], shown, due, End)

\* The end of the answer does not come: after the usage message of writefile, or
\* after the file server has stopped.
Muted ==
  /\ pc["shell"] = "wait" /\ EchoOnly(out["shell"]) /\ TextOnly(mail["shell"])
  /\ TextOut(out["command"]) /\ mail["command"] = <<>>
  /\ mail["fat32"] = <<>> /\ out["fat32"] = <<>>

\* The shell has ended, and so has the command server.
Bye ==
  /\ pc["shell"] = "bye" /\ pc["command"] = "exit" /\ out["command"] = <<>>
  /\ mail["fat32"] = <<>> /\ out["fat32"] = <<>> /\ shown = due

Phase ==
  \/ Bye \/ Reading \/ Asking \/ Asked \/ Requesting \/ Requested
  \/ Responding \/ Answering \/ Ending \/ Muted

IInv == Typed /\ (lost \/ stray \/ Phase)

-----------------------------------------------------------------------------
(* Every step keeps the phase or leads to the next one.                    *)

LEMMA AsidePhase ==
  ASSUME Aside, Phase
  PROVE  Phase'
<1>1. /\ mail'["shell"] = mail["shell"] /\ out'["shell"] = out["shell"] /\ pc'["shell"] = pc["shell"]
      /\ mail'["command"] = mail["command"] /\ out'["command"] = out["command"] /\ pc'["command"] = pc["command"]
      /\ mail'["fat32"] = mail["fat32"] /\ out'["fat32"] = out["fat32"] /\ shown' = shown /\ due' = due
  BY DEF Aside, Dialogue
<1> QED
  BY <1>1, Zenon DEF Phase, Reading, Asking, Asked, Requesting, Requested, Responding, Answering, Ending, Muted, Bye, End

LEMMA KeyInbox ==
  ASSUME NEW s, NEW t, NEW e, e.from # "command", Longer(s, t, e) \/ Shorter(s, t, e), NEW end
  PROVE  /\ KeysOnly(s) => KeysOnly(t)
         /\ TextOnly(s) => TextOnly(t)
         /\ EndIn(s, end) => EndIn(t, end)
<1>1. CASE Longer(s, t, e)
  <2>1. KeysOnly(s) => KeysOnly(t)
    BY <1>1 DEF Longer, KeysOnly
  <2>2. TextOnly(s) => TextOnly(t)
    BY <1>1 DEF Longer, TextOnly
  <2>3. ASSUME NEW k \in 1 .. Len(s), EndAt(s, k, end) PROVE EndIn(t, end)
    <3>1. k \in 1 .. Len(t) /\ t[k] = s[k]
      BY <1>1, <2>3 DEF Longer
    <3>2. EndAt(t, k, end)
      BY <1>1, <2>3, <3>1 DEF Longer, EndAt
    <3> QED
      BY <3>1, <3>2 DEF EndIn
  <2> QED
    BY <2>1, <2>2, <2>3 DEF EndIn
<1>2. CASE Shorter(s, t, e)
  <2>1. KeysOnly(s) => KeysOnly(t)
    BY <1>2 DEF Shorter, KeysOnly
  <2>2. TextOnly(s) => TextOnly(t)
    BY <1>2 DEF Shorter, TextOnly
  <2>3. ASSUME NEW k \in 1 .. Len(s), EndAt(s, k, end) PROVE EndIn(t, end)
    <3>1. k # 1
      BY <1>2, <2>3 DEF Shorter, EndAt
    <3>2. k - 1 \in 1 .. Len(t) /\ t[k - 1] = s[k]
      BY <1>2, <2>3, <3>1 DEF Shorter
    <3>3. EndAt(t, k - 1, end)
      BY <1>2, <2>3, <3>1, <3>2, SMTT(30) DEF Shorter, EndAt
    <3> QED
      BY <3>2, <3>3 DEF EndIn
  <2> QED
    BY <2>1, <2>2, <2>3 DEF EndIn
<1> QED
  BY <1>1, <1>2

\* A key arrives at the shell, or the shell takes one while it waits.
LEMMA KeyPhase ==
  ASSUME Typed, Phase, NEW e, e.from # "command",
         Arrived("shell", e) \/ Received("shell", e),
         UNCHANGED <<pc, due, shown>>, \A p \in Dialogue : out'[p] = out[p]
  PROVE  Phase'
<1>1. /\ out'["shell"] = out["shell"] /\ out'["command"] = out["command"] /\ out'["fat32"] = out["fat32"]
      /\ mail'["command"] = mail["command"] /\ mail'["fat32"] = mail["fat32"]
  BY DEF Arrived, Received, Dialogue, Programs
<1>2. Longer(mail["shell"], mail'["shell"], e) \/ Shorter(mail["shell"], mail'["shell"], e)
  BY SMTT(30) DEF Arrived, Received, Longer, Shorter
<1>3. /\ KeysOnly(mail["shell"]) => KeysOnly(mail'["shell"])
      /\ TextOnly(mail["shell"]) => TextOnly(mail'["shell"])
      /\ EndIn(mail["shell"], End) => EndIn(mail'["shell"], End)
  BY <1>2, KeyInbox, Zenon
<1>4. /\ \A u : AnswerOwed(mail["shell"], shown, due, u) => AnswerOwed(mail'["shell"], shown, due, u)
      /\ \A end : EndOwed(mail["shell"], shown, due, end) => EndOwed(mail'["shell"], shown, due, end)
      /\ \A u, v, w, op : ResponseOwed(mail["shell"], shown, due, u, v, w, op)
                             => ResponseOwed(mail'["shell"], shown, due, u, v, w, op)
  BY <1>2, KeyOwed, Zenon
<1>5. shown' = shown /\ due' = due /\ pc' = pc
  OBVIOUS
<1> QED
  BY <1>1, <1>3, <1>4, <1>5, Zenon DEF Phase, Reading, Asking, Asked, Requesting, Requested, Responding, Answering, Ending, Muted, Bye, End

\* What is left when the first message is sent.
LEMMA ShellOut ==
  ASSUME NEW s, NEW t, NEW e, Shorter(s, t, e)
  PROVE  /\ EchoOnly(s) => EchoOnly(t) /\ e.to = "serial"
         /\ LineLast(s) /\ e.to = "serial" => LineLast(t)
         /\ LineLast(s) /\ e.to = "command" => EchoOnly(t) /\ e.type = 1
<1>1. EchoOnly(s) => EchoOnly(t) /\ e.to = "serial"
  BY DEF Shorter, EchoOnly
<1>2. ASSUME LineLast(s), e.to = "serial" PROVE LineLast(t)
  <2>1. Len(s) > 1
    BY <1>2 DEF Shorter, LineLast
  <2> QED
    BY <1>2, <2>1 DEF Shorter, LineLast
<1>3. ASSUME LineLast(s), e.to = "command" PROVE EchoOnly(t) /\ e.type = 1
  <2>1. Len(s) = 1
    BY <1>3 DEF Shorter, LineLast
  <2> QED
    BY <1>3, <2>1 DEF Shorter, LineLast, EchoOnly
<1> QED
  BY <1>1, <1>2, <1>3

LEMMA TextSent ==
  ASSUME NEW s, NEW t, NEW e, Shorter(s, t, e), TextOut(s)
  PROVE  TextOut(t) /\ e.to = "shell" /\ e.type = 2
BY DEF Shorter, TextOut

LEMMA AnswerSent ==
  ASSUME NEW s, NEW t, IsSeq(t), NEW e, Shorter(s, t, e), NEW end, Answer(s, end)
  PROVE  /\ e.to = "shell"
         /\ \/ Answer(t, end) /\ e.type = 2
            \/ t = <<>> /\ e.type = end
<1>1. Len(t) \in Nat /\ (t = <<>> <=> Len(t) = 0)
  BY LenFacts
<1>2. CASE Len(s) = 1
  BY <1>1, <1>2 DEF Shorter, Answer
<1>3. CASE Len(s) # 1
  <2>1. t # <<>> /\ e.type = 2 /\ e.to = "shell"
    BY <1>1, <1>3 DEF Shorter, Answer
  <2>2. ASSUME NEW i \in 1 .. Len(t)
        PROVE  t[i].to = "shell" /\ t[i].type = IF i < Len(t) THEN 2 ELSE end
    <3>1. i + 1 \in 1 .. Len(s) /\ t[i] = s[i + 1] /\ (i < Len(t) <=> i + 1 < Len(s))
      BY <2>2 DEF Shorter
    <3> QED
      BY <3>1 DEF Answer
  <2> QED
    BY <2>1, <2>2 DEF Answer
<1> QED
  BY <1>2, <1>3 DEF Shorter

\* What the answer makes of the mailbox of the shell.
LEMMA TextInbox ==
  ASSUME NEW s, NEW t, NEW e, e.from = "command", Longer(s, t, e), TextOnly(s)
  PROVE  /\ e.type = 2 => TextOnly(t)
         /\ \A end : e.type = end => EndIn(t, end)
<1>1. e.type = 2 => TextOnly(t)
  BY DEF Longer, TextOnly
<1>2. ASSUME NEW end, e.type = end PROVE EndIn(t, end)
  <2>1. Len(t) \in 1 .. Len(t)
    BY DEF Longer
  <2>2. EndAt(t, Len(t), end)
    BY <1>2 DEF Longer, TextOnly, EndAt
  <2> QED
    BY <2>1, <2>2 DEF EndIn
<1> QED
  BY <1>1, <1>2

\* What the shell finds when it takes a message of the command server.
LEMMA TextTaken ==
  ASSUME NEW s, NEW t, NEW e, e.from = "command", Shorter(s, t, e)
  PROVE  /\ ~KeysOnly(s)
         /\ TextOnly(s) => TextOnly(t) /\ e.type = 2
         /\ \A end : EndIn(s, end) => (e.type = 2 /\ EndIn(t, end)) \/ (e.type = end /\ KeysOnly(t))
<1>1. ~KeysOnly(s)
  BY DEF Shorter, KeysOnly
<1>2. TextOnly(s) => TextOnly(t) /\ e.type = 2
  BY DEF Shorter, TextOnly
<1>3. ASSUME NEW end, NEW k \in 1 .. Len(s), EndAt(s, k, end)
      PROVE  (e.type = 2 /\ EndIn(t, end)) \/ (e.type = end /\ KeysOnly(t))
  <2>1. CASE k = 1
    <3>1. e.type = end
      BY <1>3, <2>1 DEF Shorter, EndAt
    <3>2. KeysOnly(t)
      BY <1>3, <2>1 DEF Shorter, EndAt, KeysOnly
    <3> QED
      BY <3>1, <3>2
  <2>2. CASE k # 1
    <3>1. e.type = 2
      BY <1>3, <2>2 DEF Shorter, EndAt
    <3>2. k - 1 \in 1 .. Len(t) /\ t[k - 1] = s[k]
      BY <1>3, <2>2 DEF Shorter
    <3>3. EndAt(t, k - 1, end)
      BY <1>3, <3>2 DEF Shorter, EndAt
    <3> QED
      BY <3>1, <3>2, <3>3 DEF EndIn
  <2> QED
    BY <2>1, <2>2
<1> QED
  BY <1>1, <1>2, <1>3 DEF EndIn

\* A message of the response is delivered, or taken.
LEMMA ResponseMoves ==
  ASSUME NEW s, NEW s2, NEW t, NEW t2, NEW m, NEW e, NEW op, UnderWay(s, t, op),
         Longer(s, s2, e), Shorter(t, t2, m), e.from = "fat32", e.type = m.type
  PROVE  UnderWay(s2, t2, op)
<1>1. Len(s2) + Len(t2) = Len(s) + Len(t) /\ Len(s) + Len(t) \in Nat
  BY DEF Longer, Shorter
<1>2. ASSUME NEW i \in 1 .. Len(s2)
      PROVE  s2[i].from = "fat32" /\ (s2[i].type = 100 <=> i < Len(s2) + Len(t2))
  <2>1. CASE i <= Len(s)
    BY <1>1, <1>2, <2>1 DEF UnderWay, Longer
  <2>2. CASE ~(i <= Len(s))
    <3>1. i = Len(s) + 1 /\ s2[i] = e
      BY <1>2, <2>2 DEF Longer
    <3>2. m.type = 100 <=> 1 < Len(t)
      BY DEF UnderWay, Shorter
    <3>3. Len(s) \in Nat /\ Len(t) \in Nat
      BY DEF Longer, Shorter
    <3> QED
      BY <1>1, <3>1, <3>2, <3>3
  <2> QED
    BY <2>1, <2>2
<1>3. ASSUME NEW i \in 1 .. Len(t2) PROVE t2[i].type = 100 <=> i < Len(t2)
  <2>1. i + 1 \in 1 .. Len(t) /\ t2[i] = t[i + 1] /\ (i < Len(t2) <=> i + 1 < Len(t))
    BY <1>3 DEF Shorter
  <2> QED
    BY <2>1 DEF UnderWay
<1> QED
  BY <1>1, <1>2, <1>3 DEF UnderWay

LEMMA ResponseTaken ==
  ASSUME NEW s, NEW s2, NEW t, IsSeq(t), NEW e, NEW op, UnderWay(s, t, op), Shorter(s, s2, e)
  PROVE  /\ e.from = "fat32"
         /\ e.type = 100 => op = "r" /\ UnderWay(s2, t, op)
         /\ e.type # 100 => Len(s2) = 0 /\ Len(t) = 0
<1>1. Len(t) \in Nat
  BY LenFacts
<1>2. e.from = "fat32" /\ (e.type = 100 <=> 1 < Len(s) + Len(t))
  BY DEF UnderWay, Shorter
<1>3. ASSUME e.type = 100 PROVE op = "r" /\ UnderWay(s2, t, op)
  <2>1. op = "r" /\ Len(s2) + Len(t) > 0
    BY <1>1, <1>2, <1>3 DEF UnderWay, Shorter
  <2>2. ASSUME NEW i \in 1 .. Len(s2)
        PROVE  s2[i].from = "fat32" /\ (s2[i].type = 100 <=> i < Len(s2) + Len(t))
    <3>1. i + 1 \in 1 .. Len(s) /\ s2[i] = s[i + 1] /\ (i < Len(s2) + Len(t) <=> i + 1 < Len(s) + Len(t))
      BY <1>1, <2>2 DEF Shorter
    <3> QED
      BY <3>1 DEF UnderWay
  <2> QED
    BY <2>1, <2>2 DEF UnderWay
<1>4. e.type # 100 => Len(s2) = 0 /\ Len(t) = 0
  BY <1>1, <1>2 DEF Shorter
<1> QED
  BY <1>2, <1>3, <1>4

\* An empty mailbox or queue has no message to take.
LEMMA Nonempty ==
  ASSUME NEW s, NEW t, NEW e, Shorter(s, t, e)
  PROVE  s # <<>>
BY EmptyFacts DEF Shorter

LEMMA SendPhase ==
  ASSUME Typed, Phase, ~lost, NEW p \in Programs, send(p)
  PROVE  lost' \/ Phase'
<1>1. PICK m : /\ Gone(p, m)
               /\ \/ /\ mail' = mail /\ lost' = (lost \/ {p, m.to} \subseteq Dialogue)
                  \/ /\ Arrived(m.to, [from |-> p, type |-> m.type, text |-> m.text])
                     /\ Len(mail[m.to]) < QUEUE /\ lost' = lost
  BY SendEffect
<1> DEFINE e == [from |-> p, type |-> m.type, text |-> m.text]
<1>2. e.from = p /\ e.type = m.type /\ e.text = m.text
  OBVIOUS
<1>3. mail' = mail \/ Arrived(m.to, e)
  BY <1>1
<1>4. p \in Dialogue /\ m.to \in Dialogue => lost' \/ Arrived(m.to, e)
  BY <1>1, Zenon
<1> HIDE DEF e
<1>5. UNCHANGED <<pc, due, shown>> /\ m.to \in To[p]
  BY <1>1, Zenon DEF send, Gone
<1>6. Shorter(out[p], out'[p], m) /\ IsSeq(out'[p]) /\ \A q \in Programs \ {p} : out'[q] = out[q]
  BY <1>1 DEF Gone, Shorter
<1>7. out[p] # <<>>
  BY <1>6, Nonempty
<1>8. CASE p \in {"keyboard", "serial"}
  <2>1. m.to = "shell" /\ \A q \in Dialogue : out'[q] = out[q]
    BY <1>5, <1>6, <1>8 DEF To, Dialogue, Programs
  <2>2. CASE mail' = mail
    <3>1. CASE lost'
      BY <3>1
    <3>2. CASE ~lost'
      <4>1. Phase'
        BY <1>5, <2>1, <2>2, Zenon DEF Phase, Reading, Asking, Asked, Requesting, Requested, Responding,
                                Answering, Ending, Muted, Bye, End, Dialogue
      <4> QED
        BY <4>1, SMTT(30)
    <3> QED
      BY <3>1, <3>2
  <2>3. CASE Arrived(m.to, e)
    <3>1. e.from # "command"
      BY <1>2, <1>8
    <3> QED
      BY <1>5, <2>1, <2>3, <3>1, KeyPhase
  <2> QED
    BY <1>3, <2>2, <2>3
<1>9. CASE p = "shell"
  <2>1. m.to \in {"serial", "command"}
    BY <1>5, <1>9 DEF To
  <2>2. out'["command"] = out["command"] /\ out'["fat32"] = out["fat32"]
    BY <1>6, <1>9 DEF Programs
  <2>3. /\ EchoOnly(out["shell"]) => EchoOnly(out'["shell"]) /\ m.to = "serial"
        /\ LineLast(out["shell"]) /\ m.to = "serial" => LineLast(out'["shell"])
        /\ LineLast(out["shell"]) /\ m.to = "command" => EchoOnly(out'["shell"]) /\ m.type = 1
    BY <1>6, <1>9, ShellOut
  <2>4. CASE m.to = "serial"
    <3>1. /\ mail'["shell"] = mail["shell"] /\ mail'["command"] = mail["command"]
          /\ mail'["fat32"] = mail["fat32"]
      BY <1>3, <2>4, SMTT(30) DEF Arrived, Programs
    <3>2. Phase'
      BY <1>5, <2>2, <2>3, <2>4, <3>1, Zenon DEF Phase, Reading, Asking, Asked, Requesting, Requested,
                                          Responding, Answering, Ending, Muted, Bye, End
    <3> QED
      BY <3>2
  <2>5. CASE m.to = "command"
    <3>1. Asking \/ Bye
      BY <2>3, <2>5, Zenon DEF Phase, Reading, Asked, Requesting, Requested, Responding, Answering, Ending, Muted
    <3>2. ASSUME Bye, lost' \/ Arrived("command", e) PROVE lost' \/ Phase'
      <4>1. lost' \/ mail'["fat32"] = mail["fat32"]
        BY <3>2 DEF Arrived, Programs
      <4> QED
        BY <1>5, <2>2, <3>2, <4>1, Zenon DEF Phase, Bye
    <3>3. CASE Asking /\ Arrived("command", e)
      <4>1. mail'["shell"] = mail["shell"] /\ mail'["fat32"] = mail["fat32"]
        BY <3>3 DEF Arrived, Programs
      <4>2. mail["command"] = <<>>
        BY <3>3 DEF Asking
      <4>3. EchoOnly(out'["shell"]) /\ m.type = 1
        BY <2>3, <2>5, <3>3 DEF Asking
      <4>4. Only(mail'["command"], 1)
        BY <1>2, <3>3, <4>2, <4>3, EmptyFacts, SMTT(30) DEF Arrived, Only
      <4>5. Asked'
        BY <1>5, <2>2, <3>3, <4>1, <4>3, <4>4 DEF Asking, Asked
      <4> QED
        BY <4>5 DEF Phase
    <3>4. lost' \/ Arrived("command", e)
      BY <1>4, <1>9, <2>5 DEF Dialogue
    <3> QED
      BY <3>1, <3>2, <3>3, <3>4, Zenon
  <2> QED
    BY <2>1, <2>4, <2>5
<1>10. CASE p = "command"
  <2>1. m.to \in {"shell", "fat32"}
    BY <1>5, <1>10 DEF To
  <2>2. out'["shell"] = out["shell"] /\ out'["fat32"] = out["fat32"]
    BY <1>6, <1>10 DEF Programs
  <2>3. lost' \/ Arrived(m.to, e)
    BY <1>4, <1>10, <2>1, SMTT(30) DEF Dialogue
  <2>4. /\ TextOut(out["command"]) => TextOut(out'["command"]) /\ m.to = "shell" /\ m.type = 2
        /\ Answer(out["command"], End) =>
             /\ m.to = "shell"
             /\ (Answer(out'["command"], End) /\ m.type = 2) \/ (out'["command"] = <<>> /\ m.type = End)
    <3>1. Shorter(out["command"], out'["command"], m) /\ IsSeq(out'["command"])
      BY <1>6, <1>10
    <3>2. TextOut(out["command"]) => TextOut(out'["command"]) /\ m.to = "shell" /\ m.type = 2
      BY <3>1, TextSent
    <3>3. ASSUME Answer(out["command"], End)
          PROVE  /\ m.to = "shell"
                 /\ \/ Answer(out'["command"], End) /\ m.type = 2
                    \/ out'["command"] = <<>> /\ m.type = End
      <4> DEFINE s == out["command"]
                 t == out'["command"]
                 end == End
      <4>1. Shorter(s, t, m) /\ IsSeq(t) /\ Answer(s, end)
        BY <3>1, <3>3
      <4> HIDE DEF s, t, end
      <4>2. /\ m.to = "shell"
            /\ \/ Answer(t, end) /\ m.type = 2
               \/ t = <<>> /\ m.type = end
        BY <4>1, AnswerSent
      <4> QED
        BY <4>2 DEF s, t, end
    <3> QED
      BY <3>2, <3>3
  <2>5. End' = End
    BY <1>5 DEF End
  <2>6. CASE Bye
    BY <1>7, <1>10, <2>6 DEF Bye
  <2>7. CASE Requesting /\ Arrived(m.to, e)
    <3>1. m.to = "fat32" /\ m.type = Operation[pc["command"]] /\ Len(out'["command"]) = 0
      BY <1>6, <1>10, <2>7, SMTT(30) DEF Requesting, Request, Shorter
    <3>2. out'["command"] = <<>>
      BY <1>6, <1>10, <3>1, LenFacts
    <3>3. mail'["shell"] = mail["shell"] /\ mail'["command"] = mail["command"]
      BY <2>7, <3>1 DEF Arrived, Programs
    <3>4. mail["fat32"] = <<>>
      BY <2>7 DEF Requesting
    <3>5. Only(mail'["fat32"], Operation[pc["command"]])
      BY <1>2, <2>7, <3>1, <3>4, EmptyFacts DEF Arrived, Only
    <3>6. Requested'
      BY <1>5, <2>2, <2>7, <3>2, <3>3, <3>5 DEF Requesting, Requested
    <3> QED
      BY <3>6 DEF Phase
  <2>8. ASSUME Responding \/ Answering \/ Muted, Arrived(m.to, e) PROVE Phase'
    <3>1. m.to = "shell"
      BY <2>4, <2>8, Zenon DEF Responding, Answering, Muted
    <3>2. mail'["command"] = mail["command"] /\ mail'["fat32"] = mail["fat32"]
      BY <2>8, <3>1, SMTT(30) DEF Arrived, Programs
    <3>3. Longer(mail["shell"], mail'["shell"], e) /\ TextOnly(mail["shell"]) /\ e.from = "command"
      BY <1>2, <1>10, <2>8, <3>1, SMTT(30) DEF Arrived, Longer, Responding, Answering, Muted
    <3>4. /\ e.type = 2 => TextOnly(mail'["shell"])
          /\ \A end : e.type = end => EndIn(mail'["shell"], end)
      BY <3>3, TextInbox, SMTT(30)
    <3>8. /\ \A s, t, op : e.type = 2 /\ ResponseOwed(mail["shell"], shown, due, out["command"], s, t, op)
                            => ResponseOwed(mail'["shell"], shown, due, out'["command"], s, t, op)
          /\ e.type = 2 /\ Len(out'["command"]) # 0 /\ AnswerOwed(mail["shell"], shown, due, out["command"])
               => AnswerOwed(mail'["shell"], shown, due, out'["command"])
          /\ \A end : e.type = end /\ end # 2 /\ Len(out'["command"]) = 0
                        /\ AnswerOwed(mail["shell"], shown, due, out["command"])
                        => EndOwed(mail'["shell"], shown, due, end)
      <4> DEFINE q == mail["shell"]
                 q2 == mail'["shell"]
                 u == out["command"]
                 u2 == out'["command"]
      <4>1. Shorter(u, u2, m) /\ Longer(q, q2, e) /\ TextOnly(q) /\ e.from = "command"
        BY <1>6, <1>10, <3>3
      <4>2. e.type = m.type /\ e.text = m.text
        BY <1>2
      <4> HIDE DEF q, q2, u, u2
      <4>3. /\ \A s, t, op : e.type = 2 /\ ResponseOwed(q, shown, due, u, s, t, op)
                              => ResponseOwed(q2, shown, due, u2, s, t, op)
            /\ e.type = 2 /\ Len(u2) # 0 /\ AnswerOwed(q, shown, due, u) => AnswerOwed(q2, shown, due, u2)
            /\ \A end : e.type = end /\ end # 2 /\ Len(u2) = 0 /\ AnswerOwed(q, shown, due, u)
                          => EndOwed(q2, shown, due, end)
        BY <4>1, <4>2, SentOwed
      <4> QED
        BY <4>3 DEF q, q2, u, u2
    <3>9. shown' = shown /\ due' = due /\ pc' = pc
      BY <1>5
    <3>5. CASE Responding
      <4>1. e.type = 2 /\ TextOut(out'["command"])
        BY <1>2, <2>4, <3>5 DEF Responding
      <4>2. Responding'
        BY <2>2, <3>2, <3>4, <3>5, <3>8, <3>9, <4>1, Zenon DEF Responding
      <4> QED
        BY <4>2 DEF Phase
    <3>6. CASE Muted
      BY <1>2, <1>5, <2>2, <2>4, <3>2, <3>4, <3>6, SMTT(30) DEF Phase, Muted
    <3>7. CASE Answering
      <4>1. CASE Answer(out'["command"], End) /\ m.type = 2
        <5>2. Len(out'["command"]) # 0 /\ e.type = 2
          BY <1>2, <4>1, LenFacts DEF Answer
        <5>3. AnswerOwed(mail'["shell"], shown, due, out'["command"])
          BY <3>7, <3>8, <5>2 DEF Answering
        <5>1. Answering'
          BY <2>2, <2>5, <3>2, <3>4, <3>7, <3>9, <4>1, <5>2, <5>3, Zenon DEF Answering
        <5> QED
          BY <5>1, SMTT(30) DEF Phase
      <4>2. CASE out'["command"] = <<>> /\ m.type = End
        <5>1. EndIn(mail'["shell"], End)
          BY <1>2, <3>4, <4>2
        <5>3. EndOwed(mail'["shell"], shown, due, End)
          <6>1. Len(out'["command"]) = 0 /\ e.type = End /\ End # 2
            BY <1>2, <4>2, EmptyFacts DEF End
          <6> QED
            BY <3>7, <3>8, <6>1 DEF Answering
        <5>2. Ending'
          BY <2>2, <2>5, <3>2, <3>7, <3>9, <4>2, <5>1, <5>3, Zenon DEF Answering, Ending
        <5> QED
          BY <5>2 DEF Phase
      <4> QED
        BY <2>4, <3>7, <4>1, <4>2, Zenon DEF Answering
    <3> QED
      BY <2>8, <3>5, <3>6, <3>7, SMTT(30)
  <2>9. Bye \/ Requesting \/ Responding \/ Answering \/ Muted
    BY <1>7, <1>10 DEF Phase, Reading, Asking, Asked, Requested, Ending
  <2> QED
    BY <2>3, <2>6, <2>7, <2>8, <2>9
<1>11. CASE p = "fat32"
  <2>1. m.to = "command"
    BY <1>5, <1>11 DEF To
  <2>2. out'["shell"] = out["shell"] /\ out'["command"] = out["command"]
    BY <1>6, <1>11 DEF Programs
  <2>3. lost' \/ Arrived("command", e)
    BY <1>4, <1>11, <2>1, SMTT(30) DEF Dialogue
  <2>4. Bye \/ Responding
    BY <1>7, <1>11, Zenon DEF Phase, Reading, Asking, Asked, Requesting, Requested, Answering, Ending, Muted
  <2>5. CASE Bye
    BY <1>7, <1>11, <2>5 DEF Bye
  <2>6. CASE Responding /\ Arrived("command", e)
    <3>1. Longer(mail["command"], mail'["command"], e)
      BY <2>6, SMTT(30) DEF Arrived, Longer
    <3>2. UnderWay(mail["command"], out["fat32"], pc["command"])
      BY <2>6, SMTT(30) DEF Responding
    <3>3. UnderWay(mail'["command"], out'["fat32"], pc["command"])
      BY <1>2, <1>6, <1>11, <3>1, <3>2, ResponseMoves, ZenonT(30)
    <3>4. mail'["shell"] = mail["shell"] /\ mail'["fat32"] = mail["fat32"]
      BY <2>6 DEF Arrived, Programs
    <3>6. ResponseOwed(mail["shell"], shown, due, out["command"], mail'["command"], out'["fat32"], pc["command"])
      <4>1. PICK z \in Nat :
              /\ Holds(mail["shell"], due, Len(shown), Len(mail["shell"]), z)
              /\ Says(out["command"], Len(out["command"]), due, z)
              /\ ResponseSays(mail["command"], out["fat32"], pc["command"], due, z + Len(out["command"]))
        BY <2>6 DEF Responding, ResponseOwed
      <4>2. z + Len(out["command"]) \in Nat
        <5>1. IsSeq(out["command"])
          BY DEF Typed, OutTyped, Programs
        <5> QED
          BY <5>1, LenFacts
      <4>3. ResponseSays(mail'["command"], out'["fat32"], pc["command"], due, z + Len(out["command"]))
        <5> DEFINE s == mail["command"]
                   s2 == mail'["command"]
                   t == out["fat32"]
                   t2 == out'["fat32"]
                   op == pc["command"]
                   y == z + Len(out["command"])
        <5>1. Shorter(t, t2, m) /\ Longer(s, s2, e) /\ y \in Nat /\ ResponseSays(s, t, op, due, y)
          BY <1>6, <1>11, <3>1, <4>1, <4>2
        <5>2. e.type = m.type /\ e.text = m.text
          BY <1>2
        <5> HIDE DEF s, s2, t, t2, op, y
        <5>3. ResponseSays(s2, t2, op, due, y)
          BY <5>1, <5>2, PieceSent
        <5> QED
          BY <5>3 DEF s2, t2, op, y
      <4> QED
        BY <2>6, <4>1, <4>3, Zenon DEF Responding, ResponseOwed
    <3>7. shown' = shown /\ due' = due /\ pc' = pc
      BY <1>5
    <3>5. Responding'
      BY <2>2, <2>6, <3>3, <3>4, <3>6, <3>7, ZenonT(30) DEF Responding
    <3> QED
      BY <3>5 DEF Phase
  <2> QED
    BY <2>3, <2>4, <2>5, <2>6, SMTT(30)
<1> QED
  BY <1>8, <1>9, <1>10, <1>11 DEF Programs

\* A program of the dialogue takes a message.
LEMMA TookEffect ==
  ASSUME Typed, NEW p \in Programs, NEW m, NEW next, NEW messages, Took(p, m, next, messages)
  PROVE  /\ Shorter(mail[p], mail'[p], m) /\ IsSeq(mail'[p]) /\ mail[p] # <<>>
         /\ out[p] = <<>> /\ out'[p] = messages /\ pc'[p] = next
         /\ \A q \in Programs \ {p} : mail'[q] = mail[q] /\ out'[q] = out[q] /\ pc'[q] = pc[q]
<1>1. Received(p, m) /\ Taken(p, next, messages)
  BY RecvEffect, ThenEffect, Zenon DEF Took
<1>2. Shorter(mail[p], mail'[p], m)
  BY <1>1, SMTT(30) DEF Received, Shorter
<1>3. mail[p] # <<>>
  BY <1>2, Nonempty
<1> QED
  BY <1>1, <1>2, <1>3, ZenonT(30) DEF Received, Taken

LEMMA ShellKeyPhase ==
  ASSUME Typed, Phase, ShellKey
  PROVE  Phase'
<1>1. PICK m, messages : ShellKeyOutcome(m, messages)
  BY ShellKeyCases, SMTT(30)
<1>2. Reading
  BY <1>1, Zenon DEF ShellKeyOutcome, Phase, Asking, Asked, Requesting, Requested, Responding, Answering, Ending, Muted, Bye
<1>3. PICK next \in {"line", "wait"} :
        /\ Took("shell", m, next, messages)
        /\ IF next = "line" THEN EchoOnly(messages) /\ UNCHANGED <<due, shown>>
           ELSE Ask(messages) /\ shown' = <<>>
  BY <1>1, SMTT(30) DEF ShellKeyOutcome
<1>4. /\ Shorter(mail["shell"], mail'["shell"], m) /\ out'["shell"] = messages /\ pc'["shell"] = next
      /\ \A q \in Programs \ {"shell"} : mail'[q] = mail[q] /\ out'[q] = out[q] /\ pc'[q] = pc[q]
  BY <1>3, TookEffect, SMTT(30) DEF Programs
<1>5. KeysOnly(mail'["shell"])
  <2>1. KeysOnly(mail["shell"])
    BY <1>2 DEF Reading
  <2> QED
    BY <1>4, <2>1, SMTT(30) DEF Shorter, KeysOnly
<1>6. CASE next = "line"
  <2>1. Reading'
    BY <1>2, <1>3, <1>4, <1>5, <1>6 DEF Reading, Programs
  <2> QED
    BY <2>1, SMTT(30) DEF Phase
<1>7. CASE next = "wait"
  <2>1. LineLast(messages)
    <3>1. Ask(messages)
      BY <1>3, <1>7
    <3>2. \A i \in 1 .. 3 : i # 3 => i = 1 \/ i = 2
      BY SMTT(30)
    <3> QED
      BY <3>1, <3>2 DEF Ask, LineLast
  <2>2. Asking'
    BY <1>2, <1>3, <1>4, <1>5, <1>7, <2>1 DEF Reading, Asking, Programs
  <2> QED
    BY <2>2 DEF Phase
<1> QED
  BY <1>6, <1>7

LEMMA ShellAnswerPhase ==
  ASSUME Typed, Phase, ShellAnswer
  PROVE  Phase'
<1>1. PICK m, messages : ShellAnswerOutcome(m, messages)
  BY ShellAnswerCases
<1>2. CASE m.from # "command"
  <2>1. recv("shell", m) /\ UNCHANGED <<pc, out, due, shown>>
    BY <1>1, <1>2 DEF ShellAnswerOutcome, Skipped
  <2>2. Received("shell", m)
    BY <2>1, RecvEffect DEF Programs
  <2> QED
    BY <1>2, <2>1, <2>2, KeyPhase
<1>3. CASE m.from = "command"
  <2> DEFINE next == IF m.type = 3 THEN "bye" ELSE IF m.type = 4 THEN "line" ELSE "wait"
  <2>1. /\ pc["shell"] = "wait" /\ Took("shell", m, next, messages) /\ EchoOnly(messages) /\ due' = due
        /\ shown' = IF m.type \in {3, 4} THEN shown ELSE Append(shown, m.text)
    BY <1>1, <1>3, SMTT(30) DEF ShellAnswerOutcome
  <2> HIDE DEF next
  <2>2. /\ Shorter(mail["shell"], mail'["shell"], m) /\ out["shell"] = <<>> /\ out'["shell"] = messages
        /\ pc'["shell"] = next
        /\ \A q \in Programs \ {"shell"} : mail'[q] = mail[q] /\ out'[q] = out[q] /\ pc'[q] = pc[q]
    BY <2>1, TookEffect, SMTT(30) DEF Programs
  <2>3. /\ ~KeysOnly(mail["shell"])
        /\ TextOnly(mail["shell"]) => TextOnly(mail'["shell"]) /\ m.type = 2
        /\ \A end : EndIn(mail["shell"], end) =>
             (m.type = 2 /\ EndIn(mail'["shell"], end)) \/ (m.type = end /\ KeysOnly(mail'["shell"]))
    BY <1>3, <2>2, TextTaken, SMTT(30)
  <2>4. Responding \/ Answering \/ Muted \/ Ending
    BY <2>1, <2>3, Zenon DEF Phase, Reading, Asking, Asked, Requesting, Requested, Bye
  <2>5. /\ mail'["command"] = mail["command"] /\ out'["command"] = out["command"] /\ pc'["command"] = pc["command"]
        /\ mail'["fat32"] = mail["fat32"] /\ out'["fat32"] = out["fat32"] /\ End' = End
    BY <2>2 DEF Programs, End
  <2>6. CASE m.type = 2
    <3>1. next = "wait"
      BY <2>6, SMTT(30) DEF next
    <3>6. shown' = Append(shown, m.text)
      BY <2>1, <2>6
    <3>7. /\ \A u : AnswerOwed(mail["shell"], shown, due, u) => AnswerOwed(mail'["shell"], shown', due, u)
          /\ \A end : end # 2 /\ EndOwed(mail["shell"], shown, due, end)
                        => EndOwed(mail'["shell"], shown', due, end)
          /\ \A u, v, w, op : ResponseOwed(mail["shell"], shown, due, u, v, w, op)
                                => ResponseOwed(mail'["shell"], shown', due, u, v, w, op)
      BY <1>3, <2>2, <2>6, <3>6, TakenOwed
    <3>8. due' = due
      BY <2>1
    <3>2. CASE Responding
      BY <2>1, <2>2, <2>3, <2>5, <3>1, <3>2, <3>7, <3>8, ZenonT(30) DEF Phase, Responding
    <3>3. CASE Answering
      BY <2>1, <2>2, <2>3, <2>5, <3>1, <3>3, <3>7, <3>8, ZenonT(30) DEF Phase, Answering
    <3>4. CASE Muted
      BY <2>1, <2>2, <2>3, <2>5, <3>1, <3>4, Zenon DEF Phase, Muted
    <3>5. CASE Ending
      <4>1. End # 2
        BY DEF End
      <4>2. EndIn(mail'["shell"], End)
        BY <2>3, <2>6, <3>5, <4>1 DEF Ending
      <4>3. EndOwed(mail'["shell"], shown', due, End)
        BY <3>5, <3>7, <4>1, Zenon DEF Ending
      <4>4. Ending'
        BY <2>1, <2>2, <2>5, <3>1, <3>5, <3>8, <4>2, <4>3, ZenonT(30) DEF Ending
      <4> QED
        BY <4>4 DEF Phase
    <3> QED
      BY <2>4, <3>2, <3>3, <3>4, <3>5
  <2>7. CASE m.type # 2
    <3>1. Ending
      BY <2>3, <2>4, <2>7 DEF Responding, Answering, Muted
    <3>2. m.type = End /\ KeysOnly(mail'["shell"])
      BY <2>3, <2>7, <3>1 DEF Ending
    <3>5. shown' = due'
      <4>1. End \in {3, 4} /\ End # 2
        BY DEF End
      <4>2. shown = due
        <5>1. EndOwed(mail["shell"], shown, due, End)
          BY <3>1 DEF Ending
        <5> QED
          BY <1>3, <2>2, <2>7, <4>1, <5>1, AllTaken
      <4> QED
        BY <2>1, <3>2, <4>1, <4>2
    <3>3. CASE pc["command"] = "exit"
      <4>1. next = "bye"
        BY <3>2, <3>3 DEF End, next
      <4>2. Bye'
        BY <2>2, <2>5, <3>1, <3>3, <3>5, <4>1, Zenon DEF Ending, Bye
      <4> QED
        BY <4>2 DEF Phase
    <3>4. CASE pc["command"] = "idle"
      <4>1. next = "line"
        BY <3>2, <3>4, SMTT(30) DEF End, next
      <4>2. Reading'
        BY <2>1, <2>2, <2>5, <3>1, <3>2, <3>4, <3>5, <4>1, Zenon DEF Ending, Reading
      <4> QED
        BY <4>2 DEF Phase
    <3> QED
      BY <3>1, <3>3, <3>4, SMTT(30) DEF Ending
  <2> QED
    BY <2>6, <2>7
<1> QED
  BY <1>2, <1>3

LEMMA CommandTakePhase ==
  ASSUME Typed, Phase, CommandTake
  PROVE  Phase'
<1>1. PICK m, messages : CommandTakeOutcome(m, messages)
  BY CommandTakeCases
<1>2. recv("command", m) /\ pc["command"] = "idle"
  BY <1>1, Zenon DEF CommandTakeOutcome, Took, Skipped
<1>3. Received("command", m)
  BY <1>2, RecvEffect, SMTT(30) DEF Programs
<1>4. Shorter(mail["command"], mail'["command"], m) /\ IsSeq(mail'["command"]) /\ out["command"] = <<>>
  BY <1>3, SMTT(30) DEF Received, Shorter
<1>5. mail["command"] # <<>>
  BY <1>4, Nonempty, SMTT(30)
<1>6. Bye \/ Asked
  BY <1>2, <1>5, Zenon DEF Phase, Reading, Asking, Requesting, Requested, Responding, Answering, Ending, Muted, Operation
<1>7. CASE Bye
  BY <1>2, <1>7 DEF Bye
<1>8. CASE Asked
  <2>1. m.type = 1 /\ Len(mail'["command"]) = 0
    BY <1>4, <1>8 DEF Asked, Only, Shorter
  <2>2. mail'["command"] = <<>>
    BY <1>4, <2>1, LenFacts
  <2>3. TextOnly(mail["shell"])
    BY <1>8 DEF Asked, KeysOnly, TextOnly
  <2>4. ASSUME NEW next, Took("command", m, next, messages)
        PROVE  /\ out'["command"] = messages /\ pc'["command"] = next
               /\ mail'["shell"] = mail["shell"] /\ out'["shell"] = out["shell"] /\ pc'["shell"] = pc["shell"]
               /\ mail'["fat32"] = mail["fat32"] /\ out'["fat32"] = out["fat32"]
    <3>1. "command" \in Programs
      BY DEF Programs
    <3>2. /\ out'["command"] = messages /\ pc'["command"] = next
          /\ \A q \in Programs \ {"command"} : mail'[q] = mail[q] /\ out'[q] = out[q] /\ pc'[q] = pc[q]
      BY <2>4, <3>1, TookEffect
    <3> QED
      BY <3>2 DEF Programs
  <2>9. AnswerSays(messages, due') => AnswerOwed(mail["shell"], <<>>, due', messages)
    <3>1. Len(mail["shell"]) \in Nat /\ KeysOnly(mail["shell"])
      BY <1>8, LenFacts DEF Asked, Typed, MailTyped, Programs
    <3> QED
      BY <3>1, AnswerStarts
  <2>10. shown' = <<>>
    BY <1>1, <1>8 DEF CommandTakeOutcome, Asked
  <2>5. CASE Took("command", m, "exit", messages) /\ Answer(messages, 3) /\ AnswerSays(messages, due')
    <3>2. /\ out'["command"] = messages /\ pc'["command"] = "exit"
          /\ mail'["shell"] = mail["shell"] /\ out'["shell"] = out["shell"] /\ pc'["shell"] = pc["shell"]
          /\ mail'["fat32"] = mail["fat32"] /\ out'["fat32"] = out["fat32"]
      BY <2>4, <2>5
    <3>3. End' = 3
      BY <3>2 DEF End
    <3>1. Answering'
      BY <1>8, <2>2, <2>3, <2>5, <2>9, <2>10, <3>2, <3>3, Zenon DEF Asked, Answering
    <3> QED
      BY <3>1 DEF Phase
  <2>6. CASE Took("command", m, "idle", messages) /\ Answer(messages, 4) /\ AnswerSays(messages, due')
    <3>2. /\ out'["command"] = messages /\ pc'["command"] = "idle"
          /\ mail'["shell"] = mail["shell"] /\ out'["shell"] = out["shell"] /\ pc'["shell"] = pc["shell"]
          /\ mail'["fat32"] = mail["fat32"] /\ out'["fat32"] = out["fat32"]
      BY <2>4, <2>6
    <3>3. End' = 4
      BY <3>2 DEF End
    <3>1. Answering'
      BY <1>8, <2>2, <2>3, <2>6, <2>9, <2>10, <3>2, <3>3, Zenon DEF Asked, Answering
    <3> QED
      BY <3>1 DEF Phase
  <2>7. CASE Took("command", m, "idle", messages) /\ TextOut(messages)
    <3>1. Muted'
      BY <1>8, <2>2, <2>3, <2>4, <2>7 DEF Asked, Muted
    <3> QED
      BY <3>1 DEF Phase
  <2>8. ASSUME NEW cmd \in DOMAIN Operation, Took("command", m, cmd, messages), Request(messages, Operation[cmd])
        PROVE  Phase'
    <3>1. Requesting'
      BY <1>8, <2>2, <2>4, <2>8, <2>10 DEF Asked, Requesting
    <3> QED
      BY <3>1, SMTT(30) DEF Phase
  <2> QED
    BY <1>1, <2>1, <2>5, <2>6, <2>7, <2>8 DEF CommandTakeOutcome
<1> QED
  BY <1>6, <1>7, <1>8, SMTT(30)

LEMMA CommandResponsePhase ==
  ASSUME Typed, Phase, CommandResponse
  PROVE  stray' \/ Phase'
<1>1. PICK m, messages : CommandResponseOutcome(m, messages)
  BY CommandResponseCases
<1>2. CASE stray'
  BY <1>2
<1>3. CASE ~stray'
  <2>1. recv("command", m) /\ pc["command"] \in DOMAIN Operation
    BY <1>1, Zenon DEF CommandResponseOutcome, Took, Skipped
  <2>2. Received("command", m)
    BY <2>1, RecvEffect, SMTT(30) DEF Programs
  <2>3. Shorter(mail["command"], mail'["command"], m) /\ IsSeq(mail'["command"]) /\ out["command"] = <<>>
    BY <2>2 DEF Received, Shorter
  <2>4. mail["command"] # <<>>
    BY <2>3, Nonempty
  <2>5. Bye \/ Responding
    BY <2>1, <2>3, <2>4, EmptyFacts, Zenon DEF Phase, Reading, Asking, Asked, Requesting, Requested, Answering,
                                        Ending, Muted, Operation
  <2>6. CASE Bye
    BY <2>1, <2>6 DEF Bye, Operation
  <2>7. CASE Responding
    <3>1. UnderWay(mail["command"], out["fat32"], pc["command"]) /\ IsSeq(out["fat32"])
      <4>1. UnderWay(mail["command"], out["fat32"], pc["command"])
        BY <2>7, Zenon DEF Responding
      <4>2. IsSeq(out["fat32"])
        BY DEF Typed, OutTyped, Programs
      <4> QED
        BY <4>1, <4>2
    <3>2. /\ m.from = "fat32"
          /\ m.type = 100 => pc["command"] = "r" /\ UnderWay(mail'["command"], out["fat32"], pc["command"])
          /\ m.type # 100 => Len(mail'["command"]) = 0 /\ Len(out["fat32"]) = 0
      BY <2>3, <3>1, ResponseTaken
    <3>3. ASSUME NEW next, Took("command", m, next, messages)
          PROVE  /\ out'["command"] = messages /\ pc'["command"] = next
                 /\ mail'["shell"] = mail["shell"] /\ out'["shell"] = out["shell"] /\ pc'["shell"] = pc["shell"]
                 /\ mail'["fat32"] = mail["fat32"] /\ out'["fat32"] = out["fat32"]
      <4>1. /\ out'["command"] = messages /\ pc'["command"] = next
            /\ \A q \in Programs \ {"command"} : mail'[q] = mail[q] /\ out'[q] = out[q] /\ pc'[q] = pc[q]
        <5>1. "command" \in Programs
          BY DEF Programs
        <5> QED
          BY <3>3, <5>1, TookEffect
      <4> QED
        BY <4>1 DEF Programs
    <3>6. shown' = shown /\ due' = due
      BY <1>1 DEF CommandResponseOutcome
    <3>7. /\ ResponseOwed(mail["shell"], shown, due, out["command"], mail["command"], out["fat32"], pc["command"])
          /\ Len(out["command"]) = 0 /\ Len(out["fat32"]) \in Nat
      BY <2>3, <2>7, <3>1, EmptyFacts, LenFacts DEF Responding
    <3>4. CASE /\ pc["command"] = "r" /\ m.type = 100
               /\ Took("command", m, "r", messages) /\ TextOut(messages)
               /\ Len(messages) = 1 /\ messages[1].text = m.text
      <4>2. ResponseOwed(mail["shell"], shown, due, messages, mail'["command"], out["fat32"], pc["command"])
        BY <2>3, <3>4, <3>7, ResponsePiece
      <4>3. /\ out'["command"] = messages /\ pc'["command"] = "r"
            /\ mail'["shell"] = mail["shell"] /\ out'["shell"] = out["shell"] /\ pc'["shell"] = pc["shell"]
            /\ mail'["fat32"] = mail["fat32"] /\ out'["fat32"] = out["fat32"]
        BY <3>3, <3>4
      <4>1. Responding'
        BY <2>7, <3>2, <3>4, <3>6, <4>2, <4>3, Zenon DEF Responding
      <4> QED
        BY <4>1, SMTT(30) DEF Phase
    <3>5. CASE /\ pc["command"] = "r" => m.type # 100
               /\ Took("command", m, "idle", messages) /\ Answer(messages, 4)
               /\ AnswerSays(messages, Final(pc["command"], m.type))
      <4>1. Len(mail'["command"]) = 0 /\ Len(out["fat32"]) = 0
        BY <3>2, <3>5
      <4>2. mail'["command"] = <<>> /\ out["fat32"] = <<>>
        BY <2>3, <3>1, <4>1, LenFacts, SMTT(30)
      <4>4. AnswerOwed(mail["shell"], shown, due, messages)
        <5>1. m.type # 100
          BY <3>2, <3>5
        <5> QED
          BY <2>3, <3>5, <3>7, <5>1, ResponseEnds
      <4>3. Answering'
        <5>1. /\ out'["command"] = messages /\ pc'["command"] = "idle"
              /\ mail'["shell"] = mail["shell"] /\ out'["shell"] = out["shell"] /\ pc'["shell"] = pc["shell"]
              /\ mail'["fat32"] = mail["fat32"] /\ out'["fat32"] = out["fat32"]
          BY <3>3, <3>5
        <5>2. End' = 4
          BY <5>1 DEF End
        <5> QED
          BY <2>7, <3>5, <3>6, <4>2, <4>4, <5>1, <5>2, Zenon DEF Responding, Answering
      <4> QED
        BY <4>3 DEF Phase
    <3> QED
      BY <1>1, <1>3, <3>2, <3>4, <3>5, Zenon DEF CommandResponseOutcome
  <2> QED
    BY <2>5, <2>6, <2>7, SMTT(30)
<1> QED
  BY <1>2, <1>3

LEMMA Fat32TakePhase ==
  ASSUME Typed, Phase, Fat32Take
  PROVE  Phase'
<1>1. PICK m : Fat32Stops(m) \/ \E messages : Fat32Outcome(m, messages)
  BY Fat32TakeCases
<1>2. PICK messages : \/ Fat32Stops(m) /\ Took("fat32", m, "stopped", messages) /\ messages = <<>>
                      \/ Fat32Outcome(m, messages) /\ Took("fat32", m, "idle", messages)
  BY <1>1, Zenon DEF Fat32Outcome, Fat32Stops
<1>3. /\ Shorter(mail["fat32"], mail'["fat32"], m) /\ IsSeq(mail'["fat32"]) /\ mail["fat32"] # <<>>
      /\ out["fat32"] = <<>> /\ out'["fat32"] = messages
      /\ \A q \in Programs \ {"fat32"} : mail'[q] = mail[q] /\ out'[q] = out[q] /\ pc'[q] = pc[q]
  BY <1>2, TookEffect DEF Programs
<1>4. /\ mail'["shell"] = mail["shell"] /\ out'["shell"] = out["shell"] /\ pc'["shell"] = pc["shell"]
      /\ mail'["command"] = mail["command"] /\ out'["command"] = out["command"] /\ pc'["command"] = pc["command"]
  BY <1>3, SMTT(30) DEF Programs
<1>5. Bye \/ Requested
  BY <1>3, Zenon DEF Phase, Reading, Asking, Asked, Requesting, Responding, Answering, Ending, Muted
<1>6. CASE Bye
  BY <1>3, <1>6 DEF Bye
<1>7. Requested => TextOnly(mail["shell"]) /\ TextOut(<<>>)
  BY EmptyFacts, SMTT(30) DEF Requested, KeysOnly, TextOnly, TextOut
<1>8. Requested => m.type = Operation[pc["command"]] /\ mail'["fat32"] = <<>>
  BY <1>3, LenFacts, SMTT(30) DEF Requested, Only, Shorter
<1>9. CASE Requested /\ messages = <<>>
  <2>1. Muted'
    BY <1>3, <1>4, <1>7, <1>8, <1>9 DEF Requested, Muted
  <2> QED
    BY <2>1 DEF Phase
<1>10. CASE Requested /\ Fat32Outcome(m, messages)
  <2>3. pc["command"] # "r" => m.type # 0
    BY <1>8, <1>10 DEF Requested, Operation
  <2>4. PICK n \in Nat :
          /\ Reply(messages, n) /\ (m.type # 0 => n = 0)
          /\ Says(messages, n, due', 0)
          /\ \A op \in DOMAIN Operation :
               m.type = Operation[op] => Closes(due', n, Final(op, messages[n + 1].type))
    BY <1>10 DEF Fat32Outcome
  <2>5. UnderWay(<<>>, messages, pc["command"])
    <3> DEFINE s == <<>>
    <3>1. Len(s) = 0
      BY EmptyFacts
    <3> HIDE DEF s
    <3>2. UnderWay(s, messages, pc["command"])
      BY <2>3, <2>4, <3>1 DEF UnderWay, Reply
    <3> QED
      BY <3>2 DEF s
  <2>6. ResponseOwed(mail["shell"], <<>>, due', <<>>, <<>>, messages, pc["command"])
    <3>1. Len(mail["shell"]) \in Nat /\ KeysOnly(mail["shell"])
      BY <1>10, LenFacts DEF Requested, Typed, MailTyped, Programs
    <3>2. IsSeq(due') /\ Closes(due', n, Final(pc["command"], messages[n + 1].type))
      BY <1>8, <1>10, <2>4 DEF Requested, Fat32Outcome
    <3> QED
      BY <2>4, <3>1, <3>2, ResponseStarts
  <2>7. shown' = <<>>
    BY <1>10 DEF Fat32Outcome, Requested
  <2>8. Responding'
    BY <1>3, <1>4, <1>7, <1>8, <1>10, <2>5, <2>6, <2>7 DEF Requested, Responding
  <2> QED
    BY <2>8 DEF Phase
<1> QED
  BY <1>2, <1>5, <1>6, <1>9, <1>10

-----------------------------------------------------------------------------
(* The theorems.                                                           *)

LEMMA InitIInv == Init => IInv
<1> SUFFICES ASSUME Init PROVE IInv
  OBVIOUS
<1>1. IsSeq(puts(4)) /\ EchoOnly(puts(4)) /\ IsSeq(<<>>) /\ Len(<<>>) = 0
  BY PutsFacts, EmptyFacts, SMTT(30)
<1>2. \A i \in 1 .. Len(puts(4)) : puts(4)[i].to \in To["shell"]
  BY <1>1 DEF EchoOnly, To
<1>3. QUEUE \in Nat /\ LINE \in Nat /\ MaxPresses \in Nat /\ MaxInputs \in Nat
  BY ServicesAssumption
<1>4. ASSUME NEW p \in Programs PROVE MailTyped(p) /\ OutTyped(p)
  <2>1. MailTyped(p)
    BY <1>1, <1>3 DEF Init, MailTyped
  <2>2. CASE p = "shell"
    BY <1>1, <1>2, <2>1, <2>2 DEF Init, OutTyped
  <2>3. CASE p # "shell"
    BY <1>1, <2>1, <2>3 DEF Init, OutTyped
  <2> QED
    BY <2>2, <2>3
<1>5. Typed
  <2>1. pc \in [Programs -> {"idle", "line", "wait", "bye", "exit", "stopped"} \cup DOMAIN Operation]
    BY DEF Init
  <2>2. IsSeq(line) /\ Len(line) <= LINE
    BY <1>1, <1>3 DEF Init
  <2>3. presses \in 0 .. MaxPresses /\ inputs \in 0 .. MaxInputs
    BY <1>3 DEF Init
  <2>5. lost \in BOOLEAN /\ stray \in BOOLEAN
    BY Zenon DEF Init
  <2>4. DOMAIN mail = Programs /\ DOMAIN out = Programs
    BY DEF Init
  <2> QED
    BY <1>4, <2>1, <2>2, <2>3, <2>4, <2>5 DEF Typed
<1>6. KeysOnly(<<>>)
  BY <1>1 DEF KeysOnly
<1>7. Reading
  BY <1>1, <1>6 DEF Init, Reading, Programs
<1> QED
  BY <1>5, <1>7 DEF IInv, Phase

LEMMA StepIInv == IInv /\ [Next]_vars => IInv'
<1> SUFFICES ASSUME IInv, [Next]_vars PROVE IInv'
  OBVIOUS
<1>1. CASE UNCHANGED vars
  BY <1>1, Zenon DEF vars, IInv, Typed, MailTyped, OutTyped, Phase, Reading, Asking, Asked, Requesting, Requested,
              Responding, Answering, Ending, Muted, Bye, End
<1>2. CASE Next
  <2>1. Typed' /\ (stray => stray')
    BY <1>2, TypedStep DEF IInv
  <2>2. CASE stray
    BY <2>1, <2>2 DEF IInv
  <2>3. CASE ~stray
    <3>1. Typed /\ Phase /\ ~lost
      BY <1>2, <2>3 DEF IInv, Next
    <3>2. lost' \/ stray' \/ Phase'
      <4>1. ASSUME NEW p \in Programs, send(p) PROVE lost' \/ Phase'
        BY <3>1, <4>1, SendPhase
      <4>2. CASE Press \/ Keyboard \/ SerialOut \/ SerialIn
        BY <3>1, <4>2, DriverStep, AsidePhase
      <4>3. CASE ShellKey
        BY <3>1, <4>3, ShellKeyPhase
      <4>4. CASE ShellAnswer
        BY <3>1, <4>4, ShellAnswerPhase
      <4>5. CASE CommandTake
        BY <3>1, <4>5, CommandTakePhase
      <4>6. CASE CommandResponse
        BY <3>1, <4>6, CommandResponsePhase, SMTT(30)
      <4>7. CASE Fat32Take
        BY <3>1, <4>7, Fat32TakePhase
      <4> QED
        BY <1>2, <4>1, <4>2, <4>3, <4>4, <4>5, <4>6, <4>7 DEF Next
    <3> QED
      BY <2>1, <3>2 DEF IInv
  <2> QED
    BY <2>2, <2>3
<1> QED
  BY <1>1, <1>2

LEMMA IInvInStep == IInv => InStep
<1> SUFFICES ASSUME IInv, pc["shell"] = "line", ~lost, ~stray
             PROVE  /\ pc["command"] = "idle" /\ out["command"] = <<>> /\ out["fat32"] = <<>>
                    /\ mail["command"] = <<>> /\ mail["fat32"] = <<>>
                    /\ \A m \in Range(mail["shell"]) : m.from \in {"keyboard", "serial"}
  BY SMTT(30) DEF InStep
<1>1. Reading
  BY Zenon DEF IInv, Phase, Asking, Asked, Requesting, Requested, Responding, Answering, Ending, Muted, Bye
<1>2. MailTyped("shell")
  BY SMTT(30) DEF IInv, Typed, Programs
<1>3. \A i \in 1 .. Len(mail["shell"]) : mail["shell"][i].from \in {"keyboard", "serial"}
  BY <1>1, <1>2, Zenon DEF Reading, KeysOnly, MailTyped, From
<1>4. DOMAIN mail["shell"] = 1 .. Len(mail["shell"])
  <2>1. PICK S : mail["shell"] \in Seq(S)
    BY <1>2 DEF MailTyped, IsSeq
  <2> QED
    BY <2>1
<1>5. \A m \in Range(mail["shell"]) : m.from \in {"keyboard", "serial"}
  BY <1>3, <1>4 DEF Range
<1> QED
  BY <1>1, <1>5 DEF Reading

\* No mailbox of the programs overflows and every program is at a place that its
\* code has, whatever the sizes and the keys.
THEOREM ServicesTypes == Spec => []TypeOK
<1>1. IInv => TypeOK
  BY DEF IInv, Typed, MailTyped, TypeOK
<1> QED
  BY <1>1, InitIInv, StepIInv, PTL DEF Spec

\* While the shell reads a line its mailbox holds only keys and the servers are
\* at rest: getchar (shell.c:128) never takes a part of an answer for a key, as
\* long as no message was refused and no readfile has failed.
THEOREM ServicesInStep == Spec => []InStep
BY InitIInv, StepIInv, IInvInStep, PTL DEF Spec

\* When the answer to a line is over the shell has shown exactly what the servers
\* had to say, in order (the loop of shell.c:141, the sends of command.c and
\* fat32.c), for mailboxes of every size and files of every length, as long as no
\* message was refused and no readfile has failed.
THEOREM ServicesAllShown == Spec => []AllShown
<1>1. IInv => AllShown
  <2> SUFFICES ASSUME IInv, pc["shell"] \in {"line", "bye"}, ~lost, ~stray PROVE shown = due
    BY SMTT(30) DEF AllShown
  <2>1. Reading \/ Bye
    BY Zenon DEF IInv, Phase, Asking, Asked, Requesting, Requested, Responding, Answering, Ending, Muted
  <2> QED
    BY <2>1 DEF Reading, Bye
<1> QED
  BY <1>1, InitIInv, StepIInv, PTL DEF Spec
=============================================================================

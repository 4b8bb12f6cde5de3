--------------------------- MODULE ServicesForms ----------------------------
(***************************************************************************)
(* The forms that mailboxes and messages to be sent have in the phases of  *)
(* a dialogue between the programs of Services.                            *)
(***************************************************************************)
EXTENDS Integers, Sequences

\* Sequences of anything: what a message carries does not matter here.
IsSeq(s) == \E S : s \in Seq(S)

\* What the arrival or the removal of a message makes of a mailbox.
Longer(s, t, e) ==
  /\ Len(s) \in Nat /\ Len(t) = Len(s) + 1 /\ t[Len(s) + 1] = e
  /\ \A i \in 1 .. Len(s) : t[i] = s[i]
Shorter(s, t, e) ==
  /\ Len(s) \in Nat \ {0} /\ Len(t) = Len(s) - 1 /\ s[1] = e
  /\ \A i \in 1 .. Len(s) - 1 : t[i] = s[i + 1]

\* What the mailbox of the shell holds of the answer: nothing, or only text.
KeysOnly(s) == \A i \in 1 .. Len(s) : s[i].from # "command"
TextOnly(s) == \A i \in 1 .. Len(s) : s[i].from = "command" => s[i].type = 2
\* The end of the answer is in it, behind the text.
EndAt(s, k, end) ==
  /\ s[k].from = "command" /\ s[k].type = end
  /\ \A i \in 1 .. Len(s) : s[i].from = "command" /\ i # k => i < k /\ s[i].type = 2
EndIn(s, end) == \E k \in 1 .. Len(s) : EndAt(s, k, end)

\* The shell has a line to send, after the rest, or none.
EchoOnly(s) == \A i \in 1 .. Len(s) : s[i].to = "serial"
LineLast(s) ==
  /\ Len(s) > 0 /\ s[Len(s)].to = "command" /\ s[Len(s)].type = 1
  /\ \A i \in 1 .. Len(s) : i # Len(s) => s[i].to = "serial"

\* The command server has text to send, a whole answer or a request.
TextOut(s) == \A i \in 1 .. Len(s) : s[i].to = "shell" /\ s[i].type = 2
Answer(s, end) ==
  /\ IsSeq(s) /\ s # <<>>
  /\ \A i \in 1 .. Len(s) : /\ s[i].to = "shell"
                            /\ s[i].type = IF i < Len(s) THEN 2 ELSE end
Request(s, type) == Len(s) = 1 /\ s[1].to = "fat32" /\ s[1].type = type

\* The response to op, the first part of it delivered: pieces, of which only a
\* readfile has any, and one message that ends them.
UnderWay(s, t, op) ==
  /\ Len(s) + Len(t) > 0 /\ (op # "r" => Len(s) + Len(t) = 1)
  /\ \A i \in 1 .. Len(s) : s[i].from = "fat32" /\ (s[i].type = 100 <=> i < Len(s) + Len(t))
  /\ \A i \in 1 .. Len(t) : t[i].type = 100 <=> i < Len(t)

\* One message of that type is in a mailbox.
Only(s, type) == Len(s) = 1 /\ s[1].type = type

\* The first n messages of s are the pieces of d behind the first y.
Says(s, n, d, y) == \A i \in 1 .. n : s[i].text = d[y + i]
\* d ends with f, behind its first n pieces.
Closes(d, n, f) == Len(d) = n + Len(f) /\ \A i \in 1 .. Len(f) : d[n + i] = f[i]
\* All of s but the end says d.
AnswerSays(s, d) == IsSeq(d) /\ Len(s) = Len(d) + 1 /\ Says(s, Len(d), d, 0)

\* What the command server makes of the message that ends a response to op.
Final(op, type) ==
  IF type = 255 THEN <<"error">>
  ELSE IF op = "s" THEN <<"spawned", "pid", "crlf">>
  ELSE IF op = "r" THEN <<"crlf">> ELSE <<"ok">>

\* n pieces of a file and a message of another kind.
Reply(s, n) == Len(s) = n + 1 /\ \A i \in 1 .. Len(s) : s[i].type = 100 <=> i < Len(s)
=============================================================================

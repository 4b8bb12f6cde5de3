------------------------------ MODULE Services ------------------------------
(***************************************************************************)
(* The programs of _sdk/user_backup that make up the console: the keyboard *)
(* driver, the serial driver, the shell, the command server and the file   *)
(* server.  They are tasks that only share mailboxes.  A step is one       *)
(* system call that finds or leaves a message.  A full mailbox refuses a   *)
(* message and no program looks at what send returns (external: send and   *)
(* recv, as Mailbox has them).  What the file server does to the disk is   *)
(* in Fat32; here it answers, or stops.  The programs find each other by   *)
(* the fixed pids 3, 4, 5 and 7 of the kernel they were written for.       *)
(***************************************************************************)
EXTENDS Integers, Sequences, Functions

CONSTANTS
  QUEUE,         \* messages that a mailbox holds
  LINE,          \* 255: characters that the shell keeps of a line
  KeyboardKeys,  \* characters in the keyboard driver's map: no line end
  SerialKeys,    \* characters that arrive at the serial port
  FILE,          \* the pieces of a file
  MaxPresses,    \* bound: interrupts of the keyboard
  MaxInputs      \* bound: characters at the serial port

ASSUME ServicesAssumption ==
  /\ QUEUE \in Nat \ {0} /\ LINE \in Nat \ {0}
  /\ "enter" \notin KeyboardKeys /\ FILE \in Seq(STRING)
  /\ MaxPresses \in Nat /\ MaxInputs \in Nat

VARIABLES mail,    \* the mailbox of every program
          out,     \* the messages that a program is about to send
          pc,
          line,    \* buf of the shell
          presses, inputs,
          lost,    \* auxiliary: a request or an answer was refused
          stray,   \* auxiliary: an answer had messages after its end
          mute,    \* auxiliary: an answer without an end
          due,     \* auxiliary: what the shell should show for the last line
          shown    \* auxiliary: what it has shown since it sent that line

vars == <<mail, out, pc, line, presses, inputs, lost, stray, mute, due, shown>>

Programs == {"keyboard", "serial", "shell", "command", "fat32"}
Dialogue == {"shell", "command", "fat32"}

Msg(to, type, text) == [to |-> to, type |-> type, text |-> text]

\* putc and puts of the shell, of which the text is left out, and send_str of
\* the command server.  A text is a sequence of pieces that fit a message.
putc == <<Msg("serial", 0, "")>>
puts(n) == [i \in 1 .. n |-> Msg("serial", 1, "")]
send_str(text) == [i \in DOMAIN text |-> Msg("shell", 2, text[i])]
Done == <<Msg("shell", 4, "")>>

Init ==
  /\ mail = [p \in Programs |-> <<>>]
  /\ out = [p \in Programs |-> IF p = "shell" THEN puts(4) ELSE <<>>]
  /\ pc \in {[p \in Programs |-> IF p = "shell" THEN "line" ELSE IF p = "fat32" THEN at ELSE "idle"] :
               at \in {"idle", "stopped"}}              \* stopped: init_fs has failed
  /\ line = <<>> /\ presses = 0 /\ inputs = 0
  /\ lost = FALSE /\ stray = FALSE /\ mute = FALSE /\ due = <<>> /\ shown = <<>>

Ghosts == <<lost, stray, mute, due, shown>>

\* Mutant: a mailbox takes one message too many.
send_over(p) ==
  /\ out[p] # <<>>
  /\ LET m == Head(out[p])
     IN  mail' = IF Len(mail[m.to]) > QUEUE THEN mail
                 ELSE [mail EXCEPT ![m.to] = Append(@, [from |-> p, type |-> m.type, text |-> m.text])]
  /\ out' = [out EXCEPT ![p] = Tail(@)]
  /\ UNCHANGED <<pc, line, presses, inputs, lost, stray, mute, due, shown>>

\* send: the next message of program p is delivered or refused.
send(p) ==
  /\ out[p] # <<>>
  /\ LET m == Head(out[p])
         full == Len(mail[m.to]) >= QUEUE
     IN  /\ mail' = IF full THEN mail
                    ELSE [mail EXCEPT ![m.to] = Append(@, [from |-> p, type |-> m.type, text |-> m.text])]
         /\ lost' = (lost \/ (full /\ {p, m.to} \subseteq Dialogue))
  /\ out' = [out EXCEPT ![p] = Tail(@)]
  /\ UNCHANGED <<pc, line, presses, inputs, stray, mute, due, shown>>

\* recv: program p, which has nothing to send, takes its next message m.
recv(p, m) ==
  /\ out[p] = <<>> /\ mail[p] # <<>>
  /\ m = Head(mail[p])
  /\ mail' = [mail EXCEPT ![p] = Tail(@)]

Then(p, next, messages) ==
  /\ pc' = [pc EXCEPT ![p] = next]
  /\ out' = [out EXCEPT ![p] = messages]

-----------------------------------------------------------------------------
(* The drivers.                                                            *)

\* The keyboard interrupt sends the scancode to the driver.
Press ==
  /\ presses < MaxPresses /\ presses' = presses + 1
  /\ \E sc \in [key : KeyboardKeys, release : BOOLEAN] \cup {[key |-> "unmapped", release |-> FALSE]} :
       mail' = IF Len(mail["keyboard"]) >= QUEUE THEN mail
               ELSE [mail EXCEPT !["keyboard"] = Append(@, [from |-> "kernel", type |-> 0, text |-> sc])]
  /\ UNCHANGED <<out, pc, line, inputs, Ghosts>>

Keyboard ==
  /\ \E m \in Range(mail["keyboard"]) :
       /\ recv("keyboard", m)
       /\ Then("keyboard", "idle", IF m.text.release \/ m.text.key = "unmapped" THEN <<>>
                                   ELSE <<Msg("shell", 0, m.text.key)>>)
  /\ UNCHANGED <<line, presses, inputs, Ghosts>>

\* The serial driver writes its messages to the port, and looks for input when
\* there are none.
SerialOut ==
  /\ \E m \in Range(mail["serial"]) : recv("serial", m)
  /\ UNCHANGED <<out, pc, line, presses, inputs, Ghosts>>

SerialIn ==
  /\ mail["serial"] = <<>> /\ out["serial"] = <<>>
  /\ inputs < MaxInputs /\ inputs' = inputs + 1
  /\ \E c \in SerialKeys : Then("serial", "idle", <<Msg("shell", 0, c)>>)
  /\ UNCHANGED <<mail, line, presses, Ghosts>>

-----------------------------------------------------------------------------
(* The shell.                                                              *)

\* data[0] of any message: a piece of text begins with one of its characters,
\* and an empty message has what was there before.
First(m) ==
  IF m.from \in {"keyboard", "serial"} THEN {m.text}
  ELSE IF m.text = "" THEN KeyboardKeys \cup {"enter", "NUL"}
  ELSE IF m.text = "crlf" THEN {"enter"} ELSE {"x"}

\* getchar and the loop around it.
ShellKey ==
  /\ pc["shell"] = "line"
  /\ \E m \in Range(mail["shell"]) : recv("shell", m) /\ \E c \in First(m) :
       CASE c # "enter" ->
              /\ Then("shell", "line", putc)
              /\ line' = IF Len(line) < LINE THEN Append(line, c) ELSE line
              /\ UNCHANGED <<due, shown>>
         [] c = "enter" /\ (line = <<>> \/ Head(line) = "NUL") ->
              /\ Then("shell", "line", putc \o putc \o puts(1))
              /\ line' = <<>>
              /\ UNCHANGED <<due, shown>>
         [] OTHER ->
              /\ Then("shell", "wait", putc \o putc \o <<Msg("command", 1, line)>>)
              /\ line' = <<>>
              /\ due' = <<>> /\ shown' = <<>>
  /\ UNCHANGED <<presses, inputs, lost, stray, mute>>

\* The loop that waits for the end of the answer.
ShellAnswer ==
  /\ pc["shell"] = "wait"
  /\ \E m \in Range(mail["shell"]) :
       /\ recv("shell", m)
       /\ CASE m.from # "command" -> UNCHANGED <<pc, out, shown>>
            [] m.from = "command" /\ m.type = 3 ->
                 Then("shell", "bye", puts(1)) /\ UNCHANGED shown
            [] m.from = "command" /\ m.type = 4 ->
                 Then("shell", "line", puts(1)) /\ UNCHANGED shown
            [] OTHER ->
                 Then("shell", "wait", puts(1)) /\ shown' = Append(shown, m.text)
  /\ UNCHANGED <<line, presses, inputs, lost, stray, mute, due>>

-----------------------------------------------------------------------------
(* The command server.                                                     *)

\* What it asks the file server for, by the first letters of the line.
Operation == [r |-> 0, s |-> 1, w |-> 2, d |-> 3, m |-> 4, k |-> 5]
Plain == [h |-> <<"help1", "help2", "help3">>, c |-> <<"clear">>]
HasPath(text) == Len(text) > 1

CommandTake ==
  /\ pc["command"] = "idle"
  /\ \E m \in Range(mail["command"]) :
       /\ recv("command", m)
       /\ IF m.type # 1 THEN UNCHANGED <<pc, out, mute, due>>
          ELSE LET cmd == Head(m.text)
               IN  CASE cmd = "e" ->
                          /\ Then("command", "exit", send_str(<<"bye">>) \o <<Msg("shell", 3, "")>>)
                          /\ due' = <<"bye">> /\ UNCHANGED mute
                     [] cmd = "w" /\ ~HasPath(m.text) ->
                          /\ Then("command", "idle", send_str(<<"usage">>))
                          /\ mute' = TRUE /\ due' = <<"usage">>
                     [] cmd \in DOMAIN Operation /\ (cmd = "w" => HasPath(m.text)) ->
                          /\ Then("command", cmd, <<Msg("fat32", Operation[cmd], "path")>>)
                          /\ UNCHANGED <<mute, due>>
                     [] OTHER ->
                          LET text == IF cmd \in DOMAIN Plain THEN Plain[cmd] ELSE <<"unknown">>
                          IN  /\ Then("command", "idle", send_str(text) \o Done)
                              /\ due' = text /\ UNCHANGED mute
  /\ UNCHANGED <<line, presses, inputs, lost, stray, shown>>

\* Mutant: the answer ends with every piece.
ReadResponse_each(m) ==
  /\ IF m.type = 100 THEN Then("command", "r", send_str(<<m.text>>) \o Done)
     ELSE Then("command", "idle", send_str(<<IF m.type = 255 THEN "error" ELSE "crlf">>) \o Done)
  /\ UNCHANGED stray

\* Mutant: the pieces are taken and not sent on.
ReadResponse_silent(m) ==
  /\ IF m.type = 100 THEN Then("command", "r", <<>>)
     ELSE Then("command", "idle", send_str(<<"crlf">>) \o Done)
  /\ UNCHANGED stray

\* readfile: the pieces go on to the shell.  After an error it ends the answer
\* twice.
ReadResponse(m) ==
  CASE m.type = 100 -> Then("command", "r", send_str(<<m.text>>)) /\ UNCHANGED stray
    [] m.type = 255 -> /\ Then("command", "idle", send_str(<<"error">>) \o Done \o send_str(<<"crlf">>) \o Done)
                       /\ stray' = TRUE
    [] OTHER -> Then("command", "idle", send_str(<<"crlf">>) \o Done) /\ UNCHANGED stray

\* Mutant: the answer has no end.
Response_endless(m) ==
  /\ Then("command", "idle", send_str(<<"ok">>))
  /\ UNCHANGED stray

Response(m) ==
  /\ Then("command", "idle", send_str(IF m.type = 255 THEN <<"error">>
                                      ELSE IF pc["command"] = "s" THEN <<"spawned", "pid", "crlf">>
                                      ELSE <<"ok">>) \o Done)
  /\ UNCHANGED stray

CommandResponse ==
  /\ pc["command"] \in DOMAIN Operation
  /\ \E m \in Range(mail["command"]) :
       /\ recv("command", m)
       /\ IF m.from # "fat32" THEN UNCHANGED <<pc, out, stray>>
          ELSE IF pc["command"] = "r" THEN ReadResponse(m) ELSE Response(m)
  /\ UNCHANGED <<line, presses, inputs, lost, mute, due, shown>>

-----------------------------------------------------------------------------
(* The file server, as Fat32 describes it.                                 *)

\* The messages that a request ends in, and what the shell should show.
Fat32Answer(m) ==
  \E ok \in BOOLEAN, n \in 0 .. Len(FILE) :
    LET pieces == IF m.type = 0 THEN SubSeq(FILE, 1, n) ELSE <<>>
        end == IF ~ok THEN 255 ELSE IF m.type \in {0, 1} THEN 101 ELSE 200
    IN  /\ m.type # 0 => n = 0
        /\ Then("fat32", "idle", [i \in DOMAIN pieces |-> Msg("command", 100, pieces[i])] \o <<Msg("command", end, "")>>)
        /\ due' = CASE m.type = 0 -> pieces \o (IF ok THEN <<"crlf">> ELSE <<"error">>)
                    [] m.type # 0 /\ ~ok -> <<"error">>
                    [] m.type = 1 /\ ok -> <<"spawned", "pid", "crlf">>
                    [] OTHER -> <<"ok">>

\* resolve_parent of a path in a directory that is there: find_in_dir stores the
\* size through a null pointer, and the kernel ends the server.
Fat32Fault(m) ==
  /\ m.type \in 2 .. 5
  /\ Then("fat32", "stopped", <<>>)
  /\ UNCHANGED due

Fat32Take ==
  /\ pc["fat32"] = "idle"
  /\ \E m \in Range(mail["fat32"]) : recv("fat32", m) /\ (Fat32Answer(m) \/ Fat32Fault(m))
  /\ UNCHANGED <<line, presses, inputs, lost, stray, mute, shown>>

-----------------------------------------------------------------------------
\* Nothing is claimed after a refused request or answer, and the model stops.
Next ==
  /\ ~lost
  /\ \/ \E p \in Programs : send(p)
     \/ Press \/ Keyboard \/ SerialOut \/ SerialIn \/ ShellKey \/ ShellAnswer
     \/ CommandTake \/ CommandResponse \/ Fat32Take

Spec == Init /\ [][Next]_vars

\* The kernel runs every task again and again, and each program polls its
\* mailbox in an endless loop.
Fairness ==
  /\ \A p \in Programs : WF_vars(send(p))
  /\ WF_vars(Keyboard) /\ WF_vars(SerialOut) /\ WF_vars(ShellKey) /\ WF_vars(ShellAnswer)
  /\ WF_vars(CommandTake) /\ WF_vars(CommandResponse) /\ WF_vars(Fat32Take)

FairSpec == Spec /\ Fairness

-----------------------------------------------------------------------------
(* Properties.                                                             *)

TypeOK ==
  /\ \A p \in Programs : Len(mail[p]) <= QUEUE
  /\ pc \in [Programs -> {"idle", "line", "wait", "bye", "exit", "stopped"} \cup DOMAIN Operation]
  /\ Len(line) <= LINE /\ presses \in 0 .. MaxPresses /\ inputs \in 0 .. MaxInputs

\* While the shell reads a line nothing of an earlier command is under way, so
\* that getchar, which takes any message for a key (shell.c:128), gets only
\* keys.  Two things spoil this: a refused message, and the second end that a
\* failed readfile sends (command.c:76).
InStep ==
  pc["shell"] = "line" /\ ~lost /\ ~stray =>
    /\ pc["command"] = "idle" /\ out["command"] = <<>> /\ out["fat32"] = <<>>
    /\ mail["command"] = <<>> /\ mail["fat32"] = <<>>
    /\ \A m \in Range(mail["shell"]) : m.from \in {"keyboard", "serial"}

\* When the answer to a line is over the shell has shown all of it, in order:
\* for a readfile the pieces that the file server sent, although three
\* mailboxes lie between and nobody waits for the receiver.  (puts goes on to the
\* next zero, so what an earlier message has left behind a text may follow it.)
AllShown == pc["shell"] \in {"line", "bye"} /\ ~lost /\ ~stray => shown = due

\* Every line is answered: the shell does not wait for ever.  Four things spoil
\* this: a refused message; a writefile without its arguments, whose answer has
\* no end (command.c:110); a readfile that failed, whose second end has made the
\* shell miss that the command server has exited; and a command for the file
\* server when that has stopped, its disk unreadable (fat32.c:298) or the path of
\* the request in a directory (fat32.c:281).
Answered ==
  pc["shell"] = "wait" ~>
    \/ pc["shell"] # "wait" \/ lost \/ mute \/ (stray /\ pc["command"] = "exit")
    \/ pc["fat32"] = "stopped" /\ pc["command"] \in DOMAIN Operation
=============================================================================

----------------------------- MODULE FileStore ------------------------------
(***************************************************************************)
(* What the file server (_sdk/user_backup/fat32.c) promises its clients: a *)
(* map from names to contents.  A request takes effect in one step or not  *)
(* at all, also when the machine stops in the middle of it, and the answer *)
(* says which.  Module Fat32 is shown to implement this.                   *)
(***************************************************************************)
EXTENDS Sequences, SequencesExt

CONSTANTS
  Key(_),    \* the name that a path stands for: <<name>> or <<directory, name>>
  Requests, NoRequest, NoReply

VARIABLES files,   \* contents of every name that exists
          req,     \* the request at hand
          done,    \* it has taken effect and is not answered yet
          reply,   \* the last answer
          broken   \* a promise was broken: nothing is said of what follows

vars == <<files, req, done, reply, broken>>

\* Any map to begin with: what is on the disk.
Init == req = NoRequest /\ done = FALSE /\ reply = NoReply /\ broken = FALSE

Ask ==
  /\ req = NoRequest
  /\ req' \in Requests
  /\ reply' = NoReply
  /\ UNCHANGED <<files, done>>

\* The map after request r.  With a directory goes what is in it.
After(r) ==
  LET k == Key(r.path)
  IN  CASE r.op = "write"  -> [j \in DOMAIN files \cup {k} |-> IF j = k THEN r.data ELSE files[j]]
        [] r.op = "mkdir"  -> [j \in DOMAIN files \cup {k} |-> IF j = k THEN <<>> ELSE files[j]]
        [] r.op = "delete" -> [j \in {j \in DOMAIN files : ~IsPrefix(k, j)} |-> files[j]]

Possible(r) ==
  /\ r.op \in {"write", "mkdir", "delete"}
  /\ r.op = "mkdir"  => Key(r.path) \notin DOMAIN files
  /\ r.op = "delete" => Key(r.path) \in DOMAIN files

Answer(type) == req' = NoRequest /\ done' = FALSE /\ reply'.type = type

\* The effect, with the answer or before it.
Effect ==
  /\ req # NoRequest /\ ~done
  /\ Possible(req)
  /\ files' = After(req)
  /\ \/ Answer(200) /\ reply'.pieces = <<>>
     \/ done' = TRUE /\ UNCHANGED <<req, reply>>

Confirm ==
  /\ done
  /\ Answer(200) /\ reply'.pieces = <<>>
  /\ UNCHANGED files

\* The pieces of a file, each with its place in it, cover contents.
Covers(pieces, contents) ==
  /\ FlattenSeq([k \in DOMAIN pieces |-> pieces[k].data]) = contents
  /\ \A k \in DOMAIN pieces :
       SubSeq(contents, pieces[k].off + 1, pieces[k].off + Len(pieces[k].data)) = pieces[k].data

\* Reading and spawning send the whole file.
Deliver ==
  /\ req.op \in {"read", "spawn"}
  /\ Key(req.path) \in DOMAIN files
  /\ Answer(101)
  /\ Covers(reply'.pieces, files[Key(req.path)])
  /\ UNCHANGED files

\* An error: the request has had no effect.  A read may have sent a part.
Refuse ==
  /\ req # NoRequest /\ ~done
  /\ Answer(255)
  /\ \/ reply'.pieces = <<>>
     \/ /\ req.op = "read"
        /\ \E n \in 0 .. Len(files[Key(req.path)]) :
             Covers(reply'.pieces, SubSeq(files[Key(req.path)], 1, n))
  /\ UNCHANGED files

\* The machine stops; what has taken effect stays.
Crash ==
  /\ req' = NoRequest /\ done' = FALSE /\ reply' = NoReply
  /\ UNCHANGED files

Break == broken' = TRUE

Next == ~broken /\ (Break \/ (broken' = FALSE /\ (Ask \/ Effect \/ Confirm \/ Deliver \/ Refuse \/ Crash)))

Spec == Init /\ [][Next]_vars
=============================================================================

------------------------------- MODULE Fat32 --------------------------------
(***************************************************************************)
(* The file server _sdk/user_backup/fat32.c.  It takes one request at a    *)
(* time and alone writes the disk, so a step here is some sector reads and *)
(* at most one sector write; between two steps the machine may stop.       *)
(*                                                                         *)
(* read_sector, write_sector and the start of a program are the calls 13,  *)
(* 15 and 14 of the kernel that the server was written for.  This kernel   *)
(* has no such calls: it takes the numbers for kill, getticks and          *)
(* nanosleep (syscall.h:19), and README.md:809 says that there is no file  *)
(* system driver.  So the module is about the server on calls that do what *)
(* it expects of them: transfer the sector, or fail and leave the disk as  *)
(* it was.                                                                 *)
(***************************************************************************)
EXTENDS Integers, SequencesExt

CONSTANTS
  SPC,        \* sectors_per_cluster
  BPS,        \* bytes_per_sector, in units of a directory entry (32 bytes): 16
  LAST,       \* the last cluster the FAT has an entry for
  LAST_DATA,  \* the last cluster on the disk: the FAT may have more entries
  CHUNK,      \* how much of a file a message carries: 59 bytes, less than 2 units
  BUF,        \* sizeof(file_buf), in units
  BASE, EXT,  \* 8 and 3: lengths of a name and of its extension
  UPPER,      \* the upper-case letter of every lower-case one
  Disks,      \* disks to begin with: fat and sec, and the files that they hold
  Requests,   \* op, path and data; a path names no file as its directory
  MaxRequests, MaxErrors, MaxCrashes   \* bounds

ASSUME Fat32Assumption ==
  /\ {SPC, BPS, LAST, LAST_DATA, CHUNK, BASE, EXT} \subseteq Nat \ {0}
  /\ BPS > 2                                     \* "." and ".." leave room
  /\ 2 < LAST_DATA /\ LAST_DATA <= LAST
  /\ BUF % BPS = 0
  /\ \A r \in Requests : Len(r.data) <= BPS    \* a message has 64 bytes

root_cluster == 2
EOC == LAST + 1

VARIABLES fat,    \* next_cluster of every cluster, 0 when free
          sec,    \* the sectors of every cluster: BPS directory entries or pieces of data
          pc,     \* what the server does next
          req, reply,
          work,   \* its locals: the new cluster, the entry found, the chain to
                  \* free
          requests, errors, crashes,
          flaw,   \* auxiliary: what has happened that breaks the store
          lost,   \* auxiliary: clusters of removed directories, which stay taken
          files   \* auxiliary: the contents of every name, by what was answered

vars == <<fat, sec, pc, req, reply, work, requests, errors, crashes, flaw, lost, files>>

NoRequest == [op |-> "none", path |-> <<>>, data |-> <<>>]
NoReply == [type |-> 0, pieces |-> <<>>]
NoSlot == [c |-> 0, s |-> 0, i |-> 0]
NoWork == [new |-> 0, at |-> NoSlot, c |-> 0]

Zero == [kind |-> "zero", name |-> <<>>, cluster |-> 0, size |-> 0]

Lowest(S) == CHOOSE x \in S : \A y \in S : x <= y
Least(x, y) == IF x < y THEN x ELSE y
Take(seq, n) == SubSeq(seq, 1, Least(n, Len(seq)))

-----------------------------------------------------------------------------
(* Names.                                                                  *)

Upper(seq) == [i \in DOMAIN seq |-> IF seq[i] \in DOMAIN UPPER THEN UPPER[seq[i]] ELSE seq[i]]

\* The eleven bytes, as the name and the extension without their padding.
to_8_3(name) ==
  LET dot == SelectInSeq(name, LAMBDA ch : ch = ".")
  IN  IF dot = 0 THEN <<Upper(Take(name, BASE)), <<>> >>
      ELSE <<Upper(Take(SubSeq(name, 1, dot - 1), BASE)),
             Upper(Take(SubSeq(name, dot + 1, Len(name)), EXT))>>

\* A path is a name, or a directory of the root and a name: only the first
\* slash separates.
Key(path) ==
  LET slash == SelectInSeq(path, LAMBDA ch : ch = "/")
  IN  IF slash = 0 THEN <<to_8_3(path)>>
      ELSE <<to_8_3(SubSeq(path, 1, slash - 1)), to_8_3(SubSeq(path, slash + 1, Len(path)))>>

-----------------------------------------------------------------------------
(* Chains and directories.                                                 *)

is_eoc(c) == c >= EOC
IsCluster(c) == c >= 2 /\ ~is_eoc(c)

\* The clusters that next_cluster leads to from c on, n at most.
RECURSIVE Follow(_, _)
Follow(c, n) == IF n = 0 \/ ~IsCluster(c) THEN <<>> ELSE <<c>> \o Follow(fat[c], n - 1)

Chain(start) == Follow(start, LAST)

\* Where the entries of the directory at cluster dir are, in order.
Slots(dir) ==
  LET chain == Chain(dir)
  IN  [k \in 1 .. Len(chain) * SPC * BPS |->
        [c |-> chain[(k - 1) \div (SPC * BPS) + 1],
         s |-> ((k - 1) \div BPS) % SPC,
         i |-> ((k - 1) % BPS) + 1]]

Entry(p) == sec[p.c][p.s][p.i]
IsEntry(p) == Entry(p).kind \in {"file", "dir"}

\* The slots that find_in_dir looks at: those before the first zero entry.
Used(dir) ==
  LET slots == Slots(dir)
      n == SelectInSeq(slots, LAMBDA p : Entry(p).kind = "zero")
  IN  IF n = 0 THEN slots ELSE SubSeq(slots, 1, n - 1)

Find(dir, name) ==
  LET used == Used(dir)
      n == SelectInSeq(used, LAMBDA p : IsEntry(p) /\ Entry(p).name = name)
  IN  IF n = 0 THEN NoSlot ELSE used[n]

\* A failed read looks like a name that is not there.
find_in_dir(dir, name, err) == IF err THEN NoSlot ELSE Find(dir, name)

resolve_path(path, err) ==
  LET k == Key(path)
      p == find_in_dir(root_cluster, k[1], err)
  IN  IF Len(k) = 1 \/ p = NoSlot THEN p
      ELSE find_in_dir(Entry(p).cluster, k[2], err)

\* The bytes of the file whose entry is at p.
Contents(p) ==
  LET chain == Chain(Entry(p).cluster)
  IN  Take(FlattenSeq([k \in 1 .. Len(chain) * SPC |->
                         sec[chain[(k - 1) \div SPC + 1]][(k - 1) % SPC]]),
           Entry(p).size)

-----------------------------------------------------------------------------
(* Steps.                                                                  *)

\* The entries that a path can reach.
Top == {p \in Range(Used(root_cluster)) : IsEntry(p)}
In(p) == IF Entry(p).kind = "dir" THEN {q \in Range(Used(Entry(p).cluster)) : IsEntry(q)} ELSE {}
Reachable == Top \cup UNION {In(p) : p \in Top}

\* Where the entry of name k is.
At(k) ==
  LET p == Find(root_cluster, k[1])
  IN  IF Len(k) = 1 \/ p = NoSlot THEN p ELSE Find(Entry(p).cluster, k[2])

Init ==
  /\ \E d \in Disks : fat = d.fat /\ sec = d.sec /\ files = d.files
  /\ pc = "boot" /\ req = NoRequest /\ reply = NoReply /\ work = NoWork
  /\ requests = 0 /\ errors = 0 /\ crashes = 0
  /\ flaw = {} /\ lost = {}

\* read_sector and write_sector in a step: all calls succeed, or one fails.
Try(ok) ==
  /\ errors' = errors + (IF ok THEN 0 ELSE 1)
  /\ errors' <= MaxErrors

Goto(next, w) == pc' = next /\ work' = w /\ UNCHANGED <<req, reply>>

Answer(type, pieces) ==
  /\ pc' = "idle" /\ work' = NoWork /\ req' = NoRequest
  /\ reply' = [type |-> type, pieces |-> pieces]

KeepDisk == UNCHANGED <<fat, sec, flaw, lost, files>>
Mark(what, cond) == flaw' = flaw \cup (IF cond THEN {what} ELSE {})

\* init_fs: without the first sector the server spins for ever.
Boot ==
  /\ pc = "boot"
  /\ \E ok \in BOOLEAN : Try(ok) /\ Goto(IF ok THEN "idle" ELSE "stopped", NoWork)
  /\ KeepDisk

recv(r) ==
  /\ pc = "idle" /\ requests < MaxRequests
  /\ pc' = r.op /\ req' = r /\ reply' = NoReply
  /\ requests' = requests + 1
  /\ KeepDisk /\ UNCHANGED <<work, errors, crashes>>

\* A type the server does not know, or a write whose message ends in its path.
Malformed == pc = "malformed" /\ Answer(255, <<>>) /\ KeepDisk /\ UNCHANGED errors

\* Mutant: the pieces do not stop at the end of a sector.
Pieces_over_sector(data) ==
  LET PerSector == (BPS + CHUNK - 1) \div CHUNK
      Off(m) == ((m - 1) \div PerSector) * BPS + ((m - 1) % PerSector) * CHUNK
      n == Cardinality({m \in 1 .. Len(data) : Off(m) < Len(data)})
  IN  [m \in 1 .. n |->
        [off |-> Off(m), data |-> SubSeq(data, Off(m) + 1, Least(Off(m) + CHUNK, Len(data)))]]

\* The messages that carry data: pieces of at most CHUNK bytes, none of which
\* goes over the end of a sector.
Pieces(data) ==
  LET PerSector == (BPS + CHUNK - 1) \div CHUNK
      Off(m) == ((m - 1) \div PerSector) * BPS + ((m - 1) % PerSector) * CHUNK
      End(m) == Least(Least(Off(m) + CHUNK, ((m - 1) \div PerSector + 1) * BPS), Len(data))
      n == Cardinality({m \in 1 .. Len(data) : Off(m) < Len(data)})
  IN  [m \in 1 .. n |-> [off |-> Off(m), data |-> SubSeq(data, Off(m) + 1, End(m))]]

NotFound == \E ok \in BOOLEAN :
  /\ resolve_path(req.path, ~ok) = NoSlot
  /\ Try(ok) /\ Answer(255, <<>>) /\ KeepDisk

\* Sectors are sent as they are read.  When a sector cannot be read the client
\* has got those before it; when the FAT cannot be read the file seems to end.
Read ==
  /\ pc = "read"
  /\ \/ NotFound
     \/ /\ resolve_path(req.path, FALSE) # NoSlot
        /\ LET data == Contents(resolve_path(req.path, FALSE))
           IN  \/ Try(TRUE) /\ Answer(101, Pieces(data)) /\ KeepDisk
               \/ /\ Try(FALSE)
                  /\ \E n \in {n \in 0 .. Len(data) - 1 : n % BPS = 0} :
                       Answer(255, Pieces(Take(data, n)))
                  /\ KeepDisk
               \/ /\ Try(FALSE)
                  /\ \E n \in {n \in 1 .. Len(data) - 1 : n % (BPS * SPC) = 0} :
                       Answer(101, Pieces(Take(data, n)))
                  /\ Mark("cut", TRUE) /\ UNCHANGED <<fat, sec, lost, files>>

\* The program goes to call 14 in one piece; the call may fail.
Spawn ==
  /\ pc = "spawn"
  /\ \/ NotFound
     \/ /\ resolve_path(req.path, FALSE) # NoSlot
        /\ LET p == resolve_path(req.path, FALSE)
           IN  \/ /\ Entry(p).size <= BUF /\ Len(Contents(p)) = Entry(p).size
                  /\ Answer(101, <<[off |-> 0, data |-> Contents(p)]>>) /\ Try(TRUE)
               \/ Answer(255, <<>>) /\ \E ok \in BOOLEAN : Try(ok)
        /\ KeepDisk

\* resolve_parent passes no place for the size: the server faults when the
\* directory is there.
BadParent ==
  /\ Len(Key(req.path)) = 2
  /\ \E ok \in BOOLEAN :
       /\ Try(ok)
       /\ IF find_in_dir(root_cluster, Key(req.path)[1], ~ok) = NoSlot
          THEN Answer(255, <<>>)
          ELSE Goto("stopped", NoWork)
  /\ KeepDisk

InRoot == Len(Key(req.path)) = 1
FindName(ok) == find_in_dir(root_cluster, Key(req.path)[1], ~ok)

\* A write after it has looked for the name and, if there is data, has a place
\* for it.
Next_write(w) == IF w.at = NoSlot THEN "enter" ELSE "match"

Write ==
  /\ pc = "write"
  /\ \/ BadParent
     \/ /\ InRoot
        /\ \E ok \in BOOLEAN :
             LET w == [NoWork EXCEPT !.at = FindName(ok)]
             IN  /\ Try(ok)
                 /\ Mark("misread", w.at # FindName(TRUE))
                 /\ Goto(IF req.data = <<>> THEN Next_write(w) ELSE "alloc", w)
        /\ UNCHANGED <<fat, sec, lost, files>>

Mkdir ==
  /\ pc = "mkdir"
  /\ \/ BadParent
     \/ InRoot /\ Goto("alloc", NoWork) /\ KeepDisk /\ UNCHANGED errors

FreeClusters == {c \in 2 .. LAST : fat[c] = 0}

\* Mutant: the search ends behind the last cluster.
Candidates_past_end(ok) ==
  {IF FreeClusters = {} THEN LAST + 1 ELSE Lowest(FreeClusters)}

\* Mutant: the end of a chain is taken for a free cluster.
Candidates_eoc(ok) == {Lowest({c \in 2 .. LAST : fat[c] = 0 \/ is_eoc(fat[c])})}

\* alloc_cluster takes the first cluster whose entry reads as 0; an entry that
\* cannot be read is taken for one.
Candidates(ok) ==
  IF ok THEN IF FreeClusters = {} THEN {0} ELSE {Lowest(FreeClusters)}
  ELSE {c \in 2 .. LAST : \A f \in FreeClusters : c < f}

Alloc ==
  /\ pc = "alloc"
  /\ \E ok \in BOOLEAN : \E c \in Candidates(ok) :
       \/ /\ c # 0
          /\ Try(ok)
          /\ fat' = [fat EXCEPT ![c] = EOC]
          /\ Mark("misread", ~ok)
          /\ Goto("data", [work EXCEPT !.new = c])
       \/ /\ Try(c = 0)                        \* set_fat_entry fails
          /\ Answer(255, <<>>)
          /\ UNCHANGED <<fat, flaw>>
  /\ UNCHANGED <<sec, lost, files>>

\* Mutant: the last byte is missing.
NewSector_short ==
  IF req.op = "write" THEN [i \in 1 .. BPS |-> IF i < Len(req.data) THEN req.data[i] ELSE Zero]
  ELSE [i \in 1 .. BPS |-> IF i <= 2 THEN [Zero EXCEPT !.kind = "dot"] ELSE Zero]

\* The first sector of the new cluster: the data padded with zeros, or the
\* entries "." and "..".
NewSector ==
  IF req.op = "write" THEN [i \in 1 .. BPS |-> IF i <= Len(req.data) THEN req.data[i] ELSE Zero]
  ELSE [i \in 1 .. BPS |-> IF i <= 2 THEN [Zero EXCEPT !.kind = "dot"] ELSE Zero]

\* The only sector that write_file_data or mkdir writes to the new cluster, as
\* data is shorter than a sector.
Data ==
  /\ pc = "data"
  /\ \/ /\ work.new <= LAST_DATA
        /\ Try(TRUE)
        /\ sec' = [sec EXCEPT ![work.new][0] = NewSector]
        /\ Goto(Next_write(work), work)
     \/ /\ Try(work.new > LAST_DATA)
        /\ Goto("undo", [work EXCEPT !.c = work.new])
        /\ UNCHANGED sec
  /\ UNCHANGED <<fat, flaw, lost, files>>

\* From here on the name has the data of the request; a directory has none.
Stored == files' = [k \in DOMAIN files \cup {Key(req.path)} |->
                      IF k = Key(req.path) THEN req.data ELSE files[k]]

\* The first free entry of the root, 0 if there is none.
free_dir_entry ==
  SelectInSeq(Slots(root_cluster), LAMBDA p : Entry(p).kind \in {"zero", "deleted"})

\* The entry of a new name.  The server only learns the offset of the free entry
\* in its sector and not the sector: the entry always goes to the first one.
NewEntry == [kind |-> IF req.op = "mkdir" THEN "dir" ELSE "file", name |-> Key(req.path)[1],
             cluster |-> work.new, size |-> Len(req.data)]

Enter ==
  /\ pc = "enter"
  /\ LET n == free_dir_entry
     IN  \/ /\ n # 0
            /\ Try(TRUE)
            /\ sec' = [sec EXCEPT ![root_cluster][0][Slots(root_cluster)[n].i] = NewEntry]
            /\ flaw' = flaw \cup (IF n > BPS THEN {"misplaced"} ELSE {})
                            \cup (IF FindName(TRUE) # NoSlot THEN {"twice"} ELSE {})
            /\ Stored
            /\ Answer(200, <<>>)
         \/ /\ Try(n = 0)
            /\ Goto("undo", [work EXCEPT !.c = work.new])
            /\ UNCHANGED <<sec, flaw, files>>
  /\ UNCHANGED <<fat, lost>>

\* An existing name: the directory is read once more.
Match ==
  /\ pc = "match"
  /\ \/ /\ Try(TRUE)
        /\ Goto("free", [work EXCEPT !.c = Entry(work.at).cluster])
        /\ Mark("retyped", Entry(work.at).kind = "dir")
     \/ /\ Try(FALSE)
        /\ Goto("undo", [work EXCEPT !.c = work.new])
        /\ UNCHANGED flaw
  /\ UNCHANGED <<fat, sec, lost, files>>

\* Mutant: only the first cluster is freed.
FreeOne_first ==
  /\ pc \in {"free", "undo"} /\ IsCluster(work.c)
  /\ Try(TRUE)
  /\ fat' = [fat EXCEPT ![work.c] = 0]
  /\ Goto(pc, [work EXCEPT !.c = 0])
  /\ UNCHANGED <<sec, flaw, lost, files>>

\* One turn of free_cluster_chain.  Errors are ignored: a failed read of the
\* FAT ends the chain, a failed write leaves the cluster taken.
FreeOne ==
  /\ pc \in {"free", "undo"} /\ IsCluster(work.c)
  /\ \/ /\ Try(TRUE)
        /\ fat' = [fat EXCEPT ![work.c] = 0]
        /\ Goto(pc, [work EXCEPT !.c = fat[work.c]])
     \/ /\ Try(FALSE)
        /\ fat' = [fat EXCEPT ![work.c] = 0]
        /\ Goto(pc, [work EXCEPT !.c = 0])
     \/ /\ Try(FALSE)
        /\ UNCHANGED fat
        /\ Goto(pc, [work EXCEPT !.c = fat[work.c]])
  /\ UNCHANGED <<sec, flaw, lost, files>>

Freed ==
  /\ pc \in {"free", "undo"} /\ ~IsCluster(work.c)
  /\ CASE pc = "undo" -> Answer(255, <<>>)
       [] req.op = "write" -> Goto("update", work)
       [] OTHER -> Answer(200, <<>>)
  /\ KeepDisk /\ UNCHANGED errors

\* The entry of a name that exists gets the new cluster and size.  The loop
\* goes on to the end of the sector, and a zero entry there makes it undo what
\* it did (names being unique, it does not match again).
Update ==
  /\ pc = "update"
  /\ LET p == work.at
         more == \E i \in p.i + 1 .. BPS : sec[p.c][p.s][i].kind = "zero"
     IN  \/ /\ Try(TRUE)
            /\ sec' = [sec EXCEPT ![p.c][p.s][p.i].cluster = work.new,
                                  ![p.c][p.s][p.i].size = Len(req.data)]
            /\ Mark("undone", more)
            /\ Stored
            /\ IF more THEN Goto("undo", [work EXCEPT !.c = work.new])
               ELSE Answer(200, <<>>)
         \/ /\ Try(FALSE)
            /\ Answer(255, <<>>)
            /\ Mark("torn", Entry(p).cluster # 0)
            /\ UNCHANGED <<sec, files>>
  /\ UNCHANGED <<fat, lost>>

\* The clusters of the entry at p, with those of its files if it is a directory.
Below(p) == UNION {Range(Chain(Entry(q).cluster)) : q \in {p} \cup In(p)}

\* The clusters of a directory are not freed.
delete_entry(p) ==
  \/ /\ Try(TRUE)
     /\ sec' = [sec EXCEPT ![p.c][p.s][p.i].kind = "deleted"]
     /\ files' = [k \in {k \in DOMAIN files : k[1] # Key(req.path)[1]} |-> files[k]]
     /\ IF Entry(p).kind = "dir"
        THEN Answer(200, <<>>) /\ lost' = lost \cup Below(p)
        ELSE Goto("free", [work EXCEPT !.c = Entry(p).cluster]) /\ UNCHANGED lost
     /\ UNCHANGED <<fat, flaw>>
  \/ Try(FALSE) /\ Answer(255, <<>>) /\ KeepDisk

\* Type 3 and type 5.
Delete ==
  /\ pc = "delete"
  /\ \/ BadParent
     \/ \E ok \in BOOLEAN : /\ InRoot /\ FindName(ok) = NoSlot
                            /\ Try(ok) /\ Answer(255, <<>>) /\ KeepDisk
     \/ /\ InRoot /\ FindName(TRUE) # NoSlot
        /\ delete_entry(FindName(TRUE))

\* An overwrite has begun to free the old clusters of a file that its entry
\* still names.
Overwriting == req.op = "write" /\ pc \in {"free", "update"} /\ work.c # Entry(work.at).cluster

\* The machine stops and starts again.
Crash ==
  /\ pc # "boot" /\ crashes < MaxCrashes
  /\ pc' = "boot" /\ req' = NoRequest /\ reply' = NoReply /\ work' = NoWork
  /\ crashes' = crashes + 1
  /\ Mark("torn", Overwriting)
  /\ UNCHANGED <<fat, sec, requests, errors, lost, files>>

Server ==
  /\ Boot \/ Malformed \/ Read \/ Spawn \/ Write \/ Mkdir \/ Delete \/ Alloc \/ Data
     \/ Enter \/ Match \/ FreeOne \/ Freed \/ Update
  /\ UNCHANGED <<requests, crashes>>

\* After a flaw nothing is claimed, and the model stops.
Next == flaw = {} /\ (Server \/ Crash \/ \E r \in Requests : recv(r))

Spec == Init /\ [][Next]_vars

-----------------------------------------------------------------------------
(* Properties.                                                             *)

Clusters == 2 .. LAST

TypeOK ==
  /\ fat \in [Clusters -> {0, EOC} \cup Clusters]
  /\ DOMAIN sec = 2 .. LAST_DATA
  /\ pc \in {"boot", "stopped", "idle", "malformed", "read", "spawn", "write", "mkdir", "delete",
             "alloc", "data", "enter", "match", "free", "undo", "update"}
  /\ req \in Requests \cup {NoRequest}
  /\ work.new \in {0} \cup Clusters /\ work.c \in {0, EOC} \cup Clusters
  /\ requests \in 0 .. MaxRequests /\ errors \in 0 .. MaxErrors /\ crashes \in 0 .. MaxCrashes

\* Clusters that hold something: the root, the files and directories, and the
\* cluster of the request at hand until its entry is written.
Starts == [p \in Reachable |-> Entry(p).cluster]
Whole(c) == c = 0 \/ (c <= LAST_DATA /\ fat[Last(Chain(c))] = EOC)

\* Every file and directory has all its clusters, allocated and its own: no
\* chain runs into a free cluster, and no two share one.  This holds at every
\* moment, so also after a crash between any two sector writes; the one moment
\* it does not is when an overwrite has freed the old clusters of the file that
\* it is about to change (fat32.c:435), which Overwriting names.
ChainsSound ==
  flaw = {} =>
    LET owners == IF Overwriting THEN Reachable \ {work.at} ELSE Reachable
        fresh == IF pc \in {"data", "enter", "match", "free", "update"} THEN {work.new} \ {0} ELSE {}
    IN  /\ \A p \in owners : Whole(Starts[p])
        /\ \A p \in owners : Range(Chain(Starts[p])) \cap Range(Chain(root_cluster)) = {}
        /\ \A p, q \in owners : p # q => Range(Chain(Starts[p])) \cap Range(Chain(Starts[q])) = {}
        /\ \A c \in fresh : /\ fat[c] = EOC /\ c \notin Range(Chain(root_cluster))
                            /\ \A p \in owners : c \notin Range(Chain(Starts[p]))

\* No cluster is lost in a run without errors and crashes: between requests
\* a cluster is taken exactly when the root, a file or a directory has it, but
\* for those of removed directories (fat32.c:222).
NothingLost ==
  flaw = {} /\ errors = 0 /\ crashes = 0 /\ pc = "idle" =>
    {c \in Clusters : fat[c] # 0} =
      Range(Chain(root_cluster)) \cup lost \cup UNION {Range(Chain(Starts[p])) : p \in Reachable}

\* With sector calls that do what they should, the files are where a path leads
\* to and hold what the answers have said, also after a crash: nothing but a
\* request changes a name, and a request that was answered has changed the disk
\* (the file of an overwrite apart).
FilesOnDisk ==
  flaw = {} =>
    /\ {k \in DOMAIN files : At(k) # NoSlot} = DOMAIN files
    /\ \A p \in Reachable : \E k \in DOMAIN files : p = At(k)
    /\ \A k \in DOMAIN files : Contents(At(k)) = files[k] \/ (Overwriting /\ At(k) = work.at)

\* With such calls the server keeps the promises of FileStore until a flaw: every
\* request takes effect at one sector write or not at all, whatever fails and
\* wherever the machine stops, the answer says which, and a read sends the file.
Store == INSTANCE FileStore WITH done <- req.op = "delete" /\ pc = "free",
                                 broken <- flaw # {}
KeepsStore == Store!Spec
=============================================================================

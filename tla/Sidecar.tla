------------------------------- MODULE Sidecar -------------------------------
(***************************************************************************)
(* One sidecar file of the store: writeFrontmatter and readFrontmatter in  *)
(* internal/store/frontmatter.go.  Each handler that registers the same    *)
(* owner, tunnel and slot writes the same path, through the same name      *)
(* "<path>.tmp", and nothing serialises them.                              *)
(*                                                                         *)
(* Files are inodes: a name leads to one, an open file refers to one, and  *)
(* two names or two open files may share one.  What an inode holds is what *)
(* its last writer left, which need not be a whole version.                *)
(***************************************************************************)
EXTENDS Naturals

CONSTANTS
  Writers,      \* goroutines that may write the file
  Versions,     \* what they write
  Size,         \* Size[v]: the length of version v
  Inodes,
  NoInode,      \* the name does not exist
  Empty, Torn,  \* contents that are not a version
  WriteFaults,  \* TRUE: a system call may fail
  PowerLoss     \* TRUE: the machine may lose power

ASSUME SizeAssumption == Size \in [Versions -> Nat]
ASSUME ContentAssumption == {Empty, Torn} \cap Versions = {} /\ Empty # Torn
ASSUME InodeAssumption == NoInode \notin Inodes
ASSUME SidecarFaultsAssumption == WriteFaults \in BOOLEAN /\ PowerLoss \in BOOLEAN

VARIABLES
  tmp, path,   \* the inode each of the two names leads to
  disk,        \* the directories a loss of power may bring back, the present one among them
  data,        \* what a reader of an inode finds
  durable,     \* what is left of it when the power fails
  wpc, fd, buf, \* where a writer stands, the file it has open, what it writes
  \* For the properties only, of the write that is going on:
  failed,      \* which of its system calls have failed
  found        \* what a reader found when it called os.Create

vars == <<tmp, path, disk, data, durable, wpc, fd, buf, failed, found>>
names == <<tmp, path, disk>>
history == <<failed, found>>

Content == Versions \cup {Empty, Torn}
Place == Inodes \cup {NoInode}
Calls == {"create", "write", "sync", "close", "rename", "remove"}

\* A directory, as far as the two names go.
Dir(t, p) == [tmp |-> t, path |-> p]

\* What readFrontmatter finds.
Read(i) == IF i = NoInode THEN Empty ELSE data[i]

TypeOK ==
  /\ tmp \in Place /\ path \in Place
  /\ disk \subseteq [tmp : Place, path : Place] /\ Dir(tmp, path) \in disk
  /\ data \in [Inodes -> Content]
  /\ durable \in [Inodes -> Content]
  /\ wpc \in [Writers -> {"idle", "create", "write", "sync", "close", "rename", "remove",
                          "ok", "error"}]
  /\ fd \in [Writers -> Place]
  \* a file is open from Create until it is closed, on the error paths too
  /\ \A w \in Writers :
       /\ wpc[w] \in {"write", "sync", "close"} => fd[w] # NoInode
       /\ wpc[w] \in {"idle", "create", "rename", "ok", "error"} => fd[w] = NoInode
  /\ buf \in [Writers -> Versions \cup {Empty}]
  /\ failed \in [Writers -> SUBSET Calls]
  /\ found \in [Writers -> Content]

Init ==
  /\ tmp = NoInode /\ path = NoInode /\ disk = {Dir(NoInode, NoInode)}
  /\ data = [i \in Inodes |-> Empty]
  /\ durable = [i \in Inodes |-> Empty]
  /\ wpc = [w \in Writers |-> "idle"]
  /\ fd = [w \in Writers |-> NoInode]
  /\ buf = [w \in Writers |-> Empty]
  /\ failed = [w \in Writers |-> {}]
  /\ found = [w \in Writers |-> Empty]

Moves(w, from, to) == wpc[w] = from /\ wpc' = [wpc EXCEPT ![w] = to]

\* A system call of w, named by the stage, succeeds, or fails.
Succeeds(w, call, to) == Moves(w, call, to) /\ UNCHANGED failed
Fails(w, call, to) ==
  /\ Moves(w, call, to)
  /\ failed' = [failed EXCEPT ![w] = @ \cup {call}]

\* The directory changes.  It is never flushed, so an earlier one may be what
\* the disk holds.
Enter(t, p) == /\ tmp' = t /\ path' = p
               /\ disk' = disk \cup {Dir(t, p)}

\* MkdirAll and the encoding of v have succeeded.
Begin(w, v) ==
  /\ Moves(w, "idle", "create")
  /\ buf' = [buf EXCEPT ![w] = v]
  /\ UNCHANGED <<names, data, durable, fd, history>>

InUse == {d.tmp : d \in disk} \cup {d.path : d \in disk} \cup {fd[w] : w \in Writers}

\* os.Create: opens the file that has the name and empties it, or makes one.
Create(w) ==
  /\ \/ /\ Succeeds(w, "create", "write")
        /\ \E i \in Inodes :
             /\ IF tmp = NoInode THEN i \notin InUse ELSE i = tmp
             /\ Enter(i, path)
             /\ fd' = [fd EXCEPT ![w] = i]
             /\ data' = [data EXCEPT ![i] = Empty]
             /\ durable' = [durable EXCEPT ![i] = Empty]
     \/ /\ WriteFaults
        /\ Fails(w, "create", "error")
        /\ UNCHANGED <<names, fd, data, durable>>
  /\ found' = [found EXCEPT ![w] = Read(path)]
  /\ UNCHANGED buf

\* Version v written from the start of a file that holds c: what is beyond its
\* end stays.
Over(v, c) ==
  IF c = Torn \/ (c \in Versions /\ Size[c] > Size[v]) THEN Torn ELSE v

\* Mutant of Write: the rename comes before the flush.
RenameFirst(w) ==
  /\ Succeeds(w, "write", "sync")
  /\ data' = [data EXCEPT ![fd[w]] = buf[w]]
  /\ Enter(NoInode, tmp)
  /\ UNCHANGED <<durable, fd, buf, found>>

\* f.Write; when it fails, part of the buffer may be in the file.
Write(w) ==
  /\ \/ /\ Succeeds(w, "write", "sync")
        /\ data' = [data EXCEPT ![fd[w]] = Over(buf[w], @)]
     \/ /\ WriteFaults
        /\ Fails(w, "write", "remove")
        /\ data' = [data EXCEPT ![fd[w]] = Torn]
  /\ UNCHANGED <<names, durable, fd, buf, found>>

\* Mutants of Sync: the file is not flushed; the error path leaves out
\* os.Remove.
NoSync(w) ==
  /\ Succeeds(w, "sync", "close")
  /\ UNCHANGED <<names, data, durable, fd, buf, found>>

SyncUnremoved(w) ==
  /\ Fails(w, "sync", "error")
  /\ fd' = [fd EXCEPT ![w] = NoInode]
  /\ UNCHANGED <<names, data, durable, buf, found>>

Sync(w) ==
  /\ \/ /\ Succeeds(w, "sync", "close")
        /\ durable' = [durable EXCEPT ![fd[w]] = data[fd[w]]]
     \/ /\ WriteFaults
        /\ Fails(w, "sync", "remove")
        /\ UNCHANGED durable
  /\ UNCHANGED <<names, data, fd, buf, found>>

Close(w) ==
  /\ \/ Succeeds(w, "close", "rename")
     \/ WriteFaults /\ Fails(w, "close", "remove")
  /\ fd' = [fd EXCEPT ![w] = NoInode]
  /\ UNCHANGED <<names, data, durable, buf, found>>

\* os.Rename moves whatever file has the name "<path>.tmp" now; when it fails
\* the temporary file stays.
Rename(w) ==
  /\ \/ /\ Succeeds(w, "rename", "ok")
        /\ tmp # NoInode
        /\ Enter(NoInode, tmp)
     \/ /\ Fails(w, "rename", "error")
        /\ tmp = NoInode \/ WriteFaults
        /\ UNCHANGED names
  /\ UNCHANGED <<data, durable, fd, buf, found>>

\* Mutants of Remove: the error path leaves the file open; it removes the file
\* itself.
RemoveUnclosed(w) ==
  /\ Succeeds(w, "remove", "error")
  /\ Enter(NoInode, path)
  /\ UNCHANGED <<data, durable, fd, buf, found>>

RemoveWrong(w) ==
  /\ Succeeds(w, "remove", "error")
  /\ Enter(tmp, NoInode)
  /\ fd' = [fd EXCEPT ![w] = NoInode]
  /\ UNCHANGED <<data, durable, buf, found>>

\* The error path: f.Close, if it is still open, and os.Remove of the temporary
\* name, whose error nobody looks at.
Remove(w) ==
  /\ \/ Succeeds(w, "remove", "error") /\ Enter(NoInode, path)
     \/ WriteFaults /\ Fails(w, "remove", "error") /\ UNCHANGED names
  /\ fd' = [fd EXCEPT ![w] = NoInode]
  /\ UNCHANGED <<data, durable, buf, found>>

\* The history of a write ends with it.
Return(w) ==
  /\ wpc[w] \in {"ok", "error"}
  /\ wpc' = [wpc EXCEPT ![w] = "idle"]
  /\ buf' = [buf EXCEPT ![w] = Empty]
  /\ failed' = [failed EXCEPT ![w] = {}]
  /\ found' = [found EXCEPT ![w] = Empty]
  /\ UNCHANGED <<names, data, durable, fd>>

AbandonWriters ==
  /\ wpc' = [w \in Writers |-> "idle"]
  /\ fd' = [w \in Writers |-> NoInode]
  /\ buf' = [w \in Writers |-> Empty]
  /\ failed' = [w \in Writers |-> {}]
  /\ found' = [w \in Writers |-> Empty]

\* The server process ends between any two system calls; a temporary file
\* stays behind.
Crash == AbandonWriters /\ UNCHANGED <<names, data, durable>>

\* The operating system writes the directory to the disk when it likes.
WriteBack ==
  /\ disk' = {Dir(tmp, path)}
  /\ UNCHANGED <<tmp, path, data, durable, wpc, fd, buf, history>>

\* The power fails: unflushed data is lost, and so may be every change of the
\* directory since it was last written back.  The file system brings back the
\* directory of one moment, as a journal does.
LosePower ==
  /\ PowerLoss
  /\ AbandonWriters
  /\ data' = durable
  /\ \E d \in disk : tmp' = d.tmp /\ path' = d.path /\ disk' = {d}
  /\ UNCHANGED durable

WriterStep(w) ==
  \/ \E v \in Versions : Begin(w, v)
  \/ Create(w) \/ Write(w) \/ Sync(w) \/ Close(w) \/ Rename(w)
  \/ Remove(w) \/ Return(w)

Next == (\E w \in Writers : WriterStep(w)) \/ Crash \/ WriteBack \/ LosePower

Spec == Init /\ [][Next]_vars

\* A writer uses the temporary name from os.Create to the rename or removal.
Using == {"write", "sync", "close", "rename", "remove"}

\* No two writers do at a time.  Nothing in the code sees to it: the handlers
\* of one slot share the name, and whoever deploys the server has to keep two
\* clients from registering one slot at the same moment.
InTurns == \A v, w \in Writers : wpc[v] \in Using /\ wpc[w] \in Using => v = w

\* The runs of Spec in which they take turns.
TurnNext == Next /\ InTurns'
TurnSpec == Init /\ [][TurnNext]_vars

-----------------------------------------------------------------------------

\* Whoever opens the sidecar finds no file or a whole version, also in the
\* middle of a write, after a failed one, and after a crash or loss of power:
\* "Every mutation writes `<file>.tmp`, `fsync`s, then `rename`s over the
\* destination. This is crash-safe" (docs/storage.md:104).
ReadersSeeWhole == path # NoInode => data[path] \in Versions

\* A write that reports success has had no failing call and has stored what it
\* was given.  One that reports an error has had one; a reader finds what it
\* found when the write called os.Create, so that none of the steps before the
\* failing call has shown anything; and the temporary file is gone, unless it
\* was the rename or the removal that failed, or os.Create, when there was none.
ResultIsTrue ==
  [][\A w \in Writers :
       /\ wpc[w] # "ok" /\ wpc'[w] = "ok" =>
            failed'[w] = {} /\ Read(path)' = buf[w]
       /\ wpc[w] # "error" /\ wpc'[w] = "error" =>
            /\ failed'[w] # {}
            /\ Read(path)' = found'[w]
            /\ failed'[w] \cap {"create", "rename", "remove"} = {} => tmp' = NoInode]_vars

\* Writers that take turns implement a file whose writes are atomic.
File == INSTANCE AtomicFile
  WITH Nothing <- Empty, value <- Read(path), stored <- {Read(d.path) : d \in disk}
ImplementsAtomicFile == File!Spec
=============================================================================

---------------------------- MODULE SidecarProofs ----------------------------
(***************************************************************************)
(* Proofs about one sidecar file and any number of writers, for any        *)
(* versions, lengths and inodes, failing calls, crashes and losses of      *)
(* power.  That every variable keeps its type holds of every run; the rest *)
(* holds as long as no two writers use the temporary name at a time, which *)
(* nothing in the code ensures.  Without that TLC finds a reader of half a *)
(* file.                                                                   *)
(***************************************************************************)
EXTENDS Sidecar, TLAPS

\* Inode i holds a whole version, on the disk as well.
Whole(i) == data[i] \in Versions /\ durable[i] = data[i]

\* The writer that uses the temporary file has it to itself; what is in the
\* file at each stage is what goes into path next.
WriterInv ==
  \A w \in Writers :
    /\ wpc[w] \in Using \cup {"create"} => buf[w] \in Versions
    /\ wpc[w] \in {"write", "sync", "close"} => fd[w] = tmp /\ tmp # NoInode
    /\ wpc[w] = "rename" => tmp # NoInode
    /\ wpc[w] = "write" => data[tmp] = Empty
    /\ wpc[w] \in {"sync", "close", "rename"} => data[tmp] = buf[w]
    /\ wpc[w] \in {"close", "rename"} => durable[tmp] = buf[w]

\* In every directory the disk may hold, the name readers open leads to a whole
\* version, and not to a temporary file, whose writer would empty it.
NamesInv ==
  \A d \in disk : d.path # NoInode => Whole(d.path) /\ d.path # d.tmp /\ d.path # tmp

\* What has happened to the write that is going on.
HistoryInv ==
  \A w \in Writers :
    /\ wpc[w] \in {"create", "write", "sync", "close", "rename"} => failed[w] = {}
    /\ wpc[w] = "idle" => failed[w] = {}
    /\ wpc[w] = "remove" => failed[w] # {}
    /\ wpc[w] \in Using => found[w] = Read(path)

\* The inductive invariant.
IInv == TypeOK /\ WriterInv /\ NamesInv /\ HistoryInv

-----------------------------------------------------------------------------
(* Any writers, in turns or not.                                           *)

\* Entering two places in the directory keeps the types of the names.
LEMMA EnterType ==
  ASSUME TypeOK, NEW t \in Place, NEW p \in Place, Enter(t, p)
  PROVE  /\ tmp' \in Place /\ path' \in Place
         /\ disk' \subseteq [tmp : Place, path : Place] /\ Dir(tmp', path') \in disk'
  BY DEF TypeOK, Enter, Dir

\* What a reader finds is content.
LEMMA ReadType == TypeOK => Read(path) \in Content
  BY DEF TypeOK, Read, Place, Content

\* Every step of a writer keeps every variable's type.
LEMMA WriterType ==
  ASSUME TypeOK, NEW w \in Writers, WriterStep(w)
  PROVE  TypeOK'
<1> USE DEF TypeOK, Content, Place, Moves, Succeeds, Fails, Calls, names, history
<1>1. ASSUME NEW v \in Versions, Begin(w, v) PROVE TypeOK'
  BY <1>1 DEF Begin, Dir
<1>2. CASE Create(w) /\ wpc'[w] = "write"
  <2>1. PICK i \in Inodes : /\ Enter(i, path)
                            /\ fd' = [fd EXCEPT ![w] = i]
                            /\ data' = [data EXCEPT ![i] = Empty]
                            /\ durable' = [durable EXCEPT ![i] = Empty]
    BY <1>2 DEF Create
  <2>2. /\ tmp' \in Place /\ path' \in Place
        /\ disk' \subseteq [tmp : Place, path : Place] /\ Dir(tmp', path') \in disk'
    BY <2>1, EnterType
  <2>3. found' = [found EXCEPT ![w] = Read(path)] /\ Read(path) \in Content
    BY <1>2, ReadType DEF Create
  <2> QED
    BY <1>2, <2>1, <2>2, <2>3, InodeAssumption DEF Create
<1>3. CASE Create(w) /\ wpc'[w] # "write"
  <2>1. found' = [found EXCEPT ![w] = Read(path)] /\ Read(path) \in Content
    BY <1>3, ReadType DEF Create
  <2> QED
    BY <1>3, <2>1 DEF Create, Dir
<1>4. CASE Write(w)
  <2>1. fd[w] \in Inodes /\ (buf[w] \in Content \/ Over(buf[w], data[fd[w]]) = Torn)
    BY <1>4 DEF Write, Over
  <2> QED
    BY <1>4, <2>1 DEF Write, Over, Dir
<1>5. CASE Sync(w)
  BY <1>5 DEF Sync, Dir
<1>6. CASE Close(w)
  BY <1>6 DEF Close, Dir
<1>7. CASE Rename(w)
  <2>1. /\ tmp' \in Place /\ path' \in Place
        /\ disk' \subseteq [tmp : Place, path : Place] /\ Dir(tmp', path') \in disk'
    BY <1>7, EnterType DEF Rename
  <2> QED
    BY <1>7, <2>1 DEF Rename
<1>8. CASE Remove(w)
  <2>1. /\ tmp' \in Place /\ path' \in Place
        /\ disk' \subseteq [tmp : Place, path : Place] /\ Dir(tmp', path') \in disk'
    BY <1>8, EnterType DEF Remove
  <2> QED
    BY <1>8, <2>1 DEF Remove
<1>9. CASE Return(w)
  BY <1>9 DEF Return, Dir
<1> QED
  BY <1>1, <1>2, <1>3, <1>4, <1>5, <1>6, <1>7, <1>8, <1>9 DEF WriterStep

\* So does the end of the process or of the power, and the directory reaching
\* the disk.
LEMMA TypeStep == TypeOK /\ [Next]_vars => TypeOK'
<1> SUFFICES ASSUME TypeOK, [Next]_vars PROVE TypeOK'
  OBVIOUS
<1> USE DEF TypeOK, Content, Place, Dir, names, history
<1>1. CASE Crash
  BY <1>1 DEF Crash, AbandonWriters
<1>2. CASE WriteBack
  BY <1>2 DEF WriteBack
<1>3. CASE LosePower
  <2>1. PICK d \in disk : tmp' = d.tmp /\ path' = d.path /\ disk' = {d}
    BY <1>3 DEF LosePower
  <2>2. d = Dir(tmp', path')
    BY <2>1
  <2> QED
    BY <1>3, <2>1, <2>2 DEF LosePower, AbandonWriters
<1>4. CASE UNCHANGED vars
  BY <1>4 DEF vars
<1> QED
  BY <1>1, <1>2, <1>3, <1>4, WriterType DEF Next

\* Every variable keeps its type, and no error path leaves a file open, however
\* many writers there are and however they interleave.
THEOREM SidecarTypeCorrect == Spec => []TypeOK
<1>1. Init => TypeOK
  BY DEF Init, TypeOK, Content, Place, Dir
<1> QED
  BY <1>1, TypeStep, PTL DEF Spec

-----------------------------------------------------------------------------
(* Writers that take turns.                                                *)

\* The initial state.
LEMMA InitIInv == Init => IInv
  BY DEF Init, IInv, TypeOK, WriterInv, NamesInv, HistoryInv, Content, Place, Dir, Using

\* The name readers open is not the temporary file, and leads to a whole version.
LEMMA PathIsWhole ==
  ASSUME IInv
  PROVE  path # NoInode => path # tmp /\ Whole(path)
  BY DEF IInv, TypeOK, NamesInv, Dir

\* os.Create gives the writer an empty file that no reader's name leads to, in
\* whichever directory the disk holds.
LEMMA CreateEffect ==
  ASSUME IInv, NEW w \in Writers, Create(w), wpc'[w] = "write"
  PROVE  /\ tmp' \in Inodes /\ \A d \in disk : tmp' # d.path
         /\ path' = path /\ disk' = disk \cup {Dir(tmp', path)}
         /\ fd' = [fd EXCEPT ![w] = tmp']
         /\ data' = [data EXCEPT ![tmp'] = Empty]
         /\ durable' = [durable EXCEPT ![tmp'] = Empty]
         /\ wpc[w] = "create" /\ wpc' = [wpc EXCEPT ![w] = "write"]
         /\ failed' = failed /\ buf' = buf
         /\ found' = [found EXCEPT ![w] = Read(path)]
<1>1. wpc' = [wpc EXCEPT ![w] = "error"] => wpc'[w] = "error"
  BY DEF IInv, TypeOK
<1>2. /\ Succeeds(w, "create", "write")
      /\ \E i \in Inodes :
           /\ IF tmp = NoInode THEN i \notin InUse ELSE i = tmp
           /\ Enter(i, path)
           /\ fd' = [fd EXCEPT ![w] = i]
           /\ data' = [data EXCEPT ![i] = Empty]
           /\ durable' = [durable EXCEPT ![i] = Empty]
  BY <1>1 DEF Create, Moves, Fails
<1>3. PICK i \in Inodes :
           /\ IF tmp = NoInode THEN i \notin InUse ELSE i = tmp
           /\ Enter(i, path)
           /\ fd' = [fd EXCEPT ![w] = i]
           /\ data' = [data EXCEPT ![i] = Empty]
           /\ durable' = [durable EXCEPT ![i] = Empty]
  BY <1>2
<1>4. \A d \in disk : i # d.path
  <2>1. \A d \in disk : d.path \in InUse
    BY DEF InUse
  <2>2. i \notin InUse \/ i = tmp
    BY <1>3
  <2>3. \A d \in disk : d.path # NoInode => d.path # tmp
    BY DEF IInv, NamesInv
  <2> QED
    BY <2>1, <2>2, <2>3, InodeAssumption
<1> QED
  BY <1>2, <1>3, <1>4 DEF Create, Enter, Succeeds, Moves

\* A step of a writer preserves what is known of the writers.
LEMMA WritersStep ==
  ASSUME InTurns, IInv, NEW w \in Writers, WriterStep(w), InTurns'
  PROVE  WriterInv' /\ HistoryInv'
<1> USE DEF IInv, TypeOK, Content, Place, Moves, Succeeds, names, history
<1>a. \A v \in Writers : wpc[w] \in Using /\ wpc[v] \in Using => v = w
  BY DEF InTurns
<1>b. path # NoInode => path # tmp
  BY PathIsWhole
<1>1. ASSUME NEW v \in Versions, Begin(w, v) PROVE WriterInv' /\ HistoryInv'
  BY <1>1 DEF Begin, WriterInv, HistoryInv, Read, Using
<1>2. CASE Create(w) /\ wpc'[w] = "write"
  <2>1. /\ tmp' \in Inodes /\ \A d \in disk : tmp' # d.path
        /\ path' = path
        /\ fd' = [fd EXCEPT ![w] = tmp']
        /\ data' = [data EXCEPT ![tmp'] = Empty]
        /\ durable' = [durable EXCEPT ![tmp'] = Empty]
        /\ wpc[w] = "create" /\ wpc' = [wpc EXCEPT ![w] = "write"]
        /\ failed' = failed /\ buf' = buf
        /\ found' = [found EXCEPT ![w] = Read(path)]
    BY <1>2, CreateEffect
  <2>2. tmp' # path
    BY <2>1 DEF Dir
  <2>3. \A v \in Writers \ {w} : wpc'[v] \notin Using
    BY <1>2 DEF InTurns, Using
  <2>4. WriterInv'
    BY <2>1, <2>3, InodeAssumption DEF WriterInv, Using
  <2>5. Read(path)' = Read(path)
    BY <2>1, <2>2 DEF Read
  <2> QED
    BY <2>1, <2>3, <2>4, <2>5 DEF HistoryInv, Using
<1>3. CASE Create(w) /\ wpc'[w] # "write"
  BY <1>3 DEF Create, Fails, WriterInv, HistoryInv, Read, Using
<1>4. CASE Write(w)
  <2>1. WriterInv'
    BY <1>a, <1>4, ContentAssumption DEF Write, Fails, Over, WriterInv, Using
  <2>2. Read(path)' = Read(path)
    BY <1>b, <1>4 DEF Write, Fails, Read, WriterInv
  <2> QED
    <3>1. \A v \in Writers \ {w} : wpc'[v] \notin Using
      BY <1>a, <1>4 DEF Write, Fails, Using
    <3>2. CASE Succeeds(w, "write", "sync")
      BY <1>4, <2>1, <2>2, <3>1, <3>2 DEF Write, HistoryInv, Using
    <3>3. CASE Fails(w, "write", "remove")
      BY <1>4, <2>1, <2>2, <3>1, <3>3 DEF Write, Fails, HistoryInv, Using
    <3> QED
      BY <1>4, <3>2, <3>3 DEF Write
<1>5. CASE Sync(w)
  <2>1. WriterInv'
    BY <1>a, <1>5 DEF Sync, Fails, WriterInv, Using
  <2>2. Read(path)' = Read(path)
    BY <1>5 DEF Sync, Read
  <2> QED
    <3>1. \A v \in Writers \ {w} : wpc'[v] \notin Using
      BY <1>a, <1>5 DEF Sync, Fails, Using
    <3>2. CASE Succeeds(w, "sync", "close")
      BY <1>5, <2>1, <2>2, <3>1, <3>2 DEF Sync, HistoryInv, Using
    <3>3. CASE Fails(w, "sync", "remove")
      BY <1>5, <2>1, <2>2, <3>1, <3>3 DEF Sync, Fails, HistoryInv, Using
    <3> QED
      BY <1>5, <3>2, <3>3 DEF Sync
<1>6. CASE Close(w)
  <2>1. WriterInv'
    BY <1>a, <1>6 DEF Close, Fails, WriterInv, Using
  <2>2. Read(path)' = Read(path)
    BY <1>6 DEF Close, Read
  <2> QED
    <3>1. \A v \in Writers \ {w} : wpc'[v] \notin Using
      BY <1>a, <1>6 DEF Close, Fails, Using
    <3>2. CASE Succeeds(w, "close", "rename")
      BY <1>6, <2>1, <2>2, <3>1, <3>2 DEF Close, HistoryInv, Using
    <3>3. CASE Fails(w, "close", "remove")
      BY <1>6, <2>1, <2>2, <3>1, <3>3 DEF Close, Fails, HistoryInv, Using
    <3> QED
      BY <1>6, <3>2, <3>3 DEF Close
<1>7. CASE Rename(w)
  <2>1. \A v \in Writers : wpc'[v] \notin Using
    BY <1>a, <1>7 DEF Rename, Fails, Using
  <2>2. WriterInv'
    BY <1>7, <2>1 DEF Rename, Fails, WriterInv, Using
  <2> QED
    BY <1>7, <2>1, <2>2 DEF Rename, Fails, HistoryInv, Using
<1>8. CASE Remove(w)
  <2>1. \A v \in Writers : wpc'[v] \notin Using
    BY <1>a, <1>8 DEF Remove, Fails, Using
  <2>2. WriterInv'
    BY <1>8, <2>1 DEF Remove, Fails, WriterInv, Using
  <2> QED
    BY <1>8, <2>1, <2>2 DEF Remove, Fails, HistoryInv, Using
<1>9. CASE Return(w)
  BY <1>9 DEF Return, WriterInv, HistoryInv, Read, Using
<1> QED
  BY <1>1, <1>2, <1>3, <1>4, <1>5, <1>6, <1>7, <1>8, <1>9 DEF WriterStep

\* Nor does it send a reader to a file that is not whole.
LEMMA NamesStep ==
  ASSUME InTurns, IInv, NEW w \in Writers, WriterStep(w), InTurns'
  PROVE  NamesInv'
<1> USE DEF IInv, TypeOK, Content, Place, Moves, Succeeds, names, history
<1>1. ASSUME NEW v \in Versions, Begin(w, v) PROVE NamesInv'
  BY <1>1 DEF Begin, NamesInv, Whole
<1>2. CASE Create(w) /\ wpc'[w] = "write"
  <2>1. /\ tmp' \in Inodes /\ \A d \in disk : tmp' # d.path
        /\ path' = path /\ disk' = disk \cup {Dir(tmp', path)}
        /\ data' = [data EXCEPT ![tmp'] = Empty]
        /\ durable' = [durable EXCEPT ![tmp'] = Empty]
    BY <1>2, CreateEffect
  <2>2. Dir(tmp', path).path = path /\ Dir(tmp', path).tmp = tmp' /\ Dir(tmp, path) \in disk
        /\ Dir(tmp, path).path = path
    BY DEF Dir
  <2>3. \A d \in disk' : d.path \in Place /\ \E c \in disk : d.path = c.path
                          /\ (d = c \/ d.tmp = tmp')
    BY <2>1, <2>2
  <2> QED
    BY <2>1, <2>3 DEF NamesInv, Whole
<1>3. CASE Create(w) /\ wpc'[w] # "write"
  BY <1>3 DEF Create, Fails, NamesInv, Whole
<1>4. CASE Write(w)
  BY <1>4 DEF Write, Fails, WriterInv, NamesInv, Whole
<1>5. CASE Sync(w)
  BY <1>5 DEF Sync, Fails, WriterInv, NamesInv, Whole
<1>6. CASE Close(w)
  BY <1>6 DEF Close, Fails, NamesInv, Whole
<1>7. CASE Rename(w)
  <2>1. Whole(tmp) \/ wpc'[w] # "ok"
    BY <1>7 DEF Rename, Fails, WriterInv, Whole, Using
  <2> QED
    BY <1>7, <2>1 DEF Rename, Fails, Enter, Dir, NamesInv, Whole
<1>8. CASE Remove(w)
  BY <1>8 DEF Remove, Fails, Enter, Dir, NamesInv, Whole
<1>9. CASE Return(w)
  BY <1>9 DEF Return, NamesInv, Whole
<1> QED
  BY <1>1, <1>2, <1>3, <1>4, <1>5, <1>6, <1>7, <1>8, <1>9 DEF WriterStep

\* Neither the end of the process or of the power disturbs the invariant, nor
\* the directory reaching the disk.
LEMMA EnvironmentIInv ==
  ASSUME IInv, Crash \/ WriteBack \/ LosePower
  PROVE  IInv'
<1>0. TypeOK'
  BY TypeStep DEF IInv, Next
<1> USE DEF IInv, TypeOK, WriterInv, NamesInv, HistoryInv, Whole, Content, Place, Using, names,
            history
<1>1. CASE Crash
  BY <1>0, <1>1 DEF Crash, AbandonWriters
<1>2. CASE WriteBack
  BY <1>0, <1>2 DEF WriteBack, Dir, Read
<1>3. CASE LosePower
  BY <1>0, <1>3 DEF LosePower, AbandonWriters
<1> QED
  BY <1>1, <1>2, <1>3

\* The invariant is inductive.
LEMMA StepIInv == IInv /\ InTurns /\ [TurnNext]_vars => (IInv /\ InTurns)'
<1> SUFFICES ASSUME IInv, InTurns, [TurnNext]_vars PROVE (IInv /\ InTurns)'
  OBVIOUS
<1>1. CASE UNCHANGED vars
  BY <1>1 DEF vars, IInv, TypeOK, WriterInv, NamesInv, HistoryInv, Whole, Read, Content, Place,
              InTurns
<1>2. ASSUME NEW w \in Writers, WriterStep(w), InTurns' PROVE IInv'
  <2>1. TypeOK'
    BY <1>2, WriterType DEF IInv
  <2>2. WriterInv' /\ HistoryInv'
    BY <1>2, WritersStep
  <2>3. NamesInv'
    BY <1>2, NamesStep
  <2> QED
    BY <2>1, <2>2, <2>3 DEF IInv
<1> QED
  BY <1>1, <1>2, EnvironmentIInv DEF TurnNext, Next

LEMMA Invariance == TurnSpec => [](IInv /\ InTurns)
<1>1. Init => InTurns
  BY DEF Init, InTurns, Using
<1> QED
  BY <1>1, InitIInv, StepIInv, PTL DEF TurnSpec

\* Whoever opens the sidecar finds no file or a whole version, whatever fails
\* and whenever the process or the machine stops.
THEOREM ReadersFindWhole == TurnSpec => []ReadersSeeWhole
<1>1. IInv => ReadersSeeWhole
  BY PathIsWhole DEF Whole, ReadersSeeWhole
<1> QED
  BY <1>1, Invariance, PTL

-----------------------------------------------------------------------------

\* What is reported of a write, as ResultIsTrue says it of one writer.
Report(w) ==
  /\ wpc[w] # "ok" /\ wpc'[w] = "ok" =>
       failed'[w] = {} /\ Read(path)' = buf[w]
  /\ wpc[w] # "error" /\ wpc'[w] = "error" =>
       /\ failed'[w] # {}
       /\ Read(path)' = found'[w]
       /\ failed'[w] \cap {"create", "rename", "remove"} = {} => tmp' = NoInode

\* A step of a writer reports the truth about its own write, and nothing about
\* that of another.
LEMMA WriterReports ==
  ASSUME IInv, NEW w \in Writers, WriterStep(w)
  PROVE  \A v \in Writers : Report(v)
<1> USE DEF IInv, TypeOK, Moves, Succeeds, Fails, names, history
<1>1. \A v \in Writers \ {w} : wpc'[v] = wpc[v]
  BY DEF WriterStep, Begin, Create, Write, Sync, Close, Rename, Remove, Return
<1>2. Report(w)
  <2>1. CASE (\E v \in Versions : Begin(w, v)) \/ Write(w) \/ Sync(w) \/ Close(w) \/ Return(w)
    BY <2>1 DEF Begin, Write, Sync, Close, Return, Report
  <2>2. CASE Create(w)
    <3>1. CASE wpc' = [wpc EXCEPT ![w] = "write"]
      BY <3>1 DEF Report
    <3>2. CASE WriteFaults /\ Fails(w, "create", "error") /\ UNCHANGED <<names, fd, data, durable>>
      <4>1. Read(path)' = Read(path) /\ found'[w] = Read(path)
        BY <2>2, <3>2 DEF Create, Read
      <4> QED
        BY <3>2, <4>1 DEF Report
    <3> QED
      BY <2>2, <3>1, <3>2 DEF Create
  <2>3. CASE Rename(w)
    BY <2>3 DEF Rename, Enter, WriterInv, HistoryInv, Read, Report, Using
  <2>4. CASE Remove(w)
    BY <2>4 DEF Remove, Enter, HistoryInv, Read, Report, Using
  <2> QED
    BY <2>1, <2>2, <2>3, <2>4 DEF WriterStep
<1>3. \A v \in Writers \ {w} : Report(v)
  BY <1>1 DEF Report
<1> QED
  BY <1>2, <1>3

\* A write that reports success has had no failing call and has stored what it
\* was given; one that reports an error has shown a reader nothing since it
\* called os.Create, and has removed its temporary file if it could.
THEOREM ReportsAreTrue == TurnSpec => ResultIsTrue
<1> DEFINE Reports == \A w \in Writers : Report(w)
<1>1. ASSUME IInv, Crash \/ WriteBack \/ LosePower PROVE [Reports]_vars
  BY <1>1 DEF Crash, WriteBack, LosePower, AbandonWriters, Report
<1>2. IInv /\ [TurnNext]_vars => [Reports]_vars
  BY <1>1, WriterReports DEF TurnNext, Next
<1>3. ResultIsTrue <=> [][Reports]_vars
  BY DEF ResultIsTrue, Report
<1> HIDE DEF Reports
<1> QED
  BY <1>2, <1>3, Invariance, PTL DEF TurnSpec

-----------------------------------------------------------------------------

\* What readers may find after a loss of power.
Stored == {Read(d.path) : d \in disk}

\* The names change with a successful rename alone as far as a reader can see,
\* who then finds what the writer was given.
LEMMA ReadEffect ==
  ASSUME IInv, NEW w \in Writers, WriterStep(w)
  PROVE  \/ /\ Read(path)' \in Versions
            /\ Stored' = Stored \cup {Read(path)'}
         \/ /\ Read(path)' = Read(path)
            /\ Stored' = Stored
<1> USE DEF IInv, TypeOK, Content, Place, Moves, Succeeds, Fails, names, history
<1>0. Dir(tmp, path) \in disk /\ \A t, p : Dir(t, p).path = p
  BY DEF Dir
<1>1. CASE \/ \E v \in Versions : Begin(w, v)
           \/ Create(w) /\ wpc'[w] # "write"
           \/ Sync(w) \/ Close(w) \/ Return(w)
  BY <1>1 DEF Begin, Create, Sync, Close, Return, Read, Stored
<1>2. CASE Create(w) /\ wpc'[w] = "write"
  <2>1. /\ \A d \in disk : tmp' # d.path
        /\ path' = path /\ disk' = disk \cup {Dir(tmp', path)}
        /\ data' = [data EXCEPT ![tmp'] = Empty]
    BY <1>2, CreateEffect
  <2>2. \A d \in disk : Read(d.path)' = Read(d.path)
    BY <2>1 DEF Read
  <2>3. Read(path)' = Read(path)
    BY <1>0, <2>1, <2>2
  <2> QED
    BY <1>0, <2>1, <2>2, <2>3 DEF Stored
<1>3. CASE Write(w)
  <2>1. /\ disk' = disk /\ path' = path
        /\ \A d \in disk : Read(d.path)' = Read(d.path)
    BY <1>3 DEF Write, WriterInv, NamesInv, Read
  <2> QED
    BY <1>0, <2>1 DEF Stored
<1>4. CASE Rename(w)
  <2>1. CASE UNCHANGED names
    BY <1>4, <2>1 DEF Rename, Read, Stored
  <2>2. CASE Enter(NoInode, tmp) /\ tmp # NoInode /\ wpc[w] = "rename"
    <3>1. Read(path)' = data[tmp] /\ data[tmp] \in Versions /\ path' = tmp
      BY <1>4, <2>2 DEF Rename, Enter, WriterInv, Read, Using
    <3>2. \A i \in Place : Read(i)' = Read(i)
      BY <1>4 DEF Rename, Read
    <3>3. disk' = disk \cup {Dir(NoInode, tmp)}
      BY <2>2 DEF Enter
    <3>4. Stored' = Stored \cup {Read(path)'}
      BY <1>0, <3>1, <3>2, <3>3 DEF Stored
    <3> QED
      BY <3>1, <3>4
  <2> QED
    BY <1>4, <2>1, <2>2 DEF Rename
<1>5. CASE Remove(w)
  <2>1. \A i \in Place : Read(i)' = Read(i)
    BY <1>5 DEF Remove, Read
  <2>2. path' = path /\ (disk' = disk \/ disk' = disk \cup {Dir(NoInode, path)})
    BY <1>5 DEF Remove, Enter
  <2> QED
    BY <1>0, <2>1, <2>2 DEF Stored
<1> QED
  BY <1>1, <1>2, <1>3, <1>4, <1>5 DEF WriterStep

\* Every step is one of the file with atomic writes, or stutters on it.
LEMMA FileStep ==
  ASSUME IInv, [TurnNext]_vars
  PROVE  [File!Next]_(File!vars)
<1> USE DEF File!Next, File!vars, File!Put, File!Settle, File!Revert
<1>1. CASE \E w \in Writers : WriterStep(w)
  BY <1>1, ReadEffect DEF Stored
<1>2. CASE Crash
  BY <1>2 DEF Crash, AbandonWriters, Read, names
<1>3. CASE WriteBack
  <2>1. {Read(d.path) : d \in disk}' = {Read(path)}
    BY <1>3 DEF WriteBack, Dir, Read
  <2>2. Read(path)' = Read(path)
    BY <1>3 DEF WriteBack, Read
  <2> QED
    BY <2>1, <2>2
<1>4. CASE LosePower
  <2>1. PICK d \in disk : tmp' = d.tmp /\ path' = d.path /\ disk' = {d}
    BY <1>4 DEF LosePower
  <2>2. Read(path)' = Read(d.path)
    BY <1>4, <2>1 DEF LosePower, Read, IInv, NamesInv, Whole
  <2>3. {Read(c.path) : c \in disk}' = {Read(path)'}
    BY <2>1
  <2> QED
    BY <2>2, <2>3
<1>5. CASE UNCHANGED vars
  BY <1>5 DEF vars, Read
<1> QED
  BY <1>1, <1>2, <1>3, <1>4, <1>5 DEF TurnNext, Next

\* A file whose writers take turns refines a file whose writes are atomic.
THEOREM SidecarIsAtomic == TurnSpec => ImplementsAtomicFile
<1>1. Init => File!Init
  BY DEF Init, File!Init, Read, Dir
<1> QED
  BY <1>1, FileStep, Invariance, PTL DEF TurnSpec, File!Spec, ImplementsAtomicFile

\* Where only one goroutine writes the file, nothing more has to be assumed: the
\* file is atomic, its writes report the truth, and readers find it whole.
THEOREM OneWriterIsAtomic ==
  ASSUME \A v, w \in Writers : v = w
  PROVE  Spec => ImplementsAtomicFile /\ ResultIsTrue /\ []ReadersSeeWhole
<1>1. Init => InTurns
  BY DEF InTurns
<1>2. [Next]_vars => [TurnNext]_vars
  BY DEF TurnNext, InTurns
<1>3. Spec => TurnSpec
  BY <1>1, <1>2, PTL DEF Spec, TurnSpec
<1> QED
  BY <1>3, SidecarIsAtomic, ReportsAreTrue, ReadersFindWhole
=============================================================================

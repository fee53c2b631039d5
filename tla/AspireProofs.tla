---------------------------- MODULE AspireProofs ----------------------------
(***************************************************************************)
(* The safety properties of Aspire, for any slots and any number of lines. *)
(***************************************************************************)
EXTENDS Aspire, FiniteSetTheorems, TLAPS

(* The handlers that have found all slots allocated and CliStarted unset.   *)
Starting(e) == handler[e] \in {"gate", "rows", "spawn", "done", "failed"}

(* The gate lets one handler through, which accounts for the one client;    *)
(* what that was started with.                                              *)
Gate ==
  /\ \A e, f \in Events : Starting(e) /\ Starting(f) => e = f
  /\ \A e \in Events : Starting(e) => allocated = Slots /\ (cliStarted \/ handler[e] = "gate")
  /\ spawned = 0 \/ \E e \in Events : handler[e] = "done"
  /\ cli = "none" <=> spawned = 0
  /\ cli = "none" => printed = 0 /\ cliSlots = {}
  /\ cli # "none" => cliSlots = withPort

(* How far each line has been handled is how much of it is in PublicUrls.  *)
Reading ==
  /\ \A l \in Lines :
       /\ l > printed => reader[l] = "none"
       /\ reader[l] \in {"url", "show"} => cliSlots \ left[l] \subseteq publicUrls
       /\ reader[l] = "show" => at[l] \in cliSlots /\ at[l] \in publicUrls
       /\ reader[l] \in {"tunnel", "ready", "done"} => cliSlots \subseteq publicUrls
  /\ ready => cli # "none" /\ cliSlots \subseteq publicUrls

(* While no line is left to be handled, nothing undoes the callback.       *)
Ended ==
  /\ cli # "exited" => toExit = Rows
  /\ cli = "exited" /\ ~ late =>
       /\ \A l \in 1..printed : reader[l] \in {"done", "failed"}
       /\ \A r \in Rows \ toExit : state[r] = "Exited"

IInv == /\ TypeOK /\ Gate /\ Reading /\ Ended
        /\ RunningHasUrl /\ ResolvesToUrl

-----------------------------------------------------------------------------

LEMMA AllAllocated ==
  ASSUME NEW A \in SUBSET Slots, ~ (Cardinality(A) < Cardinality(Slots))
  PROVE  A = Slots
<1>1. IsFiniteSet(A) /\ Cardinality(A) \in Nat /\ Cardinality(Slots) \in Nat
  BY SlotsAssumption, FS_Subset, FS_CardinalityType
<1>2. Cardinality(A) = Cardinality(Slots)
  BY <1>1, SlotsAssumption, FS_Subset
<1> QED
  BY <1>2, SlotsAssumption, FS_Subset

LEMMA InitIInv == Init => IInv
<1> SUFFICES ASSUME Init PROVE IInv
  OBVIOUS
<1> USE RowsAssumption, MaxLinesAssumption DEF Init, Rows, Lines, Starting
<1>1. TypeOK
  <2>1. /\ withPort \subseteq Slots /\ printed \in 0..MaxLines
        /\ state \in [Rows -> {"none", "Starting", "Running", "Exited"}]
        /\ links \in [Slots -> Nat]
        /\ endpoint \in [Asked -> {"none", "waiting", "url", "null"}]
    OBVIOUS
  <2>2. /\ reader \in [Lines -> {"none", "url", "show", "tunnel", "ready", "done", "failed"}]
        /\ left \in [Lines -> SUBSET cliSlots]
        /\ at \in [Lines -> cliSlots \cup {Tunnel}]
    OBVIOUS
  <2> QED
    BY <2>1, <2>2 DEF TypeOK
<1>2. Gate /\ Ended
  BY DEF Gate, Ended
<1>3. Reading
  BY DEF Reading
<1>4. RunningHasUrl /\ ResolvesToUrl
  BY DEF RunningHasUrl, ResolvesToUrl
<1> QED
  BY <1>1, <1>2, <1>3, <1>4 DEF IInv

LEMMA TypeStep ==
  ASSUME TypeOK, Gate, Reading, [Next]_vars
  PROVE  TypeOK'
<1> USE RowsAssumption, MaxLinesAssumption
    DEF TypeOK, Rows, Lines, startVars, cliVars, readerVars, shownVars
<1>1. CASE UNCHANGED vars
  BY <1>1 DEF vars
<1>2. CASE CliExits
  BY <1>2 DEF CliExits, Unhandled
<1>3. ASSUME NEW e \in Events, EndpointsAllocated(e) PROVE TypeOK'
  BY <1>3, EventsAssumption DEF EndpointsAllocated, At
<1>a. ASSUME NEW e \in Events, ReleaseGate(e) PROVE TypeOK'
  BY <1>a DEF ReleaseGate, At
<1>4. ASSUME NEW e \in Events, PublishStarting(e) PROVE TypeOK'
  BY <1>4 DEF PublishStarting, Publish, NextRows, At
<1>5. ASSUME NEW e \in Events, Spawn(e) PROVE TypeOK'
  <2>1. cli = "none" /\ cliSlots = {}
    <3>1. \A f \in Events : handler[f] # "done"
      BY <1>5 DEF Spawn, Gate, Starting
    <3> QED
      BY <3>1 DEF Gate
  <2>2. cliSlots' \subseteq withPort /\ \A S : cliSlots \cup S \subseteq cliSlots' \cup S
    BY <2>1, <1>5 DEF Spawn
  <2> QED
    BY <2>1, <2>2, <1>5 DEF Spawn, At
<1>6. ASSUME NEW e \in Events, StartFails(e) PROVE TypeOK'
  BY <1>6 DEF StartFails, At
<1>7. CASE PrintReady
  BY <1>7 DEF PrintReady
<1>8. CASE Exited
  BY <1>8 DEF Exited, Publish, NextRows
<1>9. ASSUME NEW l \in Lines, Dispatch(l) PROVE TypeOK'
  BY <1>9 DEF Dispatch, To
<1>10. ASSUME NEW l \in Lines, StoreUrl(l) PROVE TypeOK'
  BY <1>10 DEF StoreUrl, To
<1>11. ASSUME NEW l \in Lines, ShowSlot(l) PROVE TypeOK'
  <2>1. at[l] \in Slots
    BY <1>11 DEF ShowSlot, Reading
  <2> QED
    BY <2>1, <1>11 DEF ShowSlot, Publish, To
<1>12. ASSUME NEW l \in Lines, ShowTunnel(l) PROVE TypeOK'
  <2>1. /\ reader' = [reader EXCEPT ![l] = "ready"]
        /\ UNCHANGED <<apphost, withPort, startVars, cliVars, left, at, toExit,
                       publicUrls, ready, endpoint>>
    BY <1>12 DEF ShowTunnel, To
  <2>2. /\ state' \in [Rows -> {"none", "Starting", "Running", "Exited"}]
        /\ links' \in [Slots -> Nat]
    BY <1>12 DEF ShowTunnel, Publish
  <2> QED
    BY <2>1, <2>2
<1>13. ASSUME NEW l \in Lines, SetReady(l) PROVE TypeOK'
  <2>1. /\ reader' = [reader EXCEPT ![l] = "done"] /\ ready' = TRUE
        /\ UNCHANGED <<apphost, withPort, startVars, cliVars, left, at, toExit,
                       publicUrls, state, links, endpoint>>
    BY <1>13 DEF SetReady, To
  <2> QED
    BY <2>1
<1>b. ASSUME NEW l \in Lines, HandleFails(l) PROVE TypeOK'
  BY <1>b DEF HandleFails, To
<1>14. ASSUME NEW s \in Asked, GetEndpoint(s) PROVE TypeOK'
  BY <1>14 DEF GetEndpoint
<1>15. CASE Shutdown
  BY <1>15 DEF Shutdown
<1> QED
  BY <1>1, <1>2, <1>3, <1>4, <1>5, <1>6, <1>7, <1>8, <1>9, <1>10, <1>11, <1>12,
     <1>13, <1>14, <1>15, <1>a, <1>b DEF Next, Start, HandleStdout

\* A handler only gets through the gate when none has before it.
LEMMA GateStep ==
  ASSUME TypeOK, Gate, [Next]_vars
  PROVE  Gate'
<1> USE DEF Gate, Starting, startVars, cliVars
<1>h. handler \in [Events -> {"none", "gate", "returned", "rows", "spawn", "done", "failed"}]
  BY DEF TypeOK
<1>1. ASSUME NEW e \in Events, EndpointsAllocated(e) PROVE Gate'
  <2>1. allocated' \in SUBSET Slots /\ cliStarted' = cliStarted
    BY <1>1, EventsAssumption DEF EndpointsAllocated, TypeOK
  <2>2. ~ (Cardinality(allocated') < Cardinality(Slots)) => allocated' = Slots
    BY <2>1, AllAllocated
  <2>3. \A f \in Events \ {e} : handler'[f] = handler[f]
    BY <1>1, <1>h DEF EndpointsAllocated, At
  <2>4. allocated = Slots => allocated' = Slots
    BY <2>1, <1>1 DEF EndpointsAllocated, TypeOK
  <2>5. \/ handler'[e] = "returned"
        \/ /\ handler'[e] = "gate" /\ allocated' = Slots
           /\ \A f \in Events : ~ Starting(f)
    <3>1. CASE cliStarted \/ Cardinality(allocated') < Cardinality(Slots)
      BY <3>1, <1>1, <1>h DEF EndpointsAllocated, At
    <3>2. CASE ~ (cliStarted \/ Cardinality(allocated') < Cardinality(Slots))
      BY <3>2, <2>2, <1>1, <1>h DEF EndpointsAllocated, At
    <3> QED
      BY <3>1, <3>2
  <2>6. handler[e] # "done" /\ UNCHANGED <<withPort, cli, cliSlots, printed, spawned>>
    BY <1>1 DEF EndpointsAllocated
  <2> QED
    BY <2>1, <2>3, <2>4, <2>5, <2>6
<1>2. ASSUME NEW e \in Events, ReleaseGate(e) \/ PublishStarting(e) \/ StartFails(e) PROVE Gate'
  <2>1. \A f \in Events \ {e} : handler'[f] = handler[f]
    BY <1>2, <1>h DEF ReleaseGate, PublishStarting, StartFails, At
  <2>2. /\ handler[e] \in {"gate", "rows", "spawn"}
        /\ handler'[e] \in {"rows", "spawn", "failed"}
        /\ cliStarted' = (cliStarted \/ handler[e] = "gate")
        /\ UNCHANGED <<withPort, allocated, cliVars>>
    BY <1>2, <1>h DEF ReleaseGate, PublishStarting, StartFails, At, TypeOK
  <2> QED
    BY <2>1, <2>2
<1>3. ASSUME NEW e \in Events, Spawn(e) PROVE Gate'
  <2>1. handler' = [handler EXCEPT ![e] = "done"] /\ handler[e] = "spawn"
    BY <1>3 DEF Spawn, At
  <2>2. /\ UNCHANGED <<withPort, allocated, cliStarted, printed>>
        /\ cli' = "running" /\ spawned' = spawned + 1 /\ cliSlots' = withPort \cap allocated
    BY <1>3 DEF Spawn
  <2>3. allocated = Slots /\ withPort \subseteq Slots
    BY <2>1 DEF TypeOK
  <2>4. spawned' # 0
    BY <2>2 DEF TypeOK
  <2> QED
    BY <1>h, <2>1, <2>2, <2>3, <2>4
<1>4. CASE CliExits \/ PrintReady
  BY <1>4 DEF CliExits, PrintReady
<1>5. CASE UNCHANGED <<withPort, startVars, cliVars>>
  BY <1>5
<1> QED
  BY <1>1, <1>2, <1>3, <1>4, <1>5
  DEF Next, vars, Start, Exited, Shutdown, GetEndpoint, HandleStdout, Dispatch, StoreUrl,
      ShowSlot, ShowTunnel, SetReady, HandleFails

\* When the client is started there has been none.
LEMMA SpawnIsFirst ==
  ASSUME TypeOK, Gate, NEW e \in Events, Spawn(e)
  PROVE  /\ cli = "none" /\ spawned = 0 /\ spawned' = 1
         /\ cliSlots' = withPort
<1>1. \A f \in Events : handler[f] # "done"
  BY DEF Spawn, Gate, Starting
<1>2. allocated = Slots /\ withPort \subseteq Slots
  BY DEF Spawn, Gate, Starting, TypeOK
<1> QED
  BY <1>1, <1>2 DEF Gate, Spawn

LEMMA ReadingStep ==
  ASSUME TypeOK, Gate, Reading, [Next]_vars
  PROVE  Reading'
<1> USE MaxLinesAssumption DEF TypeOK, Reading, Lines, cliVars, readerVars, shownVars
<1>i. printed \in 0 .. MaxLines
  OBVIOUS
<1>1. CASE CliExits
  BY <1>1 DEF CliExits
<1>2. ASSUME NEW e \in Events, Spawn(e) PROVE Reading'
  <2>1. cli = "none" /\ printed = 0 /\ cliSlots = {}
    BY <1>2, SpawnIsFirst DEF Gate
  <2> QED
    BY <1>2, <2>1 DEF Spawn
<1>3. CASE PrintReady
  BY <1>3 DEF PrintReady
<1>10. ASSUME NEW l \in Lines, HandleFails(l) PROVE Reading'
  BY <1>10 DEF HandleFails, To
<1>4. ASSUME NEW l \in Lines, Dispatch(l) PROVE Reading'
  <2>1. l <= printed /\ UNCHANGED <<cliVars, at, shownVars>>
    BY <1>4 DEF Dispatch
  <2>2. reader'[l] = "url" /\ left'[l] = cliSlots
    BY <1>4 DEF Dispatch, To
  <2>3. \A k \in Lines : k # l => reader'[k] = reader[k] /\ left'[k] = left[k]
    BY <1>4 DEF Dispatch, To
  <2>4. ASSUME NEW k \in Lines
        PROVE  /\ k > printed' => reader'[k] = "none"
               /\ reader'[k] \in {"url", "show"} => cliSlots' \ left'[k] \subseteq publicUrls'
               /\ reader'[k] = "show" => at'[k] \in cliSlots' /\ at'[k] \in publicUrls'
               /\ reader'[k] \in {"tunnel", "ready", "done"} => cliSlots' \subseteq publicUrls'
    <3>1. CASE k = l
      BY <2>1, <2>2, <3>1
    <3>2. CASE k # l
      BY <2>1, <2>3, <3>2
    <3> QED
      BY <3>1, <3>2
  <2> QED
    BY <2>1, <2>4
<1>5. ASSUME NEW l \in Lines, StoreUrl(l) PROVE Reading'
  BY <1>5 DEF StoreUrl, To
<1>6. ASSUME NEW l \in Lines, ShowSlot(l) PROVE Reading'
  <2>1. /\ reader[l] = "show" /\ reader'[l] \in {"url", "tunnel"}
        /\ left'[l] = left[l] \ {at[l]}
        /\ reader'[l] = "tunnel" => left'[l] = {}
        /\ UNCHANGED <<cliVars, at, publicUrls, ready>>
    BY <1>6 DEF ShowSlot, To
  <2>2. \A k \in Lines : k # l => reader'[k] = reader[k] /\ left'[k] = left[k]
    BY <1>6 DEF ShowSlot, To
  <2> HIDE DEF TypeOK
  <2>3. l <= printed /\ cliSlots \ left'[l] \subseteq publicUrls
    <3>1. /\ l <= printed /\ at[l] \in publicUrls
          /\ cliSlots \ left[l] \subseteq publicUrls
      BY <1>i, <2>1
    <3> QED
      BY <2>1, <3>1
  <2>4. ASSUME NEW k \in Lines
        PROVE  /\ k > printed => reader'[k] = "none"
               /\ reader'[k] \in {"url", "show"} => cliSlots \ left'[k] \subseteq publicUrls
               /\ reader'[k] = "show" => at[k] \in cliSlots /\ at[k] \in publicUrls
               /\ reader'[k] \in {"tunnel", "ready", "done"} => cliSlots \subseteq publicUrls
    <3>1. CASE k = l
      BY <1>i, <2>1, <2>3, <3>1
    <3>2. CASE k # l
      BY <2>2, <3>2
    <3> QED
      BY <3>1, <3>2
  <2> QED
    BY <2>1, <2>4
<1>7. ASSUME NEW l \in Lines, ShowTunnel(l) PROVE Reading'
  <2>1. /\ reader[l] = "tunnel" /\ reader'[l] = "ready"
        /\ UNCHANGED <<cliVars, left, at, publicUrls, ready>>
    BY <1>7 DEF ShowTunnel, To
  <2>2. \A k \in Lines : k # l => reader'[k] = reader[k]
    BY <1>7 DEF ShowTunnel, To
  <2> QED
    BY <2>1, <2>2
<1>8. ASSUME NEW l \in Lines, SetReady(l) PROVE Reading'
  BY <1>8, GateStep DEF SetReady, To, Gate
<1>9. CASE UNCHANGED <<cli, cliSlots, printed, readerVars, publicUrls, ready>>
  BY <1>9
<1> QED
  BY <1>1, <1>2, <1>3, <1>4, <1>5, <1>6, <1>7, <1>8, <1>9, <1>10
  DEF Next, vars, Start, ReleaseGate, PublishStarting, StartFails, EndpointsAllocated, Exited,
      Shutdown, GetEndpoint, HandleStdout

LEMMA EndedStep ==
  ASSUME TypeOK, Gate, Reading, Ended, [Next]_vars
  PROVE  Ended'
<1> USE RowsAssumption, MaxLinesAssumption
    DEF TypeOK, Ended, Rows, Lines, cliVars, readerVars, shownVars
<1>1. CASE CliExits
  BY <1>1 DEF CliExits, Unhandled
<1>2. ASSUME NEW e \in Events, Start(e) PROVE Ended'
  <2>1. CASE Spawn(e)
    BY <2>1, SpawnIsFirst DEF Spawn
  <2>2. CASE PublishStarting(e)
    <3>1. cli = "none"
      <4>1. \A f \in Events : handler[f] # "done"
        BY <2>2 DEF PublishStarting, Gate, Starting
      <4> QED
        BY <4>1 DEF Gate
    <3> QED
      BY <2>2, <3>1 DEF PublishStarting
  <2>3. CASE ReleaseGate(e) \/ StartFails(e)
    BY <2>3 DEF ReleaseGate, StartFails
  <2> QED
    BY <1>2, <2>1, <2>2, <2>3 DEF Start
<1>3. CASE PrintReady
  BY <1>3 DEF PrintReady
<1>4. CASE Exited
  BY <1>4 DEF Exited, Publish, NextRows
<1>5. ASSUME NEW l \in Lines, HandleStdout(l) PROVE Ended'
  <2>1. reader[l] \notin {"done", "failed"} /\ (reader[l] = "none" => l <= printed)
    BY <1>5 DEF HandleStdout, Dispatch, StoreUrl, ShowSlot, ShowTunnel, SetReady, HandleFails
  <2>2. l \in 1..printed
    BY <2>1 DEF Reading
  <2>3. cli = "exited" => late
    BY <2>1, <2>2
  <2>4. UNCHANGED <<cliVars, toExit>>
    BY <1>5 DEF HandleStdout, Dispatch, StoreUrl, ShowSlot, ShowTunnel, SetReady, HandleFails
  <2> QED
    BY <2>3, <2>4
<1>6. CASE UNCHANGED <<cliVars, readerVars, toExit, state>>
  BY <1>6
<1> QED
  BY <1>1, <1>2, <1>3, <1>4, <1>5, <1>6
  DEF Next, vars, EndpointsAllocated, Shutdown, GetEndpoint

LEMMA RunningStep ==
  ASSUME TypeOK, Gate, Reading, RunningHasUrl, [Next]_vars
  PROVE  RunningHasUrl'
<1> USE RowsAssumption DEF TypeOK, RunningHasUrl, Rows, cliVars, shownVars
<1>1. ASSUME NEW e \in Events, PublishStarting(e) PROVE RunningHasUrl'
  BY <1>1 DEF PublishStarting, Publish, NextRows
<1>2. CASE Exited
  BY <1>2 DEF Exited, Publish, NextRows
<1>3. ASSUME NEW l \in Lines, StoreUrl(l) PROVE RunningHasUrl'
  BY <1>3 DEF StoreUrl
<1>4. ASSUME NEW l \in Lines, ShowSlot(l) PROVE RunningHasUrl'
  <2>1. at[l] \in Slots /\ at[l] \in publicUrls
    BY <1>4 DEF ShowSlot, Reading
  <2> QED
    BY <2>1, <1>4 DEF ShowSlot, Publish
<1>5. ASSUME NEW l \in Lines, ShowTunnel(l) PROVE RunningHasUrl'
  <2>1. cli # "none" /\ cliSlots \subseteq publicUrls
    BY <1>5, MaxLinesAssumption DEF ShowTunnel, Reading, Gate, Lines
  <2> QED
    BY <2>1, <1>5 DEF ShowTunnel, Publish, Gate
<1>6. CASE UNCHANGED <<withPort, publicUrls, state, links>>
  BY <1>6
<1> QED
  BY <1>1, <1>2, <1>3, <1>4, <1>5, <1>6
  DEF Next, vars, Start, ReleaseGate, Spawn, StartFails, PrintReady, CliExits,
      EndpointsAllocated, Shutdown, GetEndpoint, HandleStdout, Dispatch, SetReady,
      HandleFails

LEMMA ResolvesStep ==
  ASSUME TypeOK, Gate, Reading, ResolvesToUrl, [Next]_vars
  PROVE  ResolvesToUrl'
<1> USE DEF TypeOK, ResolvesToUrl
<1>1. ASSUME NEW s \in Asked, GetEndpoint(s) PROVE ResolvesToUrl'
  <2>1. ready => withPort \subseteq publicUrls
    BY DEF Reading, Gate
  <2> QED
    BY <2>1, <1>1 DEF GetEndpoint
<1>2. CASE UNCHANGED <<withPort, endpoint>>
  BY <1>2
<1> QED
  BY <1>1, <1>2
  DEF Next, vars, Start, ReleaseGate, PublishStarting, Spawn, StartFails, PrintReady,
      CliExits, EndpointsAllocated, Shutdown, Exited, HandleStdout, Dispatch, StoreUrl,
      ShowSlot, ShowTunnel, SetReady, HandleFails

LEMMA InductiveStep == IInv /\ [Next]_vars => IInv'
  BY TypeStep, GateStep, ReadingStep, EndedStep, RunningStep, ResolvesStep DEF IInv

LEMMA Inductive == Spec => []IInv
  BY InitIInv, InductiveStep, PTL DEF Spec

-----------------------------------------------------------------------------

\* Every variable of the extension keeps its type, for any slots.
THEOREM AspireTypeCorrect == Spec => []TypeOK
  BY Inductive, PTL DEF IInv

\* GetEndpoint never resolves to null for a slot of the client: Ready is only
\* completed when all of a line's URLs are stored, whatever other lines do.
THEOREM EndpointsAreUrls == Spec => []ResolvesToUrl
  BY Inductive, PTL DEF IInv

\* No row is at Running without the URLs it stands for.
THEOREM RunningRowsHaveUrls == Spec => []RunningHasUrl
  BY Inductive, PTL DEF IInv

\* Once the Exited callback is through, every row is at Exited, unless a line
\* was still unhandled when the client ended.
THEOREM ExitIsShown == Spec => []EndIsShown
<1>1. IInv => EndIsShown
  BY RowsAssumption DEF IInv, Ended, EndIsShown, Rows
<1> QED
  BY Inductive, <1>1, PTL

\* Of all the handlers that run, side by side and for as many events as the
\* resources raise, one starts a client, with every slot that has a port.
THEOREM ClientStartsOnce == Spec => StartedOnceWithAll
<1> DEFINE Once == spawned' # spawned => spawned = 0 /\ spawned' = 1 /\ cliSlots' = withPort
<1>1. IInv /\ [Next]_vars => [Once]_vars
  <2> SUFFICES ASSUME IInv, Next PROVE Once
    BY DEF IInv
  <2>1. CASE \E e \in Events : Spawn(e)
    BY <2>1, SpawnIsFirst DEF IInv
  <2>2. CASE UNCHANGED spawned
    BY <2>2
  <2> QED
    BY <2>1, <2>2
    DEF Next, Start, ReleaseGate, PublishStarting, StartFails, PrintReady, CliExits, Exited,
        EndpointsAllocated, Shutdown, GetEndpoint, HandleStdout, Dispatch, StoreUrl,
        ShowSlot, ShowTunnel, SetReady, HandleFails, cliVars
<1> QED
  BY Inductive, <1>1, PTL DEF Spec, StartedOnceWithAll
=============================================================================

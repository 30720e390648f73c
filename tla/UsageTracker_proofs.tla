------------------------- MODULE UsageTracker_proofs -------------------------
(***************************************************************************)
(* Proofs about UsageTracker, for any number of owners, runs, units and    *)
(* calls.                                                                  *)
(***************************************************************************)
EXTENDS UsageTracker, UsageFlush_proofs

-----------------------------------------------------------------------------
(* The tracker and the flush pipeline *)

\* What Stop's cancellation needs: t.cancel cancels a run, which flushes.
CancelInv ==
  /\ cancel \in Runs \cup {NoRun}
  /\ mine \in [Owners -> Runs \cup {NoRun}]

LEMMA CancelStep == CancelInv /\ [TrackerNext]_trackerVars => CancelInv'
<1> SUFFICES ASSUME CancelInv, [TrackerNext]_trackerVars PROVE CancelInv'
  OBVIOUS
<1> USE UsageTrackerAssumption DEF CancelInv, lifeVars, ownerVars
<1>1. ASSUME NEW o \in Owners, StartStep(o) \/ StopCAS(o) \/ StopStep(o)
      PROVE  CancelInv'
  BY <1>1 DEF StartStep, StopStep, StartCAS, SetCancel, SetDone, Spawn, StopCAS,
              StopCancel, StopReadDone, StopJoin, StopFlush, StopReturn
<1>2. ASSUME NEW r \in Runs,
             LoopEnter(r) \/ LoopTick(r) \/ LoopExit(r) \/ ParentCancel(r)
      PROVE  CancelInv'
  BY <1>2 DEF LoopEnter, LoopTick, LoopExit, ParentCancel
<1>3. CASE UNCHANGED lifeVars
  BY <1>3
<1> QED BY <1>1, <1>2, <1>3 DEF TrackerNext, trackerVars, StartAgain, StopAgain, InFlush

\* Whatever Start, Stop and the goroutines do, the pipeline sees nothing but
\* its own operations.
LEMMA TrackerStep == CancelInv /\ [TrackerNext]_trackerVars => [Next]_vars
<1> SUFFICES ASSUME CancelInv, [TrackerNext]_trackerVars PROVE [Next]_vars
  OBVIOUS
<1> USE UsageTrackerAssumption
<1>1. ASSUME NEW p \in Flushers, BeginFlush(p) \/ ContinueFlush(p) \/ CancelContext(p)
      PROVE  Next
  BY <1>1 DEF Next
<1>2. ASSUME NEW o \in Owners, StartStep(o) PROVE UNCHANGED vars
  BY <1>2 DEF StartStep, StartCAS, SetCancel, SetDone, Spawn
<1>3. ASSUME NEW o \in Owners, StopStep(o) PROVE [Next]_vars
  <2>1. CASE StopCancel(o)
    <3>1. CASE cancel \in Runs /\ cancel \notin ctxDone
      <4>1. CancelContext(cancel)
        BY <2>1, <3>1 DEF StopCancel, CancelContext
      <4> QED BY <1>1, <3>1, <4>1
    <3>2. CASE cancel = NoRun \/ cancel \in ctxDone
      BY <2>1, <3>2 DEF StopCancel, vars
    <3> QED BY <3>1, <3>2 DEF CancelInv
  <2>2. CASE StopFlush(o)
    BY <1>1, <2>2 DEF StopFlush
  <2>3. CASE StopReadDone(o) \/ StopJoin(o) \/ StopReturn(o)
    BY <2>3 DEF StopReadDone, StopJoin, StopReturn
  <2> QED BY <1>3, <2>1, <2>2, <2>3 DEF StopStep
<1>4. ASSUME NEW o \in Owners, StopCAS(o) \/ StartAgain(o) \/ StopAgain(o)
      PROVE  UNCHANGED vars
  BY <1>4 DEF StopCAS, StartAgain, StopAgain, trackerVars
<1>5. ASSUME NEW r \in Runs,
             LoopEnter(r) \/ LoopTick(r) \/ LoopExit(r) \/ ParentCancel(r)
      PROVE  [Next]_vars
  BY <1>1, <1>5 DEF LoopEnter, LoopTick, LoopExit, ParentCancel
<1>6. ASSUME NEW D \in SUBSET Units, TrackDelta(D) PROVE Next
  BY <1>6 DEF Next
<1>7. ASSUME NEW c \in Calls, Apply(c) PROVE Next
  BY <1>7 DEF Next
<1>8. CASE UNCHANGED trackerVars
  BY <1>8 DEF trackerVars
<1>9. ASSUME NEW p \in Flushers, InFlush(p) PROVE Next
  BY <1>1, <1>9 DEF InFlush
<1> QED BY <1>2, <1>3, <1>4, <1>5, <1>6, <1>7, <1>8, <1>9 DEF TrackerNext

\* The tracker's life cycle only uses the pipeline: whatever holds of Flush
\* in every interleaving holds of the flushes of Stop and of the goroutine.
THEOREM TrackerUsesPipeline == TrackerSpec => Spec
<1>1. TrackerInit => Init /\ CancelInv
  BY DEF TrackerInit, CancelInv
<1> QED
  BY <1>1, CancelStep, TrackerStep, PTL DEF TrackerSpec, Spec

\* Starting, stopping and cancelling loses and duplicates no unit either.
THEOREM TrackerConserves == TrackerSpec => []Conservation
  BY TrackerUsesPipeline, UsageConserved, PTL

\* What a Flush of Stop or of the goroutine reports as delivered was recorded and is
\* reported once: the tracker implements the ledger.
THEOREM TrackerImplementsLedger == TrackerSpec => LedgerSpec
  BY TrackerUsesPipeline, ImplementsLedger, PTL

-----------------------------------------------------------------------------
(* Types *)

LifeTypes ==
  /\ {cancel, done, latest} \subseteq Runs \cup {NoRun}
  /\ opc \in [Owners -> OwnerPhases]
  /\ mine \in [Owners -> Runs \cup {NoRun}]
  /\ waitOn \in [Owners -> Runs \cup {NoRun}]
  /\ stopping \in [Owners -> Runs \cup {NoRun}]
  /\ loop \in [Runs -> LoopStates]
  /\ closes \in [Runs -> Runs \cup {NoRun}]
  /\ closed \subseteq Runs

StopTypes ==
  /\ running \in BOOLEAN /\ panicked \in BOOLEAN
  /\ mark \in [Owners -> SUBSET Units]

LEMMA LifeTypesStep == LifeTypes /\ [TrackerNext]_trackerVars => LifeTypes'
<1> SUFFICES ASSUME LifeTypes, [TrackerNext]_trackerVars PROVE LifeTypes'
  OBVIOUS
<1> USE DEF LifeTypes, OwnerPhases, LoopStates, OwnerGoto, lifeVars, ownerVars, loopVars
<1>1. ASSUME NEW o \in Owners, StartStep(o) PROVE LifeTypes'
  BY <1>1 DEF StartStep, StartCAS, SetCancel, SetDone, Spawn
<1>2. ASSUME NEW o \in Owners, StopCAS(o) \/ StopStep(o) PROVE LifeTypes'
  BY <1>2 DEF StopCAS, StopStep, StopCancel, StopReadDone, StopJoin, StopFlush,
     StopReturn
<1>3. ASSUME NEW r \in Runs, LoopEnter(r) \/ LoopExit(r) PROVE LifeTypes'
  BY <1>3 DEF LoopEnter, LoopExit
<1>4. CASE UNCHANGED lifeVars
  BY <1>4
<1> QED
  BY <1>1, <1>2, <1>3, <1>4
  DEF TrackerNext, trackerVars, StartAgain, StopAgain, LoopTick, ParentCancel, InFlush

LEMMA StopTypesStep == TypeOK /\ StopTypes /\ [TrackerNext]_trackerVars => StopTypes'
<1> SUFFICES ASSUME TypeOK, StopTypes, [TrackerNext]_trackerVars PROVE StopTypes'
  OBVIOUS
<1> USE DEF StopTypes, lifeVars, ownerVars, loopVars
<1>1. ASSUME NEW o \in Owners, StartStep(o) PROVE StopTypes'
  BY <1>1 DEF StartStep, StartCAS, SetCancel, SetDone, Spawn
<1>2. ASSUME NEW o \in Owners, StopCAS(o) \/ StopStep(o) PROVE StopTypes'
  BY <1>2 DEF StopCAS, StopStep, StopCancel, StopReadDone, StopJoin, StopFlush,
     StopReturn, TypeOK
<1>3. ASSUME NEW r \in Runs, LoopEnter(r) PROVE StopTypes'
  BY <1>3 DEF LoopEnter
<1>4. ASSUME NEW r \in Runs, LoopExit(r) PROVE StopTypes'
  BY <1>4 DEF LoopExit
<1>5. CASE UNCHANGED lifeVars
  BY <1>5
<1> QED
  BY <1>1, <1>2, <1>3, <1>4, <1>5
  DEF TrackerNext, trackerVars, StartAgain, StopAgain, LoopTick, ParentCancel, InFlush

\* Whoever calls Start and Stop, and however the calls overlap, the variables of the
\* tracker keep their types.
THEOREM TrackerTypes == TrackerSpec => []TrackerTypeOK
<1>1. TrackerInit => LifeTypes /\ StopTypes
  BY DEF TrackerInit, LifeTypes, StopTypes, OwnerPhases, LoopStates
<1>2. TrackerSpec => []TypeOK
  BY TrackerUsesPipeline, TypeCorrect, PTL
<1>3. TypeOK /\ LifeTypes /\ StopTypes => TrackerTypeOK
  BY DEF LifeTypes, StopTypes, TrackerTypeOK
<1> QED BY <1>1, <1>2, <1>3, LifeTypesStep, StopTypesStep, PTL DEF TrackerSpec

-----------------------------------------------------------------------------
(* Owners whose Starts and Stops do not overlap *)

Starting == {"setCancel", "setDone", "spawn"}
Stopping == {"cancel", "readDone", "join", "flush", "flushing"}

\* What the owners have to see to themselves, because Start and Stop do not: no Start
\* that takes effect overlaps a Stop that does.  Starts may race Starts and Stops may
\* race Stops, any number of them.
NoOverlap ==
  \A o, q \in Owners : ~(opc[o] \in Starting /\ opc[q] \in Stopping)

\* Then at most one owner's call takes effect at a time: the others' CAS fails.
Serialized == \A o, q \in Owners : opc[o] # "idle" /\ opc[q] # "idle" => o = q

\* A goroutine closes its own channel, which is closed once it has returned.
OwnChannel ==
  /\ ~panicked
  /\ \A r \in Runs : loop[r] = "looping" => closes[r] = r
  /\ \A r \in Runs : r \in closed <=> loop[r] = "exited"

\* The only goroutine that may live is the latest Start's, and t.done is its
\* channel.
LiveLatest == \A r \in Runs : Live(r) => r = latest /\ r = done

\* An owner in Start has the tracker running, and its goroutine is yet to come.
InStart ==
  \A o \in Owners :
    opc[o] \in Starting =>
      /\ running /\ mine[o] = latest
      /\ latest \in Runs /\ loop[latest] = "none"
      /\ \A r \in Runs : ~Live(r)
      /\ opc[o] \in {"setDone", "spawn"} => cancel = latest
      /\ opc[o] = "spawn" => done = latest

\* The latest run has a goroutine, which t.done belongs to and t.cancel cancels.
Started == latest \in Runs /\ done = latest /\ cancel = latest /\ loop[latest] # "none"

\* An owner in Stop stops the latest run, and waits for its channel once it has
\* cancelled its context.
InStop ==
  \A o \in Owners :
    opc[o] \in Stopping =>
      /\ ~running /\ stopping[o] = latest /\ Started
      /\ opc[o] # "cancel" => latest \in ctxDone
      /\ opc[o] = "join" => waitOn[o] = latest
      /\ opc[o] \in {"flush", "flushing"} => loop[latest] = "exited"

\* Between calls the tracker is running, or no goroutine is.
AtRest ==
  (\A o \in Owners : opc[o] = "idle") =>
    IF running THEN Started ELSE \A r \in Runs : ~Live(r)

OwnerInv ==
  LifeTypes /\ Serialized /\ OwnChannel /\ LiveLatest /\ InStart /\ InStop /\ AtRest

LEMMA OwnerInit == TrackerInit => OwnerInv
  BY UsageTrackerAssumption
  DEF TrackerInit, OwnerInv, LifeTypes, Serialized, OwnChannel, LiveLatest, InStart,
      InStop, AtRest, Started, Live, Starting, Stopping, OwnerPhases, LoopStates

\* While nobody calls Flush but Stop and the goroutines, no context comes back.
LEMMA ContextsStayDone == [TrackerNext]_trackerVars => ctxDone \subseteq ctxDone'
<1> SUFFICES ASSUME [TrackerNext]_trackerVars PROVE ctxDone \subseteq ctxDone'
  OBVIOUS
<1>1. ASSUME NEW p \in Flushers, BeginFlush(p) PROVE UNCHANGED ctxDone
  BY <1>1 DEF BeginFlush, Drain, DrainFails
<1>2. ASSUME NEW p \in Flushers, ContinueFlush(p) PROVE UNCHANGED ctxDone
  BY <1>2 DEF ContinueFlush, ReadSerial, SerialFails, StartSync, SyncRefused, SyncOK,
     SyncFail, Restore, RestoreFails, OnRefresh, RefreshFails
<1>3. ASSUME NEW o \in Owners, StartStep(o) \/ StopCAS(o) PROVE UNCHANGED ctxDone
  BY <1>3 DEF StartStep, StartCAS, SetCancel, SetDone, Spawn, StopCAS, vars
<1>4. ASSUME NEW o \in Owners, StopStep(o) PROVE ctxDone \subseteq ctxDone'
  BY <1>1, <1>4, UsageTrackerAssumption
  DEF StopStep, StopCancel, StopReadDone, StopJoin, StopFlush, StopReturn, vars
<1>5. ASSUME NEW r \in Runs,
             LoopEnter(r) \/ LoopTick(r) \/ LoopExit(r) \/ ParentCancel(r)
      PROVE  ctxDone \subseteq ctxDone'
  BY <1>1, <1>5, UsageTrackerAssumption
  DEF LoopEnter, LoopTick, LoopExit, ParentCancel, CancelContext, vars
<1>6. CASE UNCHANGED trackerVars
  BY <1>6 DEF trackerVars, vars
<1> QED
  BY <1>2, <1>3, <1>4, <1>5, <1>6
  DEF TrackerNext, StartAgain, StopAgain, InFlush, TrackDelta, Apply

LEMMA OwnerStep ==
  ASSUME NoOverlap, NoOverlap', OwnerInv, [TrackerNext]_trackerVars
  PROVE  OwnerInv'
<1>1. LifeTypes'
  BY LifeTypesStep DEF OwnerInv
<1>2. ctxDone \subseteq ctxDone'
  BY ContextsStayDone
<1> DEFINE Parts == Serialized /\ OwnChannel /\ LiveLatest /\ InStart /\ InStop /\ AtRest
<1> USE UsageTrackerAssumption
    DEF NoOverlap, OwnerInv, LifeTypes, Serialized, OwnChannel, LiveLatest, InStart,
        InStop, AtRest, Started, Live, Starting, Stopping, OwnerPhases, LoopStates,
        OwnerGoto, lifeVars, ownerVars, loopVars
<1>3. ASSUME NEW o \in Owners, StartStep(o) PROVE Parts'
  <2>1. CASE StartCAS(o)
    <3>1. /\ opc' = [opc EXCEPT ![o] = "setCancel"] /\ opc[o] = "idle" /\ ~running
          /\ \E r \in Runs : loop[r] = "none" /\ mine' = [mine EXCEPT ![o] = r] /\ latest' = r
          /\ running' = TRUE
          /\ UNCHANGED <<cancel, done, waitOn, stopping, loop, closes, closed, panicked>>
      BY <2>1 DEF StartCAS, Used
    <3>2. \A q \in Owners : opc[q] = "idle"
      <4> SUFFICES ASSUME NEW q \in Owners, opc[q] # "idle" PROVE FALSE
        OBVIOUS
      <4>1. opc[q] \in Stopping
        BY <3>1
      <4>2. opc'[o] \in Starting /\ opc'[q] = opc[q]
        BY <3>1, <4>1
      <4> QED BY <4>1, <4>2
    <3> QED BY <3>1, <3>2
  <2>2. CASE SetCancel(o) BY <1>2, <2>2 DEF SetCancel
  <2>3. CASE SetDone(o) BY <1>2, <2>3 DEF SetDone
  <2>4. CASE Spawn(o) BY <1>2, <2>4 DEF Spawn
  <2> QED BY <1>3, <2>1, <2>2, <2>3, <2>4 DEF StartStep
<1>4. ASSUME NEW o \in Owners, StopStep(o) PROVE Parts'
  <2>1. CASE StopCancel(o) BY <2>1 DEF StopCancel
  <2>2. CASE StopReadDone(o) BY <1>2, <2>2 DEF StopReadDone
  <2>3. CASE StopJoin(o) BY <1>2, <2>3 DEF StopJoin
  <2>4. CASE StopFlush(o) BY <1>2, <2>4 DEF StopFlush
  <2>5. CASE StopReturn(o) BY <1>2, <2>5 DEF StopReturn, Returning
  <2> QED BY <1>4, <2>1, <2>2, <2>3, <2>4, <2>5 DEF StopStep
<1>5. ASSUME NEW o \in Owners, StopCAS(o) PROVE Parts'
  <2>1. /\ opc' = [opc EXCEPT ![o] = "cancel"] /\ opc[o] = "idle" /\ running
        /\ stopping' = [stopping EXCEPT ![o] = latest] /\ running' = FALSE
        /\ UNCHANGED <<cancel, done, mine, waitOn, latest, loop, closes, closed, panicked>>
    BY <1>5 DEF StopCAS
  <2>2. \A q \in Owners : opc[q] = "idle"
    <3> SUFFICES ASSUME NEW q \in Owners, opc[q] # "idle" PROVE FALSE
      OBVIOUS
    <3>1. opc[q] \in Starting
      BY <2>1
    <3>2. opc'[o] \in Stopping /\ opc'[q] = opc[q]
      BY <2>1, <3>1
    <3> QED BY <3>1, <3>2
  <2> QED BY <2>1, <2>2
<1>6. ASSUME NEW r \in Runs, LoopEnter(r) PROVE Parts'
  BY <1>2, <1>6 DEF LoopEnter
<1>7. ASSUME NEW r \in Runs, LoopExit(r) PROVE Parts'
  <2>1. closes[r] = r /\ r \notin closed /\ r # NoRun /\ loop[r] = "looping"
    BY <1>7 DEF LoopExit, AtSelect
  <2>2. panicked' = (closes[r] \in closed \cup {NoRun})
    BY <1>7 DEF LoopExit
  <2>3. ~panicked'
    <3>1. ~(closes[r] \in closed \cup {NoRun})
      BY <2>1
    <3> QED BY ONLY <2>2, <3>1, Zenon
  <2>4. /\ closed' = closed \cup {r} /\ loop' = [loop EXCEPT ![r] = "exited"]
        /\ UNCHANGED <<running, cancel, done, opc, mine, waitOn, latest, stopping, closes>>
    BY <1>7, <2>1 DEF LoopExit
  <2> QED BY <1>2, <2>1, <2>3, <2>4
<1>8. CASE UNCHANGED lifeVars
  BY <1>2, <1>8
<1>9. Parts'
  BY <1>3, <1>4, <1>5, <1>6, <1>7, <1>8
  DEF TrackerNext, trackerVars, StartAgain, StopAgain, LoopTick, ParentCancel,
      InFlush
<1> QED BY <1>1, <1>9 DEF OwnerInv

LEMMA OwnerInvariance == TrackerSpec /\ []NoOverlap => []OwnerInv
  BY OwnerInit, OwnerStep, PTL DEF TrackerSpec

\* Whatever the owners do in whatever order, and however the contexts are cancelled,
\* as long as no Start overlaps a Stop: Stop flushes after the goroutine has finished,
\* at most one goroutine runs and no channel is closed twice.
THEOREM OwnerStopsSafely ==
  TrackerSpec /\ []NoOverlap => [](StopJoins /\ OneLoop)
<1>1. OwnerInv => StopJoins /\ OneLoop
  BY DEF OwnerInv, OwnChannel, LiveLatest, InStop, Stopping, StopJoins, OneLoop
<1> QED BY <1>1, OwnerInvariance, PTL

\* Nor does Stop wait for nobody: the channel it waits for is closed, or is that of a
\* goroutine whose context is cancelled and which the select will let go.
StopCanJoin ==
  \A o \in Owners :
    opc[o] = "join" => \/ waitOn[o] \in closed
                       \/ Live(waitOn[o]) /\ waitOn[o] \in ctxDone

\* The safety half of StopReturns.
THEOREM StopWaitsForTheCancelled ==
  TrackerSpec /\ []NoOverlap => []StopCanJoin
<1>1. OwnerInv => StopCanJoin
  BY DEF OwnerInv, LifeTypes, OwnChannel, InStop, Started, Stopping, StopCanJoin, Live,
     LoopStates
<1> QED BY <1>1, OwnerInvariance, PTL

\* One goroutine that starts, stops and starts again never overlaps itself.
SingleOwner == \A o, q \in Owners : o = q

THEOREM OneOwnerStopsSafely ==
  SingleOwner => (TrackerSpec => [](StopJoins /\ OneLoop))
<1> SUFFICES ASSUME SingleOwner PROVE TrackerSpec => [](StopJoins /\ OneLoop)
  OBVIOUS
<1>1. NoOverlap
  BY DEF SingleOwner, NoOverlap, Starting, Stopping
<1> QED BY <1>1, OwnerStopsSafely, PTL

\* Start is idempotent: of any number of goroutines that call Start at the
\* same time, and of none that calls Stop, one creates a flush goroutine.
THEOREM StartIsIdempotent == Stoppers = {} => (TrackerSpec => []OneLoop)
<1> SUFFICES ASSUME Stoppers = {} PROVE TrackerSpec => []OneLoop
  OBVIOUS
<1> DEFINE NoStop == /\ opc \in [Owners -> OwnerPhases]
                     /\ \A o \in Owners : opc[o] \notin Stopping
<1> USE DEF Stopping, OwnerPhases
<1>1. TrackerInit => NoStop
  BY DEF TrackerInit
<1>2. NoStop /\ [TrackerNext]_trackerVars => NoStop'
  <2> SUFFICES ASSUME NoStop, [TrackerNext]_trackerVars PROVE NoStop'
    OBVIOUS
  <2>1. ASSUME NEW o \in Owners, StartStep(o) PROVE NoStop'
    BY <2>1 DEF StartStep, StartCAS, SetCancel, SetDone, Spawn, OwnerGoto
  <2>2. ASSUME NEW o \in Owners PROVE ~StopCAS(o) /\ ~StopStep(o)
    BY DEF StopCAS, StopStep, StopCancel, StopReadDone, StopJoin, StopFlush,
           StopReturn, Returning
  <2>3. CASE UNCHANGED opc
    BY <2>3
  <2> QED
    BY <2>1, <2>2, <2>3
    DEF TrackerNext, trackerVars, lifeVars, ownerVars, StartAgain, StopAgain, LoopEnter,
        LoopTick, LoopExit, ParentCancel, InFlush
<1>3. NoStop => NoOverlap
  BY DEF NoOverlap
<1> QED BY <1>1, <1>2, <1>3, OwnerStopsSafely, PTL DEF TrackerSpec

-----------------------------------------------------------------------------
(* What a Stop delivers, and in which order answers arrive *)

\* Whoever is in Flush was sent there by Stop or is a goroutine at work.
Busy ==
  \A p \in Flushers :
    pc[p] # "idle" => \/ p \in Owners /\ opc[p] = "flushing"
                      \/ p \in Runs /\ loop[p] = "looping"

\* Where the units that were tracked when Stop began are.
Delivering(o) ==
  /\ mark[o] \subseteq tracked
  /\ opc[o] = "flushing" =>
       /\ pc[o] \in {"serial", "sync", "await", "restore"} =>
            mark[o] \subseteq acked \cup lost \cup deltas[o]
       /\ pc[o] = "refresh" => mark[o] \subseteq acked \cup lost
       /\ Returning(o) => mark[o] \subseteq acked \cup lost \cup
                                    (IF result[o] = "nil" THEN {} ELSE buffer)

\* The stored snapshot is no newer than the server's, and no newer than the
\* answer that is to replace it.
Ordered ==
  /\ snapshot <= srvSerial
  /\ \A c \in Calls : /\ reply[c] = 0 \/ reply[c] <= srvSerial
                      /\ status[c] = "unused" => reply[c] = 0 /\ c \notin wire
  /\ \A p \in Flushers :
       /\ pc[p] = "await" => reply[call[p]] = 0 \/ reply[call[p]] >= snapshot
       /\ pc[p] = "refresh" => reply[call[p]] >= snapshot

WorkInv == OwnerInv /\ IInv /\ CancelInv /\ Busy

\* One Flush at a time.
LEMMA OneBusy ==
  ASSUME WorkInv, NEW p \in Flushers, NEW q \in Flushers,
         pc[p] # "idle", pc[q] # "idle"
  PROVE  p = q
  BY UsageTrackerAssumption
  DEF WorkInv, Busy, Serialized, OwnerInv, LifeTypes, LiveLatest, InStop, Stopping, Live,
      Started

\* When Stop comes to its own Flush nobody is in Flush.
LEMMA NobodyBusy ==
  ASSUME WorkInv, NEW o \in Owners, opc[o] = "flush"
  PROVE  \A p \in Flushers : pc[p] = "idle"
  BY UsageTrackerAssumption
  DEF WorkInv, Busy, Serialized, OwnerInv, LifeTypes, LiveLatest, InStop, Stopping, Live,
      Started

\* Every step of the tracker is one of an owner, of a goroutine, of a Flush that is
\* under way or of the environment.
LEMMA BusyStep ==
  ASSUME NoOverlap, NoOverlap', WorkInv, [TrackerNext]_trackerVars
  PROVE  WorkInv'
<1>1. OwnerInv' /\ CancelInv' /\ IInv'
  BY OwnerStep, CancelStep, TrackerStep, TypeStep, RestStep DEF WorkInv, IInv, Rest
<1> USE UsageTrackerAssumption
    DEF OwnerInv, LifeTypes, Live, Starting, Stopping, OwnerPhases, LoopStates, OwnerGoto,
        lifeVars, ownerVars, loopVars, IInv, TypeOK
<1>2. pc \in [Flushers -> Phases] /\ Busy /\ opc \in [Owners -> OwnerPhases]
  BY DEF WorkInv
<1>3. Busy'
  <2>1. ASSUME NEW o \in Owners, StartStep(o) PROVE Busy'
    <3>1. UNCHANGED pc
      BY <2>1 DEF StartStep, StartCAS, SetCancel, SetDone, Spawn, vars, flushVars
    <3>2. \A p \in Owners : opc[p] = "flushing" => opc'[p] = "flushing"
      BY <1>2, <2>1 DEF StartStep, StartCAS, SetCancel, SetDone, Spawn
    <3>3. \A r \in Runs : loop[r] = "looping" => loop'[r] = "looping"
      BY <2>1 DEF StartStep, StartCAS, SetCancel, SetDone, Spawn, WorkInv, InStart
    <3> QED BY <1>2, <3>1, <3>2, <3>3 DEF Busy
  <2>2. ASSUME NEW o \in Owners, StopCAS(o) PROVE Busy'
    BY <1>2, <2>2 DEF StopCAS, Busy, vars, flushVars
  <2>3. ASSUME NEW o \in Owners, StopCancel(o) \/ StopReadDone(o) \/ StopJoin(o)
        PROVE  Busy'
    BY <1>2, <2>3 DEF StopCancel, StopReadDone, StopJoin, Busy, vars, flushVars
  <2>4. ASSUME NEW o \in Owners, StopFlush(o) PROVE Busy'
    <3>1. \A p \in Flushers \ {o} : pc'[p] = pc[p]
      BY <1>2, <2>4 DEF StopFlush, BeginFlush, Drain, DrainFails, Return, Goto
    <3>2. opc' = [opc EXCEPT ![o] = "flushing"] /\ UNCHANGED loop
      BY <2>4 DEF StopFlush
    <3> QED BY <1>2, <3>1, <3>2 DEF Busy
  <2>5. ASSUME NEW o \in Owners, StopReturn(o) PROVE Busy'
    BY <1>2, <2>5 DEF StopReturn, Returning, Busy, vars, flushVars
  <2>6. ASSUME NEW r \in Runs, LoopEnter(r) PROVE Busy'
    BY <1>2, <2>6 DEF LoopEnter, Busy, vars, flushVars
  <2>7. ASSUME NEW r \in Runs, LoopTick(r) PROVE Busy'
    <3>1. \A p \in Flushers \ {r} : pc'[p] = pc[p]
      BY <1>2, <2>7 DEF LoopTick, BeginFlush, Drain, DrainFails, Return, Goto
    <3> QED BY <1>2, <2>7, <3>1 DEF LoopTick, AtSelect, Busy
  <2>8. ASSUME NEW r \in Runs, LoopExit(r) PROVE Busy'
    BY <1>2, <2>8 DEF LoopExit, AtSelect, Busy, vars, flushVars
  <2>9. ASSUME NEW p \in Flushers, InFlush(p) PROVE Busy'
    <3>1. pc[p] # "idle" /\ \A q \in Flushers \ {p} : pc'[q] = pc[q]
      BY <1>2, <2>9 DEF InFlush, ContinueFlush, ReadSerial, SerialFails, StartSync,
         SyncRefused, SyncOK, SyncFail, Restore, RestoreFails, OnRefresh, RefreshFails,
         Return, Goto
    <3> QED BY <1>2, <2>9, <3>1 DEF InFlush, Busy
  <2>10. CASE UNCHANGED <<pc, opc, loop>>
    BY <1>2, <2>10 DEF Busy
  <2> QED
    BY <2>1, <2>2, <2>3, <2>4, <2>5, <2>6, <2>7, <2>8, <2>9, <2>10
    DEF TrackerNext, StopStep, trackerVars, vars, flushVars, StartAgain, StopAgain,
        ParentCancel, CancelContext, TrackDelta, Apply
<1> QED BY <1>1, <1>3 DEF WorkInv

\* A Flush under way gives up nothing but to the server and to a failed Restore.
LEMMA FlushKeeps ==
  ASSUME TypeOK, IdleEmpty, NEW p \in Flushers, ContinueFlush(p)
  PROVE  /\ pc[p] # "idle" /\ tracked' = tracked
         /\ buffer \subseteq buffer' /\ acked \subseteq acked' /\ lost \subseteq lost'
         /\ deltas[p] \subseteq deltas'[p] \cup buffer' \cup acked' \cup lost'
         /\ pc'[p] = "idle" /\ result'[p] = "nil" => deltas[p] \subseteq acked'
         /\ pc'[p] = "refresh" => deltas[p] \subseteq acked'
         /\ pc'[p] \in {"serial", "sync", "await", "restore"} => deltas'[p] = deltas[p]
         /\ pc[p] = "refresh" => pc'[p] = "idle" /\ deltas[p] = {}
         /\ \A q \in Flushers \ {p} : /\ pc'[q] = pc[q] /\ deltas'[q] = deltas[q]
                                      /\ result'[q] = result[q]
<1> USE DEF TypeOK, Return, Goto, IdleEmpty, Phases
<1>1. CASE ReadSerial(p) BY <1>1 DEF ReadSerial, bufferVars
<1>2. CASE SerialFails(p) BY <1>2 DEF SerialFails, bufferVars
<1>3. CASE StartSync(p) BY <1>3 DEF StartSync, bufferVars
<1>4. CASE SyncRefused(p) BY <1>4 DEF SyncRefused, bufferVars
<1>5. CASE SyncOK(p) BY <1>5 DEF SyncOK
<1>6. CASE SyncFail(p) BY <1>6 DEF SyncFail, bufferVars
<1>7. CASE Restore(p) BY <1>7 DEF Restore
<1>8. CASE RestoreFails(p) BY <1>8 DEF RestoreFails
<1>9. CASE OnRefresh(p) \/ RefreshFails(p)
  BY <1>9 DEF OnRefresh, RefreshFails, bufferVars
<1> QED
  BY <1>1, <1>2, <1>3, <1>4, <1>5, <1>6, <1>7, <1>8, <1>9 DEF ContinueFlush

LEMMA DeliverStep ==
  ASSUME WorkInv, StopTypes, [TrackerNext]_trackerVars, NEW o \in Owners,
         Delivering(o)
  PROVE  Delivering(o)'
<1> USE UsageTrackerAssumption
<1>1. /\ TypeOK /\ IdleEmpty /\ Conservation /\ Busy /\ OwnerInv
      /\ opc \in [Owners -> OwnerPhases] /\ o \in Flushers
      /\ mark \in [Owners -> SUBSET Units]
  BY DEF WorkInv, IInv, OwnerInv, LifeTypes, StopTypes
<1>2. ASSUME NEW q \in Owners,
             StartStep(q) \/ StopCAS(q) \/ StopCancel(q) \/ StopReadDone(q) \/ StopJoin(q)
                          \/ StopReturn(q)
      PROVE  Delivering(o)'
  <2>1. UNCHANGED <<tracked, buffer, acked, lost, pc, deltas, result>>
    BY <1>2 DEF StartStep, StartCAS, SetCancel, SetDone, Spawn, StopCAS, StopCancel,
       StopReadDone, StopJoin, StopReturn, vars, bufferVars, flushVars
  <2>2. /\ opc'[o] = "flushing" => opc[o] = "flushing"
        /\ mark'[o] = mark[o] \/ (opc'[o] # "flushing" /\ mark'[o] \in {tracked, {}})
    BY <1>1, <1>2 DEF StartStep, StartCAS, SetCancel, SetDone, Spawn, StopCAS, StopCancel,
       StopReadDone, StopJoin, StopReturn, OwnerGoto
  <2> QED BY <2>1, <2>2 DEF Delivering, Returning
<1>3. ASSUME NEW q \in Owners \ {o}, StopFlush(q) PROVE Delivering(o)'
  <2>1. opc[o] = "idle" /\ opc'[o] = opc[o]
    BY <1>1, <1>3 DEF StopFlush, OwnerGoto, OwnerInv, Serialized
  <2>2. UNCHANGED <<mark, tracked>>
    BY <1>3 DEF StopFlush, BeginFlush, Drain, DrainFails, bufferVars
  <2> QED BY <2>1, <2>2 DEF Delivering, Returning
<1>4. ASSUME StopFlush(o) PROVE Delivering(o)'
  <2>2. \A p \in Flushers : pc[p] = "idle" /\ deltas[p] = {}
    BY <1>1, <1>4, NobodyBusy DEF StopFlush, IdleEmpty
  <2>3. mark[o] \subseteq buffer \cup lost \cup acked
    BY <1>1, <2>2 DEF Delivering, Conservation, InHand
  <2>4. /\ opc' = [opc EXCEPT ![o] = "flushing"] /\ UNCHANGED <<mark, tracked, lost, acked>>
        /\ BeginFlush(o)
    <3>1. BeginFlush(o) /\ UNCHANGED mark /\ OwnerGoto(o, "flushing")
      BY <1>4 DEF StopFlush
    <3>2. UNCHANGED <<tracked, lost, acked>>
      BY <3>1 DEF BeginFlush, Drain, DrainFails, bufferVars
    <3> QED BY <3>1, <3>2 DEF OwnerGoto
  <2>5. CASE Drain(o) /\ buffer = {}
    BY <1>1, <2>3, <2>4, <2>5 DEF Drain, Return, Goto, Delivering, Returning, TypeOK
  <2>6. CASE Drain(o) /\ buffer # {}
    BY <1>1, <2>3, <2>4, <2>6
    DEF Drain, Goto, AfterDrain, Delivering, Returning, TypeOK
  <2>7. CASE DrainFails(o)
    BY <1>1, <2>3, <2>4, <2>7
    DEF DrainFails, Return, Goto, Delivering, Returning, TypeOK, bufferVars
  <2> QED BY <2>4, <2>5, <2>6, <2>7 DEF BeginFlush
<1>5. ASSUME NEW r \in Runs, LoopTick(r) PROVE Delivering(o)'
  <2>1. opc[o] # "flushing"
    BY <1>1, <1>5 DEF LoopTick, AtSelect, OwnerInv, InStop, LiveLatest, Live, Stopping
  <2>2. UNCHANGED <<opc, mark, tracked>>
    BY <1>5 DEF LoopTick, BeginFlush, Drain, DrainFails, lifeVars, ownerVars, bufferVars
  <2> QED BY <2>1, <2>2 DEF Delivering, Returning
<1>6. ASSUME NEW p \in Flushers, InFlush(p) PROVE Delivering(o)'
  <2>1. UNCHANGED <<opc, mark>> /\ ContinueFlush(p)
    BY <1>6 DEF InFlush, lifeVars, ownerVars
  <2>2. /\ pc[p] # "idle" /\ tracked' = tracked
        /\ buffer \subseteq buffer' /\ acked \subseteq acked' /\ lost \subseteq lost'
    BY <1>1, <2>1, FlushKeeps
  <2>3. CASE p # o
    <3>1. pc'[o] = pc[o] /\ deltas'[o] = deltas[o] /\ result'[o] = result[o]
      BY <1>1, <2>1, <2>3, FlushKeeps
    <3> QED BY <2>1, <2>2, <3>1 DEF Delivering, Returning
  <2>4. CASE p = o
    <3>1. pc[o] \in Phases
      BY <1>1 DEF TypeOK
    <3>2. CASE pc[o] = "refresh"
      BY <1>1, <2>1, <2>2, <2>4, <3>2, FlushKeeps DEF Delivering, Returning
    <3>3. CASE pc[o] # "refresh"
      <4>1. opc[o] = "flushing" => mark[o] \subseteq acked \cup lost \cup deltas[o]
        BY <2>2, <2>4, <3>1, <3>3 DEF Delivering, Phases
      <4>2. /\ deltas[o] \subseteq deltas'[o] \cup buffer' \cup acked' \cup lost'
            /\ pc'[o] = "idle" /\ result'[o] = "nil" => deltas[o] \subseteq acked'
            /\ pc'[o] = "refresh" => deltas[o] \subseteq acked'
            /\ pc'[o] \in {"serial", "sync", "await", "restore"} => deltas'[o] = deltas[o]
        BY <1>1, <2>1, <2>4, FlushKeeps
      <4>3. pc'[o] = "idle" => deltas'[o] = {}
        BY <1>1, TrackerStep, RestStep DEF WorkInv, Rest, IdleEmpty
      <4> QED BY <2>1, <2>2, <4>1, <4>2, <4>3 DEF Delivering, Returning
    <3> QED BY <3>2, <3>3
  <2> QED BY <2>3, <2>4
<1>7. ASSUME NEW D \in SUBSET Units, TrackDelta(D), UNCHANGED lifeVars
      PROVE  Delivering(o)'
  BY <1>7 DEF TrackDelta, Delivering, Returning, lifeVars, ownerVars, flushVars
<1>8. CASE UNCHANGED <<bufferVars, flushVars, opc, mark>>
  BY <1>8 DEF Delivering, Returning, bufferVars, flushVars
<1> QED
  BY <1>2, <1>3, <1>4, <1>5, <1>6, <1>7, <1>8
  DEF TrackerNext, StopStep, trackerVars, vars, lifeVars, ownerVars, StartAgain, StopAgain,
      LoopEnter, LoopExit, ParentCancel, CancelContext, Apply

LEMMA OrderStep ==
  ASSUME WorkInv, Ordered, [TrackerNext]_trackerVars
  PROVE  Ordered' /\ snapshot' >= snapshot
<1> USE UsageTrackerAssumption
<1>1. TypeOK /\ AwaitOwn /\ IdleEmpty
  BY DEF WorkInv, IInv
<1>2. \A p, q \in Flushers : pc[p] # "idle" /\ pc[q] # "idle" => p = q
  BY OneBusy
<1>3. [Next]_vars
  BY TrackerStep DEF WorkInv
<1> USE DEF TypeOK
<1>4. ASSUME NEW p \in Flushers, BeginFlush(p)
      PROVE  Ordered' /\ snapshot' >= snapshot
  <2>1. UNCHANGED <<snapshot, srvSerial, reply, status, wire>>
    BY <1>4 DEF BeginFlush, Drain, DrainFails, callVars, serverVars
  <2>2. /\ pc'[p] \notin {"await", "refresh"}
        /\ \A q \in Flushers \ {p} : pc'[q] = pc[q] /\ call'[q] = call[q]
    BY <1>1, <1>4 DEF BeginFlush, Drain, DrainFails, Return, Goto, AfterDrain
  <2> QED BY <1>1, <2>1, <2>2 DEF Ordered
<1>5. ASSUME NEW p \in Flushers, ContinueFlush(p)
      PROVE  Ordered' /\ snapshot' >= snapshot
  <2>1. /\ pc[p] # "idle" /\ UNCHANGED <<srvSerial, reply>>
        /\ \A q \in Flushers \ {p} : pc'[q] = "idle"
    <3>1. pc[p] # "idle" /\ \A q \in Flushers \ {p} : pc'[q] = pc[q]
      BY <1>1, <1>5, FlushKeeps
    <3>2. UNCHANGED <<srvSerial, reply>>
      BY <1>5 DEF ContinueFlush, ReadSerial, SerialFails, StartSync, SyncRefused, SyncOK,
         SyncFail, Restore, RestoreFails, OnRefresh, RefreshFails, serverVars
    <3> QED BY <1>2, <3>1, <3>2
  <2>2. CASE StartSync(p)
    <3>1. PICK c \in Calls : status[c] = "unused" /\ Send(p, c) /\ call' = [call EXCEPT ![p] = c]
      BY <2>2 DEF StartSync
    <3>2. call'[p] = c /\ reply[c] = 0 /\ UNCHANGED snapshot /\ pc'[p] = "await"
      BY <1>1, <2>2, <3>1 DEF StartSync, Goto, Ordered
    <3>3. \A d \in Calls : status'[d] = "unused" => status[d] = "unused" /\ d # c
      BY <1>1, <3>1 DEF Send
    <3>4. \A d \in Calls : d # c /\ d \in wire' => d \in wire
      BY <3>1 DEF Send
    <3> QED BY <1>1, <2>1, <3>2, <3>3, <3>4 DEF Ordered
  <2>3. CASE SyncOK(p)
    <3>1. pc[p] = "await" /\ reply[call[p]] # 0 /\ UNCHANGED <<snapshot, wire>>
      BY <2>3 DEF SyncOK, serverVars
    <3>2. pc'[p] \in {"idle", "refresh"} /\ (pc'[p] = "refresh" => call'[p] = call[p])
      BY <1>1, <2>3 DEF SyncOK, Goto, Return
    <3>3. \A d \in Calls : status'[d] = "unused" => status[d] = "unused"
      BY <1>1, <2>3 DEF SyncOK
    <3> QED BY <1>1, <2>1, <3>1, <3>2, <3>3 DEF Ordered
  <2>4. CASE SyncFail(p)
    <3>1. pc'[p] = "restore" /\ UNCHANGED snapshot /\ wire' \subseteq wire
      BY <1>1, <2>4 DEF SyncFail, Goto
    <3>2. \A d \in Calls : status'[d] = "unused" => status[d] = "unused"
      BY <1>1, <2>4 DEF SyncFail
    <3> QED BY <1>1, <2>1, <3>1, <3>2 DEF Ordered
  <2>5. CASE OnRefresh(p)
    <3>1. /\ snapshot' = reply[call[p]] /\ pc'[p] = "idle" /\ UNCHANGED <<status, wire>>
          /\ pc[p] = "refresh" /\ call[p] \in Calls
      BY <1>1, <2>5 DEF OnRefresh, Return, Goto, callVars, serverVars, AwaitOwn
    <3>2. reply[call[p]] >= snapshot /\ reply[call[p]] <= srvSerial /\ snapshot \in Nat
      BY <1>1, <3>1 DEF Ordered
    <3> QED BY <1>1, <2>1, <3>1, <3>2 DEF Ordered
  <2>6. CASE ReadSerial(p) \/ SerialFails(p) \/ SyncRefused(p) \/ Restore(p) \/ RestoreFails(p)
               \/ RefreshFails(p)
    <3>1. UNCHANGED <<snapshot, status, wire>>
      BY <2>6 DEF ReadSerial, SerialFails, SyncRefused, Restore, RestoreFails, RefreshFails,
         callVars, serverVars
    <3>2. pc'[p] \notin {"await", "refresh"}
      BY <1>1, <2>6 DEF ReadSerial, SerialFails, SyncRefused, Restore, RestoreFails,
         RefreshFails, Return, Goto
    <3> QED BY <1>1, <2>1, <3>1, <3>2 DEF Ordered
  <2> QED BY <1>5, <2>2, <2>3, <2>4, <2>5, <2>6 DEF ContinueFlush
<1>6. ASSUME NEW c \in Calls, Apply(c)
      PROVE  Ordered' /\ snapshot' >= snapshot
  <2>1. /\ srvSerial' = srvSerial + 1 /\ reply' = [reply EXCEPT ![c] = srvSerial + 1]
        /\ wire' = wire \ {c} /\ c \in wire
        /\ UNCHANGED <<snapshot, status, pc, call>>
    BY <1>6 DEF Apply, flushVars, callVars
  <2>2. srvSerial \in Nat /\ snapshot \in Nat /\ \A d \in Calls : reply[d] \in Nat
    BY <1>1
  <2>3. \A d \in Calls : reply'[d] = reply[d] \/ (d = c /\ reply'[d] = srvSerial + 1)
    BY <1>1, <2>1
  <2>4. \A p \in Flushers : pc[p] \in {"await", "refresh"} => call[p] \in Calls
    BY <1>1 DEF AwaitOwn
  <2>5. snapshot <= srvSerial
    BY DEF Ordered
  <2>6. /\ \A d \in Calls : reply'[d] = 0 \/ reply'[d] <= srvSerial'
        /\ \A d \in Calls : status'[d] = "unused" => reply'[d] = 0 /\ d \notin wire'
    BY <2>1, <2>2, <2>3 DEF Ordered
  <2>7. \A p \in Flushers :
          /\ pc'[p] = "await" => reply'[call'[p]] = 0 \/ reply'[call'[p]] >= snapshot'
          /\ pc'[p] = "refresh" => reply'[call'[p]] >= snapshot'
    <3> SUFFICES ASSUME NEW p \in Flushers, pc[p] \in {"await", "refresh"}
                 PROVE  \/ reply'[call[p]] = reply[call[p]]
                        \/ reply'[call[p]] >= snapshot
      BY <2>1 DEF Ordered
    <3> QED BY <2>2, <2>3, <2>4, <2>5
  <2> QED BY <2>1, <2>2, <2>5, <2>6, <2>7 DEF Ordered
<1>7. CASE UNCHANGED <<snapshot, srvSerial, reply, status, wire, pc, call>>
  BY <1>1, <1>7 DEF Ordered
<1> QED
  BY <1>4, <1>5, <1>6, <1>7
  DEF TrackerNext, StartStep, StartCAS, SetCancel, SetDone, Spawn, StopCAS, StopStep,
      StopCancel, StopReadDone, StopJoin, StopFlush, StopReturn, StartAgain, StopAgain,
      LoopEnter, LoopTick, LoopExit, ParentCancel, CancelContext, InFlush, TrackDelta,
      vars, trackerVars, flushVars, callVars, serverVars

DeliveryInv ==
  WorkInv /\ StopTypes /\ Ordered /\ \A o \in Owners : Delivering(o)

LEMMA DeliveryInvariance ==
  TrackerSpec /\ []NoOverlap => []DeliveryInv /\ SnapshotMonotonic
<1>1. TrackerInit => DeliveryInv
  <2> SUFFICES ASSUME TrackerInit PROVE DeliveryInv
    OBVIOUS
  <2>1. WorkInv
    BY OwnerInit, InitIInv DEF TrackerInit, WorkInv, CancelInv, Busy, Init
  <2>2. StopTypes /\ \A o \in Owners : Delivering(o)
    BY DEF TrackerInit, StopTypes, Delivering
  <2>3. Ordered
    BY DEF TrackerInit, Init, Ordered
  <2> QED BY <2>1, <2>2, <2>3 DEF DeliveryInv
<1>2. ASSUME DeliveryInv, NoOverlap, NoOverlap', [TrackerNext]_trackerVars
      PROVE  DeliveryInv' /\ snapshot' >= snapshot
  <2>1. WorkInv'
    BY <1>2, BusyStep DEF DeliveryInv
  <2>2. StopTypes'
    BY <1>2, StopTypesStep DEF DeliveryInv, WorkInv, IInv
  <2>3. Ordered' /\ snapshot' >= snapshot
    BY <1>2, OrderStep DEF DeliveryInv
  <2>4. \A o \in Owners : Delivering(o)'
    BY <1>2, DeliverStep DEF DeliveryInv
  <2> QED BY <2>1, <2>2, <2>3, <2>4 DEF DeliveryInv
<1>3. ASSUME DeliveryInv, NoOverlap, NoOverlap', [TrackerNext]_trackerVars
      PROVE  [snapshot' >= snapshot]_trackerVars
  BY <1>2, <1>3
<1> QED BY <1>1, <1>2, <1>3, PTL DEF TrackerSpec, SnapshotMonotonic

\* What was tracked before Stop was called is delivered when Stop returns nil, and
\* delivered or back in the buffer when it returns an error, unless a custom Buffer
\* dropped it, whatever the goroutine was doing, as long as no Start overlaps the Stop.
THEOREM StopDeliversAll == TrackerSpec /\ []NoOverlap => []StopDelivers
<1>1. DeliveryInv => StopDelivers
  BY DEF DeliveryInv, Delivering, StopDelivers, Returning
<1> QED BY <1>1, DeliveryInvariance, PTL

\* As long as no Start overlaps a Stop no stored snapshot is replaced by an older one,
\* for any number of restarts and however late the server applies what it was sent.
THEOREM SnapshotsInOrder == TrackerSpec /\ []NoOverlap => SnapshotMonotonic
  BY DeliveryInvariance, PTL
=============================================================================

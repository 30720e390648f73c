---------------------------- MODULE UsageTracker ----------------------------
(***************************************************************************)
(* Tracker.Start, Tracker.Stop and the flush goroutine of                  *)
(* src/usage/usage.go, over the flush pipeline of UsageFlush.  A run is    *)
(* what one successful Start creates: a cancellable context, a done        *)
(* channel and a loop goroutine.  The fields t.cancel and t.done are plain *)
(* fields, written after the CAS on running and read without a lock, so    *)
(* each access is a step of its own.  (A race between the two reads of     *)
(* t.done in Stop is taken as one read.)  Flush is called by Stop and by   *)
(* the goroutine; other callers of Flush are the subject of UsageFlush.    *)
(***************************************************************************)
EXTENDS UsageFlush, FiniteSets

CONSTANTS
  Owners,     \* goroutines that call Start and Stop
  Stoppers,   \* ... those of them that call Stop
  Runs,       \* the runs the successful Starts create, which bounds them
  NoRun       \* the nil CancelFunc and the nil channel

ASSUME UsageTrackerAssumption ==
  /\ Flushers = Owners \cup Runs
  /\ Owners \cap Runs = {}
  /\ Stoppers \subseteq Owners
  /\ NoRun \notin Runs

VARIABLES
  running,   \* Tracker.running
  cancel,    \* Tracker.cancel: the run it cancels
  done,      \* Tracker.done: the run whose channel it is
  opc,       \* where each owner is in Start or Stop
  mine,      \* the run an owner's Start has created
  waitOn,    \* the channel an owner's Stop waits for
  loop,      \* the state of each run's goroutine
  closes,    \* the channel a goroutine's deferred close was given
  closed,    \* runs whose channel is closed
  panicked,  \* close was called on a closed or nil channel
  latest,    \* (history) the run of the last Start whose CAS succeeded
  stopping,  \* (history) the run that was latest when an owner's Stop began
  mark       \* (history) the units tracked when an owner's Stop began

ownerVars == <<opc, mine, waitOn, latest, stopping, mark>>
loopVars  == <<loop, closes, closed, panicked>>
lifeVars  == <<running, cancel, done, ownerVars, loopVars>>
trackerVars == <<vars, lifeVars>>

OwnerPhases ==
  {"idle", "setCancel", "setDone", "spawn",
   "cancel", "readDone", "join", "flush", "flushing"}
LoopStates == {"none", "spawned", "looping", "exited"}

TrackerTypeOK ==
  /\ TypeOK
  /\ running \in BOOLEAN /\ panicked \in BOOLEAN
  /\ {cancel, done, latest} \subseteq Runs \cup {NoRun}
  /\ opc \in [Owners -> OwnerPhases]
  /\ mine \in [Owners -> Runs \cup {NoRun}]
  /\ waitOn \in [Owners -> Runs \cup {NoRun}]
  /\ stopping \in [Owners -> Runs \cup {NoRun}]
  /\ mark \in [Owners -> SUBSET Units]
  /\ loop \in [Runs -> LoopStates]
  /\ closes \in [Runs -> Runs \cup {NoRun}]
  /\ closed \subseteq Runs

TrackerInit ==
  /\ Init
  /\ running = FALSE /\ cancel = NoRun /\ done = NoRun
  /\ opc = [o \in Owners |-> "idle"]
  /\ mine = [o \in Owners |-> NoRun]
  /\ waitOn = [o \in Owners |-> NoRun]
  /\ loop = [r \in Runs |-> "none"]
  /\ closes = [r \in Runs |-> NoRun]
  /\ closed = {} /\ panicked = FALSE
  /\ latest = NoRun
  /\ stopping = [o \in Owners |-> NoRun]
  /\ mark = [o \in Owners |-> {}]

OwnerGoto(o, phase) == opc' = [opc EXCEPT ![o] = phase]

Used == {mine[o] : o \in Owners} \cup {r \in Runs : loop[r] # "none"}
NextRun == CHOOSE r \in Runs : r \notin Used      \* (a fixed order of identities)
AtSelect(r) == loop[r] = "looping" /\ pc[r] = "idle"
Live(r) == loop[r] \in {"spawned", "looping"}

-----------------------------------------------------------------------------
(* Start *)

\* The CAS fails: a second Start changes nothing.
StartAgain(o) ==
  /\ opc[o] = "idle" /\ running
  /\ UNCHANGED trackerVars

\* Faulty variant: running is set, but was not tested in the same step.
StartUntested(o) ==
  /\ opc[o] = "idle"
  /\ running' = TRUE
  /\ \E r \in Runs \ Used :
       r = NextRun /\ mine' = [mine EXCEPT ![o] = r] /\ latest' = r
  /\ OwnerGoto(o, "setCancel")
  /\ UNCHANGED <<vars, cancel, done, waitOn, stopping, mark, loopVars>>

\* The CAS, and WithCancel's fresh context.
StartCAS(o) ==
  /\ opc[o] = "idle" /\ ~running
  /\ running' = TRUE
  /\ \E r \in Runs \ Used :
       r = NextRun /\ mine' = [mine EXCEPT ![o] = r] /\ latest' = r
  /\ OwnerGoto(o, "setCancel")
  /\ UNCHANGED <<vars, cancel, done, waitOn, stopping, mark, loopVars>>

SetCancel(o) ==
  /\ opc[o] = "setCancel"
  /\ cancel' = mine[o]
  /\ OwnerGoto(o, "setDone")
  /\ UNCHANGED <<vars, running, done, mine, waitOn, latest, stopping, mark,
                 loopVars>>

SetDone(o) ==
  /\ opc[o] = "setDone"
  /\ done' = mine[o]
  /\ OwnerGoto(o, "spawn")
  /\ UNCHANGED <<vars, running, cancel, mine, waitOn, latest, stopping, mark,
                 loopVars>>

\* The go statement, after which Start returns.
Spawn(o) ==
  /\ opc[o] = "spawn"
  /\ loop' = [loop EXCEPT ![mine[o]] = "spawned"]
  /\ mine' = [mine EXCEPT ![o] = NoRun]
  /\ OwnerGoto(o, "idle")
  /\ UNCHANGED <<vars, running, cancel, done, waitOn, latest, stopping, mark,
                 closes, closed, panicked>>

-----------------------------------------------------------------------------
(* Stop *)

\* The CAS fails: nothing is running, and Stop returns nil.
StopAgain(o) ==
  /\ o \in Stoppers /\ opc[o] = "idle" /\ ~running
  /\ UNCHANGED trackerVars

StopCAS(o) ==
  /\ o \in Stoppers /\ opc[o] = "idle" /\ running
  /\ running' = FALSE
  /\ stopping' = [stopping EXCEPT ![o] = latest]
  /\ mark' = [mark EXCEPT ![o] = tracked]
  /\ OwnerGoto(o, "cancel")
  /\ UNCHANGED <<vars, cancel, done, mine, waitOn, latest, loopVars>>

StopCancel(o) ==
  /\ opc[o] = "cancel"
  /\ ctxDone' = ctxDone \cup ({cancel} \ {NoRun})
  /\ OwnerGoto(o, "readDone")
  /\ UNCHANGED <<bufferVars, flushVars, callVars, serverVars, snapshot, faults,
                 running, cancel, done, mine, waitOn, latest, stopping, mark,
                 loopVars>>

\* Faulty variant: Stop does not wait for the goroutine.
StopNoWait(o) ==
  /\ opc[o] = "readDone"
  /\ OwnerGoto(o, "flush")
  /\ UNCHANGED <<vars, running, cancel, done, mine, waitOn, latest, stopping,
                 mark, loopVars>>

\* Stop reads t.done; with a nil channel there is nothing to wait for.
StopReadDone(o) ==
  /\ opc[o] = "readDone"
  /\ waitOn' = [waitOn EXCEPT ![o] = done]
  /\ OwnerGoto(o, IF done = NoRun THEN "flush" ELSE "join")
  /\ UNCHANGED <<vars, running, cancel, done, mine, latest, stopping, mark,
                 loopVars>>

StopJoin(o) ==
  /\ opc[o] = "join" /\ waitOn[o] \in closed
  /\ OwnerGoto(o, "flush")
  /\ UNCHANGED <<vars, running, cancel, done, mine, waitOn, latest, stopping,
                 mark, loopVars>>

\* The final Flush, on the caller's goroutine.
StopFlush(o) ==
  /\ opc[o] = "flush"
  /\ BeginFlush(o)
  /\ OwnerGoto(o, "flushing")
  /\ UNCHANGED <<running, cancel, done, mine, waitOn, latest, stopping, mark,
                 loopVars>>

\* Flush has returned, and Stop returns what it returned.
Returning(o) == opc[o] = "flushing" /\ pc[o] = "idle"

StopReturn(o) ==
  /\ Returning(o)
  /\ OwnerGoto(o, "idle")
  /\ waitOn' = [waitOn EXCEPT ![o] = NoRun]
  /\ stopping' = [stopping EXCEPT ![o] = NoRun]
  /\ mark' = [mark EXCEPT ![o] = {}]
  /\ UNCHANGED <<vars, running, cancel, done, mine, latest, loopVars>>

-----------------------------------------------------------------------------
(* The goroutine *)

\* Its first statement evaluates the argument of the deferred close.
LoopEnter(r) ==
  /\ loop[r] = "spawned"
  /\ loop' = [loop EXCEPT ![r] = "looping"]
  /\ closes' = [closes EXCEPT ![r] = done]
  /\ UNCHANGED <<vars, running, cancel, done, ownerVars, closed, panicked>>

\* The ticker's case of the select; it may be taken with the context done.
LoopTick(r) ==
  /\ AtSelect(r)
  /\ BeginFlush(r)
  /\ UNCHANGED lifeVars

\* Faulty variant: the goroutine returns without closing the channel.
LoopExitSilently(r) ==
  /\ AtSelect(r) /\ r \in ctxDone
  /\ loop' = [loop EXCEPT ![r] = "exited"]
  /\ UNCHANGED <<vars, running, cancel, done, ownerVars, closes, closed, panicked>>

\* The context's case: return, and run the deferred close.
LoopExit(r) ==
  /\ AtSelect(r) /\ r \in ctxDone
  /\ loop' = [loop EXCEPT ![r] = "exited"]
  /\ closed' = closed \cup ({closes[r]} \ {NoRun})
  /\ panicked' = (closes[r] \in closed \cup {NoRun})
  /\ UNCHANGED <<vars, running, cancel, done, ownerVars, closes>>

\* The context given to Start is cancelled by its owner.
ParentCancel(r) ==
  /\ Live(r)
  /\ CancelContext(r)
  /\ UNCHANGED lifeVars

-----------------------------------------------------------------------------
StartStep(o) == StartCAS(o) \/ SetCancel(o) \/ SetDone(o) \/ Spawn(o)
StopStep(o) ==
  \/ StopCancel(o) \/ StopReadDone(o) \/ StopJoin(o)
  \/ StopFlush(o) \/ StopReturn(o)

InFlush(p) == ContinueFlush(p) /\ UNCHANGED lifeVars

\* A panic ends the process.
TrackerNext ==
  /\ ~panicked
  /\ \/ \E o \in Owners : StartStep(o) \/ StopCAS(o) \/ StopStep(o)
                           \/ StartAgain(o) \/ StopAgain(o)
     \/ \E r \in Runs : LoopEnter(r) \/ LoopTick(r) \/ LoopExit(r)
                        \/ ParentCancel(r)
     \/ \E p \in Flushers : InFlush(p)
     \/ \E D \in SUBSET Units : TrackDelta(D) /\ UNCHANGED lifeVars
     \/ \E c \in Calls : Apply(c) /\ UNCHANGED lifeVars

TrackerSpec == TrackerInit /\ [][TrackerNext]_trackerVars

\* Goroutines that can run do run, the ticker ticks, and a call of Sync comes
\* to an end (the client gives it ten seconds).  Nothing makes an owner call
\* Start or Stop, the application record usage, or anything fail.  The select
\* chooses at random between a tick and a done context, so a goroutine that
\* keeps coming back to it with its context done leaves sooner or later.
Fairness ==
  /\ \A o \in Owners :
       /\ WF_trackerVars(SetCancel(o) \/ SetDone(o) \/ Spawn(o))
       /\ WF_trackerVars(StopStep(o))
  /\ \A r \in Runs :
       /\ WF_trackerVars(LoopEnter(r))
       /\ WF_trackerVars(LoopTick(r))
       /\ SF_trackerVars(LoopExit(r))
  /\ \A p \in Flushers : WF_trackerVars(InFlush(p))
  /\ \A c \in Calls : WF_trackerVars(Apply(c) /\ UNCHANGED lifeVars)

FairTrackerSpec == TrackerSpec /\ Fairness

-----------------------------------------------------------------------------
(* Properties *)

\* Stop flushes only after the goroutine it stops has finished: no automatic
\* flush runs beside the final one or after it (usage.go:181-192).
StopJoins ==
  \A o \in Owners :
    opc[o] \in {"flush", "flushing"} => loop[stopping[o]] = "exited"

\* Start is idempotent: however many Starts race, one goroutine flushes, and
\* no done channel is closed twice (usage.go:172, 195).
OneLoop ==
  /\ \A r, s \in Runs : Live(r) /\ Live(s) => r = s
  /\ ~panicked

\* When Stop returns, every unit tracked before it was called has been
\* delivered, unless a custom Buffer dropped it: what the loop had in flight
\* was restored in time for the final Flush.  If that Flush fails, the unit may
\* be back in the buffer, for the next Flush; nothing is left in flight
\* (usage.go:159, 182-191).
StopDelivers ==
  \A o \in Owners :
    Returning(o) => mark[o] \subseteq acked \cup lost \cup
                                    (IF result[o] = "nil" THEN {} ELSE buffer)

\* The stored snapshot never goes back to an older one: answers reach
\* OnRefresh in the order the server gave them (usage.go:163-167).
SnapshotMonotonic == [][snapshot' >= snapshot]_trackerVars

\* Stop returns (usage.go:181-192).
StopReturns == \A o \in Owners : (opc[o] = "cancel") ~> (opc[o] = "idle")

\* While the goroutine runs, every recorded unit is delivered in the end,
\* through failed flushes and restores, unless a custom Buffer drops it
\* (usage.go:194-206).
UsageDelivered ==
  \A u \in Units :
    (u \in tracked) ~>
      (u \in acked \cup lost \/ \A r \in Runs : ~Live(r) \/ r \in ctxDone)
=============================================================================

----------------------------- MODULE UsageFlush -----------------------------
(***************************************************************************)
(* The buffer and the flush pipeline of src/usage/usage.go: TrackDelta     *)
(* adds to a Buffer; Flush drains it, reads the local snapshot's serial,   *)
(* calls Sync, and either hands the answer to OnRefresh or restores what   *)
(* it drained.  Flush holds no lock, so every step below can interleave    *)
(* with those of another Flush and with TrackDelta; only a Buffer call is  *)
(* atomic (MemoryBuffer.mu).                                               *)
(*                                                                         *)
(* A count of usage is the set of the units it counts, so the buffer's     *)
(* map[feature]uint64 is a set of units with a feature each, and b.state[k]*)
(* += v is a union.  This is exact as long as the sets added are disjoint, *)
(* which Conservation states.  (The wrap-around of a count at 2^64 is not  *)
(* modelled.)                                                              *)
(***************************************************************************)
EXTENDS Naturals

CONSTANTS
  Units,          \* the units of usage the application records
  Features,       \* the keys of the buffer's map
  FeatureOf,      \* the feature a unit counts for
  Flushers,       \* the goroutines that call Flush
  Calls,          \* identities for the calls of Sync
  NoCall,         \* ... and the absence of one
  MaxFaults,      \* bound on crashes and faults of Serial, Sync, OnRefresh, Buffer
  HasSerial,      \* TrackerOptions.Serial is set
  HasOnRefresh,   \* TrackerOptions.OnRefresh is set
  BufferMayFail,  \* a custom Buffer's Drain or Restore may return an error
  MayCrash,       \* the process may end at any moment and start again
  Durable         \* ... and a custom Buffer keeps what it holds

ASSUME UsageFlushAssumption ==
  /\ FeatureOf \in [Units -> Features]
  /\ NoCall \notin Calls
  /\ MaxFaults \in Nat
  /\ {HasSerial, HasOnRefresh, BufferMayFail, MayCrash, Durable} \subseteq BOOLEAN

VARIABLES
  tracked,    \* (history) units TrackDelta has added
  buffer,     \* Buffer: the units waiting to be flushed
  lost,       \* (history) units given up: by a failed Restore or a crash
  acked,      \* (history) units of the calls of Sync that returned no error
  pc,         \* where each flusher is in Flush
  deltas,     \* Flush's local deltas, while it answers for them
  serial,     \* Flush's local serial
  call,       \* the call of Sync a flusher waits for
  result,     \* what a flusher's last Flush returned
  ctxDone,    \* flushers whose context is cancelled
  status,     \* Calls: "unused", "open", what the client saw of it, or "gone"
  payload,    \* Calls: the deltas it carries
  sent,       \* Calls: the serial it carries
  wire,       \* Calls whose request the server may still process
  reply,      \* Calls: Response.Serial, 0 until the server has applied it
  srvSerial,  \* the server's serial: snapshots issued so far
  snapshot,   \* the serial of the snapshot OnRefresh last stored
  faults      \* faults so far, up to MaxFaults

bufferVars == <<tracked, buffer, lost, acked>>
flushVars  == <<pc, deltas, serial, call, result>>
callVars   == <<status, payload, sent>>
serverVars == <<wire, reply, srvSerial>>
vars == <<bufferVars, flushVars, ctxDone, callVars, serverVars, snapshot, faults>>

Phases   == {"idle", "serial", "sync", "await", "restore", "refresh"}
Statuses == {"unused", "open", "ok", "failed", "gone"}

TypeOK ==
  /\ tracked \subseteq Units /\ buffer \subseteq Units
  /\ lost \subseteq Units /\ acked \subseteq Units
  /\ pc \in [Flushers -> Phases]
  /\ deltas \in [Flushers -> SUBSET Units]
  /\ serial \in [Flushers -> Nat]
  /\ call \in [Flushers -> Calls \cup {NoCall}]
  /\ result \in [Flushers -> {"nil", "err"}]
  /\ ctxDone \subseteq Flushers
  /\ status \in [Calls -> Statuses]
  /\ payload \in [Calls -> SUBSET Units]
  /\ sent \in [Calls -> Nat]
  /\ wire \subseteq Calls
  /\ reply \in [Calls -> Nat]
  /\ srvSerial \in Nat /\ snapshot \in Nat /\ faults \in 0..MaxFaults

Init ==
  /\ tracked = {} /\ buffer = {} /\ lost = {} /\ acked = {}
  /\ pc = [p \in Flushers |-> "idle"]
  /\ deltas = [p \in Flushers |-> {}]
  /\ serial = [p \in Flushers |-> 0]
  /\ call = [p \in Flushers |-> NoCall]
  /\ result = [p \in Flushers |-> "nil"]
  /\ ctxDone = {}
  /\ status = [c \in Calls |-> "unused"]
  /\ payload = [c \in Calls |-> {}]
  /\ sent = [c \in Calls |-> 0]
  /\ wire = {}
  /\ reply = [c \in Calls |-> 0]
  /\ srvSerial = 0 /\ snapshot = 0 /\ faults = 0

-----------------------------------------------------------------------------
(* Helpers *)

\* An error met by p: its context's cancellation explains one, any other is
\* a fault of the environment.
Fault(p) ==
  \/ p \in ctxDone /\ UNCHANGED faults
  \/ faults < MaxFaults /\ faults' = faults + 1

Goto(p, phase) == pc' = [pc EXCEPT ![p] = phase]

\* Flush returns r; its locals are gone.
Return(p, r) ==
  /\ Goto(p, "idle")
  /\ deltas' = [deltas EXCEPT ![p] = {}]
  /\ serial' = [serial EXCEPT ![p] = 0]
  /\ call' = [call EXCEPT ![p] = NoCall]
  /\ result' = [result EXCEPT ![p] = r]

AfterDrain == IF HasSerial THEN "serial" ELSE "sync"

-----------------------------------------------------------------------------
(* TrackDelta *)

\* TrackDelta(ctx, feature, |D|); a zero delta returns at once.
TrackDelta(D) ==
  /\ D # {} /\ D \cap tracked = {}
  /\ \E f \in Features : \A u \in D : FeatureOf[u] = f
  /\ tracked' = tracked \cup D
  /\ buffer' = buffer \cup D
  /\ UNCHANGED <<lost, acked, flushVars, ctxDone, callVars, serverVars,
                 snapshot, faults>>

-----------------------------------------------------------------------------
(* Flush *)

\* Faulty variant: Drain hands out the map and leaves it in place.
DrainCopies(p) ==
  /\ pc[p] = "idle" /\ buffer # {}
  /\ deltas' = [deltas EXCEPT ![p] = buffer]
  /\ Goto(p, AfterDrain)
  /\ UNCHANGED <<bufferVars, serial, call, result, ctxDone, callVars,
                 serverVars, snapshot, faults>>

\* The call of Buffer.Drain.  With nothing drained Flush returns nil.
Drain(p) ==
  /\ pc[p] = "idle"
  /\ IF buffer = {}
     THEN Return(p, "nil") /\ UNCHANGED buffer
     ELSE /\ deltas' = [deltas EXCEPT ![p] = buffer]
          /\ buffer' = {}
          /\ Goto(p, AfterDrain)
          /\ UNCHANGED <<serial, call, result>>
  /\ UNCHANGED <<tracked, lost, acked, ctxDone, callVars, serverVars,
                 snapshot, faults>>

DrainFails(p) ==
  /\ BufferMayFail /\ pc[p] = "idle"
  /\ Fault(p)
  /\ Return(p, "err")
  /\ UNCHANGED <<bufferVars, ctxDone, callVars,
                 serverVars, snapshot>>

\* Faulty variant: the serial sent is the one before the stored one.
ReadSerialOffByOne(p) ==
  /\ pc[p] = "serial"
  /\ serial' = [serial EXCEPT ![p] = snapshot - 1]
  /\ Goto(p, "sync")
  /\ UNCHANGED <<bufferVars, deltas, call, result, ctxDone, callVars,
                 serverVars, snapshot, faults>>

ReadSerial(p) ==
  /\ pc[p] = "serial"
  /\ serial' = [serial EXCEPT ![p] = snapshot]
  /\ Goto(p, "sync")
  /\ UNCHANGED <<bufferVars, deltas, call, result, ctxDone, callVars,
                 serverVars, snapshot, faults>>

SerialFails(p) ==
  /\ pc[p] = "serial"
  /\ Fault(p)
  /\ Goto(p, "restore")
  /\ UNCHANGED <<bufferVars, deltas, serial, call, result, ctxDone, callVars,
                 serverVars, snapshot>>

\* The request of c carries p's deltas and serial, all features in one.
Send(p, c) ==
  /\ status' = [status EXCEPT ![c] = "open"]
  /\ payload' = [payload EXCEPT ![c] = deltas[p]]
  /\ sent' = [sent EXCEPT ![c] = serial[p]]
  /\ wire' = wire \cup {c}

\* Sync is called and sends its request.  (Calls take their identities in a
\* fixed order.)
StartSync(p) ==
  /\ pc[p] = "sync" /\ p \notin ctxDone
  /\ \E c \in Calls :
       /\ status[c] = "unused" /\ c = CHOOSE d \in Calls : status[d] = "unused"
       /\ Send(p, c)
       /\ call' = [call EXCEPT ![p] = c]
  /\ Goto(p, "await")
  /\ UNCHANGED <<bufferVars, deltas, serial, result, ctxDone, reply, srvSerial,
                 snapshot, faults>>

\* Sync fails before it sends anything: its context is already cancelled.
SyncRefused(p) ==
  /\ pc[p] = "sync" /\ p \in ctxDone
  /\ Goto(p, "restore")
  /\ UNCHANGED <<bufferVars, deltas, serial, call, result, ctxDone, callVars,
                 serverVars, snapshot, faults>>

\* Sync returns no error.  It may return no response (counted as a fault);
\* with one, an OnRefresh handler is called.
SyncOK(p) ==
  /\ pc[p] = "await" /\ reply[call[p]] # 0
  /\ status' = [status EXCEPT ![call[p]] = "ok"]
  /\ acked' = acked \cup deltas[p]
  /\ \/ /\ HasOnRefresh
        /\ Goto(p, "refresh")
        /\ deltas' = [deltas EXCEPT ![p] = {}]
        /\ UNCHANGED <<serial, call, result, faults>>
     \/ /\ ~HasOnRefresh
        /\ Return(p, "nil")
        /\ UNCHANGED faults
     \/ /\ Return(p, "nil")
        /\ Fault(p)
  /\ UNCHANGED <<tracked, buffer, lost, ctxDone, payload, sent,
                 serverVars, snapshot>>

\* Faulty variant: the error is ignored, as if the deltas had been delivered.
SyncFailIgnored(p) ==
  /\ pc[p] = "await" /\ Fault(p)
  /\ status' = [status EXCEPT ![call[p]] = "failed"]
  /\ acked' = acked \cup deltas[p]
  /\ Return(p, "nil")
  /\ UNCHANGED <<tracked, buffer, lost, ctxDone, payload, sent,
                 serverVars, snapshot>>

\* Sync returns an error: a timeout, a lost request or a lost answer.  The
\* server may have applied the request, or apply it later.
SyncFail(p) ==
  /\ pc[p] = "await" /\ Fault(p)
  /\ status' = [status EXCEPT ![call[p]] = "failed"]
  /\ wire' \in {wire, wire \ {call[p]}}
  /\ Goto(p, "restore")
  /\ UNCHANGED <<bufferVars, deltas, serial, call, result, ctxDone, payload,
                 sent, reply, srvSerial, snapshot>>

\* Faulty variant: Restore overwrites the count of each feature it brings.
RestoreOverwrites(p) ==
  /\ pc[p] = "restore"
  /\ buffer' = deltas[p] \cup
       {u \in buffer : \A d \in deltas[p] : FeatureOf[d] # FeatureOf[u]}
  /\ Return(p, "err")
  /\ UNCHANGED <<tracked, lost, acked, ctxDone, callVars,
                 serverVars, snapshot, faults>>

\* Buffer.Restore merges the deltas back and Flush returns the error.
Restore(p) ==
  /\ pc[p] = "restore"
  /\ buffer' = buffer \cup deltas[p]
  /\ Return(p, "err")
  /\ UNCHANGED <<tracked, lost, acked, ctxDone, callVars,
                 serverVars, snapshot, faults>>

\* The error of Restore is dropped, and the deltas with it.
RestoreFails(p) ==
  /\ BufferMayFail /\ pc[p] = "restore"
  /\ Fault(p)
  /\ lost' = lost \cup deltas[p]
  /\ Return(p, "err")
  /\ UNCHANGED <<tracked, buffer, acked, ctxDone, callVars,
                 serverVars, snapshot>>

OnRefresh(p) ==
  /\ pc[p] = "refresh"
  /\ snapshot' = reply[call[p]]
  /\ Return(p, "nil")
  /\ UNCHANGED <<bufferVars, ctxDone, callVars,
                 serverVars, faults>>

\* Faulty variant: the delivered deltas are restored when OnRefresh fails.
RefreshFailsRestoring(p) ==
  /\ pc[p] = "refresh" /\ Fault(p)
  /\ buffer' = buffer \cup payload[call[p]]
  /\ Return(p, "err")
  /\ UNCHANGED <<tracked, lost, acked, ctxDone, callVars,
                 serverVars, snapshot>>

\* OnRefresh's error is returned; nothing is restored, the server has it all.
RefreshFails(p) ==
  /\ pc[p] = "refresh" /\ Fault(p)
  /\ Return(p, "err")
  /\ UNCHANGED <<bufferVars, ctxDone, callVars,
                 serverVars, snapshot>>

-----------------------------------------------------------------------------
(* Environment *)

\* The server applies a request, all of it, and issues the next snapshot.
Apply(c) ==
  /\ c \in wire
  /\ wire' = wire \ {c}
  /\ srvSerial' = srvSerial + 1
  /\ reply' = [reply EXCEPT ![c] = srvSerial + 1]
  /\ UNCHANGED <<bufferVars, flushVars, ctxDone, callVars, snapshot, faults>>

\* The context p flushes with is cancelled, for good.
CancelContext(p) ==
  /\ p \notin ctxDone
  /\ ctxDone' = ctxDone \cup {p}
  /\ UNCHANGED <<bufferVars, flushVars, callVars, serverVars, snapshot, faults>>

InHand == UNION {deltas[p] : p \in Flushers}

\* The process ends and starts again.  What a Flush has in hand is lost, and
\* what a Buffer in memory holds; requests on the wire and the application's
\* snapshot store remain.
Crash ==
  /\ MayCrash /\ faults < MaxFaults
  /\ faults' = faults + 1
  /\ buffer' = IF Durable THEN buffer ELSE {}
  /\ lost' = lost \cup InHand \cup (buffer \ buffer')
  /\ pc' = [p \in Flushers |-> "idle"]
  /\ deltas' = [p \in Flushers |-> {}]
  /\ serial' = [p \in Flushers |-> 0]
  /\ call' = [p \in Flushers |-> NoCall]
  /\ result' = [p \in Flushers |-> "nil"]
  /\ status' = [c \in Calls |-> IF status[c] = "open" THEN "gone" ELSE status[c]]
  /\ ctxDone' = {}
  /\ UNCHANGED <<tracked, acked, payload, sent, serverVars, snapshot>>

-----------------------------------------------------------------------------
BeginFlush(p) == Drain(p) \/ DrainFails(p)

ContinueFlush(p) ==
  \/ ReadSerial(p) \/ SerialFails(p)
  \/ StartSync(p) \/ SyncRefused(p) \/ SyncOK(p) \/ SyncFail(p)
  \/ Restore(p) \/ RestoreFails(p)
  \/ OnRefresh(p) \/ RefreshFails(p)

Next ==
  \/ \E D \in SUBSET Units : TrackDelta(D)
  \/ \E p \in Flushers : BeginFlush(p) \/ ContinueFlush(p) \/ CancelContext(p)
  \/ \E c \in Calls : Apply(c)
  \/ Crash

Spec == Init /\ [][Next]_vars

-----------------------------------------------------------------------------
(* Properties *)

\* No step of Flush loses or duplicates usage: what was tracked is in exactly
\* one of the buffer, a Flush in progress, the delivered units and what a
\* failed Restore or a crash took (usage.go:138-169).
Conservation ==
  /\ tracked = buffer \cup lost \cup acked \cup InHand
  /\ buffer \cap (lost \cup acked) = {} /\ lost \cap acked = {}
  /\ \A p \in Flushers : deltas[p] \cap (buffer \cup lost \cup acked) = {}
  /\ \A p, q \in Flushers : p # q => deltas[p] \cap deltas[q] = {}
  /\ ~BufferMayFail /\ ~MayCrash => lost = {}

\* Two calls of Sync carry the same unit only if the client was told that one
\* of them failed: each redelivery has an error behind it, whatever Flushes
\* run side by side.  A crash is no such error: what a call cut off by it
\* carried is not sent again (usage.go:157-167).
MayCount == {c \in Calls : status[c] \in {"open", "ok", "gone"}}
SingleLiveDelivery ==
  \A c, d \in MayCount : c # d => payload[c] \cap payload[d] = {}

\* What Flush treats as delivered was applied by the server, in a call that
\* succeeded (usage.go:157-163).
AckedApplied ==
  \A u \in acked :
    \E c \in Calls : status[c] = "ok" /\ reply[c] # 0 /\ u \in payload[c]

\* The pipeline implements the ledger: the units a successful call of Sync
\* carried were recorded, and no other successful call carries them again
\* (usage.go:131-169).
Delivered == [c \in Calls |-> IF status[c] = "ok" THEN payload[c] ELSE {}]
Ledger == INSTANCE UsageLedger
            WITH Reports <- Calls, recorded <- tracked, delivered <- Delivered
LedgerSpec == Ledger!Spec
=============================================================================

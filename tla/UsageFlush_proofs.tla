------------------------- MODULE UsageFlush_proofs -------------------------
(***************************************************************************)
(* Proofs about UsageFlush, for any number of units, features, flushers    *)
(* and calls, any bound on the faults and any choice of options.           *)
(***************************************************************************)
EXTENDS UsageFlush, TLAPS

\* A flusher answers for deltas only between Drain and the end of Sync.
IdleEmpty == \A p \in Flushers : pc[p] \in {"idle", "refresh"} => deltas[p] = {}

\* A waiting flusher has an open call of its own that carries its deltas.
AwaitOwn ==
  \A p \in Flushers :
    /\ pc[p] \in {"await", "refresh"} => call[p] \in Calls
    /\ pc[p] = "await" => /\ status[call[p]] = "open"
                          /\ payload[call[p]] = deltas[p]
                          /\ \A q \in Flushers \ {p} :
                               pc[q] = "await" => call[q] # call[p]

\* Every open call is waited for.
OpenOwned ==
  \A c \in Calls :
    status[c] = "open" => \E p \in Flushers : pc[p] = "await" /\ call[p] = c

\* What a successful call carried is delivered, and by no other call.
OkAcked ==
  /\ \A c \in Calls : status[c] = "ok" => payload[c] \subseteq acked
  /\ \A c, d \in Calls :
       c # d /\ status[c] = "ok" /\ status[d] = "ok"
         => payload[c] \cap payload[d] = {}

\* What a call cut off by a crash carried is lost, and in no other such call.
GoneLost ==
  /\ \A c \in Calls : status[c] = "gone" => payload[c] \subseteq lost
  /\ \A c, d \in Calls :
       c # d /\ status[c] = "gone" /\ status[d] = "gone"
         => payload[c] \cap payload[d] = {}

\* The inductive invariant.
IInv ==
  /\ TypeOK
  /\ Conservation
  /\ IdleEmpty
  /\ AwaitOwn
  /\ OpenOwned
  /\ OkAcked
  /\ GoneLost
  /\ AckedApplied

-----------------------------------------------------------------------------
LEMMA InitIInv == Init => IInv
  BY UsageFlushAssumption
  DEF Init, IInv, TypeOK, Phases, Statuses, Conservation, IdleEmpty, AwaitOwn,
      OpenOwned, OkAcked, GoneLost, AckedApplied, InHand

LEMMA TypeStep == IInv /\ [Next]_vars => TypeOK'
<1> SUFFICES ASSUME IInv, [Next]_vars PROVE TypeOK'
  OBVIOUS
<1> USE UsageFlushAssumption DEF IInv, TypeOK, Phases, Statuses, Goto, Return,
        Fault, AfterDrain, bufferVars, flushVars, callVars, serverVars
<1>1. ASSUME NEW D \in SUBSET Units, TrackDelta(D) PROVE TypeOK'
  BY <1>1 DEF TrackDelta
<1>2. ASSUME NEW p \in Flushers, BeginFlush(p) PROVE TypeOK'
  <2>1. CASE Drain(p) BY <2>1 DEF Drain
  <2>2. CASE DrainFails(p) BY <2>2 DEF DrainFails
  <2> QED BY <1>2, <2>1, <2>2 DEF BeginFlush
<1>3. ASSUME NEW p \in Flushers, ContinueFlush(p) PROVE TypeOK'
  <2>1. CASE ReadSerial(p) BY <2>1 DEF ReadSerial
  <2>2. CASE SerialFails(p) BY <2>2 DEF SerialFails
  <2>3. CASE StartSync(p) BY <2>3 DEF StartSync, Send
  <2>4. CASE SyncRefused(p) BY <2>4 DEF SyncRefused
  <2>5. CASE SyncOK(p)
    <3> HIDE DEF Return, Goto, Fault
    <3>1. acked' \subseteq Units
      BY <2>5 DEF SyncOK
    <3>2. status' \in [Calls -> Statuses]
      BY <2>5 DEF SyncOK
    <3>4. pc' \in [Flushers -> Phases]
      BY <2>5 DEF SyncOK, Return, Goto
    <3>5. faults' \in 0..MaxFaults
      BY <2>5 DEF SyncOK, Fault
    <3>3. /\ deltas' \in [Flushers -> SUBSET Units]
          /\ serial' \in [Flushers -> Nat]
          /\ call' \in [Flushers -> Calls \cup {NoCall}]
          /\ result' \in [Flushers -> {"nil", "err"}]
      <4>1. CASE Return(p, "nil")
        BY <4>1 DEF Return
      <4>2. CASE /\ deltas' = [deltas EXCEPT ![p] = {}]
                 /\ UNCHANGED <<serial, call, result>>
        BY <4>2
      <4> QED BY <2>5, <4>1, <4>2 DEF SyncOK
    <3> QED BY <2>5, <3>1, <3>2, <3>3, <3>4, <3>5 DEF SyncOK
  <2>6. CASE SyncFail(p)
    <3>1. wire' \subseteq Calls
      BY <2>6 DEF SyncFail
    <3>2. faults' \in 0..MaxFaults
      BY <2>6 DEF SyncFail
    <3> QED BY <2>6, <3>1, <3>2 DEF SyncFail
  <2>7. CASE Restore(p) BY <2>7 DEF Restore
  <2>8. CASE RestoreFails(p) BY <2>8 DEF RestoreFails
  <2>9. CASE OnRefresh(p) BY <2>9 DEF OnRefresh, AwaitOwn
  <2>10. CASE RefreshFails(p) BY <2>10 DEF RefreshFails
  <2> QED BY <1>3, <2>1, <2>2, <2>3, <2>4, <2>5, <2>6, <2>7, <2>8, <2>9, <2>10
          DEF ContinueFlush
<1>4. ASSUME NEW p \in Flushers, CancelContext(p) PROVE TypeOK'
  BY <1>4 DEF CancelContext
<1>5. ASSUME NEW c \in Calls, Apply(c) PROVE TypeOK'
  BY <1>5 DEF Apply
<1>6. CASE Crash
  BY <1>6 DEF Crash, InHand
<1>7. CASE UNCHANGED vars
  BY <1>7 DEF vars
<1> QED BY <1>1, <1>2, <1>3, <1>4, <1>5, <1>6, <1>7 DEF Next

-----------------------------------------------------------------------------
\* The parts of IInv' other than TypeOK'.
Rest ==
  /\ Conservation /\ IdleEmpty /\ AwaitOwn /\ OpenOwned /\ OkAcked /\ GoneLost
  /\ AckedApplied

LEMMA RestStep == IInv /\ [Next]_vars => Rest'
<1> SUFFICES ASSUME IInv, [Next]_vars PROVE Rest'
  OBVIOUS
<1> USE UsageFlushAssumption DEF IInv, TypeOK, Rest, bufferVars, flushVars,
        callVars, serverVars, Goto, InHand
<1>1. ASSUME NEW D \in SUBSET Units, TrackDelta(D) PROVE Rest'
  BY <1>1 DEF TrackDelta, Conservation, IdleEmpty, AwaitOwn, OpenOwned,
              OkAcked, GoneLost, AckedApplied
<1>2. ASSUME NEW p \in Flushers, BeginFlush(p) PROVE Rest'
  <2>1. CASE Drain(p) /\ buffer = {}
    <3>0. Return(p, "nil") /\ pc[p] = "idle"
      BY <2>1 DEF Drain
    <3>1. UNCHANGED deltas
      BY <3>0 DEF Return, IdleEmpty
    <3> QED
      BY <2>1, <3>1 DEF Drain, Return, Conservation, IdleEmpty, AwaitOwn,
              OpenOwned, OkAcked, GoneLost, AckedApplied
  <2>2. CASE Drain(p) /\ buffer # {}
    <3>0. /\ deltas[p] = {} /\ deltas' = [deltas EXCEPT ![p] = buffer]
          /\ buffer' = {} /\ UNCHANGED <<tracked, lost, acked>>
      BY <2>2 DEF Drain, IdleEmpty
    <3>1. Conservation'
      BY <3>0 DEF Conservation
    <3>2. IdleEmpty'
      BY <2>2 DEF Drain, AfterDrain, IdleEmpty
    <3>3. AwaitOwn'
      BY <2>2 DEF Drain, AfterDrain, AwaitOwn
    <3>4. OpenOwned'
      BY <2>2 DEF Drain, AfterDrain, OpenOwned
    <3>5. OkAcked'
      BY <2>2 DEF Drain, AfterDrain, OkAcked
    <3>6. AckedApplied'
      BY <2>2 DEF Drain, AfterDrain, AckedApplied
    <3>7. GoneLost'
      BY <2>2 DEF Drain, AfterDrain, GoneLost
    <3> QED BY <3>1, <3>2, <3>3, <3>4, <3>5, <3>6, <3>7
  <2>3. CASE DrainFails(p)
    <3>1. UNCHANGED deltas
      BY <2>3 DEF DrainFails, Return, IdleEmpty
    <3> QED
      BY <2>3, <3>1 DEF DrainFails, Return, Conservation, IdleEmpty, AwaitOwn,
              OpenOwned, OkAcked, GoneLost, AckedApplied
  <2> QED BY <1>2, <2>1, <2>2, <2>3 DEF BeginFlush
<1>3. ASSUME NEW p \in Flushers, ContinueFlush(p) PROVE Rest'
  <2>1. CASE ReadSerial(p)
    BY <2>1 DEF ReadSerial, Conservation, IdleEmpty, AwaitOwn, OpenOwned,
              OkAcked, GoneLost, AckedApplied
  <2>2. CASE SerialFails(p)
    BY <2>2 DEF SerialFails, Conservation, IdleEmpty, AwaitOwn, OpenOwned,
              OkAcked, GoneLost, AckedApplied
  <2>3. CASE StartSync(p)
    <3>1. Conservation'
      BY <2>3 DEF StartSync, Send, Conservation
    <3>2. IdleEmpty'
      BY <2>3 DEF StartSync, Send, IdleEmpty
    <3>3. AwaitOwn'
      BY <2>3 DEF StartSync, Send, AwaitOwn
    <3>4. OpenOwned'
      BY <2>3 DEF StartSync, Send, OpenOwned
    <3>5. OkAcked'
      BY <2>3 DEF StartSync, Send, OkAcked
    <3>6. AckedApplied'
      BY <2>3 DEF StartSync, Send, AckedApplied
    <3>7. GoneLost'
      BY <2>3 DEF StartSync, Send, GoneLost
    <3> QED BY <3>1, <3>2, <3>3, <3>4, <3>5, <3>6, <3>7
  <2>4. CASE SyncRefused(p)
    BY <2>4 DEF SyncRefused, Conservation, IdleEmpty, AwaitOwn, OpenOwned,
              OkAcked, GoneLost, AckedApplied
  <2>5. CASE SyncOK(p)
    <3> DEFINE c == call[p]
    <3>0. /\ c \in Calls /\ status[c] = "open" /\ payload[c] = deltas[p]
          /\ reply[c] # 0
          /\ status' = [status EXCEPT ![c] = "ok"]
          /\ acked' = acked \cup payload[c]
          /\ UNCHANGED <<payload, reply, lost>>
      BY <2>5 DEF SyncOK, AwaitOwn
    <3>1. Conservation'
      BY <2>5 DEF SyncOK, Return, Conservation
    <3>2. IdleEmpty'
      BY <2>5 DEF SyncOK, Return, IdleEmpty
    <3>3. AwaitOwn'
      BY <2>5 DEF SyncOK, Return, AwaitOwn
    <3>4. OpenOwned'
      BY <2>5 DEF SyncOK, Return, OpenOwned
    <3>5. OkAcked'
      BY <3>0 DEF OkAcked, Conservation
    <3>6. AckedApplied'
      BY <3>0 DEF AckedApplied
    <3>7. GoneLost'
      BY <3>0 DEF GoneLost
    <3> QED BY <3>1, <3>2, <3>3, <3>4, <3>5, <3>6, <3>7
  <2>6. CASE SyncFail(p)
    <3> DEFINE c == call[p]
    <3>0. /\ c \in Calls /\ status[c] = "open"
          /\ status' = [status EXCEPT ![c] = "failed"]
          /\ UNCHANGED <<acked, payload, reply, lost>>
      BY <2>6 DEF SyncFail, AwaitOwn
    <3>1. Conservation'
      BY <2>6 DEF SyncFail, Conservation
    <3>2. IdleEmpty'
      BY <2>6 DEF SyncFail, IdleEmpty
    <3>3. AwaitOwn'
      BY <2>6 DEF SyncFail, AwaitOwn
    <3>4. OpenOwned'
      BY <2>6 DEF SyncFail, OpenOwned
    <3>5. OkAcked'
      BY <2>6 DEF SyncFail, OkAcked
    <3>6. AckedApplied'
      BY <3>0 DEF AckedApplied
    <3>7. GoneLost'
      BY <3>0 DEF GoneLost
    <3> QED BY <3>1, <3>2, <3>3, <3>4, <3>5, <3>6, <3>7
  <2>7. CASE Restore(p)
    <3>1. Conservation'
      BY <2>7 DEF Restore, Return, Conservation
    <3>2. IdleEmpty'
      BY <2>7 DEF Restore, Return, IdleEmpty
    <3>3. AwaitOwn'
      BY <2>7 DEF Restore, Return, AwaitOwn
    <3>4. OpenOwned'
      BY <2>7 DEF Restore, Return, OpenOwned
    <3>5. OkAcked'
      BY <2>7 DEF Restore, Return, OkAcked
    <3>6. AckedApplied'
      BY <2>7 DEF Restore, Return, AckedApplied
    <3>7. GoneLost'
      BY <2>7 DEF Restore, Return, GoneLost
    <3> QED BY <3>1, <3>2, <3>3, <3>4, <3>5, <3>6, <3>7
  <2>8. CASE RestoreFails(p)
    <3>1. Conservation'
      BY <2>8 DEF RestoreFails, Return, Conservation
    <3>2. IdleEmpty'
      BY <2>8 DEF RestoreFails, Return, IdleEmpty
    <3>3. AwaitOwn'
      BY <2>8 DEF RestoreFails, Return, AwaitOwn
    <3>4. OpenOwned'
      BY <2>8 DEF RestoreFails, Return, OpenOwned
    <3>5. OkAcked'
      BY <2>8 DEF RestoreFails, Return, OkAcked
    <3>6. AckedApplied'
      BY <2>8 DEF RestoreFails, Return, AckedApplied
    <3>7. GoneLost'
      BY <2>8 DEF RestoreFails, Return, GoneLost
    <3> QED BY <3>1, <3>2, <3>3, <3>4, <3>5, <3>6, <3>7
  <2>9. CASE OnRefresh(p)
    <3>1. UNCHANGED deltas
      BY <2>9 DEF OnRefresh, Return, IdleEmpty
    <3> QED
      BY <2>9, <3>1 DEF OnRefresh, Return, Conservation, IdleEmpty, AwaitOwn,
              OpenOwned, OkAcked, GoneLost, AckedApplied
  <2>10. CASE RefreshFails(p)
    <3>1. UNCHANGED deltas
      BY <2>10 DEF RefreshFails, Return, IdleEmpty
    <3> QED
      BY <2>10, <3>1 DEF RefreshFails, Return, Conservation, IdleEmpty, AwaitOwn,
              OpenOwned, OkAcked, GoneLost, AckedApplied
  <2> QED BY <1>3, <2>1, <2>2, <2>3, <2>4, <2>5, <2>6, <2>7, <2>8, <2>9, <2>10
          DEF ContinueFlush
<1>4. ASSUME NEW p \in Flushers, CancelContext(p) PROVE Rest'
  BY <1>4 DEF CancelContext, Conservation, IdleEmpty, AwaitOwn, OpenOwned,
              OkAcked, GoneLost, AckedApplied
<1>5. ASSUME NEW c \in Calls, Apply(c) PROVE Rest'
  BY <1>5 DEF Apply, Conservation, IdleEmpty, AwaitOwn, OpenOwned,
              OkAcked, GoneLost, AckedApplied
<1>6. CASE Crash
  <2> USE <1>6 DEF Crash
  <2>1. Conservation'
    BY DEF Conservation
  <2>2. IdleEmpty' /\ AwaitOwn' /\ OpenOwned'
    BY DEF IdleEmpty, AwaitOwn, OpenOwned
  <2>3. OkAcked' /\ AckedApplied'
    BY DEF OkAcked, AckedApplied
  \* An open call carries what its flusher has in hand, which is lost now.
  <2>4. ASSUME NEW c \in Calls, status[c] = "open"
        PROVE  \E p \in Flushers : /\ pc[p] = "await" /\ call[p] = c
                                   /\ payload[c] = deltas[p]
    BY <2>4 DEF OpenOwned, AwaitOwn
  <2>5. \A c \in Calls : status'[c] = "gone" <=> status[c] \in {"open", "gone"}
    BY DEF Statuses
  <2>6. GoneLost'
    <3>1. \A c \in Calls : status[c] = "open" =>
            payload[c] \subseteq InHand /\ payload[c] \cap lost = {}
      BY <2>4 DEF Conservation
    <3>2. \A c \in Calls : status'[c] = "gone" => payload'[c] \subseteq lost'
      BY <2>5, <3>1 DEF GoneLost
    <3>3. \A c, d \in Calls :
            c # d /\ status[c] = "open" /\ status[d] = "open"
              => payload[c] \cap payload[d] = {}
      BY <2>4 DEF Conservation
    <3>4. \A c, d \in Calls :
            c # d /\ status'[c] = "gone" /\ status'[d] = "gone"
              => payload'[c] \cap payload'[d] = {}
      BY <2>5, <3>1, <3>3 DEF GoneLost
    <3> QED BY <3>2, <3>4 DEF GoneLost
  <2> QED BY <2>1, <2>2, <2>3, <2>6
<1>7. CASE UNCHANGED vars
  BY <1>7 DEF vars, Conservation, IdleEmpty, AwaitOwn, OpenOwned,
              OkAcked, GoneLost, AckedApplied
<1> QED BY <1>1, <1>2, <1>3, <1>4, <1>5, <1>6, <1>7 DEF Next

-----------------------------------------------------------------------------
THEOREM Invariance == Spec => []IInv
<1>1. Init => IInv
  BY InitIInv
<1>2. IInv /\ [Next]_vars => IInv'
  BY TypeStep, RestStep DEF IInv, Rest
<1> QED BY <1>1, <1>2, PTL DEF Spec

\* Every variable keeps its type.
THEOREM TypeCorrect == Spec => []TypeOK
<1>1. IInv => TypeOK
  BY DEF IInv
<1> QED BY <1>1, Invariance, PTL

\* Flush neither loses nor duplicates usage, however many run side by side.
THEOREM UsageConserved == Spec => []Conservation
<1>1. IInv => Conservation
  BY DEF IInv
<1> QED BY <1>1, Invariance, PTL

\* What Flush drops as delivered has been applied by the server.
THEOREM NothingAckedInVain == Spec => []AckedApplied
<1>1. IInv => AckedApplied
  BY DEF IInv
<1> QED BY <1>1, Invariance, PTL

\* A unit is carried by two calls only after one of them has failed, and never
\* again once a crash cut off a call that carried it.
THEOREM RedeliveredOnlyAfterFailure == Spec => []SingleLiveDelivery
<1>1. IInv => SingleLiveDelivery
  <2> SUFFICES ASSUME IInv, NEW c \in MayCount, NEW d \in MayCount, c # d
               PROVE  payload[c] \cap payload[d] = {}
    BY DEF SingleLiveDelivery
  <2> USE DEF IInv, MayCount
  \* An open call carries the deltas of its flusher, a successful one what is
  \* delivered, and one cut off by a crash what is lost: Conservation keeps
  \* the three apart.
  <2>1. ASSUME NEW x \in Calls, status[x] = "open"
        PROVE  \E p \in Flushers : /\ pc[p] = "await" /\ call[p] = x
                                   /\ payload[x] = deltas[p]
    BY <2>1 DEF OpenOwned, AwaitOwn
  <2>2. ASSUME NEW x \in Calls, status[x] = "open"
        PROVE  payload[x] \cap (acked \cup lost) = {}
    BY <2>1, <2>2 DEF Conservation
  <2>3. ASSUME NEW x \in Calls
        PROVE  /\ status[x] = "ok" => payload[x] \subseteq acked
               /\ status[x] = "gone" => payload[x] \subseteq lost
    BY DEF OkAcked, GoneLost
  <2>4. acked \cap lost = {}
    BY DEF Conservation
  <2>5. CASE status[c] = "open" /\ status[d] = "open"
    BY <2>1, <2>5 DEF Conservation
  <2>6. CASE status[c] = status[d] /\ status[c] # "open"
    BY <2>6 DEF OkAcked, GoneLost
  <2>7. CASE status[c] # status[d]
    BY <2>2, <2>3, <2>4, <2>7
  <2> QED BY <2>5, <2>6, <2>7
<1> QED BY <1>1, Invariance, PTL

\* The pipeline implements the ledger of UsageLedger: a unit is recorded once,
\* and reported as delivered at most once.
THEOREM ImplementsLedger == Spec => LedgerSpec
<1>1. Init => Ledger!Init
  BY DEF Init, Ledger!Init, Delivered
<1>2. IInv /\ [Next]_vars => [Ledger!Next]_(Ledger!vars)
  <2> SUFFICES ASSUME IInv, [Next]_vars
               PROVE  Ledger!Next \/ UNCHANGED <<tracked, Delivered>>
    BY DEF Ledger!vars
  <2>1. ASSUME NEW D \in SUBSET Units, TrackDelta(D) PROVE Ledger!Next
    <3>1. UNCHANGED Delivered
      BY <2>1 DEF TrackDelta, callVars, Delivered
    <3>2. D \in (SUBSET Units) \ {{}} /\ Ledger!Record(D)
      BY <2>1, <3>1 DEF TrackDelta, Ledger!Record
    <3> QED BY <3>2 DEF Ledger!Next
  <2>2. ASSUME NEW p \in Flushers, SyncOK(p)
        PROVE  Ledger!Next \/ UNCHANGED <<tracked, Delivered>>
    <3> DEFINE c == call[p]
    <3>1. c \in Calls /\ payload[c] = deltas[p] /\ status[c] = "open"
      BY <2>2 DEF SyncOK, IInv, AwaitOwn
    <3>2. deltas[p] \in SUBSET Units /\ deltas[p] \subseteq tracked \ acked
      BY DEF IInv, TypeOK, Conservation, InHand
    <3>3. /\ status' = [status EXCEPT ![c] = "ok"]
          /\ UNCHANGED <<payload, tracked>>
      BY <2>2 DEF SyncOK
    <3> HIDE DEF c
    <3>4. Delivered' = [Delivered EXCEPT ![c] = deltas[p]]
      BY <3>1, <3>3 DEF Delivered, IInv, TypeOK
    <3>5. /\ \A d \in Calls : deltas[p] \cap Delivered[d] = {}
          /\ Delivered[c] = {}
      BY <3>1, <3>2 DEF Delivered, IInv, OkAcked
    <3>6. CASE deltas[p] = {}
      BY <3>3, <3>4, <3>5, <3>6 DEF Delivered
    <3>7. CASE deltas[p] # {}
      <4>1. deltas[p] \in (SUBSET Units) \ {{}} /\ Ledger!Deliver(deltas[p], c)
        BY <3>2, <3>3, <3>4, <3>5, <3>7 DEF Ledger!Deliver
      <4>2. Delivered' # Delivered
        BY <3>1, <3>4, <3>5, <3>7 DEF Delivered
      <4> QED BY <3>1, <4>1, <4>2 DEF Ledger!Next
    <3> QED BY <3>6, <3>7
  <2>3. ASSUME NEW p \in Flushers, StartSync(p)
        PROVE  UNCHANGED <<tracked, Delivered>>
    <3>1. PICK c \in Calls :
            /\ status[c] = "unused"
            /\ status' = [status EXCEPT ![c] = "open"]
            /\ payload' = [payload EXCEPT ![c] = deltas[p]]
      BY <2>3 DEF StartSync, Send
    <3>2. \A d \in Calls :
            /\ status'[d] = "ok" <=> status[d] = "ok"
            /\ status[d] = "ok" => payload'[d] = payload[d]
      BY <3>1 DEF IInv, TypeOK
    <3>3. UNCHANGED Delivered
      BY <3>2 DEF Delivered
    <3> QED BY <2>3, <3>3 DEF StartSync, Send, bufferVars
  <2>4. ASSUME NEW p \in Flushers, SyncFail(p)
        PROVE  UNCHANGED <<tracked, Delivered>>
    <3>1. /\ call[p] \in Calls /\ status[call[p]] = "open"
          /\ status' = [status EXCEPT ![call[p]] = "failed"]
          /\ UNCHANGED payload
      BY <2>4 DEF SyncFail, IInv, AwaitOwn
    <3>2. \A d \in Calls : status'[d] = "ok" <=> status[d] = "ok"
      BY <3>1 DEF IInv, TypeOK
    <3>3. UNCHANGED Delivered
      BY <3>1, <3>2 DEF Delivered
    <3> QED BY <2>4, <3>3 DEF SyncFail, bufferVars
  <2>5. ASSUME UNCHANGED <<tracked, callVars>>
        PROVE  UNCHANGED <<tracked, Delivered>>
    BY <2>5 DEF callVars, Delivered
  <2>6. ASSUME NEW p \in Flushers,
               \/ BeginFlush(p) \/ CancelContext(p)
               \/ ContinueFlush(p) /\ ~StartSync(p) /\ ~SyncOK(p) /\ ~SyncFail(p)
        PROVE  UNCHANGED <<tracked, callVars>>
    BY <2>6 DEF BeginFlush, ContinueFlush, Drain, DrainFails, ReadSerial,
                SerialFails, SyncRefused, Restore, RestoreFails, OnRefresh,
                RefreshFails, CancelContext, bufferVars
  <2>7. ASSUME NEW c \in Calls, Apply(c) PROVE UNCHANGED <<tracked, callVars>>
    BY <2>7 DEF Apply, bufferVars
  <2>8. CASE UNCHANGED vars
    BY <2>5, <2>8 DEF vars, bufferVars
  <2>9. CASE Crash
    <3>1. \A c \in Calls : status'[c] = "ok" <=> status[c] = "ok"
      BY <2>9 DEF Crash
    <3> QED BY <2>9, <3>1 DEF Crash, Delivered
  <2> QED BY <2>1, <2>2, <2>3, <2>4, <2>5, <2>6, <2>7, <2>8, <2>9 DEF Next
<1> QED BY <1>1, <1>2, Invariance, PTL DEF Spec, LedgerSpec, Ledger!Spec
=============================================================================

--------------------------- MODULE Session_proofs ---------------------------
(***************************************************************************)
(* Proofs about Session, for any number of customers, tokens, plans,       *)
(* refreshers and faults.                                                  *)
(***************************************************************************)
EXTENDS Session, TLAPS

-----------------------------------------------------------------------------
(* The token in the keychain and on the Client *)

TokenTypes ==
  /\ {keychain, token, fresh} \subseteq issued \cup {NoToken}
  /\ issued \subseteq Tokens /\ cleared \subseteq issued

\* No token of before the last Clear is in anybody's hand.
NothingCleared == cleared \cap {keychain, token, fresh} = {}

\* What the keychain holds at rest and in the middle of Persist and Clear.
KeychainOwed ==
  /\ app \in {"boot", "idle"} => keychain \in owed
  /\ app = "boot" => token = NoToken /\ fresh = NoToken
  /\ app = "persisting" => keychain = fresh
  /\ app = "clearing" => keychain = NoToken
  /\ app \in {"boot", "idle", "persisting", "clearing"}

TokenInv == TokenTypes /\ NothingCleared /\ KeychainOwed

LEMMA TokenInit == Init => TokenInv
  BY SessionAssumption
  DEF Init, TokenInv, TokenTypes, NothingCleared, KeychainOwed

LEMMA TokenStep == TokenInv /\ [Next]_vars => TokenInv'
<1> SUFFICES ASSUME TokenInv, [Next]_vars PROVE TokenInv'
  OBVIOUS
<1> USE SessionAssumption DEF TokenInv, TokenTypes, NothingCleared, KeychainOwed
<1>1. CASE Hydrate \/ HydrateFails
  BY <1>1 DEF Hydrate, HydrateFails, serverVars, Fault
<1>2. CASE SignIn \/ SignInFails
  BY <1>2 DEF SignIn, SignInFails, appVars
<1>3. CASE PersistSet \/ PersistApply
  BY <1>3 DEF PersistSet, PersistApply, serverVars
<1>4. CASE PersistFails
  BY <1>4 DEF PersistFails, serverVars
<1>5. CASE ClearDelete \/ ClearApply
  BY <1>5 DEF ClearDelete, ClearApply, serverVars
<1>6. CASE ClearFails
  BY <1>6 DEF ClearFails, serverVars
<1>7. CASE Crash
  BY <1>7 DEF Crash, serverVars
<1>8. CASE UNCHANGED <<appVars, issued>>
  BY <1>8 DEF appVars
<1>9. ASSUME NEW r \in Refreshers, Take(r) \/ RefreshStep(r)
      PROVE  UNCHANGED <<appVars, issued>>
  BY <1>9 DEF Take, RefreshStep, Begin, Me, MeFails, GetFeatures, FeaturesFail,
              Check, CheckFails, serverVars
<1>10. CASE RevokeToken \/ ChangePlan
  BY <1>8, <1>10 DEF RevokeToken, ChangePlan
<1>11. CASE UNCHANGED vars
  BY <1>8, <1>11 DEF vars, serverVars
<1> QED
  BY <1>1, <1>2, <1>3, <1>4, <1>5, <1>6, <1>7, <1>8, <1>9, <1>10, <1>11
     DEF Next, AppStep

\* Once Clear has returned nil, no token of before comes back, whatever fails
\* and however often the process starts again.
THEOREM LogoutIsFinal == Spec => []LogoutSticks
<1>1. TokenInv => LogoutSticks
  BY DEF TokenInv, NothingCleared, LogoutSticks
<1> QED
  BY <1>1, TokenInit, TokenStep, PTL DEF Spec

\* Hydrate resumes what the calls that returned leave in the keychain.
THEOREM HydrateResumes == Spec => RestartResumes
<1>1. TokenInv /\ [Next]_vars => [Hydrate => token' \in owed]_vars
  BY DEF TokenInv, KeychainOwed, Hydrate
<1> QED
  BY <1>1, TokenInit, TokenStep, PTL DEF Spec, RestartResumes

-----------------------------------------------------------------------------
(* What is signed and what is sent *)

\* A sequence of one segment.
LEMMA Singleton ==
  ASSUME NEW s
  PROVE  /\ DOMAIN <<s>> = {1} /\ <<s>>[1] = s /\ Len(<<s>>) = 1
         /\ <<s>> = [k \in {1} |-> s]
<1>1. DOMAIN <<s>> = {1} /\ <<s>>[1] = s
  OBVIOUS
<1>2. Len(<<s>>) = 1
  OBVIOUS
<1>3. <<s>> = [k \in {1} |-> s]
  OBVIOUS
<1> QED BY <1>1, <1>2, <1>3

\* The calls without arguments are sent as they are signed.
LEMMA PlainCallAccepted ==
  ASSUME names \in Values, NEW name \in {"Me", "Check"}
  PROVE  <<name, names>> \in Accepted
<1> DEFINE call == Signed(name)
           path == Path(call, names)
<1>1. call \in SignedCalls
  BY DEF SignedCalls, AllCalls, CustomerCalls, LicenseCalls, Signed, Call
<1>2. /\ call.name = name /\ call.query = "" /\ call.via = "Do"
      /\ DOMAIN call.args = {}
  BY DEF Signed, Call
<1> HIDE DEF call
<1>3. path = [route |-> <<name>>, args |-> [i \in {} |-> 0], query |-> ""]
  BY <1>2 DEF Path
<1>4. JoinPath(path) = path
  <2> HIDE DEF path
  <2>1. /\ path.query = "" /\ path.route = <<name>> /\ DOMAIN path.args = {}
        /\ path.args = [i \in {} |-> 0]
    BY <1>3
  <2>2. ASSUME NEW f, f = [i \in DOMAIN path.args |-> f[i]] PROVE f = path.args
    BY <2>1, <2>2
  <2>3. JoinPath(path) = [route |-> path.route, args |-> path.args, query |-> ""]
    BY <2>1, <2>2 DEF JoinPath
  <2> QED BY <1>3, <2>1, <2>3
<1>5. Verified(call, names) /\ Routed(call, names)
  BY <1>2, <1>4 DEF Verified, Routed, Canonical, Sent
<1> QED
  BY <1>1, <1>2, <1>5 DEF Accepted

\* JoinPath leaves an argument alone that is escaped, or needs no escape.
LEMMA FeaturesAccepted ==
  ASSUME names \in Values \ Cleaned
  PROVE  <<"Features", names>> \in Accepted
<1> DEFINE call == Call("Features", "Do", <<"product">>, "escaped", "")
           path == Path(call, names)
           segment == Segment("product", IF names = "plain" THEN "plain" ELSE "escaped")
<1>1. call \in SignedCalls
  BY DEF SignedCalls, AllCalls, CustomerCalls, Call
<1>2. /\ call.name = "Features" /\ call.query = "" /\ call.via = "Do"
      /\ call.how = "escaped" /\ call.args = <<"product">>
  BY DEF Call
<1>3. PathEscape("product", names) = <<segment>>
  BY DEF PathEscape, Values, Cleaned
<1>4. ASSUME NEW isLast \in BOOLEAN PROVE Joined(segment, isLast) = segment
  BY DEF Joined, Segment
<1>5. segment.form \notin {"empty", "removed"}
  BY DEF Segment
<1> HIDE DEF call, segment
<1>6. DOMAIN call.args = {1} /\ call.args[1] = "product"
  BY <1>2, Singleton
<1>7. path = [route |-> <<"Features">>, args |-> [i \in {1} |-> <<segment>>],
              query |-> ""]
  BY <1>2, <1>3, <1>6 DEF Path
<1>8. <<segment>> = [k \in {1} |-> segment] /\ DOMAIN <<segment>> = {1}
      /\ <<segment>>[1] = segment /\ Len(<<segment>>) = 1
  BY Singleton
<1> HIDE DEF path
<1>9. JoinPath(path) = path
  <2> DEFINE isLast(i) ==
               i = Len(path.args) /\ path.route[1] \in EndsInArgument
             joined(i) == [k \in DOMAIN path.args[i] |->
                             Joined(path.args[i][k], isLast(i))]
  <2>1. /\ path.route = <<"Features">> /\ path.query = "" /\ DOMAIN path.args = {1}
        /\ path.args = [i \in {1} |-> <<segment>>] /\ path.args[1] = <<segment>>
    BY <1>7
  <2>2. isLast(1) \in BOOLEAN
    OBVIOUS
  <2> HIDE DEF isLast
  <2>3. joined(1) = [k \in {1} |-> segment]
    BY <1>4, <1>8, <2>1, <2>2
  <2>4. [i \in DOMAIN path.args |-> joined(i)] = path.args
    <3>1. joined(1) = <<segment>>
      BY <1>8, <2>3
    <3> HIDE DEF joined
    <3> QED BY <2>1, <3>1
  <2>5. JoinPath(path) = [route |-> path.route,
                          args |-> [i \in DOMAIN path.args |-> joined(i)],
                          query |-> ""]
    BY <2>1 DEF JoinPath, isLast
  <2> HIDE DEF joined
  <2> QED BY <1>7, <2>1, <2>4, <2>5
<1>10. Sent(call, names) = path
  BY <1>2, <1>9 DEF Sent, path
<1>11. Verified(call, names)
  BY <1>10 DEF Verified, Canonical, path
<1>12. Routed(call, names)
  <2>0. ASSUME NEW p, p = [route |-> <<"Features">>, args |-> [i \in {1} |-> <<segment>>],
                           query |-> ""]
        PROVE  p.args[1] = <<segment>>
    BY ONLY <2>0
  <2>1. Sent(call, names).args[1] = <<segment>>
    BY <1>7, <1>10, <2>0
  <2> QED BY <1>5, <1>6, <1>8, <2>1 DEF Routed
<1> QED
  BY <1>1, <1>2, <1>11, <1>12 DEF Accepted, Cleaned

-----------------------------------------------------------------------------
(* What a refresh that is under way has in hand *)

RefreshTypes ==
  /\ names \in Values
  /\ pc \in [Refreshers -> {"idle", "me", "features", "check", "done"}]
  /\ DOMAIN clone = Refreshers /\ DOMAIN snap = Refreshers
  /\ DOMAIN err = Refreshers /\ DOMAIN failed = Refreshers
  /\ DOMAIN since = Refreshers
  /\ server = [valid |-> server.valid, plan |-> server.plan]
  /\ server.plan \in [Customers -> Plans]

\* One token for all three requests, and what is so of it now.
Bound(r) ==
  Refreshing(r) => /\ clone[r] \in Tokens /\ Bearer(r) = clone[r]
                   /\ About(clone[r], server) \in since[r]
                   /\ app # "boot" /\ (cloned \/ app = "idle")

WasValid(r) == \E w \in since[r] : w.valid
WasInvalid(r) == \E w \in since[r] : ~w.valid

\* The customer is known once Me has answered.
Known(r) ==
  pc[r] \in {"features", "check"} =>
    WasValid(r) /\ snap[r] = Snapshot(TRUE, FALSE, OwnerOf[clone[r]], {})

\* Check is asked when the features did not answer or are none.
Asked(r) ==
  pc[r] = "check" => \/ failed[r] \/ WasInvalid(r) \/ names \in Cleaned
                     \/ \E w \in since[r] : w.plan.features = {}

\* SnapshotHonest for one refresher.
Honest(r) ==
  pc[r] = "done" /\ ~err[r] =>
    IF snap[r].authenticated THEN
      /\ WasValid(r) /\ snap[r].customer = OwnerOf[clone[r]]
      /\ snap[r].features # {} =>
           \E w \in since[r] : w.plan.features = snap[r].features
      /\ snap[r].licensed =>
           \E w \in since[r] : w.plan.allowed \/ w.plan.features # {}
      /\ ~snap[r].licensed => \/ failed[r] \/ WasInvalid(r) \/ names \in Cleaned
                              \/ /\ \E w \in since[r] : w.plan.features = {}
                                 /\ \E w \in since[r] : ~w.plan.allowed
    ELSE clone[r] = NoToken \/ WasInvalid(r) \/ failed[r]

RefreshInv ==
  /\ TokenInv /\ RefreshTypes
  /\ \A r \in Refreshers : Bound(r) /\ Known(r) /\ Asked(r) /\ Honest(r)

LEMMA RefreshInit == Init => RefreshInv
  BY TokenInit, SessionAssumption
  DEF Init, RefreshInv, RefreshTypes, Bound, Known, Asked, Honest, Refreshing

\* The entry of a refresher that does nothing.
Idle(r) == /\ pc'[r] = pc[r] /\ clone'[r] = clone[r] /\ snap'[r] = snap[r]
           /\ (err'[r] <=> err[r]) /\ (failed'[r] <=> failed[r])

\* A refresher that does nothing keeps what it has in hand, whatever happens to
\* the token and the server around it.
LEMMA Unmoved ==
  ASSUME RefreshInv, NEW r \in Refreshers, Idle(r),
         since[r] \subseteq since'[r], cloned' = cloned, names' = names,
         Refreshing(r) => /\ About(clone[r], server)' \in since'[r]
                          /\ cloned \/ (token' = token /\ app' = app)
                          /\ app' # "boot"
  PROVE  (Bound(r) /\ Known(r) /\ Asked(r) /\ Honest(r))'
<1>1. Bound(r)'
  BY DEF RefreshInv, Bound, Idle, Refreshing, Bearer, About
<1>2. Known(r)'
  BY DEF RefreshInv, Known, Idle, WasValid, Snapshot
<1>3. Asked(r)'
  BY DEF RefreshInv, Asked, Idle, WasInvalid
<1>4. Honest(r)'
  BY DEF RefreshInv, Honest, Idle, WasInvalid, WasValid
<1> QED BY <1>1, <1>2, <1>3, <1>4

\* A request that its refresher's token does not answer met a fault, or the
\* token was not valid, unless JoinPath cleans the product's slug away.
LEMMA Refused ==
  ASSUME RefreshInv, NEW r \in Refreshers, Refreshing(r),
         NEW name \in {"Me", "Features", "Check"}, Unanswered(r, name)
  PROVE  WasInvalid(r) \/ failed'[r] \/ (name = "Features" /\ names \in Cleaned)
<1>1. CASE ~Answered(r, name) /\ (name = "Features" => names \notin Cleaned)
  <2>0. <<name, names>> \in Accepted
    BY <1>1, PlainCallAccepted, FeaturesAccepted DEF RefreshInv, RefreshTypes
  <2>1. Bearer(r) = clone[r] /\ About(clone[r], server) \in since[r]
    BY DEF RefreshInv, Bound
  <2>2. clone[r] \notin server.valid
    BY <1>1, <2>0, <2>1 DEF Answered
  <2>3. ~About(clone[r], server).valid
    BY <2>2 DEF About
  <2> QED BY <2>1, <2>3 DEF WasInvalid
<1>2. CASE failed' = [failed EXCEPT ![r] = TRUE]
  BY <1>2 DEF RefreshInv, RefreshTypes
<1> QED BY <1>1, <1>2 DEF Unanswered

\* A request that is answered is answered by what the server says now.
LEMMA AnsweredNow ==
  ASSUME RefreshInv, NEW r \in Refreshers, Refreshing(r),
         NEW name, Answered(r, name)
  PROVE  \E w \in since[r] : w.valid /\ w.plan = PlanOf(r)
<1>1. Bearer(r) = clone[r] /\ About(clone[r], server) \in since[r]
  BY DEF RefreshInv, Bound
<1>2. About(clone[r], server).valid /\ About(clone[r], server).plan = PlanOf(r)
  BY <1>1 DEF About, Answered, PlanOf
<1> QED BY <1>1, <1>2

\* What a refresher's own steps make of what it has in hand.
LEMMA OwnStep ==
  ASSUME RefreshInv, NEW r \in Refreshers, RefreshStep(r)
  PROVE  (Bound(r) /\ Known(r) /\ Asked(r) /\ Honest(r))'
<1> USE DEF RefreshTypes, Refreshing
<1>0. /\ UNCHANGED <<cloned, names, token, app, server>>
      /\ RefreshTypes /\ Bound(r) /\ Known(r) /\ Asked(r)
  BY DEF RefreshInv, RefreshStep, Begin, Me, MeFails, GetFeatures, FeaturesFail,
         Check, CheckFails, modeVars, appVars, serverVars
<1>1. CASE Begin(r)
  <2>1. token \in Tokens \cup {NoToken}
    BY DEF RefreshInv, TokenInv, TokenTypes
  <2>2. Bound(r)'
    BY <1>0, <1>1, <2>1 DEF Begin, Bound, Bearer, About, Return, Goto
  <2>3. Known(r)' /\ Asked(r)'
    BY <1>0, <1>1 DEF Begin, Known, Asked, Return, Goto
  <2>4. Honest(r)'
    BY <1>0, <1>1 DEF Begin, Honest, Return, Goto, GuestSnapshot, Snapshot
  <2> QED BY <2>2, <2>3, <2>4
<1>2. ASSUME ~Begin(r)
      PROVE  Bound(r)' /\ since'[r] = since[r] /\ clone'[r] = clone[r]
  BY <1>0, <1>2
  DEF RefreshStep, Me, MeFails, GetFeatures, FeaturesFail, Check, CheckFails,
      Bound, Bearer, About, Return, Goto
<1>3. CASE Me(r)
  <2>1. Bearer(r) = clone[r] /\ \E w \in since[r] : w.valid
    BY <1>0, <1>3, AnsweredNow DEF Me, Bound
  <2> QED
    BY <1>0, <1>2, <1>3, <2>1
    DEF Me, Begin, Known, Asked, Honest, WasValid, Goto
<1>4. CASE MeFails(r)
  <2>1. WasInvalid(r) \/ failed'[r]
    BY <1>4, Refused DEF MeFails
  <2>2. pc'[r] = "done" /\ snap'[r] = GuestSnapshot
    BY <1>0, <1>4 DEF MeFails, Return, Goto
  <2> QED
    BY <1>2, <1>4, <2>1, <2>2
    DEF MeFails, Begin, Known, Asked, Honest, WasInvalid, GuestSnapshot,
        Snapshot
<1>5. CASE GetFeatures(r)
  <2>1. \E w \in since[r] : w.valid /\ w.plan = PlanOf(r)
    BY <1>5, AnsweredNow DEF GetFeatures
  <2>2. CASE PlanOf(r).features = {}
    <3>1. pc'[r] = "check" /\ snap'[r] = snap[r] /\ pc[r] = "features"
      BY <1>0, <1>5, <2>2 DEF GetFeatures, Goto
    <3> QED
      BY <1>0, <1>2, <1>5, <2>1, <2>2, <3>1
      DEF Begin, Known, Asked, Honest, WasValid
  <2>3. CASE PlanOf(r).features # {}
    <3>1. /\ pc'[r] = "done" /\ pc[r] = "features"
          /\ snap'[r] = [snap[r] EXCEPT !.licensed = TRUE,
                                       !.features = PlanOf(r).features]
      BY <1>0, <1>5, <2>3 DEF GetFeatures, Return, Goto
    <3>2. snap[r] = [authenticated |-> TRUE, licensed |-> FALSE,
                     customer |-> OwnerOf[clone[r]], features |-> {}]
      BY <1>0, <3>1 DEF Known, Snapshot
    <3>3. /\ snap'[r].authenticated /\ snap'[r].licensed
          /\ snap'[r].customer = OwnerOf[clone[r]]
          /\ snap'[r].features = PlanOf(r).features
      BY ONLY <3>1, <3>2
    <3> QED
      BY <1>2, <1>5, <2>1, <2>3, <3>1, <3>3
      DEF GetFeatures, Begin, Known, Asked, Honest, WasValid
  <2> QED BY <2>2, <2>3
<1>6. CASE FeaturesFail(r)
  <2>1. WasInvalid(r) \/ failed'[r] \/ names \in Cleaned
    BY <1>6, Refused DEF FeaturesFail
  <2> QED
    BY <1>0, <1>2, <1>6, <2>1
    DEF FeaturesFail, Begin, Known, Asked, Honest, WasValid, WasInvalid, Goto
<1>7. ASSUME Check(r) \/ CheckFails(r)
      PROVE  /\ pc[r] = "check" /\ pc'[r] = "done" /\ ~Begin(r)
             /\ snap'[r].authenticated /\ snap'[r].customer = OwnerOf[clone[r]]
             /\ snap'[r].features = {} /\ WasValid(r)
             /\ failed[r] => failed'[r]
  BY <1>0, <1>7
  DEF Check, CheckFails, Begin, Known, Return, Goto, Snapshot, Unanswered
<1>8. CASE Check(r)
  <2>1. \E w \in since[r] : w.plan = PlanOf(r)
    BY <1>8, AnsweredNow DEF Check
  <2>2. snap'[r].licensed = PlanOf(r).allowed
    BY <1>0, <1>8 DEF Check, Return, Goto, Known, Snapshot
  <2> QED
    BY <1>0, <1>2, <1>7, <1>8, <2>1, <2>2
    DEF Known, Asked, Honest, WasValid, WasInvalid
<1>9. CASE CheckFails(r)
  <2>1. WasInvalid(r) \/ failed'[r]
    BY <1>9, Refused DEF CheckFails
  <2>2. ~snap'[r].licensed
    BY <1>0, <1>9 DEF CheckFails, Return, Goto, Known, Snapshot
  <2> QED
    BY <1>2, <1>7, <1>9, <2>1, <2>2
    DEF Known, Asked, Honest, WasValid, WasInvalid
<1> QED
  BY <1>1, <1>3, <1>4, <1>5, <1>6, <1>8, <1>9 DEF RefreshStep

\* What every step leaves of the types of what refreshes have in hand.
LEMMA RefreshTypesStep == RefreshInv /\ [Next]_vars => RefreshTypes'
<1> SUFFICES ASSUME RefreshInv, [Next]_vars PROVE RefreshTypes'
  OBVIOUS
<1>0. RefreshTypes
  BY DEF RefreshInv
<1> USE <1>0 DEF RefreshTypes
<1>1. ASSUME \/ Hydrate \/ HydrateFails
             \/ PersistSet \/ PersistApply \/ PersistFails
             \/ ClearDelete \/ ClearApply \/ ClearFails \/ UNCHANGED vars
      PROVE  RefreshTypes'
  BY <1>1
  DEF Hydrate, HydrateFails, PersistSet, PersistApply, PersistFails, ClearDelete,
      ClearApply, ClearFails, vars, modeVars, refreshVars, serverVars
<1>2. ASSUME SignIn \/ SignInFails \/ RevokeToken
      PROVE  RefreshTypes'
  BY <1>2
  DEF SignIn, SignInFails, RevokeToken, ServerBecomes, modeVars
<1>3. CASE ChangePlan
  BY <1>3 DEF ChangePlan, ServerBecomes, modeVars
<1>4. ASSUME NEW r \in Refreshers, RefreshStep(r)
      PROVE  RefreshTypes'
  <2>1. CASE Begin(r)
    BY <2>1 DEF Begin, Return, Goto, modeVars, serverVars
  <2>2. CASE Me(r) \/ MeFails(r)
    BY <2>2 DEF Me, MeFails, Unanswered, Return, Goto, modeVars, serverVars
  <2>3. CASE GetFeatures(r) \/ FeaturesFail(r)
    BY <2>3 DEF GetFeatures, FeaturesFail, Unanswered, Return, Goto, modeVars,
               serverVars
  <2>4. CASE Check(r) \/ CheckFails(r)
    BY <2>4 DEF Check, CheckFails, Unanswered, Return, Goto, modeVars,
               serverVars
  <2> QED BY <1>4, <2>1, <2>2, <2>3, <2>4 DEF RefreshStep
<1>5. ASSUME Crash \/ \E r \in Refreshers : Take(r)
      PROVE  RefreshTypes'
  BY <1>5 DEF Crash, Take, Forget, modeVars, serverVars
<1> QED
  BY <1>1, <1>2, <1>3, <1>4, <1>5 DEF Next, AppStep

LEMMA RefreshStepInv == RefreshInv /\ [Next]_vars => RefreshInv'
<1> SUFFICES ASSUME RefreshInv, [Next]_vars PROVE RefreshInv'
  OBVIOUS
<1> USE DEF Refreshing
<1>1. TokenInv' /\ RefreshTypes'
  BY TokenStep, RefreshTypesStep DEF RefreshInv
<1> DEFINE Hold(r) == (Bound(r) /\ Known(r) /\ Asked(r) /\ Honest(r))'
<1> SUFFICES ASSUME NEW r \in Refreshers PROVE Hold(r)
  BY <1>1 DEF RefreshInv
<1>2. /\ RefreshTypes /\ Bound(r)
      /\ app \in {"boot", "idle", "persisting", "clearing"}
  BY DEF RefreshInv, TokenInv, KeychainOwed
<1>3. ASSUME UNCHANGED <<modeVars, refreshVars, server>>,
             Refreshing(r) => /\ cloned \/ (token' = token /\ app' = app)
                              /\ app' # "boot"
      PROVE  Hold(r)
  <2>1. Idle(r) /\ since' = since /\ cloned' = cloned /\ names' = names
    BY <1>3 DEF Idle, modeVars, refreshVars
  <2>2. Refreshing(r) => About(clone[r], server)' \in since'[r]
    BY <1>2, <1>3, <2>1 DEF Bound, About, refreshVars
  <2> HIDE DEF Refreshing
  <2> QED BY <1>3, <2>1, <2>2, Unmoved
<1>4. ASSUME UNCHANGED <<modeVars, pc, clone, snap, err, failed, app>>,
             NEW s, ServerBecomes(s), cloned \/ token' = token \/ ~Refreshing(r)
      PROVE  Hold(r)
  <2>1. Idle(r) /\ cloned' = cloned /\ names' = names
    BY <1>4 DEF Idle, modeVars
  <2>2. since[r] \subseteq since'[r]
    BY <1>2, <1>4 DEF ServerBecomes, RefreshTypes
  <2>3. Refreshing(r) => About(clone[r], server)' \in since'[r]
    BY <1>2, <1>4 DEF ServerBecomes, RefreshTypes, About
  <2>4. Refreshing(r) => app' # "boot"
    BY <1>2, <1>4 DEF Bound
  <2> HIDE DEF Refreshing
  <2> QED BY <1>4, <2>1, <2>2, <2>3, <2>4, Unmoved
<1>5. ASSUME pc'[r] = "idle" PROVE Hold(r)
  BY <1>5 DEF Bound, Known, Asked, Honest
<1>6. CASE Hydrate \/ HydrateFails \/ PersistSet \/ PersistApply \/ PersistFails
             \/ ClearDelete \/ ClearApply \/ ClearFails
  <2>1. UNCHANGED <<modeVars, refreshVars, server>>
    BY <1>6
    DEF Hydrate, HydrateFails, PersistSet, PersistApply, PersistFails, ClearDelete,
        ClearApply, ClearFails, serverVars
  <2>2. Refreshing(r) => /\ cloned \/ (token' = token /\ app' = app)
                         /\ app' # "boot"
    BY <1>2, <1>6
    DEF Hydrate, HydrateFails, PersistSet, PersistApply, PersistFails, ClearDelete,
        ClearApply, ClearFails, MayChangeToken, Bound
  <2> QED BY <1>3, <2>1, <2>2
<1>7. CASE SignIn
  <2>1. PICK t : ServerBecomes([server EXCEPT !.valid = @ \cup {t}])
    BY <1>7 DEF SignIn
  <2>2. /\ UNCHANGED <<modeVars, pc, clone, snap, err, failed, app>>
        /\ cloned \/ ~Refreshing(r)
    BY <1>7 DEF SignIn, MayChangeToken
  <2> QED BY <1>4, <2>1, <2>2
<1>8. CASE SignInFails \/ RevokeToken \/ ChangePlan
  <2>1. \E s : ServerBecomes(s)
    BY <1>8 DEF SignInFails, RevokeToken, ChangePlan
  <2>2. UNCHANGED <<modeVars, pc, clone, snap, err, failed, app, token>>
    BY <1>8 DEF SignInFails, RevokeToken, ChangePlan, appVars
  <2> QED BY <1>4, <2>1, <2>2
<1>9. CASE Crash
  BY <1>5, <1>9 DEF Crash, Forget
<1>10. ASSUME NEW x \in Refreshers, Take(x) PROVE Hold(r)
  <2>1. CASE x = r
    BY <1>5, <1>10, <2>1 DEF Take, Forget
  <2>2. CASE x # r
    <3>1. Idle(r) /\ since'[r] = since[r]
      BY <1>2, <1>10, <2>2 DEF Take, Forget, Idle, RefreshTypes
    <3>2. UNCHANGED <<modeVars, appVars, server>>
      BY <1>10 DEF Take, serverVars
    <3>3. Refreshing(r) => /\ About(clone[r], server)' \in since'[r]
                           /\ token' = token /\ app' = app /\ app' # "boot"
      BY <1>2, <3>1, <3>2 DEF Bound, About, Idle, appVars
    <3> HIDE DEF Refreshing
    <3> QED BY <3>1, <3>2, <3>3, Unmoved DEF modeVars
  <2> QED BY <2>1, <2>2
<1>11. ASSUME NEW x \in Refreshers, RefreshStep(x) PROVE Hold(r)
  <2>1. CASE x = r
    BY <1>11, <2>1, OwnStep
  <2>2. CASE x # r
    <3>1. Idle(r) /\ since'[r] = since[r]
      <4> USE <1>2, <2>2 DEF Idle, RefreshTypes, Return, Goto
      <4>1. CASE Begin(x)
        BY <4>1 DEF Begin
      <4>2. CASE Me(x) \/ MeFails(x)
        BY <4>2 DEF Me, MeFails, Unanswered
      <4>3. CASE GetFeatures(x) \/ FeaturesFail(x)
        BY <4>3 DEF GetFeatures, FeaturesFail, Unanswered
      <4>4. CASE Check(x) \/ CheckFails(x)
        BY <4>4 DEF Check, CheckFails, Unanswered
      <4> QED BY <1>11, <4>1, <4>2, <4>3, <4>4 DEF RefreshStep
    <3>2. UNCHANGED <<modeVars, appVars, server>>
      BY <1>11
      DEF RefreshStep, Begin, Me, MeFails, GetFeatures, FeaturesFail, Check,
          CheckFails, serverVars
    <3>3. Refreshing(r) => /\ About(clone[r], server)' \in since'[r]
                           /\ token' = token /\ app' = app /\ app' # "boot"
      BY <1>2, <3>1, <3>2 DEF Bound, About, Idle, appVars
    <3> HIDE DEF Refreshing
    <3> QED BY <3>1, <3>2, <3>3, Unmoved DEF modeVars
  <2> QED BY <2>1, <2>2
<1>12. CASE UNCHANGED vars
  <2>1. UNCHANGED <<modeVars, refreshVars, server, token, app>>
    BY <1>12 DEF vars, appVars, serverVars
  <2> QED BY <1>2, <1>3, <2>1 DEF Bound
<1> QED
  BY <1>6, <1>7, <1>8, <1>9, <1>10, <1>11, <1>12 DEF Next, AppStep

\* Whatever the server and the application do meanwhile, a snapshot is about
\* the customer who was signed in, and says what was so during the call.
THEOREM RefreshIsHonest == Spec => []SnapshotHonest
<1>1. RefreshInv => SnapshotHonest
  BY DEF RefreshInv, SnapshotHonest, Honest, WasValid, WasInvalid, Cleaned
<1> QED
  BY <1>1, RefreshInit, RefreshStepInv, PTL DEF Spec

-----------------------------------------------------------------------------
(* Types *)

\* What a refresher builds.
Snapshots ==
  [authenticated : BOOLEAN, licensed : BOOLEAN,
   customer : Customers \cup {Nobody}, features : SUBSET Keys]
Fits(s) == /\ s \in Snapshots
           /\ s.authenticated => s.customer \in Customers
           /\ s.features # {} => s.licensed

LEMMA FitsSnapshots ==
  SessionTypeOK => \A r \in Refreshers : Fits(snap[r])
  BY DEF SessionTypeOK, Fits, Snapshots

LEMMA GuestFits == Fits(GuestSnapshot)
  BY DEF Fits, Snapshots, GuestSnapshot, Snapshot

LEMMA TypesInit == Init => SessionTypeOK
<1> SUFFICES ASSUME Init PROVE SessionTypeOK
  OBVIOUS
<1>1. /\ snap \in [Refreshers -> Snapshots]
      /\ \A r \in Refreshers : Fits(snap[r])
  BY GuestFits DEF Init, Fits
<1>2. server \in ServerStates /\ server.valid = {}
  BY DEF Init, ServerStates
<1> QED
  BY <1>1, <1>2, SessionAssumption DEF Init, SessionTypeOK, Fits, Snapshots

\* A state of the server says something about every token.
LEMMA AboutType ==
  ASSUME NEW s \in ServerStates, NEW t \in Tokens
  PROVE  About(t, s) \in [valid : BOOLEAN, plan : Plans]
  BY SessionAssumption DEF About, ServerStates

LEMMA ServerTypes ==
  ASSUME SessionTypeOK, RefreshInv, NEW s \in ServerStates, ServerBecomes(s)
  PROVE  since' \in [Refreshers -> SUBSET [valid : BOOLEAN, plan : Plans]]
<1>1. ASSUME NEW r \in Refreshers, Refreshing(r)
      PROVE  About(clone[r], s) \in [valid : BOOLEAN, plan : Plans]
  BY <1>1, AboutType DEF RefreshInv, Bound
<1> QED
  BY <1>1 DEF ServerBecomes, SessionTypeOK

\* A refresher's snapshot is replaced by one that fits.
LEMMA SnapTypes ==
  ASSUME SessionTypeOK, NEW r \in Refreshers, NEW s, Fits(s),
         snap' = [snap EXCEPT ![r] = s]
  PROVE  /\ snap' \in [Refreshers -> Snapshots]
         /\ \A x \in Refreshers : Fits(snap'[x])
  BY FitsSnapshots DEF SessionTypeOK, Fits, Snapshots

\* The plan of a refresher's customer is one.
LEMMA PlanType ==
  ASSUME SessionTypeOK, RefreshInv, NEW r \in Refreshers, Refreshing(r)
  PROVE  /\ PlanOf(r).features \in SUBSET Keys /\ PlanOf(r).allowed \in BOOLEAN
         /\ OwnerOf[Bearer(r)] \in Customers
<1>1. OwnerOf[Bearer(r)] \in Customers
  BY SessionAssumption DEF RefreshInv, Bound
<1>2. PlanOf(r) \in Plans
  BY <1>1 DEF SessionTypeOK, ServerStates, PlanOf
<1> QED BY <1>1, <1>2, SessionAssumption DEF Keys

\* What a refresher's steps make of the types.
LEMMA RefreshStepTypes ==
  ASSUME SessionTypeOK, RefreshInv, NEW r \in Refreshers, RefreshStep(r)
  PROVE  SessionTypeOK'
<1>1. SessionTypeOK /\ Fits(snap[r])
  BY FitsSnapshots
<1> DEFINE Phase == pc' \in [Refreshers -> {"idle", "me", "features", "check", "done"}]
           Snap == /\ snap' \in [Refreshers -> Snapshots]
                   /\ \A x \in Refreshers : Fits(snap'[x])
           Rest == /\ err' \in [Refreshers -> BOOLEAN]
                   /\ failed' \in [Refreshers -> BOOLEAN] /\ faults' \in 0..MaxFaults
           Own == /\ clone' \in [Refreshers -> Tokens \cup {NoToken}]
                  /\ since' \in [Refreshers -> SUBSET [valid : BOOLEAN, plan : Plans]]
<1>2. UNCHANGED <<modeVars, appVars, serverVars>>
  BY DEF RefreshStep, Begin, Me, MeFails, GetFeatures, FeaturesFail, Check, CheckFails
<1>3. Phase /\ Rest
  <2> USE <1>1, SessionAssumption DEF SessionTypeOK, Unanswered, Fault, Return, Goto
  <2>1. CASE Begin(r)
    BY <2>1 DEF Begin
  <2>2. CASE Me(r) \/ GetFeatures(r) \/ Check(r)
    BY <2>2 DEF Me, GetFeatures, Check
  <2>3. CASE MeFails(r) \/ FeaturesFail(r) \/ CheckFails(r)
    <3>1. PICK name : Unanswered(r, name)
      BY <2>3 DEF MeFails, FeaturesFail, CheckFails
    <3>2. failed' \in [Refreshers -> BOOLEAN] /\ faults' \in 0..MaxFaults
      <4>1. /\ failed \in [Refreshers -> BOOLEAN]
            /\ faults \in 0..MaxFaults /\ MaxFaults \in Nat
        OBVIOUS
      <4>2. \/ UNCHANGED <<faults, failed>>
            \/ /\ faults < MaxFaults /\ faults' = faults + 1
               /\ failed' = [failed EXCEPT ![r] = TRUE]
        BY <3>1
      <4>3. failed' \in [Refreshers -> BOOLEAN]
        BY ONLY <4>1, <4>2, Zenon
      <4>4. faults' \in 0..MaxFaults
        BY ONLY <4>1, <4>2
      <4> QED BY ONLY <4>3, <4>4
    <3>3. \E phase \in {"check", "done"} : pc' = [pc EXCEPT ![r] = phase]
      BY <2>3 DEF MeFails, FeaturesFail, CheckFails
    <3>4. \/ UNCHANGED err
          \/ \E e \in BOOLEAN : err' = [err EXCEPT ![r] = e]
      BY <2>3 DEF MeFails, FeaturesFail, CheckFails
    <3> QED BY <3>2, <3>3, <3>4
  <2> QED BY <2>1, <2>2, <2>3 DEF RefreshStep
<1>4. Own
  <2>1. CASE Begin(r)
    <3>1. token \in Tokens => About(token, server) \in [valid : BOOLEAN, plan : Plans]
      BY <1>1, AboutType DEF SessionTypeOK
    <3> QED BY <1>1, <2>1, <3>1 DEF SessionTypeOK, Begin, Return
  <2>2. CASE ~Begin(r)
    BY <1>1, <2>2
    DEF SessionTypeOK, RefreshStep, Me, MeFails, GetFeatures, FeaturesFail, Check,
        CheckFails
  <2> QED BY <2>1, <2>2
<1>5. Snap
  <2>1. CASE UNCHANGED snap
    BY <1>1, <2>1, FitsSnapshots DEF SessionTypeOK, Fits, Snapshots
  <2>2. CASE Begin(r) \/ MeFails(r)
    BY <1>1, <2>1, <2>2, GuestFits, SnapTypes DEF Begin, MeFails, Return
  <2>3. CASE Me(r)
    <3>1. Fits(Snapshot(TRUE, FALSE, OwnerOf[Bearer(r)], {}))
      BY <1>1, <2>3, PlanType DEF Me, Refreshing, Fits, Snapshots, Snapshot
    <3> QED BY <1>1, <2>3, <3>1, SnapTypes DEF Me
  <2>4. CASE GetFeatures(r)
    <3> DEFINE s == [snap[r] EXCEPT !.licensed = TRUE, !.features = PlanOf(r).features]
    <3>1. PlanOf(r).features \in SUBSET Keys
      BY <1>1, <2>4, PlanType DEF GetFeatures, Refreshing
    <3>2. Fits(s)
      BY <1>1, <3>1 DEF Fits, Snapshots
    <3>3. UNCHANGED snap \/ snap' = [snap EXCEPT ![r] = s]
      BY <2>4 DEF GetFeatures, Return
    <3> QED BY <1>1, <2>1, <3>2, <3>3, SnapTypes
  <2>5. CASE Check(r)
    <3> DEFINE s == [snap[r] EXCEPT !.licensed = PlanOf(r).allowed]
    <3>1. PlanOf(r).allowed \in BOOLEAN
      BY <1>1, <2>5, PlanType DEF Check, Refreshing
    <3>2. snap[r].features = {}
      <4>1. pc[r] = "check" /\ Known(r)
        BY <2>5 DEF Check, RefreshInv
      <4> QED BY <4>1 DEF Known, Snapshot
    <3>3. Fits(s)
      BY <1>1, <3>1, <3>2 DEF Fits, Snapshots
    <3> QED BY <1>1, <2>5, <3>3, SnapTypes DEF Check, Return
  <2>6. CASE CheckFails(r)
    BY <1>1, <2>6, SnapTypes DEF CheckFails, Return
  <2>7. CASE FeaturesFail(r)
    BY <2>1, <2>7 DEF FeaturesFail
  <2> QED BY <2>2, <2>3, <2>4, <2>5, <2>6, <2>7 DEF RefreshStep
<1> QED
  BY <1>1, <1>2, <1>3, <1>4, <1>5
  DEF SessionTypeOK, Fits, Snapshots, modeVars, appVars, serverVars

LEMMA TypesStep == SessionTypeOK /\ RefreshInv /\ [Next]_vars => SessionTypeOK'
<1> SUFFICES ASSUME SessionTypeOK, RefreshInv, [Next]_vars PROVE SessionTypeOK'
  OBVIOUS
<1>1. CASE Hydrate \/ HydrateFails
  BY <1>1, SessionAssumption
  DEF SessionTypeOK, Hydrate, HydrateFails, Fault, modeVars, refreshVars, serverVars
<1>2. CASE PersistSet \/ PersistApply \/ PersistFails
  BY <1>2, SessionAssumption
  DEF SessionTypeOK, PersistSet, PersistApply, PersistFails, Fault, modeVars, refreshVars,
      serverVars
<1>3. CASE ClearDelete \/ ClearApply \/ ClearFails
  BY <1>3, SessionAssumption
  DEF SessionTypeOK, ClearDelete, ClearApply, ClearFails, Fault, modeVars, refreshVars,
      serverVars
<1>4. CASE SignIn \/ SignInFails
  <2>1. PICK t \in Tokens \ issued :
          /\ issued' = issued \cup {t}
          /\ ServerBecomes([server EXCEPT !.valid = @ \cup {t}])
          /\ token' \in {token, t} /\ fresh' \in {fresh, t}
    BY <1>4 DEF SignIn, SignInFails, appVars
  <2>2. [server EXCEPT !.valid = @ \cup {t}] \in ServerStates
    BY DEF SessionTypeOK, ServerStates
  <2>3. since' \in [Refreshers -> SUBSET [valid : BOOLEAN, plan : Plans]]
    BY <2>1, <2>2, ServerTypes
  <2>4. server' \in ServerStates /\ server'.valid \subseteq issued'
    BY <2>1, <2>2 DEF ServerBecomes, SessionTypeOK, ServerStates
  <2>5. UNCHANGED <<modeVars, keychain, app, owed, cleared, pc, clone, snap, err, changes>>
    BY <1>4 DEF SignIn, SignInFails, appVars
  <2>6. failed' \in [Refreshers -> BOOLEAN] /\ faults' \in 0..MaxFaults
    BY <1>4, SessionAssumption DEF SignIn, SignInFails, Fault, SessionTypeOK
  <2> QED
    BY <2>1, <2>3, <2>4, <2>5, <2>6 DEF SessionTypeOK, modeVars
<1>5. CASE RevokeToken \/ ChangePlan
  <2>1. PICK s \in ServerStates : ServerBecomes(s) /\ s.valid \subseteq server.valid
    <3>1. ASSUME NEW t PROVE [server EXCEPT !.valid = @ \ {t}] \in ServerStates
      BY DEF SessionTypeOK, ServerStates
    <3>2. ASSUME NEW c \in Customers, NEW p \in Plans
          PROVE  [server EXCEPT !.plan[c] = p] \in ServerStates
      BY DEF SessionTypeOK, ServerStates
    <3>3. CASE RevokeToken
      <4>1. PICK t : ServerBecomes([server EXCEPT !.valid = @ \ {t}])
        BY <3>3 DEF RevokeToken
      <4> QED BY <3>1, <4>1 DEF SessionTypeOK, ServerStates
    <3>4. CASE ChangePlan
      <4>1. PICK c \in Customers, p \in Plans : ServerBecomes([server EXCEPT !.plan[c] = p])
        BY <3>4 DEF ChangePlan
      <4> QED BY <3>2, <4>1 DEF SessionTypeOK, ServerStates
    <3> QED BY <1>5, <3>3, <3>4
  <2>2. since' \in [Refreshers -> SUBSET [valid : BOOLEAN, plan : Plans]]
    BY <2>1, ServerTypes
  <2>3. server' \in ServerStates /\ server'.valid \subseteq server.valid
    BY <2>1 DEF ServerBecomes
  <2>4. UNCHANGED <<modeVars, appVars, pc, clone, snap, err, failed, issued, faults>>
    BY <1>5 DEF RevokeToken, ChangePlan
  <2>5. changes' \in 0..MaxChanges
    BY <1>5, SessionAssumption DEF RevokeToken, ChangePlan, SessionTypeOK
  <2> QED
    BY <2>2, <2>3, <2>4, <2>5 DEF SessionTypeOK, modeVars, appVars
<1>6. ASSUME NEW R \in SUBSET Refreshers, Forget(R)
      PROVE  /\ pc' \in [Refreshers -> {"idle", "me", "features", "check", "done"}]
             /\ clone' \in [Refreshers -> Tokens \cup {NoToken}]
             /\ snap' \in [Refreshers -> Snapshots]
             /\ \A r \in Refreshers : Fits(snap'[r])
             /\ err' \in [Refreshers -> BOOLEAN] /\ failed' \in [Refreshers -> BOOLEAN]
             /\ since' \in [Refreshers -> SUBSET [valid : BOOLEAN, plan : Plans]]
  BY <1>6, FitsSnapshots, GuestFits DEF Forget, SessionTypeOK, Fits
<1>7. CASE Crash
  <2>1. Forget(Refreshers)
    BY <1>7 DEF Crash
  <2> QED
    BY <1>6, <1>7, <2>1 DEF Crash, SessionTypeOK, Snapshots, Fits, modeVars, serverVars
<1>8. ASSUME NEW r \in Refreshers, Take(r) PROVE SessionTypeOK'
  <2>1. Forget({r})
    BY <1>8 DEF Take
  <2> QED
    BY <1>6, <1>8, <2>1
    DEF Take, SessionTypeOK, Snapshots, Fits, modeVars, appVars, serverVars
<1>9. ASSUME NEW r \in Refreshers, RefreshStep(r) PROVE SessionTypeOK'
  BY <1>9, RefreshStepTypes
<1>10. CASE UNCHANGED vars
  BY <1>10 DEF SessionTypeOK, vars, modeVars, appVars, refreshVars, serverVars
<1> QED
  BY <1>1, <1>2, <1>3, <1>4, <1>5, <1>7, <1>8, <1>9, <1>10 DEF Next, AppStep

\* The variables of the session keep their types, for any number of customers,
\* tokens, plans and refreshers (session.go, auth.go).
THEOREM SessionTypes == Spec => []SessionTypeOK
<1> QED
  BY TypesInit, TypesStep, RefreshInit, RefreshStepInv, PTL DEF Spec
=============================================================================

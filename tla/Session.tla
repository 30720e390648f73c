------------------------------- MODULE Session -------------------------------
(***************************************************************************)
(* desktop.SessionStore and desktop.RefreshAuth (src/desktop/session.go,   *)
(* auth.go, keyring.go) with the sign-ins of customer and oauth, for one   *)
(* application: its main goroutine hydrates at boot, signs in, persists    *)
(* and clears, while other goroutines refresh the snapshot the user        *)
(* interface shows.  As docs/10-client.md:124 asks, they either work on    *)
(* clones of the Client, or the application changes the token only while   *)
(* nobody refreshes.  The process may end at any step.  Tokens and plans   *)
(* are the server's, which may revoke the first and change the second in   *)
(* the middle of a refresh.                                                *)
(***************************************************************************)
EXTENDS Request, FiniteSets

CONSTANTS
  Customers,
  Tokens,       \* the tokens the server may issue
  OwnerOf,      \* whose token each of them is
  Plans,        \* the plans there are: feature keys, and Check's answer
  Names,        \* what the application's names may hold
  Refreshers,   \* goroutines that call RefreshAuth
  NoToken,      \* the empty token, and the missing keychain entry
  Nobody,       \* the nil *customer.Customer
  MaxFaults,    \* bound on the calls that fail without the server's will
  MaxChanges    \* bound on the changes of plans

ASSUME SessionAssumption ==
  /\ OwnerOf \in [Tokens -> Customers]
  /\ NoToken \notin Tokens /\ Nobody \notin Customers
  /\ Names \subseteq Values
  /\ \A p \in Plans : p.allowed \in BOOLEAN
  /\ {MaxFaults, MaxChanges} \subseteq Nat

VARIABLES
  cloned,    \* RefreshAuth is given a clone of the Client, for good
  names,     \* what the names hold that the application passes, for good
  keychain,  \* the keychain entry
  token,     \* Client.CustomerToken
  app,       \* where the main goroutine is
  fresh,     \* the token of a sign-in that is not persisted yet
  pc,        \* where each refresher is in RefreshAuth
  clone,     \* the CustomerToken of each refresher's clone
  snap,      \* the AuthSnapshot it builds and returns
  err,       \* it returned an error
  server,    \* the valid tokens and the customers' plans
  issued,    \* tokens issued so far
  faults,    \* faults so far
  changes,   \* changes of plans so far
  owed,      \* (history) what the keychain may hold, from what the calls returned
  cleared,   \* (history) tokens issued before a Clear that returned nil
  since,     \* (history) what was so of its customer during each RefreshAuth
  failed     \* (history) a request of that RefreshAuth met a fault

modeVars    == <<cloned, names>>
appVars     == <<keychain, token, app, fresh, owed, cleared>>
refreshVars == <<pc, clone, snap, err, since, failed>>
serverVars  == <<server, issued, changes>>
vars == <<modeVars, appVars, refreshVars, serverVars, faults>>

Snapshot(authenticated, licensed, customer, features) ==
  [authenticated |-> authenticated, licensed |-> licensed,
   customer |-> customer, features |-> features]
GuestSnapshot == Snapshot(FALSE, FALSE, Nobody, {})

Keys == UNION {p.features : p \in Plans}
ServerStates == [valid : SUBSET Tokens, plan : [Customers -> Plans]]

SessionTypeOK ==
  /\ cloned \in BOOLEAN /\ names \in Names
  /\ {keychain, token, fresh} \subseteq Tokens \cup {NoToken}
  /\ app \in {"boot", "idle", "persisting", "clearing"}
  /\ pc \in [Refreshers -> {"idle", "me", "features", "check", "done"}]
  /\ clone \in [Refreshers -> Tokens \cup {NoToken}]
  /\ snap \in [Refreshers ->
       [authenticated : BOOLEAN, licensed : BOOLEAN,
        customer : Customers \cup {Nobody}, features : SUBSET Keys]]
  /\ \A r \in Refreshers :
       /\ snap[r].authenticated => snap[r].customer \in Customers
       /\ snap[r].features # {} => snap[r].licensed
  /\ err \in [Refreshers -> BOOLEAN] /\ failed \in [Refreshers -> BOOLEAN]
  /\ server \in ServerStates
  /\ issued \subseteq Tokens /\ server.valid \subseteq issued
  /\ owed \subseteq Tokens \cup {NoToken} /\ cleared \subseteq issued
  /\ since \in [Refreshers -> SUBSET [valid : BOOLEAN, plan : Plans]]
  /\ faults \in 0..MaxFaults /\ changes \in 0..MaxChanges

\* The first start of the application: nobody has signed in.
Init ==
  /\ cloned \in BOOLEAN /\ names \in Names
  /\ keychain = NoToken /\ token = NoToken /\ fresh = NoToken
  /\ app = "boot"
  /\ pc = [r \in Refreshers |-> "idle"]
  /\ clone = [r \in Refreshers |-> NoToken]
  /\ snap = [r \in Refreshers |-> GuestSnapshot]
  /\ err = [r \in Refreshers |-> FALSE]
  /\ server \in [valid : {{}}, plan : [Customers -> Plans]]
  /\ issued = {} /\ faults = 0 /\ changes = 0
  /\ owed = {NoToken} /\ cleared = {}
  /\ since = [r \in Refreshers |-> {}]
  /\ failed = [r \in Refreshers |-> FALSE]

Refreshing(r) == pc[r] \in {"me", "features", "check"}

\* The application may change the token of the Client.
MayChangeToken == cloned \/ \A r \in Refreshers : ~Refreshing(r)

Fault == faults < MaxFaults /\ faults' = faults + 1

\* What a state of the server says of a token and its owner.
About(t, s) == [valid |-> t \in s.valid, plan |-> s.plan[OwnerOf[t]]]

\* The server's state changes, in the middle of what refreshes there are.
ServerBecomes(s) ==
  /\ server' = s
  /\ since' = [r \in Refreshers |->
                 IF Refreshing(r) THEN since[r] \cup {About(clone[r], s)}
                                  ELSE since[r]]

-----------------------------------------------------------------------------
(* The main goroutine: SessionStore and the sign-ins *)

\* Hydrate copies a saved token into the Client and leaves it alone without one.
Hydrate ==
  /\ app = "boot" /\ MayChangeToken
  /\ token' = IF keychain = NoToken THEN token ELSE keychain
  /\ app' = "idle"
  /\ UNCHANGED <<modeVars, keychain, fresh, owed, cleared, refreshVars,
                 serverVars, faults>>

HydrateFails ==
  /\ app = "boot" /\ Fault
  /\ app' = "idle"
  /\ UNCHANGED <<modeVars, keychain, token, fresh, owed, cleared, refreshVars,
                 serverVars>>

\* VerifyOTP and Exchange put the token they are given on the Client.
SignIn ==
  /\ app = "idle" /\ MayChangeToken
  /\ \E t \in Tokens \ issued :
       /\ issued' = issued \cup {t}
       /\ ServerBecomes([server EXCEPT !.valid = @ \cup {t}])
       /\ token' = t /\ fresh' = t
  /\ UNCHANGED <<modeVars, keychain, app, owed, cleared, pc, clone, snap, err,
                 failed, changes, faults>>

\* The token is issued, but the answer is lost or not understood.
SignInFails ==
  /\ app = "idle" /\ Fault
  /\ \E t \in Tokens \ issued :
       /\ issued' = issued \cup {t}
       /\ ServerBecomes([server EXCEPT !.valid = @ \cup {t}])
  /\ UNCHANGED <<modeVars, appVars, pc, clone, snap, err, failed, changes>>

\* Persist writes the keychain, ...
PersistSet ==
  /\ app = "idle" /\ fresh # NoToken /\ MayChangeToken
  /\ keychain' = fresh
  /\ app' = "persisting"
  /\ UNCHANGED <<modeVars, token, fresh, owed, cleared, refreshVars, serverVars,
                 faults>>

\* ... and then sets the Client's token and returns.
PersistApply ==
  /\ app = "persisting" /\ MayChangeToken
  /\ token' = fresh /\ fresh' = NoToken
  /\ owed' = {fresh}
  /\ app' = "idle"
  /\ UNCHANGED <<modeVars, keychain, cleared, refreshVars, serverVars, faults>>

\* Faulty variant: the error of Set is dropped.
PersistIgnoringError ==
  /\ app = "idle" /\ fresh # NoToken /\ MayChangeToken /\ Fault
  /\ keychain' \in {keychain, fresh}
  /\ token' = fresh /\ fresh' = NoToken
  /\ owed' = {fresh}
  /\ UNCHANGED <<modeVars, app, cleared, refreshVars, serverVars>>

\* A Set that fails may have written; the application may call Persist again.
PersistFails ==
  /\ app = "idle" /\ fresh # NoToken /\ Fault
  /\ keychain' \in {keychain, fresh}
  /\ owed' = owed \cup {fresh}
  /\ UNCHANGED <<modeVars, token, app, fresh, cleared, refreshVars, serverVars>>

\* Clear deletes the entry (a missing one is no error), ...
ClearDelete ==
  /\ app = "idle" /\ MayChangeToken
  /\ keychain' = NoToken
  /\ app' = "clearing"
  /\ UNCHANGED <<modeVars, token, fresh, owed, cleared, refreshVars, serverVars,
                 faults>>

\* ... and then the Client's token.
ClearApply ==
  /\ app = "clearing" /\ MayChangeToken
  /\ token' = NoToken /\ fresh' = NoToken
  /\ owed' = {NoToken} /\ cleared' = issued
  /\ app' = "idle"
  /\ UNCHANGED <<modeVars, keychain, refreshVars, serverVars, faults>>

\* Faulty variant: the error of Delete is dropped.
ClearIgnoringError ==
  /\ app = "idle" /\ MayChangeToken /\ Fault
  /\ keychain' \in {keychain, NoToken}
  /\ token' = NoToken /\ fresh' = NoToken
  /\ owed' = {NoToken} /\ cleared' = issued
  /\ UNCHANGED <<modeVars, app, refreshVars, serverVars>>

\* A Delete that fails may have deleted; the Client keeps its token.
ClearFails ==
  /\ app = "idle" /\ Fault
  /\ keychain' \in {keychain, NoToken}
  /\ owed' = owed \cup {NoToken}
  /\ UNCHANGED <<modeVars, token, app, fresh, cleared, refreshVars, serverVars>>

\* Refreshers are at rest again, with nothing in hand.
Forget(R) ==
  /\ pc' = [r \in Refreshers |-> IF r \in R THEN "idle" ELSE pc[r]]
  /\ clone' = [r \in Refreshers |-> IF r \in R THEN NoToken ELSE clone[r]]
  /\ snap' = [r \in Refreshers |-> IF r \in R THEN GuestSnapshot ELSE snap[r]]
  /\ err' = [r \in Refreshers |-> err[r] /\ r \notin R]
  /\ since' = [r \in Refreshers |-> IF r \in R THEN {} ELSE since[r]]
  /\ failed' = [r \in Refreshers |-> failed[r] /\ r \notin R]

\* The process ends, and what it was about to write may be written.
Crash ==
  /\ app # "boot"
  /\ app' = "boot"
  /\ token' = NoToken /\ fresh' = NoToken
  /\ owed' = owed \cup (CASE app = "persisting" -> {fresh}
                          [] app = "clearing" -> {NoToken}
                          [] OTHER -> {})
  /\ Forget(Refreshers)
  /\ UNCHANGED <<modeVars, keychain, cleared, serverVars, faults>>

-----------------------------------------------------------------------------
(* RefreshAuth, request by request *)

\* Faulty variant: the token is that of the Client all goroutines share.
BearerShared(r) == token

\* Do sends the CustomerToken of the Client it is called on.
Bearer(r) == IF cloned THEN clone[r] ELSE token

Goto(r, phase) == pc' = [pc EXCEPT ![r] = phase]

\* RefreshAuth returns.
Return(r, s, e) ==
  /\ Goto(r, "done")
  /\ snap' = [snap EXCEPT ![r] = s]
  /\ err' = [err EXCEPT ![r] = e]

\* The server answers a request that is signed and carries a valid token.
Answered(r, name) ==
  /\ Bearer(r) \in server.valid
  /\ <<name, names>> \in Accepted
PlanOf(r) == server.plan[OwnerOf[Bearer(r)]]

\* A request is refused, or meets a fault: no answer in time, a 5xx, or a 401
\* that is not about the token (a clock that is off, a nonce sent twice).
Unanswered(r, name) ==
  \/ ~Answered(r, name) /\ UNCHANGED <<faults, failed>>
  \/ Fault /\ failed' = [failed EXCEPT ![r] = TRUE]

Begin(r) ==
  /\ app # "boot" /\ pc[r] = "idle"
  /\ cloned \/ app = "idle"
  /\ clone' = [clone EXCEPT ![r] = token]
  /\ IF token = NoToken
       THEN Return(r, GuestSnapshot, FALSE) /\ UNCHANGED since
       ELSE /\ Goto(r, "me") /\ UNCHANGED <<snap, err>>
            /\ since' = [since EXCEPT ![r] = {About(token, server)}]
  /\ UNCHANGED <<modeVars, appVars, serverVars, failed, faults>>

Me(r) ==
  /\ pc[r] = "me" /\ Answered(r, "Me")
  /\ snap' = [snap EXCEPT ![r] = Snapshot(TRUE, FALSE, OwnerOf[Bearer(r)], {})]
  /\ Goto(r, "features")
  /\ UNCHANGED <<modeVars, appVars, serverVars, clone, err, since, failed, faults>>

\* Faulty variant: the customer is not looked at, and the refresh goes on.
MeFailsAuthenticated(r) ==
  /\ pc[r] = "me" /\ Unanswered(r, "Me")
  /\ snap' = [snap EXCEPT ![r] = Snapshot(TRUE, FALSE, Nobody, {})]
  /\ Goto(r, "features")
  /\ UNCHANGED <<modeVars, appVars, serverVars, clone, err, since>>

\* A 401 makes the user a guest; any other failure is an error as well.
MeFails(r) ==
  /\ pc[r] = "me" /\ Unanswered(r, "Me")
  /\ \E e \in IF faults' = faults THEN {FALSE} ELSE BOOLEAN :
       Return(r, GuestSnapshot, e)
  /\ UNCHANGED <<modeVars, appVars, serverVars, clone, since>>

\* The features license the user by themselves; without any, Check decides.
GetFeatures(r) ==
  /\ pc[r] = "features" /\ Answered(r, "Features")
  /\ IF PlanOf(r).features = {}
       THEN Goto(r, "check") /\ UNCHANGED <<snap, err>>
       ELSE Return(r, [snap[r] EXCEPT !.licensed = TRUE,
                                      !.features = PlanOf(r).features], FALSE)
  /\ UNCHANGED <<modeVars, appVars, serverVars, clone, since, failed, faults>>

\* Whatever goes wrong with the features is as good as none.
FeaturesFail(r) ==
  /\ pc[r] = "features" /\ Unanswered(r, "Features")
  /\ Goto(r, "check")
  /\ UNCHANGED <<modeVars, appVars, serverVars, clone, snap, err, since>>

Check(r) ==
  /\ pc[r] = "check" /\ Answered(r, "Check")
  /\ Return(r, [snap[r] EXCEPT !.licensed = PlanOf(r).allowed], FALSE)
  /\ UNCHANGED <<modeVars, appVars, serverVars, clone, since, failed, faults>>

\* ... and so is what goes wrong with Check.
CheckFails(r) ==
  /\ pc[r] = "check" /\ Unanswered(r, "Check")
  /\ Return(r, snap[r], FALSE)
  /\ UNCHANGED <<modeVars, appVars, serverVars, clone, since>>

\* The user interface takes the snapshot.
Take(r) ==
  /\ pc[r] = "done"
  /\ Forget({r})
  /\ UNCHANGED <<modeVars, appVars, serverVars, faults>>

-----------------------------------------------------------------------------
(* The server *)

RevokeToken ==
  /\ \E t \in server.valid :
       ServerBecomes([server EXCEPT !.valid = @ \ {t}])
  /\ UNCHANGED <<modeVars, appVars, pc, clone, snap, err, failed, issued,
                 changes, faults>>

ChangePlan ==
  /\ changes < MaxChanges /\ changes' = changes + 1
  /\ \E c \in Customers, p \in Plans :
       p # server.plan[c] /\ ServerBecomes([server EXCEPT !.plan[c] = p])
  /\ UNCHANGED <<modeVars, appVars, pc, clone, snap, err, failed, issued, faults>>

-----------------------------------------------------------------------------
AppStep ==
  \/ Hydrate \/ HydrateFails \/ SignIn \/ SignInFails
  \/ PersistSet \/ PersistApply \/ PersistFails
  \/ ClearDelete \/ ClearApply \/ ClearFails
RefreshStep(r) ==
  \/ Begin(r) \/ Me(r) \/ MeFails(r) \/ GetFeatures(r) \/ FeaturesFail(r)
  \/ Check(r) \/ CheckFails(r)

\* What was returned does not change any more: it is taken at once.
Next ==
  \/ \E r \in Refreshers : Take(r)
  \/ /\ \A r \in Refreshers : pc[r] # "done"
     /\ \/ AppStep \/ Crash \/ RevokeToken \/ ChangePlan
        \/ \E r \in Refreshers : RefreshStep(r)

Spec == Init /\ [][Next]_vars

-----------------------------------------------------------------------------
(* Properties *)

\* A call with a query sends it as a query: docs/10-client.md:64 lists
\* "GET /api/billing/portal?return_url=..." (client.go:72, customer.go:126, 137).
QueryArrives == \A call \in AllCalls : Sent(call, names).query = call.query

\* A snapshot is about the customer who was signed in when RefreshAuth began
\* and about nobody else, and says nothing that was not so at some time during
\* the call.  A guest has no token or one that was refused, and a user who is
\* told to have no license had none, unless a request failed or the product's
\* slug is one that url.JoinPath cleans away (auth.go:42-80, client.go:72).
SnapshotHonest ==
  \A r \in {x \in Refreshers : pc[x] = "done" /\ ~err[x]} :
    LET s == snap[r]
        seen == {w.plan : w \in since[r]}
        wasValid == \E w \in since[r] : w.valid
        wasInvalid == \E w \in since[r] : ~w.valid
    IN
    IF s.authenticated THEN
      /\ wasValid /\ s.customer = OwnerOf[clone[r]]
      /\ s.features # {} => \E p \in seen : p.features = s.features
      /\ s.licensed => \E p \in seen : p.allowed \/ p.features # {}
      /\ ~s.licensed => \/ failed[r] \/ wasInvalid \/ names \in Cleaned
                        \/ /\ \E p \in seen : p.features = {}
                           /\ \E p \in seen : ~p.allowed
    ELSE clone[r] = NoToken \/ wasInvalid \/ failed[r]

\* Once Clear has returned nil, no token of before comes back, neither on the
\* Client nor in the keychain, over restarts and failing keychains
\* (session.go:38-44).
LogoutSticks == cleared \cap {keychain, token} = {}

\* After a restart Hydrate resumes the session of the last Persist that
\* returned nil, and none after a Clear that did; only calls that failed or
\* were cut off since leave a choice (session.go:20-44).
RestartResumes == [][Hydrate => token' \in owed]_vars
=============================================================================

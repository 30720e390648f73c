--------------------------- MODULE Loopback_proofs ---------------------------
(***************************************************************************)
(* Proofs about Loopback, for any number of logins, connections and        *)
(* faults.                                                                 *)
(***************************************************************************)
EXTENDS Loopback, TLAPS

\* Login reads from a connection, ...
Serving == \A l \in Logins : phase[l] \in {"read", "exchange"} => conn[l] \in Conns

\* ... and goes on to the exchange with a callback of its own only, which stays
\* what it is.
OwnCallback ==
  \A l \in Logins :
    phase[l] = "exchange" => request[conn[l]] = [kind |-> "callback", from |-> l]

LoginInv == TypeOK /\ Serving /\ OwnCallback /\ CodesStayApart

\* What a login trades is its own code.
LEMMA TradesItsOwn ==
  ASSUME LoginInv, NEW l \in Logins, phase[l] = "exchange"
  PROVE  request[conn[l]].from = l
<1>1. request[conn[l]] = [kind |-> "callback", from |-> l]
  BY DEF LoginInv, OwnCallback
<1> QED BY ONLY <1>1

LEMMA LoginInit == Init => LoginInv
  BY LoopbackAssumption
  DEF Init, LoginInv, TypeOK, Serving, OwnCallback, CodesStayApart, Phases, Empty

LEMMA LoginTypes == LoginInv /\ [Next]_vars => TypeOK'
<1> SUFFICES ASSUME LoginInv, [Next]_vars PROVE TypeOK'
  OBVIOUS
<1> USE LoopbackAssumption DEF LoginInv, TypeOK, Phases, Empty, Failed
<1>1. CASE UNCHANGED vars
  BY <1>1 DEF vars, loginVars, netVars, goVars, outVars
<1>2. ASSUME NEW l \in Logins,
             Start(l) \/ StartFails(l) \/ LoginStep(l) \/ AcceptStep(l)
               \/ Expire(l) \/ Connect(l)
      PROVE  TypeOK'
  <2> USE DEF Goto, Return, Fault, loginVars, netVars, goVars, outVars
  <2>1. CASE Start(l)
    BY <2>1 DEF Start
  <2>2. CASE StartFails(l) \/ OpenFails(l)
    BY <2>2 DEF StartFails, OpenFails
  <2>3. CASE OpenBrowser(l)
    BY <2>3 DEF OpenBrowser
  <2>4. CASE WaitExpired(l) \/ ReadMalformed(l) \/ ReadDeadline(l)
    BY <2>4 DEF WaitExpired, ReadMalformed, ReadDeadline
  <2>5. CASE WaitConn(l)
    BY <2>5 DEF WaitConn
  <2>6. CASE WaitFails(l)
    BY <2>6 DEF WaitFails
  <2>7. CASE Read(l)
    <3>1. CASE phase' = [phase EXCEPT ![l] = "exchange"]
      BY <2>7, <3>1 DEF Read
    <3>2. CASE Return(l, "error")
      BY <2>7, <3>2 DEF Read
    <3> QED BY <2>7, <3>1, <3>2 DEF Read
  <2>8. ASSUME Exchange(l) \/ ExchangeFails(l)
        PROVE  request[conn[l]].from = l
    BY <2>8, TradesItsOwn DEF Exchange, ExchangeFails
  <2>9. CASE Exchange(l)
    BY <2>8, <2>9 DEF Exchange, Traded
  <2>10. CASE ExchangeFails(l)
    BY <2>8, <2>10 DEF ExchangeFails
  <2>11. CASE Accept(l)
    BY <2>11 DEF Accept
  <2>12. CASE AcceptFails(l)
    BY <2>12 DEF AcceptFails
  <2>13. CASE Expire(l)
    BY <2>13 DEF Expire
  <2>14. CASE Connect(l)
    BY <2>14 DEF Connect, Requests
  <2> QED
    BY <1>2, <2>1, <2>2, <2>3, <2>4, <2>5, <2>6, <2>7, <2>9, <2>10, <2>11, <2>12,
       <2>13, <2>14 DEF LoginStep, AcceptStep
<1> QED BY <1>1, <1>2 DEF Next

LEMMA LoginStepInv == LoginInv /\ [Next]_vars => LoginInv'
<1> SUFFICES ASSUME LoginInv, [Next]_vars PROVE LoginInv'
  OBVIOUS
<1>1. TypeOK'
  BY LoginTypes
<1> USE LoopbackAssumption
    DEF LoginInv, TypeOK, Serving, OwnCallback, CodesStayApart
<1>2. CASE UNCHANGED vars
  BY <1>1, <1>2 DEF vars, loginVars, netVars, outVars
<1>3. ASSUME NEW l \in Logins,
             Start(l) \/ StartFails(l) \/ LoginStep(l) \/ AcceptStep(l)
               \/ Expire(l) \/ Connect(l)
      PROVE  Serving' /\ OwnCallback' /\ CodesStayApart'
  <2> USE DEF Goto, Return, Fault, loginVars, netVars, goVars, outVars
  <2>1. CASE Start(l) \/ OpenBrowser(l)
    BY <2>1 DEF Start, OpenBrowser
  <2>2. CASE StartFails(l) \/ OpenFails(l)
    BY <2>2 DEF StartFails, OpenFails
  <2>3. CASE WaitExpired(l) \/ WaitFails(l)
    BY <2>3 DEF WaitExpired, WaitFails
  <2>4. CASE WaitConn(l)
    BY <2>4 DEF WaitConn
  <2>5. CASE ReadMalformed(l) \/ ReadDeadline(l)
    BY <2>5 DEF ReadMalformed, ReadDeadline
  <2>6. CASE Read(l)
    BY <2>6 DEF Read
  <2>7. CASE Exchange(l)
    BY <2>7, TradesItsOwn DEF Exchange, Traded
  <2>8. CASE ExchangeFails(l)
    BY <2>8, TradesItsOwn DEF ExchangeFails
  <2>9. CASE Accept(l) \/ AcceptFails(l) \/ Expire(l)
    BY <2>9 DEF Accept, AcceptFails, Expire
  <2>10. CASE Connect(l)
    <3>1. PICK c \in Conns, kind \in Kinds, x \in Logins :
                 /\ request[c] = NoConn
                 /\ request' = [request EXCEPT ![c] = [kind |-> kind, from |-> x]]
      BY ONLY <2>10, Zenon DEF Connect
    <3>2. UNCHANGED <<phase, conn, exchanged>>
      BY <2>10 DEF Connect
    <3>3. ASSUME NEW m \in Logins, phase[m] = "exchange"
          PROVE  request'[conn[m]] = request[conn[m]]
      <4>1. /\ conn[m] \in Conns
            /\ request[conn[m]] = [kind |-> "callback", from |-> m]
        BY <3>3
      <4>2. [kind |-> "callback", from |-> m] \in Requests
        BY DEF Requests, Kinds
      <4>3. conn[m] # c
        BY <3>1, <4>1, <4>2
      <4> QED BY <3>1, <4>1, <4>3
    <3> QED BY <3>2, <3>3
  <2> QED
    BY <1>3, <2>1, <2>2, <2>3, <2>4, <2>5, <2>6, <2>7, <2>8, <2>9, <2>10
    DEF LoginStep, AcceptStep
<1> QED BY <1>1, <1>2, <1>3 DEF Next

\* The variables keep their types, for any number of logins and connections.
THEOREM LoopbackTypes == Spec => []TypeOK
<1>1. LoginInv => TypeOK
  BY DEF LoginInv
<1> QED BY <1>1, LoginInit, LoginStepInv, PTL DEF Spec

\* No login trades the code of another, however many share a port one after
\* the other and whatever connects to it.
THEOREM LoginsStayApart == Spec => []CodesStayApart
<1>1. LoginInv => CodesStayApart
  BY DEF LoginInv
<1> QED BY <1>1, LoginInit, LoginStepInv, PTL DEF Spec

-----------------------------------------------------------------------------
(* The channel, the listener and the token *)

\* The goroutine that accepts finds room in the channel, of capacity one, whenever
\* it sends: Accept and AcceptFails need not wait (loopback.go:113-117).
SendNeverBlocks == \A l \in Logins : acceptor[l] = "accepting" => channel[l] = Empty

\* A Login that waits has a goroutine that will send, or what it has sent: nobody
\* else takes it (loopback.go:113-129).
WaitIsAnswered ==
  \A l \in Logins : phase[l] = "wait" => acceptor[l] = "accepting" \/ channel[l] # Empty

\* The customer token is that of a Login that has returned it, for its own code,
\* and nothing is returned before the end.
TokenEarned ==
  /\ token # NoLogin => token \in Logins /\ result[token] = "ok"
  /\ \A l \in Logins : /\ result[l] # "none" <=> phase[l] = "done"
                       /\ result[l] = "ok" => <<l, l>> \in exchanged

\* Where the goroutine is when Login is where it is.
Handover ==
  \A l \in Logins :
    /\ phase[l] \in {"idle", "browser"} => acceptor[l] = "none"
    /\ phase[l] = "wait" => acceptor[l] # "none"
    /\ acceptor[l] # "ended" => channel[l] = Empty /\ phase[l] \notin {"read", "exchange"}
    /\ phase[l] = "wait" /\ acceptor[l] = "ended" => channel[l] # Empty
    /\ phase[l] \in {"read", "exchange"} => channel[l] = Empty

LEMMA HandoverInit == Init => Handover /\ ClosesUp /\ TokenEarned
  BY LoopbackAssumption DEF Init, Handover, ClosesUp, TokenEarned, InLogin, Empty

LEMMA HandoverStep == TypeOK /\ Handover /\ [Next]_vars => Handover'
<1> SUFFICES ASSUME TypeOK, Handover, [Next]_vars PROVE Handover'
  OBVIOUS
<1> USE LoopbackAssumption DEF TypeOK, Handover, Empty, Failed
<1>1. CASE UNCHANGED vars
  BY <1>1 DEF vars, loginVars, goVars
<1>2. ASSUME NEW l \in Logins,
             Start(l) \/ StartFails(l) \/ LoginStep(l) \/ AcceptStep(l)
               \/ Expire(l) \/ Connect(l)
      PROVE  Handover'
  <2> USE DEF Goto, loginVars, goVars
  <2>1. CASE Start(l) \/ Expire(l) \/ Connect(l)
    BY <2>1 DEF Start, Expire, Connect
  <2>2. CASE OpenBrowser(l)
    BY <2>2 DEF OpenBrowser
  <2>3. CASE \/ StartFails(l) \/ OpenFails(l) \/ WaitExpired(l) \/ ReadMalformed(l)
             \/ ReadDeadline(l) \/ Exchange(l) \/ ExchangeFails(l)
    BY <2>3 DEF StartFails, OpenFails, WaitExpired, ReadMalformed, ReadDeadline,
       Exchange, ExchangeFails, Return
  <2>4. CASE WaitConn(l)
    BY <2>4 DEF WaitConn
  <2>5. CASE WaitFails(l)
    BY <2>5 DEF WaitFails, Return
  <2>6. CASE Read(l)
    BY <2>6 DEF Read, Return
  <2>7. CASE Accept(l)
    BY <2>7 DEF Accept
  <2>8. CASE AcceptFails(l)
    BY <2>8 DEF AcceptFails
  <2> QED
    BY <1>2, <2>1, <2>2, <2>3, <2>4, <2>5, <2>6, <2>7, <2>8 DEF LoginStep, AcceptStep
<1> QED BY <1>1, <1>2 DEF Next

LEMMA ClosesUpStep == TypeOK /\ Handover /\ ClosesUp /\ [Next]_vars => ClosesUp'
<1> SUFFICES ASSUME TypeOK, Handover, ClosesUp, [Next]_vars PROVE ClosesUp'
  OBVIOUS
<1> USE LoopbackAssumption DEF TypeOK, ClosesUp, InLogin, Empty, Failed
<1>1. CASE UNCHANGED vars
  BY <1>1 DEF vars, loginVars, netVars, goVars
<1>2. ASSUME NEW l \in Logins,
             Start(l) \/ StartFails(l) \/ LoginStep(l) \/ AcceptStep(l)
               \/ Expire(l) \/ Connect(l)
      PROVE  ClosesUp'
  <2> USE DEF Goto, loginVars, netVars, goVars
  <2>1. ASSUME NEW r, Return(l, r), UNCHANGED expired,
               \A m \in Logins \ {l} : channel'[m] = channel[m],
               channel'[l] \in Conns => l \in expired /\ r = "error"
        PROVE  ClosesUp'
    BY <2>1 DEF Return
  <2>2. CASE Start(l)
    BY <2>2 DEF Start
  <2>3. CASE \/ StartFails(l) \/ OpenFails(l) \/ ReadMalformed(l) \/ ReadDeadline(l)
             \/ Exchange(l) \/ ExchangeFails(l)
    <3>1. channel[l] = Empty
      BY <2>3 DEF Handover, StartFails, OpenFails, ReadMalformed, ReadDeadline, Exchange,
         ExchangeFails
    <3> QED
      BY <2>1, <2>3, <3>1 DEF StartFails, OpenFails, ReadMalformed, ReadDeadline,
         Exchange, ExchangeFails
  <2>4. CASE WaitExpired(l)
    BY <2>1, <2>4 DEF WaitExpired
  <2>5. CASE WaitFails(l)
    BY <2>1, <2>5 DEF WaitFails
  <2>6. CASE OpenBrowser(l) \/ AcceptFails(l) \/ Expire(l)
    BY <2>6 DEF OpenBrowser, AcceptFails, Expire
  <2>7. CASE WaitConn(l)
    BY <2>7 DEF WaitConn
  <2>8. CASE Read(l)
    <3>1. channel[l] = Empty
      BY <2>8 DEF Handover, Read
    <3> QED BY <2>1, <2>8, <3>1 DEF Read
  <2>9. CASE Accept(l)
    BY <2>9 DEF Accept
  <2>10. CASE Connect(l)
    BY <2>10 DEF Connect
  <2> QED
    BY <1>2, <2>2, <2>3, <2>4, <2>5, <2>6, <2>7, <2>8, <2>9, <2>10
    DEF LoginStep, AcceptStep
<1> QED BY <1>1, <1>2 DEF Next

LEMMA TokenStep == LoginInv /\ TokenEarned /\ [Next]_vars => TokenEarned'
<1> SUFFICES ASSUME LoginInv, TokenEarned, [Next]_vars PROVE TokenEarned'
  OBVIOUS
<1>1. TypeOK
  BY DEF LoginInv
<1> USE <1>1, LoopbackAssumption DEF TypeOK, TokenEarned
<1>2. CASE UNCHANGED vars
  BY <1>2 DEF vars, loginVars, outVars
<1>3. ASSUME NEW l \in Logins,
             Start(l) \/ StartFails(l) \/ LoginStep(l) \/ AcceptStep(l)
               \/ Expire(l) \/ Connect(l)
      PROVE  TokenEarned'
  <2> USE DEF Goto, loginVars, outVars
  <2>1. CASE Start(l) \/ OpenBrowser(l) \/ WaitConn(l)
    BY <2>1 DEF Start, OpenBrowser, WaitConn
  <2>2. CASE Accept(l) \/ AcceptFails(l) \/ Expire(l) \/ Connect(l)
    BY <2>2 DEF Accept, AcceptFails, Expire, Connect
  <2>3. ASSUME Return(l, "error"), UNCHANGED token, exchanged \subseteq exchanged',
               phase[l] # "done"
        PROVE  TokenEarned'
    BY <2>3 DEF Return
  <2>4. CASE \/ StartFails(l) \/ OpenFails(l) \/ WaitExpired(l) \/ WaitFails(l)
             \/ ReadMalformed(l) \/ ReadDeadline(l) \/ ExchangeFails(l)
    BY <2>3, <2>4 DEF StartFails, OpenFails, WaitExpired, WaitFails, ReadMalformed,
       ReadDeadline, ExchangeFails
  <2>5. CASE Read(l)
    BY <2>3, <2>5 DEF Read
  <2>6. CASE Exchange(l)
    <3>1. phase[l] = "exchange" /\ Return(l, "ok") /\ token' = l
      BY <2>6 DEF Exchange, Traded
    <3>2. exchanged' = exchanged \cup {<<l, l>>}
      BY <2>6, <3>1, TradesItsOwn DEF Exchange, Traded
    <3> QED BY <3>1, <3>2 DEF Return
  <2> QED
    BY <1>3, <2>1, <2>2, <2>4, <2>5, <2>6 DEF LoginStep, AcceptStep
<1> QED BY <1>2, <1>3 DEF Next

LEMMA HandoverInvariant == Spec => [](LoginInv /\ Handover /\ ClosesUp /\ TokenEarned)
<1>1. Init => LoginInv /\ Handover /\ ClosesUp /\ TokenEarned
  BY LoginInit, HandoverInit
<1>2. LoginInv /\ Handover /\ ClosesUp /\ TokenEarned /\ [Next]_vars
        => LoginInv' /\ Handover' /\ ClosesUp' /\ TokenEarned'
  BY LoginStepInv, HandoverStep, ClosesUpStep, TokenStep DEF LoginInv
<1> QED BY <1>1, <1>2, PTL DEF Spec

\* Whatever connects, and however late Login stops waiting, the accepting goroutine
\* never blocks on its channel, which is why AcceptorEnds can hold.
THEOREM AcceptorNeverBlocks == Spec => []SendNeverBlocks
<1>1. Handover => SendNeverBlocks
  BY DEF Handover, SendNeverBlocks
<1> QED BY <1>1, HandoverInvariant, PTL

\* A waiting Login is never left without an answer to come, but for its timeout: the
\* safety part of LoginReturns.
THEOREM WaitingIsAnswered == Spec => []WaitIsAnswered
<1>1. TypeOK /\ Handover => WaitIsAnswered
  BY DEF TypeOK, Handover, WaitIsAnswered
<1>2. LoginInv => TypeOK
  BY DEF LoginInv
<1> QED BY <1>1, <1>2, HandoverInvariant, PTL

\* Every way out of Login gives up its port, what waits there and the connection it
\* serves, so that another Login can have the port.  A connection that was accepted
\* and not served is left open by a Login that its context ended, and by no other.
THEOREM LoginClosesUp == Spec => []ClosesUp
BY HandoverInvariant, PTL

\* The client's token is always that of a Login that succeeded, by an exchange of
\* the code that was issued for it.
THEOREM TokenIsEarned == Spec => []TokenEarned
BY HandoverInvariant, PTL
=============================================================================

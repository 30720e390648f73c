------------------------------ MODULE Loopback ------------------------------
(***************************************************************************)
(* src/loopback/loopback.go: Login binds a listener, sends the user's      *)
(* browser to the provider and waits for the one callback.  A goroutine    *)
(* accepts a connection and hands it over on a channel of capacity one,    *)
(* while Login waits for the channel or for its context.  Whatever         *)
(* connects first is served: the provider's redirect, a refusal, the tab   *)
(* of an earlier Login whose port was given out again, a browser that      *)
(* opens a connection and sends nothing.                                   *)
(*                                                                         *)
(* A Login stands for its state and its PKCE challenge; a code for the     *)
(* Login whose challenge it was issued for.                                *)
(***************************************************************************)
EXTENDS Naturals

CONSTANTS
  Logins,     \* calls of Login
  Conns,      \* identities for connections, which bound them
  NoConn,     \* no connection
  NoLogin,    \* no customer token
  MaxFaults   \* bound on failing system calls and requests

VARIABLES
  phase,      \* where a Login is
  listening,  \* Logins whose listener is open
  backlog,    \* connections the kernel holds for a listener
  acceptor,   \* the goroutine: "none", "accepting", "ended"
  channel,    \* resultCh: "empty", a connection in it, or an error
  conn,       \* the connection Login serves
  expired,    \* Logins whose callbackCtx is done
  request,    \* Conns: what the peer sends, [kind, from]
  page,       \* (history) Logins that have sent the page
  exchanged,  \* (history) <<Login, code>> sent to the server
  token,      \* Client.CustomerToken: the Login it is from
  result,     \* what a Login returned
  faults

loginVars == <<phase, conn, result>>
netVars   == <<listening, backlog, request>>
goVars    == <<acceptor, channel>>
outVars   == <<page, exchanged, token>>
vars == <<loginVars, netVars, goVars, outVars, expired, faults>>

Kinds  == {"callback", "refusal", "nostate", "malformed", "silent"}
Requests == [kind : Kinds, from : Logins]
Phases == {"idle", "browser", "wait", "read", "exchange", "done"}
Failed == "failed"   \* an error in the channel
Empty  == "empty"

ASSUME LoopbackAssumption ==
  /\ NoConn \notin Conns \cup Requests /\ NoLogin \notin Logins
  /\ Conns \cap {Empty, Failed} = {}
  /\ MaxFaults \in Nat

TypeOK ==
  /\ phase \in [Logins -> Phases]
  /\ listening \subseteq Logins
  /\ backlog \in [Logins -> SUBSET Conns]
  /\ acceptor \in [Logins -> {"none", "accepting", "ended"}]
  /\ channel \in [Logins -> Conns \cup {Empty, Failed}]
  /\ conn \in [Logins -> Conns \cup {NoConn}]
  /\ expired \subseteq Logins /\ page \subseteq Logins
  /\ request \in [Conns -> Requests \cup {NoConn}]
  /\ exchanged \subseteq Logins \X Logins
  /\ token \in Logins \cup {NoLogin}
  /\ result \in [Logins -> {"none", "ok", "error"}]
  /\ faults \in 0..MaxFaults

Init ==
  /\ phase = [l \in Logins |-> "idle"]
  /\ listening = {}
  /\ backlog = [l \in Logins |-> {}]
  /\ acceptor = [l \in Logins |-> "none"]
  /\ channel = [l \in Logins |-> Empty]
  /\ conn = [l \in Logins |-> NoConn]
  /\ expired = {} /\ page = {}
  /\ request = [c \in Conns |-> NoConn]
  /\ exchanged = {} /\ token = NoLogin
  /\ result = [l \in Logins |-> "none"]
  /\ faults = 0

-----------------------------------------------------------------------------
(* Helpers *)

Goto(l, where) == phase' = [phase EXCEPT ![l] = where]

\* Faulty variant: the listener is not closed.
ReturnListening(l, r) ==
  /\ Goto(l, "done")
  /\ result' = [result EXCEPT ![l] = r]
  /\ conn' = [conn EXCEPT ![l] = NoConn]
  /\ UNCHANGED netVars

\* Login returns; the deferred Close of its listener resets what waits there,
\* and that of its connection ends it.  What is in the channel stays there.
Return(l, r) ==
  /\ Goto(l, "done")
  /\ result' = [result EXCEPT ![l] = r]
  /\ conn' = [conn EXCEPT ![l] = NoConn]
  /\ listening' = listening \ {l}
  /\ backlog' = [backlog EXCEPT ![l] = {}]
  /\ UNCHANGED request

Fault == faults < MaxFaults /\ faults' = faults + 1

-----------------------------------------------------------------------------
(* Login *)

\* The arguments are there; Listen, the PKCE pair and the state succeed.
Start(l) ==
  /\ phase[l] = "idle"
  /\ listening' = listening \cup {l}
  /\ Goto(l, "browser")
  /\ UNCHANGED <<backlog, request, goVars, conn, result, outVars, expired, faults>>

\* An argument is missing, or Listen or the randomness fails.
StartFails(l) ==
  /\ phase[l] = "idle" /\ Fault
  /\ Return(l, "error")
  /\ UNCHANGED <<goVars, outVars, expired>>

\* The browser is opened, the timer of callbackCtx starts, and so does the
\* goroutine that accepts.
OpenBrowser(l) ==
  /\ phase[l] = "browser"
  /\ acceptor' = [acceptor EXCEPT ![l] = "accepting"]
  /\ Goto(l, "wait")
  /\ UNCHANGED <<netVars, channel, conn, result, outVars, expired, faults>>

OpenFails(l) ==
  /\ phase[l] = "browser" /\ Fault
  /\ Return(l, "error")
  /\ UNCHANGED <<goVars, outVars, expired>>

\* The select's first case, which may be taken with a connection waiting.
WaitExpired(l) ==
  /\ phase[l] = "wait" /\ l \in expired
  /\ Return(l, "error")
  /\ UNCHANGED <<goVars, outVars, expired, faults>>

\* Faulty variant: r.err is not looked at.
WaitConnUnchecked(l) ==
  /\ phase[l] = "wait" /\ channel[l] # Empty
  /\ conn' = [conn EXCEPT ![l] = channel[l]]
  /\ channel' = [channel EXCEPT ![l] = Empty]
  /\ Goto(l, "read")
  /\ UNCHANGED <<netVars, acceptor, result, outVars, expired, faults>>

\* Its second, with a connection.
WaitConn(l) ==
  /\ phase[l] = "wait" /\ channel[l] \in Conns
  /\ conn' = [conn EXCEPT ![l] = channel[l]]
  /\ channel' = [channel EXCEPT ![l] = Empty]
  /\ Goto(l, "read")
  /\ UNCHANGED <<netVars, acceptor, result, outVars, expired, faults>>

\* Its second, with an error.
WaitFails(l) ==
  /\ phase[l] = "wait" /\ channel[l] = Failed
  /\ Return(l, "error")
  /\ channel' = [channel EXCEPT ![l] = Empty]
  /\ UNCHANGED <<acceptor, outVars, expired, faults>>

Complete(r) == r.kind \in {"callback", "refusal", "nostate"}

\* Faulty variant: the state is not compared.
ReadAnyState(l) ==
  /\ phase[l] = "read" /\ Complete(request[conn[l]])
  /\ page' = page \cup {l}
  /\ \/ /\ request[conn[l]].kind = "callback"
        /\ Goto(l, "exchange") /\ UNCHANGED <<conn, result, netVars>>
     \/ /\ request[conn[l]].kind # "callback"
        /\ Return(l, "error")
  /\ UNCHANGED <<goVars, exchanged, token, expired, faults>>

\* The request is read and the page sent; then code and state are looked at.
Read(l) ==
  /\ phase[l] = "read" /\ Complete(request[conn[l]])
  /\ page' = page \cup {l}
  /\ \/ /\ request[conn[l]] = [kind |-> "callback", from |-> l]
        /\ Goto(l, "exchange") /\ UNCHANGED <<conn, result, netVars>>
     \/ /\ request[conn[l]] # [kind |-> "callback", from |-> l]
        /\ Return(l, "error")
  /\ UNCHANGED <<goVars, exchanged, token, expired, faults>>

\* A request that does not parse.
ReadMalformed(l) ==
  /\ phase[l] = "read" /\ request[conn[l]].kind = "malformed"
  /\ Return(l, "error")
  /\ UNCHANGED <<goVars, outVars, expired, faults>>

\* Faulty variant: with no read deadline, only a peer that has said something
\* can fail.
ReadDeadlineUnset(l) ==
  /\ phase[l] = "read" /\ request[conn[l]].kind # "silent"
  /\ Return(l, "error")
  /\ UNCHANGED <<goVars, outVars, expired, faults>>

\* The read deadline passes first.  callbackCtx is not looked at here.
ReadDeadline(l) ==
  /\ phase[l] = "read"
  /\ Return(l, "error")
  /\ UNCHANGED <<goVars, outVars, expired, faults>>

\* oauth.Exchange: the server trades the code, the client takes the token.
Traded(l) ==
  /\ exchanged' = exchanged \cup {<<l, request[conn[l]].from>>}
  /\ token' = l

Exchange(l) ==
  /\ phase[l] = "exchange"
  /\ Traded(l)
  /\ Return(l, "ok")
  /\ UNCHANGED <<goVars, page, expired, faults>>

ExchangeFails(l) ==
  /\ phase[l] = "exchange" /\ Fault
  /\ exchanged' \in {exchanged, exchanged \cup {<<l, request[conn[l]].from>>}}
  /\ Return(l, "error")
  /\ UNCHANGED <<goVars, page, token, expired>>

-----------------------------------------------------------------------------
(* The goroutine *)

Accept(l) ==
  /\ acceptor[l] = "accepting" /\ l \in listening
  /\ \E c \in backlog[l] :
       /\ channel' = [channel EXCEPT ![l] = c]
       /\ backlog' = [backlog EXCEPT ![l] = @ \ {c}]
  /\ acceptor' = [acceptor EXCEPT ![l] = "ended"]
  /\ UNCHANGED <<loginVars, listening, request, outVars, expired, faults>>

\* Faulty variant: without a buffer the error is sent only to a waiting Login.
AcceptFailsUnbuffered(l) ==
  /\ acceptor[l] = "accepting" /\ phase[l] = "wait"
  /\ \/ l \notin listening /\ UNCHANGED faults
     \/ Fault
  /\ channel' = [channel EXCEPT ![l] = Failed]
  /\ acceptor' = [acceptor EXCEPT ![l] = "ended"]
  /\ UNCHANGED <<loginVars, netVars, outVars, expired>>

\* Accept returns an error: the listener is closed, or out of descriptors.
AcceptFails(l) ==
  /\ acceptor[l] = "accepting"
  /\ \/ l \notin listening /\ UNCHANGED faults
     \/ Fault
  /\ channel' = [channel EXCEPT ![l] = Failed]
  /\ acceptor' = [acceptor EXCEPT ![l] = "ended"]
  /\ UNCHANGED <<loginVars, netVars, outVars, expired>>

-----------------------------------------------------------------------------
(* Environment *)

\* callbackCtx is done: the timeout, or the caller's cancellation.
Expire(l) ==
  /\ phase[l] \in {"wait", "read"} /\ l \notin expired
  /\ expired' = expired \cup {l}
  /\ UNCHANGED <<loginVars, netVars, goVars, outVars, faults>>

\* A connection reaches l's listener: from the browser l opened, from the tab
\* of a Login that is over and had the same port, or from anything else.
Connect(l) ==
  /\ l \in listening
  /\ \E c \in Conns, kind \in Kinds, x \in Logins :
       /\ request[c] = NoConn
       /\ kind \in {"callback", "refusal", "nostate"} =>
            \/ x = l /\ phase[l] # "browser"
            \/ acceptor[x] # "none" /\ phase[x] = "done"
       /\ kind \in {"malformed", "silent"} => x = l
       /\ request' = [request EXCEPT ![c] = [kind |-> kind, from |-> x]]
       /\ backlog' = [backlog EXCEPT ![l] = @ \cup {c}]
  /\ UNCHANGED <<loginVars, listening, goVars, outVars, expired, faults>>

-----------------------------------------------------------------------------
LoginStep(l) ==
  \/ OpenBrowser(l) \/ OpenFails(l)
  \/ WaitExpired(l) \/ WaitConn(l) \/ WaitFails(l)
  \/ Read(l) \/ ReadMalformed(l) \/ ReadDeadline(l)
  \/ Exchange(l) \/ ExchangeFails(l)
AcceptStep(l) == Accept(l) \/ AcceptFails(l)

Next == \E l \in Logins :
  Start(l) \/ StartFails(l) \/ LoginStep(l) \/ AcceptStep(l)
    \/ Expire(l) \/ Connect(l)

Spec == Init /\ [][Next]_vars

\* Goroutines run, timers fire, the opener returns, and a request ends within
\* the client's ten seconds.  Nobody need ever connect.
FairSpec ==
  /\ Spec
  /\ \A l \in Logins :
       WF_vars(LoginStep(l)) /\ WF_vars(AcceptStep(l)) /\ WF_vars(Expire(l))

-----------------------------------------------------------------------------
(* Properties *)

\* A Login trades only a code that was issued for its own challenge, whoever
\* connects to its port (loopback.go:93-100).
CodesStayApart == \A pair \in exchanged : pair[1] = pair[2]

\* Login returns, whatever connects and whatever it sends (loopback.go:82-135).
LoginReturns == \A l \in Logins : (phase[l] = "browser") ~> (phase[l] = "done")

\* The accepting goroutine ends, also when Login has stopped waiting for it
\* (loopback.go:113-124).
AcceptorEnds ==
  \A l \in Logins : (acceptor[l] = "accepting") ~> (acceptor[l] = "ended")

InLogin(l) == phase[l] \in {"browser", "wait", "read", "exchange"}

\* The port is bound from Listen until Login returns.  After that Login holds no
\* connection that it serves or that waits at its port, and one that was accepted
\* is left open in the channel only by a Login that its context ended while the
\* goroutine handed it over (loopback.go:47-51, 113-130).
ClosesUp ==
  \A l \in Logins :
    /\ l \in listening <=> InLogin(l)
    /\ ~InLogin(l) => backlog[l] = {} /\ conn[l] = NoConn
    /\ ~InLogin(l) /\ channel[l] \in Conns => l \in expired /\ result[l] = "error"

\* The tab that is told "Sign in complete" belongs to a Login that succeeded
\* (loopback.go:22, 150-162).
PageTellsTruth ==
  \A l \in Logins : phase[l] = "done" /\ l \in page => result[l] = "ok"
=============================================================================

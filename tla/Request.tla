------------------------------- MODULE Request -------------------------------
(***************************************************************************)
(* The requests of the SDK's packages and what client.Client makes of      *)
(* them: pure definitions.  A request's path is its literal route and the  *)
(* segments its arguments become, each in a form: "plain", "reserved" (it  *)
(* holds a character that a path has to escape), "escaped", "dots" (it is  *)
(* "." or ".."), "empty", or "removed" (it is not there any more).  Do     *)
(* signs the path it is given and sends what url.JoinPath makes of it.     *)
(* BaseURL is taken to be an origin: a path in it would be sent, but not   *)
(* signed.                                                                 *)
(***************************************************************************)
EXTENDS Naturals, Sequences

\* What an argument may hold; a slashed one has a slash in the middle.
Values == {"plain", "reserved", "slashed", "dots", "empty"}

\* What cleaning a path may take out of it.
Cleaned == {"dots", "empty"}

Segment(name, form) == [name |-> name, form |-> form]

\* url.PathEscape: one segment whatever the argument holds, but it leaves an
\* argument alone that is a path of its own.
PathEscape(name, v) ==
  <<Segment(name, IF v \in {"reserved", "slashed"} THEN "escaped" ELSE v)>>

\* String concatenation.
Concatenate(name, v) ==
  IF v = "slashed" THEN <<Segment(name, "plain"), Segment(name, "plain")>>
                   ELSE <<Segment(name, v)>>

-----------------------------------------------------------------------------
(* The calls: by what function each is sent ("Do" signs, "DoPublic" and    *)
(* "http" do not), its arguments, how they enter the path ("escaped" or    *)
(* "concatenated"), and its query.                                         *)

Call(name, via, args, how, query) ==
  [name |-> name, via |-> via, args |-> args, how |-> how, query |-> query]
Signed(name) == Call(name, "Do", <<>>, "escaped", "")

CustomerCalls ==
  {Signed("RequestOTP"), Signed("VerifyOTP"), Signed("Me"),
   Signed("Entitlements"), Signed("Downgrade"), Signed("Resume"),
   Call("Features", "Do", <<"product">>, "escaped", ""),
   Call("Portal", "Do", <<>>, "escaped", "return_url"),
   Call("Invoices", "Do", <<>>, "escaped", ""),
   Call("Invoices", "Do", <<>>, "escaped", "starting_after")}

LicenseCalls ==
  {Signed("Check"), Signed("Activate"), Signed("Refresh"), Signed("SyncUsage"),
   Call("PublicKeys", "DoPublic", <<>>, "escaped", ""),
   Call("PublicFreeSnapshot", "DoPublic", <<"product">>, "concatenated", "")}

DeviceCalls ==
  {Call("List", "Do", <<"product">>, "escaped", ""),
   Call("Revoke", "Do", <<"device">>, "escaped", "")}

OauthCalls ==
  {Call("ListProviders", "Do", <<"product">>, "escaped", ""),
   Signed("Exchange")}

DownloadCalls ==
  {Call("Plans", "Do", <<"slug">>, "concatenated", ""),
   Call("StartTrial", "Do", <<"slug">>, "concatenated", ""),
   Call("LatestRelease", "Do", <<"slug", "channel">>, "concatenated", ""),
   Call("IssueDownload", "Do", <<"slug", "channel", "platform">>,
        "concatenated", ""),
   Call("CompleteDownload", "http", <<>>, "escaped", "")}

GithubCalls ==
  {Call("GetAppInfo", "DoPublic", <<>>, "escaped", ""),
   Signed("Installations"), Signed("IssueInstallationToken"),
   Signed("UserToken")}

UsageCalls == {Signed("Track"), Signed("TrackAnonymous")}

AllCalls == CustomerCalls \cup LicenseCalls \cup DeviceCalls \cup OauthCalls
              \cup DownloadCalls \cup GithubCalls \cup UsageCalls

-----------------------------------------------------------------------------
(* Sending *)

\* The path a wrapper passes on when its arguments hold v.
Path(call, v) ==
  [route |-> <<call.name>>,
   args  |-> [i \in DOMAIN call.args |->
               IF call.how = "escaped" THEN PathEscape(call.args[i], v)
                                       ELSE Concatenate(call.args[i], v)],
   query |-> call.query]

\* The calls whose path ends in an argument.
EndsInArgument == {"Features", "List", "Revoke", "IssueDownload"}

\* What becomes of a segment: JoinPath escapes what a path has to escape, and
\* cleans the path, which takes away an empty segment, unless it is the last, a
\* "." and a "..", the latter with the segment before it.
Joined(segment, isLast) ==
  Segment(segment.name,
          IF segment.form \in {"reserved", "escaped"} THEN "escaped"
          ELSE IF segment.form = "dots" \/ (segment.form = "empty" /\ ~isLast)
               THEN "removed" ELSE segment.form)

\* url.JoinPath takes all it is given for a path: the question mark of a query
\* is escaped like any other.
JoinPath(path) ==
  [route |-> IF path.query = "" THEN path.route
                                ELSE Append(path.route, path.query),
   args  |-> [i \in DOMAIN path.args |->
               [k \in DOMAIN path.args[i] |->
                 Joined(path.args[i][k],
                        i = Len(path.args) /\ path.route[1] \in EndsInArgument)]],
   query |-> ""]

\* What is signed: the path as it was passed.
Canonical(path) == path

\* Do and DoPublic join the path; CompleteDownload posts to a URL it was given.
Sent(call, v) ==
  IF call.via = "http" THEN Path(call, v) ELSE JoinPath(Path(call, v))

\* The server checks the signature against the path it receives, ...
Verified(call, v) == Canonical(Path(call, v)) = Sent(call, v)

\* ... which is of the call's route if every argument is a segment of it.
Routed(call, v) ==
  \A i \in DOMAIN call.args :
    LET segments == Sent(call, v).args[i]
    IN Len(segments) = 1 /\ segments[1].form \notin {"empty", "removed"}

SignedCalls == {c \in AllCalls : c.via = "Do"}

\* Calls and values with which the server serves them.
Accepted ==
  {q \in {c.name : c \in SignedCalls} \X Values :
     \E c \in SignedCalls : c.name = q[1] /\ Verified(c, q[2]) /\ Routed(c, q[2])}
=============================================================================

------------------------------ MODULE Gateway ------------------------------
(***************************************************************************)
(* The data plane, internal/gateway/handler.go: concurrent client requests *)
(* that resolve a model to a list of candidates and try one after another, *)
(* sharing the account pool, until one upstream answer is relayed.         *)
(*                                                                         *)
(* A request runs on its own goroutine.  The points where it blocks are    *)
(* its control states:                                                     *)
(*   pick   at the top of the failover loop (pool mutex)                   *)
(*   sent   waiting for upstream response headers                          *)
(*   drain  reading the body of an upstream error                          *)
(*   relay  relaying the committed answer to the client                    *)
(* What the handler does between two of them touches nothing shared but    *)
(* the pool, so it is one step.                                            *)
(*                                                                         *)
(* The history of attempts is read by no action; it is what the answer     *)
(* and the log row are compared with.                                      *)
(***************************************************************************)
EXTENDS AccountPool, Sequences

CONSTANTS
    Requests,
    Snapshots,         \* routing snapshots an admin may publish
    Calls,             \* what a client may ask for
    UpstreamStatuses   \* status codes an upstream may answer with

VARIABLES
    snapshot,          \* engine.Holder's pointer
    pc,
    call,
    snap,              \* the snapshot pinned by the request
    attempt,           \* index of the candidate being tried
    account,           \* account of the current attempt
    answer,            \* status of the upstream response being handled
    last,              \* lastStatus, lastErrBody, lastUpstream, lastAccount
    capture,           \* the attempt each captured payload segment belongs to
    cancelled,         \* the client went away: r.Context() is done
    reply,             \* what the client was told
    row,               \* the request_logs row
    history            \* attempts so far

requestVars == <<pc, call, snap, attempt, account, answer, last, capture, cancelled, reply, row, history>>
vars == <<snapshot, requestVars, poolVars>>

NoAccount == 0
None == [kind |-> "none"]

\* The body of attempt 0 is no body.
Reply(status, body) == [kind |-> "reply", status |-> status, body |-> body]

Row(status, success, attempts, upstream, acct) ==
    [kind |-> "row", status |-> status, success |-> success, attempts |-> attempts,
     upstream |-> upstream, account |-> acct]

Attempt(c, acct, status, body) == [cand |-> c, account |-> acct, status |-> status, body |-> body]

NothingYet == [status |-> 0, body |-> 0, upstream |-> 0, account |-> NoAccount]

Capture(up, resp) == [upstream |-> up, response |-> resp]
NoCapture == Capture(0, 0)

\* What Resolve yields: provider accounts, the route's account if it pins one,
\* a channel reached by conversion, and one that serves embeddings.
Candidates ==
    [accounts : Providers, pin : Accounts \cup {NoAccount}, cross : BOOLEAN, embeds : BOOLEAN]

ASSUME SnapshotsAssumption ==
    \A s \in Snapshots : s.failover \in Int /\ s.cands \in Seq(Candidates)

ASSUME NoAccountAssumption == NoAccount \notin Accounts

ASSUME CallsAssumption == Calls # {}

ASSUME StatusesAssumption == UpstreamStatuses \subseteq Nat
-----------------------------------------------------------------------------
Greater(m, n) == IF m >= n THEN m ELSE n

\* At least one attempt, and never more than there are candidates.
MaxAttempts(s) == Lesser(Greater(s.failover, 1), Len(s.cands))

IsAuth(status) == status \in {401, 403}
IsRetriable(status) == status \in {408, 429} \/ status >= 500
FailsOver(status) == IsAuth(status) \/ IsRetriable(status)

OutcomeOf(status) ==
    IF IsAuth(status) THEN "AuthError"
    ELSE IF status = 429 THEN "RateLimited" ELSE "ServerError"

Chat(r) == call[r].kind = "chat"
Cand(r) == snap[r].cands[attempt[r]]
InBudget(r) == attempt[r] <= (IF Chat(r) THEN MaxAttempts(snap[r]) ELSE Len(snap[r].cands))

\* count_tokens traffic is never recorded.
Recorded(r) == IF call[r].kind = "count" THEN 0 ELSE attempt[r]

\* Pinned candidates bypass the rotation.
Pinned(r) == Cand(r).pin # NoAccount

Init ==
    /\ PoolInit
    /\ snapshot \in Snapshots
    /\ pc = [r \in Requests |-> "idle"]
    /\ call = [r \in Requests |-> None]
    /\ snap = [r \in Requests |-> None]
    /\ attempt = [r \in Requests |-> 0]
    /\ account = [r \in Requests |-> NoAccount]
    /\ answer = [r \in Requests |-> 0]
    /\ last = [r \in Requests |-> NothingYet]
    /\ capture = [r \in Requests |-> NoCapture]
    /\ cancelled = [r \in Requests |-> FALSE]
    /\ reply = [r \in Requests |-> None]
    /\ row = [r \in Requests |-> None]
    /\ history = [r \in Requests |-> <<>>]
-----------------------------------------------------------------------------
Goto(r, label) == pc' = [pc EXCEPT ![r] = label]

\* The handler returns, having answered; a None row means nothing is logged.
Finish(r, rep, logged) ==
    /\ Goto(r, "done")
    /\ reply' = [reply EXCEPT ![r] = rep]
    /\ row' = [row EXCEPT ![r] = logged]

\* The body does not parse, names no model or is not stateless: 400, no row.
Reject(r) ==
    /\ pc[r] = "idle"
    /\ Finish(r, Reply(400, 0), None)
    /\ UNCHANGED <<snapshot, call, snap, attempt, account, answer, last, capture, cancelled, history, poolVars>>

\* The candidate a call starts at; 0 when none can serve it.
FirstCandidate(c, s) ==
    LET able == {i \in 1..Len(s.cands) : c.kind = "embed" => s.cands[i].embeds}
    IN  IF able = {} THEN 0 ELSE CHOOSE i \in able : \A j \in able : i <= j

\* count_tokens on a first candidate that is not native is estimated locally.
Estimated(c, s) == c.kind = "count" /\ s.cands[1].cross

\* Resolve against the snapshot of this moment, which the request keeps.
Admit(r, c) ==
    /\ pc[r] = "idle"
    /\ call' = [call EXCEPT ![r] = c]
    /\ snap' = [snap EXCEPT ![r] = snapshot]
    /\ attempt' = [attempt EXCEPT ![r] = FirstCandidate(c, snapshot)]
    /\ IF FirstCandidate(c, snapshot) = 0
       THEN Finish(r, Reply(404, 0),
                   IF c.kind = "chat" THEN Row(404, FALSE, 1, 0, NoAccount) ELSE None)
       ELSE IF Estimated(c, snapshot)
       THEN Finish(r, Reply(200, 0), None)
       ELSE Goto(r, "pick") /\ UNCHANGED <<reply, row>>
    /\ UNCHANGED <<snapshot, account, answer, last, capture, cancelled, history, poolVars>>
-----------------------------------------------------------------------------
\* Mutant: the loop does not advance.
SameCandidate(r, acct, status, body) ==
    /\ Goto(r, "pick")
    /\ UNCHANGED <<attempt, history, reply, row>>

\* The attempt failed before the first byte: on to the next candidate.
NextCandidate(r, acct, status, body) ==
    /\ Goto(r, "pick")
    /\ attempt' = [attempt EXCEPT ![r] = @ + 1]
    /\ history' = [history EXCEPT ![r] = Append(@, Attempt(attempt[r], acct, status, body))]
    /\ UNCHANGED <<reply, row>>

\* Mutant: the payload of the previous attempt is kept.
KeepAttempt(r) == UNCHANGED capture

\* The loop forgets what the previous attempt recorded.
ResetAttempt(r) == capture' = [capture EXCEPT ![r] = NoCapture]

\* The route-pinned account cools: nothing is sent for this candidate.
SkipPinned(r) ==
    /\ pc[r] = "pick" /\ InBudget(r)
    /\ Pinned(r) /\ Cooling(Cand(r).pin)
    /\ IF Chat(r)
       THEN /\ last' = [last EXCEPT ![r].status = 503, ![r].upstream = attempt[r]]
            /\ ResetAttempt(r)
            /\ NextCandidate(r, NoAccount, 503, FALSE)
       ELSE /\ Finish(r, Reply(503, 0), None)
            /\ UNCHANGED <<last, capture, attempt, history>>
    /\ UNCHANGED <<snapshot, call, snap, account, answer, cancelled, poolVars>>

\* A provider without enabled accounts ends the request, whatever follows it.
NoAccounts(r) ==
    /\ pc[r] = "pick" /\ InBudget(r)
    /\ ~Pinned(r) /\ DOMAIN Cand(r).accounts = {}
    /\ Finish(r, Reply(503, 0),
              IF Chat(r) THEN Row(503, FALSE, attempt[r], attempt[r], NoAccount) ELSE None)
    /\ ResetAttempt(r)
    /\ UNCHANGED <<snapshot, call, snap, attempt, account, answer, last, cancelled, history, poolVars>>

\* Mutant: a pinned account is taken even while it cools.
PickBlindly(r, a) ==
    IF Pinned(r) THEN a = Cand(r).pin /\ UNCHANGED poolVars ELSE Pick(Cand(r).accounts, a)

\* Mutant: the pin is ignored once the loop has failed over.
PickUnpinned(r, a) ==
    IF Pinned(r) /\ history[r] = <<>>
    THEN a = Cand(r).pin /\ ~Cooling(a) /\ UNCHANGED poolVars
    ELSE Pick(Cand(r).accounts, a)

\* Mutant: a pinned pick is charged to a rotation that never credited it.
PickCharged(r, a) ==
    IF Pinned(r)
    THEN /\ a = Cand(r).pin /\ ~Cooling(a)
         /\ current' = [current EXCEPT ![a] = @ - 1]
         /\ UNCHANGED <<cooldown, backoff>>
    ELSE Pick(Cand(r).accounts, a)

\* pickAccount: a pinned account verbatim, otherwise the pool's rotation.
PickAccount(r, a) ==
    IF Pinned(r)
    THEN a = Cand(r).pin /\ ~Cooling(a) /\ UNCHANGED poolVars
    ELSE Pick(Cand(r).accounts, a)

\* The client's body cannot be converted for a candidate of another protocol.
Unpreparable(r) == Chat(r) /\ Cand(r).cross /\ ~call[r].decodable

Send(r, a) ==
    /\ pc[r] = "pick" /\ InBudget(r)
    /\ PickAccount(r, a)
    /\ account' = [account EXCEPT ![r] = a]
    /\ last' = [last EXCEPT ![r].upstream = attempt[r], ![r].account = a]
    /\ IF Unpreparable(r)
       THEN /\ Finish(r, Reply(400, 0), Row(400, FALSE, attempt[r], attempt[r], a))
            /\ ResetAttempt(r)
       ELSE /\ Goto(r, "sent")
            /\ capture' = [capture EXCEPT ![r] = Capture(Recorded(r), 0)]
            /\ UNCHANGED <<reply, row>>
    /\ UNCHANGED <<snapshot, call, snap, attempt, answer, cancelled, history>>
-----------------------------------------------------------------------------
\* Dial, TLS, header timeout, broken connection, or the client's own context.
Unreachable(r) ==
    /\ pc[r] = "sent"
    /\ IF Chat(r)
       THEN /\ Report(account[r], "ServerError", 0)
            /\ last' = [last EXCEPT ![r].status = 502]
            /\ NextCandidate(r, account[r], 502, FALSE)
       ELSE /\ Finish(r, Reply(502, 0), None)
            /\ UNCHANGED <<last, attempt, history, poolVars>>
    /\ UNCHANGED <<snapshot, call, snap, account, answer, capture, cancelled>>

\* Mutant: a stream's status goes out before it is classified.
ToldAtOnceUnclassified(r, status) == Chat(r) /\ call[r].stream

\* Answers whose status line is written as soon as the headers are in.
ToldAtOnce(r, status) ==
    IF call[r].kind = "count" THEN status \in 200..299
    ELSE Chat(r) /\ call[r].stream /\ status < 400

\* A stream that is converted always starts with 200.
StatusLine(r, status) == IF Chat(r) /\ Cand(r).cross THEN 200 ELSE status

\* Response headers arrive.  A chat request fails over on some; count_tokens
\* falls back to its estimate on any but 2xx; everything else commits.
Answers(r, status) ==
    /\ pc[r] = "sent"
    /\ ~cancelled[r]
    /\ answer' = [answer EXCEPT ![r] = status]
    /\ capture' = [capture EXCEPT ![r].response = Recorded(r)]
    /\ IF call[r].kind = "count" /\ ~ToldAtOnce(r, status)
       THEN Finish(r, Reply(200, 0), None)
       ELSE /\ Goto(r, IF Chat(r) /\ FailsOver(status) THEN "drain" ELSE "relay")
            /\ reply' = IF ToldAtOnce(r, status)
                        THEN [reply EXCEPT ![r] = Reply(StatusLine(r, status), attempt[r])] ELSE reply
            /\ UNCHANGED row
    /\ UNCHANGED <<snapshot, call, snap, attempt, account, last, cancelled, history, poolVars>>

\* Mutant: an empty error body erases the one kept from an earlier attempt.
RememberBlank(r, hasBody) == IF hasBody THEN attempt[r] ELSE 0

\* An empty error body leaves the one of an earlier attempt in place.
Remember(r, hasBody) == IF hasBody THEN attempt[r] ELSE last[r].body

\* The error body is read (none if empty or broken) and the pool is told.
Drained(r, hasBody, retryAfter) ==
    /\ pc[r] = "drain"
    /\ cancelled[r] => ~hasBody
    /\ last' = [last EXCEPT ![r].status = answer[r],
                            ![r].body = Remember(r, hasBody)]
    /\ Report(account[r], OutcomeOf(answer[r]), retryAfter)
    /\ NextCandidate(r, account[r], answer[r], hasBody)
    /\ UNCHANGED <<snapshot, call, snap, account, answer, capture, cancelled>>

\* What the client is told when the relay ends.  A buffered answer that could
\* not be read or converted leaves the handler with nothing written, and
\* net/http completes such a response with 200 and no body.
Relayed(r, end) ==
    IF reply[r] # None THEN reply[r]
    ELSE IF end = "unread" THEN Reply(200, 0) ELSE Reply(answer[r], attempt[r])

\* Mutant: success is the upstream's status alone.
SucceededUpstream(r, end) == answer[r] < 400

Succeeded(r, end) == end = "complete" /\ answer[r] < 400

\* The relay of the committed answer ends: complete, broken on the upstream
\* side (unread) or on the client side (unwritten).  A stream that ends after
\* the client left is not complete, whatever ended it.
RelayEnds(r, end) ==
    /\ pc[r] = "relay"
    /\ end = "unwritten" => cancelled[r]
    /\ end = "complete" /\ Chat(r) /\ ToldAtOnce(r, answer[r]) => ~cancelled[r]
    /\ Finish(r, Relayed(r, end),
              IF call[r].kind = "count" THEN None
              ELSE Row(answer[r], Succeeded(r, end),
                       IF Chat(r) THEN attempt[r] ELSE 1, attempt[r], account[r]))
    /\ IF Chat(r) THEN Report(account[r], "OK", 0) ELSE UNCHANGED poolVars
    /\ UNCHANGED <<snapshot, call, snap, attempt, account, answer, last, capture, cancelled, history>>

\* Every candidate failed before the first byte.
Exhausted(r) ==
    /\ pc[r] = "pick" /\ ~InBudget(r)
    /\ LET status == IF last[r].status < 400 THEN 502 ELSE last[r].status
       IN  Finish(r, Reply(status, last[r].body),
                  Row(status, FALSE, MaxAttempts(snap[r]), last[r].upstream, last[r].account))
    /\ UNCHANGED <<snapshot, call, snap, attempt, account, answer, last, capture, cancelled, history, poolVars>>
-----------------------------------------------------------------------------
\* The client hangs up: the request's context, which every upstream call
\* carries, is cancelled.
HangUp(r) ==
    /\ pc[r] \in {"pick", "sent", "drain", "relay"}
    /\ ~cancelled[r]
    /\ cancelled' = [cancelled EXCEPT ![r] = TRUE]
    /\ UNCHANGED <<snapshot, pc, call, snap, attempt, account, answer, last, capture, reply, row, history, poolVars>>

\* An admin change installs another snapshot.
Publish(s) ==
    /\ s # snapshot
    /\ snapshot' = s
    /\ UNCHANGED <<requestVars, poolVars>>

Clock == Tick /\ UNCHANGED <<snapshot, requestVars>>

\* Steps of the handler that wait for nobody but the pool mutex.
Runs(r) ==
    \/ SkipPinned(r)
    \/ NoAccounts(r)
    \/ \E a \in Accounts : Send(r, a)
    \/ Exhausted(r)

\* Steps of the handler that end a wait for the upstream.
Hears(r) ==
    \/ Unreachable(r)
    \/ \E status \in UpstreamStatuses : Answers(r, status)
    \/ \E hasBody \in BOOLEAN, d \in RetryAfters : Drained(r, hasBody, d)
    \/ \E end \in {"complete", "unread", "unwritten"} : RelayEnds(r, end)

Next ==
    \/ \E r \in Requests :
          \/ Reject(r)
          \/ \E c \in Calls : Admit(r, c)
          \/ Runs(r)
          \/ Hears(r)
          \/ HangUp(r)
    \/ \E s \in Snapshots : Publish(s)
    \/ Clock

(***************************************************************************)
(* The handler's own steps are scheduled by the Go runtime.  An upstream   *)
(* owes nothing: a body can stall for ever, so a wait for it is fair only  *)
(* once the client's context is cancelled, which ends every such call.     *)
(* Clients are taken to hang up sooner or later on a request that is not   *)
(* answered.                                                               *)
(***************************************************************************)
Fairness ==
    \A r \in Requests :
        /\ WF_vars(Runs(r))
        /\ WF_vars(cancelled[r] /\ Hears(r))
        /\ WF_vars(HangUp(r))

Spec == Init /\ [][Next]_vars /\ Fairness
-----------------------------------------------------------------------------
ControlStates == {"idle", "pick", "sent", "drain", "relay", "done"}

TypeOK ==
    /\ PoolTypeOK
    /\ snapshot \in Snapshots
    /\ pc \in [Requests -> ControlStates]
    /\ call \in [Requests -> Calls \cup {None}]
    /\ snap \in [Requests -> Snapshots \cup {None}]
    /\ attempt \in [Requests -> Nat]
    /\ account \in [Requests -> Accounts \cup {NoAccount}]
    /\ answer \in [Requests -> UpstreamStatuses \cup {0}]
    /\ cancelled \in [Requests -> BOOLEAN]
    /\ \A r \in Requests : pc[r] \in {"pick", "sent", "drain", "relay"} =>
          call[r] \in Calls /\ snap[r] \in Snapshots

InFlight(r) == pc[r] \in {"sent", "drain", "relay"}

\* An attempt in flight uses the account its candidate is pinned to, or one of
\* the candidate's provider, as the snapshot it resolved against lists them,
\* whatever has been published meanwhile (snapshot.go:3-4, "config changes
\* never disturb in-flight traffic").
AccountOfCandidate ==
    \A r \in Requests : InFlight(r) =>
        /\ attempt[r] \in 1..Len(snap[r].cands)
        /\ IF Pinned(r) THEN account[r] = Cand(r).pin
           ELSE account[r] \in DOMAIN Cand(r).accounts

\* Once the client has been told a status, the request is tied to the attempt
\* that produced it: no other candidate, no other account, no second answer
\* (failover only before the first forwarded byte).
FailoverBeforeFirstByte ==
    [][\A r \in Requests : reply[r] # None =>
          /\ reply'[r] = reply[r]
          /\ attempt'[r] = attempt[r]
          /\ account'[r] = account[r]
          /\ history'[r] = history[r]]_vars

\* A cooling account is used only when the pool had no other account to give
\* and no shorter wait, and never through a pin.
CoolingAvoided ==
    [][\A r \in Requests : pc[r] = "pick" /\ pc'[r] = "sent" /\ Cooling(account'[r]) =>
          /\ ~Pinned(r)
          /\ \A b \in DOMAIN Cand(r).accounts : cooldown[b] >= cooldown[account'[r]]]_vars

\* The latest of some attempts; 0 for none.
Latest(hits) == IF hits = {} THEN 0 ELSE Max(hits)

\* The latest attempt whose error body could be read, and the account that was
\* used last.
LastBody(h) == Latest({i \in DOMAIN h : h[i].body})

LastUser(h) ==
    LET i == Latest({j \in DOMAIN h : h[j].account # NoAccount})
    IN  IF i = 0 THEN NoAccount ELSE h[i].account

\* The handler folds the attempts into four variables that each attempt
\* overwrites in part.  When every candidate failed, what it answers and logs
\* is what the attempts say: the status of the last one, the latest error
\* body anyone sent, and the account that was used last.
AnswerSummarisesAttempts ==
    \A r \in Requests :
        LET h == history[r] IN
        pc[r] = "done" /\ h # <<>> /\ Len(h) = MaxAttempts(snap[r]) =>
            /\ reply[r] = Reply(h[Len(h)].status, LastBody(h))
            /\ row[r].status = reply[r].status /\ ~row[r].success
            /\ row[r].attempts = Len(h)
            /\ row[r].upstream = h[Len(h)].cand
            /\ row[r].account = LastUser(h)

\* A recorded payload never mixes attempts: its upstream request and response
\* are of one attempt, and that is the attempt the log row ends with.
CaptureOfOneAttempt ==
    \A r \in Requests :
        /\ capture[r].response \in {0, capture[r].upstream}
        /\ pc[r] = "done" /\ row[r] # None /\ Chat(r) =>
              capture[r].upstream \in {0, row[r].attempts}

\* The log never calls a request successful unless the client got the answer of
\* the attempt the row names, from the account it names, as a success and to the
\* end of the upstream's body.  What the body says is not looked at: a stream
\* that carries an error of the upstream and then ends is a success.
SuccessIsTold ==
    \A r \in Requests : row[r] # None /\ row[r].success =>
        /\ reply[r] # None
        /\ reply[r].body = row[r].upstream
        /\ reply[r].status < 400 /\ row[r].status < 400
        /\ row[r].account = account[r]

\* Every request ends once its client gives up, whatever the upstreams do.
EventuallyEnds == \A r \in Requests : pc[r] # "idle" ~> pc[r] = "done"
=============================================================================

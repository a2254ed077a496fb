--------------------------- MODULE GatewayProofs ---------------------------
(***************************************************************************)
(* What holds of the data plane for any number of requests, accounts,      *)
(* candidates and snapshots: its state is well formed, an attempt uses an  *)
(* account its candidate allows, a request that has told its client a      *)
(* status never moves to another attempt, its log never claims a success   *)
(* the client did not get, what it answers when every candidate failed is  *)
(* what the attempts say, and a payload is of one attempt.                 *)
(***************************************************************************)
EXTENDS Gateway, AccountPoolProofs

\* A request between its admission and its end.
Waiting(r) == pc[r] \in {"pick", "sent", "drain", "relay"}

\* What the control state of a request says of its other variables.
RequestOK(r) ==
    /\ Waiting(r) => attempt[r] >= 1
    /\ InFlight(r) => /\ attempt[r] <= Len(snap[r].cands)
                      /\ IF Pinned(r) THEN account[r] = Cand(r).pin
                         ELSE account[r] \in DOMAIN Cand(r).accounts
    /\ reply[r] # None => pc[r] \in {"relay", "done"}
    /\ pc[r] = "relay" /\ reply[r] # None => reply[r].body = attempt[r] /\ reply[r].status < 400
    /\ row[r] # None => pc[r] = "done"
    /\ row[r] # None /\ row[r].success =>
          /\ reply[r] # None
          /\ reply[r].body = row[r].upstream
          /\ reply[r].status < 400 /\ row[r].status < 400
          /\ row[r].account = account[r]

\* The variables that no type bounds are still tables over the requests.
TablesOK ==
    /\ DOMAIN reply = Requests /\ reply = [r \in Requests |-> reply[r]]
    /\ DOMAIN row = Requests /\ row = [r \in Requests |-> row[r]]

Inv == TypeOK /\ TablesOK /\ \A r \in Requests : RequestOK(r)
-----------------------------------------------------------------------------
\* The candidate a call starts at is one of the list, or there is none.
LEMMA FirstInRange ==
    ASSUME NEW c, NEW s \in Snapshots
    PROVE  FirstCandidate(c, s) \in 0..Len(s.cands)
<1> DEFINE able == {i \in 1..Len(s.cands) : c.kind = "embed" => s.cands[i].embeds}
<1>1. Len(s.cands) \in Nat
    BY SnapshotsAssumption
<1>2. CASE able = {}
    BY <1>1, <1>2 DEF FirstCandidate
<1>3. CASE able # {}
  <2>1. able \in SUBSET Nat
      BY <1>1
  <2>2. \E i \in able : \A j \in able : i <= j
      BY <1>3, <2>1, Least
  <2>3. FirstCandidate(c, s) \in able
      BY <1>3, <2>2 DEF FirstCandidate
  <2>4. QED
      BY <1>1, <2>3
<1>4. QED
    BY <1>2, <1>3

\* While the loop has budget, its index names a candidate of the snapshot.
LEMMA BudgetInRange ==
    ASSUME TypeOK, NEW r \in Requests, pc[r] = "pick", attempt[r] >= 1, InBudget(r)
    PROVE  /\ snap[r] \in Snapshots
           /\ attempt[r] \in 1..Len(snap[r].cands)
           /\ Cand(r) \in Candidates
<1>1. snap[r] \in Snapshots /\ attempt[r] \in Nat
    BY DEF TypeOK
<1>2. snap[r].cands \in Seq(Candidates) /\ snap[r].failover \in Int
    BY <1>1, SnapshotsAssumption
<1>3. Len(snap[r].cands) \in Nat
    BY <1>2
<1>4. MaxAttempts(snap[r]) <= Len(snap[r].cands) /\ MaxAttempts(snap[r]) \in Int
    BY <1>2, <1>3 DEF MaxAttempts, Lesser, Greater
<1>5. attempt[r] \in 1..Len(snap[r].cands)
    BY <1>1, <1>3, <1>4 DEF InBudget
<1>6. QED
    BY <1>1, <1>2, <1>5 DEF Cand

\* An account in flight is one the pool knows.
LEMMA FlightAccount ==
    ASSUME Inv, NEW r \in Requests, InFlight(r)
    PROVE  account[r] \in Accounts
<1>1. /\ snap[r] \in Snapshots
      /\ attempt[r] \in 1..Len(snap[r].cands)
  <2>1. Waiting(r) /\ snap[r] \in Snapshots /\ attempt[r] \in Nat
      BY DEF Inv, TypeOK, InFlight, Waiting
  <2>2. Len(snap[r].cands) \in Nat
      BY <2>1, SnapshotsAssumption
  <2>3. QED
      BY <2>1, <2>2 DEF Inv, RequestOK
<1>2. Cand(r) \in Candidates
    BY <1>1, SnapshotsAssumption DEF Cand
<1>3. /\ Cand(r).pin \in Accounts \cup {NoAccount}
      /\ DOMAIN Cand(r).accounts \subseteq Accounts
    BY <1>2, AccountsAssumption DEF Candidates
<1>4. QED
    BY <1>3 DEF Inv, RequestOK, Pinned

\* What a step leaves of another request's variables.
Untouched(q) ==
    /\ pc'[q] = pc[q] /\ snap'[q] = snap[q] /\ attempt'[q] = attempt[q]
    /\ account'[q] = account[q] /\ answer'[q] = answer[q]
    /\ reply'[q] = reply[q] /\ row'[q] = row[q]

\* A request whose variables do not change keeps what is true of it.
LEMMA Frame ==
    ASSUME NEW q \in Requests, RequestOK(q), Untouched(q)
    PROVE  RequestOK(q)'
BY DEF RequestOK, Untouched, Waiting, InFlight, Pinned, Cand

\* Where a step may send the request, and that only ever ends a wait.
LEMMA GotoFacts ==
    ASSUME Inv, NEW r \in Requests, NEW label \in ControlStates, Goto(r, label)
    PROVE  /\ pc' \in [Requests -> ControlStates]
           /\ pc'[r] = label
           /\ \A q \in Requests \ {r} : pc'[q] = pc[q]
BY DEF Goto, Inv, TypeOK

\* The end of a request settles its answer and its row and nobody else's.
LEMMA FinishFacts ==
    ASSUME Inv, NEW r \in Requests, NEW rep, NEW logged, Finish(r, rep, logged)
    PROVE  /\ TablesOK'
           /\ pc' \in [Requests -> ControlStates]
           /\ pc'[r] = "done" /\ reply'[r] = rep /\ row'[r] = logged
           /\ \A q \in Requests \ {r} :
                 pc'[q] = pc[q] /\ reply'[q] = reply[q] /\ row'[q] = row[q]
<1>1. "done" \in ControlStates
    BY DEF ControlStates
<1>2. TablesOK' /\ reply'[r] = rep /\ row'[r] = logged
    BY DEF Finish, Inv, TablesOK
<1>3. \A q \in Requests \ {r} : reply'[q] = reply[q] /\ row'[q] = row[q]
    BY DEF Finish, Inv, TablesOK
<1>4. QED
    BY <1>1, <1>2, <1>3, GotoFacts DEF Finish

\* The gateway starts idle.
LEMMA InitInv == Init => Inv
<1> SUFFICES ASSUME Init PROVE Inv
    OBVIOUS
<1>1. PoolTypeOK
    BY PoolInitType DEF Init
<1>2. TypeOK
    BY <1>1 DEF Init, TypeOK, ControlStates
<1>3. TablesOK
    BY DEF Init, TablesOK
<1>4. \A r \in Requests : RequestOK(r)
    BY DEF Init, RequestOK, Waiting, InFlight
<1>5. QED
    BY <1>2, <1>3, <1>4 DEF Inv

\* A request is answered as it is admitted, or waits for its first candidate.
LEMMA AdmitCases ==
    ASSUME NEW r \in Requests, NEW c \in Calls, Admit(r, c)
    PROVE  \/ \E rep, logged : Finish(r, rep, logged)
           \/ Goto(r, "pick") /\ UNCHANGED <<reply, row>>
<1>1. CASE FirstCandidate(c, snapshot) = 0
  <2>1. Finish(r, Reply(404, 0), IF c.kind = "chat" THEN Row(404, FALSE, 1, 0, NoAccount) ELSE None)
      BY <1>1 DEF Admit
  <2>2. QED
      BY <2>1
<1>2. CASE FirstCandidate(c, snapshot) # 0 /\ Estimated(c, snapshot)
  <2>1. Finish(r, Reply(200, 0), None)
      BY <1>2 DEF Admit
  <2>2. QED
      BY <2>1
<1>3. CASE FirstCandidate(c, snapshot) # 0 /\ ~Estimated(c, snapshot)
    BY <1>3 DEF Admit
<1>4. QED
    BY <1>1, <1>2, <1>3

\* A request refused or estimated at once, or admitted to its first candidate.
LEMMA AdmitInv ==
    ASSUME Inv, NEW r \in Requests, NEW c \in Calls, Reject(r) \/ Admit(r, c)
    PROVE  Inv'
<1>1. \A q \in Requests \ {r} : Untouched(q)
  <2>1. CASE Reject(r)
    <3>1. UNCHANGED <<snap, attempt, account, answer>> /\ Finish(r, Reply(400, 0), None)
        BY <2>1 DEF Reject
    <3>2. QED
        BY <3>1, FinishFacts DEF Untouched
  <2>2. CASE Admit(r, c)
    <3>1. \A q \in Requests \ {r} : snap'[q] = snap[q] /\ attempt'[q] = attempt[q]
        BY <2>2 DEF Admit, Inv, TypeOK
    <3>2. UNCHANGED <<account, answer>>
        BY <2>2 DEF Admit
    <3>3. \/ \E rep, logged : Finish(r, rep, logged)
          \/ Goto(r, "pick") /\ UNCHANGED <<reply, row>>
        BY <2>2, AdmitCases
    <3>4. "pick" \in ControlStates
        BY DEF ControlStates
    <3>5. \A q \in Requests \ {r} : pc'[q] = pc[q] /\ reply'[q] = reply[q] /\ row'[q] = row[q]
        BY <3>3, <3>4, FinishFacts, GotoFacts
    <3>6. QED
        BY <3>1, <3>2, <3>5 DEF Untouched
  <2>3. QED
      BY <2>1, <2>2
<1>2. PoolTypeOK'
    BY DEF Reject, Admit, poolVars, Inv, TypeOK, PoolTypeOK
<1>3. CASE Reject(r)
  <2>1. TypeOK'
      BY <1>2, <1>3 DEF Reject, Finish, Goto, Inv, TypeOK, ControlStates
  <2>2. TablesOK'
      BY <1>3 DEF Reject, Finish, Inv, TablesOK
  <2>3. pc'[r] = "done" /\ row'[r] = None
      BY <1>3 DEF Reject, Finish, Goto, Inv, TypeOK, TablesOK
  <2>4. RequestOK(r)'
      BY <2>3 DEF RequestOK, Waiting, InFlight
  <2>5. QED
      BY <1>1, <2>1, <2>2, <2>4, Frame DEF Inv
<1>4. CASE Admit(r, c)
  <2>1. FirstCandidate(c, snapshot) \in Nat
    <3>1. Len(snapshot.cands) \in Nat /\ snapshot \in Snapshots
        BY SnapshotsAssumption DEF Inv, TypeOK
    <3>2. QED
        BY <3>1, FirstInRange
  <2>2. /\ attempt' = [attempt EXCEPT ![r] = FirstCandidate(c, snapshot)]
        /\ call' = [call EXCEPT ![r] = c] /\ snap' = [snap EXCEPT ![r] = snapshot]
        /\ UNCHANGED <<snapshot, account, answer, cancelled>>
      BY <1>4 DEF Admit
  <2>3. pc' = [pc EXCEPT ![r] = "pick"] \/ pc' = [pc EXCEPT ![r] = "done"]
      BY <1>4 DEF Admit, Finish, Goto
  <2>4. TypeOK'
      BY <1>2, <2>1, <2>2, <2>3 DEF Inv, TypeOK, ControlStates
  <2>5. TablesOK'
    <3>1. CASE UNCHANGED <<reply, row>>
        BY <3>1 DEF Inv, TablesOK
    <3>2. ASSUME NEW rep, NEW logged, Finish(r, rep, logged)
          PROVE  TablesOK'
        BY <3>2, FinishFacts
    <3>3. QED
        BY <1>4, <3>1, <3>2, AdmitCases
  <2>6. row[r] = None /\ reply[r] = None
      BY <1>4 DEF Admit, Inv, RequestOK
  <2>7. \/ /\ pc'[r] = "done"
           /\ row'[r] = None \/ (row'[r] # None /\ row'[r].success = FALSE)
        \/ /\ pc'[r] = "pick" /\ attempt'[r] >= 1
           /\ row'[r] = None /\ reply'[r] = None
      BY <1>4, <2>1, <2>6 DEF Admit, Finish, Goto, Row, None, Inv, TypeOK, TablesOK
  <2>8. RequestOK(r)'
      BY <2>7 DEF RequestOK, Waiting, InFlight
  <2>9. QED
      BY <1>1, <2>4, <2>5, <2>8, Frame DEF Inv
<1>5. QED
    BY <1>3, <1>4

\* A pinned account that cools costs a chat request one turn of its loop and
\* ends any other call.
LEMMA SkipPinnedInv ==
    ASSUME Inv, NEW r \in Requests, SkipPinned(r)
    PROVE  Inv'
<1>1. /\ pc[r] = "pick" /\ attempt[r] >= 1 /\ row[r] = None /\ reply[r] = None
      /\ UNCHANGED <<snapshot, call, snap, account, answer, cancelled>>
      /\ UNCHANGED <<current, cooldown, backoff>>
    BY DEF SkipPinned, poolVars, Inv, RequestOK, Waiting
<1>2. CASE NextCandidate(r, NoAccount, 503, FALSE)
    BY <1>1, <1>2, Frame
       DEF NextCandidate, Goto, Untouched, Inv, TypeOK, PoolTypeOK, TablesOK, ControlStates,
           RequestOK, Waiting, InFlight
<1>3. CASE Finish(r, Reply(503, 0), None) /\ UNCHANGED attempt
  <2>1. /\ TablesOK' /\ pc' \in [Requests -> ControlStates]
        /\ pc'[r] = "done" /\ row'[r] = None
        /\ \A q \in Requests \ {r} : Untouched(q)
      BY <1>1, <1>3, FinishFacts DEF Untouched
  <2>2. TypeOK'
      BY <1>1, <1>3, <2>1 DEF Untouched, Inv, TypeOK, PoolTypeOK
  <2>3. RequestOK(r)'
      BY <2>1 DEF RequestOK, Waiting, InFlight
  <2>4. QED
      BY <2>1, <2>2, <2>3, Frame DEF Inv
<1>4. QED
    BY <1>2, <1>3 DEF SkipPinned

\* A request that ends without an attempt in flight logs no success.
LEMMA GiveUpInv ==
    ASSUME Inv, NEW r \in Requests, NoAccounts(r) \/ Exhausted(r)
    PROVE  Inv'
<1>1. /\ UNCHANGED <<snapshot, call, snap, attempt, account, answer, cancelled>>
      /\ UNCHANGED <<current, cooldown, backoff>>
    BY DEF NoAccounts, Exhausted, poolVars
<1>2. PICK rep, logged : /\ Finish(r, rep, logged)
                         /\ logged # None => logged.success = FALSE
    BY DEF NoAccounts, Exhausted, Row
<1>3. \A q \in Requests \ {r} : Untouched(q)
    BY <1>1, <1>2 DEF Finish, Goto, Untouched, Inv, TypeOK, TablesOK
<1>4. TypeOK' /\ TablesOK'
  <2>1. PoolTypeOK'
      BY <1>1 DEF Inv, TypeOK, PoolTypeOK
  <2>2. pc' \in [Requests -> ControlStates] /\ TablesOK'
      BY <1>2 DEF Finish, Goto, Inv, TypeOK, TablesOK, ControlStates
  <2>3. \A q \in Requests : Waiting(q)' => Waiting(q)
      BY <1>2 DEF Finish, Goto, Waiting, Inv, TypeOK
  <2>4. QED
      BY <1>1, <2>1, <2>2, <2>3 DEF Waiting, Inv, TypeOK
<1>5. pc'[r] = "done" /\ (row'[r] # None => row'[r].success = FALSE)
    BY <1>2 DEF Finish, Goto, Inv, TypeOK, TablesOK
<1>6. RequestOK(r)'
    BY <1>5 DEF RequestOK, Waiting, InFlight
<1>7. QED
    BY <1>3, <1>4, <1>6, Frame DEF Inv

\* An attempt is sent with the account the candidate is pinned to or one the
\* pool gave for its provider.
LEMMA SendInv ==
    ASSUME Inv, NEW r \in Requests, NEW a \in Accounts, Send(r, a)
    PROVE  Inv'
<1>1. /\ pc[r] = "pick" /\ attempt[r] >= 1 /\ row[r] = None /\ reply[r] = None
      /\ InBudget(r) /\ PickAccount(r, a)
      /\ account' = [account EXCEPT ![r] = a]
      /\ UNCHANGED <<snapshot, call, snap, attempt, answer, cancelled>>
    BY DEF Send, Inv, RequestOK, Waiting
<1>2. attempt[r] \in 1..Len(snap[r].cands) /\ Cand(r).accounts \in Providers
    BY <1>1, BudgetInRange DEF Inv, Candidates
<1>3. /\ PoolTypeOK'
      /\ IF Pinned(r) THEN a = Cand(r).pin ELSE a \in DOMAIN Cand(r).accounts
  <2>1. CASE Pinned(r)
      BY <1>1, <2>1 DEF PickAccount, poolVars, PoolTypeOK, Inv, TypeOK
  <2>2. CASE ~Pinned(r)
      BY <1>1, <1>2, <2>2, PickType DEF PickAccount, Inv, TypeOK
  <2>3. QED
      BY <2>1, <2>2
<1>4. \/ pc' = [pc EXCEPT ![r] = "sent"] /\ UNCHANGED <<reply, row>>
      \/ Finish(r, Reply(400, 0), Row(400, FALSE, attempt[r], attempt[r], a))
    BY DEF Send, Goto
<1>5. \A q \in Requests \ {r} : Untouched(q)
  <2>1. \A q \in Requests \ {r} : pc'[q] = pc[q] /\ reply'[q] = reply[q] /\ row'[q] = row[q]
    <3>1. CASE pc' = [pc EXCEPT ![r] = "sent"] /\ UNCHANGED <<reply, row>>
        BY <3>1 DEF Inv, TypeOK
    <3>2. ASSUME NEW rep, NEW logged, Finish(r, rep, logged)
          PROVE  \A q \in Requests \ {r} : pc'[q] = pc[q] /\ reply'[q] = reply[q] /\ row'[q] = row[q]
        BY <3>2, FinishFacts
    <3>3. QED
        BY <1>4, <3>1, <3>2, Zenon
  <2>2. \A q \in Requests \ {r} : account'[q] = account[q]
      BY <1>1 DEF Inv, TypeOK
  <2>3. QED
      BY <1>1, <2>1, <2>2 DEF Untouched
<1>6. TypeOK' /\ TablesOK'
  <2>1. pc' \in [Requests -> ControlStates] /\ TablesOK'
    <3>1. CASE pc' = [pc EXCEPT ![r] = "sent"] /\ UNCHANGED <<reply, row>>
        BY <3>1 DEF Inv, TypeOK, TablesOK, ControlStates
    <3>2. ASSUME NEW rep, NEW logged, Finish(r, rep, logged)
          PROVE  pc' \in [Requests -> ControlStates] /\ TablesOK'
        BY <3>2, FinishFacts
    <3>3. QED
        BY <1>4, <3>1, <3>2, Zenon
  <2>2. \A q \in Requests : Waiting(q)' => Waiting(q)
      BY <1>1, <1>5 DEF Waiting, Untouched
  <2>3. account' \in [Requests -> Accounts \cup {NoAccount}]
      BY <1>1 DEF Inv, TypeOK
  <2>4. QED
      BY <1>1, <1>3, <2>1, <2>2, <2>3 DEF Waiting, Inv, TypeOK
<1>7. RequestOK(r)'
  <2>1. Cand(r)' = Cand(r) /\ Pinned(r)' = Pinned(r) /\ account'[r] = a
      BY <1>1 DEF Cand, Pinned, Inv, TypeOK
  <2>2. CASE pc' = [pc EXCEPT ![r] = "sent"] /\ UNCHANGED <<reply, row>>
    <3>1. pc'[r] = "sent" /\ reply'[r] = None /\ row'[r] = None
        BY <1>1, <2>2 DEF Inv, TypeOK
    <3>2. QED
        BY <1>1, <1>2, <1>3, <2>1, <3>1 DEF RequestOK, Waiting, InFlight
  <2>3. CASE Finish(r, Reply(400, 0), Row(400, FALSE, attempt[r], attempt[r], a))
    <3>1. pc'[r] = "done" /\ row'[r].success = FALSE
        BY <2>3 DEF Finish, Goto, Row, Inv, TypeOK, TablesOK
    <3>2. QED
        BY <3>1 DEF RequestOK, Waiting, InFlight
  <2>4. QED
      BY <1>4, <2>2, <2>3
<1>8. QED
    BY <1>5, <1>6, <1>7, Frame DEF Inv

\* An attempt that failed before the first byte moves the loop on.
LEMMA NextCandidateInv ==
    ASSUME Inv, NEW r \in Requests, NEW acct, NEW status, NEW body,
           Waiting(r), reply[r] = None, row[r] = None, PoolTypeOK',
           NextCandidate(r, acct, status, body),
           UNCHANGED <<snapshot, call, snap, account, answer, cancelled>>
    PROVE  Inv'
<1>1. /\ pc' = [pc EXCEPT ![r] = "pick"] /\ attempt' = [attempt EXCEPT ![r] = @ + 1]
      /\ UNCHANGED <<reply, row>>
    BY DEF NextCandidate, Goto
<1>2. TypeOK' /\ TablesOK'
    BY <1>1 DEF Inv, TypeOK, TablesOK, ControlStates, Waiting
<1>3. \A q \in Requests \ {r} : Untouched(q)
    BY <1>1 DEF Untouched, Inv, TypeOK
<1>4. pc'[r] = "pick" /\ attempt'[r] >= 1 /\ reply'[r] = None /\ row'[r] = None
    BY <1>1 DEF Inv, TypeOK, RequestOK
<1>5. RequestOK(r)'
    BY <1>4 DEF RequestOK, Waiting, InFlight
<1>6. QED
    BY <1>2, <1>3, <1>5, Frame DEF Inv

\* A call that gets no answer, and the body of an error that was read.
LEMMA FailedInv ==
    ASSUME Inv, NEW r \in Requests,
           \/ Unreachable(r)
           \/ \E hasBody \in BOOLEAN, d \in RetryAfters : Drained(r, hasBody, d)
    PROVE  Inv'
<1>1. /\ pc[r] \in {"sent", "drain"} /\ reply[r] = None /\ row[r] = None /\ Waiting(r)
      /\ UNCHANGED <<snapshot, call, snap, account, answer, cancelled>>
  <2>1. /\ pc[r] \in {"sent", "drain"}
        /\ UNCHANGED <<snapshot, call, snap, account, answer, cancelled>>
    <3>1. CASE Unreachable(r)
        BY <3>1 DEF Unreachable
    <3>2. CASE \E hasBody \in BOOLEAN, d \in RetryAfters : Drained(r, hasBody, d)
        BY <3>2 DEF Drained
    <3>3. QED
        BY <3>1, <3>2
  <2>2. Waiting(r) /\ RequestOK(r)
      BY <2>1 DEF Waiting, Inv
  <2>3. QED
      BY <2>1, <2>2 DEF RequestOK
<1>2. CASE \E o, status, body : \E d \in RetryAfters :
              Report(account[r], o, d) /\ NextCandidate(r, account[r], status, body)
    BY <1>1, <1>2, ReportType, NextCandidateInv DEF Inv, TypeOK
<1>3. CASE Finish(r, Reply(502, 0), None) /\ UNCHANGED <<attempt, poolVars>>
  <2>1. /\ TablesOK' /\ pc' \in [Requests -> ControlStates]
        /\ pc'[r] = "done" /\ row'[r] = None
        /\ \A q \in Requests \ {r} : Untouched(q)
      BY <1>1, <1>3, FinishFacts DEF Untouched
  <2>2. TypeOK'
      BY <1>1, <1>3, <2>1 DEF Untouched, poolVars, Inv, TypeOK, PoolTypeOK
  <2>3. RequestOK(r)'
      BY <2>1 DEF RequestOK, Waiting, InFlight
  <2>4. QED
      BY <2>1, <2>2, <2>3, Frame DEF Inv
<1>4. CASE Unreachable(r)
  <2>1. 0 \in RetryAfters
      BY DurationsAssumption
  <2>2. CASE Chat(r)
    <3>1. Report(account[r], "ServerError", 0) /\ NextCandidate(r, account[r], 502, FALSE)
        BY <1>4, <2>2 DEF Unreachable
    <3>2. QED
        BY <1>2, <2>1, <3>1, Zenon
  <2>3. CASE ~Chat(r)
    <3>1. Finish(r, Reply(502, 0), None) /\ UNCHANGED <<attempt, poolVars>>
        BY <1>4, <2>3 DEF Unreachable, poolVars
    <3>2. QED
        BY <1>3, <3>1
  <2>4. QED
      BY <2>2, <2>3
<1>5. ASSUME NEW hasBody \in BOOLEAN, NEW d \in RetryAfters, Drained(r, hasBody, d)
      PROVE  Inv'
  <2>1. Report(account[r], OutcomeOf(answer[r]), d) /\ NextCandidate(r, account[r], answer[r], hasBody)
      BY <1>5 DEF Drained
  <2>2. QED
      BY <1>2, <2>1, Zenon
<1>6. QED
    BY <1>4, <1>5

\* Response headers settle the status of a stream and of nothing that fails over.
LEMMA AnswersInv ==
    ASSUME Inv, NEW r \in Requests, NEW status \in UpstreamStatuses, Answers(r, status)
    PROVE  Inv'
<1>1. /\ pc[r] = "sent" /\ reply[r] = None /\ row[r] = None /\ Waiting(r) /\ InFlight(r)
      /\ answer' = [answer EXCEPT ![r] = status]
      /\ UNCHANGED <<snapshot, call, snap, attempt, account, cancelled>>
      /\ UNCHANGED <<current, cooldown, backoff>>
    BY DEF Answers, poolVars, Waiting, InFlight, Inv, RequestOK
<1>2. PoolTypeOK'
    BY <1>1 DEF PoolTypeOK, Inv, TypeOK
<1>3. CASE Finish(r, Reply(200, 0), None)
  <2>1. /\ TablesOK' /\ pc' \in [Requests -> ControlStates]
        /\ pc'[r] = "done" /\ row'[r] = None
        /\ \A q \in Requests \ {r} : Untouched(q)
      BY <1>1, <1>3, FinishFacts DEF Untouched, Inv, TypeOK
  <2>2. TypeOK'
      BY <1>1, <1>2, <2>1 DEF Untouched, Inv, TypeOK
  <2>3. RequestOK(r)'
      BY <2>1 DEF RequestOK, Waiting, InFlight
  <2>4. QED
      BY <2>1, <2>2, <2>3, Frame DEF Inv
<1>4. CASE /\ Goto(r, IF Chat(r) /\ FailsOver(status) THEN "drain" ELSE "relay")
           /\ reply' = IF ToldAtOnce(r, status)
                       THEN [reply EXCEPT ![r] = Reply(StatusLine(r, status), attempt[r])] ELSE reply
           /\ UNCHANGED row
  <2>1. FailsOver(status) /\ Chat(r) => ~ToldAtOnce(r, status)
    <3>1. status \in Nat
        BY StatusesAssumption
    <3>2. QED
        BY <3>1 DEF FailsOver, ToldAtOnce, Chat, IsAuth, IsRetriable
  <2>2. /\ pc' \in [Requests -> ControlStates]
        /\ pc'[r] \in {"drain", "relay"}
        /\ pc'[r] = "drain" => Chat(r) /\ FailsOver(status)
        /\ \A q \in Requests \ {r} : pc'[q] = pc[q]
      BY <1>4, GotoFacts DEF ControlStates
  <2>3. /\ TablesOK'
        /\ reply'[r] = IF ToldAtOnce(r, status) THEN Reply(StatusLine(r, status), attempt[r]) ELSE None
        /\ row'[r] = None
        /\ \A q \in Requests \ {r} : reply'[q] = reply[q]
      BY <1>1, <1>4 DEF Inv, TablesOK
  <2>4. TypeOK'
      BY <1>1, <1>2, <2>2 DEF Inv, TypeOK, Waiting
  <2>5. \A q \in Requests \ {r} : Untouched(q)
      BY <1>1, <1>4, <2>2, <2>3 DEF Untouched, Inv, TypeOK
  <2>6. answer'[r] = status /\ Cand(r)' = Cand(r) /\ Pinned(r)' = Pinned(r)
      BY <1>1 DEF Cand, Pinned, Inv, TypeOK
  <2>7. pc'[r] = "relay" /\ reply'[r] # None =>
           reply'[r].body = attempt[r] /\ reply'[r].status < 400
    <3>1. ToldAtOnce(r, status) => status < 400
        BY DEF ToldAtOnce
    <3>2. QED
        BY <2>3, <3>1 DEF StatusLine, Reply
  <2>8. RequestOK(r)'
      BY <1>1, <2>1, <2>2, <2>3, <2>6, <2>7 DEF RequestOK, Waiting, InFlight, Inv
  <2>9. QED
      BY <2>3, <2>4, <2>5, <2>8, Frame DEF Inv
<1>5. QED
    BY <1>3, <1>4 DEF Answers

\* The end of a relay logs success only for the answer the client got whole.
LEMMA RelayEndsInv ==
    ASSUME Inv, NEW r \in Requests, NEW end \in {"complete", "unread", "unwritten"},
           RelayEnds(r, end)
    PROVE  Inv'
<1> DEFINE logged == IF call[r].kind = "count" THEN None
                     ELSE Row(answer[r], Succeeded(r, end),
                              IF Chat(r) THEN attempt[r] ELSE 1, attempt[r], account[r])
<1>1. /\ pc[r] = "relay" /\ Waiting(r) /\ InFlight(r)
      /\ Finish(r, Relayed(r, end), logged)
      /\ UNCHANGED <<snapshot, call, snap, attempt, account, answer, cancelled>>
    BY DEF RelayEnds, Waiting, InFlight
<1>2. PoolTypeOK'
  <2>1. CASE Report(account[r], "OK", 0)
      BY <2>1, ReportType, DurationsAssumption DEF Inv, TypeOK
  <2>2. CASE UNCHANGED poolVars
      BY <2>2 DEF poolVars, PoolTypeOK, Inv, TypeOK
  <2>3. QED
      BY <2>1, <2>2 DEF RelayEnds
<1>3. /\ TablesOK' /\ pc' \in [Requests -> ControlStates]
      /\ pc'[r] = "done" /\ row'[r] = logged /\ reply'[r] = Relayed(r, end)
      /\ \A q \in Requests \ {r} : Untouched(q)
    BY <1>1, FinishFacts DEF Untouched
<1>4. TypeOK'
    BY <1>1, <1>2, <1>3 DEF Untouched, Inv, TypeOK, Waiting
<1>5. row'[r] # None /\ row'[r].success =>
         /\ reply'[r] # None
         /\ reply'[r].body = row'[r].upstream
         /\ reply'[r].status < 400 /\ row'[r].status < 400
         /\ row'[r].account = account[r]
  <2>1. SUFFICES ASSUME row'[r] # None, row'[r].success
                 PROVE  /\ reply'[r] # None
                        /\ reply'[r].body = row'[r].upstream
                        /\ reply'[r].status < 400 /\ row'[r].status < 400
                        /\ row'[r].account = account[r]
      OBVIOUS
  <2>2. /\ row'[r].status = answer[r] /\ row'[r].upstream = attempt[r]
        /\ row'[r].account = account[r] /\ row'[r].success = Succeeded(r, end)
      BY <1>3, <2>1 DEF Row
  <2>3. end = "complete" /\ answer[r] < 400
      BY <2>1, <2>2 DEF Succeeded
  <2>4. reply'[r] # None /\ reply'[r].body = attempt[r] /\ reply'[r].status < 400
    <3>1. CASE reply[r] # None
        BY <1>1, <1>3, <3>1 DEF Relayed, Inv, RequestOK
    <3>2. CASE reply[r] = None
        BY <1>3, <2>3, <3>2 DEF Relayed, Reply, None
    <3>3. QED
        BY <3>1, <3>2
  <2>5. QED
      BY <2>2, <2>3, <2>4
<1>6. RequestOK(r)'
    BY <1>1, <1>3, <1>5 DEF RequestOK, Waiting, InFlight
<1>7. QED
    BY <1>3, <1>4, <1>6, Frame DEF Inv

\* What happens around the requests: a hang-up, a new snapshot, time.
LEMMA AroundInv ==
    ASSUME Inv,
           \/ \E r \in Requests : HangUp(r)
           \/ \E s \in Snapshots : Publish(s)
           \/ Clock
           \/ UNCHANGED vars
    PROVE  Inv'
<1>1. /\ UNCHANGED <<pc, call, snap, attempt, account, answer, reply, row>>
      /\ snapshot' \in Snapshots
      /\ cancelled' \in [Requests -> BOOLEAN]
    BY DEF HangUp, Publish, Clock, vars, requestVars, Inv, TypeOK
<1>2. PoolTypeOK'
  <2>1. CASE Tick
      BY <2>1, TickType DEF Inv, TypeOK
  <2>2. CASE UNCHANGED <<current, cooldown, backoff>>
      BY <2>2 DEF PoolTypeOK, Inv, TypeOK
  <2>3. QED
      BY <2>1, <2>2 DEF HangUp, Publish, Clock, vars, poolVars
<1>3. TypeOK' /\ TablesOK'
    BY <1>1, <1>2 DEF Inv, TypeOK, TablesOK
<1>4. \A q \in Requests : Untouched(q)
    BY <1>1 DEF Untouched
<1>5. QED
    BY <1>3, <1>4, Frame DEF Inv

\* Every step preserves the invariant.
LEMMA StepInv ==
    ASSUME Inv, [Next]_vars
    PROVE  Inv'
<1>1. ASSUME NEW r \in Requests, Reject(r) \/ \E c \in Calls : Admit(r, c)
      PROVE  Inv'
  <2>1. CASE Reject(r)
    <3>1. PICK c \in Calls : TRUE
        BY <2>1, CallsAssumption
    <3>2. QED
        BY <2>1, <3>1, AdmitInv
  <2>2. QED
      BY <1>1, <2>1, AdmitInv
<1>2. ASSUME NEW r \in Requests, Runs(r)
      PROVE  Inv'
    BY <1>2, SkipPinnedInv, GiveUpInv, SendInv DEF Runs
<1>3. ASSUME NEW r \in Requests, Hears(r)
      PROVE  Inv'
    BY <1>3, FailedInv, AnswersInv, RelayEndsInv DEF Hears
<1>4. QED
    BY <1>1, <1>2, <1>3, AroundInv DEF Next
-----------------------------------------------------------------------------
\* The invariant holds of every reachable state.
THEOREM Invariance == Spec => []Inv
BY InitInv, StepInv, PTL DEF Spec

\* The gateway's state is well formed, whatever is asked, answered or published.
THEOREM TypeCorrect == Spec => []TypeOK
<1>1. Inv => TypeOK
    BY DEF Inv
<1>2. QED
    BY <1>1, Invariance, PTL

\* An attempt in flight uses an account its own candidate allows.
THEOREM AccountsOfCandidates == Spec => []AccountOfCandidate
<1>1. Inv => AccountOfCandidate
  <2> SUFFICES ASSUME Inv, NEW r \in Requests, InFlight(r)
               PROVE  /\ attempt[r] \in 1..Len(snap[r].cands)
                      /\ IF Pinned(r) THEN account[r] = Cand(r).pin
                         ELSE account[r] \in DOMAIN Cand(r).accounts
      BY DEF AccountOfCandidate
  <2>1. Waiting(r) /\ snap[r] \in Snapshots /\ attempt[r] \in Nat
      BY DEF Inv, TypeOK, InFlight, Waiting
  <2>2. Len(snap[r].cands) \in Nat
      BY <2>1, SnapshotsAssumption
  <2>3. QED
      BY <2>1, <2>2 DEF Inv, RequestOK
<1>2. QED
    BY <1>1, Invariance, PTL

\* The log never claims a success the client did not get in full.
THEOREM SuccessesAreTold == Spec => []SuccessIsTold
<1>1. Inv => SuccessIsTold
    BY DEF Inv, RequestOK, SuccessIsTold
<1>2. QED
    BY <1>1, Invariance, PTL
-----------------------------------------------------------------------------
\* A step of one request leaves the attempts of the others as they were.
Kept(r) ==
    /\ attempt'[r] = attempt[r]
    /\ account'[r] = account[r]
    /\ history'[r] = history[r]
    /\ reply[r] # None => reply'[r] = reply[r]

HistoryIsTable == DOMAIN history = Requests

\* The attempts are only ever appended to.
LEMMA HistoryStep ==
    ASSUME HistoryIsTable, [Next]_vars
    PROVE  /\ HistoryIsTable'
           /\ \/ UNCHANGED history
              \/ \E r \in Requests : \E x : history' = [history EXCEPT ![r] = x]
<1>1. ASSUME NEW r \in Requests, NEW acct, NEW status, NEW body,
             NextCandidate(r, acct, status, body)
      PROVE  \E x : history' = [history EXCEPT ![r] = x]
    BY <1>1 DEF NextCandidate
<1>2. ASSUME NEW r \in Requests, Runs(r)
      PROVE  UNCHANGED history \/ \E x : history' = [history EXCEPT ![r] = x]
  <2>1. CASE SkipPinned(r)
    <3>1. UNCHANGED history \/ NextCandidate(r, NoAccount, 503, FALSE)
        BY <2>1 DEF SkipPinned
    <3>2. QED
        BY <1>1, <3>1, Zenon
  <2>2. CASE NoAccounts(r) \/ Exhausted(r)
      BY <2>2 DEF NoAccounts, Exhausted
  <2>3. CASE \E a \in Accounts : Send(r, a)
    <3>1. \A a \in Accounts : Send(r, a) => UNCHANGED history
        BY DEF Send
    <3>2. QED
        BY <2>3, <3>1
  <2>4. QED
      BY <1>2, <2>1, <2>2, <2>3, Zenon DEF Runs
<1>3. ASSUME NEW r \in Requests, Hears(r)
      PROVE  UNCHANGED history \/ \E x : history' = [history EXCEPT ![r] = x]
  <2>1. CASE Unreachable(r)
    <3>1. UNCHANGED history \/ NextCandidate(r, account[r], 502, FALSE)
        BY <2>1 DEF Unreachable
    <3>2. QED
        BY <1>1, <3>1, Zenon
  <2>2. CASE \E status \in UpstreamStatuses : Answers(r, status)
      BY <2>2 DEF Answers
  <2>3. CASE \E hasBody \in BOOLEAN, d \in RetryAfters : Drained(r, hasBody, d)
      BY <1>1, <2>3 DEF Drained
  <2>4. CASE \E end \in {"complete", "unread", "unwritten"} : RelayEnds(r, end)
      BY <2>4 DEF RelayEnds
  <2>5. QED
      BY <1>3, <2>1, <2>2, <2>3, <2>4 DEF Hears
<1>4. CASE \/ \E r \in Requests : Reject(r) \/ (\E c \in Calls : Admit(r, c)) \/ HangUp(r)
           \/ \E s \in Snapshots : Publish(s)
           \/ Clock
           \/ UNCHANGED vars
    BY <1>4 DEF Reject, Admit, HangUp, Publish, Clock, requestVars, vars, HistoryIsTable
<1>5. \/ UNCHANGED history
      \/ \E r \in Requests : \E x : history' = [history EXCEPT ![r] = x]
    BY <1>2, <1>3, <1>4 DEF Next
<1>6. QED
    BY <1>5 DEF HistoryIsTable

\* The only steps of a request that relays or is done are the end of its relay
\* and its client's hang-up.
LEMMA SettledStep ==
    ASSUME Inv, HistoryIsTable, [Next]_vars, NEW r \in Requests, pc[r] \in {"relay", "done"}
    PROVE  Kept(r)
<1>1. ASSUME NEW q \in Requests, Reject(q) \/ \E c \in Calls : Admit(q, c)
      PROVE  Kept(r)
  <2>1. q # r
      BY <1>1 DEF Reject, Admit
  <2>2. CASE Reject(q)
      BY <2>1, <2>2, FinishFacts DEF Reject, Kept
  <2>3. ASSUME NEW c \in Calls, Admit(q, c)
        PROVE  Kept(r)
    <3>1. attempt'[r] = attempt[r]
        BY <2>1, <2>3 DEF Admit, Inv, TypeOK
    <3>2. UNCHANGED <<account, history>>
        BY <2>3 DEF Admit
    <3>3. reply'[r] = reply[r]
        BY <2>1, <2>3, AdmitCases DEF Finish, Inv, TablesOK
    <3>4. QED
        BY <3>1, <3>2, <3>3 DEF Kept
  <2>4. QED
      BY <1>1, <2>2, <2>3
<1>2. ASSUME NEW q \in Requests, Runs(q)
      PROVE  Kept(r)
  <2>1. q # r
    <3>1. /\ SkipPinned(q) => pc[q] = "pick"
          /\ NoAccounts(q) => pc[q] = "pick"
          /\ Exhausted(q) => pc[q] = "pick"
        BY DEF SkipPinned, NoAccounts, Exhausted
    <3>2. \A a \in Accounts : Send(q, a) => pc[q] = "pick"
        BY DEF Send
    <3>3. QED
        BY <1>2, <3>1, <3>2 DEF Runs
  <2>2. CASE SkipPinned(q)
    <3>1. UNCHANGED account
        BY <2>2 DEF SkipPinned
    <3>2. CASE NextCandidate(q, NoAccount, 503, FALSE)
      <4>1. attempt'[r] = attempt[r] /\ history'[r] = history[r]
          BY <2>1, <3>2 DEF NextCandidate, Inv, TypeOK, HistoryIsTable
      <4>2. UNCHANGED reply
          BY <3>2 DEF NextCandidate
      <4>3. QED
          BY <3>1, <4>1, <4>2 DEF Kept
    <3>3. CASE Finish(q, Reply(503, 0), None) /\ UNCHANGED <<attempt, history>>
        BY <2>1, <3>1, <3>3, FinishFacts DEF Kept
    <3>4. QED
        BY <2>2, <3>2, <3>3 DEF SkipPinned
  <2>3. CASE NoAccounts(q) \/ Exhausted(q)
    <3>1. UNCHANGED <<attempt, account, history>>
        BY <2>3 DEF NoAccounts, Exhausted
    <3>2. reply'[r] = reply[r]
      <4>1. CASE NoAccounts(q)
          BY <2>1, <4>1 DEF NoAccounts, Finish, Inv, TablesOK
      <4>2. CASE Exhausted(q)
          BY <2>1, <4>2 DEF Exhausted, Finish, Inv, TablesOK
      <4>3. QED
          BY <2>3, <4>1, <4>2
    <3>3. QED
        BY <3>1, <3>2 DEF Kept
  <2>4. CASE \E a \in Accounts : Send(q, a)
    <3>1. PICK a \in Accounts : Send(q, a)
        BY <2>4
    <3>2. /\ UNCHANGED <<attempt, history>> /\ account' = [account EXCEPT ![q] = a]
          /\ reply' = reply \/ \E rep, logged : Finish(q, rep, logged)
        BY <3>1 DEF Send
    <3>3. account'[r] = account[r]
        BY <2>1, <3>2 DEF Inv, TypeOK
    <3>4. reply'[r] = reply[r]
        BY <2>1, <3>2, FinishFacts
    <3>5. QED
        BY <3>2, <3>3, <3>4 DEF Kept
  <2>5. QED
      BY <1>2, <2>2, <2>3, <2>4 DEF Runs
<1>3. ASSUME NEW q \in Requests, Hears(q)
      PROVE  Kept(r)
  <2>1. CASE \E end \in {"complete", "unread", "unwritten"} : RelayEnds(q, end)
    <3>1. PICK end \in {"complete", "unread", "unwritten"} : RelayEnds(q, end)
        BY <2>1
    <3>2. /\ UNCHANGED <<attempt, account, history>>
          /\ \E logged : Finish(q, Relayed(q, end), logged)
        BY <3>1 DEF RelayEnds
    <3>3. reply[q] # None => Relayed(q, end) = reply[q]
        BY DEF Relayed
    <3>4. QED
        BY <3>2, <3>3, FinishFacts DEF Kept
  <2>2. CASE \E status \in UpstreamStatuses : Answers(q, status)
    <3>1. q # r /\ UNCHANGED <<attempt, account, history>>
        BY <2>2 DEF Answers
    <3>2. \/ \E rep, logged : Finish(q, rep, logged)
          \/ reply' = reply \/ \E x : reply' = [reply EXCEPT ![q] = x]
        BY <2>2 DEF Answers
    <3>3. reply'[r] = reply[r]
        BY <3>1, <3>2, FinishFacts DEF Inv, TablesOK
    <3>4. QED
        BY <3>1, <3>3 DEF Kept
  <2>3. CASE Unreachable(q)
    <3>1. q # r /\ UNCHANGED account
        BY <2>3 DEF Unreachable
    <3>2. CASE NextCandidate(q, account[q], 502, FALSE)
      <4>1. attempt'[r] = attempt[r] /\ history'[r] = history[r]
          BY <3>1, <3>2 DEF NextCandidate, Inv, TypeOK, HistoryIsTable
      <4>2. UNCHANGED reply
          BY <3>2 DEF NextCandidate
      <4>3. QED
          BY <3>1, <4>1, <4>2 DEF Kept
    <3>3. CASE Finish(q, Reply(502, 0), None) /\ UNCHANGED <<attempt, history>>
        BY <3>1, <3>3, FinishFacts DEF Kept
    <3>4. QED
        BY <2>3, <3>2, <3>3 DEF Unreachable
  <2>4. CASE \E hasBody \in BOOLEAN, d \in RetryAfters : Drained(q, hasBody, d)
      BY <2>4 DEF Drained, NextCandidate, Kept, Inv, TypeOK, TablesOK, HistoryIsTable
  <2>5. QED
      BY <1>3, <2>1, <2>2, <2>3, <2>4 DEF Hears
<1>4. CASE \/ \E q \in Requests : HangUp(q)
           \/ \E s \in Snapshots : Publish(s)
           \/ Clock
           \/ UNCHANGED vars
    BY <1>4 DEF HangUp, Publish, Clock, requestVars, vars, Kept
<1>5. QED
    BY <1>1, <1>2, <1>3, <1>4 DEF Next

\* Failover happens before the first forwarded byte or not at all: from the
\* moment the client is told a status, the request stays with one attempt.
THEOREM NoFailoverAfterFirstByte == Spec => FailoverBeforeFirstByte
<1>1. Init => HistoryIsTable
    BY DEF Init, HistoryIsTable
<1>2. HistoryIsTable /\ [Next]_vars => HistoryIsTable'
    BY HistoryStep
<1>3. Inv /\ HistoryIsTable /\ [Next]_vars =>
         [\A r \in Requests : reply[r] # None =>
             /\ reply'[r] = reply[r]
             /\ attempt'[r] = attempt[r]
             /\ account'[r] = account[r]
             /\ history'[r] = history[r]]_vars
    BY SettledStep DEF Kept, Inv, RequestOK
<1>4. QED
    BY <1>1, <1>2, <1>3, Invariance, PTL DEF Spec, FailoverBeforeFirstByte
-----------------------------------------------------------------------------
\* What a pick may return: an account that does not cool, or when all do the
\* one that recovers first.
LEMMA PickIsReadyOrFirst ==
    ASSUME PoolTypeOK, NEW p \in Providers, NEW a, Pick(p, a), Cooling(a)
    PROVE  \A b \in DOMAIN p : cooldown[b] >= cooldown[a]
<1>1. ~Rotate(p, a)
    BY DEF Rotate, Favoured, Ready
<1>2. Fallback(p, a)
    BY <1>1 DEF Pick
<1>3. \A b \in DOMAIN p : cooldown[b] \in Int /\ cooldown[a] \in Int
    BY <1>2, TableFacts, DurationsAssumption DEF Fallback, PoolTypeOK
<1>4. QED
    BY <1>2, <1>3 DEF Fallback

\* Only an attempt that is sent moves a request from its loop to the wait.
LEMMA SentBySend ==
    ASSUME Inv, [Next]_vars, NEW r \in Requests, pc[r] = "pick", pc'[r] = "sent"
    PROVE  \E a \in Accounts : Send(r, a)
<1>1. ASSUME NEW q \in Requests, Runs(q)
      PROVE  \E a \in Accounts : Send(r, a)
  <2>1. ~Exhausted(q) /\ ~NoAccounts(q)
    <3>1. Exhausted(q) \/ NoAccounts(q) => pc' = [pc EXCEPT ![q] = "done"]
        BY DEF Exhausted, NoAccounts, Finish, Goto
    <3>2. pc' # [pc EXCEPT ![q] = "done"]
        BY DEF Inv, TypeOK
    <3>3. QED
        BY <3>1, <3>2
  <2>2. ~SkipPinned(q)
    <3>1. SkipPinned(q) => \E label \in {"pick", "done"} : pc' = [pc EXCEPT ![q] = label]
        BY DEF SkipPinned, NextCandidate, Finish, Goto
    <3>2. \A label \in {"pick", "done"} : pc' # [pc EXCEPT ![q] = label]
        BY DEF Inv, TypeOK
    <3>3. QED
        BY <3>1, <3>2
  <2>3. ASSUME NEW a \in Accounts, Send(q, a)
        PROVE  q = r
    <3>1. \E label \in {"sent", "done"} : pc' = [pc EXCEPT ![q] = label]
        BY <2>3 DEF Send, Finish, Goto
    <3>2. QED
        BY <3>1 DEF Inv, TypeOK
  <2>4. QED
      BY <1>1, <2>1, <2>2, <2>3 DEF Runs
<1>2. ASSUME NEW q \in Requests
      PROVE  ~Hears(q)
  <2>1. ASSUME Unreachable(q)
        PROVE  FALSE
    <3>1. pc[q] = "sent" /\ \E label \in {"pick", "done"} : pc' = [pc EXCEPT ![q] = label]
        BY <2>1 DEF Unreachable, NextCandidate, Finish, Goto
    <3>2. QED
        BY <3>1 DEF Inv, TypeOK
  <2>2. ASSUME NEW status \in UpstreamStatuses, Answers(q, status)
        PROVE  FALSE
    <3>1. pc[q] = "sent" /\ \E label \in {"drain", "relay", "done"} : pc' = [pc EXCEPT ![q] = label]
        BY <2>2 DEF Answers, Finish, Goto
    <3>2. QED
        BY <3>1 DEF Inv, TypeOK
  <2>3. ASSUME NEW hasBody \in BOOLEAN, NEW d \in RetryAfters, Drained(q, hasBody, d)
        PROVE  FALSE
    <3>1. pc' = [pc EXCEPT ![q] = "pick"]
        BY <2>3 DEF Drained, NextCandidate, Goto
    <3>2. QED
        BY <3>1 DEF Inv, TypeOK
  <2>4. ASSUME NEW end \in {"complete", "unread", "unwritten"}, RelayEnds(q, end)
        PROVE  FALSE
    <3>1. pc' = [pc EXCEPT ![q] = "done"]
        BY <2>4 DEF RelayEnds, Finish, Goto
    <3>2. QED
        BY <3>1 DEF Inv, TypeOK
  <2>5. QED
      BY <2>1, <2>2, <2>3, <2>4 DEF Hears
<1>3. ASSUME NEW q \in Requests
      PROVE  ~Reject(q) /\ (\A c \in Calls : ~Admit(q, c))
  <2>1. ASSUME Reject(q)
        PROVE  FALSE
    <3>1. pc[q] = "idle" /\ pc' = [pc EXCEPT ![q] = "done"]
        BY <2>1 DEF Reject, Finish, Goto
    <3>2. QED
        BY <3>1 DEF Inv, TypeOK
  <2>2. ASSUME NEW c \in Calls, Admit(q, c)
        PROVE  FALSE
    <3>1. pc[q] = "idle" /\ \E label \in {"pick", "done"} : pc' = [pc EXCEPT ![q] = label]
        BY <2>2 DEF Admit, Finish, Goto
    <3>2. QED
        BY <3>1 DEF Inv, TypeOK
  <2>3. QED
      BY <2>1, <2>2
<1>4. /\ \A q \in Requests : ~HangUp(q)
      /\ \A s \in Snapshots : ~Publish(s)
      /\ ~Clock
      /\ ~UNCHANGED vars
    BY DEF HangUp, Publish, Clock, requestVars, vars
<1>5. QED
    BY <1>1, <1>2, <1>3, <1>4 DEF Next

\* A cooling account is used only for want of a better one, and never by a pin.
THEOREM CoolingIsAvoided == Spec => CoolingAvoided
<1> DEFINE Avoided ==
      \A r \in Requests : pc[r] = "pick" /\ pc'[r] = "sent" /\ Cooling(account'[r]) =>
          /\ ~Pinned(r)
          /\ \A b \in DOMAIN Cand(r).accounts : cooldown[b] >= cooldown[account'[r]]
<1>1. ASSUME Inv, [Next]_vars
      PROVE  Avoided
  <2>1. SUFFICES ASSUME NEW r \in Requests, pc[r] = "pick", pc'[r] = "sent", Cooling(account'[r])
                 PROVE  /\ ~Pinned(r)
                        /\ \A b \in DOMAIN Cand(r).accounts : cooldown[b] >= cooldown[account'[r]]
      OBVIOUS
  <2>2. PICK a \in Accounts : Send(r, a)
      BY <1>1, <2>1, SentBySend
  <2>3. account'[r] = a /\ PickAccount(r, a) /\ InBudget(r) /\ attempt[r] >= 1
      BY <1>1, <2>1, <2>2 DEF Send, Inv, TypeOK, RequestOK, Waiting
  <2>4. ~Pinned(r)
      BY <2>1, <2>3 DEF PickAccount
  <2>5. Cand(r).accounts \in Providers
      BY <1>1, <2>1, <2>3, BudgetInRange DEF Inv, Candidates
  <2>6. QED
      BY <1>1, <2>1, <2>3, <2>4, <2>5, PickIsReadyOrFirst DEF PickAccount, Inv, TypeOK
<1>2. Inv /\ [Next]_vars => [Avoided]_vars
    BY <1>1
<1>3. QED
    BY <1>2, Invariance, PTL DEF Spec, CoolingAvoided
-----------------------------------------------------------------------------
\* A report of a request in flight is one the pool expects.
LEMMA ReportIsPoolStep ==
    ASSUME Inv, NEW r \in Requests, InFlight(r), NEW o \in Outcomes, NEW d \in RetryAfters,
           Report(account[r], o, d)
    PROVE  PoolNext
BY FlightAccount DEF PoolNext

\* The gateway uses the pool only through its operations: the data plane
\* implements the pool under arbitrary callers, whatever its requests do.
THEOREM GatewayImplementsPool == Spec => PoolSpec
<1>1. Init => PoolInit
    BY DEF Init
<1>2. ASSUME Inv, [Next]_vars
      PROVE  [PoolNext]_poolVars
  <2>1. ASSUME NEW r \in Requests, NEW a \in Accounts, Send(r, a)
        PROVE  [PoolNext]_poolVars
    <3>1. PickAccount(r, a) /\ pc[r] = "pick" /\ InBudget(r) /\ attempt[r] >= 1
        BY <1>2, <2>1 DEF Send, Inv, RequestOK, Waiting
    <3>2. CASE Pinned(r)
        BY <3>1, <3>2 DEF PickAccount
    <3>3. CASE ~Pinned(r)
      <4>1. Cand(r).accounts \in Providers
          BY <1>2, <3>1, BudgetInRange DEF Inv, Candidates
      <4>2. Pick(Cand(r).accounts, a) /\ a \in DOMAIN Cand(r).accounts
          BY <1>2, <3>1, <3>3, <4>1, PickType DEF PickAccount, Inv, TypeOK
      <4>3. QED
          BY <4>1, <4>2 DEF PoolNext
    <3>4. QED
        BY <3>2, <3>3
  <2>2. ASSUME NEW r \in Requests, Runs(r)
        PROVE  [PoolNext]_poolVars
      BY <2>1, <2>2 DEF Runs, SkipPinned, NoAccounts, Exhausted
  <2>3. ASSUME NEW r \in Requests, Hears(r)
        PROVE  [PoolNext]_poolVars
    <3>1. 0 \in RetryAfters /\ \A status : OutcomeOf(status) \in Outcomes
        BY DurationsAssumption DEF OutcomeOf, Outcomes
    <3>2. "OK" \in Outcomes /\ "ServerError" \in Outcomes
        BY DEF Outcomes
    <3>3. CASE Unreachable(r)
        BY <1>2, <3>1, <3>2, <3>3, ReportIsPoolStep DEF Unreachable, InFlight
    <3>4. CASE \E status \in UpstreamStatuses : Answers(r, status)
        BY <3>4 DEF Answers
    <3>5. CASE \E hasBody \in BOOLEAN, d \in RetryAfters : Drained(r, hasBody, d)
        BY <1>2, <3>1, <3>5, ReportIsPoolStep DEF Drained, InFlight
    <3>6. CASE \E end \in {"complete", "unread", "unwritten"} : RelayEnds(r, end)
        BY <1>2, <3>1, <3>2, <3>6, ReportIsPoolStep DEF RelayEnds, InFlight
    <3>7. QED
        BY <2>3, <3>3, <3>4, <3>5, <3>6 DEF Hears
  <2>4. CASE \/ \E r \in Requests : Reject(r) \/ (\E c \in Calls : Admit(r, c)) \/ HangUp(r)
             \/ \E s \in Snapshots : Publish(s)
             \/ UNCHANGED vars
      BY <2>4 DEF Reject, Admit, HangUp, Publish, vars
  <2>5. CASE Clock
      BY <2>5 DEF Clock, PoolNext
  <2>6. QED
      BY <1>2, <2>2, <2>3, <2>4, <2>5 DEF Next
<1>3. QED
    BY <1>1, <1>2, Invariance, PTL DEF Spec, PoolSpec
-----------------------------------------------------------------------------
\* What the handler has kept of the attempts of a chat request that is still
\* open: one turn of the loop per attempt, in the order of the candidates,
\* each with an error, and the four variables that each turn overwrites in part.
Folded(r) ==
    LET h == history[r] IN
    /\ Len(h) = attempt[r] - 1 /\ Len(h) <= MaxAttempts(snap[r])
    /\ \A i \in DOMAIN h : h[i].cand = i /\ h[i].status >= 400
    /\ last[r].body = LastBody(h)
    /\ h # <<>> => last[r].status = h[Len(h)].status
    /\ IF InFlight(r)
       THEN /\ attempt[r] <= MaxAttempts(snap[r])
            /\ last[r].upstream = attempt[r] /\ last[r].account = account[r]
       ELSE /\ h # <<>> => last[r].upstream = Len(h)
            /\ last[r].account = LastUser(h)

\* What CaptureOfOneAttempt and AnswerSummarisesAttempts say of one request
\* that is done.
Summarised(r) ==
    LET h == history[r] IN
    /\ row[r] # None /\ Chat(r) => capture[r].upstream \in {0, row[r].attempts}
    /\ h # <<>> /\ Len(h) = MaxAttempts(snap[r]) =>
          /\ reply[r] = Reply(h[Len(h)].status, LastBody(h))
          /\ row[r].status = reply[r].status /\ ~row[r].success
          /\ row[r].attempts = Len(h)
          /\ row[r].upstream = h[Len(h)].cand
          /\ row[r].account = LastUser(h)

\* What the control state of a request says of its attempts and its capture.
AttemptsOK(r) ==
    /\ pc[r] = "idle" => history[r] = <<>> /\ last[r] = NothingYet /\ capture[r] = NoCapture
    /\ history[r] # <<>> => Chat(r)
    /\ Waiting(r) /\ Chat(r) => Folded(r)
    /\ pc[r] = "drain" => Chat(r) /\ answer[r] >= 400
    /\ capture[r].response \in {0, capture[r].upstream}
    /\ pc[r] = "pick" => capture[r].upstream \in {0, attempt[r] - 1}
    /\ InFlight(r) => capture[r].upstream = Recorded(r)
    /\ pc[r] = "done" => Summarised(r)

Attempts == [cand : Nat, account : Accounts \cup {NoAccount}, status : Nat, body : BOOLEAN]

Memory == [status : Nat, body : Nat, upstream : Nat, account : Accounts \cup {NoAccount}]

\* The types of the variables that no property but these reads.
KeptTypes ==
    /\ last \in [Requests -> Memory]
    /\ capture \in [Requests -> [upstream : Nat, response : Nat]]
    /\ history \in [Requests -> Seq(Attempts)]

AttemptsInv == KeptTypes /\ \A r \in Requests : AttemptsOK(r)
-----------------------------------------------------------------------------
\* The bound of the loop is a number, and at least one candidate is tried.
LEMMA MaxAttemptsIsNat ==
    ASSUME NEW s \in Snapshots
    PROVE  MaxAttempts(s) \in Nat
<1>1. Len(s.cands) \in Nat /\ s.failover \in Int
    BY SnapshotsAssumption
<1>2. QED
    BY <1>1 DEF MaxAttempts, Lesser, Greater

\* A chat call starts at the first candidate, if there is one.
LEMMA ChatStartsFirst ==
    ASSUME NEW c, c.kind = "chat", NEW s \in Snapshots, FirstCandidate(c, s) # 0
    PROVE  FirstCandidate(c, s) = 1
<1> DEFINE able == {i \in 1..Len(s.cands) : c.kind = "embed" => s.cands[i].embeds}
<1>1. Len(s.cands) \in Nat /\ able = 1..Len(s.cands)
    BY SnapshotsAssumption
<1>2. able # {}
    BY DEF FirstCandidate
<1>3. 1 \in able /\ \A j \in able : 1 <= j
    BY <1>1, <1>2
<1>4. FirstCandidate(c, s) \in able /\ \A j \in able : FirstCandidate(c, s) <= j
    BY <1>2, <1>3 DEF FirstCandidate
<1>5. QED
    BY <1>1, <1>3, <1>4

\* A nonempty set of indices has a greatest one.
LEMMA LatestIsOne ==
    ASSUME NEW n \in Nat, NEW hits \in SUBSET (1..n), hits # {}
    PROVE  Latest(hits) \in hits
<1> DEFINE gaps == {n - i : i \in hits}
<1>1. gaps \in SUBSET Nat /\ gaps # {}
  <2>1. \A i \in hits : i \in 1..n /\ n - i \in Nat
      OBVIOUS
  <2>2. QED
      BY <2>1
<1>2. PICK g \in gaps : \A k \in gaps : g <= k
    BY <1>1, Least
<1>3. PICK i \in hits : g = n - i
    BY <1>2
<1>4. \A j \in hits : i >= j
  <2>1. \A j \in hits : n - i <= n - j
      BY <1>2, <1>3
  <2>2. QED
      BY <2>1
<1>5. QED
    BY <1>3, <1>4 DEF Latest, Max

\* An index beyond all others is the latest.
LEMMA LatestGrows ==
    ASSUME NEW n \in Nat, NEW hits \in SUBSET (1..n)
    PROVE  Latest(hits \cup {n + 1}) = n + 1
<1> DEFINE more == hits \cup {n + 1}
<1>1. n + 1 \in more /\ \A j \in more : n + 1 >= j
    OBVIOUS
<1>2. \A x \in more : (\A y \in more : x >= y) => x = n + 1
    BY <1>1
<1>3. Max(more) = n + 1
    BY <1>1, <1>2 DEF Max
<1>4. QED
    BY <1>1, <1>3 DEF Latest

\* What one more attempt does to the latest body and to the last account.
LEMMA LastOfAppend ==
    ASSUME NEW h \in Seq(Attempts), NEW x \in Attempts
    PROVE  /\ LastBody(Append(h, x)) = IF x.body THEN Len(h) + 1 ELSE LastBody(h)
           /\ LastUser(Append(h, x)) = IF x.account # NoAccount THEN x.account ELSE LastUser(h)
<1> DEFINE g == Append(h, x)
           n == Len(h)
<1>1. n \in Nat /\ DOMAIN h = 1..n /\ DOMAIN g = 1..(n + 1)
      /\ g[n + 1] = x /\ \A i \in 1..n : g[i] = h[i]
    OBVIOUS
<1>2. LastBody(g) = IF x.body THEN n + 1 ELSE LastBody(h)
  <2> DEFINE hits == {i \in DOMAIN h : h[i].body}
  <2>1. hits \in SUBSET (1..n)
      BY <1>1
  <2>2. {i \in DOMAIN g : g[i].body} = IF x.body THEN hits \cup {n + 1} ELSE hits
      BY <1>1
  <2>3. Latest(hits \cup {n + 1}) = n + 1
      BY <1>1, <2>1, LatestGrows
  <2>4. QED
      BY <2>2, <2>3 DEF LastBody
<1>3. LastUser(g) = IF x.account # NoAccount THEN x.account ELSE LastUser(h)
  <2> DEFINE hits == {i \in DOMAIN h : h[i].account # NoAccount}
             more == {i \in DOMAIN g : g[i].account # NoAccount}
  <2>1. hits \in SUBSET (1..n)
      BY <1>1
  <2>2. more = IF x.account # NoAccount THEN hits \cup {n + 1} ELSE hits
      BY <1>1
  <2>3. /\ LastUser(g) = IF Latest(more) = 0 THEN NoAccount ELSE g[Latest(more)].account
        /\ LastUser(h) = IF Latest(hits) = 0 THEN NoAccount ELSE h[Latest(hits)].account
      BY DEF LastUser
  <2> HIDE DEF more, hits
  <2>4. CASE x.account # NoAccount
    <3>1. Latest(more) = n + 1
        BY <1>1, <2>1, <2>2, <2>4, LatestGrows
    <3>2. QED
        BY <1>1, <2>3, <2>4, <3>1
  <2>5. CASE x.account = NoAccount /\ hits = {}
    <3>1. Latest(more) = 0 /\ Latest(hits) = 0
        BY <2>2, <2>5 DEF Latest
    <3>2. QED
        BY <2>3, <2>5, <3>1
  <2>6. CASE x.account = NoAccount /\ hits # {}
    <3>1. Latest(hits) \in 1..n /\ more = hits
        BY <1>1, <2>1, <2>2, <2>6, LatestIsOne
    <3>2. g[Latest(hits)] = h[Latest(hits)] /\ Latest(hits) # 0
        BY <1>1, <3>1
    <3>3. QED
        BY <2>3, <2>6, <3>1, <3>2
  <2>7. QED
      BY <2>4, <2>5, <2>6
<1>4. QED
    BY <1>2, <1>3

\* Nothing was attempted: no body, no account.
LEMMA LastOfNothing == LastBody(<<>>) = 0 /\ LastUser(<<>>) = NoAccount
<1>1. DOMAIN <<>> = {}
    OBVIOUS
<1>2. QED
    BY <1>1 DEF LastBody, LastUser, Latest
-----------------------------------------------------------------------------
\* A request none of whose variables a step changes.
Unmoved(q) ==
    /\ Untouched(q)
    /\ call'[q] = call[q] /\ last'[q] = last[q]
    /\ capture'[q] = capture[q] /\ history'[q] = history[q]

\* Such a request keeps what is true of its attempts.
LEMMA AttemptsFrame ==
    ASSUME NEW q \in Requests, AttemptsOK(q), Unmoved(q)
    PROVE  AttemptsOK(q)'
BY DEF AttemptsOK, Unmoved, Untouched, Waiting, InFlight, Chat, Recorded, Folded, Summarised

\* The gateway has attempted nothing yet.
LEMMA AttemptsInit == Init => AttemptsInv
<1> SUFFICES ASSUME Init PROVE AttemptsInv
    OBVIOUS
<1>1. NothingYet \in Memory
      /\ NoCapture \in [upstream : Nat, response : Nat]
      /\ <<>> \in Seq(Attempts)
    BY DEF NothingYet, Memory, NoCapture, Capture
<1>2. KeptTypes
    BY <1>1 DEF Init, KeptTypes
<1>3. \A r \in Requests : AttemptsOK(r)
    BY DEF Init, AttemptsOK, Waiting, InFlight, NoCapture, Capture
<1>4. QED
    BY <1>2, <1>3 DEF AttemptsInv

\* One more turn of the loop: the attempt is remembered, and the next begins.
Turned(r, x) ==
    /\ pc'[r] = "pick" /\ attempt'[r] = attempt[r] + 1
    /\ history'[r] = Append(history[r], x)
    /\ history' \in [Requests -> Seq(Attempts)]
    /\ x \in Attempts
    /\ UNCHANGED <<reply, row>>
    /\ \A q \in Requests \ {r} :
          pc'[q] = pc[q] /\ attempt'[q] = attempt[q] /\ history'[q] = history[q]

\* So it is once an attempt of a chat request has failed.
LEMMA TurnFacts ==
    ASSUME Inv, KeptTypes, NEW r \in Requests, Waiting(r),
           NEW acct \in Accounts \cup {NoAccount}, NEW status \in Nat, NEW body \in BOOLEAN,
           NextCandidate(r, acct, status, body)
    PROVE  Turned(r, Attempt(attempt[r], acct, status, body))
<1> DEFINE x == Attempt(attempt[r], acct, status, body)
<1>1. x \in Attempts
    BY DEF Attempt, Attempts, Inv, TypeOK
<1>2. history' = [history EXCEPT ![r] = Append(@, x)]
    BY DEF NextCandidate
<1>3. Append(history[r], x) \in Seq(Attempts)
    BY <1>1 DEF KeptTypes
<1>4. history' \in [Requests -> Seq(Attempts)] /\ history'[r] = Append(history[r], x)
      /\ \A q \in Requests \ {r} : history'[q] = history[q]
    BY <1>2, <1>3 DEF KeptTypes
<1>5. QED
    BY <1>1, <1>4 DEF Turned, NextCandidate, Goto, Inv, TypeOK

\* What the handler keeps of that attempt is what the attempts then say.
LEMMA TurnFolds ==
    ASSUME Inv, KeptTypes, NEW r \in Requests, Waiting(r), Chat(r), Folded(r),
           attempt[r] <= MaxAttempts(snap[r]),
           NEW acct \in Accounts \cup {NoAccount}, NEW status \in Nat, status >= 400,
           NEW body \in BOOLEAN,
           NextCandidate(r, acct, status, body),
           snap' = snap,
           last'[r].status = status, last'[r].upstream = attempt[r],
           last'[r].body = IF body THEN attempt[r] ELSE last[r].body,
           last'[r].account = IF acct # NoAccount THEN acct ELSE LastUser(history[r])
    PROVE  Folded(r)'
<1> DEFINE h == history[r]
           x == Attempt(attempt[r], acct, status, body)
<1>1. /\ pc'[r] = "pick" /\ attempt'[r] = attempt[r] + 1 /\ history'[r] = Append(h, x)
      /\ x \in Attempts
    BY TurnFacts DEF Turned
<1>2. x.cand = attempt[r] /\ x.account = acct /\ x.status = status /\ x.body = body
    BY DEF Attempt
<1>3. h \in Seq(Attempts) /\ Len(h) \in Nat /\ attempt[r] \in Nat
      /\ MaxAttempts(snap[r]) \in Nat
  <2>1. snap[r] \in Snapshots
      BY DEF Inv, TypeOK, Waiting
  <2>2. QED
      BY <2>1, MaxAttemptsIsNat DEF KeptTypes, Inv, TypeOK
<1>4. Len(h) = attempt[r] - 1 /\ \A i \in DOMAIN h : h[i].cand = i /\ h[i].status >= 400
    BY DEF Folded
<1>5. /\ Len(history'[r]) = attempt[r] /\ history'[r] # <<>>
      /\ history'[r][attempt[r]] = x
      /\ DOMAIN history'[r] = 1..attempt[r] /\ DOMAIN h = 1..Len(h)
      /\ \A i \in DOMAIN h : history'[r][i] = h[i]
  <2>1. /\ Len(Append(h, x)) = Len(h) + 1 /\ Append(h, x) # <<>>
        /\ DOMAIN Append(h, x) = 1..(Len(h) + 1) /\ DOMAIN h = 1..Len(h)
        /\ Append(h, x)[Len(h) + 1] = x /\ \A i \in 1..Len(h) : Append(h, x)[i] = h[i]
      BY <1>1, <1>3
  <2>2. Len(h) + 1 = attempt[r]
      BY <1>3, <1>4
  <2>3. QED
      BY <1>1, <2>1, <2>2
<1>6. \A i \in DOMAIN history'[r] : history'[r][i].cand = i /\ history'[r][i].status >= 400
  <2>1. \A i \in DOMAIN history'[r] : i \in DOMAIN h \/ i = attempt[r]
      BY <1>3, <1>4, <1>5
  <2>2. QED
      BY <1>2, <1>4, <1>5, <2>1
<1>7. /\ LastBody(history'[r]) = IF body THEN attempt[r] ELSE LastBody(h)
      /\ LastUser(history'[r]) = IF acct # NoAccount THEN acct ELSE LastUser(h)
    BY <1>1, <1>2, <1>3, <1>4, LastOfAppend
<1>8. ~InFlight(r)'
    BY <1>1 DEF InFlight
<1>9. last[r].body = LastBody(h)
    BY DEF Folded
<1>10. Len(history'[r]) = attempt'[r] - 1 /\ Len(history'[r]) <= MaxAttempts(snap'[r])
    BY <1>1, <1>3, <1>5
<1>11. last'[r].body = LastBody(history'[r])
    BY <1>7, <1>9
<1>12. last'[r].status = history'[r][Len(history'[r])].status
    BY <1>2, <1>5
<1>13. last'[r].upstream = Len(history'[r]) /\ last'[r].account = LastUser(history'[r])
    BY <1>5, <1>7
<1>14. QED
    BY <1>6, <1>8, <1>10, <1>11, <1>12, <1>13 DEF Folded

\* A step of one request leaves the others' attempts alone.
LEMMA AttemptsStep ==
    ASSUME AttemptsInv, KeptTypes', NEW r \in Requests, AttemptsOK(r)',
           \A q \in Requests \ {r} : Unmoved(q)
    PROVE  AttemptsInv'
BY AttemptsFrame DEF AttemptsInv

\* A chat request that ends while its loop has budget was not out of candidates.
LEMMA NotExhausted ==
    ASSUME Inv, AttemptsInv, NEW r \in Requests, Waiting(r), Chat(r),
           InFlight(r) \/ InBudget(r)
    PROVE  Len(history[r]) # MaxAttempts(snap[r])
<1>1. snap[r] \in Snapshots /\ attempt[r] \in Nat
    BY DEF Inv, TypeOK, Waiting
<1>2. MaxAttempts(snap[r]) \in Nat
    BY <1>1, MaxAttemptsIsNat
<1>3. Len(history[r]) = attempt[r] - 1 /\ attempt[r] <= MaxAttempts(snap[r])
    BY DEF AttemptsInv, AttemptsOK, Folded, InBudget
<1>4. QED
    BY <1>1, <1>2, <1>3

\* A request that ends without having run out of candidates, and whose row,
\* if any, ends with the attempt its payload is of.
LEMMA EndsEarly ==
    ASSUME Inv, AttemptsInv, NEW r \in Requests, NEW rep, NEW logged, Finish(r, rep, logged),
           Waiting(r), InFlight(r) \/ InBudget(r),
           UNCHANGED <<call, snap, attempt, history>>,
           KeptTypes',
           \A q \in Requests \ {r} : Unmoved(q),
           capture'[r].response \in {0, capture'[r].upstream},
           Chat(r) /\ logged # None => capture'[r].upstream \in {0, logged.attempts}
    PROVE  AttemptsInv'
<1>1. pc'[r] = "done" /\ reply'[r] = rep /\ row'[r] = logged
    BY FinishFacts
<1>2. history[r] # <<>> => Chat(r) /\ Len(history[r]) # MaxAttempts(snap[r])
    BY NotExhausted DEF AttemptsInv, AttemptsOK
<1>3. Summarised(r)'
    BY <1>1, <1>2 DEF Summarised, Chat
<1>4. AttemptsOK(r)'
    BY <1>1, <1>2, <1>3 DEF AttemptsOK, Waiting, InFlight, Chat
<1>5. QED
    BY <1>4, AttemptsStep

\* A request that is refused, or answered as it is admitted, attempts nothing.
LEMMA AdmitAttempts ==
    ASSUME Inv, Inv', AttemptsInv, NEW r \in Requests,
           Reject(r) \/ \E c \in Calls : Admit(r, c)
    PROVE  AttemptsInv'
<1>1. /\ pc[r] = "idle" /\ history[r] = <<>> /\ last[r] = NothingYet /\ capture[r] = NoCapture
      /\ UNCHANGED <<account, answer, last, capture, history>>
  <2>1. pc[r] = "idle" /\ UNCHANGED <<account, answer, last, capture, history>>
      BY DEF Reject, Admit
  <2>2. QED
      BY <2>1 DEF AttemptsInv, AttemptsOK
<1>2. KeptTypes'
    BY <1>1 DEF AttemptsInv, KeptTypes
<1>3. CASE Reject(r)
  <2>1. UNCHANGED <<call, snap, attempt>> /\ Finish(r, Reply(400, 0), None)
      BY <1>3 DEF Reject
  <2>2. pc'[r] = "done" /\ row'[r] = None /\ \A q \in Requests \ {r} : Unmoved(q)
      BY <1>1, <2>1, FinishFacts DEF Unmoved, Untouched
  <2>3. AttemptsOK(r)'
      BY <1>1, <2>2 DEF AttemptsOK, Summarised, Waiting, InFlight, NoCapture, Capture
  <2>4. QED
      BY <1>2, <2>2, <2>3, AttemptsStep
<1>4. ASSUME NEW c \in Calls, Admit(r, c)
      PROVE  AttemptsInv'
  <2>1. /\ call' = [call EXCEPT ![r] = c] /\ snap' = [snap EXCEPT ![r] = snapshot]
        /\ attempt' = [attempt EXCEPT ![r] = FirstCandidate(c, snapshot)]
      BY <1>4 DEF Admit
  <2>2. /\ call'[r] = c /\ snap'[r] = snapshot /\ attempt'[r] = FirstCandidate(c, snapshot)
        /\ snapshot \in Snapshots
        /\ \A q \in Requests \ {r} :
              call'[q] = call[q] /\ snap'[q] = snap[q] /\ attempt'[q] = attempt[q]
      BY <2>1 DEF Inv, TypeOK
  <2>3. "pick" \in ControlStates
      BY DEF ControlStates
  <2>4. \A q \in Requests \ {r} : pc'[q] = pc[q] /\ reply'[q] = reply[q] /\ row'[q] = row[q]
      BY <1>4, <2>3, AdmitCases, FinishFacts, GotoFacts
  <2>5. \A q \in Requests \ {r} : Unmoved(q)
      BY <1>1, <2>2, <2>4 DEF Unmoved, Untouched
  <2>6. ASSUME NEW rep, NEW logged, Finish(r, rep, logged)
        PROVE  AttemptsOK(r)'
    <3>1. pc'[r] = "done"
        BY <2>6, FinishFacts
    <3>2. QED
        BY <1>1, <3>1 DEF AttemptsOK, Summarised, Waiting, InFlight, NoCapture, Capture
  <2>7. ASSUME Goto(r, "pick"), FirstCandidate(c, snapshot) # 0
        PROVE  AttemptsOK(r)'
    <3>1. pc'[r] = "pick"
        BY <2>3, <2>7, GotoFacts
    <3>2. Chat(r)' => Folded(r)'
      <4>1. SUFFICES ASSUME Chat(r)' PROVE Folded(r)'
          OBVIOUS
      <4>2. attempt'[r] = 1
          BY <2>2, <2>7, <4>1, ChatStartsFirst DEF Chat
      <4>3. MaxAttempts(snap'[r]) \in Nat
          BY <2>2, MaxAttemptsIsNat
      <4>4. history'[r] = <<>> /\ last'[r] = NothingYet
          BY <1>1
      <4>5. Len(<<>>) = 0 /\ DOMAIN <<>> = {}
          OBVIOUS
      <4>6. ~InFlight(r)'
          BY <3>1 DEF InFlight
      <4>7. QED
          BY <4>2, <4>3, <4>4, <4>5, <4>6, LastOfNothing DEF Folded, NothingYet
    <3>3. QED
        BY <1>1, <3>1, <3>2 DEF AttemptsOK, Waiting, InFlight, NoCapture, Capture
  <2>8. AttemptsOK(r)'
    <3>1. CASE FirstCandidate(c, snapshot) # 0 /\ ~Estimated(c, snapshot)
        BY <1>4, <2>7, <3>1 DEF Admit
    <3>2. CASE FirstCandidate(c, snapshot) = 0
      <4> DEFINE logged == IF c.kind = "chat" THEN Row(404, FALSE, 1, 0, NoAccount) ELSE None
      <4>1. Finish(r, Reply(404, 0), logged)
          BY <1>4, <3>2 DEF Admit
      <4> HIDE DEF logged
      <4>2. QED
          BY <2>6, <4>1
    <3>3. CASE FirstCandidate(c, snapshot) # 0 /\ Estimated(c, snapshot)
      <4>1. Finish(r, Reply(200, 0), None)
          BY <1>4, <3>3 DEF Admit
      <4>2. QED
          BY <2>6, <4>1
    <3>4. QED
        BY <3>1, <3>2, <3>3
  <2>9. QED
      BY <1>2, <2>5, <2>8, AttemptsStep
<1>5. QED
    BY <1>3, <1>4

\* Two fields of an entry overwritten are an entry overwritten.
LEMMA MemoryTable ==
    ASSUME NEW t \in [Requests -> Memory], NEW r \in Requests, NEW s \in Nat, NEW u
    PROVE  [t EXCEPT ![r].status = s, ![r].upstream = u]
           = [t EXCEPT ![r] = [t[r] EXCEPT !.status = s, !.upstream = u]]
BY DEF Memory

\* What the turn of a chat request that lost an attempt does to all of it.
LEMMA TurnAttempts ==
    ASSUME Inv, AttemptsInv, NEW r \in Requests, Waiting(r), Chat(r),
           InFlight(r) \/ InBudget(r),
           NEW acct \in Accounts \cup {NoAccount}, NEW status \in Nat, status >= 400,
           NEW body \in BOOLEAN,
           NextCandidate(r, acct, status, body),
           UNCHANGED <<call, snap, account, answer>>,
           NEW kept,
           last' = [last EXCEPT ![r] = kept],
           kept \in Memory,
           kept.status = status, kept.upstream = attempt[r],
           kept.body = IF body THEN attempt[r] ELSE last[r].body,
           kept.account = IF acct # NoAccount THEN acct ELSE LastUser(history[r]),
           NEW segment \in {capture[r], NoCapture},
           capture' = [capture EXCEPT ![r] = segment],
           segment.upstream \in {0, attempt[r]}
    PROVE  AttemptsInv'
<1>1. KeptTypes /\ AttemptsOK(r) /\ Folded(r)
    BY DEF AttemptsInv, AttemptsOK
<1>2. attempt[r] <= MaxAttempts(snap[r]) /\ attempt[r] \in Nat
    BY <1>1 DEF Folded, InBudget, Inv, TypeOK
<1>3. last'[r] = kept /\ capture'[r] = segment
      /\ \A q \in Requests \ {r} : last'[q] = last[q] /\ capture'[q] = capture[q]
    BY <1>1 DEF KeptTypes
<1>4. /\ pc'[r] = "pick" /\ attempt'[r] = attempt[r] + 1
      /\ history' \in [Requests -> Seq(Attempts)]
      /\ UNCHANGED <<reply, row>>
      /\ \A q \in Requests \ {r} :
            pc'[q] = pc[q] /\ attempt'[q] = attempt[q] /\ history'[q] = history[q]
  <2>1. Turned(r, Attempt(attempt[r], acct, status, body))
      BY <1>1, TurnFacts, Zenon
  <2>2. QED
      BY <2>1, Zenon DEF Turned
<1>5. Folded(r)'
    BY <1>1, <1>2, <1>3, TurnFolds
<1>6. KeptTypes'
  <2>1. NoCapture \in [upstream : Nat, response : Nat]
      BY DEF NoCapture, Capture
  <2>2. segment \in [upstream : Nat, response : Nat]
      BY <1>1, <2>1 DEF KeptTypes
  <2>3. QED
      BY <1>1, <1>4, <2>2 DEF KeptTypes
<1>7. \A q \in Requests \ {r} : Unmoved(q)
    BY <1>3, <1>4 DEF Unmoved, Untouched
<1>8. /\ segment.response \in {0, segment.upstream}
      /\ segment.upstream \in {0, attempt'[r] - 1}
  <2>1. capture[r].response \in {0, capture[r].upstream}
      BY <1>1 DEF AttemptsOK
  <2>2. NoCapture.response = 0
      BY DEF NoCapture, Capture
  <2>3. segment.response \in {0, segment.upstream}
      BY <2>1, <2>2
  <2>4. attempt'[r] - 1 = attempt[r]
      BY <1>2, <1>4
  <2>5. QED
      BY <2>3, <2>4
<1>9. AttemptsOK(r)'
    BY <1>3, <1>4, <1>5, <1>8 DEF AttemptsOK, Waiting, InFlight, Chat
<1>10. QED
    BY <1>6, <1>7, <1>9, AttemptsStep

\* A step that only ends the request leaves everything else of it, and all of
\* the others, as it was.
LEMMA EndLeaves ==
    ASSUME Inv, AttemptsInv, NEW r \in Requests, NEW rep, NEW logged, Finish(r, rep, logged),
           UNCHANGED <<call, snap, attempt, answer, history>>,
           \A q \in Requests \ {r} :
              account'[q] = account[q] /\ last'[q] = last[q] /\ capture'[q] = capture[q]
    PROVE  \A q \in Requests \ {r} : Unmoved(q)
BY FinishFacts DEF Unmoved, Untouched

\* A pinned account that cools is an attempt of a chat request, without account.
LEMMA SkipPinnedAttempts ==
    ASSUME Inv, AttemptsInv, NEW r \in Requests, SkipPinned(r)
    PROVE  AttemptsInv'
<1>1. /\ pc[r] = "pick" /\ InBudget(r) /\ Waiting(r) /\ KeptTypes /\ AttemptsOK(r)
      /\ UNCHANGED <<call, snap, account, answer>>
    BY DEF SkipPinned, Waiting, AttemptsInv
<1>2. CASE Chat(r)
  <2>1. PICK s \in Nat : s = 503
      OBVIOUS
  <2> DEFINE kept == [last[r] EXCEPT !.status = s, !.upstream = attempt[r]]
  <2>2. last[r] \in Memory /\ attempt[r] \in Nat
      BY <1>1 DEF KeptTypes, Inv, TypeOK
  <2>3. last' = [last EXCEPT ![r] = kept]
    <3>1. last' = [last EXCEPT ![r].status = s, ![r].upstream = attempt[r]]
        BY <1>2, <2>1, Zenon DEF SkipPinned
    <3>2. QED
        BY <1>1, <3>1, MemoryTable, Zenon DEF KeptTypes
  <2>4. /\ kept \in Memory /\ kept.status = s /\ kept.upstream = attempt[r]
        /\ kept.body = last[r].body /\ kept.account = last[r].account
      BY <2>2 DEF Memory
  <2> HIDE DEF kept
  <2>5. /\ capture' = [capture EXCEPT ![r] = NoCapture]
        /\ NextCandidate(r, NoAccount, s, FALSE)
      BY <1>2, <2>1 DEF SkipPinned, ResetAttempt
  <2>6. /\ kept.body = IF FALSE THEN attempt[r] ELSE last[r].body
        /\ kept.account = IF NoAccount # NoAccount THEN NoAccount ELSE LastUser(history[r])
      BY <1>1, <1>2, <2>4 DEF AttemptsOK, Folded, InFlight
  <2>7. /\ s >= 400 /\ NoCapture.upstream \in {0, attempt[r]}
        /\ NoCapture \in {capture[r], NoCapture} /\ NoAccount \in Accounts \cup {NoAccount}
      BY <2>1 DEF NoCapture, Capture
  <2>8. QED
      BY <1>1, <1>2, <2>3, <2>4, <2>5, <2>6, <2>7, TurnAttempts, Zenon
<1>3. CASE ~Chat(r)
  <2>1. /\ Finish(r, Reply(503, 0), None)
        /\ UNCHANGED <<last, capture, attempt, history>>
      BY <1>3 DEF SkipPinned
  <2>2. KeptTypes' /\ capture'[r].response \in {0, capture'[r].upstream}
      BY <1>1, <2>1 DEF KeptTypes, AttemptsOK
  <2>3. \A q \in Requests \ {r} : Unmoved(q)
      BY <1>1, <2>1, EndLeaves
  <2>4. QED
      BY <1>1, <1>3, <2>1, <2>2, <2>3, EndsEarly
<1>4. QED
    BY <1>2, <1>3

\* A provider without accounts ends the request, and nothing was recorded.
LEMMA NoAccountsAttempts ==
    ASSUME Inv, AttemptsInv, NEW r \in Requests, NoAccounts(r)
    PROVE  AttemptsInv'
<1> DEFINE rep == Reply(503, 0)
           logged == IF Chat(r) THEN Row(503, FALSE, attempt[r], attempt[r], NoAccount) ELSE None
<1>1. /\ pc[r] = "pick" /\ InBudget(r) /\ Waiting(r) /\ KeptTypes
      /\ Finish(r, rep, logged)
      /\ capture' = [capture EXCEPT ![r] = NoCapture]
      /\ UNCHANGED <<call, snap, attempt, account, answer, last, history>>
    BY DEF NoAccounts, ResetAttempt, Waiting, AttemptsInv
<1> HIDE DEF rep, logged
<1>2. NoCapture \in [upstream : Nat, response : Nat] /\ NoCapture.upstream = 0 /\ NoCapture.response = 0
    BY DEF NoCapture, Capture
<1>3. /\ KeptTypes' /\ capture'[r] = NoCapture
      /\ \A q \in Requests \ {r} : capture'[q] = capture[q]
    BY <1>1, <1>2 DEF KeptTypes
<1>4. \A q \in Requests \ {r} : Unmoved(q)
    BY <1>1, <1>3, EndLeaves
<1>5. QED
    BY <1>1, <1>2, <1>3, <1>4, EndsEarly

\* The request of an attempt is recorded as it is sent.
LEMMA SendAttempts ==
    ASSUME Inv, Inv', AttemptsInv, NEW r \in Requests, NEW a \in Accounts, Send(r, a)
    PROVE  AttemptsInv'
<1> DEFINE kept == [last[r] EXCEPT !.upstream = attempt[r], !.account = a]
           segment == IF Unpreparable(r) THEN NoCapture ELSE Capture(Recorded(r), 0)
<1>1. /\ pc[r] = "pick" /\ InBudget(r) /\ Waiting(r) /\ KeptTypes /\ AttemptsOK(r)
      /\ attempt[r] \in Nat
      /\ account' = [account EXCEPT ![r] = a]
      /\ last' = [last EXCEPT ![r] = kept]
      /\ capture' = [capture EXCEPT ![r] = segment]
      /\ UNCHANGED <<call, snap, attempt, answer, history>>
    BY DEF Send, ResetAttempt, Waiting, AttemptsInv, KeptTypes, Inv, TypeOK
<1>2. /\ kept \in Memory
      /\ kept.status = last[r].status /\ kept.upstream = attempt[r]
      /\ kept.body = last[r].body /\ kept.account = a
    BY <1>1 DEF KeptTypes, Memory
<1>3. /\ segment \in [upstream : Nat, response : Nat] /\ segment.response = 0
      /\ segment.upstream = IF Unpreparable(r) THEN 0 ELSE Recorded(r)
    BY <1>1 DEF NoCapture, Capture, Recorded
<1> HIDE DEF kept, segment
<1>4. /\ KeptTypes' /\ capture'[r] = segment /\ last'[r] = kept /\ account'[r] = a
      /\ \A q \in Requests \ {r} :
            account'[q] = account[q] /\ last'[q] = last[q] /\ capture'[q] = capture[q]
    BY <1>1, <1>2, <1>3 DEF KeptTypes, Inv, TypeOK
<1>5. CASE Unpreparable(r)
  <2> DEFINE rep == Reply(400, 0)
             logged == Row(400, FALSE, attempt[r], attempt[r], a)
  <2>1. Finish(r, rep, logged)
      BY <1>5 DEF Send
  <2> HIDE DEF rep, logged
  <2>2. \A q \in Requests \ {r} : Unmoved(q)
      BY <1>1, <1>4, <2>1, EndLeaves
  <2>3. QED
      BY <1>1, <1>3, <1>4, <1>5, <2>1, <2>2, EndsEarly
<1>6. CASE ~Unpreparable(r)
  <2>1. Goto(r, "sent") /\ UNCHANGED <<reply, row>> /\ "sent" \in ControlStates
      BY <1>6 DEF Send, ControlStates
  <2>2. pc'[r] = "sent" /\ \A q \in Requests \ {r} : Unmoved(q)
      BY <1>1, <1>4, <2>1, GotoFacts DEF Unmoved, Untouched
  <2>3. InFlight(r)' /\ ~InFlight(r) /\ Recorded(r)' = Recorded(r) /\ Chat(r)' = Chat(r)
      BY <1>1, <2>2 DEF InFlight, Recorded, Chat
  <2>4. Chat(r) => Folded(r)'
    <3>1. SUFFICES ASSUME Chat(r) PROVE Folded(r)'
        OBVIOUS
    <3>2. Folded(r) /\ attempt[r] <= MaxAttempts(snap[r])
        BY <1>1, <3>1 DEF AttemptsOK, InBudget
    <3>3. QED
        BY <1>1, <1>2, <1>4, <2>3, <3>2 DEF Folded
  <2>5. AttemptsOK(r)'
      BY <1>1, <1>3, <1>4, <1>6, <2>2, <2>3, <2>4 DEF AttemptsOK
  <2>6. QED
      BY <1>4, <2>2, <2>5, AttemptsStep
<1>7. QED
    BY <1>5, <1>6

\* An attempt without an answer costs a chat request one turn of its loop.
LEMMA UnreachableAttempts ==
    ASSUME Inv, AttemptsInv, NEW r \in Requests, Unreachable(r)
    PROVE  AttemptsInv'
<1>1. /\ pc[r] = "sent" /\ InFlight(r) /\ Waiting(r) /\ KeptTypes /\ AttemptsOK(r)
      /\ UNCHANGED <<call, snap, account, answer, capture>>
    BY DEF Unreachable, InFlight, Waiting, AttemptsInv
<1>2. CASE Chat(r)
  <2>1. PICK s \in Nat : s = 502
      OBVIOUS
  <2> DEFINE kept == [last[r] EXCEPT !.status = s]
  <2>2. last[r] \in Memory /\ account[r] \in Accounts /\ account[r] # NoAccount
      BY <1>1, FlightAccount, NoAccountAssumption DEF KeptTypes
  <2>3. last' = [last EXCEPT ![r] = kept]
    <3>1. last' = [last EXCEPT ![r].status = s]
        BY <1>2, <2>1, Zenon DEF Unreachable
    <3>2. QED
        BY <1>1, <3>1 DEF KeptTypes
  <2>4. /\ kept \in Memory /\ kept.status = s /\ kept.upstream = last[r].upstream
        /\ kept.body = last[r].body /\ kept.account = last[r].account
      BY <2>2 DEF Memory
  <2> HIDE DEF kept
  <2>5. NextCandidate(r, account[r], s, FALSE)
      BY <1>2, <2>1 DEF Unreachable
  <2>6. /\ kept.upstream = attempt[r]
        /\ kept.body = IF FALSE THEN attempt[r] ELSE last[r].body
        /\ kept.account = IF account[r] # NoAccount THEN account[r] ELSE LastUser(history[r])
      BY <1>1, <1>2, <2>2, <2>4 DEF AttemptsOK, Folded
  <2>7. /\ s >= 400 /\ capture[r].upstream \in {0, attempt[r]}
        /\ capture[r] \in {capture[r], NoCapture} /\ account[r] \in Accounts \cup {NoAccount}
        /\ capture' = [capture EXCEPT ![r] = capture[r]]
      BY <1>1, <2>1, <2>2 DEF AttemptsOK, Recorded, KeptTypes
  <2>8. QED
      BY <1>1, <1>2, <2>3, <2>4, <2>5, <2>6, <2>7, TurnAttempts, Zenon
<1>3. CASE ~Chat(r)
  <2>1. /\ Finish(r, Reply(502, 0), None)
        /\ UNCHANGED <<last, attempt, history>>
      BY <1>3 DEF Unreachable
  <2>2. KeptTypes' /\ capture'[r].response \in {0, capture'[r].upstream}
      BY <1>1, <2>1 DEF KeptTypes, AttemptsOK
  <2>3. \A q \in Requests \ {r} : Unmoved(q)
      BY <1>1, <2>1, EndLeaves
  <2>4. QED
      BY <1>1, <1>3, <2>1, <2>2, <2>3, EndsEarly
<1>4. QED
    BY <1>2, <1>3

\* The response is recorded with the request it answers.
LEMMA AnswersAttempts ==
    ASSUME Inv, Inv', AttemptsInv, NEW r \in Requests, NEW status \in UpstreamStatuses,
           Answers(r, status)
    PROVE  AttemptsInv'
<1> DEFINE segment == [capture[r] EXCEPT !.response = Recorded(r)]
<1>1. /\ pc[r] = "sent" /\ InFlight(r) /\ Waiting(r) /\ KeptTypes /\ AttemptsOK(r)
      /\ status \in Nat /\ Recorded(r) \in Nat
      /\ answer' = [answer EXCEPT ![r] = status]
      /\ capture' = [capture EXCEPT ![r] = segment]
      /\ UNCHANGED <<call, snap, attempt, account, last, history>>
  <2>1. capture' = [capture EXCEPT ![r].response = Recorded(r)]
      BY DEF Answers
  <2>2. KeptTypes
      BY DEF AttemptsInv
  <2>3. capture' = [capture EXCEPT ![r] = segment]
      BY <2>1, <2>2 DEF KeptTypes
  <2>4. QED
      BY <2>2, <2>3, StatusesAssumption
         DEF Answers, Waiting, InFlight, AttemptsInv, Recorded, Inv, TypeOK
<1>2. capture[r].upstream = Recorded(r)
    BY <1>1 DEF AttemptsOK
<1>3. /\ segment \in [upstream : Nat, response : Nat]
      /\ segment.upstream = Recorded(r) /\ segment.response = Recorded(r)
    BY <1>1, <1>2 DEF KeptTypes
<1> HIDE DEF segment
<1>4. /\ KeptTypes' /\ capture'[r] = segment /\ answer'[r] = status
      /\ \A q \in Requests \ {r} : capture'[q] = capture[q] /\ answer'[q] = answer[q]
    BY <1>1, <1>3 DEF KeptTypes, Inv, TypeOK
<1>5. CASE call[r].kind = "count" /\ ~ToldAtOnce(r, status)
  <2>1. Finish(r, Reply(200, 0), None) /\ ~Chat(r)
      BY <1>5 DEF Answers, Chat
  <2>2. \A q \in Requests \ {r} : Unmoved(q)
      BY <1>1, <1>4, <2>1, FinishFacts DEF Unmoved, Untouched
  <2>3. UNCHANGED <<call, snap, attempt, history>>
      BY <1>1
  <2>4. capture'[r].response \in {0, capture'[r].upstream}
      BY <1>3, <1>4
  <2>5. QED
      BY <1>1, <1>4, <2>1, <2>2, <2>3, <2>4, EndsEarly
<1>6. CASE ~(call[r].kind = "count" /\ ~ToldAtOnce(r, status))
  <2> DEFINE label == IF Chat(r) /\ FailsOver(status) THEN "drain" ELSE "relay"
  <2>1. Goto(r, label) /\ label \in ControlStates /\ UNCHANGED row
      BY <1>6 DEF Answers, ControlStates
  <2>2. \A q \in Requests \ {r} : reply'[q] = reply[q]
      BY <1>6 DEF Answers, Inv, TablesOK
  <2>3. pc'[r] = label /\ \A q \in Requests \ {r} : Unmoved(q)
      BY <1>1, <1>4, <2>1, <2>2, GotoFacts DEF Unmoved, Untouched
  <2>4. /\ InFlight(r)' /\ pc'[r] # "done" /\ pc'[r] # "pick" /\ pc'[r] # "idle"
        /\ pc'[r] = "drain" => Chat(r) /\ status >= 400
    <3>1. FailsOver(status) => status >= 400
        BY <1>1 DEF FailsOver, IsAuth, IsRetriable
    <3>2. QED
        BY <2>3, <3>1 DEF InFlight
  <2>5. Recorded(r)' = Recorded(r) /\ Chat(r)' = Chat(r)
      BY <1>1 DEF Recorded, Chat
  <2>6. Folded(r) => Folded(r)'
      BY <1>1, <2>4 DEF Folded
  <2>7. AttemptsOK(r)'
      BY <1>1, <1>3, <1>4, <2>4, <2>5, <2>6 DEF AttemptsOK
  <2>8. QED
      BY <1>4, <2>3, <2>7, AttemptsStep
<1>7. QED
    BY <1>5, <1>6

\* An upstream error that fails over is kept, and its body if there is one.
LEMMA DrainedAttempts ==
    ASSUME Inv, AttemptsInv, NEW r \in Requests, NEW hasBody \in BOOLEAN, NEW d \in RetryAfters,
           Drained(r, hasBody, d)
    PROVE  AttemptsInv'
<1> DEFINE kept == [last[r] EXCEPT !.status = answer[r], !.body = Remember(r, hasBody)]
<1>1. /\ pc[r] = "drain" /\ InFlight(r) /\ Waiting(r) /\ KeptTypes /\ AttemptsOK(r)
      /\ NextCandidate(r, account[r], answer[r], hasBody)
      /\ last' = [last EXCEPT ![r].status = answer[r], ![r].body = Remember(r, hasBody)]
      /\ UNCHANGED <<call, snap, account, answer, capture>>
    BY DEF Drained, InFlight, Waiting, AttemptsInv
<1>2. /\ Chat(r) /\ answer[r] \in Nat /\ answer[r] >= 400
      /\ account[r] \in Accounts /\ account[r] # NoAccount
      /\ attempt[r] \in Nat /\ last[r] \in Memory
    BY <1>1, FlightAccount, NoAccountAssumption, StatusesAssumption
       DEF AttemptsOK, KeptTypes, Inv, TypeOK
<1>3. Remember(r, hasBody) \in Nat
    BY <1>2 DEF Remember, Memory
<1>4. last' = [last EXCEPT ![r] = kept]
    BY <1>1 DEF KeptTypes, Memory
<1>5. /\ kept \in Memory /\ kept.status = answer[r] /\ kept.upstream = last[r].upstream
      /\ kept.body = Remember(r, hasBody) /\ kept.account = last[r].account
    BY <1>2, <1>3 DEF Memory
<1> HIDE DEF kept
<1>6. /\ kept.upstream = attempt[r]
      /\ kept.body = IF hasBody THEN attempt[r] ELSE last[r].body
      /\ kept.account = IF account[r] # NoAccount THEN account[r] ELSE LastUser(history[r])
    BY <1>1, <1>2, <1>5 DEF AttemptsOK, Folded, Remember
<1>7. /\ capture[r].upstream \in {0, attempt[r]}
      /\ capture[r] \in {capture[r], NoCapture} /\ account[r] \in Accounts \cup {NoAccount}
      /\ capture' = [capture EXCEPT ![r] = capture[r]]
    BY <1>1, <1>2 DEF AttemptsOK, Recorded, KeptTypes
<1>8. UNCHANGED <<call, snap, account, answer>>
    BY <1>1
<1>9. InFlight(r) \/ InBudget(r)
    BY <1>1
<1>10. Waiting(r) /\ NextCandidate(r, account[r], answer[r], hasBody)
    BY <1>1
<1>11. QED
    BY <1>2, <1>4, <1>5, <1>6, <1>7, <1>8, <1>9, <1>10, TurnAttempts, Zenon

\* The row of a relayed answer ends with the attempt that is being relayed.
LEMMA RelayEndsAttempts ==
    ASSUME Inv, AttemptsInv, NEW r \in Requests,
           NEW end \in {"complete", "unread", "unwritten"}, RelayEnds(r, end)
    PROVE  AttemptsInv'
<1> DEFINE logged == IF call[r].kind = "count" THEN None
                     ELSE Row(answer[r], Succeeded(r, end),
                              IF Chat(r) THEN attempt[r] ELSE 1, attempt[r], account[r])
<1>1. /\ InFlight(r) /\ Waiting(r) /\ KeptTypes /\ AttemptsOK(r)
      /\ Finish(r, Relayed(r, end), logged)
      /\ UNCHANGED <<call, snap, attempt, account, answer, last, capture, history>>
    BY DEF RelayEnds, InFlight, Waiting, AttemptsInv
<1>2. KeptTypes' /\ capture'[r].response \in {0, capture'[r].upstream}
    BY <1>1 DEF KeptTypes, AttemptsOK
<1>3. \A q \in Requests \ {r} : Unmoved(q)
    BY <1>1, EndLeaves
<1>4. Chat(r) /\ logged # None => capture'[r].upstream \in {0, logged.attempts}
    BY <1>1 DEF AttemptsOK, Recorded, Chat, Row
<1>5. UNCHANGED <<call, snap, attempt, history>>
    BY <1>1
<1> HIDE DEF logged
<1>6. QED
    BY <1>1, <1>2, <1>3, <1>4, <1>5, EndsEarly, Zenon

\* Out of candidates: what was kept is what the attempts say.
LEMMA ExhaustedAttempts ==
    ASSUME Inv, AttemptsInv, NEW r \in Requests, Exhausted(r)
    PROVE  AttemptsInv'
<1> DEFINE h == history[r]
           status == IF last[r].status < 400 THEN 502 ELSE last[r].status
           logged == Row(status, FALSE, MaxAttempts(snap[r]), last[r].upstream, last[r].account)
<1>1. /\ pc[r] = "pick" /\ ~InBudget(r) /\ Waiting(r) /\ ~InFlight(r) /\ KeptTypes /\ AttemptsOK(r)
      /\ Finish(r, Reply(status, last[r].body), logged)
      /\ UNCHANGED <<call, snap, attempt, account, answer, last, capture, history>>
    BY DEF Exhausted, InFlight, Waiting, AttemptsInv
<1> HIDE DEF status, logged
<1>2. pc'[r] = "done" /\ reply'[r] = Reply(status, last[r].body) /\ row'[r] = logged
    BY <1>1, FinishFacts
<1>3. \A q \in Requests \ {r} : Unmoved(q)
    BY <1>1, EndLeaves
<1>4. snap[r] \in Snapshots /\ MaxAttempts(snap[r]) \in Nat /\ attempt[r] \in Nat
    BY <1>1, MaxAttemptsIsNat DEF Inv, TypeOK
<1>5. Chat(r) => Folded(r) /\ attempt[r] - 1 = MaxAttempts(snap[r]) /\ Len(h) = MaxAttempts(snap[r])
    BY <1>1, <1>4 DEF AttemptsOK, Folded, InBudget
<1>6. Chat(r) => capture[r].upstream \in {0, MaxAttempts(snap[r])}
    BY <1>1, <1>5 DEF AttemptsOK
<1>7. ASSUME h # <<>>
      PROVE  /\ Chat(r) /\ status = h[Len(h)].status /\ last[r].body = LastBody(h)
             /\ last[r].upstream = h[Len(h)].cand /\ last[r].account = LastUser(h)
             /\ Len(h) = MaxAttempts(snap[r])
  <2>1. Chat(r) /\ Folded(r) /\ Len(h) = MaxAttempts(snap[r])
      BY <1>1, <1>5, <1>7 DEF AttemptsOK
  <2>2. h \in Seq(Attempts) /\ Len(h) \in DOMAIN h
      BY <1>1, <1>7 DEF KeptTypes
  <2>3. h[Len(h)].cand = Len(h) /\ h[Len(h)].status >= 400 /\ h[Len(h)].status \in Nat
    <3>1. h[Len(h)] \in Attempts
        BY <2>2
    <3>2. h[Len(h)].status \in Nat
        BY <3>1 DEF Attempts
    <3>3. QED
        BY <2>1, <2>2, <3>2 DEF Folded
  <2>4. last[r].status = h[Len(h)].status /\ last[r].upstream = Len(h)
      BY <1>1, <1>7, <2>1 DEF Folded
  <2>5. last[r].body = LastBody(h) /\ last[r].account = LastUser(h)
      BY <1>1, <2>1 DEF Folded
  <2>6. QED
      BY <2>1, <2>3, <2>4, <2>5 DEF status
<1>8. Summarised(r)'
  <2>1. /\ logged.status = status /\ logged.success = FALSE
        /\ logged.attempts = MaxAttempts(snap[r])
        /\ logged.upstream = last[r].upstream /\ logged.account = last[r].account
        /\ Reply(status, last[r].body).status = status
      BY DEF logged, Row, Reply
  <2>2. QED
      BY <1>1, <1>2, <1>6, <1>7, <2>1 DEF Summarised, Chat
<1>9. AttemptsOK(r)'
    BY <1>1, <1>2, <1>8 DEF AttemptsOK, Waiting, InFlight, Chat
<1>10. KeptTypes'
    BY <1>1 DEF KeptTypes
<1>11. QED
    BY <1>3, <1>9, <1>10, AttemptsStep, AttemptsInv

\* Every step keeps what the attempts say and what the handler kept of them
\* together.
LEMMA AttemptsNext ==
    ASSUME Inv, AttemptsInv, [Next]_vars
    PROVE  AttemptsInv'
<1>1. Inv'
    BY StepInv
<1>2. ASSUME NEW r \in Requests, Runs(r)
      PROVE  AttemptsInv'
    BY <1>1, <1>2, SkipPinnedAttempts, NoAccountsAttempts, SendAttempts, ExhaustedAttempts DEF Runs
<1>3. ASSUME NEW r \in Requests, Hears(r)
      PROVE  AttemptsInv'
  <2>1. CASE Unreachable(r)
      BY <2>1, UnreachableAttempts
  <2>2. ASSUME NEW status \in UpstreamStatuses, Answers(r, status)
        PROVE  AttemptsInv'
      BY <1>1, <2>2, AnswersAttempts
  <2>3. ASSUME NEW hasBody \in BOOLEAN, NEW d \in RetryAfters, Drained(r, hasBody, d)
        PROVE  AttemptsInv'
      BY <2>3, DrainedAttempts
  <2>4. ASSUME NEW end \in {"complete", "unread", "unwritten"}, RelayEnds(r, end)
        PROVE  AttemptsInv'
      BY <2>4, RelayEndsAttempts
  <2>5. QED
      BY <1>3, <2>1, <2>2, <2>3, <2>4 DEF Hears
<1>4. ASSUME UNCHANGED <<pc, call, snap, attempt, account, answer, last, capture, reply, row, history>>
      PROVE  AttemptsInv'
  <2>1. KeptTypes' /\ \A q \in Requests : Unmoved(q)
      BY <1>4 DEF AttemptsInv, KeptTypes, Unmoved, Untouched
  <2>2. QED
      BY <2>1, AttemptsFrame DEF AttemptsInv
<1>5. ASSUME \/ \E r \in Requests : HangUp(r)
             \/ \E s \in Snapshots : Publish(s)
             \/ Clock
             \/ UNCHANGED vars
      PROVE  AttemptsInv'
    BY <1>4, <1>5 DEF HangUp, Publish, Clock, vars, requestVars
<1>6. ASSUME NEW r \in Requests, Reject(r) \/ \E c \in Calls : Admit(r, c)
      PROVE  AttemptsInv'
    BY <1>1, <1>6, AdmitAttempts
<1>7. QED
    BY <1>2, <1>3, <1>5, <1>6 DEF Next

\* What is true of the attempts is true of them always.
LEMMA AttemptsInvariance == Spec => []AttemptsInv
<1>1. Inv /\ AttemptsInv /\ [Next]_vars => AttemptsInv'
    BY AttemptsNext
<1>2. QED
    BY <1>1, AttemptsInit, Invariance, PTL DEF Spec

\* When every candidate failed, the answer and the log row are what the
\* attempts say: the status of the last, the latest error body anyone sent and
\* the account used last, however the attempts of the loop ended.
THEOREM AnswersSummarise == Spec => []AnswerSummarisesAttempts
<1>1. AttemptsInv => AnswerSummarisesAttempts
    BY DEF AttemptsInv, AttemptsOK, Summarised, AnswerSummarisesAttempts
<1>2. QED
    BY <1>1, AttemptsInvariance, PTL

\* A recorded payload never mixes two attempts, and is of the attempt that the
\* log row ends with.
THEOREM CapturesAreOfOneAttempt == Spec => []CaptureOfOneAttempt
<1>1. AttemptsInv => CaptureOfOneAttempt
    BY DEF AttemptsInv, AttemptsOK, Summarised, CaptureOfOneAttempt
<1>2. QED
    BY <1>1, AttemptsInvariance, PTL
=============================================================================

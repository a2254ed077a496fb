-------------------------- MODULE AdminLoginProofs --------------------------
(***************************************************************************)
(* For any number of requests at once, any passwords, limit and durations: *)
(* the throttle holds for whoever comes once it locks, and no verdict is   *)
(* about a password that was not the admin's during the call.              *)
(***************************************************************************)
EXTENDS AdminLogin, TLAPS

\* What OneGuessEach and VerdictsAreCurrent rest on: nobody is on the late
\* list when nothing is locked, what is stored is what the admin chose, and
\* a call in progress has seen it.
ThrottleOK == OneGuessEach /\ (lock = 0 => late = {})
CurrentOK ==
    /\ VerdictsAreCurrent
    /\ stored = chosen
    /\ up => stored # NoPassword
    /\ \A c \in Clients : ~At(c, "idle") => up /\ chosen \in seen[c]
Inv == TypeOK /\ ThrottleOK /\ CurrentOK

USE DEF Parameters

\* A client between two calls.
LEMMA IdleFacts ==
    /\ Idle \in Call /\ Idle.at = "idle"
  BY DEF Idle, Call

\* The server that has not booted yet: no call is in progress.
LEMMA InvInit == ASSUME Parameters, Init PROVE Inv
<1>1. TypeOK
  <2>1. failures \in 0 .. (Limit - 1) /\ lock \in 0 .. LockTime
    BY DEF Init
  <2>2. call \in [Clients -> Call] /\ seen \in [Clients -> SUBSET Passwords]
    BY IdleFacts DEF Init
  <2> QED
    BY <2>1, <2>2 DEF Init, TypeOK
<1>2. ThrottleOK
  BY DEF Init, ThrottleOK, OneGuessEach
<1>3. CurrentOK
  BY IdleFacts DEF Init, CurrentOK, VerdictsAreCurrent, At
<1> QED
  BY <1>1, <1>2, <1>3 DEF Inv

\* The handler of c moves on to n and leaves the others where they are.
Moves(c, n) ==
    /\ n \in Call
    /\ call' \in [Clients -> Call] /\ call'[c] = n
    /\ \A d \in Clients : d # c => call'[d] = call[d]

\* A handler that moves changes the call of its own client only.
LEMMA MovesFacts ==
    ASSUME TypeOK, NEW c \in Clients, NEW n \in Call, call' = [call EXCEPT ![c] = n]
    PROVE  Moves(c, n)
  BY DEF TypeOK, Moves

\* The steps that are not of a handler.
LEMMA EnvironmentInv ==
    ASSUME Parameters, Inv, (\E seed \in Passwords : Boot(seed)) \/ Crash \/ Tick \/ UNCHANGED vars
    PROVE  Inv'
<1> USE DEF Inv, TypeOK, ThrottleOK, OneGuessEach, CurrentOK, VerdictsAreCurrent, Guessing, At
<1>1. ASSUME NEW seed \in Passwords, Boot(seed) PROVE Inv'
  BY <1>1 DEF Boot, throttle
<1>2. CASE Crash
  <2>1. call' \in [Clients -> Call] /\ seen' \in [Clients -> SUBSET Passwords]
    BY <1>2, IdleFacts DEF Crash
  <2>2. \A c \in Clients : call'[c].at = "idle"
    BY <1>2, IdleFacts DEF Crash
  <2>3. failures' \in 0 .. (Limit - 1) /\ lock' \in 0 .. LockTime /\ late' = {}
    BY <1>2 DEF Crash
  <2>4. up' = FALSE /\ stored' = stored /\ chosen' = chosen
    BY <1>2 DEF Crash, database
  <2> QED
    BY <2>1, <2>2, <2>3, <2>4
<1>3. CASE Tick
  BY <1>3 DEF Tick
<1>4. CASE UNCHANGED vars
  BY <1>4 DEF vars, database, throttle, history
<1> QED
  BY <1>1, <1>2, <1>3, <1>4

-----------------------------------------------------------------------------
\* A handler begins: it is a guess only when nothing is locked.
LEMMA BeginsInv ==
    ASSUME Parameters, Inv, NEW c \in Clients, NEW n \in Call, Begins(c, n), n.at \in {"read", "delete"},
           n.op = "login" => lock = 0, UNCHANGED <<up, database, throttle, chosen, late>>
    PROVE  Inv'
<1>1. Moves(c, n)
  BY MovesFacts DEF Begins, Inv
<1>2. /\ seen' \in [Clients -> SUBSET Passwords] /\ seen'[c] = {chosen}
      /\ \A d \in Clients : d # c => seen'[d] = seen[d]
  BY DEF Begins, Inv, TypeOK, CurrentOK
<1>3. TypeOK'
  BY <1>1, <1>2 DEF Inv, TypeOK, Moves, database, throttle
<1>4. ThrottleOK'
  BY <1>1 DEF Inv, TypeOK, ThrottleOK, OneGuessEach, Guessing, Moves, throttle
<1>5. CurrentOK'
  BY <1>1, <1>2 DEF Inv, CurrentOK, VerdictsAreCurrent, At, Moves, Begins, database
<1> QED
  BY <1>3, <1>4, <1>5 DEF Inv

\* A handler goes on: where it arrives it has what VerdictsAreCurrent asks.
LEMMA GoesInv ==
    ASSUME Parameters, Inv, NEW c \in Clients, NEW n \in Call, call' = [call EXCEPT ![c] = n],
           ~At(c, "idle"), n.op = call[c].op,
           n.at = "compare" => n.hash = chosen /\ At(c, "read"),
           n.at \in {"compare", "issue", "set"},
           n.at \in {"issue", "set"} => At(c, "compare") /\ n.pw = call[c].hash,
           failures' \in 0 .. (Limit - 1), UNCHANGED <<up, database, lock, history>>
    PROVE  Inv'
<1>1. Moves(c, n)
  BY MovesFacts DEF Inv
<1>2. TypeOK'
  BY <1>1 DEF Inv, TypeOK, Moves, database, history
<1>3. ThrottleOK'
  BY <1>1 DEF Inv, TypeOK, ThrottleOK, OneGuessEach, Guessing, Moves, At, history
<1>4. CurrentOK'
  BY <1>1 DEF Inv, CurrentOK, VerdictsAreCurrent, At, Moves, database, history
<1> QED
  BY <1>2, <1>3, <1>4 DEF Inv

\* A handler answers without a change of the password or the throttle.
LEMMA AnsweredInv ==
    ASSUME Parameters, Inv, NEW c \in Clients, Answered(c),
           UNCHANGED <<up, stored, throttle, chosen, late>>
    PROVE  Inv'
<1>1. Moves(c, Idle)
  BY MovesFacts, IdleFacts DEF Answered, Inv
<1>2. /\ seen' \in [Clients -> SUBSET Passwords]
      /\ \A d \in Clients : d # c => seen'[d] = seen[d]
  BY DEF Answered, Inv, TypeOK
<1>3. TypeOK'
  BY <1>1, <1>2 DEF Inv, TypeOK, Moves, throttle
<1>4. ThrottleOK'
  BY <1>1, IdleFacts DEF Inv, TypeOK, ThrottleOK, OneGuessEach, Guessing, Moves, throttle
<1>5. CurrentOK'
  BY <1>1, <1>2, IdleFacts DEF Inv, CurrentOK, VerdictsAreCurrent, At, Moves
<1> QED
  BY <1>3, <1>4, <1>5 DEF Inv

\* A wrong guess ends: whoever is put on the late list is not guessing.
LEMMA WrongInv == ASSUME Parameters, Inv, NEW c \in Clients, Wrong(c) PROVE Inv'
<1>1. Moves(c, Idle)
  BY MovesFacts, IdleFacts DEF Wrong, Answered, Inv
<1>2. /\ seen' \in [Clients -> SUBSET Passwords]
      /\ \A d \in Clients : d # c => seen'[d] = seen[d]
  BY DEF Wrong, Answered, Inv, TypeOK
<1>3. /\ failures' \in 0 .. (Limit - 1) /\ lock' \in 0 .. LockTime
      /\ lock' >= lock /\ (lock' = 0 => lock = 0)
  BY DEF Wrong, Inv, TypeOK
<1>4. late' \subseteq late \cup {c} /\ (lock' = 0 => late' = {})
  BY <1>3 DEF Wrong, Inv, ThrottleOK
<1>5. TypeOK'
  BY <1>1, <1>2, <1>3, <1>4 DEF Inv, TypeOK, Moves, Wrong, database
<1>6. ThrottleOK'
  BY <1>1, <1>4, IdleFacts DEF Inv, TypeOK, ThrottleOK, OneGuessEach, Guessing, Moves
<1>7. CurrentOK'
  BY <1>1, <1>2, IdleFacts DEF Inv, CurrentOK, VerdictsAreCurrent, At, Moves, Wrong, database
<1> QED
  BY <1>5, <1>6, <1>7 DEF Inv

\* The password changes: every other call has now seen two.
LEMMA SetInv == ASSUME Parameters, Inv, NEW c \in Clients, SetPasswordHash(c) PROVE Inv'
<1> DEFINE new == call[c].new
<1>1. Moves(c, Idle)
  BY MovesFacts, IdleFacts DEF SetPasswordHash, Inv
<1>2. new \in Passwords
  BY DEF SetPasswordHash, At, Inv, TypeOK, Call
<1>3. /\ seen' \in [Clients -> SUBSET Passwords]
      /\ \A d \in Clients : d # c /\ ~At(d, "idle") => seen'[d] = seen[d] \cup {new}
  BY <1>2 DEF SetPasswordHash, Inv, TypeOK
<1>4. TypeOK'
  BY <1>1, <1>2, <1>3 DEF Inv, TypeOK, Moves, SetPasswordHash, throttle
<1>5. ThrottleOK'
  BY <1>1, IdleFacts DEF Inv, TypeOK, ThrottleOK, OneGuessEach, Guessing, Moves,
     SetPasswordHash, throttle
<1>6. CurrentOK'
  BY <1>1, <1>2, <1>3, IdleFacts DEF Inv, CurrentOK, VerdictsAreCurrent, At, Moves, SetPasswordHash
<1> QED
  BY <1>4, <1>5, <1>6 DEF Inv

-----------------------------------------------------------------------------
\* The steps of the handlers: login, the password change and logout.
LEMMA HandlesInv == ASSUME Parameters, Inv, NEW c \in Clients, Handles(c) PROVE Inv'
<1> USE DEF At
<1>1. ASSUME NEW p \in Passwords, Login(c, p) PROVE Inv'
  <2> DEFINE n == [Idle EXCEPT !.at = "read", !.op = "login", !.pw = p]
  <2>1. n \in Call /\ n.at = "read"
    BY DEF Idle, Call
  <2> QED
    BY <1>1, <2>1, BeginsInv DEF Login
<1>2. ASSUME NEW t \in Tokens, NEW old \in Passwords, NEW new \in Passwords,
             ChangePassword(c, t, old, new)
      PROVE  Inv'
  <2> DEFINE n == [Idle EXCEPT !.at = "read", !.op = "change", !.pw = old, !.new = new]
  <2>1. n \in Call /\ n.at = "read" /\ n.op = "change"
    BY DEF Idle, Call
  <2> QED
    BY <1>2, <2>1, BeginsInv DEF ChangePassword
<1>3. ASSUME NEW t \in Tokens, Logout(c, t) PROVE Inv'
  <2> DEFINE n == [Idle EXCEPT !.at = "delete", !.op = "logout", !.token = t]
  <2>1. n \in Call /\ n.at = "delete" /\ n.op = "logout"
    BY <1>3 DEF Idle, Call
  <2> QED
    BY <1>3, <2>1, BeginsInv DEF Logout
<1>4. CASE ReadHash(c)
  <2> DEFINE n == [call[c] EXCEPT !.at = "compare", !.hash = stored]
  <2>1. stored = chosen
    BY <1>4 DEF ReadHash, Inv, CurrentOK
  <2>2. call[c] \in Call /\ stored \in Passwords \cup {NoPassword}
    BY DEF Inv, TypeOK
  <2>3. n \in Call
    BY <2>2 DEF Call
  <2>4. n.at = "compare" /\ n.op = call[c].op /\ n.hash = chosen
    BY <2>1, <2>2 DEF Call
  <2>5. call' = [call EXCEPT ![c] = n]
    BY <1>4 DEF ReadHash
  <2> QED
    BY <1>4, <2>3, <2>4, <2>5, GoesInv DEF ReadHash, Inv, TypeOK, throttle
<1>5. CASE Right(c)
  <2> DEFINE n == [call[c] EXCEPT !.at = "issue"]
  <2>1. /\ n \in Call /\ n.at = "issue" /\ n.op = call[c].op /\ n.pw = call[c].hash
        /\ call' = [call EXCEPT ![c] = n]
    BY <1>5 DEF Right, Goes, Inv, TypeOK, Call
  <2>2. failures' \in 0 .. (Limit - 1)
    BY <1>5 DEF Right
  <2> QED
    BY <1>5, <2>1, <2>2, GoesInv DEF Right
<1>6. CASE OldIsRight(c)
  <2> DEFINE n == [call[c] EXCEPT !.at = "set"]
  <2>1. /\ n \in Call /\ n.at = "set" /\ n.op = call[c].op /\ n.pw = call[c].hash
        /\ call' = [call EXCEPT ![c] = n]
    BY <1>6 DEF OldIsRight, Goes, Inv, TypeOK, Call
  <2> QED
    BY <1>6, <2>1, GoesInv DEF OldIsRight, Inv, TypeOK, throttle
<1>7. CASE OldIsWrong(c) \/ DeleteSession(c) \/ Fails(c) \/ \E t \in Tokens : CreateSession(c, t)
  BY <1>7, AnsweredInv DEF OldIsWrong, DeleteSession, Fails, CreateSession, database
<1> QED
  BY <1>1, <1>2, <1>3, <1>4, <1>5, <1>6, <1>7, WrongInv, SetInv DEF Handles

\* The invariant that ThrottleHolds, NoStaleVerdict and LockOutsLast follow from.
\* Inductive over the handlers' steps and those of the environment.
THEOREM Invariance == ASSUME Parameters PROVE Spec => []Inv
<1>1. Inv /\ [Next]_vars => Inv'
  BY EnvironmentInv, HandlesInv DEF Next
<1> QED
  BY InvInit, <1>1, PTL DEF Spec

\* During one lock-out a client has at most one guess answered, however many
\* clients there are and however often their late failures prolong it.
THEOREM ThrottleHolds == ASSUME Parameters PROVE Spec => []OneGuessEach
<1>1. Inv => OneGuessEach
  BY DEF Inv, ThrottleOK
<1> QED
  BY <1>1, Invariance, PTL

\* No verdict of a login or a change is about a password that was not the
\* admin's at some moment of the call.
THEOREM NoStaleVerdict == ASSUME Parameters PROVE Spec => []VerdictsAreCurrent
<1>1. Inv => VerdictsAreCurrent
  BY DEF Inv, CurrentOK
<1> QED
  BY <1>1, Invariance, PTL

\* Nothing but time and the end of the process shortens a lock-out.
THEOREM LockOutsLast == ASSUME Parameters PROVE Spec => LockOutLasts
<1>1. Inv /\ [Next]_vars => [lock' < lock => Tick \/ Crash]_vars
  <2> SUFFICES ASSUME Inv, Next, lock' < lock PROVE Tick \/ Crash
    BY DEF vars, throttle, Inv, TypeOK
  <2>1. ASSUME NEW seed \in Passwords, Boot(seed) PROVE FALSE
    BY <2>1 DEF Boot, throttle, Inv, TypeOK
  <2>2. ASSUME NEW c \in Clients, Handles(c) PROVE FALSE
    <3>1. lock \in Nat /\ lock' # lock
      BY DEF Inv, TypeOK
    <3>2. ~Wrong(c)
      BY DEF Wrong, Inv, TypeOK
    <3> QED
      BY <2>2, <3>1, <3>2 DEF Handles, Login, ChangePassword, Logout, CreateSession, ReadHash, Right,
         OldIsWrong, OldIsRight, SetPasswordHash, DeleteSession, Fails, throttle
  <2> QED
    BY <2>1, <2>2 DEF Next
<1> QED
  BY <1>1, Invariance, PTL DEF Spec, LockOutLasts
=============================================================================

----------------------------- MODULE AdminLogin -----------------------------
(***************************************************************************)
(* The admin's password, the throttle on guessing it and the sessions it   *)
(* opens (internal/auth/admin.go, store/admin.go, api/auth_handlers.go).   *)
(* The mutex covers the two fields of the throttle and nothing else: it is *)
(* released while the stored hash is read and compared, which bcrypt makes *)
(* slow, so attempts overlap with each other, with a change of the         *)
(* password and with a lock-out that begins meanwhile.                     *)
(*                                                                         *)
(* Deadlines are kept as the ticks left until they are reached.  A hash is *)
(* the password it was made of, which is all a comparison tells.           *)
(***************************************************************************)
EXTENDS Naturals

CONSTANTS
    Clients,         \* requests to the login and password handlers under way
    Passwords,
    NoPassword,      \* before the first boot; an unset field of a call
    Tokens,          \* as many as sessions are ever opened; a bound
    NoToken,
    Limit,           \* wrong passwords that lock the login; 5 in the code
    LockTime,        \* time.Minute
    SessionTTL       \* 7 days

\* What the parameters have to be for the model to be the program's.
Parameters ==
    /\ NoPassword \notin Passwords
    /\ Limit \in Nat \ {0} /\ LockTime \in Nat \ {0} /\ SessionTTL \in Nat

VARIABLES
    up,              \* the process serves
    stored,          \* admin_auth.password_hash
    sessions,        \* [issued tokens -> ticks until expires_at, 0 also once deleted]
    failures,        \* Admin.failures
    lock,            \* ticks until Admin.lockUntil
    call,            \* [Clients -> where its handler is, and its locals]
    chosen,          \* the admin's password: the seed of the first boot, then the last change
    seen,            \* [Clients -> what has been the admin's password since the call began]
    late             \* clients whose guess was found wrong in the lock-out under way

database == <<stored, sessions>>
throttle == <<failures, lock>>
history == <<chosen, seen, late>>    \* read by no action
vars == <<up, database, throttle, call, history>>

Call ==
    {k \in [at : {"idle", "read", "compare", "issue", "set", "delete"}, op : {"login", "change", "logout"},
            pw : Passwords \cup {NoPassword}, new : Passwords \cup {NoPassword},
            hash : Passwords \cup {NoPassword}, token : Tokens \cup {NoToken}] :
        /\ k.at = "set" => k.op = "change"
        /\ k.op = "change" => k.new \in Passwords}
Idle == [at |-> "idle", op |-> "login", pw |-> NoPassword, new |-> NoPassword,
         hash |-> NoPassword, token |-> NoToken]

TypeOK ==
    /\ up \in BOOLEAN
    /\ stored \in Passwords \cup {NoPassword} /\ chosen \in Passwords \cup {NoPassword}
    /\ failures \in 0 .. (Limit - 1)
    /\ lock \in 0 .. LockTime
    /\ call \in [Clients -> Call]
    /\ seen \in [Clients -> SUBSET Passwords]
    /\ late \subseteq Clients

Init ==
    /\ up = FALSE
    /\ stored = NoPassword /\ chosen = NoPassword
    /\ sessions = [t \in {} |-> 0]
    /\ failures = 0 /\ lock = 0
    /\ call = [c \in Clients |-> Idle]
    /\ seen = [c \in Clients |-> {}]
    /\ late = {}

Valid(t) == t \in DOMAIN sessions /\ sessions[t] > 0

\* Locals of a call in progress; the answer of one ends it.
At(c, at) == call[c].at = at
Goes(c, at) == call' = [call EXCEPT ![c].at = at]
Answered(c) == call' = [call EXCEPT ![c] = Idle] /\ seen' = [seen EXCEPT ![c] = {}]
Begins(c, new) ==
    /\ up /\ At(c, "idle")
    /\ call' = [call EXCEPT ![c] = new]
    /\ seen' = [seen EXCEPT ![c] = {chosen}]

-----------------------------------------------------------------------------
\* The process starts: Bootstrap stores the seed, or a password it makes up,
\* unless there is one.
Boot(seed) ==
    /\ ~up /\ up' = TRUE
    /\ stored' = IF stored = NoPassword THEN seed ELSE stored
    /\ chosen' = IF chosen = NoPassword THEN seed ELSE chosen
    /\ UNCHANGED <<sessions, throttle, call, seen, late>>

\* It stops, wherever its handlers are; the throttle is in memory.
Crash ==
    /\ up /\ up' = FALSE
    /\ failures' = 0 /\ lock' = 0
    /\ call' = [c \in Clients |-> Idle]
    /\ seen' = [c \in Clients |-> {}]
    /\ late' = {}
    /\ UNCHANGED <<database, chosen>>

Tick ==
    /\ lock' = IF lock > 0 THEN lock - 1 ELSE 0
    /\ sessions' = [t \in DOMAIN sessions |-> IF sessions[t] > 0 THEN sessions[t] - 1 ELSE 0]
    /\ late' = IF lock > 1 THEN late ELSE {}
    /\ UNCHANGED <<up, stored, failures, call, chosen, seen>>

-----------------------------------------------------------------------------
\* Login: past the throttle (a locked one is answered at once).
Login(c, p) ==
    /\ lock = 0
    /\ Begins(c, [Idle EXCEPT !.at = "read", !.op = "login", !.pw = p])
    /\ UNCHANGED <<up, database, throttle, chosen, late>>

\* ChangePassword and Logout, behind requireSession.
ChangePassword(c, t, old, new) ==
    /\ Valid(t)
    /\ Begins(c, [Idle EXCEPT !.at = "read", !.op = "change", !.pw = old, !.new = new])
    /\ UNCHANGED <<up, database, throttle, chosen, late>>

Logout(c, t) ==
    /\ Valid(t)
    /\ Begins(c, [Idle EXCEPT !.at = "delete", !.op = "logout", !.token = t])
    /\ UNCHANGED <<up, database, throttle, chosen, late>>

\* AdminRepo.PasswordHash.
ReadHash(c) ==
    /\ At(c, "read")
    /\ call' = [call EXCEPT ![c].at = "compare", ![c].hash = stored]
    /\ UNCHANGED <<up, database, throttle, history>>

\* The comparison of Login fails, and is counted: the last of Limit locks.
Wrong(c) ==
    /\ At(c, "compare") /\ call[c].op = "login" /\ call[c].hash # call[c].pw
    /\ failures' = IF failures + 1 >= Limit THEN 0 ELSE failures + 1
    /\ lock' = IF failures + 1 >= Limit THEN LockTime ELSE lock
    /\ late' = IF lock' > 0 THEN late \cup {c} ELSE late
    /\ Answered(c)
    /\ UNCHANGED <<up, database, chosen>>

\* It succeeds; a lock-out that began meanwhile stays.
Right(c) ==
    /\ At(c, "compare") /\ call[c].op = "login" /\ call[c].hash = call[c].pw
    /\ failures' = 0
    /\ Goes(c, "issue")
    /\ UNCHANGED <<up, database, lock, history>>

\* The comparison of ChangePassword, which is not counted.
OldIsWrong(c) ==
    /\ At(c, "compare") /\ call[c].op = "change" /\ call[c].hash # call[c].pw
    /\ Answered(c)
    /\ UNCHANGED <<up, database, throttle, chosen, late>>

OldIsRight(c) ==
    /\ At(c, "compare") /\ call[c].op = "change" /\ call[c].hash = call[c].pw
    /\ Goes(c, "set")
    /\ UNCHANGED <<up, database, throttle, history>>

\* The one write of each call: CreateSession, SetPasswordHash, DeleteSession.
CreateSession(c, t) ==
    /\ At(c, "issue") /\ t \notin DOMAIN sessions
    /\ sessions' = [u \in DOMAIN sessions \cup {t} |-> IF u = t THEN SessionTTL ELSE sessions[u]]
    /\ Answered(c)
    /\ UNCHANGED <<up, stored, throttle, chosen, late>>

SetPasswordHash(c) ==
    /\ At(c, "set")
    /\ stored' = call[c].new /\ chosen' = call[c].new
    /\ call' = [call EXCEPT ![c] = Idle]
    /\ seen' = [d \in Clients |-> IF d = c \/ At(d, "idle") THEN {} ELSE seen[d] \cup {call[c].new}]
    /\ UNCHANGED <<up, sessions, throttle, late>>

DeleteSession(c) ==
    /\ At(c, "delete")
    /\ sessions' = [sessions EXCEPT ![call[c].token] = 0]
    /\ Answered(c)
    /\ UNCHANGED <<up, stored, throttle, chosen, late>>

\* The database fails, or the client is gone and with it the context of the
\* next query; the comparison itself cannot be cancelled.
Fails(c) ==
    /\ call[c].at \in {"read", "issue", "set", "delete"}
    /\ Answered(c)
    /\ UNCHANGED <<up, database, throttle, chosen, late>>

Handles(c) ==
    \/ \E p \in Passwords : Login(c, p)
    \/ \E t \in Tokens, old, new \in Passwords : ChangePassword(c, t, old, new)
    \/ \E t \in Tokens : Logout(c, t) \/ CreateSession(c, t)
    \/ ReadHash(c) \/ Wrong(c) \/ Right(c) \/ OldIsWrong(c) \/ OldIsRight(c)
    \/ SetPasswordHash(c) \/ DeleteSession(c) \/ Fails(c)

Next ==
    \/ \E seed \in Passwords : Boot(seed)
    \/ Crash
    \/ Tick
    \/ \E c \in Clients : Handles(c)

Spec == Init /\ [][Next]_vars

-----------------------------------------------------------------------------
Guessing(c) == call[c].op = "login" /\ call[c].at \in {"read", "compare"}

\* During one lock-out, however often late failures prolong it, a client has
\* at most one guess answered: the one it had under way when the lock-out
\* began.  (Login checks the throttle, lets go of the mutex, and counts later.)
OneGuessEach == \A c \in late : ~Guessing(c)

\* A lock-out ends by time or with the process: a success that comes late
\* resets the count, not the deadline.
LockOutLasts == [][lock' < lock => Tick \/ Crash]_vars

\* Whatever a login or a change is told about a password, it is true of one
\* that was the admin's at some moment of the call: a password that was
\* changed before the call opens nothing, though the process restarted in
\* between with the old one as its seed.
VerdictsAreCurrent ==
    \A c \in Clients :
        /\ At(c, "compare") => call[c].hash \in seen[c]
        /\ call[c].at \in {"issue", "set"} => call[c].pw \in seen[c]

=============================================================================

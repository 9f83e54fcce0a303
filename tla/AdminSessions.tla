---------------------------- MODULE AdminSessions ----------------------------
(***************************************************************************)
(* Administrator sessions, CSRF tokens and the login lockout               *)
(* (src/src/admin.rs), as the HTTP handlers (src/src/http_app.rs) use them.*)
(*                                                                         *)
(* Every critical section of the session manager is one step.  A handler   *)
(* reads the clock before it waits for the mutex, and enters several       *)
(* sections: logout authenticates and then removes the session; the        *)
(* session call authenticates, authenticates again to issue a CSRF token,  *)
(* stores the token, and counts the sessions.                              *)
(*                                                                         *)
(* Session and CSRF tokens are numbers drawn from one counter: the code    *)
(* draws 32 random bytes, so no token is drawn twice.  Digests are left    *)
(* out.  Whether a login carries the right username and password is an     *)
(* input.  A finished handler's slot is used again by a later request.     *)
(***************************************************************************)
EXTENDS Naturals, FiniteSets, Functions

CONSTANTS
    Handler,              \* requests handled at the same time
    Client,               \* login client keys (peer addresses)
    idle_timeout, absolute_timeout, max_failed_attempts, lockout_duration,
    MaxToken,             \* bound: tokens drawn
    MaxTime               \* bound: last instant of the clock

VARIABLES
    attempts,    \* client -> failures and lock, on the clients that have one
    sessions,    \* session token -> session, on the live ones
    next_token,  \* the next random token
    handlers,    \* each slot's program counter and locals
    clock

vars == <<attempts, sessions, next_token, handlers, clock>>

ASSUME PolicyAssumption ==
    /\ idle_timeout \in Nat
    /\ absolute_timeout \in Nat
    /\ max_failed_attempts \in Nat \ {0}
    /\ lockout_duration \in Nat \ {0}
    /\ MaxToken \in Nat
    /\ MaxTime \in Nat

NotLocked == 0

NoToken == 0

LoginAttempt == [failures : 0 .. max_failed_attempts, locked_until : Nat]

SessionRecord == [created_at : Nat, last_seen_at : Nat, csrf : Nat]

Pc == {"idle", "login", "mutate", "logout", "remove", "session", "issue",
       "store", "count"}

Slot == [pc : Pc, now : Nat, client : Client \cup {NoToken}, token : Nat,
         csrf : Nat]

IdleSlot == [pc |-> "idle", now |-> 0, client |-> NoToken, token |-> NoToken,
             csrf |-> NoToken]

Nothing == [x \in {} |-> 0]

Init ==
    /\ attempts = Nothing
    /\ sessions = Nothing
    /\ next_token = 1
    /\ handlers = [h \in Handler |-> IdleSlot]
    /\ clock = 1

With(f, x, v) == [y \in DOMAIN f \cup {x} |-> IF y = x THEN v ELSE f[y]]

Without(f, x) == Restrict(f, DOMAIN f \ {x})

Finish(h) == handlers' = [handlers EXCEPT ![h] = IdleSlot]

\* The handler goes on to its next section, with a fresh clock reading.
Goto(h, pc) ==
    handlers' = [handlers EXCEPT ![h] =
        [pc |-> pc, now |-> clock, client |-> handlers[h].client,
         token |-> handlers[h].token, csrf |-> handlers[h].csrf]]
-----------------------------------------------------------------------------
\* A client sends a login, or a request with a session cookie it was given
\* and, on what changes state, some CSRF token it was given or none.
Begin(h, pc, client, token, csrf) ==
    /\ handlers[h].pc = "idle"
    /\ handlers' = [handlers EXCEPT ![h] =
            [pc |-> pc, now |-> clock, client |-> client, token |-> token,
             csrf |-> csrf]]
    /\ UNCHANGED <<attempts, sessions, next_token, clock>>

Live(session, now) ==
    /\ now < session.created_at + absolute_timeout
    /\ now <= session.last_seen_at + idle_timeout

Purged(now) ==
    Restrict(sessions, {t \in DOMAIN sessions : Live(sessions[t], now)})

\* The client's entry as login finds it, an elapsed lock already cleared.
NoAttempt == [failures |-> 0, locked_until |-> NotLocked]

AttemptOf(client) ==
    IF client \in DOMAIN attempts THEN attempts[client] ELSE NoAttempt

Judged(client) ==
    IF AttemptOf(client).locked_until # NotLocked THEN NoAttempt
    ELSE AttemptOf(client)

Locked(client, now) == now < AttemptOf(client).locked_until

\* Mutant: one attempt too many before the lock.
FailedLate(attempt, now) ==
    LET failures == attempt.failures + 1
    IN  [failures |-> failures,
         locked_until |-> IF failures > max_failed_attempts
                          THEN now + lockout_duration
                          ELSE attempt.locked_until]

\* The entry after one more failure.
Failed(attempt, now) ==
    LET failures == attempt.failures + 1
    IN  [failures |-> failures,
         locked_until |-> IF failures >= max_failed_attempts
                          THEN now + lockout_duration
                          ELSE attempt.locked_until]

\* Refused without a look at the password.
LoginRateLimited(h) ==
    LET client == handlers[h].client
    IN  /\ handlers[h].pc = "login"
        /\ Locked(client, handlers[h].now)
        /\ sessions' = Purged(handlers[h].now)
        /\ Finish(h)
        /\ UNCHANGED <<attempts, next_token, clock>>

LoginWrong(h) ==
    LET client == handlers[h].client
    IN  /\ handlers[h].pc = "login"
        /\ ~ Locked(client, handlers[h].now)
        /\ attempts' = With(attempts, client,
                            Failed(Judged(client), handlers[h].now))
        /\ sessions' = Purged(handlers[h].now)
        /\ Finish(h)
        /\ UNCHANGED <<next_token, clock>>

LoginRight(h) ==
    LET client == handlers[h].client
        now == handlers[h].now
    IN  /\ handlers[h].pc = "login"
        /\ ~ Locked(client, now)
        /\ next_token + 1 <= MaxToken
        /\ attempts' = Without(attempts, client)
        /\ sessions' = With(Purged(now), next_token,
                            [created_at |-> now, last_seen_at |-> now,
                             csrf |-> next_token + 1])
        /\ next_token' = next_token + 2
        /\ Finish(h)
        /\ UNCHANGED clock

\* authenticate fails; an expired session is removed.
Rejected(h, csrf_ok) ==
    LET t == handlers[h].token
    IN  \/ t \notin DOMAIN sessions /\ UNCHANGED sessions
        \/ /\ t \in DOMAIN sessions /\ ~ Live(sessions[t], handlers[h].now)
           /\ sessions' = Without(sessions, t)
        \/ /\ t \in DOMAIN sessions /\ Live(sessions[t], handlers[h].now)
           /\ ~ csrf_ok
           /\ UNCHANGED sessions

\* Mutant: the end of the idle period is noted, not the use.
AcceptedAhead(h, csrf_ok) ==
    LET t == handlers[h].token
    IN  /\ t \in DOMAIN sessions
        /\ Live(sessions[t], handlers[h].now)
        /\ csrf_ok
        /\ sessions' = [sessions EXCEPT ![t].last_seen_at =
                            handlers[h].now + idle_timeout]

\* authenticate succeeds.
Accepted(h, csrf_ok) ==
    LET t == handlers[h].token
    IN  /\ t \in DOMAIN sessions
        /\ Live(sessions[t], handlers[h].now)
        /\ csrf_ok
        /\ sessions' = [sessions EXCEPT ![t].last_seen_at = handlers[h].now]

CsrfMatches(h) ==
    /\ handlers[h].token \in DOMAIN sessions
    /\ handlers[h].csrf = sessions[handlers[h].token].csrf

\* The first section of each handler: what changes state needs the CSRF
\* token, the session call does not, and neither does its second look.
Authenticate(h) ==
    LET pc == handlers[h].pc
        csrf_ok == pc \in {"mutate", "logout"} => CsrfMatches(h)
    IN  /\ pc \in {"mutate", "logout", "session", "issue"}
        /\ \/ Rejected(h, csrf_ok) /\ Finish(h)
           \/ /\ Accepted(h, csrf_ok)
              /\ CASE pc = "mutate" -> Finish(h)
                   [] pc = "logout" -> Goto(h, "remove")
                   [] pc = "session" -> Goto(h, "issue")
                   [] pc = "issue" -> Goto(h, "store")
        /\ UNCHANGED <<attempts, next_token, clock>>

logout(h) ==
    /\ handlers[h].pc = "remove"
    /\ sessions' = Without(sessions, handlers[h].token)
    /\ Finish(h)
    /\ UNCHANGED <<attempts, next_token, clock>>

\* Mutant: the CSRF token is stored whether the session is still there or not.
issue_csrf_inserting(h) ==
    LET t == handlers[h].token
    IN  /\ handlers[h].pc = "store"
        /\ next_token <= MaxToken
        /\ next_token' = next_token + 1
        /\ sessions' = With(sessions, t,
                IF t \in DOMAIN sessions
                THEN [sessions[t] EXCEPT !.csrf = next_token]
                ELSE [created_at |-> handlers[h].now,
                      last_seen_at |-> handlers[h].now, csrf |-> next_token])
        /\ Finish(h)
        /\ UNCHANGED <<attempts, clock>>

\* issue_csrf, second section.
issue_csrf(h) ==
    LET t == handlers[h].token
    IN  /\ handlers[h].pc = "store"
        /\ next_token <= MaxToken
        /\ next_token' = next_token + 1
        /\ \/ /\ t \in DOMAIN sessions
              /\ sessions' = [sessions EXCEPT ![t].csrf = next_token]
              /\ handlers' = [handlers EXCEPT ![h] =
                    [pc |-> "count", now |-> clock, client |-> NoToken,
                     token |-> t, csrf |-> next_token]]
           \/ /\ t \notin DOMAIN sessions
              /\ Finish(h)
              /\ UNCHANGED sessions
        /\ UNCHANGED <<attempts, clock>>

\* The session call answers with the CSRF token it stored.
active_session_count(h) ==
    /\ handlers[h].pc = "count"
    /\ sessions' = Purged(handlers[h].now)
    /\ Finish(h)
    /\ UNCHANGED <<attempts, next_token, clock>>

Tick ==
    /\ clock < MaxTime
    /\ clock' = clock + 1
    /\ UNCHANGED <<attempts, sessions, next_token, handlers>>

Issued == 1 .. (next_token - 1)

Next ==
    \/ \E h \in Handler, client \in Client :
            Begin(h, "login", client, NoToken, NoToken)
    \/ \E h \in Handler, token \in Issued :
            Begin(h, "session", NoToken, token, NoToken)
    \/ \E h \in Handler, pc \in {"mutate", "logout"}, token \in Issued,
          csrf \in Issued \cup {NoToken} :
            Begin(h, pc, NoToken, token, csrf)
    \/ \E h \in Handler :
            \/ LoginRateLimited(h)
            \/ LoginWrong(h)
            \/ LoginRight(h)
            \/ Authenticate(h)
            \/ logout(h)
            \/ issue_csrf(h)
            \/ active_session_count(h)
    \/ Tick

Spec == Init /\ [][Next]_vars
-----------------------------------------------------------------------------
\* Type invariant of the session manager and its handlers.
AdminTypeOK ==
    /\ DOMAIN attempts \subseteq Client
    /\ attempts \in [DOMAIN attempts -> LoginAttempt]
    /\ next_token \in Nat \ {0}
    /\ DOMAIN sessions \subseteq Issued
    /\ sessions \in [DOMAIN sessions -> SessionRecord]
    /\ handlers \in [Handler -> Slot]
    /\ clock \in Nat

\* A client is locked exactly when it has used up its attempts, so no client
\* ever has a password checked with max_failed_attempts failures on record,
\* in whatever order clock readings reach the mutex (admin.rs:148-167).
LockedAtLimit ==
    \A c \in DOMAIN attempts :
        attempts[c].locked_until # NotLocked
            <=> attempts[c].failures >= max_failed_attempts

\* A session that ended, by logout, expiry or purge, never comes back, also
\* not by a session call that authenticated before it ended and stores its
\* CSRF token after (admin.rs:229-238).
NeverRevived ==
    [][\A t \in Issued : t \notin DOMAIN sessions => t \notin DOMAIN sessions'
      ]_vars

\* No session was seen before it was created, or after the present: no clock
\* reading is taken for a session before its token was handed out
\* (admin.rs:173-180, 213).
SeenWithinLife ==
    \A t \in DOMAIN sessions :
        /\ sessions[t].created_at <= sessions[t].last_seen_at
        /\ sessions[t].last_seen_at <= clock
=============================================================================

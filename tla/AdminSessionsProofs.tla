------------------------- MODULE AdminSessionsProofs -------------------------
(***************************************************************************)
(* Proofs about AdminSessions.  LockedAtLimit and the type invariant need  *)
(* each other: the failure count stays within its type only because a      *)
(* client at the limit is locked.  SeenWithinLife needs that the readings  *)
(* in the handlers' locals are causal.                                     *)
(***************************************************************************)
EXTENDS AdminSessions, TLAPS

\* What a handler holds is older than the present, and a reading it will use
\* on a session was taken after that session was created.
SlotsCausal ==
    \A h \in Handler :
        /\ handlers[h].token < next_token
        /\ handlers[h].now <= clock
        /\ handlers[h].pc = "login" => handlers[h].client \in Client
        /\ handlers[h].token \in DOMAIN sessions =>
                sessions[handlers[h].token].created_at <= handlers[h].now

IInv == AdminTypeOK /\ LockedAtLimit /\ SeenWithinLife /\ SlotsCausal

\* A set of sessions that is part of the present one keeps all that IInv says
\* of sessions: what purging, logging out and expiry need.
LEMMA FewerSessions ==
    ASSUME IInv, NEW S \in SUBSET DOMAIN sessions,
           sessions' = Restrict(sessions, S),
           next_token' = next_token, clock' = clock,
           NEW g \in Handler,
           \/ handlers' = handlers
           \/ handlers' = [handlers EXCEPT ![g] = IdleSlot]
    PROVE  /\ DOMAIN sessions' \subseteq Issued'
           /\ sessions' \in [DOMAIN sessions' -> SessionRecord]
           /\ handlers' \in [Handler -> Slot]
           /\ SeenWithinLife'
           /\ SlotsCausal'
<1>1. DOMAIN sessions' = S /\ \A t \in S : sessions'[t] = sessions[t]
    BY DEF Restrict
<1>2. DOMAIN sessions' \subseteq Issued'
    BY <1>1 DEF IInv, AdminTypeOK, Issued
<1>3. sessions' \in [DOMAIN sessions' -> SessionRecord]
    BY <1>1 DEF IInv, AdminTypeOK, Restrict
<1>4. IdleSlot \in Slot
    BY DEF IdleSlot, Slot, Pc, NoToken
<1>5. handlers' \in [Handler -> Slot]
    BY <1>4 DEF IInv, AdminTypeOK
<1>6. SeenWithinLife'
    BY <1>1 DEF IInv, SeenWithinLife
<1>7. SlotsCausal'
  <2>1. ASSUME NEW h \in Handler
        PROVE  \/ handlers'[h] = handlers[h]
               \/ handlers'[h] = IdleSlot
    BY DEF IInv, AdminTypeOK
  <2>2. 0 \notin DOMAIN sessions' /\ next_token > 0
    BY <1>2 DEF IInv, AdminTypeOK, Issued
  <2>3. clock \in Nat
    BY DEF IInv, AdminTypeOK
  <2> QED
    BY <1>1, <2>1, <2>2, <2>3 DEF IInv, SlotsCausal, IdleSlot, NoToken
<1> QED BY <1>2, <1>3, <1>5, <1>6, <1>7

LEMMA InitIInv == Init => IInv
<1> SUFFICES ASSUME Init PROVE IInv
    OBVIOUS
<1>1. AdminTypeOK
    BY PolicyAssumption
    DEF Init, AdminTypeOK, Nothing, Slot, Pc, IdleSlot, NoToken, Issued
<1>2. LockedAtLimit /\ SeenWithinLife
    BY DEF Init, LockedAtLimit, SeenWithinLife, Nothing
<1>3. SlotsCausal
    BY DEF Init, SlotsCausal, IdleSlot, Nothing, NoToken
<1> QED BY <1>1, <1>2, <1>3 DEF IInv

\* The locals of a handler change and nothing else: enough that the new ones
\* are causal.
LEMMA OnlyLocals ==
    ASSUME IInv, NEW g \in Handler, NEW slot \in Slot,
           handlers' = [handlers EXCEPT ![g] = slot],
           UNCHANGED <<attempts, sessions, next_token, clock>>,
           slot.token < next_token, slot.now = clock,
           slot.pc = "login" => slot.client \in Client
    PROVE  IInv'
<1>1. AdminTypeOK' /\ LockedAtLimit' /\ SeenWithinLife'
    BY DEF IInv, AdminTypeOK, LockedAtLimit, SeenWithinLife, Issued
<1>2. ASSUME NEW t \in DOMAIN sessions
      PROVE  sessions[t].created_at <= clock
    BY DEF IInv, AdminTypeOK, SeenWithinLife, SessionRecord
<1>3. SlotsCausal'
    BY <1>2 DEF IInv, AdminTypeOK, SlotsCausal
<1> QED BY <1>1, <1>3 DEF IInv

\* A login that is refused or fails, an expired session, a logout, a count:
\* sessions go, and the lockout state stays sound by what is assumed of it.
LEMMA SessionsGo ==
    ASSUME IInv, NEW S \in SUBSET DOMAIN sessions, NEW g \in Handler,
           sessions' = Restrict(sessions, S),
           handlers' = [handlers EXCEPT ![g] = IdleSlot],
           UNCHANGED <<next_token, clock>>,
           DOMAIN attempts' \subseteq Client,
           attempts' \in [DOMAIN attempts' -> LoginAttempt],
           LockedAtLimit'
    PROVE  IInv'
<1>1. /\ DOMAIN sessions' \subseteq Issued'
      /\ sessions' \in [DOMAIN sessions' -> SessionRecord]
      /\ handlers' \in [Handler -> Slot]
      /\ SeenWithinLife'
      /\ SlotsCausal'
    BY FewerSessions, Zenon
<1> QED BY <1>1 DEF IInv, AdminTypeOK

\* A login attempt that is judged leaves a sound entry behind.
LEMMA FailedSound ==
    ASSUME IInv, NEW c \in Client, NEW now \in Nat
    PROVE  LET e == Failed(Judged(c), now)
           IN  /\ e \in LoginAttempt
               /\ e.locked_until # NotLocked
                    <=> e.failures >= max_failed_attempts
<1> USE PolicyAssumption
<1>1. /\ Judged(c) \in LoginAttempt
      /\ Judged(c).failures < max_failed_attempts
      /\ Judged(c).locked_until = NotLocked
  <2>1. CASE c \in DOMAIN attempts
    <3>1. /\ attempts[c] \in LoginAttempt
          /\ attempts[c].locked_until # NotLocked
                <=> attempts[c].failures >= max_failed_attempts
      BY <2>1 DEF IInv, AdminTypeOK, LockedAtLimit
    <3> QED
      BY <2>1, <3>1 DEF Judged, AttemptOf, NoAttempt, LoginAttempt, NotLocked
  <2>2. CASE c \notin DOMAIN attempts
    BY <2>2 DEF Judged, AttemptOf, NoAttempt, LoginAttempt, NotLocked
  <2> QED BY <2>1, <2>2
<1> QED BY <1>1 DEF Failed, LoginAttempt, NotLocked

LEMMA BeginStep ==
    ASSUME IInv, NEW h \in Handler, NEW pc \in Pc,
           NEW client \in Client \cup {NoToken},
           NEW token \in Issued \cup {NoToken},
           NEW csrf \in Issued \cup {NoToken},
           pc = "login" => client \in Client,
           Begin(h, pc, client, token, csrf)
    PROVE  IInv'
<1> DEFINE slot == [pc |-> pc, now |-> clock, client |-> client,
                    token |-> token, csrf |-> csrf]
<1>1. slot \in Slot /\ slot.token < next_token
    BY DEF IInv, AdminTypeOK, Slot, Issued, NoToken
<1> QED BY <1>1, OnlyLocals, Zenon DEF Begin

LEMMA LoginStep ==
    ASSUME IInv, NEW h \in Handler,
           LoginRateLimited(h) \/ LoginWrong(h) \/ LoginRight(h)
    PROVE  IInv'
<1> DEFINE c == handlers[h].client
           now == handlers[h].now
           kept == {t \in DOMAIN sessions : Live(sessions[t], now)}
<1>1. c \in Client /\ now \in Nat /\ now <= clock
    BY DEF LoginRateLimited, LoginWrong, LoginRight, IInv, AdminTypeOK, Slot,
           SlotsCausal
<1>2. CASE LoginRateLimited(h)
  <2>1. sessions' = Restrict(sessions, kept)
    BY <1>2 DEF LoginRateLimited, Purged
  <2>2. /\ DOMAIN attempts' \subseteq Client
        /\ attempts' \in [DOMAIN attempts' -> LoginAttempt]
        /\ LockedAtLimit'
    BY <1>2 DEF LoginRateLimited, IInv, AdminTypeOK, LockedAtLimit
  <2> QED BY <1>2, <2>1, <2>2, SessionsGo, Zenon DEF LoginRateLimited, Finish
<1>3. CASE LoginWrong(h)
  <2>1. sessions' = Restrict(sessions, kept)
    BY <1>3 DEF LoginWrong, Purged
  <2>2. attempts' = With(attempts, c, Failed(Judged(c), now))
    BY <1>3 DEF LoginWrong
  <2>3. /\ Failed(Judged(c), now) \in LoginAttempt
        /\ Failed(Judged(c), now).locked_until # NotLocked
              <=> Failed(Judged(c), now).failures >= max_failed_attempts
    BY <1>1, FailedSound
  <2>4. /\ DOMAIN attempts' \subseteq Client
        /\ attempts' \in [DOMAIN attempts' -> LoginAttempt]
    BY <1>1, <2>2, <2>3 DEF With, IInv, AdminTypeOK
  <2>5. LockedAtLimit'
    BY <2>2, <2>3 DEF With, IInv, LockedAtLimit
  <2> QED BY <1>3, <2>1, <2>4, <2>5, SessionsGo, Zenon DEF LoginWrong, Finish
<1>4. CASE LoginRight(h)
  <2> DEFINE new == [created_at |-> now, last_seen_at |-> now,
                     csrf |-> next_token + 1]
  <2>1. /\ sessions' = With(Restrict(sessions, kept), next_token, new)
        /\ next_token' = next_token + 2 /\ clock' = clock
        /\ attempts' = Without(attempts, c)
        /\ handlers' = [handlers EXCEPT ![h] = IdleSlot]
    BY <1>4 DEF LoginRight, Purged, Finish
  <2>2. next_token \in Nat \ {0} /\ new \in SessionRecord
    BY <1>1 DEF IInv, AdminTypeOK, SessionRecord
  <2>3. /\ DOMAIN sessions' = kept \cup {next_token}
        /\ sessions'[next_token] = new
        /\ \A t \in kept \ {next_token} : sessions'[t] = sessions[t]
        /\ sessions' \in [DOMAIN sessions' -> SessionRecord]
    BY <2>1, <2>2 DEF With, Restrict, IInv, AdminTypeOK
  <2>4. DOMAIN sessions' \subseteq Issued'
    <3>1. kept \subseteq Issued
      BY DEF IInv, AdminTypeOK
    <3>2. Issued \cup {next_token} \subseteq Issued'
      BY <2>1, <2>2 DEF Issued
    <3> QED BY <2>3, <3>1, <3>2
  <2>5. /\ DOMAIN attempts' \subseteq Client
        /\ attempts' \in [DOMAIN attempts' -> LoginAttempt]
        /\ LockedAtLimit'
    BY <2>1 DEF Without, Restrict, IInv, AdminTypeOK, LockedAtLimit
  <2>6. handlers' \in [Handler -> Slot]
    BY <2>1 DEF IInv, AdminTypeOK, IdleSlot, Slot, Pc, NoToken
  <2>7. AdminTypeOK'
    BY <2>1, <2>2, <2>3, <2>4, <2>5, <2>6 DEF IInv, AdminTypeOK
  <2>8. SeenWithinLife'
    BY <1>1, <2>1, <2>2, <2>3 DEF IInv, AdminTypeOK, SeenWithinLife
  <2>9. SlotsCausal'
    \* No handler holds the new token: it was not yet issued.
    <3>1. ASSUME NEW g \in Handler
          PROVE  \/ g # h /\ handlers'[g] = handlers[g]
                 \/ handlers'[g] = IdleSlot
      BY <2>1 DEF IInv, AdminTypeOK
    <3>2. ASSUME NEW g \in Handler, handlers'[g] = handlers[g]
          PROVE  /\ handlers[g].token < next_token + 2
                 /\ handlers[g].now <= clock
                 /\ handlers[g].pc = "login" => handlers[g].client \in Client
                 /\ handlers[g].token \in DOMAIN sessions' =>
                      sessions'[handlers[g].token].created_at
                        <= handlers[g].now
      BY <2>2, <2>3 DEF IInv, AdminTypeOK, SlotsCausal, Slot
    <3>3. 0 \notin DOMAIN sessions' /\ clock \in Nat
      BY <2>2, <2>3 DEF IInv, AdminTypeOK, Issued
    <3> QED
      BY <2>1, <2>2, <3>1, <3>2, <3>3 DEF SlotsCausal, IdleSlot, NoToken
  <2> QED BY <2>5, <2>7, <2>8, <2>9 DEF IInv
<1> QED BY <1>2, <1>3, <1>4

\* One session's record is updated by a handler that presents its token.
LEMMA SessionUpdated ==
    ASSUME IInv, NEW h \in Handler, NEW rec \in SessionRecord,
           NEW t \in DOMAIN sessions,
           rec.created_at = sessions[t].created_at,
           rec.created_at <= rec.last_seen_at, rec.last_seen_at <= clock,
           sessions' = [sessions EXCEPT ![t] = rec],
           NEW slot \in Slot,
           handlers' = [handlers EXCEPT ![h] = slot],
           next_token' \in Nat \ {0}, next_token <= next_token',
           slot.token = NoToken \/ slot.token = t, slot.now <= clock,
           slot.pc # "login",
           slot.token = t => slot.now = clock,
           UNCHANGED <<attempts, clock>>
    PROVE  IInv'
<1>1. /\ DOMAIN sessions' = DOMAIN sessions
      /\ sessions'[t] = rec
      /\ \A u \in DOMAIN sessions \ {t} : sessions'[u] = sessions[u]
      /\ sessions' \in [DOMAIN sessions' -> SessionRecord]
    BY DEF IInv, AdminTypeOK
<1>2. next_token \in Nat /\ Issued \subseteq Issued'
    BY DEF IInv, AdminTypeOK, Issued
<1>3. AdminTypeOK'
    BY <1>1, <1>2 DEF IInv, AdminTypeOK
<1>4. LockedAtLimit'
    BY DEF IInv, LockedAtLimit
<1>5. SeenWithinLife'
    BY <1>1 DEF IInv, SeenWithinLife
<1>6. \A u \in DOMAIN sessions :
            sessions'[u].created_at = sessions[u].created_at
    BY <1>1
<1>7. 0 \notin DOMAIN sessions /\ t < next_token /\ 0 < next_token
    BY DEF IInv, AdminTypeOK, Issued
<1>8. SlotsCausal'
  <2>1. ASSUME NEW g \in Handler, g # h
        PROVE  /\ handlers'[g].token < next_token'
               /\ handlers'[g].now <= clock'
               /\ handlers'[g].pc = "login" => handlers'[g].client \in Client
               /\ handlers'[g].token \in DOMAIN sessions' =>
                    sessions'[handlers'[g].token].created_at
                        <= handlers'[g].now
    <3>1. handlers'[g] = handlers[g] /\ handlers[g].token \in Nat
      BY <2>1 DEF IInv, AdminTypeOK, Slot
    <3> QED BY <1>1, <1>2, <1>6, <3>1 DEF IInv, SlotsCausal
  <2>2. /\ handlers'[h] = slot
        /\ slot.token < next_token'
        /\ slot.token \in DOMAIN sessions => slot.token = t
    BY <1>2, <1>7 DEF IInv, AdminTypeOK, NoToken, Slot
  <2>3. rec.created_at <= clock
    BY DEF SessionRecord, IInv, AdminTypeOK
  <2> QED BY <1>1, <2>1, <2>2, <2>3 DEF SlotsCausal
<1> QED BY <1>3, <1>4, <1>5, <1>8 DEF IInv

LEMMA AuthenticateStep ==
    ASSUME IInv, NEW h \in Handler, Authenticate(h)
    PROVE  IInv'
<1> DEFINE t == handlers[h].token
           now == handlers[h].now
<1>1. handlers[h] \in Slot /\ now <= clock /\ now \in Nat /\ clock \in Nat
    BY DEF IInv, AdminTypeOK, SlotsCausal, Slot
<1>2. UNCHANGED <<attempts, next_token, clock>>
    BY DEF Authenticate
<1>3. ASSUME NEW ok, Rejected(h, ok), Finish(h)
      PROVE  IInv'
  <2>1. \E S \in SUBSET DOMAIN sessions : sessions' = Restrict(sessions, S)
    <3>1. CASE sessions' = sessions
      <4>1. sessions = Restrict(sessions, DOMAIN sessions)
        BY DEF Restrict, IInv, AdminTypeOK
      <4> QED BY <3>1, <4>1
    <3>2. CASE sessions' = Without(sessions, t)
      BY <3>2 DEF Without
    <3> QED BY <1>3, <3>1, <3>2 DEF Rejected
  <2>2. /\ DOMAIN attempts' \subseteq Client
        /\ attempts' \in [DOMAIN attempts' -> LoginAttempt]
        /\ LockedAtLimit'
    BY <1>2 DEF IInv, AdminTypeOK, LockedAtLimit
  <2> QED BY <1>2, <1>3, <2>1, <2>2, SessionsGo, Zenon DEF Finish
<1>4. ASSUME NEW ok, Accepted(h, ok),
             \/ Finish(h)
             \/ \E pc \in {"remove", "issue", "store"} : Goto(h, pc)
      PROVE  IInv'
  <2> DEFINE rec == [sessions[t] EXCEPT !.last_seen_at = now]
  <2>1. /\ t \in DOMAIN sessions
        /\ sessions' = [sessions EXCEPT ![t] = rec]
    BY <1>4 DEF Accepted
  <2>2. /\ rec \in SessionRecord
        /\ rec.created_at = sessions[t].created_at
        /\ rec.last_seen_at = now
    BY <1>1, <2>1 DEF IInv, AdminTypeOK, SessionRecord
  <2>3. rec.created_at <= now
    BY <2>1, <2>2 DEF IInv, SlotsCausal
  <2>4. next_token' \in Nat \ {0} /\ next_token <= next_token'
    BY <1>2 DEF IInv, AdminTypeOK
  <2>5. CASE Finish(h)
    <3>1. IdleSlot \in Slot /\ IdleSlot.token = NoToken /\ IdleSlot.now <= clock
          /\ IdleSlot.pc # "login"
      BY <1>1 DEF IdleSlot, Slot, Pc, NoToken
    <3>2. NoToken # t
      BY <2>1 DEF IInv, AdminTypeOK, Issued, NoToken
    <3> HIDE DEF rec
    <3> QED
      BY <1>1, <1>2, <2>1, <2>2, <2>3, <2>4, <2>5, <3>1, <3>2, SessionUpdated,
          Zenon
      DEF Finish
  <2>6. ASSUME NEW pc \in {"remove", "issue", "store"}, Goto(h, pc)
        PROVE  IInv'
    <3> DEFINE slot == [pc |-> pc, now |-> clock,
                        client |-> handlers[h].client,
                        token |-> handlers[h].token,
                        csrf |-> handlers[h].csrf]
    <3>1. slot \in Slot /\ slot.token = t /\ slot.now = clock
          /\ slot.now <= clock /\ slot.pc # "login"
      BY <1>1 DEF Slot, Pc
    <3>2. handlers' = [handlers EXCEPT ![h] = slot]
      BY <2>6 DEF Goto
    <3> HIDE DEF rec, slot
    <3> QED
      BY <1>1, <1>2, <2>1, <2>2, <2>3, <2>4, <3>1, <3>2, SessionUpdated, Zenon
  <2> QED BY <1>4, <2>5, <2>6
<1> QED BY <1>3, <1>4, Zenon DEF Authenticate

LEMMA SectionStep ==
    ASSUME IInv, NEW h \in Handler,
           logout(h) \/ issue_csrf(h) \/ active_session_count(h)
    PROVE  IInv'
<1>1. ASSUME UNCHANGED attempts
      PROVE  /\ DOMAIN attempts' \subseteq Client
             /\ attempts' \in [DOMAIN attempts' -> LoginAttempt]
             /\ LockedAtLimit'
    BY <1>1 DEF IInv, AdminTypeOK, LockedAtLimit
<1>2. CASE logout(h)
    BY <1>1, <1>2, SessionsGo, Zenon DEF logout, Without, Finish
<1>3. CASE active_session_count(h)
    BY <1>1, <1>3, SessionsGo, Zenon DEF active_session_count, Purged, Finish
<1>4. CASE issue_csrf(h)
  <2> DEFINE t == handlers[h].token
  <2>1. next_token \in Nat \ {0} /\ t \in Nat /\ clock \in Nat
        /\ next_token' = next_token + 1
    BY <1>4 DEF issue_csrf, IInv, AdminTypeOK, Slot
  <2>2. CASE t \in DOMAIN sessions
    <3> DEFINE rec == [sessions[t] EXCEPT !.csrf = next_token]
               slot == [pc |-> "count", now |-> clock, client |-> NoToken,
                        token |-> t, csrf |-> next_token]
    <3>1. /\ sessions' = [sessions EXCEPT ![t] = rec]
          /\ handlers' = [handlers EXCEPT ![h] = slot]
          /\ UNCHANGED <<attempts, clock>>
      BY <1>4, <2>2 DEF issue_csrf
    <3>2. /\ rec \in SessionRecord
          /\ rec.created_at = sessions[t].created_at
          /\ rec.last_seen_at = sessions[t].last_seen_at
      BY <2>1, <2>2 DEF IInv, AdminTypeOK, SessionRecord
    <3>3. rec.created_at <= rec.last_seen_at /\ rec.last_seen_at <= clock
      BY <2>2, <3>2 DEF IInv, SeenWithinLife
    <3>4. slot \in Slot /\ slot.token = t /\ slot.now = clock
          /\ slot.now <= clock /\ slot.pc # "login"
      BY <2>1 DEF Slot, Pc
    <3>5. next_token' \in Nat \ {0} /\ next_token <= next_token'
      BY <2>1
    <3> HIDE DEF rec, slot
    <3> QED BY <2>1, <2>2, <3>1, <3>2, <3>3, <3>4, <3>5, SessionUpdated, Zenon
  <2>3. CASE t \notin DOMAIN sessions
    <3>1. /\ UNCHANGED <<attempts, sessions, clock>>
          /\ handlers' = [handlers EXCEPT ![h] = IdleSlot]
      BY <1>4, <2>3 DEF issue_csrf, Finish
    <3>2. IdleSlot \in Slot
      BY DEF IdleSlot, Slot, Pc, NoToken
    <3>3. Issued \subseteq Issued'
      BY <2>1 DEF Issued
    <3>4. AdminTypeOK' /\ LockedAtLimit' /\ SeenWithinLife'
      BY <2>1, <3>1, <3>2, <3>3
      DEF IInv, AdminTypeOK, LockedAtLimit, SeenWithinLife
    <3>5. 0 \notin DOMAIN sessions
      BY <2>1 DEF IInv, AdminTypeOK, Issued
    <3>6. ASSUME NEW g \in Handler
          PROVE  \/ handlers'[g] = handlers[g] /\ handlers[g].token \in Nat
                 \/ handlers'[g] = IdleSlot
      BY <3>1 DEF IInv, AdminTypeOK, Slot
    <3>7. SlotsCausal'
      BY <2>1, <3>1, <3>5, <3>6 DEF IInv, SlotsCausal, IdleSlot, NoToken
    <3> QED BY <3>4, <3>7 DEF IInv
  <2> QED BY <2>2, <2>3
<1> QED BY <1>2, <1>3, <1>4

LEMMA StepIInv == IInv /\ [Next]_vars => IInv'
<1> SUFFICES ASSUME IInv, [Next]_vars PROVE IInv'
    OBVIOUS
<1>1. ASSUME NEW h \in Handler, NEW client \in Client,
             Begin(h, "login", client, NoToken, NoToken)
      PROVE  IInv'
    BY <1>1, BeginStep DEF Pc
<1>2. ASSUME NEW h \in Handler, NEW token \in Issued,
             Begin(h, "session", NoToken, token, NoToken)
      PROVE  IInv'
    BY <1>2, BeginStep DEF Pc
<1>3. ASSUME NEW h \in Handler, NEW pc \in {"mutate", "logout"},
             NEW token \in Issued, NEW csrf \in Issued \cup {NoToken},
             Begin(h, pc, NoToken, token, csrf)
      PROVE  IInv'
    BY <1>3, BeginStep DEF Pc
<1>4. ASSUME NEW h \in Handler,
             LoginRateLimited(h) \/ LoginWrong(h) \/ LoginRight(h)
      PROVE  IInv'
    BY <1>4, LoginStep
<1>5. ASSUME NEW h \in Handler, Authenticate(h)
      PROVE  IInv'
    BY <1>5, AuthenticateStep
<1>6. ASSUME NEW h \in Handler,
             logout(h) \/ issue_csrf(h) \/ active_session_count(h)
      PROVE  IInv'
    BY <1>6, SectionStep
<1>7. CASE Tick
  <2>1. /\ clock' = clock + 1 /\ clock \in Nat
        /\ UNCHANGED <<attempts, sessions, next_token, handlers>>
    BY <1>7 DEF Tick, IInv, AdminTypeOK
  <2>2. AdminTypeOK' /\ LockedAtLimit'
    BY <2>1 DEF IInv, AdminTypeOK, LockedAtLimit, Issued
  <2>3. SeenWithinLife'
    BY <2>1 DEF IInv, AdminTypeOK, SeenWithinLife, SessionRecord
  <2>4. SlotsCausal'
    BY <2>1 DEF IInv, AdminTypeOK, SlotsCausal, Slot
  <2> QED BY <2>2, <2>3, <2>4 DEF IInv
<1>8. CASE UNCHANGED vars
    BY <1>8 DEF vars, IInv, AdminTypeOK, LockedAtLimit, SeenWithinLife,
                SlotsCausal, Issued
<1> QED BY <1>1, <1>2, <1>3, <1>4, <1>5, <1>6, <1>7, <1>8 DEF Next

LEMMA Inductive == Spec => []IInv
<1> QED BY InitIInv, StepIInv, PTL DEF Spec

\* The session manager stays within its types (admin.rs:88-111).
THEOREM AdminTyped == Spec => []AdminTypeOK
<1>1. IInv => AdminTypeOK
    BY DEF IInv
<1> QED BY <1>1, Inductive, PTL

\* A client is locked out exactly when its attempts are used up, however
\* logins with stale clock readings interleave (login, admin.rs:148-167).
THEOREM LockoutSound == Spec => []LockedAtLimit
<1>1. IInv => LockedAtLimit
    BY DEF IInv
<1> QED BY <1>1, Inductive, PTL

\* No session is seen before its creation or after the present (login,
\* authenticate, admin.rs:173-180, 213).
THEOREM SeenSound == Spec => []SeenWithinLife
<1>1. IInv => SeenWithinLife
    BY DEF IInv
<1> QED BY <1>1, Inductive, PTL

\* No step brings an ended session back.
LEMMA RevivalStep ==
    ASSUME IInv, [Next]_vars, NEW t \in Issued, t \notin DOMAIN sessions
    PROVE  t \notin DOMAIN sessions'
<1>1. t < next_token /\ next_token \in Nat
    BY DEF Issued, IInv, AdminTypeOK
<1>2. ASSUME NEW h \in Handler, NEW pc, NEW client, NEW token, NEW csrf,
             Begin(h, pc, client, token, csrf)
      PROVE  t \notin DOMAIN sessions'
    BY <1>2 DEF Begin
<1>3. ASSUME NEW h \in Handler, LoginRateLimited(h) \/ LoginWrong(h)
      PROVE  t \notin DOMAIN sessions'
    BY <1>3 DEF LoginRateLimited, LoginWrong, Purged, Restrict
<1>4. ASSUME NEW h \in Handler, LoginRight(h)
      PROVE  t \notin DOMAIN sessions'
    BY <1>1, <1>4 DEF LoginRight, Purged, Restrict, With
<1>5. ASSUME NEW h \in Handler, Authenticate(h)
      PROVE  t \notin DOMAIN sessions'
    BY <1>5, Zenon DEF Authenticate, Rejected, Accepted, Without, Restrict
<1>6. ASSUME NEW h \in Handler, logout(h) \/ active_session_count(h)
      PROVE  t \notin DOMAIN sessions'
    BY <1>6 DEF logout, active_session_count, Without, Purged, Restrict
<1>7. ASSUME NEW h \in Handler, issue_csrf(h)
      PROVE  t \notin DOMAIN sessions'
    BY <1>7 DEF issue_csrf
<1>8. CASE Tick \/ UNCHANGED vars
    BY <1>8 DEF Tick, vars
<1> QED BY <1>2, <1>3, <1>4, <1>5, <1>6, <1>7, <1>8 DEF Next

\* An ended session stays ended, also under the two separate sections of the
\* session call (issue_csrf, admin.rs:224-240).
THEOREM EndedStaysEnded == Spec => NeverRevived
<1>1. IInv /\ [Next]_vars
        => [\A t \in Issued : t \notin DOMAIN sessions
                                => t \notin DOMAIN sessions']_vars
    BY RevivalStep
<1> QED BY <1>1, Inductive, PTL DEF Spec, NeverRevived
=============================================================================

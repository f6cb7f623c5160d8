--------------------------- MODULE AccessSessions ---------------------------
(***************************************************************************)
(* Signing in of one user (auth.py): the gateway asks for a link with a    *)
(* single-use nonce, a browser exchanges it for a session, and requests    *)
(* renew the session, at a bounded cadence, until it has been idle for too *)
(* long or is revoked.  Every method is one transaction, and reads the     *)
(* clock before it gets the database: it may find rows that a later call   *)
(* has written.  Links are opened twice, late and by several browsers.     *)
(***************************************************************************)
EXTENDS Naturals, FiniteSets

CONSTANTS Nonce,      \* links
          Login,      \* sessions that may come to be
          LinkLife,   \* nonce_ttl_seconds
          IdleLife,   \* session_ttl_seconds
          Cadence,    \* session_refresh_interval_seconds
          MaxClock,   \* bound: time
          MaxAsking   \* bound: requests that wait for the database at one time

ASSUME AccessAssumption ==
  /\ LinkLife \in Nat \ {0} /\ IdleLife \in Nat \ {0} /\ Cadence \in Nat \ {0}
  /\ MaxClock \in Nat /\ MaxAsking \in Nat

VARIABLES
  clock,     \* the time, which does not go back
  nonces,    \* auth_nonces: what is there of each link
  sessions,  \* sessions: the row of each
  asking,    \* calls that have read the clock and wait for the database
  used       \* history: when each session was last let in, and the link it came from

accessVars == <<clock, nonces, sessions, asking, used>>

Times   == 0..(MaxClock + LinkLife + IdleLife)
NoLink  == [expires |-> 0, at |-> "none"]
NoLogin == [seen |-> 0, expires |-> 0, at |-> "none"]

AccessTypeOK ==
  /\ clock \in 0..MaxClock
  /\ nonces \in [Nonce -> [expires : Times, at : {"none", "open", "consumed", "purged"}]]
  /\ sessions \in [Login -> [seen : Times, expires : Times, at : {"none", "open", "revoked"}]]
  /\ asking \subseteq ((Nonce \cup Login) \X (0..MaxClock)) /\ Cardinality(asking) <= MaxAsking
  /\ used \in [Login -> [last : Times, from : SUBSET Nonce]]

AccessInit ==
  /\ clock = 0 /\ asking = {}
  /\ nonces = [n \in Nonce |-> NoLink] /\ sessions = [s \in Login |-> NoLogin]
  /\ used = [s \in Login |-> [last |-> 0, from |-> {}]]

AccessTick ==
  /\ clock < MaxClock /\ clock' = clock + 1
  /\ UNCHANGED <<nonces, sessions, asking, used>>

-----------------------------------------------------------------------------
\* create_nonce first removes the links that are used up; those long expired
\* are of no consequence.
CreateNonce(n) ==
  /\ nonces[n].at = "none"
  /\ nonces' = [m \in Nonce |->
       IF m = n THEN [expires |-> clock + LinkLife, at |-> "open"]
       ELSE IF nonces[m].at = "consumed" THEN [nonces[m] EXCEPT !.at = "purged"]
       ELSE nonces[m]]
  /\ UNCHANGED <<clock, sessions, asking, used>>

\* A browser opens a link, or sends a request with the cookie of a session.
Ask(x) ==
  /\ IF x \in Nonce THEN nonces[x].at # "none" ELSE sessions[x].at # "none"
  /\ Cardinality(asking) < MaxAsking
  /\ <<x, clock>> \notin asking /\ asking' = asking \cup {<<x, clock>>}
  /\ UNCHANGED <<clock, nonces, sessions, used>>

\* exchange, at time t: a link that is open and not expired gives session s.
Exchange(n, t, s) ==
  /\ <<n, t>> \in asking /\ asking' = asking \ {<<n, t>>}
  /\ IF nonces[n].at = "open" /\ nonces[n].expires > t
       THEN /\ sessions[s].at = "none"
            /\ nonces' = [nonces EXCEPT ![n].at = "consumed"]
            /\ sessions' = [sessions EXCEPT
                 ![s] = [seen |-> t, expires |-> t + IdleLife, at |-> "open"]]
            /\ used' = [used EXCEPT ![s] = [last |-> t, from |-> {n}]]
       ELSE UNCHANGED <<nonces, sessions, used>>
  /\ UNCHANGED clock

\* Mutant: every request renews, also one that waited for the database while
\* a later one was let in.
RenewedAlways(row, t) == [row EXCEPT !.seen = t, !.expires = t + IdleLife]

\* The row of a session after a request of time t
Renewed(row, t) ==
  IF t >= row.seen + Cadence THEN [row EXCEPT !.seen = t, !.expires = t + IdleLife] ELSE row

\* get_session, at time t: the request is let in, or answered 401.
GetSession(s, t) ==
  /\ <<s, t>> \in asking /\ asking' = asking \ {<<s, t>>}
  /\ IF sessions[s].at = "open" /\ sessions[s].expires > t
       THEN /\ sessions' = [sessions EXCEPT ![s] = Renewed(@, t)]
            /\ used' = [used EXCEPT ![s].last = IF t > @ THEN t ELSE @]
       ELSE UNCHANGED <<sessions, used>>
  /\ UNCHANGED <<clock, nonces>>

\* revoke and revoke_owned: one session; revoke_all: every one
RevokeSessions(some) ==
  /\ \E s \in some : sessions[s].at = "open"
  /\ sessions' = [s \in Login |->
       IF s \in some /\ sessions[s].at = "open" THEN [sessions[s] EXCEPT !.at = "revoked"]
       ELSE sessions[s]]
  /\ UNCHANGED <<clock, nonces, asking, used>>

AccessNext ==
  \/ AccessTick
  \/ \E n \in Nonce : CreateNonce(n)
  \/ \E x \in Nonce \cup Login : Ask(x)
  \/ \E n \in Nonce, t \in 0..clock, s \in Login : Exchange(n, t, s)
  \/ \E s \in Login, t \in 0..clock : GetSession(s, t)
  \/ \E s \in Login : RevokeSessions({s})
  \/ RevokeSessions(Login)

AccessSpec == AccessInit /\ [][AccessNext]_accessVars

-----------------------------------------------------------------------------
\* A link gives one session at most; and a session that nobody revoked lives
\* on for IdleLife after the last request that was let in, up to the cadence
\* of its renewals, and no longer, in whatever order requests reach the
\* database (exchange, get_session).
SessionsFollowUse ==
  /\ \A s, r \in Login : s # r => used[s].from \cap used[r].from = {}
  /\ \A s \in Login : sessions[s].at = "open" =>
       /\ sessions[s].expires <= used[s].last + IdleLife
       /\ sessions[s].expires + Cadence > used[s].last + IdleLife
=============================================================================

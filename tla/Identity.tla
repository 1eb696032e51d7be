------------------------------- MODULE Identity -------------------------------
(***************************************************************************)
(* Who is let in: the customers' logins, their lock and their sessions     *)
(* (agent/customer_identity), and the staff's refresh tokens               *)
(* (agent/access_control/identity.py).  A server handles one request at a  *)
(* time between two awaits, so a repository call is one step of it; other  *)
(* servers on the same database come between any two.                      *)
(***************************************************************************)
EXTENDS Integers, FiniteSets

CONSTANTS Servers,
          Sessions,    \* identifiers create_session may use
          Tokens,      \* refresh tokens _issue may draw
          LockAfter,   \* lock_after
          MaxFailed,   \* bound on the wrong passwords since the last right one
          MaxLapses    \* bound on the locks that run out

ASSUME IdentityAssumption ==
  /\ LockAfter \in Nat \ {0} /\ MaxFailed \in Nat /\ MaxLapses \in Nat
  /\ IsFiniteSet(Servers)

VARIABLES
  registered,  \* the customer has an identity row
  failed,      \* failed_attempts
  lock,        \* locked_until: "none", "running" or "over"
  lapses,      \* locks that ran out since the last right password
  session,     \* the customer's sessions: "unused", "live", "revoked"
  token,       \* the refresh sessions: "unused", "live", "revoked"
  successor,   \* which token was issued for which
  request      \* what every server is in the middle of

customerVars == <<registered, failed, lock, lapses, session>>
staffVars    == <<token, successor>>
identityVars == <<customerVars, staffVars, request>>

Waiting == [at |-> "idle"]

IdentityInit ==
  /\ registered = FALSE
  /\ failed = 0 /\ lock = "none" /\ lapses = 0
  /\ session = [x \in Sessions |-> "unused"]
  /\ token = [t \in Tokens |-> "unused"]
  /\ successor = {}
  /\ request = [p \in Servers |-> Waiting]

Proceeds(p, next) == request' = [request EXCEPT ![p] = next]

-----------------------------------------------------------------------------
(* Customers *)

\* one transaction for the account and its identity; a second one is a conflict
Register(p) ==
  /\ request[p] = Waiting /\ ~registered
  /\ registered' = TRUE
  /\ UNCHANGED <<failed, lock, lapses, session, staffVars, request>>

\* the session of the browser is ended first, whatever comes of the login
LoginBegin(p, old) ==
  /\ request[p] = Waiting /\ registered
  /\ session' = [x \in Sessions |-> IF x \in old THEN "revoked" ELSE session[x]]
  /\ Proceeds(p, [at |-> "record"])
  /\ UNCHANGED <<registered, failed, lock, lapses, staffVars>>

\* get_auth_record, and the lock as it was read
Locked == lock = "running"
ReadRecord(p) ==
  /\ request[p].at = "record"
  /\ Proceeds(p, IF Locked THEN Waiting ELSE [at |-> "verify"])
  /\ UNCHANGED <<customerVars, staffVars>>

\* mutant: compared before this failure is counted
LockedByOld(n) == n >= LockAfter

\* WHEN failed_attempts+1>=?
LockedBy(n) == n + 1 >= LockAfter

\* the password was checked against the record of before
WrongPassword(p) ==
  /\ request[p].at = "verify" /\ failed < MaxFailed
  /\ failed' = failed + 1
  /\ lock' = IF LockedBy(failed) THEN "running" ELSE lock
  /\ Proceeds(p, Waiting)
  /\ UNCHANGED <<registered, lapses, session, staffVars>>
RightPassword(p) ==
  /\ request[p].at = "verify"
  /\ failed' = 0 /\ lock' = "none" /\ lapses' = 0
  /\ Proceeds(p, [at |-> "session"])
  /\ UNCHANGED <<registered, session, staffVars>>
CreateSession(p, x) ==
  /\ request[p].at = "session" /\ session[x] = "unused"
  /\ session' = [session EXCEPT ![x] = "live"]
  /\ Proceeds(p, Waiting)
  /\ UNCHANGED <<registered, failed, lock, lapses, staffVars>>

\* require (the session is live), then revoke: COALESCE keeps the first date
Logout(p, x) ==
  /\ request[p] = Waiting /\ session[x] = "live"
  /\ session' = [session EXCEPT ![x] = "revoked"]
  /\ UNCHANGED <<registered, failed, lock, lapses, staffVars, request>>

LockRunsOut ==
  /\ lock = "running" /\ lapses < MaxLapses
  /\ lock' = "over" /\ lapses' = lapses + 1
  /\ UNCHANGED <<registered, failed, session, staffVars, request>>

-----------------------------------------------------------------------------
(* Staff *)

StaffLogin(p) ==
  /\ request[p] = Waiting
  /\ Proceeds(p, [at |-> "issue", parent |-> {}])
  /\ UNCHANGED <<customerVars, staffVars>>

\* consume_refresh: the row is looked up, then updated if it is still unrevoked
RefreshRead(p, t) ==
  /\ request[p] = Waiting /\ token[t] = "live"
  /\ Proceeds(p, [at |-> "consume", parent |-> {t}])
  /\ UNCHANGED <<customerVars, staffVars>>

\* mutant: the update names the session only
ConsumableAsRead(t) == TRUE

\* UPDATE ... AND revoked_at IS NULL
Consumable(t) == token[t] = "live"

RefreshConsume(p) ==
  /\ request[p].at = "consume"
  /\ \E t \in request[p].parent :
       IF Consumable(t)
       THEN /\ token' = [token EXCEPT ![t] = "revoked"]
            /\ Proceeds(p, [request[p] EXCEPT !.at = "issue"])
       ELSE /\ UNCHANGED token
            /\ Proceeds(p, Waiting)
  /\ UNCHANGED <<customerVars, successor>>

\* the account is read once more; a token that ran out or was used buys nothing
Issue(p, t) ==
  /\ request[p].at = "issue" /\ token[t] = "unused"
  /\ token' = [token EXCEPT ![t] = "live"]
  /\ successor' = successor \cup {<<u, t>> : u \in request[p].parent}
  /\ Proceeds(p, Waiting)
  /\ UNCHANGED customerVars

\* logout, or the token's last day: revoke_refresh asks for no state
RevokeRefresh(p, t) ==
  /\ request[p] = Waiting /\ token[t] # "unused"
  /\ token' = [token EXCEPT ![t] = "revoked"]
  /\ UNCHANGED <<customerVars, successor, request>>

\* a server that is stopped, or whose database call fails, leaves what it has done
Stops(p) ==
  /\ request[p] # Waiting
  /\ Proceeds(p, Waiting)
  /\ UNCHANGED <<customerVars, staffVars>>

-----------------------------------------------------------------------------
CustomerStep(p) ==
  \/ Register(p) \/ ReadRecord(p) \/ WrongPassword(p) \/ RightPassword(p)
  \/ \E old \in {{x} : x \in Sessions} \cup {{}} :
       (\A x \in old : session[x] = "live") /\ LoginBegin(p, old)
  \/ \E x \in Sessions : CreateSession(p, x) \/ Logout(p, x)
StaffStep(p) ==
  \/ StaffLogin(p) \/ RefreshConsume(p)
  \/ \E t \in Tokens : RefreshRead(p, t) \/ Issue(p, t) \/ RevokeRefresh(p, t)

IdentityNext ==
  \/ \E p \in Servers : CustomerStep(p) \/ StaffStep(p) \/ Stops(p)
  \/ LockRunsOut

IdentitySpec == IdentityInit /\ [][IdentityNext]_identityVars

-----------------------------------------------------------------------------
(* Properties *)

\* However many servers check passwords at once, and whatever locks run out, the
\* wrong passwords tried since the last right one stay within what the lock
\* allows: LockAfter - 1 before the first lock, and for every lock that starts or
\* runs out at most one more per server that was already checking.
GuessesAreBounded ==
  failed <= LockAfter - 1 + Cardinality(Servers) * (1 + lapses)

\* A refresh token is exchanged at most once, whichever servers get it together,
\* and a token that was exchanged is not live any more.
RefreshUsedOnce ==
  \A a, b \in successor :
    /\ a[1] = b[1] => a = b
    /\ token[a[1]] = "revoked"
=============================================================================

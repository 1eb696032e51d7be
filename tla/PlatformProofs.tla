---------------------------- MODULE PlatformProofs ----------------------------
(***************************************************************************)
(* What the agents stand on: who is let in (Identity), the gateway process *)
(* (Manager), and long-term memory with its consents, the outbox and the   *)
(* derived indexes (MemoryStore), each for any number of its servers,      *)
(* requests, items and any bounds.                                         *)
(***************************************************************************)
EXTENDS MemoryStore, Identity, Manager, FiniteSetTheorems, TLAPS

-----------------------------------------------------------------------------
(* Identity: logins and refresh tokens.                                       *)

Requests == [at : {"idle", "record", "verify", "session"}]
            \cup [at : {"consume"}, parent : {{t} : t \in Tokens}]
            \cup [at : {"issue"}, parent : SUBSET Tokens]

IdentityTypeInv ==
  /\ registered \in BOOLEAN
  /\ failed \in Nat /\ lapses \in Nat /\ lock \in {"none", "running", "over"}
  /\ session \in [Sessions -> {"unused", "live", "revoked"}]
  /\ token \in [Tokens -> {"unused", "live", "revoked"}]
  /\ successor \subseteq Tokens \X Tokens
  /\ request \in [Servers -> Requests]

Issuing == {p \in Servers : request[p].at = "issue"}
HasSuccessor(t) == \E a \in successor : a[1] = t

\* The token a server has taken is revoked, has bought nothing so far, and is in no
\* other server's hands.
TakenForGood ==
  \A p \in Issuing : \A t \in request[p].parent :
    /\ token[t] = "revoked" /\ ~HasSuccessor(t)
    /\ \A q \in Issuing \ {p} : t \notin request[q].parent

TokenInv == IdentityTypeInv /\ TakenForGood /\ RefreshUsedOnce

Verifying == {p \in Servers : request[p].at = "verify"}

\* While the lock runs nobody starts to check a password, and those who were at it
\* can fail once each; while it does not, all that was allowed was before it.
GuessInv ==
  /\ lock = "running" =>
       failed + Cardinality(Verifying) <= LockAfter - 1 + Cardinality(Servers) * (1 + lapses)
  /\ lock # "running" => failed <= LockAfter - 1 + Cardinality(Servers) * lapses

-----------------------------------------------------------------------------
(* The shape of the requests.                                                 *)

LEMMA WaitingIsRequest ==
  /\ Waiting \in Requests /\ Waiting.at = "idle"
  /\ \A at \in {"record", "verify", "session"} :
       [at |-> at] \in Requests /\ [at |-> at].at = at
  /\ [at |-> "issue", parent |-> {}] \in Requests
  /\ \A t \in Tokens : [at |-> "consume", parent |-> {t}] \in Requests
BY DEF Waiting, Requests

\* A server that consumes has one token in hand; what it goes on with is the same.
LEMMA ConsumerHolds ==
  ASSUME NEW q \in Requests, q.at = "consume"
  PROVE  /\ \E t \in Tokens : q.parent = {t}
         /\ [q EXCEPT !.at = "issue"] \in Requests
         /\ [q EXCEPT !.at = "issue"].at = "issue"
         /\ [q EXCEPT !.at = "issue"].parent = q.parent
<1>1. PICK t \in Tokens : q = [at |-> "consume", parent |-> {t}]
  BY DEF Requests
<1>2. [q EXCEPT !.at = "issue"] = [at |-> "issue", parent |-> {t}]
  BY <1>1
<1>3. q.parent = {t}
  BY <1>1
<1> QED
  BY <1>2, <1>3 DEF Requests

\* A step of one server leaves the others where they are.
LEMMA OneServerMoves ==
  ASSUME IdentityTypeInv, NEW p \in Servers, NEW next \in Requests, Proceeds(p, next)
  PROVE  /\ request' \in [Servers -> Requests] /\ request'[p] = next
         /\ \A q \in Servers \ {p} : request'[q] = request[q]
BY DEF IdentityTypeInv, Proceeds

-----------------------------------------------------------------------------
(* Refresh tokens.                                                            *)

LEMMA TokenInitial == IdentityInit => TokenInv
<1> SUFFICES ASSUME IdentityInit PROVE TokenInv
  OBVIOUS
<1> USE DEF IdentityInit
<1>1. request = [p \in Servers |-> Waiting] /\ successor = {}
  OBVIOUS
<1>2. Issuing = {}
  BY <1>1, WaitingIsRequest DEF Issuing
<1>3. IdentityTypeInv
  BY WaitingIsRequest DEF IdentityTypeInv
<1> QED
  BY <1>1, <1>2, <1>3 DEF TokenInv, TakenForGood, RefreshUsedOnce

\* A step of a customer's request, or one that only ends or begins a request: no
\* token moves, and nobody begins to issue one for a token.
LEMMA TokensRest ==
  ASSUME TokenInv, IdentityTypeInv', UNCHANGED staffVars, Issuing' \subseteq Issuing,
         \A p \in Issuing' : request'[p] = request[p]
  PROVE  TokenInv'
<1>1. token' = token /\ successor' = successor
  BY DEF staffVars
<1> QED
  BY <1>1 DEF TokenInv, TakenForGood, RefreshUsedOnce, HasSuccessor

LEMMA ServerStepsAside ==
  ASSUME TokenInv, IdentityTypeInv', UNCHANGED staffVars,
         NEW p \in Servers, NEW next \in Requests, Proceeds(p, next), next.at # "issue"
  PROVE  TokenInv'
<1>1. IdentityTypeInv
  BY DEF TokenInv
<1>2. request'[p] = next /\ \A q \in Servers \ {p} : request'[q] = request[q]
  BY <1>1, OneServerMoves
<1>3. Issuing' \subseteq Issuing /\ \A q \in Issuing' : request'[q] = request[q]
  BY <1>2 DEF Issuing
<1> QED
  BY <1>3, TokensRest

LEMMA TypeStep == IdentityTypeInv /\ [IdentityNext]_identityVars => IdentityTypeInv'
<1> SUFFICES ASSUME IdentityTypeInv, [IdentityNext]_identityVars PROVE IdentityTypeInv'
  OBVIOUS
<1> USE DEF customerVars, staffVars
<1>t. /\ registered \in BOOLEAN
      /\ failed \in Nat /\ lapses \in Nat /\ lock \in {"none", "running", "over"}
      /\ session \in [Sessions -> {"unused", "live", "revoked"}]
      /\ token \in [Tokens -> {"unused", "live", "revoked"}]
      /\ successor \subseteq Tokens \X Tokens
      /\ request \in [Servers -> Requests]
  BY DEF IdentityTypeInv
<1>1. ASSUME NEW p \in Servers, CustomerStep(p) PROVE IdentityTypeInv'
  <2>1. CASE Register(p)
    BY <1>t, <2>1 DEF Register, IdentityTypeInv
  <2>2. ASSUME NEW old \in SUBSET Sessions, LoginBegin(p, old) PROVE IdentityTypeInv'
    <3>1. request' \in [Servers -> Requests]
      BY <2>2, OneServerMoves, WaitingIsRequest DEF LoginBegin
    <3> QED
      BY <1>t, <2>2, <3>1 DEF LoginBegin, IdentityTypeInv
  <2>3. CASE ReadRecord(p)
    <3>1. request' \in [Servers -> Requests]
      <4> DEFINE next == IF Locked THEN Waiting ELSE [at |-> "verify"]
      <4>1. next \in Requests /\ Proceeds(p, next)
        BY <2>3, WaitingIsRequest DEF ReadRecord
      <4> QED
        BY <4>1, OneServerMoves
    <3> QED
      BY <1>t, <2>3, <3>1 DEF ReadRecord, IdentityTypeInv
  <2>4. CASE WrongPassword(p)
    <3>1. request' \in [Servers -> Requests]
      BY <2>4, OneServerMoves, WaitingIsRequest DEF WrongPassword
    <3> QED
      BY <1>t, <2>4, <3>1 DEF WrongPassword, IdentityTypeInv
  <2>5. CASE RightPassword(p)
    <3>1. request' \in [Servers -> Requests]
      BY <2>5, OneServerMoves, WaitingIsRequest DEF RightPassword
    <3> QED
      BY <1>t, <2>5, <3>1 DEF RightPassword, IdentityTypeInv
  <2>6. ASSUME NEW x \in Sessions, CreateSession(p, x) PROVE IdentityTypeInv'
    <3>1. request' \in [Servers -> Requests]
      BY <2>6, OneServerMoves, WaitingIsRequest DEF CreateSession
    <3> QED
      BY <1>t, <2>6, <3>1 DEF CreateSession, IdentityTypeInv
  <2>7. ASSUME NEW x \in Sessions, Logout(p, x) PROVE IdentityTypeInv'
    BY <1>t, <2>7 DEF Logout, IdentityTypeInv
  <2>8. \A old \in {{x} : x \in Sessions} \cup {{}} : old \in SUBSET Sessions
    OBVIOUS
  <2> QED
    BY <1>1, <2>1, <2>2, <2>3, <2>4, <2>5, <2>6, <2>7, <2>8 DEF CustomerStep
<1>2. ASSUME NEW p \in Servers, StaffStep(p) PROVE IdentityTypeInv'
  <2>1. CASE StaffLogin(p)
    <3>1. request' \in [Servers -> Requests]
      BY <2>1, OneServerMoves, WaitingIsRequest DEF StaffLogin
    <3> QED
      BY <1>t, <2>1, <3>1 DEF StaffLogin, IdentityTypeInv
  <2>2. CASE RefreshConsume(p)
    <3>1. request[p] \in Requests /\ request[p].at = "consume"
      BY <1>t, <2>2 DEF RefreshConsume
    <3>2. PICK t \in request[p].parent :
            \/ token' = [token EXCEPT ![t] = "revoked"] /\ Proceeds(p, [request[p] EXCEPT !.at = "issue"])
            \/ UNCHANGED token /\ Proceeds(p, Waiting)
      BY <2>2 DEF RefreshConsume
    <3>3. request' \in [Servers -> Requests]
      BY <3>1, <3>2, OneServerMoves, ConsumerHolds, WaitingIsRequest
    <3>4. token' \in [Tokens -> {"unused", "live", "revoked"}]
      BY <1>t, <3>2
    <3> QED
      BY <1>t, <2>2, <3>3, <3>4 DEF RefreshConsume, IdentityTypeInv
  <2>3. ASSUME NEW t \in Tokens, RefreshRead(p, t) PROVE IdentityTypeInv'
    <3>1. request' \in [Servers -> Requests]
      BY <2>3, OneServerMoves, WaitingIsRequest DEF RefreshRead
    <3> QED
      BY <1>t, <2>3, <3>1 DEF RefreshRead, IdentityTypeInv
  <2>4. ASSUME NEW t \in Tokens, Issue(p, t) PROVE IdentityTypeInv'
    <3>1. request' \in [Servers -> Requests]
      BY <2>4, OneServerMoves, WaitingIsRequest DEF Issue
    <3>2. request[p].parent \subseteq Tokens
      <4>1. request[p] \in Requests /\ request[p].at = "issue"
        BY <1>t, <2>4 DEF Issue
      <4> QED
        BY <4>1 DEF Requests
    <3>3. successor' \subseteq Tokens \X Tokens
      BY <1>t, <2>4, <3>2 DEF Issue
    <3>4. token' \in [Tokens -> {"unused", "live", "revoked"}]
      BY <1>t, <2>4 DEF Issue
    <3> QED
      BY <1>t, <2>4, <3>1, <3>3, <3>4 DEF Issue, IdentityTypeInv
  <2>5. ASSUME NEW t \in Tokens, RevokeRefresh(p, t) PROVE IdentityTypeInv'
    BY <1>t, <2>5 DEF RevokeRefresh, IdentityTypeInv
  <2> QED
    BY <1>2, <2>1, <2>2, <2>3, <2>4, <2>5 DEF StaffStep
<1>3. ASSUME NEW p \in Servers, Stops(p) PROVE IdentityTypeInv'
  <2>1. request' \in [Servers -> Requests]
    BY <1>3, OneServerMoves, WaitingIsRequest DEF Stops
  <2> QED
    BY <1>t, <1>3, <2>1 DEF Stops, IdentityTypeInv
<1>4. CASE LockRunsOut
  BY <1>t, <1>4 DEF LockRunsOut, IdentityTypeInv
<1>5. CASE UNCHANGED identityVars
  BY <1>t, <1>5 DEF identityVars, IdentityTypeInv
<1> QED
  BY <1>1, <1>2, <1>3, <1>4, <1>5 DEF IdentityNext
LEMMA TokenStep == TokenInv /\ [IdentityNext]_identityVars => TokenInv'
<1> SUFFICES ASSUME TokenInv, [IdentityNext]_identityVars PROVE TokenInv'
  OBVIOUS
<1>i. IdentityTypeInv
  BY DEF TokenInv
<1>t. /\ token \in [Tokens -> {"unused", "live", "revoked"}]
      /\ successor \subseteq Tokens \X Tokens
      /\ request \in [Servers -> Requests]
      /\ TakenForGood /\ RefreshUsedOnce
  BY DEF TokenInv, IdentityTypeInv
<1>p. IdentityTypeInv'
  BY <1>i, TypeStep
<1>w. \A p \in Servers : request[p].at = "idle" => p \notin Issuing
  BY DEF Issuing
<1>u. ASSUME UNCHANGED <<token, successor, request>> PROVE TokenInv'
  BY <1>p, <1>u, TokensRest DEF staffVars, Issuing
<1>1. ASSUME NEW p \in Servers, CustomerStep(p) PROVE TokenInv'
  <2>1. CASE UNCHANGED <<token, successor, request>>
    BY <1>u, <2>1
  <2>2. ASSUME NEW next \in Requests, Proceeds(p, next), UNCHANGED staffVars,
               next.at # "issue"
        PROVE  TokenInv'
    BY <1>p, <2>2, ServerStepsAside
  <2>3. \A old : LoginBegin(p, old) => Proceeds(p, [at |-> "record"]) /\ UNCHANGED staffVars
    BY DEF LoginBegin
  <2>4. CASE ReadRecord(p)
    <3> DEFINE next == IF Locked THEN Waiting ELSE [at |-> "verify"]
    <3>1. next \in Requests /\ Proceeds(p, next) /\ next.at # "issue" /\ UNCHANGED staffVars
      BY <2>4, WaitingIsRequest DEF ReadRecord
    <3> QED
      BY <2>2, <3>1
  <2>5. WrongPassword(p) => Proceeds(p, Waiting) /\ UNCHANGED staffVars
    BY DEF WrongPassword
  <2>6. RightPassword(p) => Proceeds(p, [at |-> "session"]) /\ UNCHANGED staffVars
    BY DEF RightPassword
  <2>7. \A x : CreateSession(p, x) => Proceeds(p, Waiting) /\ UNCHANGED staffVars
    BY DEF CreateSession
  <2>8. /\ Register(p) => UNCHANGED <<token, successor, request>>
        /\ \A x : Logout(p, x) => UNCHANGED <<token, successor, request>>
    BY DEF Register, Logout, staffVars
  <2>9. Waiting.at # "issue" /\ [at |-> "record"].at # "issue" /\ [at |-> "session"].at # "issue"
    BY WaitingIsRequest
  <2> QED
    BY <1>1, <2>1, <2>2, <2>3, <2>4, <2>5, <2>6, <2>7, <2>8, <2>9, WaitingIsRequest DEF CustomerStep
<1>2. ASSUME NEW p \in Servers, StaffLogin(p) PROVE TokenInv'
  <2>1. /\ UNCHANGED staffVars
        /\ request'[p] = [at |-> "issue", parent |-> {}]
        /\ \A q \in Servers \ {p} : request'[q] = request[q]
    BY <1>2, <1>i, OneServerMoves, WaitingIsRequest DEF StaffLogin
  <2>2. token' = token /\ successor' = successor
    BY <2>1 DEF staffVars
  <2>3. request'[p].parent = {} /\ Issuing' = Issuing \cup {p} /\ p \notin Issuing
    BY <1>2, <1>w, <2>1, WaitingIsRequest DEF Issuing, StaffLogin
  <2> QED
    BY <1>t, <1>p, <2>1, <2>2, <2>3 DEF TokenInv, TakenForGood, RefreshUsedOnce, HasSuccessor,
       Issuing
<1>3. ASSUME NEW p \in Servers, NEW t \in Tokens, RefreshRead(p, t) PROVE TokenInv'
  <2>1. /\ Proceeds(p, [at |-> "consume", parent |-> {t}]) /\ UNCHANGED staffVars
        /\ [at |-> "consume", parent |-> {t}].at # "issue"
    BY <1>3 DEF RefreshRead
  <2> QED
    BY <1>p, <2>1, ServerStepsAside, WaitingIsRequest
<1>4. ASSUME NEW p \in Servers, RefreshConsume(p) PROVE TokenInv'
  <2>1. request[p] \in Requests /\ request[p].at = "consume" /\ UNCHANGED successor
    BY <1>4, <1>t DEF RefreshConsume
  <2>2. PICK t \in Tokens : request[p].parent = {t}
    BY <2>1, ConsumerHolds
  <2>3. CASE UNCHANGED token /\ Proceeds(p, Waiting)
    BY <1>p, <2>1, <2>3, ServerStepsAside, WaitingIsRequest DEF staffVars
  <2>4. CASE /\ token[t] = "live" /\ token' = [token EXCEPT ![t] = "revoked"]
             /\ Proceeds(p, [request[p] EXCEPT !.at = "issue"])
    <3> DEFINE next == [request[p] EXCEPT !.at = "issue"]
    <3>1. next \in Requests /\ next.at = "issue" /\ next.parent = {t}
      BY <2>1, <2>2, ConsumerHolds
    <3> HIDE DEF next
    <3>2. request'[p] = next /\ \A q \in Servers \ {p} : request'[q] = request[q]
      BY <1>i, <2>4, <3>1, OneServerMoves DEF next
    <3>3. Issuing' = Issuing \cup {p} /\ p \notin Issuing
      BY <2>1, <3>1, <3>2 DEF Issuing
    <3>4. ~HasSuccessor(t) /\ \A q \in Issuing : t \notin request[q].parent
      BY <1>t, <2>4 DEF TakenForGood, RefreshUsedOnce, HasSuccessor
    <3>5. token'[t] = "revoked" /\ \A u \in Tokens \ {t} : token'[u] = token[u]
      BY <1>t, <2>4
    <3>6. \A u \in Tokens : token[u] = "revoked" => token'[u] = "revoked"
      BY <3>5
    <3>7. \A q \in Issuing : request[q].parent \subseteq Tokens
      <4> SUFFICES ASSUME NEW q \in Issuing PROVE request[q].parent \subseteq Tokens
        OBVIOUS
      <4>1. request[q] \in Requests /\ request[q].at = "issue"
        BY <1>t DEF Issuing
      <4> QED
        BY <4>1 DEF Requests
    <3>8. TakenForGood'
      <4> SUFFICES ASSUME NEW q \in Issuing', NEW u \in request'[q].parent
                   PROVE  /\ token'[u] = "revoked" /\ ~HasSuccessor(u)'
                          /\ \A s \in Issuing' \ {q} : u \notin request'[s].parent
        BY DEF TakenForGood
      <4>1. HasSuccessor(u)' = HasSuccessor(u)
        BY <2>1 DEF HasSuccessor
      <4>2. CASE q = p
        <5>1. u = t
          BY <3>1, <3>2, <4>2
        <5>2. \A s \in Issuing' \ {p} : s \in Issuing /\ request'[s] = request[s]
          BY <3>2, <3>3 DEF Issuing
        <5> QED
          BY <3>4, <3>5, <4>1, <4>2, <5>1, <5>2
      <4>3. CASE q # p
        <5>1. q \in Issuing /\ request'[q] = request[q] /\ u \in request[q].parent
          BY <3>2, <3>3, <4>3 DEF Issuing
        <5>2. token[u] = "revoked" /\ u \in Tokens /\ u # t /\ ~HasSuccessor(u)
          BY <1>t, <3>4, <3>7, <5>1 DEF TakenForGood
        <5>3. \A s \in Issuing' \ {q} : u \notin request'[s].parent
          <6> SUFFICES ASSUME NEW s \in Issuing' \ {q} PROVE u \notin request'[s].parent
            OBVIOUS
          <6>1. CASE s = p
            BY <3>1, <3>2, <5>2, <6>1
          <6>2. CASE s # p
            BY <1>t, <3>2, <3>3, <5>1, <6>2 DEF TakenForGood, Issuing
          <6> QED
            BY <6>1, <6>2
        <5> QED
          BY <3>6, <4>1, <5>2, <5>3
      <4> QED
        BY <4>2, <4>3
    <3>9. RefreshUsedOnce'
      <4>1. \A a \in successor : a[1] \in Tokens
        BY <1>t
      <4> QED
        BY <1>t, <2>1, <3>6, <4>1 DEF RefreshUsedOnce
    <3> QED
      BY <1>p, <3>8, <3>9 DEF TokenInv
  <2> QED
    BY <1>4, <2>2, <2>3, <2>4 DEF RefreshConsume, Consumable
<1>5. ASSUME NEW p \in Servers, NEW t \in Tokens, Issue(p, t) PROVE TokenInv'
  <2>1. /\ request[p].at = "issue" /\ token[t] = "unused"
        /\ token' = [token EXCEPT ![t] = "live"]
        /\ successor' = successor \cup {<<u, t>> : u \in request[p].parent}
        /\ Proceeds(p, Waiting)
    BY <1>5 DEF Issue
  <2>2. p \in Issuing
    BY <2>1 DEF Issuing
  <2>3. request'[p] = Waiting /\ \A q \in Servers \ {p} : request'[q] = request[q]
    BY <1>i, <2>1, OneServerMoves, WaitingIsRequest
  <2>4. Issuing' = Issuing \ {p}
    BY <2>3, WaitingIsRequest DEF Issuing
  <2>5. \A u : token[u] = "revoked" /\ u \in Tokens => token'[u] = "revoked"
    BY <1>t, <2>1
  <2>6. \A q \in Issuing : request[q].parent \subseteq Tokens
    <3> SUFFICES ASSUME NEW q \in Issuing PROVE request[q].parent \subseteq Tokens
      OBVIOUS
    <3>1. request[q] \in Requests /\ request[q].at = "issue"
      BY <1>t DEF Issuing
    <3> QED
      BY <3>1 DEF Requests
  <2>7. \A a \in successor' : a \in successor \/ (a[1] \in request[p].parent /\ a = <<a[1], t>>)
    BY <2>1
  <2>8. TakenForGood'
    <3> SUFFICES ASSUME NEW q \in Issuing', NEW u \in request'[q].parent
                 PROVE  /\ token'[u] = "revoked" /\ ~HasSuccessor(u)'
                        /\ \A s \in Issuing' \ {q} : u \notin request'[s].parent
      BY DEF TakenForGood
    <3>1. q \in Issuing /\ q # p /\ request'[q] = request[q] /\ u \in request[q].parent
      BY <2>3, <2>4 DEF Issuing
    <3>2. /\ token[u] = "revoked" /\ u \in Tokens /\ ~HasSuccessor(u)
          /\ \A s \in Issuing \ {q} : u \notin request[s].parent
      BY <1>t, <2>6, <3>1 DEF TakenForGood
    <3>3. u \notin request[p].parent
      BY <2>2, <3>1, <3>2
    <3>4. ~HasSuccessor(u)'
      BY <2>7, <3>2, <3>3 DEF HasSuccessor
    <3>5. \A s \in Issuing' \ {q} : s \in Issuing \ {q} /\ request'[s] = request[s]
      BY <2>3, <2>4 DEF Issuing
    <3> QED
      BY <2>5, <3>2, <3>4, <3>5
  <2>9. RefreshUsedOnce'
    <3> SUFFICES ASSUME NEW a \in successor', NEW b \in successor'
                 PROVE  (a[1] = b[1] => a = b) /\ token'[a[1]] = "revoked"
      BY DEF RefreshUsedOnce
    <3>1. \A u \in request[p].parent : u \in Tokens /\ token[u] = "revoked" /\ ~HasSuccessor(u)
      BY <1>t, <2>2, <2>6 DEF TakenForGood
    <3>2. \A d \in successor : d[1] \in Tokens /\ token[d[1]] = "revoked"
      BY <1>t DEF RefreshUsedOnce
    <3>3. token'[a[1]] = "revoked"
      BY <2>5, <2>7, <3>1, <3>2
    <3>4. ASSUME a[1] = b[1] PROVE a = b
      <4>1. CASE a \in successor /\ b \in successor
        BY <1>t, <3>4, <4>1 DEF RefreshUsedOnce
      <4>2. CASE a \notin successor /\ b \notin successor
        BY <2>7, <3>4, <4>2
      <4>3. CASE a \in successor /\ b \notin successor
        BY <2>7, <3>1, <3>4, <4>3 DEF HasSuccessor
      <4>4. CASE a \notin successor /\ b \in successor
        BY <2>7, <3>1, <3>4, <4>4 DEF HasSuccessor
      <4> QED
        BY <4>1, <4>2, <4>3, <4>4
    <3> QED
      BY <3>3, <3>4
  <2> QED
    BY <1>p, <2>8, <2>9 DEF TokenInv
<1>6. ASSUME NEW p \in Servers, NEW t \in Tokens, RevokeRefresh(p, t) PROVE TokenInv'
  <2>1. token' = [token EXCEPT ![t] = "revoked"] /\ UNCHANGED <<successor, request>>
    BY <1>6 DEF RevokeRefresh
  <2>2. \A u : token[u] = "revoked" => token'[u] = "revoked"
    BY <1>t, <2>1
  <2>3. Issuing' = Issuing
    BY <2>1 DEF Issuing
  <2> QED
    BY <1>t, <1>p, <2>1, <2>2, <2>3 DEF TokenInv, TakenForGood, RefreshUsedOnce, HasSuccessor
<1>7. ASSUME NEW p \in Servers, Stops(p) PROVE TokenInv'
  <2>1. Proceeds(p, Waiting) /\ UNCHANGED staffVars
    BY <1>7 DEF Stops
  <2> QED
    BY <1>p, <2>1, ServerStepsAside, WaitingIsRequest
<1>8. CASE LockRunsOut
  BY <1>u, <1>8 DEF LockRunsOut, staffVars
<1>9. CASE UNCHANGED identityVars
  BY <1>u, <1>9 DEF identityVars, staffVars
<1> QED
  BY <1>1, <1>2, <1>3, <1>4, <1>5, <1>6, <1>7, <1>8, <1>9 DEF IdentityNext, StaffStep

-----------------------------------------------------------------------------
(* Passwords.                                                                 *)

LEMMA FewVerify ==
  ASSUME NEW S \in SUBSET Servers
  PROVE  /\ IsFiniteSet(S) /\ Cardinality(S) \in Nat /\ Cardinality(Servers) \in Nat
         /\ Cardinality(S) <= Cardinality(Servers)
BY FS_Subset, FS_CardinalityType, IdentityAssumption

LEMMA GuessInitial == IdentityInit => GuessInv
<1> SUFFICES ASSUME IdentityInit PROVE GuessInv
  OBVIOUS
<1>1. failed = 0 /\ lapses = 0 /\ lock = "none"
  BY DEF IdentityInit
<1>2. Cardinality(Servers) \in Nat /\ LockAfter \in Nat \ {0}
  BY FewVerify, IdentityAssumption
<1> QED
  BY <1>1, <1>2 DEF GuessInv

\* Nobody starts to check while the lock runs, and the counters stay.
LEMMA GuessesRest ==
  ASSUME GuessInv, IdentityTypeInv, UNCHANGED <<failed, lock, lapses>>,
         lock = "running" => Verifying' \subseteq Verifying
  PROVE  GuessInv'
<1>1. CASE lock # "running"
  BY <1>1 DEF GuessInv
<1>2. CASE lock = "running"
  <2>1. Verifying \in SUBSET Servers /\ Verifying' \in SUBSET Servers
    BY DEF Verifying
  <2>2. /\ Cardinality(Verifying') <= Cardinality(Verifying)
        /\ Cardinality(Verifying') \in Nat /\ Cardinality(Verifying) \in Nat
    BY <1>2, <2>1, FewVerify, FS_Subset
  <2> DEFINE allowed == LockAfter - 1 + Cardinality(Servers) * (1 + lapses)
  <2>3. allowed \in Int /\ failed \in Nat
    BY FewVerify, IdentityAssumption DEF IdentityTypeInv
  <2>4. failed + Cardinality(Verifying) <= allowed
    BY <1>2 DEF GuessInv
  <2> HIDE DEF allowed
  <2>5. failed + Cardinality(Verifying') <= allowed
    BY <2>2, <2>3, <2>4
  <2> QED
    BY <1>2, <2>5 DEF GuessInv, allowed
<1> QED
  BY <1>1, <1>2
LEMMA GuessStep ==
  IdentityTypeInv /\ GuessInv /\ [IdentityNext]_identityVars => GuessInv'
<1> SUFFICES ASSUME IdentityTypeInv, GuessInv, [IdentityNext]_identityVars PROVE GuessInv'
  OBVIOUS
<1> DEFINE N == Cardinality(Servers)
           W == N * lapses
           V == Cardinality(Verifying)
<1>t. /\ failed \in Nat /\ lapses \in Nat /\ lock \in {"none", "running", "over"}
      /\ request \in [Servers -> Requests] /\ LockAfter \in Nat \ {0}
  BY IdentityAssumption DEF IdentityTypeInv
<1>n. N \in Nat /\ N * (1 + lapses) = N + W /\ W \in Nat
  <2>1. N \in Nat
    BY FewVerify
  <2> HIDE DEF N
  <2> QED
    BY <1>t, <2>1
<1>g. /\ lock = "running" => failed + V <= LockAfter - 1 + N + W
      /\ lock # "running" => failed <= LockAfter - 1 + W
  <2> HIDE DEF W
  <2> QED
    BY <1>t, <1>n DEF GuessInv, W
<1>v. IsFiniteSet(Verifying) /\ V \in Nat /\ V <= N
  BY FewVerify DEF Verifying
<1> HIDE DEF W, V, N
<1>r. ASSUME NEW p \in Servers, NEW next \in Requests, Proceeds(p, next),
             next.at # "verify" \/ lock # "running", UNCHANGED <<failed, lock, lapses>>
      PROVE  GuessInv'
  <2>1. request'[p] = next /\ \A q \in Servers \ {p} : request'[q] = request[q]
    BY <1>r, OneServerMoves
  <2>2. lock = "running" => Verifying' \subseteq Verifying
    BY <1>r, <2>1 DEF Verifying
  <2> QED
    BY <1>r, <2>2, GuessesRest
<1>u. ASSUME UNCHANGED <<failed, lock, lapses, request>> PROVE GuessInv'
  <2>1. Verifying' = Verifying
    BY <1>u DEF Verifying
  <2> QED
    BY <1>u, <2>1, GuessesRest
<1>1. ASSUME NEW p \in Servers, WrongPassword(p) PROVE GuessInv'
  <2>1. /\ p \in Verifying /\ failed' = failed + 1 /\ lapses' = lapses
        /\ lock' = IF failed + 1 >= LockAfter THEN "running" ELSE lock
    BY <1>1 DEF WrongPassword, LockedBy, Verifying
  <2>2. request'[p] = Waiting /\ \A q \in Servers \ {p} : request'[q] = request[q]
    BY <1>1, OneServerMoves, WaitingIsRequest DEF WrongPassword
  <2>3. Verifying' = Verifying \ {p}
    BY <2>2, WaitingIsRequest DEF Verifying
  <2>4. Cardinality(Verifying') = V - 1
    BY <1>v, <2>1, <2>3, FS_RemoveElement DEF V
  <2> DEFINE V1 == Cardinality(Verifying')
  <2>5. V1 = V - 1 /\ V1 \in Nat
    BY <2>4, FewVerify DEF Verifying
  <2> HIDE DEF V1
  <2>6. lock' = "running" => failed' + V1 <= LockAfter - 1 + N + W
    BY <1>g, <1>n, <1>t, <1>v, <2>1, <2>5
  <2>7. lock' # "running" => failed' <= LockAfter - 1 + W
    BY <1>n, <1>t, <2>1
  <2>8. LockAfter - 1 + N * (1 + lapses') = LockAfter - 1 + N + W
    BY <1>n, <1>t, <2>1
  <2>9. LockAfter - 1 + N * lapses' = LockAfter - 1 + W
    BY <2>1 DEF W
  <2> QED
    BY <2>6, <2>7, <2>8, <2>9 DEF GuessInv, V1, N
<1>2. ASSUME NEW p \in Servers, RightPassword(p) PROVE GuessInv'
  <2>1. failed' = 0 /\ lock' = "none" /\ lapses' = 0
    BY <1>2 DEF RightPassword
  <2>2. N * lapses' = 0
    BY <1>n, <2>1
  <2> QED
    BY <1>t, <2>1, <2>2 DEF GuessInv, N
<1>3. CASE LockRunsOut
  <2>1. lock = "running" /\ lock' = "over" /\ lapses' = 1 + lapses /\ failed' = failed
    BY <1>3, <1>t DEF LockRunsOut
  <2>2. N * lapses' = N + W
    BY <1>n, <2>1
  <2>3. failed <= LockAfter - 1 + N + W
    BY <1>g, <1>n, <1>t, <1>v, <2>1
  <2>4. failed' <= LockAfter - 1 + N * lapses'
    BY <1>n, <1>t, <2>1, <2>2, <2>3
  <2> QED
    BY <2>1, <2>4 DEF GuessInv, N
<1>4. ASSUME NEW p \in Servers, CustomerStep(p) PROVE GuessInv'
  <2>1. CASE ReadRecord(p)
    <3> DEFINE next == IF Locked THEN Waiting ELSE [at |-> "verify"]
    <3>1. /\ next \in Requests /\ Proceeds(p, next) /\ UNCHANGED <<failed, lock, lapses>>
          /\ next.at # "verify" \/ lock # "running"
      BY <2>1, WaitingIsRequest DEF ReadRecord, Locked, customerVars
    <3> QED
      BY <1>r, <3>1
  <2>2. \A old : LoginBegin(p, old) =>
          Proceeds(p, [at |-> "record"]) /\ UNCHANGED <<failed, lock, lapses>>
    BY DEF LoginBegin
  <2>3. \A x : CreateSession(p, x) => Proceeds(p, Waiting) /\ UNCHANGED <<failed, lock, lapses>>
    BY DEF CreateSession
  <2>4. /\ Register(p) => UNCHANGED <<failed, lock, lapses, request>>
        /\ \A x : Logout(p, x) => UNCHANGED <<failed, lock, lapses, request>>
    BY DEF Register, Logout
  <2>5. Waiting.at # "verify" /\ [at |-> "record"].at # "verify"
    BY WaitingIsRequest
  <2> QED
    BY <1>1, <1>2, <1>4, <1>r, <1>u, <2>1, <2>2, <2>3, <2>4, <2>5, WaitingIsRequest DEF CustomerStep
<1>5. ASSUME NEW p \in Servers, StaffStep(p) PROVE GuessInv'
  <2>1. UNCHANGED <<failed, lock, lapses>>
    BY <1>5 DEF StaffStep, StaffLogin, RefreshConsume, RefreshRead, Issue, RevokeRefresh,
       customerVars
  <2>2. CASE RefreshConsume(p)
    <3>1. request[p] \in Requests /\ request[p].at = "consume"
      BY <1>t, <2>2 DEF RefreshConsume
    <3>2. \/ Proceeds(p, [request[p] EXCEPT !.at = "issue"])
          \/ Proceeds(p, Waiting)
      BY <2>2 DEF RefreshConsume
    <3> QED
      BY <1>r, <2>1, <3>1, <3>2, ConsumerHolds, WaitingIsRequest
  <2>3. StaffLogin(p) => Proceeds(p, [at |-> "issue", parent |-> {}])
    BY DEF StaffLogin
  <2>4. \A t \in Tokens : RefreshRead(p, t) => Proceeds(p, [at |-> "consume", parent |-> {t}])
    BY DEF RefreshRead
  <2>5. \A t \in Tokens : Issue(p, t) => Proceeds(p, Waiting)
    BY DEF Issue
  <2>6. \A t \in Tokens : RevokeRefresh(p, t) => UNCHANGED request
    BY DEF RevokeRefresh
  <2>7. /\ [at |-> "issue", parent |-> {}].at # "verify" /\ Waiting.at # "verify"
        /\ \A t \in Tokens : [at |-> "consume", parent |-> {t}].at # "verify"
    BY WaitingIsRequest
  <2> QED
    BY <1>5, <1>r, <1>u, <2>1, <2>2, <2>3, <2>4, <2>5, <2>6, <2>7, WaitingIsRequest DEF StaffStep
<1>6. ASSUME NEW p \in Servers, Stops(p) PROVE GuessInv'
  BY <1>6, <1>r, WaitingIsRequest DEF Stops, customerVars
<1>7. CASE UNCHANGED identityVars
  BY <1>7, <1>u DEF identityVars, customerVars
<1> QED
  BY <1>3, <1>4, <1>5, <1>6, <1>7 DEF IdentityNext

-----------------------------------------------------------------------------
(* What is proved of identities.                                              *)

\* The identity service's state, and its tokens, stay consistent whichever servers
\* run, stop or fail on the same database.
THEOREM IdentityInvariant == IdentitySpec => []TokenInv
BY TokenInitial, TokenStep, PTL DEF IdentitySpec

\* consume_refresh gives a token's successor out once, for any number of servers
\* that read it before one of them updates the row.
THEOREM TokenExchangedOnce == IdentitySpec => []RefreshUsedOnce
<1>1. TokenInv => RefreshUsedOnce
  BY DEF TokenInv
<1> QED
  BY <1>1, IdentityInvariant, PTL

\* The guesses between two right passwords are bounded by lock_after and by the
\* servers at work when a lock starts, for any number of locks that run out.
THEOREM GuessesBounded == IdentitySpec => []GuessesAreBounded
<1>1. IdentityInit => IdentityTypeInv /\ GuessInv
  BY TokenInitial, GuessInitial DEF TokenInv
<1>2. IdentityTypeInv /\ GuessInv /\ [IdentityNext]_identityVars => (IdentityTypeInv /\ GuessInv)'
  BY TypeStep, GuessStep
<1>3. IdentityTypeInv /\ GuessInv => GuessesAreBounded
  <2> SUFFICES ASSUME IdentityTypeInv, GuessInv PROVE GuessesAreBounded
    OBVIOUS
  <2> DEFINE N == Cardinality(Servers)
             W == N * lapses
  <2>1. /\ N \in Nat /\ failed \in Nat /\ lapses \in Nat /\ LockAfter \in Nat
        /\ Cardinality(Verifying) \in Nat
    BY FewVerify, IdentityAssumption DEF IdentityTypeInv, Verifying
  <2>2. /\ lock = "running" => failed + Cardinality(Verifying) <= LockAfter - 1 + N * (1 + lapses)
        /\ lock # "running" => failed <= LockAfter - 1 + W
    BY DEF GuessInv
  <2> HIDE DEF N
  <2>3. N * (1 + lapses) = N + W /\ W \in Nat
    BY <2>1
  <2> HIDE DEF W
  <2>4. failed <= LockAfter - 1 + N * (1 + lapses)
    BY <2>1, <2>2, <2>3
  <2> QED
    BY <2>4 DEF GuessesAreBounded, N
<1> QED
  BY <1>1, <1>2, <1>3, PTL DEF IdentitySpec

-----------------------------------------------------------------------------
(* Manager: the gateway process.                                              *)

CallStates == [pc : {"none", "launching", "waiting", "killing"}, of : Gateways \cup {NoGateway}]

ProcessTypeInv ==
  /\ held \in Gateways \cup {NoGateway}
  /\ live \subseteq Gateways /\ launched \subseteq Gateways
  /\ call \in [Calls -> CallStates]

Launching == {r \in Calls : call[r].pc = "launching"}
Excused == {"starts overlapped", "gateway outlived its manager"}

\* A start waits for its child alone, and while no gateway runs.
ManagerInv ==
  /\ ProcessTypeInv
  /\ mishaps \cap Excused = {} =>
       /\ live \subseteq {held}
       /\ \A r \in Launching : live = {} /\ Launching = {r}

-----------------------------------------------------------------------------

LEMMA ManagerInitial == ManagerInit => ManagerInv
BY DEF ManagerInit, ManagerInv, ProcessTypeInv, CallStates, NoCall, Launching

\* A request moves on; a start begins only where it did before.
LEMMA CallMoves ==
  ASSUME NEW r \in Calls, call \in [Calls -> CallStates], NEW s \in CallStates,
         call' = [call EXCEPT ![r] = s]
  PROVE  /\ call' \in [Calls -> CallStates]
         /\ s.pc # "launching" => Launching' = Launching \ {r}
         /\ s.pc = "launching" => Launching' = Launching \cup {r}
BY DEF Launching

LEMMA CallStatesAre ==
  /\ NoCall \in CallStates /\ NoCall.pc = "none"
  /\ [pc |-> "launching", of |-> NoGateway] \in CallStates
  /\ \A g \in Gateways \cup {NoGateway}, pc \in {"waiting", "killing"} :
       [pc |-> pc, of |-> g] \in CallStates
BY DEF NoCall, CallStates

\* Fewer gateways run and nobody begins a launch.
LEMMA NothingStarts ==
  ASSUME ManagerInv, ProcessTypeInv', live' \subseteq live, mishaps \subseteq mishaps',
         Launching' \subseteq Launching,
         held' = held \/ live' = {}
  PROVE  ManagerInv'
<1>1. ASSUME mishaps' \cap Excused = {}
      PROVE  live' \subseteq {held'} /\ \A r \in Launching' : live' = {} /\ Launching' = {r}
  <2>1. mishaps \cap Excused = {}
    BY <1>1
  <2>2. live \subseteq {held} /\ \A r \in Launching : live = {} /\ Launching = {r}
    BY <2>1 DEF ManagerInv
  <2> QED
    BY <2>2
<1> QED
  BY <1>1 DEF ManagerInv

LEMMA ManagerStep == ManagerInv /\ [ManagerNext]_managerVars => ManagerInv'
<1> SUFFICES ASSUME ManagerInv, [ManagerNext]_managerVars PROVE ManagerInv'
  OBVIOUS
<1>t. /\ held \in Gateways \cup {NoGateway}
      /\ live \subseteq Gateways /\ launched \subseteq Gateways
      /\ call \in [Calls -> CallStates]
  BY DEF ManagerInv, ProcessTypeInv
<1>i. mishaps \cap Excused = {} =>
        live \subseteq {held} /\ \A r \in Launching : live = {} /\ Launching = {r}
  BY DEF ManagerInv
<1>u. ASSUME UNCHANGED <<held, live, launched, call, mishaps>> PROVE ManagerInv'
  BY <1>u, NothingStarts DEF ManagerInv, ProcessTypeInv, Launching
<1>m. ASSUME NEW r \in Calls, NEW s \in CallStates, call' = [call EXCEPT ![r] = s],
             s.pc # "launching", UNCHANGED <<held, live, launched, mishaps>>
      PROVE  ManagerInv'
  <2>1. call' \in [Calls -> CallStates] /\ Launching' \subseteq Launching
    BY <1>t, <1>m, CallMoves
  <2>2. ProcessTypeInv'
    BY <1>t, <1>m, <2>1 DEF ProcessTypeInv
  <2> QED
    BY <1>m, <2>1, <2>2, NothingStarts
<1>1. ASSUME NEW r \in Calls, Start(r) PROVE ManagerInv'
  <2>1. CASE IsRunning
    BY <1>1, <1>u, <2>1 DEF Start
  <2>2. CASE ~IsRunning
    <3>1. /\ call' = [call EXCEPT ![r] = [pc |-> "launching", of |-> NoGateway]]
          /\ mishaps' = mishaps \cup (IF Launching # {} THEN {"starts overlapped"} ELSE {})
          /\ UNCHANGED <<held, live, launched>>
      BY <1>1, <2>2 DEF Start, Launching
    <3>2. call' \in [Calls -> CallStates] /\ Launching' = Launching \cup {r}
      BY <1>t, <3>1, CallMoves, CallStatesAre
    <3>3. ProcessTypeInv'
      BY <1>t, <3>1, <3>2 DEF ProcessTypeInv
    <3>4. ASSUME mishaps' \cap Excused = {}
          PROVE  live' \subseteq {held'} /\ \A o \in Launching' : live' = {} /\ Launching' = {o}
      <4>1. Launching = {} /\ mishaps \cap Excused = {}
        BY <3>1, <3>4 DEF Excused
      <4>2. live \subseteq {held} /\ held \notin live
        BY <1>i, <2>2, <4>1 DEF IsRunning
      <4>3. live = {}
        BY <4>2
      <4> QED
        BY <3>1, <3>2, <4>1, <4>3
    <3> QED
      BY <3>3, <3>4 DEF ManagerInv
  <2> QED
    BY <2>1, <2>2
<1>2. ASSUME NEW r \in Calls, NEW g \in Gateways, Launched(r, g) PROVE ManagerInv'
  <2>1. /\ r \in Launching /\ held' = g /\ live' = live \cup {g} /\ launched' = launched \cup {g}
        /\ call' = [call EXCEPT ![r] = NoCall] /\ mishaps' = mishaps
    BY <1>2 DEF Launched, Answered, Launching
  <2>2. call' \in [Calls -> CallStates] /\ Launching' = Launching \ {r}
    BY <1>t, <2>1, CallMoves, CallStatesAre
  <2>3. ProcessTypeInv'
    BY <1>t, <2>1, <2>2 DEF ProcessTypeInv
  <2>4. ASSUME mishaps' \cap Excused = {}
        PROVE  live' \subseteq {held'} /\ Launching' = {}
    BY <1>i, <2>1, <2>2, <2>4
  <2> QED
    BY <2>3, <2>4 DEF ManagerInv
<1>3. ASSUME NEW r \in Calls, LaunchFails(r) PROVE ManagerInv'
  BY <1>3, <1>m, CallStatesAre DEF LaunchFails, Answered
<1>4. ASSUME NEW r \in Calls, Stop(r) PROVE ManagerInv'
  <2> DEFINE s == [pc |-> "waiting", of |-> held]
  <2>1. s \in CallStates /\ s.pc # "launching"
    BY <1>t, CallStatesAre
  <2> QED
    BY <1>4, <1>m, <2>1 DEF Stop
<1>5. ASSUME NEW r \in Calls, StopTimeout(r) PROVE ManagerInv'
  <2> DEFINE s == [pc |-> "killing", of |-> held]
  <2>1. s \in CallStates /\ s.pc # "launching"
    BY <1>t, CallStatesAre
  <2> QED
    BY <1>5, <1>m, <2>1, CallStatesAre DEF StopTimeout, Answered
<1>6. ASSUME NEW g \in Gateways, GatewayEnds(g) PROVE ManagerInv'
  <2>1. /\ g \in live /\ live' = live \ {g} /\ launched' = launched /\ mishaps' = mishaps
        /\ call' = [r \in Calls |-> IF r \in WaitingOn(g) THEN NoCall ELSE call[r]]
        /\ held' = IF WaitingOn(g) = {} THEN held ELSE NoGateway
    BY <1>6 DEF GatewayEnds
  <2>2. call' \in [Calls -> CallStates] /\ Launching' \subseteq Launching
    BY <1>t, <2>1, CallStatesAre DEF Launching
  <2>3. ProcessTypeInv'
    BY <1>t, <2>1, <2>2 DEF ProcessTypeInv
  <2>4. ASSUME mishaps' \cap Excused = {}
        PROVE  live' = {} /\ \A r \in Launching' : Launching' = {r}
    BY <1>i, <2>1, <2>2, <2>4
  <2> QED
    BY <2>3, <2>4 DEF ManagerInv
<1>7. CASE ManagerDies
  <2>1. /\ held' = NoGateway /\ live' = live /\ launched' = launched
        /\ call' = [r \in Calls |-> NoCall]
        /\ mishaps' = mishaps \cup (IF live = {} THEN {} ELSE {"gateway outlived its manager"})
    BY <1>7 DEF ManagerDies
  <2>2. call' \in [Calls -> CallStates] /\ Launching' = {}
    BY <2>1, CallStatesAre DEF Launching
  <2>3. ProcessTypeInv'
    BY <1>t, <2>1, <2>2 DEF ProcessTypeInv
  <2>4. mishaps' \cap Excused = {} => live = {}
    BY <2>1 DEF Excused
  <2> QED
    BY <2>1, <2>2, <2>3, <2>4 DEF ManagerInv
<1>8. CASE \E added, removed \in SUBSET McpServers : BeginEdit(added, removed)
  BY <1>8, <1>u DEF BeginEdit, processVars
<1>9. CASE EmptyBackup \/ CopyConfig \/ CopyFails \/ EmptyConfig \/ WriteConfig
  BY <1>9, <1>u DEF EmptyBackup, CopyConfig, CopyFails, EmptyConfig, WriteConfig, processVars
<1>10. CASE UNCHANGED managerVars
  BY <1>10, <1>u DEF managerVars, processVars
<1> QED
  BY <1>1, <1>2, <1>3, <1>4, <1>5, <1>6, <1>7, <1>8, <1>9, <1>10 DEF ManagerNext

\* The processes that run are the one that is held, and a start launches alone.
THEOREM ManagerInvariant == ManagerSpec => []ManagerInv
BY ManagerInitial, ManagerStep, PTL DEF ManagerSpec

\* GatewayProcess never lets go of a gateway that runs, whatever stops, kills and
\* exits come in between, unless two starts overlapped or the manager died first.
THEOREM GatewayIsHeld == ManagerSpec => []OneGateway
<1>1. ManagerInv => OneGateway
  BY DEF ManagerInv, OneGateway, Excused
<1> QED
  BY <1>1, ManagerInvariant, PTL

-----------------------------------------------------------------------------
(* MemoryStore: the authoritative rows and the consents they stand on, which  *)
(* depend on nothing of the outbox and the indexes.                           *)

Statuses == Live \cup {"none", "superseded", "invalid", "deleted"}
Rows == [status : Statuses, version : Nat, consent : Consents \cup {NoConsent},
         supersedes : Items \cup {NoItem}]

RowTypeInv ==
  /\ realm \in {"customer", "workspace"}
  /\ row \in [Items -> Rows]
  /\ consents \in [Consents -> {"none", "active", "withdrawn", "expired"}]

\* A customer's memory never waits for an operator: no row of it is active but
\* through a consent, or in place of one that was.
NothingToConfirm ==
  realm = "customer" =>
    confirming = NotConfirming /\ WithStatus("pending_confirmation") = {}

ConsentInv == RowTypeInv /\ NothingToConfirm /\ ActiveHasConsent

-----------------------------------------------------------------------------

LEMMA MemoryInitial == MemoryInit => ConsentInv
<1> SUFFICES ASSUME MemoryInit PROVE ConsentInv
  OBVIOUS
<1>1. DOMAIN Draft = {"customer", "workspace"}
  BY DEF Draft
<1>2. NoRow \in Rows /\ NoRow.status = "none"
  BY DEF NoRow, Rows, Statuses
<1>3. RowTypeInv /\ \A i \in Items : row[i].status = "none"
  BY <1>1, <1>2 DEF MemoryInit, RowTypeInv
<1> QED
  BY <1>3 DEF MemoryInit, ConsentInv, NothingToConfirm, ActiveHasConsent, WithStatus

\* What one row becomes keeps its shape.
LEMMA RowsKeepShape ==
  ASSUME NEW r \in Rows
  PROVE  /\ \A s \in Statuses :
              /\ [r EXCEPT !.status = s, !.version = @ + 1] \in Rows
              /\ [r EXCEPT !.status = s, !.version = @ + 1].status = s
              /\ [r EXCEPT !.status = s, !.version = @ + 1].consent = r.consent
         /\ \A c \in Consents \cup {NoConsent} :
              /\ [r EXCEPT !.status = "active", !.version = @ + 1, !.consent = c] \in Rows
              /\ [r EXCEPT !.status = "active", !.version = @ + 1, !.consent = c].consent = c
<1> DEFINE v == r.version + 1
<1>1. v \in Nat
  BY DEF Rows
<1> HIDE DEF v
<1>2. ASSUME NEW s \in Statuses
      PROVE  /\ [r EXCEPT !.status = s, !.version = v] \in Rows
             /\ [r EXCEPT !.status = s, !.version = v].status = s
             /\ [r EXCEPT !.status = s, !.version = v].consent = r.consent
  BY <1>1 DEF Rows
<1>3. ASSUME NEW c \in Consents \cup {NoConsent}
      PROVE  /\ [r EXCEPT !.status = "active", !.version = v, !.consent = c] \in Rows
             /\ [r EXCEPT !.status = "active", !.version = v, !.consent = c].consent = c
  BY <1>1 DEF Rows, Statuses, Live
<1> QED
  BY <1>2, <1>3 DEF v

\* A retired row is not active, and the other rows are as they were.
LEMMA RetiringRows ==
  ASSUME RowTypeInv, NEW S \in SUBSET Items, NEW s \in {"invalid", "deleted"}, Retire(S, s)
  PROVE  /\ row' \in [Items -> Rows]
         /\ \A i \in S : row'[i].status = s
         /\ \A i \in Items \ S : row'[i] = row[i]
<1>1. row' = [i \in Items |-> IF i \in S
                THEN [row[i] EXCEPT !.status = s, !.version = @ + 1] ELSE row[i]]
  BY DEF Retire
<1>2. s \in Statuses /\ \A i \in Items : row[i] \in Rows
  BY DEF Statuses, RowTypeInv
<1>3. \A i \in Items : /\ [row[i] EXCEPT !.status = s, !.version = @ + 1] \in Rows
                       /\ [row[i] EXCEPT !.status = s, !.version = @ + 1].status = s
  BY <1>2, RowsKeepShape
<1>4. \A i \in Items : row'[i] = IF i \in S
                THEN [row[i] EXCEPT !.status = s, !.version = @ + 1] ELSE row[i]
  BY <1>1
<1>5. row' \in [Items -> Rows]
  <2> DEFINE f(i) == IF i \in S
                THEN [row[i] EXCEPT !.status = s, !.version = @ + 1] ELSE row[i]
  <2>1. row' = [i \in Items |-> f(i)]
    BY <1>1
  <2>2. \A i \in Items : f(i) \in Rows
    BY <1>2, <1>3
  <2> HIDE DEF f
  <2> QED
    BY <2>1, <2>2
<1> QED
  BY <1>3, <1>4, <1>5

\* One row changes.
LEMMA OneRow ==
  ASSUME RowTypeInv, NEW i \in Items, NEW r \in Rows, row' = [row EXCEPT ![i] = r]
  PROVE  row' \in [Items -> Rows] /\ row'[i] = r /\ \A j \in Items \ {i} : row'[j] = row[j]
BY DEF RowTypeInv

\* What a step must show: the rows that are active afterwards stand on a consent,
\* and a customer's row does not come to wait for an operator.
LEMMA RowStep ==
  ASSUME ConsentInv, realm' = realm, row' \in [Items -> Rows],
         consents' \in [Consents -> {"none", "active", "withdrawn", "expired"}],
         confirming' \in {confirming, NotConfirming},
         realm = "customer" => \A i \in Items :
           /\ row'[i].status = "pending_confirmation" => row[i].status = "pending_confirmation"
           /\ row'[i].status = "active" =>
                row'[i].consent \in Consents /\ consents'[row'[i].consent] = "active"
  PROVE  ConsentInv'
<1>1. RowTypeInv'
  BY DEF ConsentInv, RowTypeInv
<1>2. NothingToConfirm'
  BY DEF ConsentInv, NothingToConfirm, WithStatus
<1>3. ActiveHasConsent'
  BY DEF ActiveHasConsent, WithStatus
<1> QED
  BY <1>1, <1>2, <1>3 DEF ConsentInv

LEMMA RowsRest ==
  ASSUME ConsentInv, UNCHANGED <<realm, row, consents>>, confirming' \in {confirming, NotConfirming}
  PROVE  ConsentInv'
<1>1. row \in [Items -> Rows] /\ consents \in [Consents -> {"none", "active", "withdrawn", "expired"}]
  BY DEF ConsentInv, RowTypeInv
<1> QED
  BY <1>1, RowStep DEF ConsentInv, ActiveHasConsent, WithStatus

\* Rows are retired, and every consent that an active row keeps is still active.
LEMMA RowsRetire ==
  ASSUME ConsentInv, NEW S \in SUBSET Items, NEW s \in {"invalid", "deleted"}, Retire(S, s),
         UNCHANGED <<realm, confirming>>,
         consents' \in [Consents -> {"none", "active", "withdrawn", "expired"}],
         realm = "customer" => \A i \in WithStatus("active") \ S :
           consents'[row[i].consent] = "active"
  PROVE  ConsentInv'
<1>1. /\ row' \in [Items -> Rows]
      /\ \A i \in S : row'[i].status = s
      /\ \A i \in Items \ S : row'[i] = row[i]
  BY RetiringRows DEF ConsentInv
<1>2. ASSUME realm = "customer", NEW i \in Items
      PROVE  /\ row'[i].status = "pending_confirmation" => row[i].status = "pending_confirmation"
             /\ row'[i].status = "active" =>
                  row'[i].consent \in Consents /\ consents'[row'[i].consent] = "active"
  <2>1. CASE i \in S
    BY <1>1, <2>1
  <2>2. CASE i \notin S
    BY <1>1, <1>2, <2>2 DEF ConsentInv, ActiveHasConsent, WithStatus
  <2> QED
    BY <2>1, <2>2
<1> QED
  BY <1>1, <1>2, RowStep
LEMMA StoreStepKeepsConsent == ConsentInv /\ StoreStep => ConsentInv'
<1> SUFFICES ASSUME ConsentInv, StoreStep PROVE ConsentInv'
  OBVIOUS
<1>t. /\ realm \in {"customer", "workspace"} /\ row \in [Items -> Rows]
      /\ consents \in [Consents -> {"none", "active", "withdrawn", "expired"}]
      /\ NothingToConfirm /\ ActiveHasConsent /\ RowTypeInv
  BY DEF ConsentInv, RowTypeInv
<1>a. ASSUME realm = "customer", NEW i \in Items, row[i].status = "active"
      PROVE  row[i].consent \in Consents /\ consents[row[i].consent] = "active"
  BY <1>a, <1>t DEF ActiveHasConsent, WithStatus
<1>1. ASSUME NEW c \in Consents, GrantConsent(c) PROVE ConsentInv'
  <2>1. /\ consents[c] = "none" /\ consents' = [consents EXCEPT ![c] = "active"]
        /\ UNCHANGED <<realm, row, confirming>>
    BY <1>1 DEF GrantConsent, rows, desk
  <2> QED
    BY <1>a, <1>t, <2>1, RowStep
<1>2. ASSUME NEW c \in Consents, WithdrawConsent(c) PROVE ConsentInv'
  <2> DEFINE S == {i \in WithStatus("active") : row[i].consent = c}
  <2>1. /\ consents' = [consents EXCEPT ![c] = "withdrawn"] /\ Retire(S, "invalid")
        /\ UNCHANGED <<realm, confirming>> /\ S \in SUBSET Items
    BY <1>2 DEF WithdrawConsent, desk, WithStatus
  <2>2. consents' \in [Consents -> {"none", "active", "withdrawn", "expired"}]
    BY <1>t, <2>1
  <2>3. ASSUME realm = "customer", NEW i \in WithStatus("active") \ S
        PROVE  consents'[row[i].consent] = "active"
    <3>1. row[i].consent \in Consents \ {c} /\ consents[row[i].consent] = "active"
      BY <1>a, <2>3 DEF WithStatus
    <3> QED
      BY <1>t, <2>1, <3>1
  <2> HIDE DEF S
  <2> QED
    BY <2>1, <2>2, <2>3, RowsRetire
<1>3. ASSUME NEW i \in Items, NEW old \in Items \cup {NoItem}, CreateCandidate(i, old)
      PROVE  ConsentInv'
  <2> DEFINE r == [NoRow EXCEPT !.status = Draft[realm], !.version = 1, !.supersedes = old]
  <2>1. /\ row' = [row EXCEPT ![i] = r] /\ UNCHANGED <<realm, consents, confirming>>
    BY <1>3 DEF CreateCandidate, desk
  <2>2. /\ r \in Rows /\ r.status = Draft[realm] /\ Draft[realm] # "active"
        /\ realm = "customer" => Draft[realm] # "pending_confirmation"
    <3> DEFINE d == Draft[realm]
    <3>1. /\ d \in Statuses /\ d # "active"
          /\ realm = "customer" => d # "pending_confirmation"
      BY <1>t DEF Statuses, Live, Draft
    <3> HIDE DEF d
    <3>2. NoRow \in Rows
      BY DEF NoRow, Rows, Statuses
    <3>3. ASSUME NEW n \in Rows
          PROVE  /\ [n EXCEPT !.status = d, !.version = 1, !.supersedes = old] \in Rows
                 /\ [n EXCEPT !.status = d, !.version = 1, !.supersedes = old].status = d
      BY <3>1 DEF Rows
    <3>4. r \in Rows /\ r.status = d
      BY <3>2, <3>3 DEF d
    <3> QED
      BY <3>1, <3>4 DEF d
  <2> HIDE DEF r
  <2>3. row' \in [Items -> Rows] /\ row'[i] = r /\ \A j \in Items \ {i} : row'[j] = row[j]
    BY <1>t, <2>1, <2>2, OneRow
  <2> QED
    BY <1>a, <1>t, <2>1, <2>2, <2>3, RowStep
<1>4. ASSUME NEW i \in Items, NEW c \in Consents, Activate(i, c) PROVE ConsentInv'
  <2> DEFINE r == [row[i] EXCEPT !.status = "active", !.version = @ + 1, !.consent = c]
  <2>1. /\ row' = [row EXCEPT ![i] = r]
        /\ consents[c] = "active" /\ UNCHANGED <<realm, consents, confirming>>
    BY <1>4 DEF Activate, Activated, ConsentHolds, desk
  <2>2. r \in Rows /\ r.consent = c /\ r.status = "active"
    <3>1. row[i] \in Rows
      BY <1>t
    <3>2. r \in Rows /\ r.consent = c
      BY <3>1, RowsKeepShape
    <3>3. r.status = "active"
      BY <3>1 DEF Rows
    <3> QED
      BY <3>2, <3>3
  <2> HIDE DEF r
  <2>3. row' \in [Items -> Rows] /\ row'[i] = r /\ \A j \in Items \ {i} : row'[j] = row[j]
    BY <1>t, <2>1, <2>2, OneRow
  <2> QED
    BY <1>a, <1>t, <2>1, <2>2, <2>3, RowStep
<1>5. ASSUME NEW i \in Items, Confirm(i) PROVE ConsentInv'
  <2> DEFINE r == [row[i] EXCEPT !.status = "active", !.version = @ + 1, !.consent = NoConsent]
  <2>1. /\ row' = [row EXCEPT ![i] = r] /\ row[i].status = "pending_confirmation"
        /\ UNCHANGED <<realm, consents, confirming>>
    BY <1>5 DEF Confirm, Activated, desk
  <2>2. r \in Rows
    BY <1>t, RowsKeepShape
  <2> HIDE DEF r
  <2>3. row' \in [Items -> Rows]
    BY <1>t, <2>1, <2>2, OneRow
  <2>4. realm # "customer"
    BY <1>t, <2>1 DEF NothingToConfirm, WithStatus
  <2> QED
    BY <1>t, <2>1, <2>3, <2>4, RowStep
<1>6. ASSUME NEW i \in Items, NEW old \in Items, Supersede(old, i) PROVE ConsentInv'
  <2> DEFINE s == [row[old] EXCEPT !.status = "superseded", !.version = @ + 1]
             r == [status |-> "active", version |-> 1, consent |-> row[old].consent,
                   supersedes |-> old]
  <2>1. /\ realm = "customer" /\ row[old].status = "active" /\ row[i].status = "none"
        /\ row' = [row EXCEPT ![old].status = "superseded", ![old].version = @ + 1, ![i] = r]
        /\ UNCHANGED <<realm, consents, confirming>>
    BY <1>6 DEF Supersede, desk
  <2>2. row[old].consent \in Consents /\ consents[row[old].consent] = "active" /\ old # i
    BY <1>a, <2>1
  <2>3. s \in Rows /\ s.status = "superseded"
    <3>1. row[old] \in Rows /\ "superseded" \in Statuses
      BY <1>t DEF Statuses
    <3> QED
      BY <3>1, RowsKeepShape
  <2>4. r \in Rows /\ r.status = "active" /\ r.consent = row[old].consent
    BY <2>2 DEF Rows, Statuses, Live
  <2>5. row' = [[row EXCEPT ![old] = s] EXCEPT ![i] = r]
    BY <2>1
  <2> HIDE DEF s, r
  <2>6. /\ row' \in [Items -> Rows] /\ row'[i] = r /\ row'[old] = s
        /\ \A j \in Items \ {i, old} : row'[j] = row[j]
    BY <1>t, <2>2, <2>3, <2>4, <2>5
  <2>7. ASSUME NEW j \in Items
        PROVE  /\ row'[j].status = "pending_confirmation" => row[j].status = "pending_confirmation"
               /\ row'[j].status = "active" =>
                    row'[j].consent \in Consents /\ consents'[row'[j].consent] = "active"
    <3>1. CASE j = i
      BY <2>1, <2>2, <2>4, <2>6, <3>1
    <3>2. CASE j = old
      BY <2>3, <2>6, <3>2
    <3>3. CASE j \notin {i, old}
      BY <1>a, <2>1, <2>6, <3>3
    <3> QED
      BY <3>1, <3>2, <3>3
  <2> QED
    BY <1>t, <2>1, <2>6, <2>7, RowStep
<1>7. ASSUME NEW i \in Items, ConfirmRead(i) PROVE ConsentInv'
  <2>1. row[i].status = "pending_confirmation" /\ UNCHANGED <<realm, row, consents>>
    BY <1>7 DEF ConfirmRead, rows
  <2>2. realm = "workspace"
    BY <1>t, <2>1 DEF NothingToConfirm, WithStatus
  <2> QED
    BY <1>t, <2>1, <2>2 DEF ConsentInv, RowTypeInv, NothingToConfirm, ActiveHasConsent
<1>8. ASSUME ConfirmWrite PROVE ConsentInv'
  <2> DEFINE i == confirming.item
             old == row[i].supersedes
             f(j) == CASE j = old -> [row[j] EXCEPT !.status = "superseded", !.version = @ + 1]
                       [] j = i /\ StillDraft(i, confirming.version)
                            -> [row[j] EXCEPT !.status = "active", !.version = @ + 1]
                       [] OTHER -> row[j]
  <2>1. /\ confirming # NotConfirming /\ confirming' = NotConfirming
        /\ row' = [j \in Items |-> f(j)] /\ UNCHANGED <<realm, consents>>
    BY <1>8 DEF ConfirmWrite
  <2>2. realm # "customer"
    BY <1>t, <2>1 DEF NothingToConfirm
  <2>3. \A j \in Items : f(j) \in Rows
    <3> SUFFICES ASSUME NEW j \in Items PROVE f(j) \in Rows
      OBVIOUS
    <3>1. row[j] \in Rows /\ "superseded" \in Statuses /\ "active" \in Statuses
      BY <1>t DEF Statuses, Live
    <3>2. /\ [row[j] EXCEPT !.status = "superseded", !.version = @ + 1] \in Rows
          /\ [row[j] EXCEPT !.status = "active", !.version = @ + 1] \in Rows
      BY <3>1, RowsKeepShape
    <3> QED
      BY <3>1, <3>2
  <2> HIDE DEF f
  <2>4. row' \in [Items -> Rows]
    BY <2>1, <2>3
  <2> QED
    BY <1>t, <2>1, <2>2, <2>4, RowStep
<1>9. CASE ConfirmConflict
  BY <1>9, RowsRest DEF ConfirmConflict, rows
<1>10. ASSUME NEW i \in Items, Reject(i) \/ DeleteOwned(i) PROVE ConsentInv'
  <2>1. PICK s \in {"invalid", "deleted"} : Retire({i}, s)
    BY <1>10 DEF Reject, DeleteOwned
  <2>2. UNCHANGED <<realm, consents, confirming>>
    BY <1>10 DEF Reject, DeleteOwned, desk
  <2> QED
    BY <1>a, <1>t, <2>1, <2>2, RowsRetire DEF WithStatus
<1>11. CASE DeleteScope
  <2>1. Retire(Undeleted, "deleted") /\ UNCHANGED <<realm, consents, confirming>>
    BY <1>11 DEF DeleteScope, desk
  <2>2. Undeleted \in SUBSET Items
    BY DEF Undeleted
  <2> QED
    BY <1>a, <1>t, <2>1, <2>2, RowsRetire DEF WithStatus
<1>12. CASE ExpireDue
  <2> DEFINE S == {i \in WithStatus("active") : Overdue(i)}
  <2>1. /\ consents' = [c \in Consents |->
             IF consents[c] = "active" /\ c \in past THEN "expired" ELSE consents[c]]
        /\ Retire(S, "invalid") /\ UNCHANGED <<realm, confirming>> /\ S \in SUBSET Items
    BY <1>12 DEF ExpireDue, desk, WithStatus
  <2>2. consents' \in [Consents -> {"none", "active", "withdrawn", "expired"}]
    BY <1>t, <2>1
  <2>3. ASSUME realm = "customer", NEW i \in WithStatus("active") \ S
        PROVE  consents'[row[i].consent] = "active"
    <3>1. ConsentHolds(row[i].consent)
      BY <2>3 DEF Overdue
    <3> QED
      BY <2>1, <3>1 DEF ConsentHolds
  <2> HIDE DEF S
  <2> QED
    BY <2>1, <2>2, <2>3, RowsRetire
<1>13. CASE \E x \in Mortal : Lapse(x)
  BY <1>13, RowsRest DEF Lapse, rows, desk
<1> QED
  BY <1>1, <1>2, <1>3, <1>4, <1>5, <1>6, <1>7, <1>8, <1>9, <1>10, <1>11, <1>12, <1>13 DEF StoreStep

LEMMA MemoryStep == ConsentInv /\ [MemoryNext]_vars => ConsentInv'
<1> SUFFICES ASSUME ConsentInv, [MemoryNext]_vars PROVE ConsentInv'
  OBVIOUS
<1>1. CASE StoreStep
  BY <1>1, StoreStepKeepsConsent
<1>2. CASE RequestAccountDeletion \/ RunDeletion \/ StepFails
  BY <1>2, RowsRest DEF RequestAccountDeletion, RunDeletion, StepFails, rows
<1>3. CASE StepSucceeds
  <2>1. UNCHANGED <<realm, consents, confirming>>
    BY <1>3 DEF StepSucceeds
  <2>2. CASE job.at = 1
    <3>1. Retire(Undeleted, "deleted") /\ Undeleted \in SUBSET Items
      BY <1>3, <2>2 DEF StepSucceeds, Undeleted
    <3> QED
      BY <2>1, <3>1, RowsRetire DEF ConsentInv, RowTypeInv, ActiveHasConsent, WithStatus
  <2>3. CASE job.at # 1
    BY <1>3, <2>1, <2>3, RowsRest DEF StepSucceeds, rows
  <2> QED
    BY <2>2, <2>3
<1>4. ASSUME NEW w \in Workers, WorkerStep(w) PROVE ConsentInv'
  BY <1>4, RowsRest DEF WorkerStep, ClaimIndexEvent, GetIndexItem, WriteKeyword, WriteVector,
     CompleteIndexEvent, rows, desk
<1>5. ASSUME NEW w \in Workers, RetryIndexEvent(w) PROVE ConsentInv'
  BY <1>5, RowsRest DEF RetryIndexEvent, desk
<1>6. ASSUME NEW w \in Workers, Restart(w) PROVE ConsentInv'
  BY <1>6, RowsRest DEF Restart
<1>7. CASE UNCHANGED vars
  BY <1>7, RowsRest DEF vars, rows, desk
<1> QED
  BY <1>1, <1>2, <1>3, <1>4, <1>5, <1>6, <1>7 DEF MemoryNext, DeletionStep

-----------------------------------------------------------------------------
(* What is proved of memory.                                                  *)

\* Rows and consents keep to each other through every store step, worker and restart.
THEOREM MemoryInvariant == MemorySpec => []ConsentInv
BY MemoryInitial, MemoryStep, PTL DEF MemorySpec

\* What a customer withdrew, or let expire, supports no active memory, nor does a
\* correction made meanwhile carry a memory past the withdrawal.
THEOREM MemoryNeedsConsent == MemorySpec => []ActiveHasConsent
<1>1. ConsentInv => ActiveHasConsent
  BY DEF ConsentInv
<1> QED
  BY <1>1, MemoryInvariant, PTL

-----------------------------------------------------------------------------
(* MemoryStore: the outbox and the derived indexes. With one worker to drain   *)
(* it, whatever the outbox has completed is what the indexes hold.             *)

OneWorker == \A w, v \in Workers : w = v
EventStatuses == {"pending", "processing", "retry_wait", "completed", "dead_letter"}
IndexEvents == [item : Items, kind : {"upsert", "delete"}, version : Nat, status : EventStatuses,
                attempts : Nat]
WorkerStates == [at : {"idle", "read", "keyword", "vector", "complete"}, event : Nat,
                 kind : {"none", "upsert", "delete"}]
Jobs == [status : {"none", "pending", "retry_wait", "completed"}, ids : SUBSET Items,
         saved : 0..3, at : 0..3]
Retired == {"superseded", "invalid", "deleted"}
Writing == {"keyword", "vector", "complete"}

OutboxTypeInv ==
  /\ events \in Seq(IndexEvents) /\ worker \in [Workers -> WorkerStates]
  /\ keyword \subseteq Items /\ vector \subseteq Items /\ job \in Jobs
  /\ confirming = NotConfirming \/ confirming \in [item : Items, version : Nat, oldVersion : Nat]

\* No event is of a version its row has not reached, and a delete event is never
\* wrong: what was retired is not active again.
EventsInv ==
  \A k \in DOMAIN events :
    /\ events[k].version <= row[events[k].item].version /\ row[events[k].item].status # "none"
    /\ events[k].kind = "delete" => row[events[k].item].status \in Retired

\* The row that is read before a correction is that row until its version moves.
ConfirmingInv ==
  /\ \A i \in Items : row[i].supersedes # i
  /\ confirming # NotConfirming =>
       LET i == confirming.item
       IN /\ row[i].supersedes \in Items /\ row[i].status # "none"
          /\ confirming.version <= row[i].version
          /\ row[i].version = confirming.version => row[i].status = "pending_confirmation"

WorkInv ==
  \A w \in Workers :
    /\ worker[w].at # "idle" => worker[w].event \in DOMAIN events /\ InHand(w).status = "processing"
    /\ worker[w].at \in Writing => worker[w].kind \in {"upsert", "delete"}

\* The memory a worker is writing to the indexes; it does not look at the row again.
Holding(w, i) == worker[w].at \in Writing /\ InHand(w).item = i
Held(k) == \E w \in Workers : worker[w].at \in Writing /\ worker[w].event = k
\* Somebody has yet to read the row of i for an event.
Settling(i) ==
  \E k \in DOMAIN events : events[k].item = i /\ events[k].status # "completed" /\ ~Held(k)
Fresh(i, found) == (Recallable(i) => found) /\ (row[i].status # "active" => ~found)
\* Otherwise the indexes are right, or what is being written to them is.
Settled(i) ==
  /\ (\A w \in Workers : ~Holding(w, i)) => Fresh(i, i \in keyword) /\ Fresh(i, i \in vector)
  /\ \A w \in Workers : Holding(w, i) =>
       /\ Fresh(i, worker[w].kind = "upsert")
       /\ worker[w].at \in {"vector", "complete"} => (i \in keyword <=> worker[w].kind = "upsert")
       /\ worker[w].at = "complete" => (i \in vector <=> worker[w].kind = "upsert")
SettledInv == \A i \in Items : Settling(i) \/ Settled(i)

\* What the deletion job has done of each memory it names.
Gone(i) ==
  /\ row[i].status = "deleted" /\ i \notin keyword \cup vector
  /\ \A w \in Workers : Holding(w, i) => worker[w].kind = "delete"
JobInv ==
  /\ job.status = "none" => job.at = 0 /\ job.saved = 0
  /\ (job.status = "completed" <=> job.saved = 3) /\ (job.status = "completed" => job.at = 0)
  /\ job.status # "none" => \A i \in job.ids : row[i].status # "none"
  /\ job.at >= 2 \/ job.saved >= 1 => \A i \in job.ids : row[i].status = "deleted"
  /\ job.at >= 3 \/ job.saved >= 2 => \A i \in job.ids : Gone(i)

OutboxInv ==
  ConsentInv /\ OutboxTypeInv /\ EventsInv /\ ConfirmingInv /\ WorkInv /\ SettledInv /\ JobInv

-----------------------------------------------------------------------------
(* The queue grows at its end, by the events that it does not know.            *)

Grown(S) ==
  /\ events' \in Seq(IndexEvents) /\ DOMAIN events \subseteq DOMAIN events'
  /\ \A k \in DOMAIN events : events'[k] = events[k]
  /\ \A k \in DOMAIN events' \ DOMAIN events : events'[k] \in S
  /\ \A e \in S : Queued(events, e) \/ \E k \in DOMAIN events' \ DOMAIN events : events'[k] = e

LEMMA QueueGrows ==
  ASSUME events \in Seq(IndexEvents), NEW S \in SUBSET IndexEvents, IsFiniteSet(S),
         events' \in Enqueue(events, S)
  PROVE  Grown(S)
<1> DEFINE T == {e \in S : ~Queued(events, e)}
<1>1. IsFiniteSet(T) /\ T \subseteq IndexEvents /\ T \subseteq S
  BY FS_Subset
<1>2. \A e \in S : Queued(events, e) \/ e \in T
  OBVIOUS
<1>3. PICK s \in SetToSeqs(T) : events' = events \o s
  BY DEF Enqueue, Queues
<1> HIDE DEF T
<1> DEFINE n == Cardinality(T)
<1>4. n \in Nat /\ IsFiniteSet(1..n) /\ Cardinality(1..n) = n
  <2>1. n \in Nat
    BY <1>1, FS_CardinalityType
  <2>2. 1 \in Int /\ n \in Int
    BY <2>1
  <2>3. IsFiniteSet(1..n) /\ Cardinality(1..n) = IF 1 > n THEN 0 ELSE n - 1 + 1
    BY <2>2, FS_Interval
  <2> HIDE DEF n
  <2> QED
    BY <2>1, <2>3
<1>5. s \in [1..n -> T] /\ \A i, j \in 1..n : i # j => s[i] # s[j]
  BY <1>3 DEF SetToSeqs
<1>6. s \in Surjection(1..n, T)
  <2>1. s \in Injection(1..n, T)
    BY <1>5 DEF Injection, IsInjective
  <2> QED
    BY <1>1, <1>4, <2>1, FS_Injection
<1>7. \A e \in T : \E k \in 1..n : s[k] = e
  BY <1>6 DEF Surjection
<1> HIDE DEF n
<1>8. s \in Seq(IndexEvents) /\ Len(s) = n /\ DOMAIN s = 1..n
  BY <1>1, <1>4, <1>5
<1>9. /\ events' \in Seq(IndexEvents) /\ Len(events') = Len(events) + n
      /\ \A k \in 1..Len(events) : events'[k] = events[k]
      /\ \A k \in 1..n : events'[Len(events) + k] = s[k]
  <2>1. \A q, t \in Seq(IndexEvents) :
          /\ q \o t \in Seq(IndexEvents) /\ Len(q \o t) = Len(q) + Len(t)
          /\ \A k \in 1..Len(q) : (q \o t)[k] = q[k]
          /\ \A k \in 1..Len(t) : (q \o t)[Len(q) + k] = t[k]
    OBVIOUS
  <2>2. /\ events \o s \in Seq(IndexEvents) /\ Len(events \o s) = Len(events) + Len(s)
        /\ \A k \in 1..Len(events) : (events \o s)[k] = events[k]
        /\ \A k \in 1..Len(s) : (events \o s)[Len(events) + k] = s[k]
    BY <1>8, <2>1
  <2> QED
    BY <1>3, <1>8, <2>2
<1>10. Len(events) \in Nat /\ DOMAIN events = 1..Len(events) /\ DOMAIN events' = 1..(Len(events) + n)
  BY <1>9
<1>11. \A k \in DOMAIN events' \ DOMAIN events : k - Len(events) \in 1..n /\ k = Len(events) + (k - Len(events))
  BY <1>4, <1>10
<1>12. \A k \in DOMAIN events' \ DOMAIN events : events'[k] \in S
  BY <1>1, <1>5, <1>9, <1>11
<1>13. \A k \in 1..n : Len(events) + k \in DOMAIN events' \ DOMAIN events
  BY <1>4, <1>10
<1>14. ASSUME NEW e \in T PROVE \E k \in DOMAIN events' \ DOMAIN events : events'[k] = e
  BY <1>7, <1>9, <1>13
<1>15. DOMAIN events \subseteq DOMAIN events'
  BY <1>4, <1>10
<1> QED
  BY <1>2, <1>9, <1>10, <1>12, <1>14, <1>15 DEF Grown

\* The events of one kind for the memories of a set.
LEMMA EventsFor ==
  ASSUME NEW S \in SUBSET Items, NEW kind \in {"upsert", "delete"}, NEW v \in [Items -> Nat]
  PROVE  LET E == {Event(i, kind, v[i]) : i \in S}
         IN  IsFiniteSet(E) /\ E \subseteq IndexEvents
<1> DEFINE E == {Event(i, kind, v[i]) : i \in S}
           f == [i \in S |-> Event(i, kind, v[i])]
<1>1. IsFiniteSet(S)
  BY MemoryAssumption, FS_Subset
<1>2. f \in Surjection(S, E)
  BY DEF Surjection
<1>3. IsFiniteSet(E)
  BY <1>1, <1>2, FS_Surjection
<1>4. \A i \in S : Event(i, kind, v[i]) \in IndexEvents
  BY DEF Event, IndexEvents, EventStatuses
<1> QED
  BY <1>3, <1>4

-----------------------------------------------------------------------------
(* Store steps: rows move, and what they come to be is announced.              *)

\* What no step does to a row: it is not forgotten, revived, or changed unversioned.
RowMoves(i) ==
  /\ row[i].status # "none" =>
       /\ row'[i].status # "none" /\ row'[i].supersedes = row[i].supersedes
       /\ row[i].version <= row'[i].version
       /\ row'[i].version = row[i].version => row'[i].status = row[i].status
  /\ row'[i].supersedes # i
  /\ row[i].status \in Retired => row'[i].status \in Retired
  /\ row[i].status = "deleted" => row'[i].status = "deleted"
\* What a memory gains or loses for the indexes is in a new event.
Announced(S, i) ==
  \/ \E e \in S : e.item = i /\ ~Queued(events, e)
  \/ /\ Recallable(i)' => Recallable(i)
     /\ row'[i].status # "active" => row[i].status # "active"
Justified(e) ==
  /\ e.status = "pending" /\ e.version <= row'[e.item].version /\ row'[e.item].status # "none"
  /\ e.kind = "delete" => row'[e.item].status \in Retired
JobMoves ==
  \/ job' \in {job, [job EXCEPT !.at = 0]}
  \/ /\ job.at = 1 /\ job' = [job EXCEPT !.at = 2]
     /\ \A i \in job.ids : row'[i].status = "deleted"

LEMMA StoreMoves ==
  ASSUME OneWorker, OutboxInv, NEW S \in SUBSET IndexEvents, Grown(S), ConsentInv',
         UNCHANGED <<keyword, vector>>, confirming' \in {confirming, NotConfirming}, JobMoves,
         worker' \in [Workers -> WorkerStates],
         \A w \in Workers : worker'[w] = worker[w] \/ worker'[w].at = "idle",
         \A i \in Items : RowMoves(i) /\ Announced(S, i),
         \A e \in S : Justified(e)
  PROVE  OutboxInv'
<1>t. /\ row \in [Items -> Rows] /\ row' \in [Items -> Rows]
      /\ events \in Seq(IndexEvents) /\ events' \in Seq(IndexEvents)
      /\ \A k \in DOMAIN events : events[k] \in IndexEvents /\ events[k].item \in Items
      /\ \A k \in DOMAIN events' : events'[k] \in IndexEvents /\ events'[k].item \in Items
      /\ worker \in [Workers -> WorkerStates] /\ job \in Jobs
      /\ EventsInv /\ ConfirmingInv /\ WorkInv /\ SettledInv /\ JobInv
  <2>1. events \in Seq(IndexEvents) /\ events' \in Seq(IndexEvents)
    BY DEF OutboxInv, OutboxTypeInv, Grown
  <2>2. \A q \in Seq(IndexEvents) : \A k \in DOMAIN q : q[k] \in IndexEvents
    OBVIOUS
  <2>3. \A e \in IndexEvents : e.item \in Items
    BY DEF IndexEvents
  <2> QED
    BY <2>1, <2>2, <2>3 DEF OutboxInv, OutboxTypeInv, ConsentInv, RowTypeInv
<1>g. /\ DOMAIN events \subseteq DOMAIN events'
      /\ \A k \in DOMAIN events : events'[k] = events[k]
      /\ \A k \in DOMAIN events' \ DOMAIN events : events'[k] \in S
      /\ \A e \in S : Queued(events, e) \/ \E k \in DOMAIN events' \ DOMAIN events : events'[k] = e
  BY DEF Grown
<1>v. \A i \in Items : row[i].version \in Nat /\ row'[i].version \in Nat
  BY <1>t DEF Rows
<1>1. OutboxTypeInv'
  <2>1. job' \in Jobs
    BY <1>t DEF JobMoves, Jobs
  <2> QED
    BY <1>t, <2>1 DEF OutboxInv, OutboxTypeInv
<1>2. EventsInv'
  <2> SUFFICES ASSUME NEW k \in DOMAIN events'
               PROVE  /\ events'[k].version <= row'[events'[k].item].version
                      /\ row'[events'[k].item].status # "none"
                      /\ events'[k].kind = "delete" => row'[events'[k].item].status \in Retired
    BY DEF EventsInv
  <2>1. CASE k \in DOMAIN events
    <3> DEFINE e == events[k]
               i == events[k].item
    <3>1. e.version <= row[i].version /\ row[i].status # "none"
          /\ (e.kind = "delete" => row[i].status \in Retired)
      BY <1>t, <2>1 DEF EventsInv
    <3>2. i \in Items /\ e.version \in Nat
      BY <1>t, <2>1 DEF IndexEvents
    <3>3. row[i].version <= row'[i].version /\ row'[i].status # "none"
          /\ (row[i].status \in Retired => row'[i].status \in Retired)
      BY <3>1, <3>2 DEF RowMoves
    <3>4. events'[k] = e
      BY <1>g, <2>1
    <3> HIDE DEF e, i
    <3>5. e.version <= row'[i].version
      BY <1>v, <3>1, <3>2, <3>3
    <3> QED
      BY <3>1, <3>3, <3>4, <3>5 DEF e, i
  <2>2. CASE k \notin DOMAIN events
    BY <1>g, <2>2 DEF Justified
  <2> QED
    BY <2>1, <2>2
<1>3. ConfirmingInv'
  <2>1. \A i \in Items : row'[i].supersedes # i
    BY DEF RowMoves
  <2>2. ASSUME confirming' # NotConfirming
        PROVE  LET i == confirming.item
               IN  /\ confirming' = confirming
                   /\ row'[i].supersedes \in Items /\ row'[i].status # "none"
                   /\ confirming.version <= row'[i].version
                   /\ row'[i].version = confirming.version => row'[i].status = "pending_confirmation"
    <3> DEFINE i == confirming.item
               v == confirming.version
    <3>1. /\ confirming' = confirming /\ confirming # NotConfirming
          /\ i \in Items /\ v \in Nat
      BY <2>2 DEF OutboxInv, OutboxTypeInv
    <3>2. /\ row[i].supersedes \in Items /\ row[i].status # "none" /\ v <= row[i].version
          /\ row[i].version = v => row[i].status = "pending_confirmation"
      BY <1>t, <3>1 DEF ConfirmingInv
    <3>3. /\ row'[i].status # "none" /\ row'[i].supersedes = row[i].supersedes
          /\ row[i].version <= row'[i].version
          /\ row'[i].version = row[i].version => row'[i].status = row[i].status
      BY <3>1, <3>2 DEF RowMoves
    <3> HIDE DEF i, v
    <3>4. v <= row'[i].version /\ (row'[i].version = v => row'[i].status = "pending_confirmation")
      BY <1>v, <3>1, <3>2, <3>3
    <3> QED
      BY <3>1, <3>2, <3>3, <3>4 DEF i, v
  <2> QED
    BY <2>1, <2>2 DEF ConfirmingInv
<1>w. \A w \in Workers : /\ worker'[w] = worker[w] \/ worker'[w].at = "idle"
                         /\ worker[w].at # "idle" => InHand(w)' = events'[worker'[w].event]
                         /\ worker'[w].at # "idle" =>
                              worker'[w] = worker[w] /\ InHand(w)' = InHand(w) /\ worker[w].event \in DOMAIN events
  BY <1>t, <1>g DEF WorkInv, InHand
<1>4. WorkInv'
  BY <1>t, <1>g, <1>w DEF WorkInv, Writing
<1>h. /\ \A w \in Workers, i \in Items : Holding(w, i)' => Holding(w, i) /\ worker'[w] = worker[w]
      /\ \A k : Held(k)' => Held(k)
  BY <1>w DEF Holding, Held, Writing
<1>5. SettledInv'
  <2> SUFFICES ASSUME NEW i \in Items, ~Settling(i)' PROVE Settled(i)'
    BY DEF SettledInv
  <2>1. \A k \in DOMAIN events' : events'[k].item # i \/ events'[k].status = "completed" \/ Held(k)'
    BY DEF Settling
  <2>2. ~Settling(i)
    BY <1>g, <1>h, <2>1 DEF Settling
  <2>3. /\ Recallable(i)' => Recallable(i)
        /\ row'[i].status # "active" => row[i].status # "active"
    <3>1. SUFFICES ASSUME NEW e \in S, e.item = i, ~Queued(events, e) PROVE FALSE
      BY DEF Announced
    <3>2. PICK k \in DOMAIN events' \ DOMAIN events : events'[k] = e
      BY <1>g, <3>1
    <3>3. e.status = "pending"
      BY DEF Justified
    <3>4. Held(k)
      BY <1>h, <2>1, <3>1, <3>2, <3>3
    <3> QED
      BY <1>t, <3>2, <3>4 DEF Held, WorkInv, Writing
  <2>4. \A found \in BOOLEAN : Fresh(i, found) => Fresh(i, found)'
    BY <2>3 DEF Fresh
  <2>5. Settled(i)
    BY <1>t, <2>2 DEF SettledInv
  <2>6. ASSUME NEW w \in Workers, Holding(w, i) PROVE worker'[w] = worker[w]
    <3>1. SUFFICES ASSUME worker'[w].at = "idle" PROVE FALSE
      BY <1>w
    <3>2. worker[w].event \in DOMAIN events /\ events[worker[w].event].status = "processing"
          /\ events[worker[w].event].item = i
      BY <1>t, <2>6 DEF Holding, WorkInv, InHand, Writing
    <3> DEFINE k == worker[w].event
    <3>3. k \in DOMAIN events' /\ events'[k].item = i /\ events'[k].status = "processing"
      BY <1>g, <3>2
    <3>4. \E u \in Workers : worker'[u].at \in Writing
      BY <2>1, <3>3 DEF Held
    <3> QED
      BY <3>1, <3>4 DEF OneWorker, Writing
  <2>7. \A w \in Workers : Holding(w, i) => Holding(w, i)'
    BY <1>w, <2>6 DEF Holding, Writing
  <2>8. (i \in keyword) \in BOOLEAN /\ (i \in vector) \in BOOLEAN
        /\ \A w \in Workers : (worker[w].kind = "upsert") \in BOOLEAN
    OBVIOUS
  <2>9. (\A w \in Workers : ~Holding(w, i)') => Fresh(i, i \in keyword)' /\ Fresh(i, i \in vector)'
    <3>1. (\A w \in Workers : ~Holding(w, i)') => Fresh(i, i \in keyword) /\ Fresh(i, i \in vector)
      BY <2>5, <2>7 DEF Settled
    <3> QED
      BY <2>3, <3>1 DEF Fresh
  <2>10. ASSUME NEW w \in Workers, Holding(w, i)'
         PROVE  /\ Fresh(i, worker[w].kind = "upsert")'
                /\ worker'[w].at \in {"vector", "complete"} => (i \in keyword' <=> worker'[w].kind = "upsert")
                /\ worker'[w].at = "complete" => (i \in vector' <=> worker'[w].kind = "upsert")
    <3>1. Holding(w, i) /\ worker'[w] = worker[w]
      BY <1>h, <2>10
    <3>2. /\ Fresh(i, worker[w].kind = "upsert")
          /\ worker[w].at \in {"vector", "complete"} => (i \in keyword <=> worker[w].kind = "upsert")
          /\ worker[w].at = "complete" => (i \in vector <=> worker[w].kind = "upsert")
      BY <2>5, <3>1 DEF Settled
    <3> QED
      BY <2>3, <3>1, <3>2 DEF Fresh
  <2> QED
    BY <2>9, <2>10 DEF Settled
<1>6. \A i \in Items : Gone(i) => Gone(i)'
  BY <1>h DEF Gone, RowMoves
<1>7. JobInv'
  <2>1. /\ job.ids \subseteq Items /\ job'.ids = job.ids /\ job'.status = job.status
        /\ job'.saved = job.saved /\ (job'.at = job.at \/ job'.at = 0 \/ (job'.at = 2 /\ job.at = 1))
        /\ job'.at = 2 /\ job.at = 1 => \A i \in job.ids : row'[i].status = "deleted"
    BY <1>t DEF JobMoves, Jobs
  <2>2. /\ job.status = "none" => job.at = 0 /\ job.saved = 0
        /\ (job.status = "completed" <=> job.saved = 3) /\ (job.status = "completed" => job.at = 0)
        /\ job.status # "none" => \A i \in job.ids : row[i].status # "none"
        /\ job.at >= 2 \/ job.saved >= 1 => \A i \in job.ids : row[i].status = "deleted"
        /\ job.at >= 3 \/ job.saved >= 2 => \A i \in job.ids : Gone(i)
    BY <1>t DEF JobInv
  <2>3. /\ job'.status = "none" => job'.at = 0 /\ job'.saved = 0
        /\ (job'.status = "completed" <=> job'.saved = 3) /\ (job'.status = "completed" => job'.at = 0)
    BY <2>1, <2>2
  <2>4. \A i \in job.ids : /\ row[i].status # "none" => row'[i].status # "none"
                           /\ row[i].status = "deleted" => row'[i].status = "deleted"
    BY <2>1 DEF RowMoves
  <2>5. job'.status # "none" => \A i \in job'.ids : row'[i].status # "none"
    BY <2>1, <2>2, <2>4
  <2>6. job'.at >= 2 \/ job'.saved >= 1 => \A i \in job'.ids : row'[i].status = "deleted"
    BY <1>t, <2>1, <2>2, <2>4 DEF Jobs
  <2>7. job'.at >= 3 \/ job'.saved >= 2 => \A i \in job'.ids : Gone(i)'
    <3>1. job'.at >= 3 => job.at >= 3
      BY <1>t, <2>1 DEF Jobs
    <3> QED
      BY <1>6, <2>1, <2>2, <3>1
  <2> QED
    BY <2>3, <2>5, <2>6, <2>7 DEF JobInv
<1> QED
  BY <1>1, <1>2, <1>3, <1>4, <1>5, <1>7 DEF OutboxInv

\* A step that leaves the rows and the queue, and no memory becomes recallable.
LEMMA OutboxShape ==
  ASSUME OutboxInv
  PROVE  /\ row \in [Items -> Rows] /\ consents \in [Consents -> {"none", "active", "withdrawn", "expired"}]
         /\ \A i \in Items : row[i].version \in Nat /\ row[i].supersedes \in Items \cup {NoItem}
         /\ \A i \in Items : row[i].supersedes # i
         /\ events \in Seq(IndexEvents) /\ worker \in [Workers -> WorkerStates] /\ job \in Jobs
         /\ \A k \in DOMAIN events : events[k] \in IndexEvents /\ events[k].item \in Items
<1>1. \A q \in Seq(IndexEvents) : \A k \in DOMAIN q : q[k] \in IndexEvents
  OBVIOUS
<1>2. \A e \in IndexEvents : e.item \in Items
  BY DEF IndexEvents
<1>3. row \in [Items -> Rows] /\ \A r \in Rows : r.version \in Nat /\ r.supersedes \in Items \cup {NoItem}
  BY DEF Rows, OutboxInv, ConsentInv, RowTypeInv
<1> QED
  BY <1>1, <1>2, <1>3 DEF OutboxInv, OutboxTypeInv, ConsentInv, RowTypeInv, ConfirmingInv

LEMMA NothingGrows ==
  ASSUME OutboxInv, events' = events
  PROVE  Grown({}) /\ {} \in SUBSET IndexEvents
BY OutboxShape DEF Grown

\* The id of an event of a version to come is not in the queue.
LEMMA NewIsNotQueued ==
  ASSUME OutboxInv, NEW i \in Items, NEW kind, NEW v \in Nat,
         v > row[i].version \/ row[i].status = "none"
  PROVE  ~Queued(events, Event(i, kind, v))
<1> SUFFICES ASSUME Queued(events, Event(i, kind, v)) PROVE FALSE
  OBVIOUS
<1>1. PICK k \in DOMAIN events : [events[k] EXCEPT !.status = "pending", !.attempts = 0] = Event(i, kind, v)
  BY DEF Queued
<1>2. events[k] \in IndexEvents
  BY OutboxShape
<1>3. \A e \in IndexEvents : LET f == [e EXCEPT !.status = "pending", !.attempts = 0]
                             IN  f.item = e.item /\ f.version = e.version
  BY DEF IndexEvents
<1>4. Event(i, kind, v).item = i /\ Event(i, kind, v).version = v
  BY DEF Event
<1>5. events[k].item = i /\ events[k].version = v
  BY <1>1, <1>2, <1>3, <1>4
<1>6. v <= row[i].version /\ row[i].status # "none"
  BY <1>5 DEF OutboxInv, EventsInv
<1>7. row[i].version \in Nat
  BY OutboxShape
<1> QED
  BY <1>6, <1>7

LEMMA RowFields ==
  ASSUME NEW r \in Rows, NEW s \in Statuses
  PROVE  LET q == [r EXCEPT !.status = s, !.version = @ + 1]
         IN  q.status = s /\ q.version = r.version + 1 /\ q.supersedes = r.supersedes /\ q.consent = r.consent
BY DEF Rows

LEMMA EventIs ==
  ASSUME NEW i, NEW kind, NEW v
  PROVE  /\ Event(i, kind, v).item = i /\ Event(i, kind, v).kind = kind /\ Event(i, kind, v).version = v
         /\ Event(i, kind, v).status = "pending"
BY DEF Event

LEMMA RecallableStays ==
  ASSUME NEW i, row'[i] = row[i], realm' = realm, past \subseteq past',
         \A c \in Consents : consents'[c] = "active" => consents[c] = "active"
  PROVE  Recallable(i)' => Recallable(i)
BY DEF Recallable, Overdue, ConsentHolds

LEMMA RowRests ==
  ASSUME OutboxInv, NEW i \in Items, row'[i] = row[i]
  PROVE  RowMoves(i)
BY OutboxShape DEF RowMoves

LEMMA NotActive ==
  ASSUME NEW i, row'[i].status # "active"
  PROVE  ~Recallable(i)'
BY DEF Recallable

\* Rows that retire with the events that say so.
LEMMA RetireMoves ==
  ASSUME OutboxInv, NEW S \in SUBSET Items, NEW s \in {"invalid", "deleted"}, Retire(S, s),
         \A i \in S : row[i].status \notin {"none", "deleted"},
         realm' = realm, past' = past,
         \A c \in Consents : consents'[c] = "active" => consents[c] = "active"
  PROVE  LET E == {Event(i, "delete", row[i].version + 1) : i \in S}
         IN  /\ E \in SUBSET IndexEvents /\ Grown(E)
             /\ \A i \in Items : RowMoves(i) /\ Announced(E, i)
             /\ \A e \in E : Justified(e)
             /\ \A i \in S : row'[i].status = s
<1> DEFINE v == [i \in Items |-> row[i].version + 1]
           E == {Event(i, "delete", v[i]) : i \in S}
<1>1. /\ row \in [Items -> Rows] /\ \A i \in Items : row[i].version \in Nat
      /\ \A i \in Items : row[i].supersedes # i
      /\ events \in Seq(IndexEvents)
  BY OutboxShape
<1>2. v \in [Items -> Nat] /\ \A i \in Items : v[i] = row[i].version + 1
  BY <1>1
<1>3. {Event(i, "delete", row[i].version + 1) : i \in S} = E
  BY <1>2
<1> HIDE DEF v
<1>4. IsFiniteSet(E) /\ E \subseteq IndexEvents
  BY <1>2, EventsFor
<1>5. events' \in Enqueue(events, E) /\ Grown(E)
  BY <1>1, <1>3, <1>4, QueueGrows DEF Retire
<1>6. s \in Statuses /\ s \in Retired /\ s # "active" /\ s # "none"
  BY DEF Statuses, Retired
<1>7. /\ \A i \in S : row'[i] = [row[i] EXCEPT !.status = s, !.version = @ + 1]
      /\ \A i \in Items \ S : row'[i] = row[i]
  BY DEF Retire
<1>8. \A i \in S : /\ row'[i].status = s /\ row'[i].version = row[i].version + 1
                   /\ row'[i].supersedes = row[i].supersedes
  <2> SUFFICES ASSUME NEW i \in S
               PROVE  /\ row'[i].status = s /\ row'[i].version = row[i].version + 1
                      /\ row'[i].supersedes = row[i].supersedes
    OBVIOUS
  <2> DEFINE q == [row[i] EXCEPT !.status = s, !.version = @ + 1]
  <2>1. row[i] \in Rows
    BY <1>1
  <2>2. q.status = s /\ q.version = row[i].version + 1 /\ q.supersedes = row[i].supersedes
    BY <1>6, <2>1, RowFields
  <2>3. row'[i] = q
    BY <1>7
  <2> HIDE DEF q
  <2> QED
    BY <2>2, <2>3
<1>9. ASSUME NEW i \in S PROVE RowMoves(i) /\ Announced(E, i) /\ Justified(Event(i, "delete", v[i]))
  <2>1. RowMoves(i)
    BY <1>1, <1>6, <1>8 DEF RowMoves
  <2>2. ~Queued(events, Event(i, "delete", v[i]))
    BY <1>1, <1>2, NewIsNotQueued
  <2>3. Event(i, "delete", v[i]) \in E /\ Event(i, "delete", v[i]).item = i
    BY EventIs
  <2>4. Justified(Event(i, "delete", v[i]))
    BY <1>1, <1>2, <1>6, <1>8, EventIs DEF Justified
  <2> QED
    BY <2>1, <2>2, <2>3, <2>4 DEF Announced
<1>10. ASSUME NEW i \in Items \ S PROVE RowMoves(i) /\ Announced(E, i)
  <2>1. row'[i] = row[i]
    BY <1>7
  <2> QED
    BY <2>1, RowRests, RecallableStays DEF Announced
<1> QED
  BY <1>3, <1>4, <1>5, <1>8, <1>9, <1>10

\* A step of the store that leaves the workers and the job alone.
LEMMA StoreOnly ==
  ASSUME OneWorker, OutboxInv, NEW S \in SUBSET IndexEvents, Grown(S), StoreStep,
         UNCHANGED <<indexes, worker, job>>, confirming' \in {confirming, NotConfirming},
         \A i \in Items : RowMoves(i) /\ Announced(S, i),
         \A e \in S : Justified(e)
  PROVE  OutboxInv'
<1>1. ConsentInv'
  BY StoreStepKeepsConsent DEF OutboxInv
<1>2. UNCHANGED <<keyword, vector>> /\ worker' = worker /\ JobMoves
  BY DEF indexes, JobMoves
<1>3. worker' \in [Workers -> WorkerStates]
  BY <1>2, OutboxShape
<1> QED
  BY <1>1, <1>2, <1>3, StoreMoves

\* Memories are retired, with whatever happens to their consents.
LEMMA StoreRetires ==
  ASSUME OneWorker, OutboxInv, StoreStep, NEW S \in SUBSET Items, NEW s \in {"invalid", "deleted"},
         Retire(S, s), \A i \in S : row[i].status \notin {"none", "deleted"},
         UNCHANGED <<realm, past, indexes, worker, desk>>,
         \A c \in Consents : consents'[c] = "active" => consents[c] = "active"
  PROVE  OutboxInv'
<1> DEFINE E == {Event(i, "delete", row[i].version + 1) : i \in S}
<1>1. realm' = realm /\ past' = past /\ job' = job /\ confirming' = confirming
  BY DEF desk
<1>2. /\ E \in SUBSET IndexEvents /\ Grown(E)
      /\ \A i \in Items : RowMoves(i) /\ Announced(E, i)
      /\ \A e \in E : Justified(e)
  BY <1>1, RetireMoves
<1> HIDE DEF E
<1> QED
  BY <1>1, <1>2, StoreOnly

\* A memory that becomes active is announced as it will be found.
LEMMA ActivationMoves ==
  ASSUME OneWorker, OutboxInv, StoreStep, NEW i \in Items, NEW c \in Consents \cup {NoConsent},
         row[i].status \in {"pending_consent", "pending_confirmation"}, Activated(i, c),
         UNCHANGED <<realm, consents, past, indexes, worker, desk>>
  PROVE  OutboxInv'
<1> DEFINE e == Event(i, "upsert", row[i].version + 1)
           r == [row[i] EXCEPT !.status = "active", !.version = @ + 1, !.consent = c]
<1>1. /\ row \in [Items -> Rows] /\ row[i].version \in Nat /\ row[i].supersedes # i
      /\ events \in Seq(IndexEvents)
  BY OutboxShape
<1>2. row' = [row EXCEPT ![i] = r] /\ events' \in Enqueue(events, {e})
  BY DEF Activated
<1>3. r.status = "active" /\ r.version = row[i].version + 1 /\ r.supersedes = row[i].supersedes
  <2>1. \A q \in Rows : LET p == [q EXCEPT !.status = "active", !.version = @ + 1, !.consent = c]
                        IN  p.status = "active" /\ p.version = q.version + 1 /\ p.supersedes = q.supersedes
    BY DEF Rows
  <2> QED
    BY <1>1, <2>1
<1> HIDE DEF r
<1>4. row'[i] = r /\ \A j \in Items \ {i} : row'[j] = row[j]
  BY <1>1, <1>2
<1>5. e \in IndexEvents /\ IsFiniteSet({e})
  <2>1. e \in IndexEvents
    BY <1>1 DEF Event, IndexEvents, EventStatuses
  <2> QED
    BY <2>1, FS_Singleton
<1>6. e.item = i /\ e.kind = "upsert" /\ e.version = row[i].version + 1 /\ e.status = "pending"
  BY EventIs
<1>7. ~Queued(events, e)
  BY <1>1, NewIsNotQueued
<1> HIDE DEF e
<1>8. {e} \in SUBSET IndexEvents /\ Grown({e})
  BY <1>1, <1>2, <1>5, QueueGrows
<1>9. Justified(e)
  BY <1>1, <1>3, <1>4, <1>6 DEF Justified
<1>10. RowMoves(i) /\ Announced({e}, i)
  BY <1>1, <1>3, <1>4, <1>6, <1>7 DEF RowMoves, Announced, Retired
<1>11. \A j \in Items \ {i} : RowMoves(j) /\ Announced({e}, j)
  BY <1>4, RowRests, RecallableStays DEF Announced
<1>12. job' = job /\ confirming' = confirming
  BY DEF desk
<1> QED
  BY <1>8, <1>9, <1>10, <1>11, <1>12, StoreOnly

\* A memory takes the place of another, in one transaction.
LEMMA ReplacementMoves ==
  ASSUME OneWorker, OutboxInv, StoreStep, NEW i \in Items, NEW old \in Items, NEW v \in Nat, i # old,
         row[old].status = "active",
         row'[old].status = "superseded", row'[old].version = row[old].version + 1,
         row'[old].supersedes = row[old].supersedes,
         \A j \in Items \ {i, old} : row'[j] = row[j],
         RowMoves(i), v <= row'[i].version, row'[i].status # "none",
         \/ v > row[i].version \/ row[i].status = "none"
         \/ row'[i] = row[i],
         events' \in Enqueue(events, {Event(old, "delete", row[old].version + 1), Event(i, "upsert", v)}),
         realm' = realm, consents' = consents, past \subseteq past',
         UNCHANGED <<indexes, worker, job>>, confirming' \in {confirming, NotConfirming}
  PROVE  OutboxInv'
<1> DEFINE d == Event(old, "delete", row[old].version + 1)
           u == Event(i, "upsert", v)
<1>1. /\ row \in [Items -> Rows] /\ row[old].version \in Nat /\ row[old].supersedes # old
      /\ events \in Seq(IndexEvents)
  BY OutboxShape
<1>2. {d, u} \in SUBSET IndexEvents /\ IsFiniteSet({d, u})
  <2>1. d \in IndexEvents /\ u \in IndexEvents
    BY <1>1 DEF Event, IndexEvents, EventStatuses
  <2>2. IsFiniteSet({d}) /\ {d, u} = {d} \cup {u}
    BY FS_Singleton
  <2>3. IsFiniteSet({d} \cup {u})
    BY <2>2, FS_AddElement
  <2> QED
    BY <2>1, <2>2, <2>3
<1>3. Grown({d, u})
  BY <1>1, <1>2, QueueGrows
<1>4. /\ d.item = old /\ d.kind = "delete" /\ d.version = row[old].version + 1 /\ d.status = "pending"
      /\ u.item = i /\ u.kind = "upsert" /\ u.version = v /\ u.status = "pending"
  BY EventIs
<1>5. ~Queued(events, d)
  BY <1>1, NewIsNotQueued
<1>6. row'[i] = row[i] \/ ~Queued(events, u)
  BY NewIsNotQueued
<1> HIDE DEF d, u
<1>7. Justified(d) /\ Justified(u)
  BY <1>1, <1>4 DEF Justified, Retired
<1>8. RowMoves(old) /\ Announced({d, u}, old)
  BY <1>1, <1>4, <1>5 DEF RowMoves, Announced, Retired
<1>9. Announced({d, u}, i)
  BY <1>4, <1>6, RecallableStays DEF Announced
<1>10. \A j \in Items \ {i, old} : RowMoves(j) /\ Announced({d, u}, j)
  BY RowRests, RecallableStays DEF Announced
<1> QED
  BY <1>2, <1>3, <1>7, <1>8, <1>9, <1>10, StoreOnly

LEMMA StoreStepKeepsOutbox == ASSUME OneWorker, OutboxInv, StoreStep PROVE OutboxInv'
<1>t. /\ row \in [Items -> Rows] /\ consents \in [Consents -> {"none", "active", "withdrawn", "expired"}]
      /\ \A i \in Items : row[i] \in Rows /\ row[i].version \in Nat /\ row[i].supersedes # i
      /\ ConfirmingInv /\ ConsentInv
  BY OutboxShape DEF OutboxInv
<1>n. ASSUME UNCHANGED <<events, indexes, worker, job>>, confirming' \in {confirming, NotConfirming},
             \A i \in Items : RowMoves(i) /\ Announced({}, i)
      PROVE  OutboxInv'
  BY <1>n, NothingGrows, StoreOnly
<1>u. ASSUME UNCHANGED <<realm, rows, indexes, worker, job>>, confirming' \in {confirming, NotConfirming},
             past \subseteq past', \A c \in Consents : consents'[c] = "active" => consents[c] = "active"
      PROVE  OutboxInv'
  <2>1. row' = row /\ events' = events
    BY <1>u DEF rows
  <2>2. \A i \in Items : RowMoves(i) /\ Announced({}, i)
    BY <1>u, <2>1, RowRests, RecallableStays DEF Announced
  <2> QED
    BY <1>n, <1>u, <2>1, <2>2
<1>1. ASSUME NEW c \in Consents, GrantConsent(c) PROVE OutboxInv'
  <2>1. /\ realm = "customer" /\ consents[c] = "none" /\ consents' = [consents EXCEPT ![c] = "active"]
        /\ UNCHANGED <<realm, row, events, past, indexes, worker, job, confirming>>
    BY <1>1 DEF GrantConsent, rows, desk
  <2>2. ASSUME NEW i \in Items, Recallable(i)' PROVE Recallable(i)
    <3>1. row[i].status = "active" /\ i \notin past
      BY <2>1, <2>2 DEF Recallable, Overdue
    <3>2. row[i].consent \in Consents /\ consents[row[i].consent] = "active"
      BY <1>t, <2>1, <3>1 DEF ConsentInv, ActiveHasConsent, WithStatus
    <3>3. row[i].consent \notin past
      BY <2>1, <2>2 DEF Recallable, Overdue, ConsentHolds
    <3> QED
      BY <3>1, <3>2, <3>3 DEF Recallable, Overdue, ConsentHolds
  <2>3. \A i \in Items : RowMoves(i) /\ Announced({}, i)
    BY <2>1, <2>2, RowRests DEF Announced
  <2> QED
    BY <1>n, <2>1, <2>3
<1>2. ASSUME NEW c \in Consents, WithdrawConsent(c) PROVE OutboxInv'
  <2> DEFINE S == {i \in WithStatus("active") : row[i].consent = c}
  <2>1. /\ consents' = [consents EXCEPT ![c] = "withdrawn"] /\ Retire(S, "invalid")
        /\ UNCHANGED <<realm, past, indexes, worker, desk>> /\ S \in SUBSET Items
        /\ \A i \in S : row[i].status \notin {"none", "deleted"}
    BY <1>2 DEF WithdrawConsent, WithStatus
  <2>2. \A x \in Consents : consents'[x] = "active" => consents[x] = "active"
    BY <1>t, <2>1
  <2> HIDE DEF S
  <2> QED
    BY <2>1, <2>2, StoreRetires
<1>3. ASSUME NEW i \in Items, NEW old \in Items \cup {NoItem}, CreateCandidate(i, old) PROVE OutboxInv'
  <2> DEFINE r == [NoRow EXCEPT !.status = Draft[realm], !.version = 1, !.supersedes = old]
  <2>1. /\ row' = [row EXCEPT ![i] = r] /\ row[i].status = "none" /\ (old # NoItem => row[old].status = "active")
        /\ UNCHANGED <<realm, consents, past, events, indexes, worker, job, confirming>>
    BY <1>3 DEF CreateCandidate, desk
  <2>2. r.status = Draft[realm] /\ r.supersedes = old
    BY DEF NoRow
  <2>3. Draft[realm] # "active" /\ Draft[realm] # "none" /\ old # i
    BY <1>t, <2>1, MemoryAssumption DEF Draft, ConsentInv, RowTypeInv
  <2> HIDE DEF r
  <2>4. row'[i] = r /\ \A j \in Items \ {i} : row'[j] = row[j]
    BY <1>t, <2>1
  <2>5. RowMoves(i) /\ Announced({}, i)
    BY <2>1, <2>2, <2>3, <2>4, NotActive DEF RowMoves, Announced, Retired
  <2>6. \A j \in Items \ {i} : RowMoves(j) /\ Announced({}, j)
    BY <2>1, <2>4, RowRests, RecallableStays DEF Announced
  <2> QED
    BY <1>n, <2>1, <2>5, <2>6
<1>4. ASSUME NEW i \in Items, NEW c \in Consents, Activate(i, c) PROVE OutboxInv'
  BY <1>4, ActivationMoves DEF Activate
<1>5. ASSUME NEW i \in Items, Confirm(i) PROVE OutboxInv'
  BY <1>5, ActivationMoves DEF Confirm
<1>6. ASSUME NEW i \in Items, NEW old \in Items, Supersede(old, i) PROVE OutboxInv'
  <2> DEFINE s == [row[old] EXCEPT !.status = "superseded", !.version = @ + 1]
             r == [status |-> "active", version |-> 1, consent |-> row[old].consent,
                   supersedes |-> old]
  <2>1. /\ row[old].status = "active" /\ row[i].status = "none" /\ i # old
        /\ row' = [row EXCEPT ![old].status = "superseded", ![old].version = @ + 1, ![i] = r]
        /\ events' \in Enqueue(events, {Event(old, "delete", row[old].version + 1), Event(i, "upsert", 1)})
        /\ past \subseteq past' /\ UNCHANGED <<realm, consents, indexes, worker, job, confirming>>
    BY <1>6 DEF Supersede, desk
  <2>2. s.status = "superseded" /\ s.version = row[old].version + 1 /\ s.supersedes = row[old].supersedes
    <3>1. row[old] \in Rows /\ "superseded" \in Statuses
      BY <1>t DEF Statuses
    <3> QED
      BY <3>1, RowFields
  <2>3. r.status = "active" /\ r.version = 1 /\ r.supersedes = old
    OBVIOUS
  <2>4. row' = [[row EXCEPT ![old] = s] EXCEPT ![i] = r]
    BY <2>1
  <2> HIDE DEF s, r
  <2>5. row'[i] = r /\ row'[old] = s /\ \A j \in Items \ {i, old} : row'[j] = row[j]
    BY <1>t, <2>1, <2>4
  <2>6. RowMoves(i)
    BY <2>1, <2>3, <2>5 DEF RowMoves, Retired
  <2>7. 1 \in Nat /\ 1 <= row'[i].version /\ row'[i].status # "none"
    BY <2>3, <2>5
  <2> QED
    BY <2>1, <2>2, <2>5, <2>6, <2>7, ReplacementMoves
<1>7. ASSUME NEW i \in Items, ConfirmRead(i) PROVE OutboxInv'
  <2>1. /\ row[i].status = "pending_confirmation" /\ row[i].supersedes # NoItem
        /\ confirming' = [item |-> i, version |-> row[i].version,
                          oldVersion |-> row[row[i].supersedes].version]
        /\ UNCHANGED <<realm, row, events, consents, past, keyword, vector, worker, job>>
    BY <1>7 DEF ConfirmRead, rows, indexes
  <2>2. row[i].supersedes \in Items
    BY <2>1, OutboxShape
  <2>3. confirming' \in [item : Items, version : Nat, oldVersion : Nat]
    BY <1>t, <2>1, <2>2
  <2>4. OutboxTypeInv'
    BY <2>1, <2>3 DEF OutboxInv, OutboxTypeInv
  <2>5. confirming'.item = i /\ confirming'.version = row[i].version
    BY <2>1
  <2>6. ConfirmingInv'
    BY <1>t, <2>1, <2>2, <2>5 DEF ConfirmingInv
  <2>7. ConsentInv'
    BY <1>t, StoreStepKeepsConsent
  <2>8. EventsInv' /\ WorkInv' /\ SettledInv' /\ JobInv'
    BY <2>1 DEF OutboxInv, EventsInv, WorkInv, SettledInv, JobInv, Settling, Settled, Held, Holding,
       InHand, Fresh, Gone, Recallable, Overdue, ConsentHolds
  <2> QED
    BY <2>4, <2>6, <2>7, <2>8 DEF OutboxInv
<1>8. ASSUME ConfirmWrite PROVE OutboxInv'
  <2> DEFINE i == confirming.item
             old == row[i].supersedes
             v == confirming.version
  <2>1. /\ confirming # NotConfirming /\ confirming' = NotConfirming /\ row[old].status = "active"
        /\ row' = [j \in Items |->
             CASE j = old -> [row[j] EXCEPT !.status = "superseded", !.version = @ + 1]
               [] j = i /\ StillDraft(i, v) -> [row[j] EXCEPT !.status = "active", !.version = @ + 1]
               [] OTHER -> row[j]]
        /\ events' \in Enqueue(events, {Event(old, "delete", row[old].version + 1),
                                        Event(i, "upsert", v + 1)})
        /\ UNCHANGED <<realm, consents, past, indexes, worker, job>>
    BY <1>8 DEF ConfirmWrite
  <2>2. i \in Items /\ v \in Nat
    BY <2>1 DEF OutboxInv, OutboxTypeInv
  <2>3. /\ old \in Items /\ row[i].status # "none" /\ v <= row[i].version
        /\ row[i].version = v => row[i].status = "pending_confirmation"
    BY <1>t, <2>1 DEF ConfirmingInv
  <2>4. old # i
    BY <1>t, <2>2
  <2> HIDE DEF i, old, v
  <2> DEFINE s == [row[old] EXCEPT !.status = "superseded", !.version = @ + 1]
             r == [row[i] EXCEPT !.status = "active", !.version = @ + 1]
  <2>5. /\ row'[old] = s /\ row'[i] = IF StillDraft(i, v) THEN r ELSE row[i]
        /\ \A j \in Items \ {i, old} : row'[j] = row[j]
    BY <2>1, <2>2, <2>3, <2>4
  <2>6. /\ s.status = "superseded" /\ s.version = row[old].version + 1 /\ s.supersedes = row[old].supersedes
        /\ r.status = "active" /\ r.version = row[i].version + 1 /\ r.supersedes = row[i].supersedes
    <3>1. row[old] \in Rows /\ row[i] \in Rows /\ "superseded" \in Statuses /\ "active" \in Statuses
      BY <1>t, <2>2, <2>3 DEF Statuses, Live
    <3> QED
      BY <3>1, RowFields
  <2> HIDE DEF s, r
  <2>7. CASE StillDraft(i, v)
    <3>1. row'[i] = r /\ v = row[i].version /\ row[i].status = "pending_confirmation"
      BY <2>5, <2>7 DEF StillDraft
    <3>2. RowMoves(i)
      BY <1>t, <2>2, <2>6, <3>1 DEF RowMoves, Retired
    <3>3. v + 1 \in Nat /\ v + 1 <= row'[i].version /\ row'[i].status # "none" /\ v + 1 > row[i].version
      BY <2>2, <2>6, <3>1
    <3> QED
      BY <2>1, <2>2, <2>3, <2>4, <2>5, <2>6, <3>2, <3>3, ReplacementMoves
  <2>8. CASE ~StillDraft(i, v)
    <3>1. row'[i] = row[i] /\ RowMoves(i)
      BY <2>2, <2>5, <2>8, RowRests
    <3>2. v # row[i].version
      BY <2>3, <2>8 DEF StillDraft
    <3>3. v + 1 \in Nat /\ v + 1 <= row'[i].version /\ row'[i].status # "none"
      BY <1>t, <2>2, <2>3, <3>1, <3>2
    <3> QED
      BY <2>1, <2>2, <2>3, <2>4, <2>5, <2>6, <3>1, <3>3, ReplacementMoves
  <2> QED
    BY <2>7, <2>8
<1>9. CASE ConfirmConflict
  BY <1>9, <1>u DEF ConfirmConflict
<1>10. ASSUME NEW i \in Items, Reject(i) \/ DeleteOwned(i) PROVE OutboxInv'
  <2>1. PICK s \in {"invalid", "deleted"} : Retire({i}, s)
    BY <1>10 DEF Reject, DeleteOwned
  <2>2. /\ UNCHANGED <<realm, consents, past, indexes, worker, desk>>
        /\ row[i].status \notin {"none", "deleted"}
    BY <1>10 DEF Reject, DeleteOwned, Undeleted
  <2>3. {i} \in SUBSET Items /\ \A j \in {i} : row[j].status \notin {"none", "deleted"}
    BY <2>2
  <2> QED
    BY <2>1, <2>2, <2>3, StoreRetires
<1>11. CASE DeleteScope
  BY <1>11, StoreRetires DEF DeleteScope, Undeleted
<1>12. CASE ExpireDue
  <2> DEFINE S == {i \in WithStatus("active") : Overdue(i)}
  <2>1. /\ consents' = [c \in Consents |->
             IF consents[c] = "active" /\ c \in past THEN "expired" ELSE consents[c]]
        /\ Retire(S, "invalid") /\ UNCHANGED <<realm, past, indexes, worker, desk>> /\ S \in SUBSET Items
        /\ \A i \in S : row[i].status \notin {"none", "deleted"}
    BY <1>12 DEF ExpireDue, WithStatus
  <2>2. \A c \in Consents : consents'[c] = "active" => consents[c] = "active"
    BY <1>t, <2>1
  <2> HIDE DEF S
  <2> QED
    BY <2>1, <2>2, StoreRetires
<1>13. CASE \E x \in Mortal : Lapse(x)
  BY <1>13, <1>u DEF Lapse, desk
<1> QED
  BY <1>1, <1>2, <1>3, <1>4, <1>5, <1>6, <1>7, <1>8, <1>9, <1>10, <1>11, <1>12, <1>13 DEF StoreStep

-----------------------------------------------------------------------------
(* The worker.                                                                 *)

\* A step of the worker changes what an event has come to, not what it is about.
LEMMA WorkerMoves ==
  ASSUME OutboxInv, UNCHANGED <<realm, row, consents, past, desk>>,
         events' \in Seq(IndexEvents), DOMAIN events' = DOMAIN events,
         \A k \in DOMAIN events : /\ events'[k].item = events[k].item /\ events'[k].kind = events[k].kind
                                  /\ events'[k].version = events[k].version,
         worker' \in [Workers -> WorkerStates], keyword' \subseteq Items, vector' \subseteq Items,
         WorkInv',
         \A i \in Items : Settling(i)' \/ Settled(i)',
         \A i \in Items : Gone(i) => Gone(i)'
  PROVE  OutboxInv'
<1>1. job' = job /\ confirming' = confirming
  BY DEF desk
<1>2. ConsentInv'
  BY <1>1, RowsRest DEF OutboxInv
<1>3. OutboxTypeInv'
  BY <1>1 DEF OutboxInv, OutboxTypeInv
<1>4. EventsInv' /\ ConfirmingInv'
  BY <1>1 DEF OutboxInv, EventsInv, ConfirmingInv
<1>5. JobInv'
  BY <1>1 DEF OutboxInv, OutboxTypeInv, Jobs, JobInv
<1> QED
  BY <1>2, <1>3, <1>4, <1>5 DEF OutboxInv, SettledInv

LEMMA SeqExcept ==
  ASSUME NEW X, NEW q \in Seq(X), NEW j \in DOMAIN q, NEW x \in X
  PROVE  [q EXCEPT ![j] = x] \in Seq(X)
<1>1. q \in [1..Len(q) -> X] /\ Len(q) \in Nat
  OBVIOUS
<1>2. [q EXCEPT ![j] = x] \in [1..Len(q) -> X]
  BY <1>1
<1>3. \A n \in Nat : [1..n -> X] \subseteq Seq(X)
  OBVIOUS
<1> QED
  BY <1>1, <1>2, <1>3

LEMMA EventChanges ==
  ASSUME OutboxInv, NEW k \in DOMAIN events, NEW s \in EventStatuses, NEW n \in Nat,
         events' = [events EXCEPT ![k].attempts = n, ![k].status = s]
  PROVE  /\ events' \in Seq(IndexEvents) /\ DOMAIN events' = DOMAIN events
         /\ \A j \in DOMAIN events : /\ events'[j].item = events[j].item /\ events'[j].kind = events[j].kind
                                     /\ events'[j].version = events[j].version
         /\ \A j \in DOMAIN events \ {k} : events'[j] = events[j]
         /\ events'[k].status = s
<1> DEFINE e == [[events[k] EXCEPT !.attempts = n] EXCEPT !.status = s]
<1>1. events \in Seq(IndexEvents) /\ events[k] \in IndexEvents
  BY OutboxShape
<1>2. /\ e \in IndexEvents /\ e.item = events[k].item /\ e.kind = events[k].kind
      /\ e.version = events[k].version /\ e.status = s
  BY <1>1 DEF IndexEvents
<1>3. events' = [events EXCEPT ![k] = e]
  BY <1>1
<1> HIDE DEF e
<1>4. events' \in Seq(IndexEvents)
  <2>1. [events EXCEPT ![k] = e] \in Seq(IndexEvents)
    BY <1>1, <1>2, SeqExcept
  <2> QED
    BY <1>3, <2>1
<1> QED
  BY <1>1, <1>2, <1>3, <1>4

LEMMA StatusChanges ==
  ASSUME OutboxInv, NEW k \in DOMAIN events, NEW s \in EventStatuses,
         events' = [events EXCEPT ![k].status = s]
  PROVE  /\ events' \in Seq(IndexEvents) /\ DOMAIN events' = DOMAIN events
         /\ \A j \in DOMAIN events : /\ events'[j].item = events[j].item /\ events'[j].kind = events[j].kind
                                     /\ events'[j].version = events[j].version
         /\ \A j \in DOMAIN events \ {k} : events'[j] = events[j]
         /\ events'[k].status = s
<1> DEFINE e == [events[k] EXCEPT !.status = s]
<1>1. events \in Seq(IndexEvents) /\ events[k] \in IndexEvents
  BY OutboxShape
<1>2. /\ e \in IndexEvents /\ e.item = events[k].item /\ e.kind = events[k].kind
      /\ e.version = events[k].version /\ e.status = s
  BY <1>1 DEF IndexEvents
<1>3. events' = [events EXCEPT ![k] = e]
  OBVIOUS
<1> HIDE DEF e
<1>4. events' \in Seq(IndexEvents)
  <2>1. [events EXCEPT ![k] = e] \in Seq(IndexEvents)
    BY <1>1, <1>2, SeqExcept
  <2> QED
    BY <1>3, <2>1
<1> QED
  BY <1>1, <1>2, <1>3, <1>4

\* What the rows say is as it was, and so is what is found and being written.
LEMMA SettledStays ==
  ASSUME UNCHANGED <<realm, row, consents, past>>, NEW i \in Items, Settled(i),
         i \in keyword' <=> i \in keyword, i \in vector' <=> i \in vector,
         \A w \in Workers : Holding(w, i)' <=> Holding(w, i),
         \A w \in Workers : Holding(w, i) => worker'[w] = worker[w]
  PROVE  Settled(i)'
<1>1. (\A w \in Workers : ~Holding(w, i)') => Fresh(i, i \in keyword)' /\ Fresh(i, i \in vector)'
  BY DEF Settled, Fresh, Recallable, Overdue, ConsentHolds
<1>2. ASSUME NEW w \in Workers, Holding(w, i)'
      PROVE  /\ Fresh(i, worker[w].kind = "upsert")'
             /\ worker'[w].at \in {"vector", "complete"} => (i \in keyword' <=> worker'[w].kind = "upsert")
             /\ worker'[w].at = "complete" => (i \in vector' <=> worker'[w].kind = "upsert")
  BY <1>2 DEF Settled, Fresh, Recallable, Overdue, ConsentHolds
<1> QED
  BY <1>1, <1>2 DEF Settled

LEMMA ClaimKeeps == ASSUME OutboxInv, NEW w \in Workers, ClaimIndexEvent(w) PROVE OutboxInv'
<1>1. PICK k \in Due :
        /\ events' = [events EXCEPT ![k].status = "processing"]
        /\ worker' = [worker EXCEPT ![w] = [at |-> "read", event |-> k, kind |-> "none"]]
  BY DEF ClaimIndexEvent
<1>2. /\ worker[w].at = "idle" /\ UNCHANGED <<realm, row, consents, past, keyword, vector, desk>>
      /\ k \in DOMAIN events /\ events[k].status \in {"pending", "retry_wait"}
  BY <1>1 DEF ClaimIndexEvent, Due, indexes
<1>3. events \in Seq(IndexEvents) /\ worker \in [Workers -> WorkerStates] /\ k \in Nat
      /\ keyword \subseteq Items /\ vector \subseteq Items
  BY <1>2, OutboxShape DEF OutboxInv, OutboxTypeInv
<1>4. /\ events' \in Seq(IndexEvents) /\ DOMAIN events' = DOMAIN events
      /\ \A j \in DOMAIN events : /\ events'[j].item = events[j].item /\ events'[j].kind = events[j].kind
                                  /\ events'[j].version = events[j].version
      /\ \A j \in DOMAIN events \ {k} : events'[j] = events[j]
      /\ events'[k].status = "processing"
  BY <1>1, <1>2, StatusChanges DEF EventStatuses
<1>5. /\ worker' \in [Workers -> WorkerStates]
      /\ worker'[w].at = "read" /\ worker'[w].event = k
      /\ \A u \in Workers \ {w} : worker'[u] = worker[u]
  BY <1>1, <1>3 DEF WorkerStates
<1>6. WorkInv'
  <2> SUFFICES ASSUME NEW u \in Workers
               PROVE  /\ worker'[u].at # "idle" =>
                           worker'[u].event \in DOMAIN events' /\ events'[worker'[u].event].status = "processing"
                      /\ worker'[u].at \in Writing => worker'[u].kind \in {"upsert", "delete"}
    BY DEF WorkInv, InHand
  <2>1. CASE u = w
    BY <1>2, <1>4, <1>5, <2>1 DEF Writing
  <2>2. CASE u # w
    BY <1>4, <1>5, <2>2 DEF OutboxInv, WorkInv, InHand
  <2> QED
    BY <2>1, <2>2
<1>7. /\ \A u \in Workers, i \in Items : Holding(u, i)' <=> Holding(u, i)
      /\ \A u \in Workers, i \in Items : Holding(u, i) => worker'[u] = worker[u]
      /\ \A j : Held(j)' <=> Held(j)
  <2>1. \A u \in Workers : worker[u].at \in Writing => worker[u].event \in DOMAIN events
    BY DEF OutboxInv, WorkInv, Writing
  <2>2. worker[w].at \notin Writing /\ worker'[w].at \notin Writing
    BY <1>2, <1>5 DEF Writing
  <2>3. \A u \in Workers, i \in Items : Holding(u, i)' <=> Holding(u, i)
    BY <1>4, <1>5, <2>1, <2>2 DEF Holding, InHand
  <2> QED
    BY <1>5, <2>2, <2>3 DEF Holding, Held
<1>8. ASSUME NEW i \in Items PROVE Settling(i)' \/ Settled(i)'
  <2>1. CASE Settling(i)
    <3>1. PICK j \in DOMAIN events : events[j].item = i /\ events[j].status # "completed" /\ ~Held(j)
      BY <2>1 DEF Settling
    <3>2. j \in DOMAIN events' /\ events'[j].item = i /\ events'[j].status # "completed" /\ ~Held(j)'
      BY <1>2, <1>4, <1>7, <3>1
    <3> QED
      BY <3>2 DEF Settling
  <2>2. CASE Settled(i)
    BY <1>2, <1>5, <1>7, <2>2, SettledStays
  <2> QED
    BY <2>1, <2>2 DEF OutboxInv, SettledInv
<1>9. \A i \in Items : Gone(i) => Gone(i)'
  BY <1>2, <1>7 DEF Gone
<1> QED
  BY <1>2, <1>3, <1>4, <1>5, <1>6, <1>8, <1>9, WorkerMoves

\* A step of the one worker on the event in its hand, which stays where it is.
LEMMA HandMoves ==
  ASSUME OneWorker, OutboxInv, NEW w \in Workers, worker[w].at # "idle", events' = events,
         NEW h \in Items, h = InHand(w).item,
         UNCHANGED <<realm, row, consents, past, desk>>,
         keyword' \subseteq Items, vector' \subseteq Items,
         worker' \in [Workers -> WorkerStates],
         worker'[w].event = worker[w].event, worker'[w].at \in Writing,
         worker'[w].kind \in {"upsert", "delete"},
         \A i \in Items \ {h} : (i \in keyword' <=> i \in keyword) /\ (i \in vector' <=> i \in vector),
         worker[w].at = "read" \/ Settled(h) => Settled(h)',
         Gone(h) => Gone(h)'
  PROVE  OutboxInv'
<1> DEFINE k == worker[w].event
<1>1. /\ events \in Seq(IndexEvents) /\ k \in DOMAIN events /\ events[k].status = "processing"
      /\ InHand(w) = events[k] /\ InHand(w)' = events[k] /\ events[k].item = h
  BY OutboxShape DEF OutboxInv, WorkInv, InHand
<1>2. WorkInv'
  BY <1>1 DEF WorkInv, OneWorker, InHand
<1>3. \A u \in Workers : u = w
  BY DEF OneWorker
<1>4. \A u \in Workers, i \in Items \ {h} : ~Holding(u, i) /\ ~Holding(u, i)'
  BY <1>1, <1>3 DEF Holding
<1>5. /\ \A j : Held(j)' => j = k
      /\ Held(k) <=> worker[w].at \in Writing
  BY <1>3 DEF Held
<1>9. worker[w].at = "read" \/ worker[w].at \in Writing
  BY OutboxShape DEF WorkerStates, Writing
<1> HIDE DEF k
<1>6. ASSUME NEW i \in Items PROVE Settling(i)' \/ Settled(i)'
  <2>1. CASE Settling(i)
    <3>1. PICK j \in DOMAIN events : events[j].item = i /\ events[j].status # "completed" /\ ~Held(j)
      BY <2>1 DEF Settling
    <3>2. CASE j # k
      BY <1>5, <3>1, <3>2 DEF Settling
    <3>3. CASE j = k
      BY <1>1, <1>5, <1>9, <3>1, <3>3
    <3> QED
      BY <3>2, <3>3
  <2>2. CASE Settled(i) /\ i # h
    BY <1>1, <1>4, <2>2, SettledStays
  <2>3. CASE Settled(i) /\ i = h
    BY <2>3
  <2> QED
    BY <2>1, <2>2, <2>3 DEF OutboxInv, SettledInv
<1>7. \A i \in Items \ {h} : Gone(i) => Gone(i)'
  BY <1>4 DEF Gone
<1> QED
  BY <1>1, <1>2, <1>6, <1>7, WorkerMoves

LEMMA ReadKeeps == ASSUME OneWorker, OutboxInv, NEW w \in Workers, GetIndexItem(w) PROVE OutboxInv'
<1>0. PICK i \in Items : i = InHand(w).item
  BY OutboxShape DEF GetIndexItem, OutboxInv, WorkInv, InHand
<1> DEFINE kind == IF InHand(w).kind = "delete" \/ ~ Recallable(i) THEN "delete" ELSE "upsert"
<1>1. /\ worker[w].at = "read" /\ worker' = [worker EXCEPT ![w].at = "keyword", ![w].kind = kind]
      /\ UNCHANGED <<realm, row, events, consents, past, keyword, vector, desk>>
  BY <1>0 DEF GetIndexItem, rows, indexes
<1>2. /\ worker \in [Workers -> WorkerStates] /\ keyword \subseteq Items /\ vector \subseteq Items
      /\ worker[w].event \in DOMAIN events /\ InHand(w)' = InHand(w)
      /\ InHand(w).kind = "delete" => row[i].status \in Retired
  BY <1>0, <1>1, OutboxShape DEF OutboxInv, OutboxTypeInv, WorkInv, InHand, EventsInv
<1>3. /\ kind \in {"upsert", "delete"}
      /\ kind = "upsert" => Recallable(i)
      /\ kind = "delete" => ~Recallable(i)
  BY <1>2 DEF Recallable, Retired
<1> HIDE DEF kind
<1>4. /\ worker' \in [Workers -> WorkerStates] /\ worker'[w].at = "keyword" /\ worker'[w].kind = kind
      /\ worker'[w].event = worker[w].event
  BY <1>1, <1>2, <1>3 DEF WorkerStates
<1>5. \A u \in Workers : u = w
  BY DEF OneWorker
<1>6. InHand(w)'.item = i /\ Holding(w, i)'
  BY <1>0, <1>2, <1>4 DEF Holding, Writing
<1>7. Settled(i)'
  <2>1. Fresh(i, kind = "upsert")
    BY <1>3 DEF Fresh, Recallable
  <2>2. Fresh(i, worker[w].kind = "upsert")'
    BY <1>1, <1>4, <2>1 DEF Fresh, Recallable, Overdue, ConsentHolds
  <2> QED
    BY <1>4, <1>5, <1>6, <2>2 DEF Settled
<1>8. Gone(i) => Gone(i)'
  <2>1. row[i].status = "deleted" => kind = "delete"
    BY <1>3 DEF Recallable
  <2> QED
    BY <1>1, <1>4, <1>5, <2>1 DEF Gone
<1>9. worker[w].at # "idle" /\ worker'[w].at \in Writing
  BY <1>1, <1>4 DEF Writing
<1> QED
  BY <1>1, <1>2, <1>3, <1>4, <1>7, <1>8, <1>9, HandMoves, <1>0

LEMMA WriteKeeps ==
  ASSUME OneWorker, OutboxInv, NEW w \in Workers, WriteKeyword(w) \/ WriteVector(w) PROVE OutboxInv'
<1>0. PICK i \in Items : i = InHand(w).item
  BY OutboxShape DEF WriteKeyword, WriteVector, OutboxInv, WorkInv, InHand
<1> DEFINE place == IF worker[w].at = "keyword" THEN "vector" ELSE "complete"
<1>1. /\ worker[w].at \in {"keyword", "vector"} /\ worker' = [worker EXCEPT ![w].at = place]
      /\ keyword' = IF worker[w].at = "keyword" THEN Written(keyword, w) ELSE keyword
      /\ vector' = IF worker[w].at = "vector" THEN Written(vector, w) ELSE vector
      /\ UNCHANGED <<realm, row, events, consents, past, desk>>
  BY DEF WriteKeyword, WriteVector, Goes, rows
<1>2. /\ worker \in [Workers -> WorkerStates] /\ keyword \subseteq Items /\ vector \subseteq Items
      /\ worker[w].event \in DOMAIN events /\ InHand(w)' = InHand(w)
      /\ worker[w].kind \in {"upsert", "delete"} /\ events[worker[w].event].status = "processing"
  BY <1>1, OutboxShape DEF OutboxInv, OutboxTypeInv, WorkInv, InHand, Writing
<1>3. /\ worker' \in [Workers -> WorkerStates] /\ worker'[w].at = place /\ place \in {"vector", "complete"}
      /\ worker'[w].kind = worker[w].kind /\ worker'[w].event = worker[w].event
      /\ place = "vector" <=> worker[w].at = "keyword"
  <2>1. place \in {"vector", "complete"} /\ (place = "vector" <=> worker[w].at = "keyword")
    OBVIOUS
  <2> HIDE DEF place
  <2> QED
    BY <1>1, <1>2, <2>1 DEF WorkerStates
<1> HIDE DEF place
<1>4. \A u \in Workers : u = w
  BY DEF OneWorker
<1>5. Holding(w, i) /\ Holding(w, i)'
  BY <1>0, <1>1, <1>2, <1>3 DEF Holding, Writing
<1>6. \A index \in SUBSET Items :
        /\ Written(index, w) \subseteq Items
        /\ i \in Written(index, w) <=> worker[w].kind = "upsert"
        /\ \A j \in Items \ {i} : j \in Written(index, w) <=> j \in index
  BY <1>0, <1>2 DEF Written
<1>7. /\ keyword' \subseteq Items /\ vector' \subseteq Items
      /\ \A j \in Items \ {i} : (j \in keyword' <=> j \in keyword) /\ (j \in vector' <=> j \in vector)
      /\ worker[w].at = "keyword" => (i \in keyword' <=> worker[w].kind = "upsert")
      /\ worker[w].at = "vector" => (i \in vector' <=> worker[w].kind = "upsert") /\ keyword' = keyword
  BY <1>1, <1>2, <1>6
<1>8. Settled(i) => Settled(i)'
  <2>1. SUFFICES ASSUME Settled(i) PROVE Settled(i)'
    OBVIOUS
  <2>2. /\ Fresh(i, worker[w].kind = "upsert")
        /\ worker[w].at = "vector" => (i \in keyword <=> worker[w].kind = "upsert")
    BY <1>5, <2>1 DEF Settled
  <2>3. Fresh(i, worker[w].kind = "upsert")'
    BY <1>1, <1>3, <2>2 DEF Fresh, Recallable, Overdue, ConsentHolds
  <2>4. /\ i \in keyword' <=> worker'[w].kind = "upsert"
        /\ worker'[w].at = "complete" => (i \in vector' <=> worker'[w].kind = "upsert")
    BY <1>1, <1>3, <1>7, <2>2
  <2> QED
    BY <1>4, <1>5, <2>3, <2>4 DEF Settled
<1>9. Gone(i) => Gone(i)'
  <2>1. Gone(i) => worker[w].kind = "delete" /\ i \notin keyword' \cup vector'
    BY <1>1, <1>5, <1>7 DEF Gone
  <2> QED
    BY <1>1, <1>3, <1>4, <2>1 DEF Gone
<1>10. worker[w].at # "idle" /\ worker[w].at # "read" /\ worker'[w].at \in Writing
  BY <1>1, <1>3 DEF Writing
<1> QED
  BY <1>1, <1>2, <1>3, <1>7, <1>8, <1>9, <1>10, HandMoves, <1>0

\* The one worker lets go of the event in its hand, done or not.
LEMMA HandEmpties ==
  ASSUME OneWorker, OutboxInv, NEW w \in Workers, worker[w].at # "idle",
         NEW s \in EventStatuses,
         UNCHANGED <<realm, row, consents, past, indexes, desk>>,
         worker' = [worker EXCEPT ![w] = IdleWorker],
         events' \in Seq(IndexEvents), DOMAIN events' = DOMAIN events,
         \A j \in DOMAIN events : /\ events'[j].item = events[j].item /\ events'[j].kind = events[j].kind
                                  /\ events'[j].version = events[j].version,
         \A j \in DOMAIN events \ {worker[w].event} : events'[j] = events[j],
         events'[worker[w].event].status = s,
         s = "completed" => worker[w].at = "complete"
  PROVE  OutboxInv'
<1>0. PICK h \in Items : h = InHand(w).item
  BY OutboxShape DEF OutboxInv, WorkInv, InHand
<1> DEFINE k == worker[w].event
<1>1. /\ k \in DOMAIN events /\ events[k].item = h /\ keyword' = keyword /\ vector' = vector
      /\ keyword \subseteq Items /\ vector \subseteq Items /\ worker \in [Workers -> WorkerStates]
      /\ worker[w].at \in Writing => worker[w].kind \in {"upsert", "delete"}
  BY <1>0, OutboxShape DEF OutboxInv, OutboxTypeInv, WorkInv, InHand, indexes
<1>2. \A u \in Workers : u = w
  BY DEF OneWorker
<1>3. worker' \in [Workers -> WorkerStates] /\ worker'[w].at = "idle"
  <2>1. IdleWorker \in WorkerStates /\ IdleWorker.at = "idle"
    BY DEF IdleWorker, WorkerStates
  <2> QED
    BY <1>1, <2>1
<1>4. /\ \A u \in Workers, i \in Items : ~Holding(u, i)'
      /\ \A j : ~Held(j)'
      /\ Held(k) <=> worker[w].at \in Writing
      /\ \A j : Held(j) => j = k
  BY <1>2, <1>3 DEF Holding, Held, Writing
<1>5. WorkInv'
  BY <1>2, <1>3 DEF WorkInv, Writing
<1>6. ASSUME NEW i \in Items PROVE Settling(i)' \/ Settled(i)'
  <2>0. SUFFICES ASSUME ~Settling(i)' PROVE Settled(i)'
    OBVIOUS
  <2>1. \A j \in DOMAIN events : events[j].item # i \/ events'[j].status = "completed"
    BY <1>4, <2>0 DEF Settling
  <2>2. ASSUME NEW j \in DOMAIN events, events[j].item = i, events[j].status # "completed" PROVE Held(j)
    <3>1. j = k /\ s = "completed"
      BY <2>1, <2>2
    <3> QED
      BY <1>4, <3>1 DEF Writing
  <2>3. Settled(i)
    BY <2>2 DEF OutboxInv, SettledInv, Settling
  <2>4. Fresh(i, i \in keyword) /\ Fresh(i, i \in vector)
    <3>1. CASE i # h
      <4>1. \A u \in Workers : ~Holding(u, i)
        BY <1>0, <1>2, <3>1 DEF Holding
      <4> QED
        BY <2>3, <4>1 DEF Settled
    <3>2. CASE i = h
      <4>1. s = "completed"
        BY <1>1, <2>1, <3>2
      <4>2. worker[w].at = "complete" /\ Holding(w, i)
        BY <1>0, <3>2, <4>1 DEF Holding, Writing
      <4>3. /\ Fresh(i, worker[w].kind = "upsert")
            /\ i \in keyword <=> worker[w].kind = "upsert"
            /\ i \in vector <=> worker[w].kind = "upsert"
        BY <2>3, <4>2 DEF Settled
      <4> QED
        BY <4>3 DEF Fresh
    <3> QED
      BY <3>1, <3>2
  <2>5. Fresh(i, i \in keyword)' /\ Fresh(i, i \in vector)'
    BY <1>1, <2>4 DEF Fresh, Recallable, Overdue, ConsentHolds
  <2> QED
    BY <1>4, <2>5 DEF Settled
<1>7. \A i \in Items : Gone(i) => Gone(i)'
  BY <1>1, <1>4 DEF Gone
<1>8. keyword' \subseteq Items /\ vector' \subseteq Items
  BY <1>1
<1> QED
  BY <1>3, <1>5, <1>6, <1>7, <1>8, WorkerMoves

LEMMA CompleteKeeps ==
  ASSUME OneWorker, OutboxInv, NEW w \in Workers, CompleteIndexEvent(w) \/ RetryIndexEvent(w)
  PROVE  OutboxInv'
<1>1. /\ worker[w].at # "idle" /\ UNCHANGED <<realm, row, consents, past, indexes, desk>>
      /\ worker' = [worker EXCEPT ![w] = IdleWorker]
  BY DEF CompleteIndexEvent, RetryIndexEvent
<1>2. worker[w].event \in DOMAIN events /\ InHand(w) \in IndexEvents
  BY <1>1, OutboxShape DEF OutboxInv, WorkInv, InHand
<1>3. CASE CompleteIndexEvent(w)
  <2>1. worker[w].at = "complete" /\ events' = [events EXCEPT ![worker[w].event].status = "completed"]
    BY <1>3 DEF CompleteIndexEvent
  <2>2. "completed" \in EventStatuses
    BY DEF EventStatuses
  <2> QED
    BY <1>1, <1>2, <2>1, <2>2, StatusChanges, HandEmpties
<1>4. CASE RetryIndexEvent(w)
  <2> DEFINE n == InHand(w).attempts + 1
  <2>1. events' = [events EXCEPT ![worker[w].event].attempts = n, ![worker[w].event].status = RetryStatus(n)]
    BY <1>4 DEF RetryIndexEvent
  <2>2. n \in Nat
    BY <1>2 DEF IndexEvents
  <2> HIDE DEF n
  <2>3. PICK t \in EventStatuses : t = RetryStatus(n) /\ t # "completed"
    BY DEF RetryStatus, EventStatuses
  <2>4. PICK k \in DOMAIN events : k = worker[w].event
    BY <1>2
  <2>5. events' = [events EXCEPT ![k].attempts = n, ![k].status = t]
    BY <2>1, <2>3, <2>4
  <2>6. /\ events' \in Seq(IndexEvents) /\ DOMAIN events' = DOMAIN events
        /\ \A j \in DOMAIN events : /\ events'[j].item = events[j].item /\ events'[j].kind = events[j].kind
                                    /\ events'[j].version = events[j].version
        /\ \A j \in DOMAIN events \ {k} : events'[j] = events[j]
        /\ events'[k].status = t
    BY <2>2, <2>5, EventChanges
  <2> QED
    BY <1>1, <2>3, <2>4, <2>6, HandEmpties
<1> QED
  BY <1>3, <1>4

\* A restart drops what the worker had in hand and announces every active memory.
LEMMA RestartKeeps ==
  ASSUME OneWorker, OutboxInv, NEW w \in Workers, Restart(w), ConsentInv' PROVE OutboxInv'
<1> DEFINE v == [i \in Items |-> row[i].version]
           S == WithStatus("active")
           E == {Event(i, "upsert", v[i]) : i \in S}
<1>1. /\ worker' = [worker EXCEPT ![w] = IdleWorker] /\ job' = [job EXCEPT !.at = 0]
      /\ confirming' = NotConfirming
      /\ UNCHANGED <<realm, row, consents, past, keyword, vector>>
      /\ events' \in Enqueue(events, {Event(i, "upsert", row[i].version) : i \in S})
  BY DEF Restart, indexes
<1>2. /\ row \in [Items -> Rows] /\ \A i \in Items : row[i].version \in Nat
      /\ events \in Seq(IndexEvents) /\ worker \in [Workers -> WorkerStates]
  BY OutboxShape
<1>3. /\ v \in [Items -> Nat] /\ S \in SUBSET Items /\ \A i \in S : row[i].status = "active"
      /\ \A i \in Items : v[i] = row[i].version
  BY <1>2 DEF WithStatus
<1> HIDE DEF v, S
<1>4. {Event(i, "upsert", row[i].version) : i \in S} = E
  BY <1>3
<1>5. E \in SUBSET IndexEvents /\ IsFiniteSet(E)
  BY <1>3, EventsFor
<1>6. Grown(E)
  BY <1>1, <1>2, <1>4, <1>5, QueueGrows
<1>7. \A e \in E : Justified(e)
  <2> SUFFICES ASSUME NEW i \in S PROVE Justified(Event(i, "upsert", v[i]))
    OBVIOUS
  <2> QED
    BY <1>1, <1>2, <1>3, EventIs DEF Justified
<1> HIDE DEF E
<1>8. \A i \in Items : RowMoves(i) /\ Announced(E, i)
  BY <1>1, RowRests, RecallableStays DEF Announced
<1>9. /\ worker' \in [Workers -> WorkerStates]
      /\ \A u \in Workers : worker'[u] = worker[u] \/ worker'[u].at = "idle"
  <2>1. IdleWorker \in WorkerStates /\ IdleWorker.at = "idle"
    BY DEF IdleWorker, WorkerStates
  <2> QED
    BY <1>1, <1>2, <2>1
<1>10. JobMoves
  BY <1>1 DEF JobMoves
<1>11. confirming' \in {confirming, NotConfirming} /\ UNCHANGED <<keyword, vector>>
  BY <1>1
<1> QED
  BY <1>5, <1>6, <1>7, <1>8, <1>9, <1>10, <1>11, StoreMoves

-----------------------------------------------------------------------------
(* The deletion job.                                                           *)

\* The job moves alone; what it claims of its memories is what they are.
LEMMA JobStep ==
  ASSUME OutboxInv, UNCHANGED <<realm, row, events, consents, past, keyword, vector, worker, confirming>>,
         job' \in Jobs, JobInv'
  PROVE  OutboxInv'
<1>1. ConsentInv'
  BY RowsRest DEF OutboxInv
<1>2. OutboxTypeInv' /\ EventsInv' /\ ConfirmingInv' /\ WorkInv' /\ SettledInv'
  BY DEF OutboxInv, OutboxTypeInv, EventsInv, ConfirmingInv, WorkInv, SettledInv, Settling, Settled,
     Held, Holding, InHand, Fresh, Recallable, Overdue, ConsentHolds
<1> QED
  BY <1>1, <1>2 DEF OutboxInv

\* The end of a run, completed or to be tried again, is a state of the job.
LEMMA RunEnds ==
  ASSUME job \in Jobs, NEW n \in 0..3, NEW s \in {"retry_wait", "completed"},
         job' = [job EXCEPT !.at = 0, !.saved = n, !.status = s]
  PROVE  job' \in Jobs /\ job'.at = 0 /\ job'.saved = n /\ job'.status = s /\ job'.ids = job.ids
<1>1. CASE s = "retry_wait"
  <2>1. job' = [job EXCEPT !.at = 0, !.saved = n, !.status = "retry_wait"]
    BY <1>1
  <2>2. job' = [status |-> "retry_wait", ids |-> job.ids, saved |-> n, at |-> 0]
    BY <2>1 DEF Jobs
  <2> QED
    BY <1>1, <2>2 DEF Jobs
<1>2. CASE s = "completed"
  <2>1. job' = [job EXCEPT !.at = 0, !.saved = n, !.status = "completed"]
    BY <1>2
  <2>2. job' = [status |-> "completed", ids |-> job.ids, saved |-> n, at |-> 0]
    BY <2>1 DEF Jobs
  <2> QED
    BY <1>2, <2>2 DEF Jobs
<1> QED
  BY <1>1, <1>2

LEMMA DeletionKeeps == ASSUME OneWorker, OutboxInv, DeletionStep, ConsentInv' PROVE OutboxInv'
<1>t. job \in Jobs /\ JobInv
  BY OutboxShape DEF OutboxInv
<1>g. ASSUME UNCHANGED <<row, events, keyword, vector, worker>>
      PROVE  \A i : Gone(i)' <=> Gone(i)
  BY <1>g DEF Gone, Holding, InHand
<1>1. CASE RequestAccountDeletion
  <2> DEFINE S == {i \in Items : row[i].status # "none"}
  <2>1. /\ job.status = "none" /\ job' = [job EXCEPT !.status = "pending", !.ids = S]
        /\ UNCHANGED <<realm, row, events, consents, past, keyword, vector, worker, confirming>>
    BY <1>1 DEF RequestAccountDeletion, rows, indexes
  <2>2. S \in SUBSET Items /\ \A i \in S : row[i].status # "none"
    OBVIOUS
  <2> HIDE DEF S
  <2>3. /\ job' \in Jobs /\ job'.status = "pending" /\ job'.ids = S /\ job'.at = 0 /\ job'.saved = 0
    BY <1>t, <2>1, <2>2 DEF JobInv, Jobs
  <2>4. JobInv'
    BY <2>1, <2>2, <2>3 DEF JobInv
  <2> QED
    BY <2>1, <2>3, <2>4, JobStep
<1>2. CASE RunDeletion \/ StepFails
  <2>1. UNCHANGED <<realm, row, events, consents, past, keyword, vector, worker, confirming>>
    BY <1>2 DEF RunDeletion, StepFails, rows, indexes
  <2>2. /\ job' \in Jobs /\ job'.ids = job.ids /\ job'.status # "none" /\ job.status # "none"
        /\ job'.status # "completed" /\ job'.saved # 3
        /\ job'.at >= 2 \/ job'.saved >= 1 => job.at >= 2 \/ job.saved >= 1
        /\ job'.at >= 3 \/ job'.saved >= 2 => job.at >= 3 \/ job.saved >= 2
    <3>1. CASE RunDeletion
      <4>1. /\ job.status \in {"pending", "retry_wait"} /\ job.saved \in 0..2
            /\ job' = [job EXCEPT !.at = job.saved + 1]
        BY <1>t, <3>1 DEF RunDeletion, JobInv, Jobs
      <4> QED
        BY <1>t, <4>1 DEF Jobs
    <3>2. CASE StepFails
      <4>1. /\ job.at \in 1..3 /\ job.status # "none"
            /\ job' = [job EXCEPT !.at = 0, !.saved = job.at - 1, !.status = "retry_wait"]
        BY <1>t, <3>2 DEF StepFails, JobInv, Jobs
      <4>0. PICK k \in 0..3 : k = job.at - 1 /\ k < 3 /\ k + 1 = job.at
        BY <4>1
      <4>a. job' = [job EXCEPT !.at = 0, !.saved = k, !.status = "retry_wait"]
        BY <4>0, <4>1
      <4>2. /\ job'.at = 0 /\ job'.saved = k /\ job'.status = "retry_wait" /\ job'.ids = job.ids
            /\ job' \in Jobs
        BY <1>t, <4>a, RunEnds
      <4>4. /\ (job'.at >= 2 \/ job'.saved >= 1) => job.at >= 2
            /\ (job'.at >= 3 \/ job'.saved >= 2) => job.at >= 3
            /\ job'.saved # 3
        BY <4>0, <4>1, <4>2
      <4> QED
        BY <4>1, <4>2, <4>4
    <3> QED
      BY <1>2, <3>1, <3>2
  <2>3. JobInv'
    BY <1>t, <1>g, <2>1, <2>2 DEF JobInv
  <2> QED
    BY <2>1, <2>2, <2>3, JobStep
<1>3. CASE StepSucceeds /\ job.at = 1
  <2>1. /\ Retire(Undeleted, "deleted") /\ job' = [job EXCEPT !.at = 2]
        /\ UNCHANGED <<realm, consents, past, keyword, vector, worker, confirming>>
    BY <1>3 DEF StepSucceeds, indexes
  <2> DEFINE E == {Event(i, "delete", row[i].version + 1) : i \in Undeleted}
  <2>2. /\ E \in SUBSET IndexEvents /\ Grown(E)
        /\ \A i \in Items : RowMoves(i) /\ Announced(E, i)
        /\ \A e \in E : Justified(e)
        /\ \A i \in Undeleted : row'[i].status = "deleted"
    BY <2>1, RetireMoves DEF Undeleted
  <2> HIDE DEF E
  <2>3. \A i \in job.ids : row'[i].status = "deleted"
    <3> SUFFICES ASSUME NEW i \in job.ids PROVE row'[i].status = "deleted"
      OBVIOUS
    <3>1. i \in Items /\ row[i].status # "none"
      BY <1>t, <1>3 DEF JobInv, Jobs
    <3> QED
      BY <2>2, <3>1 DEF RowMoves, Undeleted
  <2>4. JobMoves
    BY <1>3, <2>1, <2>3 DEF JobMoves
  <2>5. worker' \in [Workers -> WorkerStates]
    BY <2>1, OutboxShape
  <2> QED
    BY <2>1, <2>2, <2>4, <2>5, StoreMoves
<1>4. CASE StepSucceeds /\ job.at # 1
  <2>1. /\ job.at \in 2..3 /\ job.status # "none" /\ job.status # "completed"
        /\ job.at = 2 => Outstanding(job.ids) = {}
        /\ job' = IF job.at < 3 THEN [job EXCEPT !.at = @ + 1]
                  ELSE [job EXCEPT !.at = 0, !.saved = 3, !.status = "completed"]
        /\ UNCHANGED <<realm, row, events, consents, past, keyword, vector, worker, confirming>>
    BY <1>t, <1>4 DEF StepSucceeds, JobInv, Jobs, rows, indexes
  <2>2. /\ job' \in Jobs /\ job'.ids = job.ids /\ job'.status # "none"
        /\ (job'.status = "completed" <=> job'.saved = 3) /\ (job'.status = "completed" => job'.at = 0)
    <3>1. job.saved # 3 /\ job.saved \in 0..3 /\ job.status \in {"pending", "retry_wait"}
      BY <1>t, <2>1 DEF Jobs, JobInv
    <3>2. CASE job.at = 2
      <4>1. job' = [job EXCEPT !.at = 3]
        BY <2>1, <3>2
      <4> QED
        BY <1>t, <2>1, <3>1, <4>1 DEF Jobs
    <3>3. CASE job.at = 3
      <4>1. job' = [job EXCEPT !.at = 0, !.saved = 3, !.status = "completed"]
        BY <2>1, <3>3
      <4> QED
        BY <1>t, <4>1, RunEnds
    <3> QED
      BY <2>1, <3>2, <3>3
  <2>3. \A i \in job.ids : i \in Items /\ row[i].status = "deleted"
    BY <1>t, <2>1 DEF JobInv, Jobs
  <2>4. ASSUME NEW i \in job.ids PROVE Gone(i)
    <3>1. CASE job.at = 3
      BY <1>t, <3>1 DEF JobInv
    <3>2. CASE job.at = 2
      <4>1. \A k \in DOMAIN events : events[k].item = i => events[k].status = "completed"
        BY <2>1, <3>2 DEF Outstanding
      <4>2. i \in Items /\ ~Settling(i) /\ row[i].status = "deleted"
        BY <2>3, <4>1 DEF Settling
      <4>3. \A w \in Workers : ~Holding(w, i)
        BY <4>1 DEF Holding, OutboxInv, WorkInv, InHand, Writing
      <4>4. Fresh(i, i \in keyword) /\ Fresh(i, i \in vector)
        BY <4>2, <4>3 DEF OutboxInv, SettledInv, Settled
      <4> QED
        BY <4>2, <4>3, <4>4 DEF Gone, Fresh
    <3> QED
      BY <2>1, <3>1, <3>2
  <2>5. JobInv'
    BY <1>g, <2>1, <2>2, <2>3, <2>4 DEF JobInv
  <2> QED
    BY <2>1, <2>2, <2>5, JobStep
<1> QED
  BY <1>1, <1>2, <1>3, <1>4 DEF DeletionStep

-----------------------------------------------------------------------------
(* What is proved of the outbox.                                               *)

LEMMA OutboxInitial == MemoryInit => OutboxInv
<1> SUFFICES ASSUME MemoryInit PROVE OutboxInv
  OBVIOUS
<1>1. ConsentInv
  BY MemoryInitial
<1>2. /\ \A i \in Items : row[i] = NoRow
      /\ events = <<>> /\ keyword = {} /\ vector = {} /\ confirming = NotConfirming
      /\ \A w \in Workers : worker[w] = IdleWorker /\ worker[w].at = "idle"
      /\ worker \in [Workers -> WorkerStates]
      /\ job = [status |-> "none", ids |-> {}, saved |-> 0, at |-> 0]
  BY DEF MemoryInit, IdleWorker, WorkerStates
<1>3. OutboxTypeInv /\ EventsInv /\ JobInv
  BY <1>2 DEF OutboxTypeInv, EventsInv, JobInv, Jobs
<1>4. ConfirmingInv /\ WorkInv
  BY <1>2, MemoryAssumption DEF ConfirmingInv, WorkInv, NoRow, Writing
<1>5. SettledInv
  BY <1>2 DEF SettledInv, Settled, Fresh, Recallable, NoRow, Holding, Writing
<1> QED
  BY <1>1, <1>3, <1>4, <1>5 DEF OutboxInv

LEMMA OutboxStep == ASSUME OneWorker, OutboxInv, [MemoryNext]_vars PROVE OutboxInv'
<1>0. ConsentInv'
  BY MemoryStep DEF OutboxInv
<1>1. CASE StoreStep
  BY <1>1, StoreStepKeepsOutbox
<1>2. CASE DeletionStep
  BY <1>0, <1>2, DeletionKeeps
<1>3. ASSUME NEW w \in Workers, WorkerStep(w) PROVE OutboxInv'
  BY <1>3, ClaimKeeps, ReadKeeps, WriteKeeps, CompleteKeeps DEF WorkerStep
<1>4. ASSUME NEW w \in Workers, RetryIndexEvent(w) \/ Restart(w) PROVE OutboxInv'
  BY <1>0, <1>4, CompleteKeeps, RestartKeeps
<1>5. CASE UNCHANGED vars
  <2>1. UNCHANGED <<realm, row, events, consents, past, keyword, vector, worker, confirming, job>>
    BY <1>5 DEF vars, rows, indexes, desk
  <2>2. job' \in Jobs /\ JobInv'
    BY <2>1, OutboxShape DEF OutboxInv, JobInv, Gone, Holding, InHand
  <2> QED
    BY <2>1, <2>2, JobStep
<1> QED
  BY <1>1, <1>2, <1>3, <1>4, <1>5 DEF MemoryNext

\* With one worker, what the outbox completed is what the indexes hold: whichever
\* writes fail, and however often the events of a memory are retried or overtaken.
THEOREM CompletedIsFaithful ==
  ASSUME OneWorker PROVE MemorySpec => []SettledIsFaithful
<1>1. OutboxInv => SettledIsFaithful
  <2> SUFFICES ASSUME OutboxInv, NEW i \in Items,
                      \A k \in DOMAIN events : events[k].item = i => events[k].status = "completed"
               PROVE  /\ Recallable(i) => i \in keyword \intersect vector
                      /\ row[i].status # "active" => i \notin keyword \union vector
    BY DEF SettledIsFaithful
  <2>1. ~Settling(i) /\ \A w \in Workers : ~Holding(w, i)
    BY DEF Settling, Holding, OutboxInv, WorkInv, InHand, Writing
  <2> QED
    BY <2>1 DEF OutboxInv, SettledInv, Settled, Fresh
<1>2. OutboxInv /\ [MemoryNext]_vars => OutboxInv'
  BY OutboxStep
<1> QED
  BY <1>1, <1>2, OutboxInitial, PTL DEF MemorySpec

\* With one worker, the deletion of an account is reported when nothing of it is
\* left in a row or an index, and nothing of it comes back.
THEOREM DeletionIsNeverEarly ==
  ASSUME OneWorker PROVE MemorySpec => []DeletionNeverEarly
<1>1. OutboxInv => DeletionNeverEarly
  BY DEF OutboxInv, JobInv, Gone, DeletionNeverEarly
<1>2. OutboxInv /\ [MemoryNext]_vars => OutboxInv'
  BY OutboxStep
<1> QED
  BY <1>1, <1>2, OutboxInitial, PTL DEF MemorySpec

=============================================================================

---------------------------- MODULE AuthGateProofs ----------------------------
(***************************************************************************)
(* Theorems about AuthGate, for any number of calls, tokens, tenants and   *)
(* sessions, any budget and any window: its types (a budget is never       *)
(* overdrawn), what a logout does to the session and to others, and how    *)
(* many calls a budget lets pass in the time of a window.                  *)
(***************************************************************************)
EXTENDS AuthGate, DataLemmas, TLAPS

\* What comes after require_auth or the logout handler has begun.
Names == {"idle", "validate", "check", "limit", "handler", "validateAgain", "revoke"}

-----------------------------------------------------------------------------
(* Types.                                                                  *)

LEMMA TokenFacts ==
    ASSUME NEW q \in Requests
    PROVE  /\ q.op \in {"settings", "logout"}
           /\ q.token \in Tokens
           /\ q.token.exp \in Times
           /\ Budget(q) \in Budgets
           /\ Session(q.token) \in Sessions
  <1>1. q.token \in Tokens /\ q.token \in Claims /\ q.op \in {"settings", "logout"}
    BY GateAssumption DEF Requests
  <1>2. Budget(q) \in Budgets
    BY <1>1 DEF Budget, Budgets, Claims
  <1>3. Session(q.token) \in Sessions
    <2>1. CASE q.token.jti = {}
      BY <2>1 DEF Session, Sessions
    <2>2. CASE q.token.jti # {}
      <3>1. \E j \in Jtis : q.token.jti = {j}
        BY <1>1, <2>2 DEF Claims
      <3> QED
        BY <2>2, <3>1 DEF Session, Sessions
    <2> QED
      BY <2>1, <2>2
  <1> QED
    BY <1>1, <1>2, <1>3 DEF Claims

LEMMA RepliesSort ==
    /\ \A e \in AuthErrors : Answer(e) \in Replies
    /\ {RateLimited, Served, LoggedOut} \subseteq Replies
  BY DEF Replies

\* A call keeps its types when it goes on, and when it is answered.
CallTypes ==
    /\ at \in [Calls -> Names]
    /\ req \in [Calls -> {{}} \cup {{q} : q \in Requests}]
    /\ \A a \in answer : a \in [call : Calls, reply : Replies]
    /\ late \in [Calls -> BOOLEAN]

LEMMA GotoTypes ==
    ASSUME CallTypes, NEW c \in Calls, NEW step \in Names, Goto(c, step)
    PROVE  CallTypes'
  BY DEF CallTypes, Goto

LEMMA FinishTypes ==
    ASSUME CallTypes, ttl \in [Calls -> Times], NEW c \in Calls,
           NEW reply \in Replies, Finish(c, reply)
    PROVE  CallTypes' /\ ttl' \in [Calls -> Times]
  <1>1. CallTypes'
    BY DEF CallTypes, Finish, Names
  <1>2. 0 \in Times
    BY GateAssumption DEF Times
  <1> QED
    BY <1>1, <1>2 DEF Finish

\* What a call holds is one request.
LEMMA ReqFacts ==
    ASSUME CallTypes, NEW c \in Calls, NEW q \in req[c]
    PROVE  q \in Requests /\ req[c] = {q}
  BY DEF CallTypes

\* The stores and the clock.
StoreTypes ==
    /\ now \in Times
    /\ revoked \in [Sessions -> {{}} \cup {{e} : e \in 0 .. 2 * MaxTime}]
    /\ bucket \in [Budgets -> {{}} \cup
                    {{w} : w \in [count : 0 .. MaxRequests, start : Times]}]
    /\ loggedOut \subseteq Tokens
    /\ passed \in [Budgets -> [Ages -> Nat]]

LEMMA TypesSplit == TypeOK <=> CallTypes /\ StoreTypes /\ ttl \in [Calls -> Times]
  BY DEF TypeOK, CallTypes, StoreTypes, Names

LEMMA TypesJoin ==
    ASSUME CallTypes', StoreTypes', ttl' \in [Calls -> Times]
    PROVE  TypeOK'
  BY DEF TypeOK, CallTypes, StoreTypes, Names

LEMMA OpenTypes ==
    ASSUME StoreTypes, NEW b \in Budgets
    PROVE  Open(b) \in [count : 0 .. MaxRequests, start : Times]
  <1>1. CASE \E w \in bucket[b] : now - w.start < Window
    <2>1. PICK w \in bucket[b] : TRUE
      BY <1>1
    <2>2. bucket[b] = {w} /\ w \in [count : 0 .. MaxRequests, start : Times]
      BY <2>1 DEF StoreTypes
    <2> QED
      BY <1>1, <2>2 DEF Open
  <1>2. CASE ~ \E w \in bucket[b] : now - w.start < Window
    <2>1. [count |-> 0, start |-> now] \in [count : 0 .. MaxRequests, start : Times]
      BY GateAssumption DEF StoreTypes
    <2> QED
      BY <1>2, <2>1 DEF Open
  <1> QED
    BY <1>1, <1>2

\* The budget of a call: never overdrawn.
LEMMA AllowTypes ==
    ASSUME StoreTypes, NEW b \in Budgets, Allow(b) \/ Refuse(b),
           UNCHANGED <<now, revoked, loggedOut>>
    PROVE  StoreTypes'
  <1> DEFINE W == [count : 0 .. MaxRequests, start : Times]
  <1>1. PICK w \in W : w = Open(b)
    BY OpenTypes
  <1>2. CASE Refuse(b)
    <2>1. bucket' = [bucket EXCEPT ![b] = {w}] /\ passed' = passed
      BY <1>1, <1>2 DEF Refuse
    <2>2. bucket' \in [Budgets -> {{}} \cup {{v} : v \in W}]
      BY <2>1 DEF StoreTypes
    <2> QED
      BY <2>1, <2>2 DEF StoreTypes
  <1>3. CASE Allow(b)
    <2>1. /\ w.count < MaxRequests
          /\ bucket' = [bucket EXCEPT ![b] = {[w EXCEPT !.count = @ + 1]}]
          /\ passed' = [passed EXCEPT ![b][0] = @ + 1]
      BY <1>1, <1>3 DEF Allow, HasRoom
    <2>2. [w EXCEPT !.count = @ + 1] \in W
      BY <2>1, GateAssumption
    <2>3. bucket' \in [Budgets -> {{}} \cup {{v} : v \in W}]
      BY <2>1, <2>2 DEF StoreTypes
    <2>4. passed' \in [Budgets -> [Ages -> Nat]]
      <3>1. 0 \in Ages
        BY GateAssumption DEF Ages
      <3>2. passed[b] \in [Ages -> Nat] /\ passed[b][0] + 1 \in Nat
        BY <3>1 DEF StoreTypes
      <3>3. [passed[b] EXCEPT ![0] = @ + 1] \in [Ages -> Nat]
        BY <3>2
      <3>4. passed' = [passed EXCEPT ![b] = [passed[b] EXCEPT ![0] = @ + 1]]
        BY <2>1
      <3> QED
        BY <3>3, <3>4 DEF StoreTypes
    <2> QED
      BY <2>3, <2>4 DEF StoreTypes
  <1> QED
    BY <1>2, <1>3

LEMMA InitTypes == Init => TypeOK
  <1> SUFFICES ASSUME Init PROVE TypeOK
    OBVIOUS
  <1>1. 0 \in Times
    BY GateAssumption DEF Times
  <1> QED
    BY <1>1 DEF Init, TypeOK

LEMMA ArriveTypes ==
    ASSUME TypeOK, NEW c \in Calls, Arrive(c)
    PROVE  TypeOK'
  <1>1. StoreTypes'
    BY TypesSplit DEF Arrive, stores, StoreTypes
  <1>2. CASE Finish(c, Answer("missing_credentials"))
    <2>1. Answer("missing_credentials") \in Replies
      BY RepliesSort DEF AuthErrors
    <2> QED
      BY <1>1, <1>2, <2>1, FinishTypes, TypesSplit, TypesJoin
  <1>3. ASSUME NEW q \in Requests,
               at' = [at EXCEPT ![c] = "validate"],
               req' = [req EXCEPT ![c] = {q}],
               answer' = {},
               late' = [late EXCEPT ![c] = SameSession(q.token, loggedOut) # {}],
               ttl' = ttl
        PROVE  TypeOK'
    <2>1. CallTypes'
      BY <1>3, TypesSplit DEF CallTypes, Names
    <2> QED
      BY <1>1, <1>3, <2>1, TypesSplit, TypesJoin
  <1> QED
    BY <1>2, <1>3 DEF Arrive

LEMMA ValidateTypes ==
    ASSUME TypeOK, NEW c \in Calls, Validate(c)
    PROVE  TypeOK'
  <1>1. StoreTypes'
    BY TypesSplit DEF Validate, stores, StoreTypes
  <1>2. PICK q \in req[c] :
            \/ \E e \in AuthErrors : Finish(c, Answer(e))
            \/ Goto(c, "check") /\ ttl' = ttl
            \/ Goto(c, "revoke") /\ ttl' = [ttl EXCEPT ![c] = Remaining(q.token)]
    BY DEF Validate, AuthErrors
  <1>3. q \in Requests
    BY <1>2, TypesSplit, ReqFacts
  <1>4. Remaining(q.token) \in Times
    BY <1>3, TokenFacts, GateAssumption DEF Remaining, TypeOK, Times
  <1>5. ASSUME NEW e \in AuthErrors, Finish(c, Answer(e)) PROVE TypeOK'
    BY <1>1, <1>5, RepliesSort, FinishTypes, TypesSplit, TypesJoin
  <1>6. CASE Goto(c, "check") /\ ttl' = ttl
    BY <1>1, <1>6, GotoTypes, TypesSplit, TypesJoin DEF Names
  <1>7. CASE Goto(c, "revoke") /\ ttl' = [ttl EXCEPT ![c] = Remaining(q.token)]
    <2>1. CallTypes'
      BY <1>7, GotoTypes, TypesSplit, TypesJoin DEF Names
    <2>2. ttl' \in [Calls -> Times]
      BY <1>4, <1>7 DEF TypeOK
    <2> QED
      BY <1>1, <2>1, <2>2, TypesJoin
  <1> QED
    BY <1>2, <1>5, <1>6, <1>7

LEMMA CheckRevokedTypes ==
    ASSUME TypeOK, NEW c \in Calls, CheckRevoked(c)
    PROVE  TypeOK'
  <1>1. PICK q \in req[c] :
            \/ Finish(c, Answer("revoked")) /\ revoked' = revoked
            \/ /\ revoked' = [revoked EXCEPT ![Session(q.token)] = {}]
               /\ Goto(c, "limit") /\ ttl' = ttl
    BY DEF CheckRevoked
  <1>2. StoreTypes'
    BY <1>1, TypesSplit DEF CheckRevoked, StoreTypes
  <1>3. CASE Finish(c, Answer("revoked"))
    <2>1. Answer("revoked") \in Replies
      BY RepliesSort DEF AuthErrors
    <2> QED
      BY <1>2, <1>3, <2>1, FinishTypes, TypesSplit, TypesJoin
  <1>4. CASE Goto(c, "limit") /\ ttl' = ttl
    BY <1>2, <1>4, GotoTypes, TypesSplit, TypesJoin DEF Names
  <1> QED
    BY <1>1, <1>3, <1>4

LEMMA LimitTypes ==
    ASSUME TypeOK, NEW c \in Calls, Limit(c)
    PROVE  TypeOK'
  <1>1. PICK q \in req[c] :
            /\ Refuse(Budget(q)) \/ Allow(Budget(q))
            /\ \/ Finish(c, RateLimited)
               \/ \E step \in {"validateAgain", "handler"} :
                     Goto(c, step) /\ ttl' = ttl
    BY DEF Limit
  <1>2. StoreTypes'
    <2>1. Budget(q) \in Budgets
      BY <1>1, TypesSplit, ReqFacts, TokenFacts
    <2> QED
      BY <1>1, <2>1, TypesSplit, AllowTypes DEF Limit
  <1>3. CASE Finish(c, RateLimited)
    BY <1>2, <1>3, RepliesSort, FinishTypes, TypesSplit, TypesJoin
  <1>4. ASSUME NEW step \in {"validateAgain", "handler"}, Goto(c, step), ttl' = ttl
        PROVE  TypeOK'
    BY <1>2, <1>4, GotoTypes, TypesSplit, TypesJoin DEF Names
  <1> QED
    BY <1>1, <1>3, <1>4

LEMMA HandleTypes ==
    ASSUME TypeOK, NEW c \in Calls, Handle(c)
    PROVE  TypeOK'
  <1>1. StoreTypes'
    BY TypesSplit DEF Handle, stores, StoreTypes
  <1> QED
    BY <1>1, RepliesSort, FinishTypes, TypesSplit, TypesJoin DEF Handle

LEMMA RevokeTypes ==
    ASSUME TypeOK, NEW c \in Calls, Revoke(c)
    PROVE  TypeOK'
  <1>1. PICK q \in req[c] :
            /\ revoked' = [revoked EXCEPT ![Session(q.token)] = {now + ttl[c]}]
            /\ loggedOut' = loggedOut \cup {q.token}
    BY DEF Revoke, Entry
  <1>2. q \in Requests
    BY <1>1, TypesSplit, ReqFacts
  <1>3. now + ttl[c] \in 0 .. 2 * MaxTime
    BY GateAssumption DEF TypeOK, Times
  <1>4. revoked' \in [Sessions -> {{}} \cup {{e} : e \in 0 .. 2 * MaxTime}]
    BY <1>1, <1>3 DEF TypeOK
  <1>5. StoreTypes'
    BY <1>1, <1>2, <1>4, TokenFacts, TypesSplit DEF Revoke, StoreTypes
  <1> QED
    BY <1>5, RepliesSort, FinishTypes, TypesSplit, TypesJoin DEF Revoke

LEMMA TickTypes ==
    ASSUME TypeOK, Tick
    PROVE  TypeOK'
  <1>1. now' \in Times
    BY GateAssumption DEF Tick, TypeOK, Times
  <1>2. passed' \in [Budgets -> [Ages -> Nat]]
    <2>1. \A b \in Budgets : \A n \in Ages :
            (IF n = 0 THEN 0 ELSE passed[b][n - 1]) \in Nat
      <3> TAKE b \in Budgets
      <3> TAKE n \in Ages
      <3>1. n # 0 => n - 1 \in Ages
        BY GateAssumption DEF Ages
      <3> QED
        BY <3>1 DEF TypeOK
    <2> QED
      BY <2>1 DEF Tick
  <1> QED
    BY <1>1, <1>2 DEF Tick, TypeOK, stores

LEMMA RestartTypes ==
    ASSUME TypeOK, Restart
    PROVE  TypeOK'
  <1>1. 0 \in Times
    BY GateAssumption DEF Times
  <1> QED
    BY <1>1 DEF Restart, TypeOK

LEMMA TypesKept ==
    ASSUME TypeOK, [Next]_vars
    PROVE  TypeOK'
  <1>1. CASE UNCHANGED vars
    BY <1>1 DEF vars, stores, TypeOK
  <1> QED
    BY <1>1, ArriveTypes, ValidateTypes, CheckRevokedTypes, LimitTypes, HandleTypes,
       RevokeTypes, TickTypes, RestartTypes DEF Next

\* Every variable keeps its type: in particular no budget lets more than
\* MaxRequests calls pass in one of its windows (rate_limit.rs, allow).
THEOREM TypeCorrect == Spec => []TypeOK
  <1> QED
    BY InitTypes, TypesKept, PTL DEF Spec

-----------------------------------------------------------------------------
(* Logout.                                                                 *)

\* A session that was logged out has an entry that outlives one of its tokens
\* that were logged out, or such a token has expired.
LogoutKept ==
    \A u \in loggedOut : \E v \in SameSession(u, loggedOut) :
        v.exp <= now \/ \E e \in revoked[Session(v)] : v.exp <= e

\* There are no other entries.
EntriesByLogout ==
    \A s \in Sessions : revoked[s] # {} => \E u \in loggedOut : Session(u) = s

\* A logout about to revoke holds a life that reaches its token's exp.
LifeReaches ==
    \A c \in Calls : \A q \in req[c] :
        at[c] = "revoke" => q.token.exp <= now + ttl[c]

\* A late call has met a logout of its session.
LateKnown ==
    \A c \in Calls : \A q \in req[c] :
        late[c] => SameSession(q.token, loggedOut) # {}

Invariant == TypeOK /\ LogoutKept /\ EntriesByLogout /\ LifeReaches /\ LateKnown

LEMMA InitInvariant == Init => Invariant
  BY InitTypes
     DEF Init, Invariant, LogoutKept, EntriesByLogout, LifeReaches, LateKnown

\* The steps of a call that leave the clock and the revocations alone.
LEMMA QuietSteps ==
    ASSUME NEW c \in Calls, Arrive(c) \/ Validate(c) \/ Limit(c) \/ Handle(c)
    PROVE  UNCHANGED <<now, revoked, loggedOut>>
  BY DEF Arrive, Validate, Limit, Handle, stores

LEMMA QuietKeeps ==
    ASSUME LogoutKept, EntriesByLogout, UNCHANGED <<now, revoked, loggedOut>>
    PROVE  LogoutKept' /\ EntriesByLogout'
  BY DEF LogoutKept, EntriesByLogout, SameSession, Session

\* Only an entry that has expired is removed by a check.
LEMMA CheckRevokedKeeps ==
    ASSUME Invariant, NEW c \in Calls, CheckRevoked(c)
    PROVE  LogoutKept' /\ EntriesByLogout'
  <1>1. PICK q \in req[c] :
            \/ revoked' = revoked
            \/ /\ \A e \in revoked[Session(q.token)] : e <= now
               /\ revoked' = [revoked EXCEPT ![Session(q.token)] = {}]
    <2>1. \A s \in Sessions : \A e \in revoked[s] : e \in Nat
      BY GateAssumption DEF Invariant, TypeOK
    <2>2. \A q \in req[c] : Session(q.token) \in Sessions
      BY TypesSplit, ReqFacts, TokenFacts DEF Invariant
    <2>3. now \in Nat
      BY DEF Invariant, TypeOK, Times
    <2> QED
      BY <2>1, <2>2, <2>3 DEF CheckRevoked, Holds
  <1>2. now' = now /\ loggedOut' = loggedOut
    BY DEF CheckRevoked
  <1>3. CASE revoked' = revoked
    BY <1>2, <1>3, QuietKeeps DEF Invariant
  <1>4. CASE /\ \A e \in revoked[Session(q.token)] : e <= now
             /\ revoked' = [revoked EXCEPT ![Session(q.token)] = {}]
    <2>1. \A s \in Sessions : revoked'[s] = IF s = Session(q.token) THEN {} ELSE revoked[s]
      BY <1>4 DEF Invariant, TypeOK
    <2>2. EntriesByLogout'
      BY <1>2, <2>1 DEF Invariant, EntriesByLogout, Session
    <2>3. ASSUME NEW u \in loggedOut
          PROVE  \E v \in SameSession(u, loggedOut) :
                    v.exp <= now \/ \E e \in revoked'[Session(v)] : v.exp <= e
      <3>1. PICK v \in SameSession(u, loggedOut) :
                v.exp <= now \/ \E e \in revoked[Session(v)] : v.exp <= e
        BY DEF Invariant, LogoutKept
      <3>2. v \in Tokens /\ v.exp \in Nat /\ Session(v) \in Sessions
        <4>1. [op |-> "logout", token |-> v] \in Requests
          BY <3>1 DEF Invariant, TypeOK, SameSession, Requests
        <4> QED
          BY <4>1, TokenFacts DEF Times
      <3>3. CASE Session(v) = Session(q.token)
        <4>1. \A e \in revoked[Session(v)] : e \in Nat /\ e <= now
          BY <1>4, <3>2, <3>3, GateAssumption DEF Invariant, TypeOK
        <4>2. v.exp <= now
          BY <3>1, <3>2, <4>1 DEF Invariant, TypeOK, Times
        <4> QED
          BY <3>1, <4>2
      <3>4. CASE Session(v) # Session(q.token)
        BY <2>1, <3>1, <3>2, <3>4
      <3> QED
        BY <3>3, <3>4
    <2> QED
      BY <1>2, <2>2, <2>3 DEF LogoutKept, SameSession, Session
  <1> QED
    BY <1>1, <1>3, <1>4

LEMMA RevokeKeeps ==
    ASSUME Invariant, NEW c \in Calls, Revoke(c)
    PROVE  LogoutKept' /\ EntriesByLogout'
  <1>1. PICK q \in req[c] :
            /\ revoked' = [revoked EXCEPT ![Session(q.token)] = {now + ttl[c]}]
            /\ loggedOut' = loggedOut \cup {q.token}
    BY DEF Revoke, Entry
  <1>2. now' = now
    BY DEF Revoke
  <1>3. Session(q.token) \in Sessions
    BY <1>1, TypesSplit, ReqFacts, TokenFacts DEF Invariant
  <1>4. q.token.exp <= now + ttl[c]
    BY <1>1 DEF Invariant, LifeReaches, Revoke
  <1>5. \A s \in Sessions :
            revoked'[s] = IF s = Session(q.token) THEN {now + ttl[c]} ELSE revoked[s]
    BY <1>1 DEF Invariant, TypeOK
  <1>6. EntriesByLogout'
    BY <1>1, <1>5 DEF Invariant, EntriesByLogout, Session
  <1>7. ASSUME NEW u \in loggedOut'
        PROVE  \E v \in SameSession(u, loggedOut') :
                  v.exp <= now \/ \E e \in revoked'[Session(v)] : v.exp <= e
    <2>1. CASE Session(u) = Session(q.token)
      <3>1. q.token \in SameSession(u, loggedOut')
        BY <1>1, <2>1 DEF SameSession
      <3> QED
        BY <1>3, <1>4, <1>5, <3>1
    <2>2. CASE Session(u) # Session(q.token)
      <3>1. u \in loggedOut
        BY <1>1, <2>2
      <3>2. PICK v \in SameSession(u, loggedOut) :
                v.exp <= now \/ \E e \in revoked[Session(v)] : v.exp <= e
        BY <3>1 DEF Invariant, LogoutKept
      <3>3. v \in SameSession(u, loggedOut') /\ Session(v) # Session(q.token)
        BY <1>1, <2>2, <3>2 DEF SameSession
      <3>4. revoked'[Session(v)] = revoked[Session(v)]
        BY <1>1, <3>3 DEF Invariant, TypeOK
      <3> QED
        BY <3>2, <3>3, <3>4
    <2> QED
      BY <2>1, <2>2
  <1>8. LogoutKept'
    BY <1>2, <1>7 DEF LogoutKept, SameSession, Session
  <1> QED
    BY <1>6, <1>8

LEMMA TickKeeps ==
    ASSUME Invariant, Tick
    PROVE  LogoutKept' /\ EntriesByLogout'
  <1>1. now \in Nat /\ now' = now + 1 /\ revoked' = revoked /\ loggedOut' = loggedOut
    BY DEF Invariant, TypeOK, Times, Tick, stores
  <1>2. \A v \in loggedOut : v.exp \in Nat
    <2> TAKE v \in loggedOut
    <2>1. [op |-> "logout", token |-> v] \in Requests
      BY DEF Invariant, TypeOK, Requests
    <2> QED
      BY <2>1, TokenFacts DEF Times
  <1>3. \A v \in loggedOut : v.exp <= now => v.exp <= now'
    BY <1>1, <1>2
  <1> QED
    BY <1>1, <1>3 DEF Invariant, LogoutKept, EntriesByLogout, SameSession, Session

LEMMA RestartKeeps ==
    ASSUME Restart
    PROVE  LogoutKept' /\ EntriesByLogout'
  BY DEF Restart, LogoutKept, EntriesByLogout

LEMMA SessionsKept ==
    ASSUME Invariant, [Next]_vars
    PROVE  LogoutKept' /\ EntriesByLogout'
  <1>1. CASE UNCHANGED vars
    BY <1>1, QuietKeeps DEF vars, stores, Invariant
  <1>2. ASSUME NEW c \in Calls, Arrive(c) \/ Validate(c) \/ Limit(c) \/ Handle(c)
        PROVE  LogoutKept' /\ EntriesByLogout'
    BY <1>2, QuietSteps, QuietKeeps DEF Invariant
  <1> QED
    BY <1>1, <1>2, CheckRevokedKeeps, RevokeKeeps, TickKeeps, RestartKeeps DEF Next

-----------------------------------------------------------------------------
(* What a call knows.                                                      *)

KnownTo(c) ==
    \A q \in req[c] :
        /\ at[c] = "revoke" => q.token.exp <= now + ttl[c]
        /\ late[c] => SameSession(q.token, loggedOut) # {}

LEMMA SessionsGrow ==
    ASSUME NEW t, loggedOut \subseteq loggedOut', SameSession(t, loggedOut) # {}
    PROVE  SameSession(t, loggedOut') # {}
  BY DEF SameSession

\* What KnownTo says of a call that holds one request after the step.
LEMMA KnowsOne ==
    ASSUME NEW c \in Calls, NEW q, req'[c] = {q},
           at'[c] = "revoke" => q.token.exp <= now' + ttl'[c],
           late'[c] => SameSession(q.token, loggedOut') # {}
    PROVE  KnownTo(c)'
  BY DEF KnownTo

\* A step of another call leaves it alone.
LEMMA OthersKnow ==
    ASSUME Invariant, NEW c \in Calls, NEW d \in Calls, c # d,
           \/ Arrive(c) \/ Validate(c) \/ CheckRevoked(c)
           \/ Limit(c) \/ Handle(c) \/ Revoke(c)
    PROVE  /\ now' = now /\ loggedOut \subseteq loggedOut'
           /\ at'[d] = at[d] /\ req'[d] = req[d]
           /\ ttl'[d] = ttl[d] /\ late'[d] = late[d]
  <1> USE DEF Invariant, TypeOK, Goto, Finish, stores
  <1>1. CASE Arrive(c)
    BY <1>1 DEF Arrive
  <1>2. CASE Validate(c)
    BY <1>2 DEF Validate
  <1>3. CASE CheckRevoked(c)
    BY <1>3 DEF CheckRevoked
  <1>4. CASE Limit(c)
    BY <1>4 DEF Limit
  <1>5. CASE Handle(c)
    BY <1>5 DEF Handle
  <1>6. CASE Revoke(c)
    BY <1>6 DEF Revoke
  <1> QED
    BY <1>1, <1>2, <1>3, <1>4, <1>5, <1>6

\* A call that goes on to a step other than the revocation knows what it knew.
LEMMA GoesOnKnowing ==
    ASSUME Invariant, NEW c \in Calls, NEW step \in Names, step # "revoke",
           Goto(c, step), loggedOut' = loggedOut
    PROVE  KnownTo(c)'
  <1>1. at'[c] = step /\ req' = req /\ late' = late
    BY DEF Invariant, TypeOK, Goto
  <1> QED
    BY <1>1 DEF Invariant, LateKnown, KnownTo, SameSession, Session

LEMMA FinishKnows ==
    ASSUME Invariant, NEW c \in Calls, NEW reply, Finish(c, reply)
    PROVE  KnownTo(c)'
  BY DEF Invariant, TypeOK, Finish, KnownTo

LEMMA ArriveKnows ==
    ASSUME Invariant, NEW c \in Calls, Arrive(c)
    PROVE  KnownTo(c)'
  <1>1. CASE Finish(c, Answer("missing_credentials"))
    BY <1>1, FinishKnows
  <1>2. ASSUME NEW q \in Requests,
               at' = [at EXCEPT ![c] = "validate"],
               req' = [req EXCEPT ![c] = {q}],
               late' = [late EXCEPT ![c] = SameSession(q.token, loggedOut) # {}],
               loggedOut' = loggedOut
        PROVE  KnownTo(c)'
    <2>1. /\ at'[c] = "validate" /\ req'[c] = {q}
          /\ late'[c] = (SameSession(q.token, loggedOut) # {})
      BY <1>2 DEF Invariant, TypeOK
    <2> QED
      BY <1>2, <2>1, KnowsOne
  <1> QED
    BY <1>1, <1>2 DEF Arrive

LEMMA ValidateKnows ==
    ASSUME Invariant, NEW c \in Calls, Validate(c)
    PROVE  KnownTo(c)'
  <1>1. PICK q \in req[c] :
            \/ \E e \in AuthErrors : Finish(c, Answer(e))
            \/ Goto(c, "check")
            \/ Goto(c, "revoke") /\ ttl' = [ttl EXCEPT ![c] = Remaining(q.token)]
    BY DEF Validate, AuthErrors
  <1>2. now' = now /\ loggedOut' = loggedOut
    BY DEF Validate
  <1>3. CASE \E e \in AuthErrors : Finish(c, Answer(e))
    BY <1>3, FinishKnows
  <1>4. CASE Goto(c, "check")
    BY <1>2, <1>4, GoesOnKnowing DEF Names
  <1>5. CASE Goto(c, "revoke") /\ ttl' = [ttl EXCEPT ![c] = Remaining(q.token)]
    <2>1. q \in Requests /\ req[c] = {q}
      BY <1>1, TypesSplit, ReqFacts DEF Invariant
    <2>2. q.token.exp \in Nat /\ now \in Nat
      BY <2>1, TokenFacts DEF Times, Invariant, TypeOK
    <2>3. req'[c] = {q} /\ ttl'[c] = Remaining(q.token) /\ late' = late
      BY <1>5, <2>1 DEF Invariant, TypeOK, Goto
    <2>4. q.token.exp <= now' + ttl'[c]
      BY <1>2, <2>2, <2>3 DEF Remaining
    <2>5. late[c] => SameSession(q.token, loggedOut) # {}
      BY <2>1 DEF Invariant, LateKnown
    <2> QED
      BY <1>2, <2>3, <2>4, <2>5, KnowsOne
  <1> QED
    BY <1>1, <1>3, <1>4, <1>5

LEMMA OwnStepKnows ==
    ASSUME Invariant, NEW c \in Calls,
           \/ Arrive(c) \/ Validate(c) \/ CheckRevoked(c)
           \/ Limit(c) \/ Handle(c) \/ Revoke(c)
    PROVE  KnownTo(c)'
  <1>1. CASE CheckRevoked(c)
    BY <1>1, FinishKnows, GoesOnKnowing DEF CheckRevoked, Names
  <1>2. CASE Limit(c)
    BY <1>2, FinishKnows, GoesOnKnowing DEF Limit, Names
  <1>3. CASE Handle(c) \/ Revoke(c)
    BY <1>3, FinishKnows DEF Handle, Revoke
  <1> QED
    BY <1>1, <1>2, <1>3, ArriveKnows, ValidateKnows

LEMMA KnowledgeKept ==
    ASSUME Invariant, [Next]_vars
    PROVE  \A d \in Calls : KnownTo(d)'
  <1> TAKE d \in Calls
  <1>1. \A q \in req[d] : q.token.exp \in Nat
    BY TypesSplit, ReqFacts, TokenFacts DEF Invariant, Times
  <1>2. now \in Nat /\ ttl[d] \in Nat
    BY DEF Invariant, TypeOK, Times
  <1>3. ASSUME NEW c \in Calls,
               \/ Arrive(c) \/ Validate(c) \/ CheckRevoked(c)
               \/ Limit(c) \/ Handle(c) \/ Revoke(c)
        PROVE  KnownTo(d)'
    <2>1. CASE c = d
      BY <1>3, <2>1, OwnStepKnows
    <2>2. CASE c # d
      <3>1. /\ now' = now /\ loggedOut \subseteq loggedOut'
            /\ at'[d] = at[d] /\ req'[d] = req[d]
            /\ ttl'[d] = ttl[d] /\ late'[d] = late[d]
        BY <1>3, <2>2, OthersKnow
      <3>2. \A q \in req[d] :
                late[d] => SameSession(q.token, loggedOut') # {}
        BY <3>1, SessionsGrow DEF Invariant, LateKnown
      <3> QED
        BY <3>1, <3>2 DEF Invariant, LifeReaches, KnownTo
    <2> QED
      BY <2>1, <2>2
  <1>4. CASE Tick
    <2>1. now' = now + 1 /\ UNCHANGED <<at, req, ttl, late, loggedOut>>
      BY <1>4 DEF Tick
    <2>2. \A q \in req[d] : q.token.exp <= now + ttl[d] => q.token.exp <= now' + ttl[d]
      BY <1>1, <1>2, <2>1
    <2> QED
      BY <2>1, <2>2
         DEF Invariant, LifeReaches, LateKnown, KnownTo, SameSession, Session
  <1>5. CASE Restart
    BY <1>5 DEF Restart, KnownTo
  <1>6. CASE UNCHANGED vars
    BY <1>6 DEF vars, Invariant, LifeReaches, LateKnown, KnownTo, SameSession, Session
  <1> QED
    BY <1>3, <1>4, <1>5, <1>6 DEF Next

LEMMA InvariantKept ==
    ASSUME Invariant, [Next]_vars
    PROVE  Invariant'
  <1>1. TypeOK'
    BY TypesKept DEF Invariant
  <1>2. LifeReaches' /\ LateKnown'
    BY KnowledgeKept DEF KnownTo, LifeReaches, LateKnown
  <1> QED
    BY <1>1, <1>2, SessionsKept DEF Invariant

LEMMA InvariantHolds == Spec => []Invariant
  <1> QED
    BY InitInvariant, InvariantKept, PTL DEF Spec

-----------------------------------------------------------------------------
(* Theorems.                                                               *)

\* A call leaves the revocation check by the check only, or by a restart.
LEMMA LeavesCheck ==
    ASSUME TypeOK, Next, NEW c \in Calls, at[c] = "check", at'[c] # "check"
    PROVE  CheckRevoked(c) \/ Restart
  <1> USE DEF TypeOK, Goto, Finish
  <1>1. ASSUME NEW d \in Calls,
               Arrive(d) \/ Validate(d) \/ Limit(d) \/ Handle(d) \/ Revoke(d)
        PROVE  FALSE
    <2>1. at[d] # "check"
      BY <1>1 DEF Arrive, Validate, Limit, Handle, Revoke
    <2>2. \A e \in Calls : e # d => at'[e] = at[e]
      BY <1>1 DEF Arrive, Validate, Limit, Handle, Revoke
    <2> QED
      BY <2>1, <2>2
  <1>2. ASSUME NEW d \in Calls, CheckRevoked(d) PROVE d = c
    BY <1>2 DEF CheckRevoked
  <1>3. ~ Tick
    BY DEF Tick
  <1> QED
    BY <1>1, <1>2, <1>3 DEF Next

\* Reuse of a token after a logout of its session was answered is rejected, at
\* least until a token of the session that was logged out expires (auth.rs,
\* logout, and revocation.rs), unless the instance restarts.
THEOREM LogoutHolds == Spec => LoggedOutStaysOut
  <1> DEFINE Step == \A c \in Calls : Admitted(c) /\ late[c] =>
                        \E q \in req[c] :
                            \E u \in SameSession(q.token, loggedOut) : now >= u.exp
  <1>1. Invariant /\ [Next]_vars => [Step]_vars
    <2> SUFFICES ASSUME Invariant, Next, NEW c \in Calls, Admitted(c), late[c]
                 PROVE  \E q \in req[c] :
                            \E u \in SameSession(q.token, loggedOut) : now >= u.exp
      OBVIOUS
    <2>1. at[c] = "check" /\ at'[c] = "limit"
      BY DEF Admitted
    <2>2. CheckRevoked(c)
      <3>1. ~ Restart
        BY <2>1 DEF Restart
      <3> QED
        BY <2>1, <3>1, LeavesCheck DEF Invariant
    <2>3. PICK q \in req[c] : \A e \in revoked[Session(q.token)] : ~ Holds(e)
      BY <2>1, <2>2 DEF CheckRevoked, Finish, Invariant, TypeOK
    <2>4. PICK u \in loggedOut : Session(u) = Session(q.token)
      BY <2>3 DEF Invariant, LateKnown, SameSession
    <2>5. PICK v \in SameSession(u, loggedOut) :
              v.exp <= now \/ \E e \in revoked[Session(v)] : v.exp <= e
      BY <2>4 DEF Invariant, LogoutKept
    <2>6. v \in SameSession(q.token, loggedOut) /\ Session(v) = Session(q.token)
      BY <2>4, <2>5 DEF SameSession
    <2>7. v.exp \in Nat /\ now \in Nat /\ Session(v) \in Sessions
      <3>1. [op |-> "logout", token |-> v] \in Requests
        BY <2>6 DEF Invariant, TypeOK, SameSession, Requests
      <3> QED
        BY <3>1, TokenFacts DEF Times, Invariant, TypeOK
    <2>8. \A e \in revoked[Session(v)] : e \in Nat /\ e <= now
      BY <2>3, <2>6, <2>7, GateAssumption DEF Invariant, TypeOK, Holds
    <2>9. now >= v.exp
      BY <2>5, <2>7, <2>8
    <2> QED
      BY <2>6, <2>9
  <1> QED
    BY <1>1, InvariantHolds, PTL DEF Spec, LoggedOutStaysOut

\* No call is refused as revoked unless the instance has answered a logout of
\* its session: a refused or failed logout revokes nothing (auth/rest.rs,
\* logout), and no step of another session does.  The tokens without a jti are
\* one session, whoever they belong to.
THEOREM OnlyLogoutRevokes == Spec => RevokedOnlyByLogout
  <1> DEFINE Step == \A c \in Calls :
                        at[c] = "check" /\ AnsweredWith(c, Answer("revoked")) =>
                            \E q \in req[c] : SameSession(q.token, loggedOut) # {}
  <1>1. Invariant /\ [Next]_vars => [Step]_vars
    <2> SUFFICES ASSUME Invariant, Next, NEW c \in Calls,
                        at[c] = "check", AnsweredWith(c, Answer("revoked"))
                 PROVE  \E q \in req[c] : SameSession(q.token, loggedOut) # {}
      OBVIOUS
    <2>1. CheckRevoked(c)
      <3> USE DEF AnsweredWith, Goto, Finish
      <3>1. ASSUME NEW d \in Calls,
                   Arrive(d) \/ Validate(d) \/ Limit(d) \/ Handle(d) \/ Revoke(d)
            PROVE  FALSE
        <4>1. at[d] # "check"
          BY <3>1 DEF Arrive, Validate, Limit, Handle, Revoke
        <4>2. \A a \in answer' : a.call = d
          BY <3>1 DEF Arrive, Validate, Limit, Handle, Revoke
        <4> QED
          BY <4>1, <4>2
      <3>2. ASSUME NEW d \in Calls, CheckRevoked(d) PROVE d = c
        <4>1. \A a \in answer' : a.call = d
          BY <3>2 DEF CheckRevoked
        <4>2. \E a \in answer' : a.call = c
          OBVIOUS
        <4> QED
          BY <4>1, <4>2
      <3>3. ~ Tick /\ ~ Restart
        BY DEF Tick, Restart
      <3> QED
        BY <3>1, <3>2, <3>3 DEF Next
    <2>2. PICK q \in req[c] : revoked[Session(q.token)] # {}
      BY <2>1 DEF CheckRevoked, AnsweredWith, Goto
    <2>3. Session(q.token) \in Sessions
      BY <2>2, TypesSplit, ReqFacts, TokenFacts DEF Invariant
    <2>4. PICK u \in loggedOut : Session(u) = Session(q.token)
      BY <2>2, <2>3 DEF Invariant, EntriesByLogout
    <2> QED
      BY <2>4 DEF SameSession
  <1> QED
    BY <1>1, InvariantHolds, PTL DEF Spec, RevokedOnlyByLogout

-----------------------------------------------------------------------------
(* The rate limiter: one budget.  f is what it let pass, n ticks ago; bk   *)
(* its bucket; t the time.                                                 *)

WindowFits(f, w, t) ==
    /\ w.start <= t
    /\ MaxRequests > 0 =>
          IF t - w.start < Window
          THEN /\ f[t - w.start] > 0
               /\ Prefix(f, (t - w.start) + 1) = w.count
               /\ Prefix(f, Window) < w.count + MaxRequests
          ELSE /\ Prefix(f, Window) < MaxRequests
               /\ \A n \in Ages : n + Window <= t - w.start => f[n] = 0

BudgetFits(f, bk, t) ==
    /\ bk = {} \/ MaxRequests = 0 => \A n \in Ages : f[n] = 0
    /\ \A w \in bk : WindowFits(f, w, t)

Windows == [count : 0 .. MaxRequests, start : Nat]

LEMMA PrefixFacts ==
    ASSUME NEW f \in [Ages -> Nat]
    PROVE  /\ Ages = 0 .. Window - 1 /\ Window \in Nat \ {0} /\ MaxRequests \in Nat
           /\ \A k \in 0 .. Window - 1 : f[k] \in Nat
           /\ \A n \in 0 .. Window : Prefix(f, n) \in Nat
           /\ \A n \in 0 .. Window : Prefix(f, n) <= Prefix(f, Window)
           /\ Prefix(f, Window) = Prefix(f, Window - 1) + f[Window - 1]
           /\ Prefix(f, 1) = f[0]
  <1>1. Ages = 0 .. Window - 1 /\ Window \in Nat \ {0} /\ MaxRequests \in Nat
    BY GateAssumption DEF Ages
  <1>2. \A k \in 0 .. Window - 1 : f[k] \in Nat
    BY <1>1
  <1>3. /\ Prefix(f, 0) = 0
        /\ \A n \in 0 .. Window : Prefix(f, n) \in Nat
        /\ \A n \in 0 .. Window - 1 : Prefix(f, n + 1) = Prefix(f, n) + f[n]
    BY <1>1, <1>2, PrefixStep
  <1>4. \A n \in 0 .. Window : Prefix(f, n) <= Prefix(f, Window)
    BY <1>1, <1>2, PrefixGrows
  <1>5. Prefix(f, (Window - 1) + 1) = Prefix(f, Window - 1) + f[Window - 1]
    BY <1>1, <1>3
  <1>6. Prefix(f, 0 + 1) = Prefix(f, 0) + f[0] /\ f[0] \in Nat
    BY <1>1, <1>2, <1>3
  <1>7. (Window - 1) + 1 = Window
    BY <1>1
  <1> QED
    BY <1>1, <1>2, <1>3, <1>4, <1>5, <1>6, <1>7

\* A tick: what passed is a tick older.  A window that ends takes its first call
\* out of what passed lately.
LEMMA TickFits ==
    ASSUME NEW f \in [Ages -> Nat], NEW t \in Nat, NEW bk \in SUBSET Windows,
           BudgetFits(f, bk, t),
           NEW g, g = [n \in Ages |-> IF n = 0 THEN 0 ELSE f[n - 1]]
    PROVE  BudgetFits(g, bk, t + 1)
  <1>1. /\ g[0] = 0
        /\ \A k \in 1 .. Window - 1 : g[k] = f[k - 1]
    BY PrefixFacts
  <1>2. ASSUME NEW n \in 0 .. Window - 1
        PROVE  Prefix(g, n + 1) = Prefix(f, n)
    <2>1. Window \in Nat /\ \A k \in 0 .. Window - 1 : f[k] \in Nat
      BY PrefixFacts
    <2> QED
      BY <1>1, <2>1, PrefixMoved
  <1>3. /\ Window \in Nat \ {0} /\ MaxRequests \in Nat
        /\ Window - 1 \in 0 .. Window - 1 /\ (Window - 1) + 1 = Window
    BY PrefixFacts
  <1>4. Prefix(g, Window) = Prefix(f, Window - 1)
    BY <1>2, <1>3
  <1>5. /\ Prefix(g, Window) \in Nat /\ Prefix(f, Window) \in Nat
        /\ Prefix(g, Window) <= Prefix(f, Window)
    BY <1>3, <1>4, PrefixFacts
  <1>6. bk = {} \/ MaxRequests = 0 => \A n \in Ages : g[n] = 0
    <2> SUFFICES ASSUME \A n \in Ages : f[n] = 0, NEW n \in Ages
                 PROVE  g[n] = 0
      BY DEF BudgetFits
    <2>1. n # 0 => n - 1 \in Ages
      BY PrefixFacts
    <2> QED
      BY <2>1
  <1>7. ASSUME NEW w \in bk, MaxRequests > 0
        PROVE  WindowFits(g, w, t + 1)
    <2> DEFINE age == t - w.start
    <2>1. w.start \in Nat /\ w.count \in 0 .. MaxRequests
      BY DEF Windows
    <2>2. age \in Nat /\ (t + 1) - w.start = age + 1 /\ w.start <= t + 1
      BY <2>1 DEF BudgetFits, WindowFits
    <2>3. CASE age < Window
      <3>1. /\ f[age] > 0
            /\ Prefix(f, age + 1) = w.count
            /\ Prefix(f, Window) < w.count + MaxRequests
        BY <1>7, <2>3 DEF BudgetFits, WindowFits
      <3> HIDE DEF age
      <3>2. CASE age + 1 < Window
        <4>1. age + 1 \in 1 .. Window - 1 /\ age + 1 \in 0 .. Window - 1
          BY <2>2, <3>2, PrefixFacts
        <4>2. g[age + 1] = f[age]
          BY <1>1, <2>2, <4>1
        <4>3. Prefix(g, (age + 1) + 1) = w.count
          BY <1>2, <3>1, <4>1
        <4>4. Prefix(g, Window) < w.count + MaxRequests
          BY <1>3, <1>5, <2>1, <3>1
        <4> QED
          BY <2>2, <3>1, <3>2, <4>2, <4>3, <4>4 DEF WindowFits
      <3>3. CASE ~ (age + 1 < Window)
        <4>1. age = Window - 1
          BY <2>2, <2>3, <3>3, PrefixFacts
        <4>2. Prefix(f, Window - 1) + f[Window - 1] = w.count
          BY <1>3, <3>1, <4>1, PrefixFacts
        <4>3. Prefix(f, Window - 1) \in Nat /\ f[Window - 1] \in Nat
          BY PrefixFacts
        <4>4. Prefix(g, Window) < MaxRequests
          BY <1>3, <1>4, <2>1, <3>1, <4>1, <4>2, <4>3
        <4>5. \A n \in Ages : n + Window <= age + 1 => n = 0
          BY <4>1, PrefixFacts
        <4> QED
          BY <1>1, <2>2, <3>3, <4>4, <4>5 DEF WindowFits
      <3> QED
        BY <3>2, <3>3
    <2>4. CASE ~ (age < Window)
      <3>1. /\ Prefix(f, Window) < MaxRequests
            /\ \A n \in Ages : n + Window <= age => f[n] = 0
        BY <1>7, <2>4 DEF BudgetFits, WindowFits
      <3> HIDE DEF age
      <3>2. Prefix(g, Window) < MaxRequests
        BY <1>3, <1>5, <3>1
      <3>3. ASSUME NEW n \in Ages, n + Window <= age + 1
            PROVE  g[n] = 0
        <4>1. CASE n = 0
          BY <1>1, <4>1
        <4>2. CASE n # 0
          <5>1. n \in 1 .. Window - 1 /\ n - 1 \in Ages /\ (n - 1) + Window <= age
            BY SMTT(40), <2>2, <3>3, <4>2, PrefixFacts
          <5> QED
            BY <1>1, <3>1, <5>1
        <4> QED
          BY <4>1, <4>2
      <3>4. ~ (age + 1 < Window)
        BY <2>2, <2>4, PrefixFacts
      <3> QED
        BY <2>2, <3>2, <3>3, <3>4 DEF WindowFits
    <2> QED
      BY <2>3, <2>4
  <1>8. ASSUME NEW w \in bk, ~ (MaxRequests > 0)
        PROVE  WindowFits(g, w, t + 1)
    <2>1. w.start \in Nat /\ w.start <= t
      BY DEF Windows, BudgetFits, WindowFits
    <2> QED
      BY <1>8, <2>1 DEF WindowFits
  <1> QED
    BY <1>6, <1>7, <1>8 DEF BudgetFits

\* The window that a call is charged to: the one that runs, or a new one.
Charged(w, bk, t) ==
    \/ w \in bk /\ t - w.start < Window
    \/ w = [count |-> 0, start |-> t] /\ \A v \in bk : ~ (t - v.start < Window)

\* Nothing passed in this tick, and less than a full budget lately, when a new
\* window begins.
LEMMA NewWindow ==
    ASSUME NEW f \in [Ages -> Nat], NEW t \in Nat, NEW bk \in SUBSET Windows,
           BudgetFits(f, bk, t), MaxRequests > 0,
           \A v \in bk : ~ (t - v.start < Window)
    PROVE  f[0] = 0 /\ Prefix(f, Window) < MaxRequests
  <1>1. 0 \in Ages /\ Window \in Nat \ {0} /\ MaxRequests \in Nat
    BY PrefixFacts
  <1>2. CASE bk = {}
    <2>1. \A n \in Ages : f[n] = 0
      BY <1>2 DEF BudgetFits
    <2>2. Prefix(f, Window) = 0
      BY SMTT(40), <1>1, <2>1, PrefixFacts, PrefixOfZeros
    <2> QED
      BY <1>1, <2>1, <2>2
  <1>3. CASE bk # {}
    <2>1. PICK v \in bk : TRUE
      BY <1>3
    <2>2. v.start \in Nat /\ v.start <= t /\ ~ (t - v.start < Window)
      BY DEF Windows, BudgetFits, WindowFits
    <2>3. /\ Prefix(f, Window) < MaxRequests
          /\ \A n \in Ages : n + Window <= t - v.start => f[n] = 0
      BY <2>2 DEF BudgetFits, WindowFits
    <2>4. 0 + Window <= t - v.start
      BY <1>1, <2>2
    <2> QED
      BY <1>1, <2>3, <2>4
  <1> QED
    BY <1>2, <1>3

\* One more that passes in this tick is one more in every stretch up to now.
LEMMA PrefixAfterOne ==
    ASSUME NEW f \in [Ages -> Nat], NEW g, g[0] = f[0] + 1,
           \A k \in 1 .. Window - 1 : g[k] = f[k], NEW n \in 1 .. Window
    PROVE  Prefix(g, n) = Prefix(f, n) + 1
  <1>1. Window \in Nat /\ Ages = 0 .. Window - 1
    BY PrefixFacts
  <1>2. \A k \in 0 .. Window - 1 : f[k] \in Nat
    BY <1>1
  <1> QED
    BY <1>1, <1>2, PrefixRaised

\* A call that passes.
LEMMA AllowFits ==
    ASSUME NEW f \in [Ages -> Nat], NEW t \in Nat, NEW bk \in SUBSET Windows,
           BudgetFits(f, bk, t), NEW w \in Windows, Charged(w, bk, t),
           w.count < MaxRequests,
           NEW v, v.start = w.start, v.count = w.count + 1,
           NEW g, g = [f EXCEPT ![0] = @ + 1]
    PROVE  BudgetFits(g, {v}, t)
  <1>1. /\ MaxRequests \in Nat /\ MaxRequests > 0 /\ w.count \in Nat
        /\ w.start \in Nat /\ Window \in Nat \ {0} /\ 0 \in Ages
    BY PrefixFacts DEF Windows
  <1>2. /\ g \in [Ages -> Nat] /\ g[0] = f[0] + 1 /\ f[0] \in Nat
        /\ \A k \in 1 .. Window - 1 : g[k] = f[k]
    BY <1>1, PrefixFacts
  <1>3. ASSUME NEW n \in 1 .. Window
        PROVE  Prefix(g, n) = Prefix(f, n) + 1
    BY <1>2, PrefixAfterOne
  <1>4. Prefix(g, Window) = Prefix(f, Window) + 1 /\ Prefix(f, Window) \in Nat
    <2>1. Window \in 1 .. Window /\ Window \in 0 .. Window
      BY <1>1
    <2> QED
      BY <1>3, <2>1, PrefixFacts
  <1>5. CASE w \in bk /\ t - w.start < Window
    <2>1. w.start <= t
      BY <1>5 DEF BudgetFits, WindowFits
    <2> DEFINE age == t - w.start
    <2>2. /\ f[age] > 0
          /\ Prefix(f, age + 1) = w.count
          /\ Prefix(f, Window) < w.count + MaxRequests
      BY <1>1, <1>5 DEF BudgetFits, WindowFits
    <2>3. age \in 0 .. Window - 1 /\ age + 1 \in 1 .. Window
      BY <1>1, <1>5, <2>1
    <2>4. age \in Ages
      BY <2>3, PrefixFacts
    <2> HIDE DEF age
    <2>5. g[age] > 0
      <3>1. CASE age = 0
        BY <1>2, <3>1
      <3>2. CASE age # 0
        BY <1>2, <2>2, <2>3, <3>2
      <3> QED
        BY <3>1, <3>2
    <2>6. Prefix(g, age + 1) = w.count + 1
      BY <1>3, <2>2, <2>3
    <2>7. Prefix(g, Window) < (w.count + 1) + MaxRequests
      BY <1>1, <1>4, <2>2
    <2>8. WindowFits(g, v, t)
      BY <1>5, <2>1, <2>5, <2>6, <2>7 DEF WindowFits, age
    <2> QED
      BY <1>1, <2>8 DEF BudgetFits
  <1>6. CASE /\ w = [count |-> 0, start |-> t]
             /\ \A u \in bk : ~ (t - u.start < Window)
    <2>1. f[0] = 0 /\ Prefix(f, Window) < MaxRequests
      BY <1>1, <1>6, NewWindow
    <2>2. v.start = t /\ v.count = 1 /\ t - v.start = 0
      BY <1>6
    <2>3. Prefix(g, 1) = 1 /\ g[0] = 1
      <3>1. 1 \in 1 .. Window
        BY <1>1
      <3>2. Prefix(g, 1) = Prefix(f, 1) + 1
        BY <1>3, <3>1
      <3>3. Prefix(f, 1) = f[0]
        BY PrefixFacts
      <3> QED
        BY <1>2, <2>1, <3>2, <3>3
    <2>4. Prefix(g, Window) < 1 + MaxRequests
      BY <1>1, <1>4, <2>1
    <2>5. WindowFits(g, v, t)
      BY <1>1, <2>2, <2>3, <2>4 DEF WindowFits
    <2> QED
      BY <1>1, <2>5 DEF BudgetFits
  <1> QED
    BY <1>5, <1>6 DEF Charged

\* A call that is refused: the bucket may get a new window, which lets none pass
\* only if no window ever does.
LEMMA RefuseFits ==
    ASSUME NEW f \in [Ages -> Nat], NEW t \in Nat, NEW bk \in SUBSET Windows,
           BudgetFits(f, bk, t), NEW w \in Windows, Charged(w, bk, t),
           ~ (w.count < MaxRequests)
    PROVE  /\ BudgetFits(f, {w}, t)
           /\ Prefix(f, Window) >= MaxRequests
  <1>1. /\ MaxRequests \in Nat /\ Window \in Nat \ {0}
        /\ Prefix(f, Window) \in Nat
    BY PrefixFacts
  <1>2. CASE w \in bk /\ t - w.start < Window
    <2>1. WindowFits(f, w, t) /\ w.start <= t /\ w.start \in Nat
      BY <1>2 DEF BudgetFits, WindowFits, Windows
    <2>2. BudgetFits(f, {w}, t)
      BY <1>2, <2>1 DEF BudgetFits
    <2>3. CASE MaxRequests = 0
      BY <1>1, <2>2, <2>3
    <2>4. CASE MaxRequests > 0
      <3>1. Prefix(f, (t - w.start) + 1) = w.count
        BY <1>2, <2>1, <2>4 DEF WindowFits
      <3>2. (t - w.start) + 1 \in 0 .. Window
        BY <1>1, <1>2, <2>1
      <3>3. w.count <= Prefix(f, Window) /\ w.count \in Nat
        BY <3>1, <3>2, PrefixFacts
      <3> QED
        BY <1>1, <2>2, <3>3
    <2> QED
      BY <1>1, <2>3, <2>4
  <1>3. CASE w = [count |-> 0, start |-> t]
    <2>1. MaxRequests = 0
      BY <1>1, <1>3
    <2>2. WindowFits(f, w, t)
      BY <1>1, <1>3, <2>1 DEF WindowFits
    <2> QED
      BY <1>1, <2>1, <2>2 DEF BudgetFits
  <1> QED
    BY <1>2, <1>3 DEF Charged

\* The most that passes in the time of a window.
LEMMA FitsBounded ==
    ASSUME NEW f \in [Ages -> Nat], NEW t \in Nat, NEW bk \in SUBSET Windows,
           BudgetFits(f, bk, t)
    PROVE  Prefix(f, Window) <= IF MaxRequests = 0 THEN 0 ELSE 2 * MaxRequests - 1
  <1>1. /\ MaxRequests \in Nat /\ Window \in Nat \ {0} /\ Prefix(f, Window) \in Nat
        /\ Ages = 0 .. Window - 1
    BY PrefixFacts
  <1>2. CASE bk = {} \/ MaxRequests = 0
    <2>1. \A n \in 0 .. Window - 1 : f[n] = 0
      BY <1>1, <1>2 DEF BudgetFits
    <2>2. Prefix(f, Window) = 0
      <3>1. Window \in Nat /\ Window \in 0 .. Window
        BY <1>1
      <3> QED
        BY <2>1, <3>1, PrefixOfZeros
    <2> QED
      BY <1>1, <2>2
  <1>3. CASE bk # {} /\ MaxRequests > 0
    <2>1. PICK w \in bk : WindowFits(f, w, t)
      BY <1>3 DEF BudgetFits
    <2>2. w.count \in 0 .. MaxRequests
      BY DEF Windows
    <2>3. \/ Prefix(f, Window) < w.count + MaxRequests
          \/ Prefix(f, Window) < MaxRequests
      BY <1>3, <2>1 DEF WindowFits
    <2> QED
      BY <1>1, <1>3, <2>2, <2>3
  <1> QED
    BY <1>1, <1>2, <1>3

-----------------------------------------------------------------------------
(* The rate limiter: all budgets.                                          *)

LEMMA WindowsSplit ==
    WindowsKept <=> \A b \in Budgets : BudgetFits(passed[b], bucket[b], now)
  BY DEF WindowsKept, WindowCounts, PassedIn, PassedLately, BudgetFits, WindowFits,
         Prefix, Total, Ages

LEMMA WindowsJoin ==
    ASSUME \A b \in Budgets : BudgetFits(passed'[b], bucket'[b], now')
    PROVE  WindowsKept'
  BY DEF WindowsKept, WindowCounts, PassedIn, PassedLately, BudgetFits, WindowFits,
         Prefix, Total, Ages

LEMMA BudgetTypes ==
    ASSUME TypeOK, NEW b \in Budgets
    PROVE  /\ now \in Nat /\ passed[b] \in [Ages -> Nat]
           /\ bucket[b] \in SUBSET Windows
           /\ Open(b) \in Windows /\ Charged(Open(b), bucket[b], now)
  <1>1. now \in Nat /\ passed[b] \in [Ages -> Nat]
    BY DEF TypeOK, Times
  <1>2. bucket[b] \in SUBSET Windows
    BY DEF TypeOK, Windows, Times
  <1>3. Open(b) \in Windows
    BY OpenTypes, TypesSplit DEF Windows, Times
  <1>4. Charged(Open(b), bucket[b], now)
    <2>1. CASE \E w \in bucket[b] : now - w.start < Window
      <3>1. PICK w \in bucket[b] : now - w.start < Window
        BY <2>1
      <3>2. bucket[b] = {w}
        BY <3>1 DEF TypeOK
      <3>3. Open(b) = w
        BY <3>1, <3>2 DEF Open
      <3> QED
        BY <3>1, <3>3 DEF Charged
    <2>2. CASE ~ \E w \in bucket[b] : now - w.start < Window
      BY <2>2 DEF Open, Charged
    <2> QED
      BY <2>1, <2>2
  <1> QED
    BY <1>1, <1>2, <1>3, <1>4

\* A call that is refused a budget has found it spent.
LEMMA RefusedIsSpent ==
    ASSUME TypeOK, WindowsKept, NEW b \in Budgets, Refuse(b)
    PROVE  PassedLately(b) >= MaxRequests
  <1>1. BudgetFits(passed[b], bucket[b], now) /\ ~ (Open(b).count < MaxRequests)
    BY WindowsSplit DEF Refuse, HasRoom
  <1>2. Prefix(passed[b], Window) >= MaxRequests
    BY <1>1, BudgetTypes, RefuseFits
  <1> QED
    BY <1>2 DEF PassedLately, Prefix, Total, Ages

LEMMA LimitKeepsWindows ==
    ASSUME TypeOK, WindowsKept, NEW c \in Calls, Limit(c)
    PROVE  WindowsKept'
  <1>1. PICK q \in req[c] : Refuse(Budget(q)) \/ Allow(Budget(q))
    BY DEF Limit
  <1>2. PICK b \in Budgets : b = Budget(q)
    BY <1>1, TypesSplit, ReqFacts, TokenFacts
  <1>3. now' = now
    BY DEF Limit
  <1>4. BudgetFits(passed[b], bucket[b], now)
    BY WindowsSplit
  <1> DEFINE w == Open(b)
             v == [w EXCEPT !.count = @ + 1]
             g == [passed[b] EXCEPT ![0] = @ + 1]
  <1>5. w \in Windows /\ v.start = w.start /\ v.count = w.count + 1
    BY BudgetTypes DEF Windows
  <1>6. CASE Allow(b)
    <2>1. /\ w.count < MaxRequests
          /\ bucket' = [bucket EXCEPT ![b] = {v}]
          /\ passed' = [passed EXCEPT ![b] = g]
      BY <1>6 DEF Allow, HasRoom
    <2> HIDE DEF w, v, g
    <2>2. bucket'[b] = {v} /\ passed'[b] = g
      BY <2>1 DEF TypeOK
    <2>3. BudgetFits(g, {v}, now)
      BY <1>4, <1>5, <2>1, BudgetTypes, AllowFits DEF w, g
    <2>4. \A d \in Budgets : d # b => bucket'[d] = bucket[d] /\ passed'[d] = passed[d]
      BY <2>1 DEF TypeOK
    <2> QED
      BY <1>3, <2>2, <2>3, <2>4, WindowsSplit, WindowsJoin
  <1>7. CASE Refuse(b)
    <2>1. /\ ~ (w.count < MaxRequests) /\ passed' = passed
          /\ bucket' = [bucket EXCEPT ![b] = {w}]
      BY <1>7 DEF Refuse, HasRoom
    <2> HIDE DEF w, v, g
    <2>2. bucket'[b] = {w}
      BY <2>1 DEF TypeOK
    <2>3. BudgetFits(passed[b], {w}, now)
      BY <1>4, <1>5, <2>1, BudgetTypes, RefuseFits DEF w
    <2>4. \A d \in Budgets : d # b => bucket'[d] = bucket[d]
      BY <2>1 DEF TypeOK
    <2> QED
      BY <1>3, <2>1, <2>2, <2>3, <2>4, WindowsSplit, WindowsJoin
  <1> QED
    BY <1>1, <1>2, <1>6, <1>7

LEMMA TickKeepsWindows ==
    ASSUME TypeOK, WindowsKept, Tick
    PROVE  WindowsKept'
  <1> SUFFICES ASSUME NEW b \in Budgets
               PROVE  BudgetFits(passed'[b], bucket'[b], now')
    BY WindowsJoin
  <1>1. BudgetFits(passed[b], bucket[b], now)
    BY WindowsSplit
  <1>2. /\ now' = now + 1 /\ bucket'[b] = bucket[b]
        /\ passed'[b] = [n \in Ages |-> IF n = 0 THEN 0 ELSE passed[b][n - 1]]
    BY DEF Tick, stores
  <1> QED
    BY <1>1, <1>2, BudgetTypes, TickFits

LEMMA WindowsStep ==
    ASSUME TypeOK, WindowsKept, [Next]_vars
    PROVE  WindowsKept'
  <1>1. ASSUME UNCHANGED <<now, bucket, passed>>
        PROVE  WindowsKept'
    BY <1>1, WindowsSplit, WindowsJoin
  <1>2. ASSUME NEW c \in Calls,
               Arrive(c) \/ Validate(c) \/ CheckRevoked(c) \/ Handle(c) \/ Revoke(c)
        PROVE  WindowsKept'
    BY <1>1, <1>2 DEF Arrive, Validate, CheckRevoked, Handle, Revoke, stores
  <1>3. CASE Restart
    BY <1>3, WindowsJoin DEF Restart, BudgetFits
  <1>4. CASE UNCHANGED vars
    BY <1>1, <1>4 DEF vars, stores
  <1> QED
    BY <1>2, <1>3, <1>4, LimitKeepsWindows, TickKeepsWindows DEF Next

LEMMA InitWindows == Init => WindowsKept
  BY DEF Init, WindowsKept

\* The bucket of a budget agrees with what the budget let pass: rate_limit.rs
\* keeps a count and the start of a window, and no list of calls.
THEOREM WindowsAreKept == Spec => []WindowsKept
  <1>1. TypeOK /\ WindowsKept /\ [Next]_vars => TypeOK' /\ WindowsKept'
    BY TypesKept, WindowsStep
  <1>2. Init => TypeOK /\ WindowsKept
    BY InitTypes, InitWindows
  <1> QED
    BY <1>1, <1>2, PTL DEF Spec

\* In any stretch as long as a window a budget lets less than two budgets pass
\* (rate_limit.rs, allow: fixed windows, each begun by a call that passes).
THEOREM BurstsAreBounded == Spec => []BurstBounded
  <1>1. TypeOK /\ WindowsKept => BurstBounded
    <2> SUFFICES ASSUME TypeOK, WindowsKept, NEW b \in Budgets
                 PROVE  PassedLately(b) <=
                            IF MaxRequests = 0 THEN 0 ELSE 2 * MaxRequests - 1
      BY DEF BurstBounded
    <2>1. BudgetFits(passed[b], bucket[b], now)
      BY WindowsSplit
    <2>2. Prefix(passed[b], Window) <=
              IF MaxRequests = 0 THEN 0 ELSE 2 * MaxRequests - 1
      BY <2>1, BudgetTypes, FitsBounded
    <2> QED
      BY <2>2 DEF PassedLately, Prefix, Total, Ages
  <1> QED
    BY <1>1, TypeCorrect, WindowsAreKept, PTL

\* A call is answered 429 only when its own budget has let MaxRequests pass in
\* the time of a window (middleware.rs and rest.rs of auth, keys of allow).
THEOREM OnlySpentBudgetsThrottle == Spec => ThrottledOnlyWhenSpent
  <1> DEFINE Step == \A c \in Calls :
                        at[c] = "limit" /\ AnsweredWith(c, RateLimited) =>
                            \E q \in req[c] : PassedLately(Budget(q)) >= MaxRequests
  <1>1. TypeOK /\ WindowsKept /\ [Next]_vars => [Step]_vars
    <2> SUFFICES ASSUME TypeOK, WindowsKept, Next, NEW c \in Calls,
                        at[c] = "limit", AnsweredWith(c, RateLimited)
                 PROVE  \E q \in req[c] : PassedLately(Budget(q)) >= MaxRequests
      OBVIOUS
    <2>1. Limit(c)
      <3> USE DEF AnsweredWith, Goto, Finish
      <3>1. ASSUME NEW d \in Calls, Arrive(d) \/ Validate(d) \/ CheckRevoked(d)
                                    \/ Handle(d) \/ Revoke(d)
            PROVE  FALSE
        <4>1. at[d] # "limit"
          BY <3>1 DEF Arrive, Validate, CheckRevoked, Handle, Revoke
        <4>2. \A a \in answer' : a.call = d
          BY <3>1 DEF Arrive, Validate, CheckRevoked, Handle, Revoke
        <4> QED
          BY <4>1, <4>2
      <3>2. ASSUME NEW d \in Calls, Limit(d) PROVE d = c
        <4>1. \A a \in answer' : a.call = d
          BY <3>2 DEF Limit
        <4>2. \E a \in answer' : a.call = c
          OBVIOUS
        <4> QED
          BY <4>1, <4>2
      <3>3. ~ Tick /\ ~ Restart
        BY DEF Tick, Restart
      <3> QED
        BY <3>1, <3>2, <3>3 DEF Next
    <2>2. PICK q \in req[c] : Refuse(Budget(q))
      BY <2>1 DEF Limit, AnsweredWith, Goto
    <2>3. Budget(q) \in Budgets
      BY <2>2, TypesSplit, ReqFacts, TokenFacts
    <2> QED
      BY <2>2, <2>3, RefusedIsSpent
  <1> QED
    BY <1>1, TypeCorrect, WindowsAreKept, PTL DEF Spec, ThrottledOnlyWhenSpent
=============================================================================

------------------------------- MODULE AuthGate -------------------------------
(***************************************************************************)
(* The auth slice of one instance: the middleware require_auth, the        *)
(* handler of POST /auth/logout, the revocation store and the rate limiter *)
(* they share.  A call validates its token (which awaits a signing key,    *)
(* see KeySource), reads the revocations, takes from the budget of its     *)
(* tenant, and then runs its handler or, for a logout, validates once more *)
(* and revokes.  Calls interleave between any two of these; the clock      *)
(* moves while they do.  Time is counted in ticks.                         *)
(*                                                                         *)
(* An optional value (Option<T> of the code) is a set of at most one       *)
(* element.                                                                *)
(***************************************************************************)
EXTENDS Naturals, FiniteSets, Functions

CONSTANTS
    Calls,        \* requests being served at the same time
    Tenants,
    Jtis,         \* session ids; NoJti is the empty string
    NoJti,
    Tokens,       \* the tokens that are sent, a set of claims
    Leeway,       \* how long after exp a token still validates (60 s)
    MaxRequests,  \* RATE_LIMIT_REQUESTS
    Window,       \* RATE_LIMIT_WINDOW_SECS
    MaxTime       \* bound: the clock stops there

Times == 0 .. MaxTime
Ages  == 0 .. Window - 1

\* The claims that matter here.  genuine: the signature, iss and aud are right,
\* and there is a subject and a tenant.  The claim jti is optional.
Claims == [tenant : Tenants, jti : {{}} \cup {{j} : j \in Jtis},
           exp : Times, genuine : BOOLEAN]

ASSUME GateAssumption ==
    /\ Tokens \subseteq Claims
    /\ NoJti \notin Jtis
    /\ Leeway \in Nat /\ MaxRequests \in Nat
    /\ Window \in Nat \ {0} /\ MaxTime \in Nat

\* A request behind require_auth, or POST /auth/logout.
Requests == [op : {"settings", "logout"}, token : Tokens]

Sessions == Jtis \cup {NoJti}
Budgets  == {"tenant", "auth"} \X Tenants

VARIABLES
    now,         \* external: the clock
    at,          \* per call: the step it is at
    req,         \* per call: its operation and its bearer token (an option)
    ttl,         \* per call: remaining_ttl of its second validation
    answer,      \* the answer the last step gave, with its call (an option)
    revoked,     \* InMemoryRevocationStore: session -> expiry (an option)
    bucket,      \* RateLimiter: budget -> [count, start] (an option)
    loggedOut,   \* history: the tokens whose logout was answered 204
    late,        \* history: the call began after a logout of its session
    passed       \* history: how many calls a budget let pass, n ticks ago

stores == <<revoked, bucket>>
vars == <<now, at, req, ttl, answer, stores, loggedOut, late, passed>>

\* claims.jti.unwrap_or_default()
Session(t) == IF t.jti = {} THEN NoJti ELSE CHOOSE j \in Jtis : t.jti = {j}

-----------------------------------------------------------------------------
(* The answers (auth/rest.rs, auth/error.rs, common/error.rs).              *)

\* The variants of AuthError that occur: wrong iss and wrong aud are answered as
\* InvalidToken, a 429 does not pass through AuthError, and Internal would take
\* a lock poisoned by a panic.
AuthErrors == {"missing_credentials", "invalid_token", "expired", "revoked",
               "unavailable"}

Reply(code, status, retryAfter) ==
    [code |-> code, status |-> status, retryAfter |-> retryAfter]

\* From<AuthError> for ApiError
Answer(e) == IF e = "unavailable" THEN Reply(e, 503, {5}) ELSE Reply(e, 401, {})

RateLimited == Reply("rate_limited", 429, {1})
Served      == Reply("none", 200, {})
LoggedOut   == Reply("none", 204, {})

Replies == {Answer(e) : e \in AuthErrors} \cup {RateLimited, Served, LoggedOut}

\* The call goes on with a step, or is answered.
Goto(c, step) ==
    /\ at' = [at EXCEPT ![c] = step]
    /\ answer' = {}
    /\ UNCHANGED <<req, late>>

Finish(c, reply) ==
    /\ at' = [at EXCEPT ![c] = "idle"]
    /\ req' = [req EXCEPT ![c] = {}]
    /\ ttl' = [ttl EXCEPT ![c] = 0]
    /\ answer' = {[call |-> c, reply |-> reply]}
    /\ late' = [late EXCEPT ![c] = FALSE]

-----------------------------------------------------------------------------
(* The rate limiter (common/rate_limit.rs).                                *)

\* Variants with a bug: the window ends a tick early; the count stays when the
\* window is over; a budget one too large.
EarlyOpen(b) ==
    IF \E w \in bucket[b] : now - w.start < Window - 1
    THEN CHOOSE w \in bucket[b] : TRUE
    ELSE [count |-> 0, start |-> now]
KeptOpen(b) ==
    IF bucket[b] # {} THEN CHOOSE w \in bucket[b] : TRUE
    ELSE [count |-> 0, start |-> now]
HasRoomForOneMore(w) == w.count <= MaxRequests

\* The bucket as allow finds it: a new one, or a new window when it is over.
Open(b) ==
    IF \E w \in bucket[b] : now - w.start < Window
    THEN CHOOSE w \in bucket[b] : TRUE
    ELSE [count |-> 0, start |-> now]

HasRoom(w) == w.count < MaxRequests

\* allow(key): takes one from the budget b, or refuses.
Allow(b) ==
    LET w == Open(b)
    IN  /\ HasRoom(w)
        /\ bucket' = [bucket EXCEPT ![b] = {[w EXCEPT !.count = @ + 1]}]
        /\ passed' = [passed EXCEPT ![b][0] = @ + 1]

Refuse(b) ==
    /\ ~ HasRoom(Open(b))
    /\ bucket' = [bucket EXCEPT ![b] = {Open(b)}]
    /\ UNCHANGED passed

\* The budget a call is charged to: each tenant has one for settings requests
\* and one for logouts.
Budget(q) == <<IF q.op = "logout" THEN "auth" ELSE "tenant", q.token.tenant>>

-----------------------------------------------------------------------------
Init ==
    /\ now = 0
    /\ at = [c \in Calls |-> "idle"]
    /\ req = [c \in Calls |-> {}]
    /\ ttl = [c \in Calls |-> 0]
    /\ answer = {}
    /\ revoked = [s \in Sessions |-> {}]
    /\ bucket = [b \in Budgets |-> {}]
    /\ loggedOut = {}
    /\ late = [c \in Calls |-> FALSE]
    /\ passed = [b \in Budgets |-> [n \in Ages |-> 0]]

SameSession(t, others) == {u \in others : Session(u) = Session(t)}

\* A request arrives, with a bearer token or without.
Arrive(c) ==
    /\ at[c] = "idle"
    /\ \/ Finish(c, Answer("missing_credentials"))
       \/ \E q \in Requests :
            /\ at' = [at EXCEPT ![c] = "validate"]
            /\ req' = [req EXCEPT ![c] = {q}]
            /\ answer' = {}
            /\ late' = [late EXCEPT ![c] =
                            SameSession(q.token, loggedOut) # {}]
            /\ UNCHANGED ttl
    /\ UNCHANGED <<now, stores, loggedOut, passed>>

\* remaining_ttl: exp.saturating_sub(now)
Remaining(t) == IF t.exp > now THEN t.exp - now ELSE 0

\* JwtValidator::validate, for the first time or (logout) for the second: the
\* key is not to be had (or the caller leaves while it waits), unknown, or
\* found; with the key, the claims decide, exp before the others.
Validate(c) ==
    /\ at[c] \in {"validate", "validateAgain"}
    /\ \E q \in req[c] :
        \/ Finish(c, Answer("unavailable"))
        \/ Finish(c, Answer("invalid_token"))
        \/ /\ q.token.exp + Leeway < now
           /\ Finish(c, Answer("expired"))
        \/ /\ q.token.genuine /\ q.token.exp + Leeway >= now
           /\ \/ at[c] = "validate"
                 /\ Goto(c, "check") /\ UNCHANGED ttl
              \/ at[c] = "validateAgain"
                 /\ Goto(c, "revoke")
                 /\ ttl' = [ttl EXCEPT ![c] = Remaining(q.token)]
    /\ UNCHANGED <<now, stores, loggedOut, passed>>

\* An entry holds until its expiry.
Holds(expiry) == expiry > now

\* Variant with a bug: an entry is removed when it refuses a call.
CheckOnce(c) ==
    /\ at[c] = "check"
    /\ \E q \in req[c] :
        LET s == Session(q.token)
        IN  /\ \/ /\ \E e \in revoked[s] : Holds(e)
                  /\ Finish(c, Answer("revoked"))
               \/ /\ \A e \in revoked[s] : ~ Holds(e)
                  /\ Goto(c, "limit") /\ UNCHANGED ttl
            /\ revoked' = [revoked EXCEPT ![s] = {}]
    /\ UNCHANGED <<now, bucket, loggedOut, passed>>

\* RevocationStore::is_revoked; an entry that does not hold any more is removed.
CheckRevoked(c) ==
    /\ at[c] = "check"
    /\ \E q \in req[c] :
        LET s == Session(q.token)
        IN  \/ /\ \E e \in revoked[s] : Holds(e)
               /\ Finish(c, Answer("revoked"))
               /\ UNCHANGED revoked
            \/ /\ \A e \in revoked[s] : ~ Holds(e)
               /\ revoked' = [revoked EXCEPT ![s] = {}]
               /\ Goto(c, "limit") /\ UNCHANGED ttl
    /\ UNCHANGED <<now, bucket, loggedOut, passed>>

\* Variant with a bug: the session is revoked before the budget is asked.
RevokeFirst(c) ==
    /\ at[c] = "limit"
    /\ \E q \in req[c] :
        /\ \/ Refuse(Budget(q)) /\ Finish(c, RateLimited)
           \/ /\ Allow(Budget(q))
              /\ Goto(c, IF q.op = "logout" THEN "validateAgain" ELSE "handler")
              /\ UNCHANGED ttl
        /\ revoked' = IF q.op = "logout"
                      THEN [revoked EXCEPT ![Session(q.token)] = {now + Remaining(q.token)}]
                      ELSE revoked
    /\ UNCHANGED <<now, loggedOut>>

\* RateLimiter::allow: 429, or on to the handler or to the second validation.
Limit(c) ==
    /\ at[c] = "limit"
    /\ \E q \in req[c] :
        \/ Refuse(Budget(q)) /\ Finish(c, RateLimited)
        \/ /\ Allow(Budget(q))
           /\ Goto(c, IF q.op = "logout" THEN "validateAgain" ELSE "handler")
           /\ UNCHANGED ttl
    /\ UNCHANGED <<now, revoked, loggedOut>>

\* The handler behind require_auth ends.
Handle(c) ==
    /\ at[c] = "handler"
    /\ Finish(c, Served)
    /\ UNCHANGED <<now, stores, loggedOut, passed>>

\* RevocationStore::revoke: the entry expires when the token would, also one
\* that replaces another.
Entry(life) == {now + life}

\* AuthService::logout revokes the session; the answer is 204.
Revoke(c) ==
    /\ at[c] = "revoke"
    /\ \E q \in req[c] :
        /\ revoked' = [revoked EXCEPT ![Session(q.token)] = Entry(ttl[c])]
        /\ loggedOut' = loggedOut \cup {q.token}
    /\ Finish(c, LoggedOut)
    /\ UNCHANGED <<now, bucket, passed>>

Tick ==
    /\ now < MaxTime
    /\ now' = now + 1
    /\ answer' = {}
    /\ passed' = [b \in Budgets |->
                    [n \in Ages |-> IF n = 0 THEN 0 ELSE passed[b][n - 1]]]
    /\ UNCHANGED <<at, req, ttl, stores, loggedOut, late>>

\* The instance restarts: calls, revocations and budgets are gone.
Restart ==
    /\ at' = [c \in Calls |-> "idle"]
    /\ req' = [c \in Calls |-> {}]
    /\ ttl' = [c \in Calls |-> 0]
    /\ answer' = {}
    /\ late' = [c \in Calls |-> FALSE]
    /\ revoked' = [s \in Sessions |-> {}]
    /\ bucket' = [b \in Budgets |-> {}]
    /\ loggedOut' = {}
    /\ passed' = [b \in Budgets |-> [n \in Ages |-> 0]]
    /\ UNCHANGED now

Next ==
    \/ \E c \in Calls :
        \/ Arrive(c)
        \/ Validate(c) \/ CheckRevoked(c) \/ Limit(c)
        \/ Handle(c) \/ Revoke(c)
    \/ Tick \/ Restart

Spec == Init /\ [][Next]_vars

-----------------------------------------------------------------------------
TypeOK ==
    /\ now \in Times
    /\ at \in [Calls -> {"idle", "validate", "check", "limit", "handler",
                         "validateAgain", "revoke"}]
    /\ req \in [Calls -> {{}} \cup {{q} : q \in Requests}]
    /\ ttl \in [Calls -> Times]
    /\ \A a \in answer : a \in [call : Calls, reply : Replies]
    /\ revoked \in [Sessions -> {{}} \cup {{e} : e \in 0 .. 2 * MaxTime}]
    /\ bucket \in [Budgets -> {{}} \cup
                    {{w} : w \in [count : 0 .. MaxRequests, start : Times]}]
    /\ loggedOut \subseteq Tokens
    /\ late \in [Calls -> BOOLEAN]
    /\ passed \in [Budgets -> [Ages -> Nat]]

\* Logout works (auth.rs:33, "reuse of the token afterwards is rejected"): a
\* call that began after a logout of its session was answered 204 is let past
\* the revocation check only from the token's exp on.  When several tokens of
\* the session were logged out, the last entry written stands for all of them,
\* and that one may be the first to expire.  A restart forgets everything.
Admitted(c) == at[c] = "check" /\ at'[c] = "limit"
AnsweredWith(c, reply) == answer' = {[call |-> c, reply |-> reply]}

LoggedOutStaysOut ==
    [][\A c \in Calls : Admitted(c) /\ late[c] =>
        \E q \in req[c] :
            \E u \in SameSession(q.token, loggedOut) : now >= u.exp]_vars

\* A token is refused as revoked only when this instance has answered 204 to a
\* logout of its session: a logout that was refused, ran out of its budget or
\* failed in its second validation revokes nothing.  All tokens without a jti are
\* one session (jwt.rs:182), so a logout with one of them does log out the others,
\* of any user and tenant: this property does not speak against that.
RevokedOnlyByLogout ==
    [][\A c \in Calls : at[c] = "check" /\ AnsweredWith(c, Answer("revoked")) =>
        \E q \in req[c] : SameSession(q.token, loggedOut) # {}]_vars

\* How many calls the budget let pass in the window that ends now.
PassedLately(b) == SumFunctionOnSet(passed[b], Ages)

\* 429 is only answered when the same budget let MaxRequests calls pass in the
\* window that ends now: requests of a tenant never use up its logouts, nor
\* anything of another tenant.
ThrottledOnlyWhenSpent ==
    [][\A c \in Calls : at[c] = "limit" /\ AnsweredWith(c, RateLimited) =>
        \E q \in req[c] : PassedLately(Budget(q)) >= MaxRequests]_vars

\* The most that passes in any stretch as long as the window: a window opens
\* with a call that passes, so at its end and after it 2 * MaxRequests - 1.
BurstBounded ==
    \A b \in Budgets :
        PassedLately(b) <= IF MaxRequests = 0 THEN 0 ELSE 2 * MaxRequests - 1

-----------------------------------------------------------------------------
(* What makes the properties of the rate limiter inductive.                *)

\* How many calls the budget let pass in the last n ticks, this one included.
PassedIn(b, n) == SumFunctionOnSet(passed[b], 0 .. n - 1)

\* A window that runs began with a call that passed, counts all that passed since,
\* and followed on less than a full budget.  When it is over, less than a full
\* budget has passed lately, and nothing since its end.
WindowCounts(b, w) ==
    LET age == now - w.start
    IN  IF age < Window
        THEN /\ passed[b][age] > 0
             /\ PassedIn(b, age + 1) = w.count
             /\ PassedLately(b) < w.count + MaxRequests
        ELSE /\ PassedLately(b) < MaxRequests
             /\ \A n \in Ages : n + Window <= age => passed[b][n] = 0

\* The bucket of a budget agrees with what the budget let pass.
WindowsKept ==
    \A b \in Budgets :
        /\ bucket[b] = {} \/ MaxRequests = 0 => \A n \in Ages : passed[b][n] = 0
        /\ \A w \in bucket[b] :
              w.start <= now /\ (MaxRequests > 0 => WindowCounts(b, w))
=============================================================================

--------------------------- MODULE SettingsService ---------------------------
(***************************************************************************)
(* The settings slice: any number of requests (get, put, patch, delete)    *)
(* served concurrently over one Postgres table.  A request is a chain of   *)
(* SQL statements with an await between any two of them: SELECT (find),    *)
(* then INSERT, UPDATE or DELETE, then, when the conditional write hit no  *)
(* row, SELECT COUNT (exists).  Each statement is atomic; what happens in  *)
(* between is what this module is about.                                   *)
(*                                                                         *)
(* An optional value (Option<T> of the code, a nullable column, a missing  *)
(* row) is a set of at most one element.                                   *)
(***************************************************************************)
EXTENDS Naturals, FiniteSets

CONSTANTS
    Slots,      \* requests being served at the same time (on any instance)
    Tenants,
    Users,
    Keys,
    Fields,     \* members (a name with its value) a JSON object may have
    AsStored,   \* member -> what jsonb makes of it, as members of that size:
                \* the number 1e16 is read back as 17 digits
    Requests,   \* the requests that are sent, a subset of WellFormed
    MaxFields,  \* stands for MAX_VALUE_BYTES: the largest value accepted
    MaxVersion, \* largest value of the INTEGER column version
    MaxId       \* largest value of the BIGSERIAL column id

\* The values a SettingValue may hold, and what a value is once it is stored.
Values == {v \in SUBSET Fields : Cardinality(v) <= MaxFields}
JsonB(value) == UNION {AsStored[f] : f \in value}

Owners == {{}} \cup {{u} : u \in Users}          \* {}: tenant-scoped
Roles  == {"User", "Admin"}
Ops    == {"get", "put", "patch", "delete"}

\* A row of the table settings.
Row == [id : Nat, tenant : Tenants, user : Owners, key : Keys,
        version : 1 .. MaxVersion, value : SUBSET Fields]

\* into_domain: the value read back is checked as a new one is.
Loads(r) == r.value \in Values
Setting == {r \in Row : Loads(r)}

\* A request after extraction: its key and its body are valid, its principal is
\* authenticated, If-Match is a number or missing.  A body sets some members of
\* the value and, in a patch, drops others.
WellFormed ==
    [op      : Ops,
     auth    : [tenant : Tenants, user : Users, role : Roles],
     key     : Keys,
     ifMatch : {{}} \cup {{v} : v \in 1 .. MaxVersion},
     body    : [set : Values, drop : SUBSET Fields]]

ASSUME BoundsAssumption ==
    /\ MaxFields \in Nat
    /\ MaxVersion \in Nat \ {0}
    /\ MaxId \in Nat
    /\ AsStored \in [Fields -> SUBSET Fields]

ASSUME RequestsAssumption == Requests \subseteq WellFormed

Statuses == {"None", "Ok", "NotFound", "Forbidden", "VersionConflict",
             "Conflict", "InvalidValue", "Unavailable", "Internal", "Dropped"}

VARIABLES
    rows,       \* the table settings
    nextId,     \* next value of the sequence behind the column id
    pc,         \* the statement a slot awaits; "ready": none
    req,        \* the slot's request, as a set of at most one
    base,       \* the row the request found and means to replace (an option)
    reply,      \* [status, row]: the last answer
    committed,  \* history: the [id, version] the request's write consumed
    seen        \* history: how the target looked while the request was served

vars == <<rows, nextId, pc, req, base, reply, committed, seen>>

-----------------------------------------------------------------------------
(* Ownership and access (auth/model.rs).                                   *)

CanRead(a, r) ==
    /\ r.tenant = a.tenant
    /\ r.user = {a.user} \/ (a.role = "Admin" /\ r.user = {})

ScopeUser(a) == IF a.role = "Admin" THEN {} ELSE {a.user}

(* The statements, as operators on the table (settings/pg_settings.rs).    *)

Found(q, table) == {r \in table : r.tenant = q.auth.tenant /\ r.key = q.key}

\* The row in the scope the principal writes to.
Target(q, table) == {r \in Found(q, table) : r.user = ScopeUser(q.auth)}

\* Variants with a bug: NULLS LAST; the version missing from the WHERE clause,
\* the version of the new value bound to it; the column version not advanced,
\* set anew; the overflow not noticed.
NullsLast(q, table) ==
    LET readable == {r \in Found(q, table) : CanRead(q.auth, r)}
    IN  {r \in readable : r.user # {} \/ \A s \in readable : s.user = {}}
MatchingAnyVersion(q, table, version) == Target(q, table)
MatchingNext(q, table, version) ==
    {r \in Target(q, table) : r.version = version + 1}
UpdatedInPlace(r, value) == [r EXCEPT !.value = JsonB(value)]
UpdatedAnew(r, value) == [r EXCEPT !.version = 1, !.value = JsonB(value)]
NoOverflow(r) == FALSE

\* ORDER BY user NULLS FIRST, as far as it decides which readable row is first.
FirstReadable(q, table) ==
    LET readable == {r \in Found(q, table) : CanRead(q.auth, r)}
    IN  {r \in readable : r.user = {} \/ \A s \in readable : s.user # {}}

\* WHERE ... AND version = $expected
Matching(q, table, version) == {r \in Target(q, table) : r.version = version}

Inserted(q, id) ==
    [id |-> id, tenant |-> q.auth.tenant, user |-> ScopeUser(q.auth),
     key |-> q.key, version |-> 1, value |-> JsonB(q.body.set)]

\* SET value = $1, version = version + 1
Updated(r, value) ==
    [id |-> r.id, tenant |-> r.tenant, user |-> r.user, key |-> r.key,
     version |-> r.version + 1, value |-> JsonB(value)]

\* version + 1 is out of the range of INTEGER: the statement fails.
Overflows(r) == r.version + 1 > MaxVersion

-----------------------------------------------------------------------------
(* Business rules (settings/settings.rs, settings/model.rs).               *)

\* PATCH: null members are dropped, the others set.
Merge(value, body) == (value \ body.drop) \cup body.set

NewValue(q, r) == IF q.op = "patch" THEN Merge(r.value, q.body) ELSE q.body.set

\* expected == cur.version(); a missing If-Match matches no version.
Precondition(q, r) == r.version \in q.ifMatch

\* The statuses a write may be refused with after find (none: it goes on).
Refusals(q) ==
    LET target == Target(q, rows)
    IN  {s \in {"NotFound", "Forbidden", "VersionConflict", "InvalidValue"} :
            \/ s = "NotFound" /\ q.op # "put" /\ Found(q, rows) = {}
            \/ s = "Forbidden" /\ q.op # "put" /\ Found(q, rows) # {} /\ target = {}
            \/ s = "VersionConflict" /\ \E r \in target : ~ Precondition(q, r)
            \/ s = "InvalidValue" /\ \E r \in target :
                    Precondition(q, r) /\ NewValue(q, r) \notin Values}

-----------------------------------------------------------------------------
(* History: what the target of each running request has looked like.       *)

Look(q, table) ==
    IF Target(q, table) = {} THEN "absent"
    ELSE IF \E r \in Target(q, table) : Precondition(q, r) THEN "match"
    ELSE "stale"

\* Every running request sees the table that a step leaves behind.
Observe(table) ==
    seen' = [c \in Slots |->
                IF pc[c] = "ready" THEN seen[c]
                ELSE seen[c] \cup {Look(q, table) : q \in req[c]}]

-----------------------------------------------------------------------------
Init ==
    /\ rows = {}
    /\ nextId = 1
    /\ pc = [c \in Slots |-> "ready"]
    /\ req = [c \in Slots |-> {}]
    /\ base = [c \in Slots |-> {}]
    /\ reply = [c \in Slots |-> [status |-> "None", row |-> {}]]
    /\ committed = [c \in Slots |-> {}]
    /\ seen = [c \in Slots |-> {}]

\* The request ends with this answer.
Answer(c, status, row) ==
    /\ pc' = [pc EXCEPT ![c] = "ready"]
    /\ base' = [base EXCEPT ![c] = {}]
    /\ reply' = [reply EXCEPT ![c] = [status |-> status, row |-> row]]

\* A statement ran and changed nothing.
NoWrite == UNCHANGED <<rows, nextId, req, committed, seen>>

\* A conditional write without If-Match is refused before the service is called.
LacksIfMatch(q) == q.op \in {"patch", "delete"} /\ q.ifMatch = {}

\* A request reaches its handler.
Receive(c, q) ==
    /\ pc[c] = "ready"
    /\ req' = [req EXCEPT ![c] = {q}]
    /\ base' = [base EXCEPT ![c] = {}]
    /\ committed' = [committed EXCEPT ![c] = {}]
    /\ seen' = [seen EXCEPT ![c] = {Look(q, rows)}]
    /\ pc' = [pc EXCEPT ![c] = IF LacksIfMatch(q) THEN "ready" ELSE "find"]
    /\ reply' = [reply EXCEPT ![c] =
                    [status |-> IF LacksIfMatch(q) THEN "VersionConflict"
                                ELSE "None",
                     row |-> {}]]
    /\ UNCHANGED <<rows, nextId>>

\* find makes a Setting of every row of the tenant and the key, whoever owns it:
\* one row that does not load fails every request for the key.
FindLoads(q) == \A r \in Found(q, rows) : Loads(r)

FindFails(c, q) ==
    /\ pc[c] = "find" /\ ~ FindLoads(q)
    /\ Answer(c, "InvalidValue", {})
    /\ NoWrite

\* GET: one SELECT, and the answer.
Get(c, q) ==
    /\ pc[c] = "find" /\ q.op = "get" /\ FindLoads(q)
    /\ \/ FirstReadable(q, rows) # {} /\ Answer(c, "Ok", FirstReadable(q, rows))
       \/ Found(q, rows) = {} /\ Answer(c, "NotFound", {})
       \/ /\ Found(q, rows) # {} /\ FirstReadable(q, rows) = {}
          /\ Answer(c, "Forbidden", {})
    /\ NoWrite

\* PUT, PATCH, DELETE after find: refused.
Refuse(c, q) ==
    /\ pc[c] = "find" /\ q.op # "get" /\ FindLoads(q)
    /\ \E s \in Refusals(q) : Answer(c, s, {})
    /\ NoWrite

\* PUT, PATCH, DELETE after find: on to the write, with the row found.
Proceed(c, q) ==
    /\ pc[c] = "find" /\ q.op # "get" /\ FindLoads(q)
    /\ Refusals(q) = {}
    /\ pc' = [pc EXCEPT ![c] = "write"]
    /\ base' = [base EXCEPT ![c] = Target(q, rows)]
    /\ UNCHANGED reply
    /\ NoWrite

\* A statement that wrote commits.  The row it returns goes through into_domain,
\* and a row that does not load is in the table all the same; or the answer is
\* lost with the connection (Io -> Unavailable) or with the caller (the future is
\* dropped).
\*
\* Variant with a bug: Io falls into the opaque bucket.
CommitStatusesOpaque(row) ==
    {IF \A r \in row : Loads(r) THEN "Ok" ELSE "InvalidValue", "Internal", "Dropped"}
CommitStatuses(row) ==
    {IF \A r \in row : Loads(r) THEN "Ok" ELSE "InvalidValue", "Unavailable", "Dropped"}

Commit(c, table, consumed, row) ==
    /\ rows' = table
    /\ committed' = [committed EXCEPT ![c] = {consumed}]
    /\ Observe(table)
    /\ \E s \in CommitStatuses(row) : Answer(c, s, IF s = "Ok" THEN row ELSE {})
    /\ UNCHANGED req

Consumed(r) == [id |-> r.id, version |-> r.version]

\* Nothing was found: INSERT ... ON CONFLICT DO NOTHING.
Insert(c, q) ==
    /\ pc[c] = "write" /\ base[c] = {}
    /\ nextId <= MaxId
    /\ Target(q, rows) = {}
    /\ LET new == Inserted(q, nextId)
       IN  Commit(c, rows \cup {new}, [id |-> nextId, version |-> 0], {new})
    /\ nextId' = nextId + 1

InsertConflict(c, q) ==
    /\ pc[c] = "write" /\ base[c] = {}
    /\ nextId <= MaxId
    /\ Target(q, rows) # {}
    /\ Answer(c, "Conflict", {})
    /\ NoWrite

\* The sequence behind id is exhausted: the statement fails.
InsertFails(c) ==
    /\ pc[c] = "write" /\ base[c] = {}
    /\ nextId > MaxId
    /\ Answer(c, "Internal", {})
    /\ NoWrite

\* The row that UPDATE and DELETE act on: both are bound to the version of the
\* If-Match, not to the one that find returned.
Expected(q) == UNION {Matching(q, rows, v) : v \in q.ifMatch}

Update(c, q) ==
    /\ pc[c] = "write" /\ q.op # "delete"
    /\ \E b \in base[c], r \in Expected(q) :
          /\ ~ Overflows(r)
          /\ LET new == Updated(r, NewValue(q, b))
             IN  Commit(c, (rows \ {r}) \cup {new}, Consumed(r), {new})
    /\ UNCHANGED nextId

UpdateOverflows(c, q) ==
    /\ pc[c] = "write" /\ q.op # "delete" /\ base[c] # {}
    /\ \E r \in Expected(q) : Overflows(r)
    /\ Answer(c, "Internal", {})
    /\ NoWrite

Delete(c, q) ==
    /\ pc[c] = "write" /\ q.op = "delete" /\ base[c] # {}
    /\ \E r \in Expected(q) :
          Commit(c, rows \ {r}, Consumed(r), {})
    /\ UNCHANGED nextId

\* UPDATE or DELETE returned no row: a second statement asks why.
Miss(c, q) ==
    /\ pc[c] = "write" /\ base[c] # {}
    /\ Expected(q) = {}
    /\ pc' = [pc EXCEPT ![c] = "exists"]
    /\ UNCHANGED <<base, reply>>
    /\ NoWrite

\* Variants with a bug: the two answers swapped; an absent row not answered.
MissStatusSwapped(q) ==
    IF Target(q, rows) = {} THEN "VersionConflict" ELSE "NotFound"
MissStatus(q) ==
    IF Target(q, rows) # {} THEN "VersionConflict" ELSE "NotFound"

ExistsOnly(c, q) ==
    /\ pc[c] = "exists" /\ Target(q, rows) # {}
    /\ Answer(c, "VersionConflict", {})
    /\ NoWrite
Exists(c, q) ==
    /\ pc[c] = "exists"
    /\ Answer(c, MissStatus(q), {})
    /\ NoWrite

\* A statement that did not take effect: the pool timed out, the connection
\* broke (Unavailable), the database refused it (Internal), or the caller went
\* away and the future was dropped at the await.
Fail(c) ==
    /\ pc[c] # "ready"
    /\ \E s \in {"Unavailable", "Internal", "Dropped"} : Answer(c, s, {})
    /\ NoWrite

-----------------------------------------------------------------------------
Statement(c, q) ==
    \/ FindFails(c, q) \/ Get(c, q) \/ Refuse(c, q) \/ Proceed(c, q)
    \/ Insert(c, q) \/ InsertConflict(c, q) \/ InsertFails(c)
    \/ Update(c, q) \/ UpdateOverflows(c, q) \/ Delete(c, q)
    \/ Miss(c, q) \/ Exists(c, q)

\* The slot's handler makes its next statement.
Serve(c) == \E q \in req[c] : Statement(c, q)

Next ==
    \E c \in Slots :
        \/ \E q \in Requests : Receive(c, q)
        \/ Serve(c)
        \/ Fail(c)

\* A statement that was sent ends (or its caller is told that it failed): no
\* statement waits for another request.  This is an assumption about Postgres and
\* the network, which answer or break the connection: the pool's time-out covers
\* only the wait for a connection, and nothing bounds a running statement.
Fairness == \A c \in Slots : WF_vars(Serve(c))

Spec == Init /\ [][Next]_vars
FairSpec == Spec /\ Fairness

-----------------------------------------------------------------------------
(* Properties.                                                             *)

\* The variables have their types: in particular no version leaves the range of
\* its column, and what a request holds or is handed is within the size limit
\* (a row of the table may not be: its value grows when it is stored).
TypeOK ==
    /\ rows \subseteq Row
    /\ nextId \in Nat \ {0}
    /\ pc \in [Slots -> {"ready", "find", "write", "exists"}]
    /\ req \in [Slots -> SUBSET Requests]
    /\ base \in [Slots -> SUBSET Setting]
    /\ reply \in [Slots -> [status : Statuses, row : SUBSET Setting]]
    /\ committed \in [Slots -> SUBSET [id : Nat, version : 0 .. MaxVersion]]
    /\ seen \in [Slots -> SUBSET {"absent", "match", "stale"}]

\* At most one request wins each version of a row: two writes that committed
\* never consumed the same version of the same incarnation of a row, whatever
\* mix of update, delete and insert they were and whatever the callers were told.
UniqueWinner ==
    \A c, d \in Slots : c # d => committed[c] \cap committed[d] = {}

\* A row that was handed out (answered to a caller, or held by a request that
\* is about to write) is never silently replaced under the same version: the row
\* with that id is still exactly that row, or it has moved on to a later version.
HandedOutRowsKept ==
    \A c \in Slots : \A h \in base[c] \cup reply[c].row : \A r \in rows :
        r.id = h.id => r = h \/ r.version > h.version

\* The row an update or a delete replaces is the one the request found and
\* checked its If-Match against, as long as the row was not deleted meanwhile:
\* no concurrent write to it is lost.
NoLostUpdate ==
    [][\A c \in Slots : \A b \in base[c], r \in rows :
          /\ committed[c] = {} /\ committed'[c] = {Consumed(r)}
          /\ r.id = b.id
          => r = b]_vars

\* A request whose If-Match fitted its target in every state from its arrival to
\* its answer is never told of a conflict or of a missing or forbidden target.
NoSpuriousRefusal ==
    \A c \in Slots :
        pc[c] = "ready" /\ seen[c] = {"match"} =>
            reply[c].status \notin
                {"VersionConflict", "Conflict", "NotFound", "Forbidden"}

\* A refusal tells of a state that did occur while the request was served: the
\* target was missing (NotFound, Forbidden), there (Conflict), or not at the
\* expected version (VersionConflict: another version, or gone in between).
RefusalsJustified ==
    \A c \in Slots :
        pc[c] = "ready" /\ (\E q \in req[c] : q.op # "get") =>
            /\ reply[c].status \in {"NotFound", "Forbidden"} => "absent" \in seen[c]
            /\ reply[c].status = "Conflict" => seen[c] \cap {"match", "stale"} # {}
            /\ reply[c].status = "VersionConflict" =>
                  seen[c] \cap {"stale", "absent"} # {}

\* An error other than Unavailable means that nothing was written, so a caller may
\* correct the request and send it again.  The one exception is InvalidValue of a
\* put or a patch that did write: then the row it wrote is one that does not load,
\* as long as it is in the table.  Ok on a write means that it was written.
ErrorsHaveNoEffect ==
    \A c \in Slots :
        pc[c] = "ready" =>
            /\ reply[c].status \in
                  Statuses \ {"Ok", "Unavailable", "Dropped", "InvalidValue"} =>
                  committed[c] = {}
            /\ reply[c].status = "InvalidValue" =>
                  \A k \in committed[c] :
                     /\ \A q \in req[c] : q.op \in {"put", "patch"}
                     /\ \A r \in rows :
                           r.id = k.id /\ r.version = k.version + 1 => ~ Loads(r)
            /\ reply[c].status = "Ok" /\ (\E q \in req[c] : q.op # "get") =>
                  committed[c] # {}

\* While the row a caller wrote is in place, that row and not another one it may
\* read is what a get by the same principal picks (scope and read order agree).
ReadYourWrites ==
    \A c \in Slots : \A q \in req[c] : \A r \in reply[c].row :
        q.op # "get" /\ r \in rows => FirstReadable(q, rows) = {r}

\* Every call of this service is answered (or its caller is gone).  What the
\* handlers call is its decorator, which after Ok waits in notify without a bound:
\* that wait is in ConfigNotifications, and this property does not speak of it.
Answered == \A c \in Slots : pc[c] # "ready" ~> pc[c] = "ready"

-----------------------------------------------------------------------------
(* What makes the safety properties inductive.                             *)

\* The unique index, and the primary key.
UniqueRows ==
    \A r, s \in rows :
        r.id = s.id \/ (r.tenant = s.tenant /\ r.user = s.user /\ r.key = s.key)
        => r = s

\* Every id in use came from the sequence, which never gives it out again.
IdsIssued ==
    /\ \A r \in rows : r.id < nextId
    /\ \A c \in Slots :
          /\ \A h \in base[c] \cup reply[c].row : h.id < nextId
          /\ \A k \in committed[c] : k.id < nextId

\* A version that a write consumed does not come back.
ConsumedVersionsGone ==
    \A c \in Slots : \A k \in committed[c] : \A r \in rows :
        r.id = k.id => r.version > k.version

\* A slot serves one request, which writes at most once.
OneWrite ==
    \A c \in Slots :
        /\ \A q, p \in req[c] : q = p
        /\ pc[c] # "ready" => committed[c] = {}

\* A request about to write holds the row that passed its checks, if any.
WriteChecked ==
    \A c \in Slots : \A q \in req[c] : pc[c] = "write" =>
        /\ q.op # "get"
        /\ base[c] = {} => q.op = "put"
        /\ \A b \in base[c] :
              /\ q.ifMatch = {b.version}
              /\ NewValue(q, b) \in Values

\* The table and the running requests agree with each other at every step: what
\* the properties above need to know of the states they start from.
Consistent ==
    /\ UniqueRows
    /\ IdsIssued
    /\ ConsumedVersionsGone
    /\ OneWrite
    /\ WriteChecked

IInv == TypeOK /\ Consistent /\ HandedOutRowsKept /\ UniqueWinner

-----------------------------------------------------------------------------
(* What makes the properties of the answers inductive.                     *)

\* A running request has seen its target as it is.
SeenCurrent ==
    \A c \in Slots : \A q \in req[c] :
        pc[c] # "ready" => Look(q, rows) \in seen[c]

\* What a request takes for granted after a statement that returned no row has
\* been so while it was served.
MissWitnessed ==
    \A c \in Slots :
        /\ pc[c] = "write" /\ base[c] = {} => "absent" \in seen[c]
        /\ pc[c] = "exists" => seen[c] \cap {"stale", "absent"} # {}

\* A refusal, of a get too, was justified at some point.  A Conflict takes two:
\* the target was missing for find, and there for INSERT.
RefusalWitnessed ==
    \A c \in Slots : pc[c] = "ready" =>
        /\ reply[c].status \in {"NotFound", "Forbidden"} => "absent" \in seen[c]
        /\ reply[c].status = "Conflict" =>
              "absent" \in seen[c] /\ seen[c] \cap {"match", "stale"} # {}
        /\ reply[c].status = "VersionConflict" =>
              seen[c] \cap {"stale", "absent"} # {}

\* The row a write answers with is in the scope the principal writes to.
RepliedInScope ==
    \A c \in Slots : \A q \in req[c] : \A r \in reply[c].row :
        q.op # "get" =>
            /\ r.tenant = q.auth.tenant
            /\ r.user = ScopeUser(q.auth)
            /\ r.key = q.key

\* The answers and the requests on their way to one agree with what was seen.
AnswersWitnessed ==
    /\ SeenCurrent
    /\ MissWitnessed
    /\ RefusalWitnessed
    /\ RepliedInScope
    /\ ErrorsHaveNoEffect

-----------------------------------------------------------------------------
(* Properties that the comments of the code state and that do not hold.    *)

\* "Value failed value-object validation", "client changes something and
\* re-sends": after an answer of the act bucket nothing was written.  Fails when a
\* value that was accepted is over the limit once it is stored.
ActMeansRefused ==
    \A c \in Slots :
        reply[c].status \in
            {"NotFound", "Forbidden", "VersionConflict", "Conflict", "InvalidValue"}
        => committed[c] = {}

\* "a stale precondition is detected atomically": the row a write replaces is
\* the one the request read.  Fails across delete and re-create, because the
\* version starts at 1 again.
ReplacesWhatItRead ==
    [][\A c \in Slots : \A b \in base[c], r \in rows :
          committed[c] = {} /\ committed'[c] = {Consumed(r)} => r = b]_vars

\* "a stale precondition -> 409": a put with If-Match succeeds only on a row
\* that had that version.  Fails when the row is gone: put creates it again.
IfMatchHonoured ==
    \A c \in Slots :
        reply[c].status = "Ok"
        /\ (\E q \in req[c] : q.op = "put" /\ q.ifMatch # {})
        => "match" \in seen[c]

\* "Stale -> VersionConflict; absent -> NotFound": VersionConflict means that the
\* row was there at another version.  Fails when the row was deleted before the
\* UPDATE and created again before the query that asks why nothing matched.
ConflictMeansStale ==
    \A c \in Slots :
        reply[c].status = "VersionConflict" /\ (\E q \in req[c] : q.ifMatch # {})
        => "stale" \in seen[c]
=============================================================================

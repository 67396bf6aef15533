------------------------- MODULE SettingsServiceProofs -------------------------
(***************************************************************************)
(* Proofs about SettingsService, for any number of slots, any requests and *)
(* any bounds.  First the inductive invariant IInv, and from it the safety *)
(* properties of the table and the action property NoLostUpdate; then the  *)
(* answers: that a refusal tells of something that was so, which errors    *)
(* leave no effect, and that a caller reads the row it wrote.  For these   *)
(* AnswersWitnessed is inductive together with IInv.                       *)
(***************************************************************************)
EXTENDS SettingsService, TLAPS

-----------------------------------------------------------------------------
(* The statements.                                                         *)

\* What the selections on the table return are rows of the table, and the target
\* of a request has the identity that an insert for the request would have.
LEMMA SelectionFacts ==
    ASSUME NEW q, NEW table
    PROVE  /\ Target(q, table) \subseteq Found(q, table)
           /\ Found(q, table) \subseteq table
           /\ FirstReadable(q, table) \subseteq table
           /\ \A r \in table :
                 r \in Target(q, table) <=>
                    /\ r.tenant = q.auth.tenant
                    /\ r.user = ScopeUser(q.auth)
                    /\ r.key = q.key
  BY DEF Target, Found, FirstReadable

\* The row that UPDATE and DELETE match is in the target, at the version of the
\* precondition.
LEMMA ExpectedFacts ==
    ASSUME NEW q
    PROVE  \A r \in Expected(q) : r \in Target(q, rows) /\ r.version \in q.ifMatch
  BY DEF Expected, Matching

\* A request that find lets pass has found a row it may replace, or is a put.
LEMMA PassedFind ==
    ASSUME NEW q, Refusals(q) = {}
    PROVE  /\ Target(q, rows) = {} => q.op = "put"
           /\ \A r \in Target(q, rows) :
                 Precondition(q, r) /\ NewValue(q, r) \in Values
  <1>1. "NotFound" \notin Refusals(q)
    OBVIOUS
  <1>2. "Forbidden" \notin Refusals(q)
    OBVIOUS
  <1>3. "VersionConflict" \notin Refusals(q)
    OBVIOUS
  <1>4. "InvalidValue" \notin Refusals(q)
    OBVIOUS
  <1> QED
    BY <1>1, <1>2, <1>3, <1>4 DEF Refusals

\* Requests, and the values they write, are well formed.
LEMMA RequestFacts ==
    ASSUME NEW q \in Requests
    PROVE  /\ q.op \in Ops
           /\ q.auth \in [tenant : Tenants, user : Users, role : Roles]
           /\ q.key \in Keys
           /\ q.ifMatch = {} \/ \E v \in 1 .. MaxVersion : q.ifMatch = {v}
           /\ q.body.set \in Values
  BY RequestsAssumption DEF WellFormed

\* A value that is accepted has members, whatever jsonb makes of it.
LEMMA StoredFacts ==
    ASSUME NEW v \in Values
    PROVE  JsonB(v) \in SUBSET Fields
  BY BoundsAssumption DEF Values, JsonB

\* Whether a commit is told Ok depends on the row it returns.
LEMMA CommitStatusFacts ==
    ASSUME NEW row, NEW s \in CommitStatuses(row)
    PROVE  /\ s \in {"Ok", "InvalidValue", "Unavailable", "Dropped"}
           /\ s \in Statuses
           /\ s = "Ok" => \A r \in row : Loads(r)
           /\ s = "InvalidValue" => \E r \in row : ~ Loads(r)
  BY DEF CommitStatuses, Statuses

\* The rows that requests hold or answer with are rows.
LEMMA HeldRows ==
    ASSUME TypeOK
    PROVE  \A c \in Slots : \A h \in base[c] \cup reply[c].row : h \in Row
  BY DEF TypeOK, Setting

-----------------------------------------------------------------------------
(* The invariant: Init, and one lemma per kind of step.                    *)

\* An empty table and no requests.
LEMMA InitEstablishes == Init => IInv
  <1> SUFFICES ASSUME Init PROVE IInv
    OBVIOUS
  <1>1. TypeOK
    BY DEF Init, TypeOK, Statuses
  <1>2. Consistent
    BY DEF Init, Consistent, UniqueRows, IdsIssued, ConsumedVersionsGone,
           OneWrite, WriteChecked
  <1>3. HandedOutRowsKept /\ UniqueWinner
    BY DEF Init, HandedOutRowsKept, UniqueWinner
  <1> QED
    BY <1>1, <1>2, <1>3 DEF IInv

LEMMA ReceivePreserves ==
    ASSUME IInv, NEW c \in Slots, NEW q \in Requests, Receive(c, q)
    PROVE  IInv'
  <1> USE DEF IInv, Consistent
  <1>1. Look(q, rows) \in {"absent", "match", "stale"}
    BY DEF Look
  <1>2. TypeOK'
    BY <1>1 DEF TypeOK, Receive, Statuses
  <1>3. UniqueRows'
    BY DEF UniqueRows, Receive
  <1>4. IdsIssued'
    BY DEF IdsIssued, Receive, TypeOK
  <1>5. ConsumedVersionsGone'
    BY DEF ConsumedVersionsGone, Receive, TypeOK
  <1>6. OneWrite'
    BY DEF OneWrite, Receive, TypeOK
  <1>7. WriteChecked'
    <2> SUFFICES ASSUME NEW d \in Slots, NEW p \in req'[d], pc'[d] = "write"
                 PROVE  /\ p.op # "get"
                        /\ base'[d] = {} => p.op = "put"
                        /\ \A b \in base'[d] :
                              p.ifMatch = {b.version} /\ NewValue(p, b) \in Values
      BY DEF WriteChecked, NewValue, Merge
    <2>1. d # c
      BY DEF Receive, TypeOK
    <2> QED
      BY <2>1 DEF Receive, TypeOK, WriteChecked
  <1>8. HandedOutRowsKept'
    BY DEF HandedOutRowsKept, Receive, TypeOK
  <1>9. UniqueWinner'
    BY DEF UniqueWinner, Receive, TypeOK
  <1> QED
    BY <1>2, <1>3, <1>4, <1>5, <1>6, <1>7, <1>8, <1>9

\* A step that ends a request and writes nothing, whatever its status, and
\* hands out rows of the table at most.
LEMMA AnswerPreserves ==
    ASSUME IInv, NEW c \in Slots, NEW status \in Statuses,
           NEW row \in SUBSET rows, \A r \in row : Loads(r),
           Answer(c, status, row), NoWrite
    PROVE  IInv'
  <1> USE DEF IInv, Consistent
  <1>1. TypeOK'
    <2>1. row \in SUBSET Setting
      BY DEF TypeOK, Setting
    <2> QED
      BY <2>1 DEF TypeOK, Answer, NoWrite
  <1>2. UniqueRows'
    BY DEF UniqueRows, NoWrite
  <1>3. IdsIssued'
    BY DEF IdsIssued, Answer, NoWrite, TypeOK
  <1>4. ConsumedVersionsGone'
    BY DEF ConsumedVersionsGone, NoWrite
  <1>5. OneWrite'
    BY DEF OneWrite, Answer, NoWrite, TypeOK
  <1>6. WriteChecked'
    <2> SUFFICES ASSUME NEW d \in Slots, NEW p \in req'[d], pc'[d] = "write"
                 PROVE  /\ p.op # "get"
                        /\ base'[d] = {} => p.op = "put"
                        /\ \A b \in base'[d] :
                              p.ifMatch = {b.version} /\ NewValue(p, b) \in Values
      BY DEF WriteChecked, NewValue, Merge
    <2>1. d # c
      BY DEF Answer, TypeOK
    <2> QED
      BY <2>1 DEF Answer, NoWrite, TypeOK, WriteChecked
  <1>7. HandedOutRowsKept'
    BY DEF HandedOutRowsKept, UniqueRows, Answer, NoWrite, TypeOK
  <1>8. UniqueWinner'
    BY DEF UniqueWinner, NoWrite
  <1> QED
    BY <1>1, <1>2, <1>3, <1>4, <1>5, <1>6, <1>7, <1>8

LEMMA ProceedPreserves ==
    ASSUME IInv, NEW c \in Slots, NEW q \in req[c], Proceed(c, q)
    PROVE  IInv'
  <1> USE DEF IInv, Consistent
  <1>1. Target(q, rows) \subseteq rows
    BY SelectionFacts
  <1>2. TypeOK'
    <2>1. Target(q, rows) \in SUBSET Setting
      BY <1>1, SelectionFacts DEF Proceed, FindLoads, TypeOK, Setting
    <2> QED
      BY <2>1 DEF TypeOK, Proceed, NoWrite
  <1>3. UniqueRows'
    BY DEF UniqueRows, Proceed, NoWrite
  <1>4. IdsIssued'
    BY <1>1 DEF IdsIssued, Proceed, NoWrite, TypeOK
  <1>5. ConsumedVersionsGone'
    BY DEF ConsumedVersionsGone, Proceed, NoWrite
  <1>6. OneWrite'
    BY DEF OneWrite, Proceed, NoWrite, TypeOK
  <1>7. WriteChecked'
    <2> SUFFICES ASSUME NEW d \in Slots, NEW p \in req'[d], pc'[d] = "write"
                 PROVE  /\ p.op # "get"
                        /\ base'[d] = {} => p.op = "put"
                        /\ \A b \in base'[d] :
                              p.ifMatch = {b.version} /\ NewValue(p, b) \in Values
      BY DEF WriteChecked, NewValue, Merge
    <2>1. CASE d = c
      <3>1. p = q
        BY <2>1 DEF Proceed, NoWrite, OneWrite, TypeOK
      <3>2. base'[c] = Target(q, rows)
        BY DEF Proceed, TypeOK
      <3>3. \A b \in Target(q, rows) : b.version \in q.ifMatch
        BY PassedFind DEF Proceed, Precondition
      <3>4. q \in Requests
        BY DEF TypeOK
      <3>5. \A b \in Target(q, rows) : q.ifMatch = {b.version}
        BY <3>3, <3>4, RequestFacts
      <3> QED
        BY <2>1, <3>1, <3>2, <3>5, PassedFind DEF Proceed
    <2>2. CASE d # c
      BY <2>2 DEF Proceed, NoWrite, TypeOK, WriteChecked
    <2> QED
      BY <2>1, <2>2
  <1>8. HandedOutRowsKept'
    BY <1>1 DEF HandedOutRowsKept, UniqueRows, Proceed, NoWrite, TypeOK
  <1>9. UniqueWinner'
    BY DEF UniqueWinner, Proceed, NoWrite
  <1> QED
    BY <1>2, <1>3, <1>4, <1>5, <1>6, <1>7, <1>8, <1>9

LEMMA MissPreserves ==
    ASSUME IInv, NEW c \in Slots, NEW q \in req[c], Miss(c, q)
    PROVE  IInv'
  <1> USE DEF IInv, Consistent
  <1>1. TypeOK'
    BY DEF TypeOK, Miss, NoWrite
  <1>2. UniqueRows' /\ IdsIssued' /\ ConsumedVersionsGone'
    BY DEF UniqueRows, IdsIssued, ConsumedVersionsGone, Miss, NoWrite
  <1>3. OneWrite'
    BY DEF OneWrite, Miss, NoWrite, TypeOK
  <1>4. WriteChecked'
    <2> SUFFICES ASSUME NEW d \in Slots, NEW p \in req'[d], pc'[d] = "write"
                 PROVE  /\ p.op # "get"
                        /\ base'[d] = {} => p.op = "put"
                        /\ \A b \in base'[d] :
                              p.ifMatch = {b.version} /\ NewValue(p, b) \in Values
      BY DEF WriteChecked, NewValue, Merge
    <2>1. d # c
      BY DEF Miss, TypeOK
    <2> QED
      BY <2>1 DEF Miss, NoWrite, TypeOK, WriteChecked
  <1>5. HandedOutRowsKept' /\ UniqueWinner'
    BY DEF HandedOutRowsKept, UniqueWinner, Miss, NoWrite
  <1> QED
    BY <1>1, <1>2, <1>3, <1>4, <1>5

-----------------------------------------------------------------------------
(* The three steps that write.                                             *)

\* INSERT adds one row, under an id that no row, request or answer has.
LEMMA InsertPreserves ==
    ASSUME IInv, NEW c \in Slots, NEW q \in req[c], Insert(c, q)
    PROVE  IInv'
  <1> DEFINE new == Inserted(q, nextId)
             mark == [id |-> nextId, version |-> 0]
  <1> USE DEF IInv, Consistent
  <1>1. /\ pc[c] = "write" /\ base[c] = {} /\ Target(q, rows) = {}
        /\ rows' = rows \cup {new} /\ nextId' = nextId + 1
        /\ committed' = [committed EXCEPT ![c] = {mark}]
        /\ req' = req
    BY DEF Insert, Commit
  <1>2. PICK s \in CommitStatuses({new}) :
            Answer(c, s, IF s = "Ok" THEN {new} ELSE {})
    BY DEF Insert, Commit
  <1>3. /\ pc' = [pc EXCEPT ![c] = "ready"]
        /\ base' = [base EXCEPT ![c] = {}]
        /\ \E w \in SUBSET {new} :
              /\ \A r \in w : Loads(r)
              /\ reply' = [reply EXCEPT ![c] = [status |-> s, row |-> w]]
    <2> DEFINE w == IF s = "Ok" THEN {new} ELSE {}
    <2> HIDE DEF new
    <2>1. w \in SUBSET {new} /\ \A r \in w : Loads(r)
      BY <1>2, CommitStatusFacts
    <2>2. Answer(c, s, w)
      BY <1>2
    <2> HIDE DEF w
    <2> QED
      BY <2>1, <2>2 DEF Answer
  <1>4. s \in Statuses
    BY CommitStatusFacts
  <1>5. q \in Requests
    BY DEF TypeOK
  <1>6. /\ q.auth.tenant \in Tenants /\ ScopeUser(q.auth) \in Owners
        /\ q.key \in Keys /\ 1 \in 1 .. MaxVersion
        /\ JsonB(q.body.set) \in SUBSET Fields
        /\ nextId \in Nat
    <2>1. /\ q.auth.tenant \in Tenants /\ q.auth.user \in Users
          /\ q.key \in Keys /\ JsonB(q.body.set) \in SUBSET Fields
      BY <1>5, RequestFacts, StoredFacts
    <2>2. ScopeUser(q.auth) \in Owners
      BY <2>1 DEF ScopeUser, Owners
    <2>3. nextId \in Nat /\ 1 \in 1 .. MaxVersion
      BY BoundsAssumption DEF TypeOK
    <2> QED
      BY <2>1, <2>2, <2>3
  <1>7. /\ new \in Row /\ new.id = nextId /\ new.version = 1
        /\ new.tenant = q.auth.tenant /\ new.user = ScopeUser(q.auth)
        /\ new.key = q.key
    BY <1>6 DEF Inserted, Row
  <1>8. mark \in [id : Nat, version : 0 .. MaxVersion]
    BY <1>6, BoundsAssumption
  <1> HIDE DEF new, mark
  <1>9. seen' \in [Slots -> SUBSET {"absent", "match", "stale"}]
    BY DEF Insert, Commit, Observe, Look, TypeOK
  <1>10. TypeOK'
    <2>1. rows' \subseteq Row /\ nextId' \in Nat \ {0}
      BY <1>1, <1>7 DEF TypeOK
    <2>2. /\ pc' \in [Slots -> {"ready", "find", "write", "exists"}]
          /\ req' \in [Slots -> SUBSET Requests]
          /\ base' \in [Slots -> SUBSET Setting]
      BY <1>1, <1>3 DEF TypeOK
    <2>3. reply' \in [Slots -> [status : Statuses, row : SUBSET Setting]]
      BY <1>3, <1>4, <1>7 DEF TypeOK, Setting
    <2>4. committed' \in [Slots -> SUBSET [id : Nat, version : 0 .. MaxVersion]]
      BY <1>1, <1>8 DEF TypeOK
    <2> QED
      BY <1>9, <2>1, <2>2, <2>3, <2>4 DEF TypeOK
  <1>11. UniqueRows'
    <2>1. \A r \in rows : r.id # new.id
      BY <1>7 DEF IdsIssued, TypeOK, Row
    <2>2. \A r \in rows :
            ~(r.tenant = new.tenant /\ r.user = new.user /\ r.key = new.key)
      BY <1>1, <1>7, SelectionFacts
    <2> QED
      BY <1>1, <2>1, <2>2 DEF UniqueRows
  <1>12. IdsIssued'
    <2>1. mark.id = nextId
      BY DEF mark
    <2>2. \A r \in rows' : r.id < nextId'
      BY <1>1, <1>6, <1>7 DEF IdsIssued, TypeOK, Row
    <2>3. \A d \in Slots : \A h \in base'[d] \cup reply'[d].row : h.id < nextId'
      BY <1>1, <1>3, <1>6, <1>7, HeldRows DEF IdsIssued, TypeOK, Row
    <2>4. \A d \in Slots : \A k \in committed'[d] : k.id < nextId'
      BY <1>1, <1>6, <2>1 DEF IdsIssued, TypeOK
    <2> QED
      BY <2>2, <2>3, <2>4 DEF IdsIssued
  <1>13. ConsumedVersionsGone'
    <2>1. mark.id = nextId /\ mark.version = 0
      BY DEF mark
    <2> QED
      BY <1>1, <1>6, <1>7, <2>1 DEF ConsumedVersionsGone, IdsIssued, TypeOK, Row
  <1>14. OneWrite'
    BY <1>1, <1>3 DEF OneWrite, TypeOK
  <1>15. WriteChecked'
    <2> SUFFICES ASSUME NEW d \in Slots, NEW p \in req'[d], pc'[d] = "write"
                 PROVE  /\ p.op # "get"
                        /\ base'[d] = {} => p.op = "put"
                        /\ \A a \in base'[d] :
                              p.ifMatch = {a.version} /\ NewValue(p, a) \in Values
      BY DEF WriteChecked, NewValue, Merge
    <2>1. d # c
      BY <1>3 DEF TypeOK
    <2> QED
      BY <1>1, <1>3, <2>1 DEF TypeOK, WriteChecked
  <1>16. HandedOutRowsKept'
    BY <1>1, <1>3, <1>6, <1>7
       DEF HandedOutRowsKept, IdsIssued, TypeOK, Row
  <1>17. UniqueWinner'
    <2>1. \A d \in Slots : mark \notin committed[d]
      BY <1>6 DEF mark, IdsIssued
    <2> QED
      BY <1>1, <2>1 DEF UniqueWinner, TypeOK
  <1> QED
    BY <1>10, <1>11, <1>12, <1>13, <1>14, <1>15, <1>16, <1>17

\* UPDATE replaces a row by one with the same identity and the next version.
LEMMA UpdatePreserves ==
    ASSUME IInv, NEW c \in Slots, NEW q \in req[c], Update(c, q)
    PROVE  IInv'
  <1> USE DEF IInv, Consistent
  <1>1. PICK b \in base[c], r \in Expected(q) :
          /\ ~ Overflows(r)
          /\ Commit(c, (rows \ {r}) \cup {Updated(r, NewValue(q, b))}, Consumed(r),
                    {Updated(r, NewValue(q, b))})
    BY DEF Update
  <1> DEFINE new == Updated(r, NewValue(q, b))
             mark == Consumed(r)
  <1>2. /\ rows' = (rows \ {r}) \cup {new} /\ nextId' = nextId
        /\ committed' = [committed EXCEPT ![c] = {mark}]
        /\ req' = req
    BY <1>1 DEF Update, Commit
  <1>3. PICK s \in CommitStatuses({new}) :
            Answer(c, s, IF s = "Ok" THEN {new} ELSE {})
    BY <1>1 DEF Commit
  <1>4. /\ pc' = [pc EXCEPT ![c] = "ready"]
        /\ base' = [base EXCEPT ![c] = {}]
        /\ \E w \in SUBSET {new} :
              /\ \A t \in w : Loads(t)
              /\ reply' = [reply EXCEPT ![c] = [status |-> s, row |-> w]]
    <2> DEFINE w == IF s = "Ok" THEN {new} ELSE {}
    <2> HIDE DEF new
    <2>1. w \in SUBSET {new} /\ \A t \in w : Loads(t)
      BY <1>3, CommitStatusFacts
    <2>2. Answer(c, s, w)
      BY <1>3
    <2> HIDE DEF w
    <2> QED
      BY <2>1, <2>2 DEF Answer
  <1>5. s \in Statuses
    BY CommitStatusFacts
  <1>6. r \in rows /\ r \in Row
    BY ExpectedFacts, SelectionFacts DEF TypeOK
  <1>7. JsonB(NewValue(q, b)) \in SUBSET Fields
    BY StoredFacts DEF Update, WriteChecked
  <1>8. /\ new \in Row /\ new.id = r.id /\ new.version = r.version + 1
        /\ new.tenant = r.tenant /\ new.user = r.user /\ new.key = r.key
    BY <1>1, <1>6, <1>7, BoundsAssumption DEF Updated, Overflows, Row
  <1>9. /\ mark \in [id : Nat, version : 0 .. MaxVersion]
        /\ mark.id = r.id /\ mark.version = r.version
    BY <1>6, BoundsAssumption DEF Consumed, Row
  <1> HIDE DEF new, mark
  <1>10. seen' \in [Slots -> SUBSET {"absent", "match", "stale"}]
    BY <1>1 DEF Commit, Observe, Look, TypeOK
  <1>11. TypeOK'
    <2>1. rows' \subseteq Row /\ nextId' \in Nat \ {0}
      BY <1>2, <1>8 DEF TypeOK
    <2>2. /\ pc' \in [Slots -> {"ready", "find", "write", "exists"}]
          /\ req' \in [Slots -> SUBSET Requests]
          /\ base' \in [Slots -> SUBSET Setting]
      BY <1>2, <1>4 DEF TypeOK
    <2>3. reply' \in [Slots -> [status : Statuses, row : SUBSET Setting]]
      BY <1>4, <1>5, <1>8 DEF TypeOK, Setting
    <2>4. committed' \in [Slots -> SUBSET [id : Nat, version : 0 .. MaxVersion]]
      BY <1>2, <1>9 DEF TypeOK
    <2> QED
      BY <1>10, <2>1, <2>2, <2>3, <2>4 DEF TypeOK
  <1>12. UniqueRows'
    BY <1>2, <1>6, <1>8 DEF UniqueRows
  <1>13. \A t \in rows' : t = new \/ (t \in rows /\ t.id # r.id)
    BY <1>2, <1>6 DEF UniqueRows
  <1>14. IdsIssued'
    BY <1>2, <1>4, <1>6, <1>8, <1>9 DEF IdsIssued, TypeOK
  <1>15. ConsumedVersionsGone'
    <2> SUFFICES ASSUME NEW d \in Slots, NEW k \in committed'[d],
                        NEW t \in rows', t.id = k.id
                 PROVE  t.version > k.version
      BY DEF ConsumedVersionsGone
    <2>1. CASE k = mark
      BY <1>6, <1>8, <1>9, <1>13, <2>1 DEF Row
    <2>2. CASE k # mark
      <3>1. k \in committed[d]
        BY <1>2, <2>2 DEF TypeOK
      <3>2. k.version \in Nat
        BY <3>1 DEF TypeOK
      <3> QED
        BY <1>6, <1>8, <1>13, <3>1, <3>2 DEF ConsumedVersionsGone, Row
    <2> QED
      BY <2>1, <2>2
  <1>16. OneWrite'
    BY <1>2, <1>4 DEF OneWrite, TypeOK
  <1>17. WriteChecked'
    <2> SUFFICES ASSUME NEW d \in Slots, NEW p \in req'[d], pc'[d] = "write"
                 PROVE  /\ p.op # "get"
                        /\ base'[d] = {} => p.op = "put"
                        /\ \A a \in base'[d] :
                              p.ifMatch = {a.version} /\ NewValue(p, a) \in Values
      BY DEF WriteChecked, NewValue, Merge
    <2>1. d # c
      BY <1>4 DEF TypeOK
    <2> QED
      BY <1>2, <1>4, <2>1 DEF TypeOK, WriteChecked
  <1>18. HandedOutRowsKept'
    <2> SUFFICES ASSUME NEW d \in Slots, NEW h \in base'[d] \cup reply'[d].row,
                        NEW t \in rows', t.id = h.id
                 PROVE  t = h \/ t.version > h.version
      BY DEF HandedOutRowsKept
    <2>1. CASE h = new
      BY <1>8, <1>13, <2>1
    <2>2. CASE h # new
      <3>1. h \in base[d] \cup reply[d].row
        BY <1>4, <2>2 DEF TypeOK
      <3>2. h \in Row
        BY <3>1, HeldRows
      <3> QED
        BY <1>6, <1>8, <1>13, <3>1, <3>2 DEF HandedOutRowsKept, Row
    <2> QED
      BY <2>1, <2>2
  <1>19. UniqueWinner'
    <2>1. \A d \in Slots : mark \notin committed[d]
      BY <1>6, <1>9 DEF ConsumedVersionsGone, Row
    <2> QED
      BY <1>2, <2>1 DEF UniqueWinner, TypeOK
  <1> QED
    BY <1>11, <1>12, <1>14, <1>15, <1>16, <1>17, <1>18, <1>19

\* DELETE removes a row.
LEMMA DeletePreserves ==
    ASSUME IInv, NEW c \in Slots, NEW q \in req[c], Delete(c, q)
    PROVE  IInv'
  <1> USE DEF IInv, Consistent
  <1>1. PICK r \in Expected(q) : Commit(c, rows \ {r}, Consumed(r), {})
    BY DEF Delete
  <1> DEFINE mark == Consumed(r)
  <1>2. /\ rows' = rows \ {r} /\ nextId' = nextId
        /\ committed' = [committed EXCEPT ![c] = {mark}]
        /\ req' = req
    BY <1>1 DEF Delete, Commit
  <1>3. PICK s \in CommitStatuses({}) : Answer(c, s, {})
    BY <1>1 DEF Commit
  <1>4. /\ pc' = [pc EXCEPT ![c] = "ready"]
        /\ base' = [base EXCEPT ![c] = {}]
        /\ reply' = [reply EXCEPT ![c] = [status |-> s, row |-> {}]]
    BY <1>3 DEF Answer
  <1>5. s \in Statuses
    BY CommitStatusFacts
  <1>6. r \in rows /\ r \in Row
    BY ExpectedFacts, SelectionFacts DEF TypeOK
  <1>7. /\ mark \in [id : Nat, version : 0 .. MaxVersion]
        /\ mark.id = r.id /\ mark.version = r.version
    BY <1>6, BoundsAssumption DEF Consumed, Row
  <1> HIDE DEF mark
  <1>8. seen' \in [Slots -> SUBSET {"absent", "match", "stale"}]
    BY <1>1 DEF Commit, Observe, Look, TypeOK
  <1>9. TypeOK'
    BY <1>2, <1>4, <1>5, <1>7, <1>8 DEF TypeOK
  <1>10. UniqueRows'
    BY <1>2 DEF UniqueRows
  <1>11. IdsIssued'
    BY <1>2, <1>4, <1>6, <1>7 DEF IdsIssued, TypeOK
  <1>12. ConsumedVersionsGone'
    BY <1>2, <1>6, <1>7 DEF ConsumedVersionsGone, UniqueRows, TypeOK
  <1>13. OneWrite'
    BY <1>2, <1>4 DEF OneWrite, TypeOK
  <1>14. WriteChecked'
    <2> SUFFICES ASSUME NEW d \in Slots, NEW p \in req'[d], pc'[d] = "write"
                 PROVE  /\ p.op # "get"
                        /\ base'[d] = {} => p.op = "put"
                        /\ \A a \in base'[d] :
                              p.ifMatch = {a.version} /\ NewValue(p, a) \in Values
      BY DEF WriteChecked, NewValue, Merge
    <2>1. d # c
      BY <1>4 DEF TypeOK
    <2> QED
      BY <1>2, <1>4, <2>1 DEF TypeOK, WriteChecked
  <1>15. HandedOutRowsKept'
    BY <1>2, <1>4 DEF HandedOutRowsKept, TypeOK
  <1>16. UniqueWinner'
    <2>1. \A d \in Slots : mark \notin committed[d]
      BY <1>6, <1>7 DEF ConsumedVersionsGone, Row
    <2> QED
      BY <1>2, <2>1 DEF UniqueWinner, TypeOK
  <1> QED
    BY <1>9, <1>10, <1>11, <1>12, <1>13, <1>14, <1>15, <1>16

-----------------------------------------------------------------------------
(* The theorems.                                                           *)

\* Every step preserves the invariant.
\* Every step of Next is one of the kinds above, or changes nothing.
LEMMA NextPreserves == IInv /\ [Next]_vars => IInv'
  <1> SUFFICES ASSUME IInv, [Next]_vars PROVE IInv'
    OBVIOUS
  <1>1. ASSUME NEW c \in Slots, NEW q \in Requests, Receive(c, q)
        PROVE  IInv'
    BY <1>1, ReceivePreserves
  <1>2. ASSUME NEW c \in Slots, NEW q \in req[c], Statement(c, q)
        PROVE  IInv'
    <2>1. CASE Get(c, q)
      <3>1. /\ FirstReadable(q, rows) \in SUBSET rows
            /\ \A r \in FirstReadable(q, rows) : Loads(r)
        BY <2>1, SelectionFacts DEF Get, FindLoads, FirstReadable
      <3>2. \E s \in Statuses, w \in SUBSET rows :
                Answer(c, s, w) /\ \A r \in w : Loads(r)
        BY <2>1, <3>1 DEF Get, Statuses
      <3> QED
        BY <2>1, <3>2, AnswerPreserves DEF Get
    <2>2. CASE Refuse(c, q)
      BY <2>2, AnswerPreserves DEF Refuse, Refusals, Statuses
    <2>3. CASE Proceed(c, q)
      BY <2>3, ProceedPreserves
    <2>4. CASE Insert(c, q)
      BY <2>4, InsertPreserves
    <2>5. CASE InsertConflict(c, q)
      BY <2>5, AnswerPreserves DEF InsertConflict, Statuses
    <2>6. CASE InsertFails(c)
      BY <2>6, AnswerPreserves DEF InsertFails, Statuses
    <2>7. CASE Update(c, q)
      BY <2>7, UpdatePreserves
    <2>8. CASE UpdateOverflows(c, q)
      BY <2>8, AnswerPreserves DEF UpdateOverflows, Statuses
    <2>9. CASE Delete(c, q)
      BY <2>9, DeletePreserves
    <2>10. CASE Miss(c, q)
      BY <2>10, MissPreserves
    <2>11. CASE Exists(c, q)
      BY <2>11, AnswerPreserves DEF Exists, MissStatus, Statuses
    <2>12. CASE FindFails(c, q)
      BY <2>12, AnswerPreserves DEF FindFails, Statuses
    <2> QED
      BY <1>2, <2>1, <2>2, <2>3, <2>4, <2>5, <2>6, <2>7, <2>8, <2>9, <2>10,
         <2>11, <2>12 DEF Statement
  <1>3. ASSUME NEW c \in Slots, Fail(c)
        PROVE  IInv'
    BY <1>3, AnswerPreserves DEF Fail, Statuses
  <1>4. CASE UNCHANGED vars
    <2> USE <1>4 DEF vars, IInv, Consistent
    <2>1. TypeOK'
      BY DEF TypeOK
    <2>2. UniqueRows' /\ IdsIssued' /\ ConsumedVersionsGone' /\ OneWrite'
      BY DEF UniqueRows, IdsIssued, ConsumedVersionsGone, OneWrite
    <2>3. WriteChecked'
      BY DEF WriteChecked, NewValue, Merge
    <2>4. HandedOutRowsKept' /\ UniqueWinner'
      BY DEF HandedOutRowsKept, UniqueWinner
    <2> QED
      BY <2>1, <2>2, <2>3, <2>4
  <1> QED
    BY <1>1, <1>2, <1>3, <1>4 DEF Next, Serve

\* The inductive invariant holds: the table of pg_settings.rs and the requests in
\* flight agree in every reachable state.
THEOREM Invariant == Spec => []IInv
  <1> QED
    BY InitEstablishes, NextPreserves, PTL DEF Spec

\* Types: in particular no stored version leaves the range of its column, and no
\* request holds or answers with a value above the size limit (a stored value may
\* be above it: into_domain refuses it then).
THEOREM TypeCorrect == Spec => []TypeOK
  <1>1. IInv => TypeOK
    BY DEF IInv
  <1> QED
    BY <1>1, Invariant, PTL

\* Of any number of concurrent writers, at most one wins each version of a row.
THEOREM OneWinnerPerVersion == Spec => []UniqueWinner
  <1>1. IInv => UniqueWinner
    BY DEF IInv
  <1> QED
    BY <1>1, Invariant, PTL

\* A row handed out to a caller is replaced only under a later version.
THEOREM VersionsIdentifyRows == Spec => []HandedOutRowsKept
  <1>1. IInv => HandedOutRowsKept
    BY DEF IInv
  <1> QED
    BY <1>1, Invariant, PTL

\* The table and the running requests stay consistent.
THEOREM StaysConsistent == Spec => []Consistent
  <1>1. IInv => Consistent
    BY DEF IInv
  <1> QED
    BY <1>1, Invariant, PTL

\* A write that consumes a version consumed it from the row it matched, in the
\* write step of a request that was checked against that version.
LEMMA WriteStepFacts ==
    ASSUME IInv, Next, NEW c \in Slots, NEW r \in rows,
           committed[c] = {}, committed'[c] = {Consumed(r)}
    PROVE  \A b \in base[c] : b.version = r.version
  <1>1. PICK d \in Slots :
            \/ \E q \in Requests : Receive(d, q)
            \/ Serve(d)
            \/ Fail(d)
    BY DEF Next
  <1>2. ~ NoWrite
    BY DEF NoWrite, IInv, TypeOK
  <1>3. ~ Fail(d)
    BY <1>2 DEF Fail
  <1>4. ASSUME NEW q \in Requests, Receive(d, q)
        PROVE  FALSE
    BY <1>4 DEF Receive, IInv, TypeOK
  <1>5. PICK q \in req[d] : Statement(d, q)
    BY <1>1, <1>3, <1>4 DEF Serve
  <1>6. Insert(d, q) \/ Update(d, q) \/ Delete(d, q)
    BY <1>2, <1>5 DEF Statement, FindFails, Get, Refuse, Proceed, InsertConflict,
       InsertFails, UpdateOverflows, Miss, Exists
  <1>7. c = d
    BY <1>6 DEF Insert, Update, Delete, Commit, IInv, TypeOK
  <1>8. CASE Insert(d, q)
    BY <1>7, <1>8 DEF Insert
  <1>9. CASE Update(d, q) \/ Delete(d, q)
    <2>1. PICK t \in Expected(q) :
              committed' = [committed EXCEPT ![d] = {Consumed(t)}]
      BY <1>9 DEF Update, Delete, Commit
    <2>2. Consumed(t) = Consumed(r)
      BY <1>7, <2>1 DEF IInv, TypeOK
    <2>3. t.version = r.version
      BY <2>2 DEF Consumed
    <2>4. \A b \in base[d] : q.ifMatch = {b.version}
      BY <1>9 DEF Update, Delete, IInv, Consistent, WriteChecked
    <2> QED
      BY <1>7, <2>1, <2>3, <2>4, ExpectedFacts
  <1> QED
    BY <1>6, <1>8, <1>9

\* No concurrent write to a row is lost, as long as the row is not deleted: what
\* an update or a delete replaces is what its request found and checked.
THEOREM NoUpdateIsLost == Spec => NoLostUpdate
  <1> DEFINE Step == \A c \in Slots : \A b \in base[c], r \in rows :
                        /\ committed[c] = {} /\ committed'[c] = {Consumed(r)}
                        /\ r.id = b.id
                        => r = b
  <1>1. IInv /\ [Next]_vars => [Step]_vars
    <2> SUFFICES ASSUME IInv, Next,
                        NEW c \in Slots, NEW b \in base[c], NEW r \in rows,
                        committed[c] = {}, committed'[c] = {Consumed(r)},
                        r.id = b.id
                 PROVE  r = b
      OBVIOUS
    <2>1. b.version = r.version
      BY WriteStepFacts
    <2>2. r = b \/ r.version > b.version
      BY DEF IInv, HandedOutRowsKept
    <2>3. r.version \in Nat
      BY DEF IInv, TypeOK, Row
    <2> QED
      BY <2>1, <2>2, <2>3
  <1> QED
    BY <1>1, Invariant, PTL DEF Spec, NoLostUpdate

-----------------------------------------------------------------------------
(* The answers.                                                            *)

AInv == IInv /\ AnswersWitnessed

-----------------------------------------------------------------------------
(* What a look at the target says.                                         *)

\* The target of a request is one row at most.
LEMMA TargetIsUnique ==
    ASSUME UniqueRows, NEW q
    PROVE  \A r, s \in Target(q, rows) : r = s
  BY SelectionFacts DEF UniqueRows, Target, Found

LEMMA LookFacts ==
    ASSUME NEW q, NEW table
    PROVE  /\ Look(q, table) = "absent" <=> Target(q, table) = {}
           /\ Look(q, table) \in {"absent", "match", "stale"}
           /\ q.ifMatch = {} => Look(q, table) # "match"
  BY DEF Look, Precondition

\* A row in the target that is not at the version of the If-Match is what a look
\* calls stale: there is no other row it could find.
LEMMA StaleLook ==
    ASSUME UniqueRows, NEW q, NEW r \in Target(q, rows), ~ Precondition(q, r)
    PROVE  Look(q, rows) = "stale"
  BY TargetIsUnique DEF Look

\* A request whose write matches no row looks at a missing or a stale target.
LEMMA NothingExpected ==
    ASSUME NEW q, Expected(q) = {}
    PROVE  Look(q, rows) \in {"stale", "absent"}
  <1>1. \A r \in Target(q, rows) : ~ Precondition(q, r)
    BY DEF Expected, Matching, Precondition
  <1> QED
    BY <1>1 DEF Look

\* Read order and scope agree: the row in the scope a principal writes to is the
\* first of the rows that it can read.
LEMMA TargetIsRead ==
    ASSUME UniqueRows, NEW q \in Requests, NEW r \in Target(q, rows)
    PROVE  FirstReadable(q, rows) = {r}
  <1> DEFINE readable == {s \in Found(q, rows) : CanRead(q.auth, s)}
  <1>1. q.auth.role \in {"User", "Admin"}
    BY RequestFacts DEF Roles
  <1>2. /\ r \in Found(q, rows) /\ r.user = ScopeUser(q.auth)
        /\ r.tenant = q.auth.tenant
    BY DEF Target, Found
  <1>3. r \in readable
    BY <1>1, <1>2 DEF CanRead, ScopeUser
  <1>4. \A s \in Found(q, rows) : s.user = r.user => s = r
    BY <1>2, TargetIsUnique DEF Target
  <1>5. CASE q.auth.role = "Admin"
    <2>1. r.user = {}
      BY <1>2, <1>5 DEF ScopeUser
    <2> QED
      BY <1>3, <1>4, <2>1 DEF FirstReadable
  <1>6. CASE q.auth.role = "User"
    <2>1. \A s \in readable : s.user = {q.auth.user}
      BY <1>6 DEF CanRead
    <2>2. r.user = {q.auth.user}
      BY <1>2, <1>6 DEF ScopeUser
    <2>3. readable = {r}
      BY <1>3, <1>4, <2>1, <2>2
    <2> QED
      BY <2>2, <2>3 DEF FirstReadable
  <1> QED
    BY <1>1, <1>5, <1>6

-----------------------------------------------------------------------------
(* One lemma per kind of step.                                             *)

LEMMA InitWitnessed == Init => AnswersWitnessed
  BY DEF Init, AnswersWitnessed, SeenCurrent, MissWitnessed, RefusalWitnessed,
         RepliedInScope, ErrorsHaveNoEffect

LEMMA ReceiveWitnessed ==
    ASSUME AInv, NEW c \in Slots, NEW q \in Requests, Receive(c, q)
    PROVE  AnswersWitnessed'
  <1> USE DEF AInv, IInv, AnswersWitnessed
  <1>1. SeenCurrent'
    <2> SUFFICES ASSUME NEW d \in Slots, NEW p \in req'[d], pc'[d] # "ready"
                 PROVE  Look(p, rows') \in seen'[d]
      BY DEF SeenCurrent, Look, Target, Found, ScopeUser, Precondition
    <2>1. CASE d = c
      BY <2>1 DEF Receive, TypeOK
    <2>2. CASE d # c
      BY <2>2 DEF Receive, TypeOK, SeenCurrent
    <2> QED
      BY <2>1, <2>2
  <1>2. MissWitnessed'
    BY DEF MissWitnessed, Receive, TypeOK
  <1>3. RefusalWitnessed'
    <2> SUFFICES ASSUME NEW d \in Slots, pc'[d] = "ready"
                 PROVE  /\ reply'[d].status \in {"NotFound", "Forbidden"} =>
                              "absent" \in seen'[d]
                        /\ reply'[d].status = "Conflict" =>
                              /\ "absent" \in seen'[d]
                              /\ seen'[d] \cap {"match", "stale"} # {}
                        /\ reply'[d].status = "VersionConflict" =>
                              seen'[d] \cap {"stale", "absent"} # {}
      BY DEF RefusalWitnessed
    <2>1. CASE d = c
      <3>1. /\ seen'[d] = {Look(q, rows)}
            /\ reply'[d].status \in {"None", "VersionConflict"}
            /\ q.ifMatch = {}
        BY <2>1 DEF Receive, LacksIfMatch, TypeOK
      <3> QED
        BY <3>1, LookFacts
    <2>2. CASE d # c
      BY <2>2 DEF Receive, TypeOK, RefusalWitnessed
    <2> QED
      BY <2>1, <2>2
  <1>4. RepliedInScope'
    <2> SUFFICES ASSUME NEW d \in Slots, NEW p \in req'[d],
                        NEW r \in reply'[d].row, p.op # "get"
                 PROVE  /\ r.tenant = p.auth.tenant
                        /\ r.user = ScopeUser(p.auth)
                        /\ r.key = p.key
      BY DEF RepliedInScope, ScopeUser
    <2> QED
      BY DEF Receive, TypeOK, RepliedInScope
  <1>5. ErrorsHaveNoEffect'
    BY DEF ErrorsHaveNoEffect, Receive, TypeOK
  <1> QED
    BY <1>1, <1>2, <1>3, <1>4, <1>5

\* A running request ends and writes nothing: only a get is told Ok or handed a
\* row, and what a refusal tells of has been seen.
LEMMA AnswerWitnessed ==
    ASSUME AInv, NEW c \in Slots, pc[c] # "ready",
           NEW status \in Statuses, NEW row, Answer(c, status, row), NoWrite,
           \A q \in req[c] : q.op # "get" => status # "Ok" /\ row = {},
           status \in {"NotFound", "Forbidden"} => "absent" \in seen[c],
           status = "Conflict" =>
              "absent" \in seen[c] /\ seen[c] \cap {"match", "stale"} # {},
           status = "VersionConflict" => seen[c] \cap {"stale", "absent"} # {}
    PROVE  AnswersWitnessed'
  <1> USE DEF AInv, IInv, Consistent, AnswersWitnessed
  <1>1. SeenCurrent'
    <2> SUFFICES ASSUME NEW d \in Slots, NEW p \in req'[d], pc'[d] # "ready"
                 PROVE  Look(p, rows') \in seen'[d]
      BY DEF SeenCurrent, Look, Target, Found, ScopeUser, Precondition
    <2> QED
      BY DEF Answer, NoWrite, TypeOK, SeenCurrent
  <1>2. MissWitnessed'
    BY DEF MissWitnessed, Answer, NoWrite, TypeOK
  <1>3. RefusalWitnessed'
    BY DEF RefusalWitnessed, Answer, NoWrite, TypeOK
  <1>4. RepliedInScope'
    <2> SUFFICES ASSUME NEW d \in Slots, NEW p \in req'[d],
                        NEW r \in reply'[d].row, p.op # "get"
                 PROVE  /\ r.tenant = p.auth.tenant
                        /\ r.user = ScopeUser(p.auth)
                        /\ r.key = p.key
      BY DEF RepliedInScope, ScopeUser
    <2> QED
      BY DEF Answer, NoWrite, TypeOK, RepliedInScope
  <1>5. ErrorsHaveNoEffect'
    BY DEF ErrorsHaveNoEffect, OneWrite, Answer, NoWrite, TypeOK
  <1> QED
    BY <1>1, <1>2, <1>3, <1>4, <1>5

LEMMA ProceedWitnessed ==
    ASSUME AInv, NEW c \in Slots, NEW q \in req[c], Proceed(c, q)
    PROVE  AnswersWitnessed'
  <1> USE DEF AInv, IInv, AnswersWitnessed
  <1>1. SeenCurrent'
    <2> SUFFICES ASSUME NEW d \in Slots, NEW p \in req'[d], pc'[d] # "ready"
                 PROVE  Look(p, rows') \in seen'[d]
      BY DEF SeenCurrent, Look, Target, Found, ScopeUser, Precondition
    <2> QED
      BY DEF Proceed, NoWrite, TypeOK, SeenCurrent
  <1>2. MissWitnessed'
    <2>1. Target(q, rows) = {} => "absent" \in seen[c]
      BY LookFacts DEF Proceed, SeenCurrent
    <2> QED
      BY <2>1 DEF MissWitnessed, Proceed, NoWrite, TypeOK
  <1>3. RefusalWitnessed'
    BY DEF RefusalWitnessed, Proceed, NoWrite, TypeOK
  <1>4. RepliedInScope'
    <2> SUFFICES ASSUME NEW d \in Slots, NEW p \in req'[d],
                        NEW r \in reply'[d].row, p.op # "get"
                 PROVE  /\ r.tenant = p.auth.tenant
                        /\ r.user = ScopeUser(p.auth)
                        /\ r.key = p.key
      BY DEF RepliedInScope, ScopeUser
    <2> QED
      BY DEF Proceed, NoWrite, TypeOK, RepliedInScope
  <1>5. ErrorsHaveNoEffect'
    BY DEF ErrorsHaveNoEffect, Proceed, NoWrite, TypeOK
  <1> QED
    BY <1>1, <1>2, <1>3, <1>4, <1>5

LEMMA MissStepWitnessed ==
    ASSUME AInv, NEW c \in Slots, NEW q \in req[c], Miss(c, q)
    PROVE  AnswersWitnessed'
  <1> USE DEF AInv, IInv, AnswersWitnessed
  <1>1. SeenCurrent'
    <2> SUFFICES ASSUME NEW d \in Slots, NEW p \in req'[d], pc'[d] # "ready"
                 PROVE  Look(p, rows') \in seen'[d]
      BY DEF SeenCurrent, Look, Target, Found, ScopeUser, Precondition
    <2> QED
      BY DEF Miss, NoWrite, TypeOK, SeenCurrent
  <1>2. MissWitnessed'
    <2>1. seen[c] \cap {"stale", "absent"} # {}
      BY NothingExpected DEF Miss, SeenCurrent
    <2> QED
      BY <2>1 DEF MissWitnessed, Miss, NoWrite, TypeOK
  <1>3. RefusalWitnessed'
    BY DEF RefusalWitnessed, Miss, NoWrite, TypeOK
  <1>4. RepliedInScope'
    <2> SUFFICES ASSUME NEW d \in Slots, NEW p \in req'[d],
                        NEW r \in reply'[d].row, p.op # "get"
                 PROVE  /\ r.tenant = p.auth.tenant
                        /\ r.user = ScopeUser(p.auth)
                        /\ r.key = p.key
      BY DEF RepliedInScope, ScopeUser
    <2> QED
      BY DEF Miss, NoWrite, TypeOK, RepliedInScope
  <1>5. ErrorsHaveNoEffect'
    BY DEF ErrorsHaveNoEffect, Miss, NoWrite, TypeOK
  <1> QED
    BY <1>1, <1>2, <1>3, <1>4, <1>5

\* A write commits: every running request, of this slot or another, gets to see
\* the table that it leaves, and the row it answers with is in scope.  That row
\* is the only one after the version consumed, and not one after a version that
\* another request consumed.
LEMMA CommitWitnessed ==
    ASSUME AInv, NEW c \in Slots, NEW table, NEW consumed, NEW row,
           Commit(c, table, consumed, row),
           \A q \in req[c] : \A r \in row :
              /\ r.tenant = q.auth.tenant
              /\ r.user = ScopeUser(q.auth)
              /\ r.key = q.key
              /\ q.op \in {"put", "patch"},
           \A r, t \in row : r = t,
           \A r \in table : r \in rows \/ r \in row,
           \A r \in table :
              r.id = consumed.id /\ r.version = consumed.version + 1 => r \in row,
           \A d \in Slots : \A k \in committed[d] : \A r \in row :
              r.id = k.id => r.version # k.version + 1
    PROVE  AnswersWitnessed'
  <1> USE DEF AInv, IInv, AnswersWitnessed
  <1>1. PICK s \in CommitStatuses(row) :
            Answer(c, s, IF s = "Ok" THEN row ELSE {})
    BY DEF Commit
  <1>2. /\ pc' = [pc EXCEPT ![c] = "ready"]
        /\ base' = [base EXCEPT ![c] = {}]
        /\ \E w : /\ w \subseteq row
                  /\ reply' = [reply EXCEPT ![c] = [status |-> s, row |-> w]]
    BY <1>1 DEF Answer
  <1>3. /\ s \in {"Ok", "InvalidValue", "Unavailable", "Dropped"}
        /\ s = "InvalidValue" => \E r \in row : ~ Loads(r)
    BY CommitStatusFacts
  <1>4. /\ rows' = table /\ req' = req
        /\ committed' = [committed EXCEPT ![c] = {consumed}]
        /\ seen' = [d \in Slots |->
                      IF pc[d] = "ready" THEN seen[d]
                      ELSE seen[d] \cup {Look(q, table) : q \in req[d]}]
    BY DEF Commit, Observe
  <1>5. \A d \in Slots : seen[d] \subseteq seen'[d]
    BY <1>4
  <1>6. \A d \in Slots : d # c => pc'[d] = pc[d] /\ reply'[d] = reply[d]
                                  /\ base'[d] = base[d]
    BY <1>2 DEF TypeOK
  <1>7. SeenCurrent'
    <2> SUFFICES ASSUME NEW d \in Slots, NEW q \in req'[d], pc'[d] # "ready"
                 PROVE  Look(q, rows') \in seen'[d]
      BY DEF SeenCurrent, Look, Target, Found, ScopeUser, Precondition
    <2>1. pc[d] # "ready"
      BY <1>2 DEF TypeOK
    <2> QED
      BY <1>4, <2>1
  <1>8. MissWitnessed'
    BY <1>2, <1>5 DEF MissWitnessed, TypeOK
  <1>9. RefusalWitnessed'
    <2> SUFFICES ASSUME NEW d \in Slots, pc'[d] = "ready"
                 PROVE  /\ reply'[d].status \in {"NotFound", "Forbidden"} =>
                              "absent" \in seen'[d]
                        /\ reply'[d].status = "Conflict" =>
                              /\ "absent" \in seen'[d]
                              /\ seen'[d] \cap {"match", "stale"} # {}
                        /\ reply'[d].status = "VersionConflict" =>
                              seen'[d] \cap {"stale", "absent"} # {}
      BY DEF RefusalWitnessed
    <2>1. CASE d = c
      BY <1>2, <1>3, <2>1 DEF TypeOK
    <2>2. CASE d # c
      BY <1>5, <1>6, <2>2 DEF RefusalWitnessed
    <2> QED
      BY <2>1, <2>2
  <1>10. RepliedInScope'
    <2> SUFFICES ASSUME NEW d \in Slots, NEW p \in req'[d],
                        NEW r \in reply'[d].row, p.op # "get"
                 PROVE  /\ r.tenant = p.auth.tenant
                        /\ r.user = ScopeUser(p.auth)
                        /\ r.key = p.key
      BY DEF RepliedInScope, ScopeUser
    <2>1. CASE d = c
      BY <1>2, <1>4, <2>1 DEF TypeOK
    <2>2. CASE d # c
      BY <1>4, <1>6, <2>2 DEF RepliedInScope
    <2> QED
      BY <2>1, <2>2
  <1>11. ErrorsHaveNoEffect'
    <2>1. reply'[c].status = s /\ committed'[c] = {consumed}
      BY <1>2, <1>4 DEF TypeOK
    <2>2. \A d \in Slots : d # c => committed'[d] = committed[d]
      BY <1>4 DEF TypeOK
    <2> SUFFICES ASSUME NEW d \in Slots, pc'[d] = "ready"
                 PROVE  /\ reply'[d].status \in Statuses \
                              {"Ok", "Unavailable", "Dropped", "InvalidValue"} =>
                              committed'[d] = {}
                        /\ reply'[d].status = "InvalidValue" =>
                              \A k \in committed'[d] :
                                 /\ \A q \in req'[d] : q.op \in {"put", "patch"}
                                 /\ \A r \in rows' :
                                       r.id = k.id /\ r.version = k.version + 1
                                       => ~ Loads(r)
                        /\ reply'[d].status = "Ok" /\ (\E q \in req'[d] : q.op # "get") =>
                              committed'[d] # {}
      BY DEF ErrorsHaveNoEffect, Loads
    <2>3. CASE d = c
      <3>1. s = "InvalidValue" =>
              /\ \A q \in req[c] : q.op \in {"put", "patch"}
              /\ \A r \in table :
                    r.id = consumed.id /\ r.version = consumed.version + 1
                    => ~ Loads(r)
        BY <1>3
      <3> QED
        BY <1>3, <1>4, <2>1, <2>3, <3>1
    <2>4. CASE d # c
      <3>1. reply[d].status = "InvalidValue" /\ pc[d] = "ready" =>
              \A k \in committed[d] :
                 /\ \A q \in req[d] : q.op \in {"put", "patch"}
                 /\ \A r \in table :
                       r.id = k.id /\ r.version = k.version + 1 => ~ Loads(r)
        BY DEF ErrorsHaveNoEffect
      <3> QED
        BY <1>4, <1>6, <2>2, <2>4, <3>1 DEF ErrorsHaveNoEffect
    <2> QED
      BY <2>3, <2>4
  <1> QED
    BY <1>7, <1>8, <1>9, <1>10, <1>11

-----------------------------------------------------------------------------
(* The statements of a request.                                            *)

\* find answers a get: a refusal means that there is no row in its scope.
LEMMA GetWitnessed ==
    ASSUME AInv, NEW c \in Slots, NEW q \in req[c], Get(c, q)
    PROVE  AnswersWitnessed'
  <1> USE DEF AInv, IInv, Consistent, AnswersWitnessed
  <1>1. PICK status \in {"Ok", "NotFound", "Forbidden"}, row \in SUBSET rows :
            /\ Answer(c, status, row)
            /\ status # "Ok" => FirstReadable(q, rows) = {} \/ Found(q, rows) = {}
    BY SelectionFacts DEF Get
  <1>2. q \in Requests
    BY DEF TypeOK
  <1>3. status # "Ok" => Target(q, rows) = {}
    BY <1>1, <1>2, TargetIsRead, SelectionFacts
  <1>4. status # "Ok" => "absent" \in seen[c]
    BY <1>3, LookFacts DEF Get, SeenCurrent
  <1>5. \A p \in req[c] : p.op = "get"
    BY DEF Get, OneWrite
  <1> QED
    BY <1>1, <1>4, <1>5, AnswerWitnessed DEF Get, Statuses

\* find refuses a write: what it says of the target is so.
LEMMA RefuseWitnessed ==
    ASSUME AInv, NEW c \in Slots, NEW q \in req[c], Refuse(c, q)
    PROVE  AnswersWitnessed'
  <1> USE DEF AInv, IInv, Consistent, AnswersWitnessed
  <1>1. PICK s \in Refusals(q) : Answer(c, s, {})
    BY DEF Refuse
  <1>2. s \in {"NotFound", "Forbidden", "VersionConflict", "InvalidValue"}
    BY DEF Refusals
  <1>3. s \in {"NotFound", "Forbidden"} => Target(q, rows) = {}
    BY SelectionFacts DEF Refusals
  <1>4. s = "VersionConflict" => \E r \in Target(q, rows) : ~ Precondition(q, r)
    BY DEF Refusals
  <1>5. s \in {"NotFound", "Forbidden"} => "absent" \in seen[c]
    BY <1>3, LookFacts DEF Refuse, SeenCurrent
  <1>6. s = "VersionConflict" => "stale" \in seen[c]
    BY <1>4, StaleLook DEF Refuse, SeenCurrent
  <1> QED
    BY <1>1, <1>2, <1>5, <1>6, AnswerWitnessed DEF Refuse, Statuses

\* INSERT meets a row that find did not see.
LEMMA InsertConflictWitnessed ==
    ASSUME AInv, NEW c \in Slots, NEW q \in req[c], InsertConflict(c, q)
    PROVE  AnswersWitnessed'
  <1> USE DEF AInv, IInv, AnswersWitnessed
  <1>1. "absent" \in seen[c]
    BY DEF InsertConflict, MissWitnessed
  <1>2. seen[c] \cap {"match", "stale"} # {}
    BY LookFacts DEF InsertConflict, SeenCurrent
  <1> QED
    BY <1>1, <1>2, AnswerWitnessed DEF InsertConflict, Statuses

\* SELECT COUNT tells the target missing, or explains what the write before it
\* did not match.
LEMMA ExistsWitnessed ==
    ASSUME AInv, NEW c \in Slots, NEW q \in req[c], Exists(c, q)
    PROVE  AnswersWitnessed'
  <1> USE DEF AInv, IInv, AnswersWitnessed
  <1>1. MissStatus(q) \in {"NotFound", "VersionConflict"}
    BY DEF MissStatus
  <1>2. MissStatus(q) = "NotFound" => "absent" \in seen[c]
    BY LookFacts DEF MissStatus, Exists, SeenCurrent
  <1>3. seen[c] \cap {"stale", "absent"} # {}
    BY DEF Exists, MissWitnessed
  <1> QED
    BY <1>1, <1>2, <1>3, AnswerWitnessed DEF Exists, Statuses

\* INSERT, UPDATE and DELETE: what they put into the table, and where.
LEMMA WriteWitnessed ==
    ASSUME AInv, NEW c \in Slots, NEW q \in req[c],
           Insert(c, q) \/ Update(c, q) \/ Delete(c, q)
    PROVE  AnswersWitnessed'
  <1> USE DEF AInv, IInv, Consistent
  <1>1. \A p \in req[c] : p = q
    BY DEF OneWrite
  <1>2. pc[c] = "write" /\ q \in Requests
    BY DEF Insert, Update, Delete, TypeOK
  <1>3. CASE Insert(c, q)
    <2> DEFINE new == Inserted(q, nextId)
               mark == [id |-> nextId, version |-> 0]
    <2>1. /\ new.tenant = q.auth.tenant
          /\ new.user = ScopeUser(q.auth)
          /\ new.key = q.key
          /\ new.id = nextId /\ mark.id = nextId
      BY DEF Inserted
    <2>2. Commit(c, rows \cup {new}, mark, {new})
      BY <1>3 DEF Insert
    <2>3. q.op = "put"
      BY <1>2, <1>3 DEF Insert, WriteChecked
    <2> HIDE DEF new, mark
    <2>4. \A r \in rows : r.id # nextId
      BY DEF IdsIssued, TypeOK, Row
    <2>5. \A d \in Slots : \A k \in committed[d] : k.id # nextId
      BY DEF IdsIssued, TypeOK
    <2> QED
      BY <1>1, <2>1, <2>2, <2>3, <2>4, <2>5, CommitWitnessed
  <1>4. CASE Update(c, q)
    <2>1. PICK b \in base[c], r \in Expected(q) :
            LET new == Updated(r, NewValue(q, b))
            IN  Commit(c, (rows \ {r}) \cup {new}, Consumed(r), {new})
      BY <1>4 DEF Update
    <2> DEFINE new == Updated(r, NewValue(q, b))
    <2>2. r \in Target(q, rows) /\ r \in rows
      BY ExpectedFacts, SelectionFacts
    <2>3. /\ new.tenant = q.auth.tenant
          /\ new.user = ScopeUser(q.auth)
          /\ new.key = q.key
          /\ new.id = r.id /\ new.version = r.version + 1
          /\ Consumed(r).id = r.id
      BY <2>2 DEF Updated, Target, Found, Consumed
    <2>4. Commit(c, (rows \ {r}) \cup {new}, Consumed(r), {new})
      BY <2>1
    <2>5. q.op \in {"put", "patch"}
      BY <1>2, <1>4, RequestFacts DEF Update, WriteChecked, Ops
    <2> HIDE DEF new
    <2>6. \A t \in rows \ {r} : t.id # r.id
      BY <2>2 DEF UniqueRows
    <2>7. \A d \in Slots : \A k \in committed[d] :
            new.id = k.id => new.version # k.version + 1
      <3> SUFFICES ASSUME NEW d \in Slots, NEW k \in committed[d], new.id = k.id
                   PROVE  new.version # k.version + 1
        OBVIOUS
      <3>1. r.version > k.version
        BY <2>2, <2>3 DEF ConsumedVersionsGone
      <3>2. r.version \in Nat /\ k.version \in Nat
        BY <2>2 DEF TypeOK, Row
      <3> QED
        BY <2>3, <3>1, <3>2
    <2> QED
      BY <1>1, <2>3, <2>4, <2>5, <2>6, <2>7, CommitWitnessed
  <1>5. CASE Delete(c, q)
    <2>1. PICK r \in Expected(q) : Commit(c, rows \ {r}, Consumed(r), {})
      BY <1>5 DEF Delete
    <2>2. r \in rows
      BY ExpectedFacts, SelectionFacts
    <2>3. Consumed(r).id = r.id
      BY DEF Consumed
    <2>4. \A t \in rows \ {r} : t.id # r.id
      BY <2>2 DEF UniqueRows
    <2> QED
      BY <2>1, <2>3, <2>4, CommitWitnessed
  <1> QED
    BY <1>3, <1>4, <1>5

-----------------------------------------------------------------------------
(* The theorems.                                                           *)

LEMMA NextWitnessed == AInv /\ [Next]_vars => AInv'
  <1> SUFFICES ASSUME AInv, [Next]_vars PROVE AnswersWitnessed'
    BY NextPreserves DEF AInv
  <1>1. ASSUME NEW c \in Slots, NEW q \in Requests, Receive(c, q)
        PROVE  AnswersWitnessed'
    BY <1>1, ReceiveWitnessed
  <1>2. ASSUME NEW c \in Slots, NEW q \in req[c], Statement(c, q)
        PROVE  AnswersWitnessed'
    <2>1. CASE InsertFails(c)
      BY <2>1, AnswerWitnessed DEF InsertFails, Statuses
    <2>2. CASE UpdateOverflows(c, q)
      BY <2>2, AnswerWitnessed DEF UpdateOverflows, Statuses
    <2>3. CASE FindFails(c, q)
      BY <2>3, AnswerWitnessed DEF FindFails, Statuses
    <2> QED
      BY <1>2, <2>1, <2>2, <2>3, GetWitnessed, RefuseWitnessed, ProceedWitnessed,
         InsertConflictWitnessed, WriteWitnessed, MissStepWitnessed,
         ExistsWitnessed DEF Statement
  <1>3. ASSUME NEW c \in Slots, Fail(c)
        PROVE  AnswersWitnessed'
    BY <1>3, AnswerWitnessed DEF Fail, Statuses
  <1>4. CASE UNCHANGED vars
    <2> USE <1>4 DEF vars, AInv, AnswersWitnessed
    <2>1. SeenCurrent'
      BY DEF SeenCurrent, Look, Target, Found, ScopeUser, Precondition
    <2>2. MissWitnessed' /\ RefusalWitnessed' /\ ErrorsHaveNoEffect'
      BY DEF MissWitnessed, RefusalWitnessed, ErrorsHaveNoEffect
    <2>3. RepliedInScope'
      BY DEF RepliedInScope, ScopeUser
    <2> QED
      BY <2>1, <2>2, <2>3
  <1> QED
    BY <1>1, <1>2, <1>3, <1>4 DEF Next, Serve

LEMMA AnswersInvariant == Spec => []AInv
  <1>1. Init => AInv
    BY InitEstablishes, InitWitnessed DEF AInv
  <1> QED
    BY <1>1, NextWitnessed, PTL DEF Spec

\* What an answer says of the target was seen while its request was served, and
\* what it says of the write is so: the parts of AnswersWitnessed.
THEOREM AnswersAreWitnessed == Spec => []AnswersWitnessed
  <1>1. AInv => AnswersWitnessed
    BY DEF AInv
  <1> QED
    BY <1>1, AnswersInvariant, PTL

\* NotFound, Forbidden, Conflict and VersionConflict tell of a state of the table
\* that occurred while the request was served (the second statement of update and
\* delete asks only after the write has missed).
THEOREM RefusalsAreJustified == Spec => []RefusalsJustified
  <1>1. AInv => RefusalsJustified
    BY DEF AInv, AnswersWitnessed, RefusalWitnessed, RefusalsJustified
  <1> QED
    BY <1>1, AnswersInvariant, PTL

\* A request whose If-Match fitted all the time is not refused.
THEOREM RefusalsAreNotSpurious == Spec => []NoSpuriousRefusal
  <1>1. AInv => NoSpuriousRefusal
    BY DEF AInv, AnswersWitnessed, RefusalWitnessed, NoSpuriousRefusal
  <1> QED
    BY <1>1, AnswersInvariant, PTL

\* An error answer other than Unavailable and InvalidValue means that nothing was
\* written; InvalidValue means it too, unless a put or a patch wrote a row that
\* does not load (insert and update: into_domain after the commit).  Ok on a write
\* means that it was written.
THEOREM ErrorsLeaveNoTrace == Spec => []ErrorsHaveNoEffect
  <1>1. AInv => ErrorsHaveNoEffect
    BY DEF AInv, AnswersWitnessed
  <1> QED
    BY <1>1, AnswersInvariant, PTL

\* The scope written to (auth/model.rs) comes first in the order read
\* (pg_settings.rs): a caller gets the row it wrote, as long as it is there.
THEOREM CallersReadTheirWrites == Spec => []ReadYourWrites
  <1>1. AInv => ReadYourWrites
    <2> SUFFICES ASSUME AInv, NEW c \in Slots, NEW q \in req[c],
                        NEW r \in reply[c].row, q.op # "get", r \in rows
                 PROVE  FirstReadable(q, rows) = {r}
      BY DEF ReadYourWrites
    <2>1. r \in Target(q, rows)
      BY SelectionFacts DEF AInv, AnswersWitnessed, RepliedInScope
    <2>2. UniqueRows /\ q \in Requests
      BY DEF AInv, IInv, Consistent, TypeOK
    <2> QED
      BY <2>1, <2>2, TargetIsRead
  <1> QED
    BY <1>1, AnswersInvariant, PTL
=============================================================================

----------------------- MODULE SettingsRefinementProofs -----------------------
(***************************************************************************)
(* SettingsService implements VersionedStore, for any number of slots, any *)
(* requests and any bounds: the initial states map to an initial state of  *)
(* the store, a committed write to the store's step on the entry that the  *)
(* request names, an arrival to a new wish, every other step to a stutter. *)
(***************************************************************************)
EXTENDS SettingsRefinement, SettingsServiceProofs

-----------------------------------------------------------------------------
(* The table as a store.                                                   *)

\* A request names an entry, and its target is what the table stores there.
LEMMA TargetIsNamed ==
    ASSUME NEW q \in Requests
    PROVE  /\ TargetName(q) \in RowNames
           /\ \A r \in rows : r \in Target(q, rows) <=> NameOf(r) = TargetName(q)
  <1>1. /\ q.auth.tenant \in Tenants /\ ScopeUser(q.auth) \in Owners
        /\ q.key \in Keys
    BY RequestFacts DEF ScopeUser, Owners
  <1> QED
    BY <1>1, SelectionFacts DEF TargetName, RowNames, NameOf

-----------------------------------------------------------------------------
(* Steps.                                                                  *)

\* A step that leaves the table, the sequence, the requests and what they have
\* consumed alone is a stutter.
LEMMA QuietStep ==
    ASSUME UNCHANGED <<rows, nextId, req, committed>>
    PROVE  UNCHANGED Store!storeVars
  BY DEF Store!storeVars, Stored

\* An arrival is a new wish of its slot.
LEMMA ReceiveAsks ==
    ASSUME IInv, NEW c \in Slots, NEW q \in Requests, Receive(c, q)
    PROVE  Store!Next
  <1>1. /\ req' = [req EXCEPT ![c] = {q}]
        /\ committed' = [committed EXCEPT ![c] = {}]
        /\ rows' = rows /\ nextId' = nextId
    BY DEF Receive
  <1>2. [d \in Slots |-> {Wish(p) : p \in req'[d]}] =
          [[d \in Slots |-> {Wish(p) : p \in req[d]}] EXCEPT ![c] = {Wish(q)}]
    <2>1. req'[c] = {q} /\ \A d \in Slots : d # c => req'[d] = req[d]
      BY <1>1 DEF IInv, TypeOK
    <2>2. {Wish(p) : p \in req'[c]} = {Wish(q)}
      BY <2>1
    <2>3. \A d \in Slots : d # c => {Wish(p) : p \in req'[d]} = {Wish(p) : p \in req[d]}
      BY <2>1
    <2> QED
      BY <2>2, <2>3
  <1>3. Store!Ask(c, Wish(q))
    BY <1>1, <1>2 DEF Store!Ask, Stored
  <1> QED
    BY <1>3 DEF Store!Next

\* A write that commits is the one turn of a request that had not had it.
LEMMA WriteTakes ==
    ASSUME IInv, NEW c \in Slots, NEW q \in req[c], pc[c] = "write",
           NEW table, NEW consumed, NEW row, NEW new,
           Commit(c, table, consumed, row),
           Stored(TargetName(q), table) = new,
           \A n \in RowNames : n # TargetName(q) => Stored(n, table) = Stored(n, rows)
    PROVE  Store!Take(c, Wish(q), consumed, new)
  <1>1. committed[c] = {}
    BY DEF IInv, Consistent, OneWrite
  <1>2. /\ rows' = table /\ req' = req
        /\ committed' = [committed EXCEPT ![c] = {consumed}]
    BY DEF Commit
  <1>3. Wish(q) \in [d \in Slots |-> {Wish(p) : p \in req[d]}][c]
    OBVIOUS
  <1>4. q \in Requests
    BY DEF IInv, TypeOK
  <1>5. TargetName(q) \in RowNames
    BY <1>4, TargetIsNamed
  <1>6. [n \in RowNames |-> Stored(n, rows')] =
          [[n \in RowNames |-> Stored(n, rows)] EXCEPT ![TargetName(q)] = new]
    BY <1>2, <1>5
  <1>7. Wish(q).name = TargetName(q)
    BY DEF Wish
  <1> QED
    BY <1>1, <1>2, <1>3, <1>6, <1>7 DEF Store!Take

\* A row that is inserted is an entry that is created, under a new id.
LEMMA InsertCreates ==
    ASSUME IInv, NEW c \in Slots, NEW q \in req[c], Insert(c, q)
    PROVE  Store!Next
  <1> DEFINE new == Inserted(q, nextId)
  <1>1. q \in Requests /\ pc[c] = "write" /\ Target(q, rows) = {}
    BY DEF Insert, IInv, TypeOK
  <1>2. /\ Commit(c, rows \cup {new}, [id |-> nextId, version |-> 0], {new})
        /\ nextId' = nextId + 1
    BY DEF Insert
  <1>3. NameOf(new) = TargetName(q)
    BY DEF Inserted, NameOf, TargetName
  <1>4. /\ Stored(TargetName(q), rows \cup {new}) = {Entry(new)}
        /\ \A n : n # TargetName(q) => Stored(n, rows \cup {new}) = Stored(n, rows)
    <2>1. \A r \in rows : NameOf(r) # TargetName(q)
      BY <1>1, TargetIsNamed
    <2> HIDE DEF new
    <2> QED
      BY <1>3, <2>1 DEF Stored
  <1>5. Store!Take(c, Wish(q), [id |-> nextId, version |-> 0], {Entry(new)})
    BY <1>1, <1>2, <1>4, WriteTakes
  <1>6. Entry(new) = [id |-> nextId, version |-> 1, value |-> JsonB(q.body.set)]
    BY DEF Inserted, Entry
  <1>7. nextId - 1 + 1 = nextId /\ nextId' - 1 = nextId
    BY <1>2 DEF IInv, TypeOK
  <1>8. Stored(TargetName(q), rows) = {} /\ TargetName(q) \in RowNames
    BY <1>1, TargetIsNamed DEF Stored
  <1>9. Wish(q).name = TargetName(q)
    BY DEF Wish
  <1>10. Store!Create(c, Wish(q), JsonB(q.body.set))
    BY <1>5, <1>6, <1>7, <1>8, <1>9 DEF Store!Create
  <1>11. JsonB(q.body.set) \in SUBSET Fields
    BY <1>1, RequestFacts, StoredFacts
  <1> QED
    BY <1>10, <1>11 DEF Store!Next

\* What an update or a delete matches is the one entry under the name of its
\* request, at the version of its precondition.
LEMMA MatchedEntry ==
    ASSUME IInv, NEW c \in Slots, NEW q \in req[c], NEW r \in Expected(q)
    PROVE  /\ q \in Requests /\ r \in rows
           /\ NameOf(r) = TargetName(q) /\ TargetName(q) \in RowNames
           /\ Stored(TargetName(q), rows) = {Entry(r)}
           /\ Entry(r).version \in Wish(q).ifMatch
           /\ Wish(q).name = TargetName(q)
           /\ \A s \in rows \ {r} : NameOf(s) # TargetName(q)
  <1>1. q \in Requests
    BY DEF IInv, TypeOK
  <1>2. r \in Target(q, rows) /\ r \in rows /\ r.version \in q.ifMatch
    BY ExpectedFacts, SelectionFacts
  <1>3. NameOf(r) = TargetName(q) /\ TargetName(q) \in RowNames
    BY <1>1, <1>2, TargetIsNamed
  <1>4. \A s \in rows \ {r} : NameOf(s) # TargetName(q)
    BY <1>2, <1>3 DEF NameOf, IInv, Consistent, UniqueRows
  <1>5. Stored(TargetName(q), rows) = {Entry(r)}
    BY <1>2, <1>3, <1>4 DEF Stored
  <1>6. Entry(r).version \in Wish(q).ifMatch /\ Wish(q).name = TargetName(q)
    BY <1>2 DEF Entry, Wish
  <1> QED
    BY <1>1, <1>2, <1>3, <1>4, <1>5, <1>6

\* An update replaces the entry of its request's name by its next version.
LEMMA UpdateReplaces ==
    ASSUME IInv, NEW c \in Slots, NEW q \in req[c], Update(c, q)
    PROVE  Store!Next
  <1>1. PICK b \in base[c], r \in Expected(q) :
            LET new == Updated(r, NewValue(q, b))
            IN  Commit(c, (rows \ {r}) \cup {new}, Consumed(r), {new})
    BY DEF Update
  <1> DEFINE new == Updated(r, NewValue(q, b))
             e == Entry(r)
             n == TargetName(q)
  <1>2. /\ pc[c] = "write" /\ nextId' = nextId
        /\ Commit(c, (rows \ {r}) \cup {new}, Consumed(r), {new})
    BY <1>1 DEF Update
  <1>3. /\ r \in rows /\ NameOf(r) = n /\ n \in RowNames
        /\ Stored(n, rows) = {e} /\ e.version \in Wish(q).ifMatch
        /\ Wish(q).name = n
        /\ \A s \in rows \ {r} : NameOf(s) # n
    BY MatchedEntry
  <1>4. NameOf(new) = n
    BY <1>3 DEF Updated, NameOf
  <1>5. Entry(new) = [id |-> e.id, version |-> e.version + 1, value |-> JsonB(NewValue(q, b))]
    BY DEF Updated, Entry
  <1>6. Consumed(r) = [id |-> e.id, version |-> e.version]
    BY DEF Consumed, Entry
  <1>7. JsonB(NewValue(q, b)) \in SUBSET Fields
    BY <1>2, StoredFacts DEF IInv, Consistent, WriteChecked
  <1> HIDE DEF new, e, n
  <1>8. /\ Stored(n, (rows \ {r}) \cup {new}) = {Entry(new)}
        /\ \A m : m # n => Stored(m, (rows \ {r}) \cup {new}) = Stored(m, rows)
    <2>1. rows = (rows \ {r}) \cup {r}
      BY <1>3
    <2> QED
      BY <1>3, <1>4, <2>1 DEF Stored
  <1>9. Store!Take(c, Wish(q), Consumed(r), {Entry(new)})
    BY <1>2, <1>8, WriteTakes DEF n
  <1>10. Store!Replace(c, Wish(q), e, JsonB(NewValue(q, b)))
    BY <1>2, <1>3, <1>5, <1>6, <1>9 DEF Store!Replace
  <1>11. /\ Wish(q) \in [d \in Slots |-> {Wish(p) : p \in req[d]}][c]
         /\ e \in [m \in RowNames |-> Stored(m, rows)][Wish(q).name]
    BY <1>3
  <1> QED
    BY <1>7, <1>10, <1>11 DEF Store!Next

\* A delete removes the entry of its request's name.
LEMMA DeleteRemoves ==
    ASSUME IInv, NEW c \in Slots, NEW q \in req[c], Delete(c, q)
    PROVE  Store!Next
  <1>1. PICK r \in Expected(q) : Commit(c, rows \ {r}, Consumed(r), {})
    BY DEF Delete
  <1> DEFINE e == Entry(r)
             n == TargetName(q)
  <1>2. pc[c] = "write" /\ nextId' = nextId
    BY DEF Delete
  <1>3. /\ r \in rows /\ NameOf(r) = n /\ n \in RowNames
        /\ Stored(n, rows) = {e} /\ e.version \in Wish(q).ifMatch
        /\ Wish(q).name = n
        /\ \A s \in rows \ {r} : NameOf(s) # n
    BY MatchedEntry
  <1>4. Consumed(r) = [id |-> e.id, version |-> e.version]
    BY DEF Consumed, Entry
  <1> HIDE DEF e, n
  <1>5. /\ Stored(n, rows \ {r}) = {}
        /\ \A m : m # n => Stored(m, rows \ {r}) = Stored(m, rows)
    BY <1>3 DEF Stored
  <1>6. Store!Take(c, Wish(q), Consumed(r), {})
    BY <1>1, <1>2, <1>5, WriteTakes DEF n
  <1>7. Store!Remove(c, Wish(q), e)
    BY <1>2, <1>3, <1>4, <1>6 DEF Store!Remove
  <1>8. /\ Wish(q) \in [d \in Slots |-> {Wish(p) : p \in req[d]}][c]
        /\ e \in [m \in RowNames |-> Stored(m, rows)][Wish(q).name]
    BY <1>3
  <1> QED
    BY <1>7, <1>8 DEF Store!Next

-----------------------------------------------------------------------------

\* Every behaviour of the service is one of the store: each request acts at most
\* once, atomically, on the row in its principal's scope, and only while its
\* If-Match holds for that row or there is none.
THEOREM Implements == Spec => ImplementsVersionedStore
  <1>1. Init => Store!Init
    BY DEF Init, Store!Init, Stored
  <1>2. IInv /\ [Next]_vars => [Store!Next]_(Store!storeVars)
    <2> SUFFICES ASSUME IInv, [Next]_vars
                 PROVE  Store!Next \/ UNCHANGED Store!storeVars
      OBVIOUS
    <2>1. ASSUME NEW c \in Slots, NEW q \in Requests, Receive(c, q)
          PROVE  Store!Next
      BY <2>1, ReceiveAsks
    <2>2. ASSUME NEW c \in Slots, NEW q \in req[c], Statement(c, q)
          PROVE  Store!Next \/ UNCHANGED Store!storeVars
      <3>1. CASE Insert(c, q)
        BY <3>1, InsertCreates
      <3>2. CASE Update(c, q)
        BY <3>2, UpdateReplaces
      <3>3. CASE Delete(c, q)
        BY <3>3, DeleteRemoves
      <3>4. CASE NoWrite
        BY <3>4, QuietStep DEF NoWrite
      <3> QED
        BY <2>2, <3>1, <3>2, <3>3, <3>4
           DEF Statement, FindFails, Get, Refuse, Proceed, InsertConflict, InsertFails,
               UpdateOverflows, Miss, Exists
    <2>3. ASSUME NEW c \in Slots, Fail(c)
          PROVE  UNCHANGED Store!storeVars
      BY <2>3, QuietStep DEF Fail, NoWrite
    <2>4. CASE UNCHANGED vars
      BY <2>4, QuietStep DEF vars
    <2> QED
      BY <2>1, <2>2, <2>3, <2>4 DEF Next, Serve
  <1> QED
    BY <1>1, <1>2, Invariant, PTL DEF Spec, ImplementsVersionedStore, Store!Spec
=============================================================================

------------------------------ MODULE SearchPages ------------------------------
(***************************************************************************)
(* GET /settings: the fuzzy search of settings/pg_settings.rs, its pages,  *)
(* total count and links, and a client that walks the pages by the link    *)
(* "next" while other requests insert, change and delete rows.  A page is  *)
(* one SQL statement, so it shows one state of the table; two pages may    *)
(* show two.                                                               *)
(***************************************************************************)
EXTENDS Naturals, FiniteSets, Sequences, SequencesExt

CONSTANTS
    Tenants,
    Users,
    Places,     \* where a row may be: [tenant, user (an option), key]
    Searches,   \* the searches that are made, a subset of Queries
    MaxSize,    \* largest page size a client asks for; 100 is the code's limit
    SizeLimit,  \* largest size that Pagination::new accepts
    MaxPage,    \* bound: the largest page number a client starts from
    MaxWrites   \* bound: rows written or deleted during a walk

Roles == {"User", "Admin"}

\* Keys are numbers here: what counts is their order.
ASSUME PagesAssumption ==
    /\ Places \subseteq [tenant : Tenants, user : SUBSET Users, key : Nat]
    /\ \A p \in Places : Cardinality(p.user) <= 1
    /\ IsFiniteSet(Places)
    /\ {MaxSize, SizeLimit, MaxPage, MaxWrites} \subseteq Nat /\ SizeLimit > 0

\* A row is a place with a value, of which it matters whether the text searched
\* for occurs in it or in the key.
Rows == [at : Places, hit : BOOLEAN]

\* filter: the text searched for is not empty.
Queries == [tenant : Tenants, user : Users, role : Roles, filter : BOOLEAN]

ASSUME SearchesAssumption == Searches \subseteq Queries

VARIABLES
    table,     \* the table settings
    query,     \* the search the client walks through (an option)
    page,      \* the page it asks for next
    size,
    reply,     \* the last answer: [status, rows, total, links] (an option)
    listed,    \* the places listed so far, in the order they came
    writes,    \* how many rows were written or deleted in this walk
    atStart,   \* history: the places visible when the walk began
    added,     \* history: places that became visible during the walk
    removed    \* history: places that ceased to be visible during the walk

client == <<query, page, size, reply, listed>>
vars == <<table, client, writes, atStart, added, removed>>

-----------------------------------------------------------------------------
(* The statement (settings/pg_settings.rs).                                *)

\* Variant with a bug: the WHERE clause without the owner.
VisibleToAll(q, rows) ==
    {r \in rows : r.at.tenant = q.tenant /\ (q.filter => r.hit)}

\* The WHERE clause: the tenant; ILIKE on the key and the value; own rows and,
\* for an Admin, tenant-scoped ones.
Visible(q, rows) ==
    {r \in rows :
        /\ r.at.tenant = q.tenant
        /\ q.filter => r.hit
        /\ r.at.user = {q.user} \/ (q.role = "Admin" /\ r.at.user = {})}

VisiblePlaces(q, rows) == {r.at : r \in Visible(q, rows)}

\* ORDER BY key: rows of one key come in any order, a new one each time.
Orders(places) ==
    {s \in SetToSeqs(places) :
        \A i, j \in 1 .. Len(s) : i < j => s[i].key <= s[j].key}

\* Variants with a bug: pages counted from 0; each page repeats the last row of
\* the page before.
OffsetFromZero(p, n) == p * n
OffsetOneBack(p, n) == IF p = 1 THEN 0 ELSE (p - 1) * n - 1

\* Pagination::offset
Offset(p, n) == (p - 1) * n

\* LIMIT and OFFSET
Slice(s, p, n) ==
    SubSeq(s, Offset(p, n) + 1, Min({Offset(p, n) + n, Len(s)}))

-----------------------------------------------------------------------------
(* The response (settings/rest.rs, common/pagination.rs).                  *)

\* Variant with a bug: no limit on the size.
PageErrorUnlimited(p, n) ==
    IF p < 1 THEN {"bad_page"} ELSE IF n >= 1 THEN {} ELSE {"bad_size"}

\* Pagination::new: the error, if any.
PageError(p, n) ==
    IF p < 1 THEN {"bad_page"}
    ELSE IF n \in 1 .. SizeLimit THEN {} ELSE {"bad_size"}

\* Variant with a bug: a next page that may be empty.
NextIfFull(p, n, total) == IF p * n <= total THEN {p + 1} ELSE {}

\* build_link_header: a link is missing or names a page.
PrevLink(p) == IF p > 1 THEN {p - 1} ELSE {}
NextLink(p, n, total) == IF p * n < total THEN {p + 1} ELSE {}
LastLink(n, total) == IF total > 0 THEN {(total + n - 1) \div n} ELSE {}

\* The answer 200: the rows of the page, X-Total-Count and the links.
Listing(s, p, n, total) ==
    [status |-> "ok", page |-> p, rows |-> Slice(s, p, n), total |-> total,
     prev |-> PrevLink(p), next |-> NextLink(p, n, total),
     last |-> LastLink(n, total)]

Failure(status, p) ==
    [status |-> status, page |-> p, rows |-> <<>>, total |-> 0,
     prev |-> {}, next |-> {}, last |-> {}]

-----------------------------------------------------------------------------
Walking == query # {} /\ \A r \in reply : r.status # "ok" \/ r.next # {}
Done    == query # {} /\ ~ Walking

Init ==
    /\ \E there \in SUBSET Places : \E hits \in SUBSET there :
            table = {[at |-> p, hit |-> p \in hits] : p \in there}
    /\ query = {} /\ page = 1 /\ size = 1
    /\ reply = {} /\ listed = <<>>
    /\ writes = 0 /\ atStart = {} /\ added = {} /\ removed = {}

\* A client begins a search at any page.
Begin(q, p, n) ==
    /\ query = {}
    /\ PageError(p, n) = {}
    /\ query' = {q} /\ page' = p /\ size' = n
    /\ atStart' = IF p = 1 THEN VisiblePlaces(q, table) ELSE {}
    /\ UNCHANGED <<table, reply, listed, writes, added, removed>>

\* The page or the size is refused (400).
Refuse(q, p, n) ==
    /\ query = {}
    /\ \E e \in PageError(p, n) : reply' = {Failure(e, p)}
    /\ UNCHANGED <<table, query, page, size, listed, writes,
                   atStart, added, removed>>

\* list_settings: the statement runs, and the client goes on by the link next.
List ==
    /\ Walking
    /\ \E q \in query : \E s \in Orders(VisiblePlaces(q, table)) :
        LET r == Listing(s, page, size, Len(s))
        IN  /\ reply' = {r}
            /\ listed' = listed \o r.rows
            /\ page' = IF r.next = {} THEN page ELSE CHOOSE p \in r.next : TRUE
    /\ UNCHANGED <<table, query, size, writes, atStart, added, removed>>

\* The database cannot be reached or fails (503, 500), or a row of the page does
\* not load, its value being too large once stored (422): the client asks again.
ListFails ==
    /\ Walking
    /\ reply' = {Failure("failed", page)}
    /\ UNCHANGED <<table, query, page, size, listed, writes,
                   atStart, added, removed>>

\* Another request leaves the table as rows.
Write(rows) ==
    /\ Walking /\ writes < MaxWrites
    /\ writes' = writes + 1
    /\ table' = rows
    /\ \E q \in query :
        /\ added' = added \cup (VisiblePlaces(q, rows) \ VisiblePlaces(q, table))
        /\ removed' = removed \cup (VisiblePlaces(q, table) \ VisiblePlaces(q, rows))
    /\ UNCHANGED <<client, atStart>>

At(p) == {r \in table : r.at = p}

\* It puts a value at a place, new or not.
Put(p, hit) ==
    /\ [at |-> p, hit |-> hit] \notin table
    /\ Write((table \ At(p)) \cup {[at |-> p, hit |-> hit]})

Delete(p) == At(p) # {} /\ Write(table \ At(p))

\* The client is done and may begin anew.
Leave ==
    /\ Done
    /\ query' = {} /\ page' = 1 /\ size' = 1
    /\ reply' = {} /\ listed' = <<>>
    /\ writes' = 0 /\ atStart' = {} /\ added' = {} /\ removed' = {}
    /\ UNCHANGED table

Next ==
    \/ \E q \in Searches, p \in 0 .. MaxPage, n \in 0 .. MaxSize :
            Begin(q, p, n) \/ Refuse(q, p, n)
    \/ List \/ ListFails \/ Leave
    \/ \E p \in Places : Delete(p) \/ (\E hit \in BOOLEAN : Put(p, hit))

Spec == Init /\ [][Next]_vars

-----------------------------------------------------------------------------
TypeOK ==
    /\ table \subseteq Rows
    /\ \A r, s \in table : r.at = s.at => r = s
    /\ \A q \in query : q \in Searches
    /\ page \in Nat \ {0} /\ size \in 1 .. SizeLimit
    /\ \A r \in reply :
        /\ r.status \in {"ok", "bad_page", "bad_size", "failed"}
        /\ r.rows \in Seq(Places) /\ Len(r.rows) <= size
        /\ r.total \in Nat
    /\ listed \in Seq(Places)
    /\ writes \in 0 .. MaxWrites
    /\ atStart \cup added \cup removed \subseteq Places

\* How many rows of a key were listed, or are among some places.
Listed(k) == Cardinality({i \in DOMAIN listed : listed[i].key = k})
Holding(k, places) == Cardinality({p \in places : p.key = k})

Keys == {p.key : p \in Places}

\* A walk from page 1 to the end misses no key while no row goes away: of each
\* key it lists as many rows as there were (of two rows of one key, perhaps one
\* of them twice, because ORDER BY key leaves their order open).
NothingMissed ==
    Done /\ removed = {} => \A k \in Keys : Listed(k) >= Holding(k, atStart)

\* It lists nothing twice while no row is added: of each key no more rows than
\* there were.  (Rows inserted before the page move the others into the next.)
NothingTwice ==
    added = {} /\ atStart # {} =>
        \A k \in Keys : Listed(k) <= Holding(k, atStart)

\* How many rows of the order the pages of a walk from page 1 have covered.
Covered == IF Done THEN page * size ELSE (page - 1) * size

Below(k, places) == Cardinality({p \in places : p.key < k})

\* How a walk gets there, and what makes NothingMissed and NothingTwice inductive:
\* while no row goes away it has listed of each key what there was, or as many
\* rows as it covered of those that come after the smaller keys, and while none
\* is added no more than that.  (Rows that come or go among the smaller keys move
\* a key away from the pages still to come, or towards those already listed.)
KeepsPace ==
    \A q \in query : \A k \in Keys :
        LET below == Below(k, VisiblePlaces(q, table))
        IN  /\ removed = {} =>
                 Listed(k) >= Holding(k, atStart) \/ Listed(k) + below >= Covered
            /\ added = {} /\ atStart # {} =>
                 /\ Listed(k) <= Holding(k, atStart)
                 /\ Listed(k) = 0 \/ Listed(k) + below <= Covered

\* can_read of auth/model.rs, which decides what get may return.
CanRead(q, place) ==
    /\ place.tenant = q.tenant
    /\ place.user = {q.user} \/ (q.role = "Admin" /\ place.user = {})

\* The search lists only what a get of the same principal could read.
ListsOnlyReadable ==
    \A q \in query : \A i \in DOMAIN listed : CanRead(q, listed[i])

\* The headers tell the truth about the table the page came from: there is a
\* link "next" exactly when rows follow this page, a page in range has rows,
\* the page "last" has rows, and no row follows it.
LinksMatchRows ==
    \A r \in {x \in reply : x.status = "ok"} :
        LET before == (r.page - 1) * size
        IN  /\ r.next # {} <=> before + Len(r.rows) < r.total
            /\ r.rows = <<>> <=> before >= r.total
            /\ r.last = {} <=> r.total = 0
            /\ \A l \in r.last : (l - 1) * size < r.total /\ r.total <= l * size
=============================================================================

------------------------------ MODULE Queries ------------------------------
(***************************************************************************)
(* A client that subscribes, then collects the answer to a query page by   *)
(* page, while handlers put messages in the store, append them to the      *)
(* event log and emit their events, and remove messages again.             *)
(*                                                                         *)
(* One query of the store or of the log is one step: IndexStore models its *)
(* parts.  A page is a function from the items on it to how often each is  *)
(* there.                                                                  *)
(***************************************************************************)
EXTENDS Filters

CONSTANTS
    Items,      \* the messages the handlers may put
    Cid,        \* their CIDs, as numbers: they break ties when sorting
    Message,    \* what they say
    Histories,  \* what may have been put before, and what of it is stored
    Asks,       \* the requests the client may make
    Request     \* what they ask for

\* The fields an item is indexed by, the match sets of a request, and which
\* of them an item matches.
Fields == [x \in Items |-> build_indexes(Message[x])]
Sets == [a \in Asks |-> SetsOf(Request[a])]
Hit == [a \in Asks |-> [x \in Items |->
          {i \in DOMAIN Sets[a] : Hits(Sets[a][i], Fields[x])}]]
Concise == [a \in Asks |-> is_concise(Sets[a])]

\* How often an item was on a page is counted up to here.
Often == 2

VARIABLES
    items,      \* the message store
    log,        \* the event log
    put,        \* every item that was put at some time
    unlogged,   \* items put whose handler has not appended them to the log
    unlisted,   \* items deleted and not yet removed from the log
    pending,    \* items whose event has not been emitted yet
    live,       \* the client's subscription
    seen,       \* the items whose events the client received
    ask,        \* the client's query, once it is made
    status,     \* of that query: paging, deleted, done or refused
    cursor,     \* the cursor of the last page
    held,       \* the delete a read has found, before it is authorized
    returned,   \* how often each item was on a page
    steady,     \* items that were there ever since the query was made
    restarted   \* the item of a cursor was gone when it was used

store == <<items, log, put, unlogged, unlisted, pending>>
stream == <<live, seen>>
query == <<ask, status, cursor, held, returned, restarted>>
vars == <<items, log, put, unlogged, unlisted, pending, live, seen, ask, status,
          cursor, held, returned, steady, restarted>>

Init ==
    /\ \E h \in Histories : items = h.stored /\ log = h.stored /\ put = h.put
    /\ unlogged = {} /\ unlisted = {} /\ pending = {}
    /\ live = {} /\ seen = {}
    /\ ask = {} /\ status = "none" /\ cursor = {} /\ held = {}
    /\ returned = [x \in Items |-> 0]
    /\ steady = {} /\ restarted = FALSE

(***************************************************************************)
(* Selecting and sorting.  Items with the same value of the sort field are *)
(* ordered by CID.                                                         *)
(***************************************************************************)
KeyBefore(v, c, w, d) == v < w \/ (v = w /\ c < d)

CursorOf(sort, x) == [cid |-> Cid[x], value |-> Fields[x][sort.field]]

BeforeKey(sort, x, k) ==
    LET c == CursorOf(sort, x)
    IN  IF sort.asc THEN KeyBefore(c.value, c.cid, k.value, k.cid)
                    ELSE KeyBefore(k.value, k.cid, c.value, c.cid)

\* Mutant of Before: the order is always ascending.
BeforeUp(sort, x, y) == BeforeKey([sort EXCEPT !.asc = TRUE], x, CursorOf(sort, y))

Before(sort, x, y) == BeforeKey(sort, x, CursorOf(sort, y))

\* The keys of an index that begin with a value.
matches(b, x) ==
    b.field \in DOMAIN Fields[x] /\ StartsWith(Fields[x][b.field], b.value)

Findable == [a \in Asks |->
    {x \in Items : \E i \in Hit[a][x] : \E b \in Sets[a][i].index : matches(b, x)}]

\* A CID is that of one message; archiving it sets initial.
ASSUME ItemsAssumption ==
    /\ IsFiniteSet(Items)
    /\ \A h \in Histories :
         /\ h.stored \subseteq h.put /\ h.put \subseteq Items
         /\ \A x, y \in h.stored : Cid[x] = Cid[y] => x = y
    /\ \A x \in Items :
         /\ Cid[x] \in Nat
         /\ {"interface", "method"} \subseteq DOMAIN Message[x]
         /\ Message[x]["interface"] = "Protocols" => Message[x]["method"] = "Configure"
         /\ Message[x]["interface"] = "Records" => "author" \in DOMAIN Message[x]
         /\ "initial" \in DOMAIN Message[x] => Message[x]["initial"] \in BOOLEAN
    /\ \A x, y \in Items : Cid[x] = Cid[y] =>
         \A d \in Dates \cap DOMAIN Fields[x] :
            d \in DOMAIN Fields[y] /\ Fields[x][d] = Fields[y][d]

\* A request sorts by a date, which what it finds has: what is published has
\* a date of publication.
ASSUME AsksAssumption ==
    /\ TagFields \cap ({"published", "author", "recipient", "contextId", "dataSize"}
                         \cup Dates \cup {ConciseFields[i] : i \in 1..5}) = {}
    /\ \A a \in Asks :
         /\ Request[a].kind \in {"query", "read", "protocols", "messages"}
         /\ Request[a].sort \in [field : Dates, asc : BOOLEAN]
         /\ IsFiniteSet(DOMAIN Sets[a])
         /\ \A n \in Request[a].limit : n \in Nat
         /\ Request[a].kind = "messages" => Request[a].limit = {}
         /\ \A x \in Items : Request[a].sort.field \in DOMAIN Fields[x]
              => Fields[x][Request[a].sort.field] \in Nat
         /\ \A x \in Findable[a] : Request[a].sort.field \in DOMAIN Fields[x]
         /\ Request[a].kind \in {"query", "read"} => LET f == Request[a].filter IN
              /\ "published" \in DOMAIN f => f["published"] \in BOOLEAN
              /\ \A d \in {ConciseFields[i] : i \in 1..5} \cap DOMAIN f : Len(f[d]) \in Nat
              /\ \A d \in TagFields \cap DOMAIN f :
                   Len(f[d].value) \in Nat /\ f[d].how \in {"equal", "startsWith"}

\* Mutants of FromCursor: the cursor is ignored; the page begins after its item.
FromCursorStart(found, sort, cur) == found

FromCursorAfter(found, sort, cur) ==
    {x \in found : \A k \in cur : \A c \in found :
                      Cid[c] = k.cid => Before(sort, c, x)}

\* The page begins at the item of the cursor, or at the first one.
FromCursor(found, sort, cur) ==
    {x \in found : \A k \in cur : \A c \in found :
                      Cid[c] = k.cid => ~Before(sort, x, c)}

Rank(from, sort, x) == Cardinality({y \in from : Before(sort, y, x)})

\* One item is returned when none are asked for.
PageOf(from, sort, limit) ==
    {x \in from : \A n \in limit :
                     Rank(from, sort, x) < (IF n = 0 THEN 1 ELSE n)}

\* The cursor is the first item beyond the page.
FirstOf(rest, sort) ==
    {CursorOf(sort, x) :
        x \in {y \in rest : \A z \in rest : z = y \/ Before(sort, y, z)}}

query_concise(S, a, cur) ==
    LET r == Request[a]
        from == FromCursor(S \cap Findable[a], r.sort, cur)
        page == PageOf(from, r.sort, r.limit)
    IN  [page |-> [x \in page |-> 1],
         next |-> IF 0 \in r.limit THEN {} ELSE FirstOf(from \ page, r.sort)]

\* An item is collected once for each match set it matches.
Collected == [a \in Asks |-> [x \in Items |->
                 IF DOMAIN Sets[a] = {} THEN {0} ELSE Hit[a][x]]]
Count(a, T) == Cardinality(UNION {{x} \X Collected[a][x] : x \in T})

\* The index of the sort field is scanned upwards whatever the order asked
\* for, to where exactly one more than the limit has been collected.
query_full(S, a, cur) ==
    LET r == Request[a]
        up == [r.sort EXCEPT !.asc = TRUE]
        from == {x \in S : /\ up.field \in DOMAIN Fields[x]
                           /\ \A k \in cur : ~BeforeKey(up, x, k)}
        below == [x \in from |-> {y \in from : Before(up, y, x)}]
        stops == {x \in from : \E n \in r.limit : Count(a, below[x]) = n + 1}
        taken == {x \in from : /\ Collected[a][x] # {}
                               /\ stops \cap (below[x] \cup {x}) = {}}
        more == \E n \in r.limit : n > 0 /\ n < Count(a, taken)
        last == {x \in taken : \A y \in taken : y = x \/ Before(up, y, x)}
    IN  [page |-> [x \in taken |-> Cardinality(Collected[a][x])
                                     - (IF more /\ x \in last THEN 1 ELSE 0)],
         next |-> IF more THEN {CursorOf(up, x) : x \in last} ELSE {}]

Answer(S, a, cur) ==
    IF Concise[a] THEN query_concise(S, a, cur) ELSE query_full(S, a, cur)

Reads == {a \in Asks : Request[a].kind = "read"}

\* Messages are queried in the event log, everything else in the store.
Source(a, S, L) == IF Request[a].kind = "messages" THEN L ELSE S
Queried(S, L) == UNION {Source(a, S, L) : a \in ask}

(***************************************************************************)
(* Handlers of other requests.  A message is put in the store, appended to *)
(* the log, then its event is emitted; it is deleted from the store, then  *)
(* from the log.                                                           *)
(***************************************************************************)
SameCid(S, x) == {y \in S : Cid[y] = Cid[x]}

\* A message the store has is a conflict.
Put(x) ==
    /\ x \notin put /\ SameCid(items, x) = {}
    /\ items' = items \cup {x}
    /\ put' = put \cup {x}
    /\ unlogged' = unlogged \cup {x}
    /\ pending' = pending \cup {x}
    /\ UNCHANGED <<log, unlisted, stream, query, steady>>

Archived(x) == "initial" \in DOMAIN Message[x] /\ Message[x]["initial"]

\* Mutant of Archive: the entry stored under the CID is not replaced.
ArchiveBeside(x) ==
    /\ x \notin put /\ Archived(x) /\ SameCid(put, x) # {}
    /\ items' = items \cup {x}
    /\ put' = put \cup {x}
    /\ unlogged' = unlogged \cup {x}
    /\ steady' = steady \cap Queried(items', log)
    /\ UNCHANGED <<log, unlisted, pending, stream, query>>

\* A record's initial write is put again to set initial, and logged again;
\* no event is emitted.
Archive(x) ==
    /\ x \notin put /\ Archived(x) /\ SameCid(put, x) # {}
    /\ items' = (items \ SameCid(items, x)) \cup {x}
    /\ put' = put \cup {x}
    /\ unlogged' = unlogged \cup {x}
    /\ steady' = steady \cap Queried(items', log)
    /\ UNCHANGED <<log, unlisted, pending, stream, query>>

AppendEvent(x) ==
    /\ x \in unlogged
    /\ log' = (log \ SameCid(log, x)) \cup {x}
    /\ unlogged' = unlogged \ {x}
    /\ steady' = steady \cap Queried(items, log')
    /\ UNCHANGED <<items, put, unlisted, pending, stream, query>>

Emit(x) ==
    /\ x \in pending \ unlogged
    /\ pending' = pending \ {x}
    /\ seen' = IF \E a \in live : Delivers(Request[a], Message[x])
                 THEN seen \cup {x} ELSE seen
    /\ UNCHANGED <<items, log, put, unlogged, unlisted, live, query, steady>>

Delete(x) ==
    /\ x \in items
    /\ items' = items \ {x}
    /\ unlisted' = unlisted \cup {x}
    /\ steady' = steady \cap Queried(items', log)
    /\ UNCHANGED <<log, put, unlogged, pending, stream, query>>

DeleteEvent(x) ==
    /\ x \in unlisted
    /\ log' = log \ SameCid(log, x)
    /\ unlisted' = unlisted \ {x}
    /\ steady' = steady \cap Queried(items, log')
    /\ UNCHANGED <<items, put, unlogged, pending, stream, query>>

(***************************************************************************)
(* The client.                                                             *)
(***************************************************************************)
Subscribe(a) ==
    /\ live = {} /\ ask = {}
    /\ MaySubscribe(Request[a])
    /\ live' = {a}
    /\ UNCHANGED <<store, seen, query, steady>>

Ask(a) ==
    /\ ask = {}
    /\ live \subseteq {a}
    /\ ask' = {a}
    /\ status' = IF Refused(Request[a]) THEN "refused" ELSE "paging"
    /\ steady' = Source(a, items, log)
    /\ UNCHANGED <<store, stream, cursor, held, returned, restarted>>

AddTo(n, k) == IF n + k > Often THEN Often ELSE n + k

NextPage ==
    /\ status = "paging"
    /\ \E a \in ask \ Reads : \E S \in {Source(a, items, log)} :
       \E answer \in {Answer(S, a, cursor)} :
          /\ returned' = [x \in Items |->
                IF x \in DOMAIN answer.page THEN AddTo(returned[x], answer.page[x])
                                            ELSE returned[x]]
          /\ cursor' = answer.next
          /\ status' = IF answer.next = {} THEN "done" ELSE "paging"
          /\ restarted' = (restarted \/
                /\ Concise[a]
                /\ \E k \in cursor : \A x \in S \cap Findable[a] : Cid[x] # k.cid)
    /\ UNCHANGED <<store, stream, ask, held, steady>>

(***************************************************************************)
(* A read answers with the one message it finds.  Whether a delete may be  *)
(* shown is decided by the record's initial write, fetched afterwards.     *)
(***************************************************************************)
IsDelete(x) == Fields[x]["method"] = "Delete"

Show(S) == [x \in Items |-> IF x \in S THEN AddTo(returned[x], 1) ELSE returned[x]]

Read ==
    /\ status = "paging"
    /\ \E a \in ask \cap Reads : \E found \in {DOMAIN Answer(items, a, cursor).page} :
          /\ held' = {x \in found : found = {x} /\ IsDelete(x)}
          /\ returned' = Show({x \in found : /\ found = {x} /\ ~IsDelete(x)
                                            /\ authorize_read(Request[a], Message[x])})
          /\ status' = IF held' = {} THEN "done" ELSE "deleted"
    /\ UNCHANGED <<store, stream, ask, cursor, steady, restarted>>

\* By the time a delete is all there is to find, the initial write is archived.
InitialOf(S, x) ==
    {y \in S : /\ Fields[y]["interface"] = "Records"
               /\ Fields[y]["method"] = "Write"
               /\ Fields[y]["recordId"] = Fields[x]["recordId"]
               /\ Fields[y]["initial"]}

ReadDeleted ==
    /\ status = "deleted"
    /\ \E a \in ask :
          returned' = Show({x \in held : \E y \in InitialOf(items, x) :
                                            authorize_read(Request[a], Message[y])})
    /\ held' = {}
    /\ status' = "done"
    /\ UNCHANGED <<store, stream, ask, cursor, steady, restarted>>

Next ==
    \/ \E x \in Items : Put(x) \/ Archive(x) \/ AppendEvent(x) \/ Emit(x)
                         \/ Delete(x) \/ DeleteEvent(x)
    \/ \E a \in Asks : Subscribe(a) \/ Ask(a)
    \/ NextPage \/ Read \/ ReadDeleted

Spec == Init /\ [][Next]_vars

\* The next page leads back to the cursor it is asked for with.
Loops ==
    \E a \in ask \ Reads :
        /\ cursor # {}
        /\ Answer(Source(a, items, log), a, cursor).next = cursor

\* Handlers are polled until they answer, and the client asks on: a client
\* that is paging, for whom NextPage is enabled, gets the next page, unless
\* again and again it would lead back to where the client is.  That is less
\* than weak fairness of NextPage, which asks for such a page as well if it
\* changes anything.
FairSpec ==
    /\ Spec /\ WF_vars(Read) /\ WF_vars(ReadDeleted)
    /\ []<>(status # "paging" \/ Loops) \/ []<><<NextPage>>_vars

(***************************************************************************)
(* Properties.                                                             *)
(***************************************************************************)
\* Every variable has its type; the store and the log have one entry for a
\* CID, what is put under one replacing what was there (set_index).
TypeOK ==
    /\ put \subseteq Items
    /\ items \subseteq put /\ log \subseteq put /\ pending \subseteq put
    /\ unlogged \subseteq put /\ unlisted \subseteq put
    /\ \A S \in {items, log} : \A x, y \in S : Cid[x] = Cid[y] => x = y
    /\ seen \subseteq Items /\ held \subseteq put
    /\ steady \subseteq Queried(items, log)
    /\ live \subseteq Asks /\ ask \subseteq Asks
    /\ status \in {"none", "paging", "deleted", "done", "refused"}
    /\ returned \in [Items -> 0..Often]
    /\ restarted \in BOOLEAN

Selected(a, x) ==
    /\ DOMAIN Sets[a] = {} \/ Hit[a][x] # {}
    /\ Request[a].sort.field \in DOMAIN Fields[x]

\* However the store changes between two pages, when the last page has come
\* every item that matched and was in the store all the time has been on a
\* page: a cursor never skips an item, even when the item it names is gone
\* (query_concise then begins again at the first item).
NothingMissed ==
    \A a \in ask :
        status = "done" /\ Request[a].kind # "read" /\ 0 \notin Request[a].limit =>
            \A x \in steady : Selected(a, x) => returned[x] > 0

\* query_full collects an item once for each match set it matches; the items
\* of query_concise, and of a scan for one match set, are collected once.
CollectedOnce(a, x) == Concise[a] \/ \A i, j \in Collected[a][x] : i = j

\* No item is on two pages, or twice on one, unless the item of a cursor was
\* removed and query_concise began again, or query_full collected the item
\* for two match sets.
NoRepeats ==
    ~restarted => \A a \in ask : \A x \in Items :
        CollectedOnce(a, x) => returned[x] <= 1

\* The pages follow each other in the order asked for: what has been returned
\* comes before the item the next page begins with, or is that item, and then
\* was collected for two match sets.  A scan of the index of the sort field
\* (query_full) keeps to this for ascending orders only.
PagesInOrder ==
    \A a \in ask : \A k \in cursor : \A x \in Items :
        /\ ~restarted /\ returned[x] > 0
        /\ Concise[a] \/ Request[a].sort.asc
        => \/ BeforeKey(Request[a].sort, x, k)
           \/ Cid[x] = k.cid /\ ~CollectedOnce(a, x)

Entitled(r) ==
    \/ r.requester = Owner
    \/ r.permitted /\ (r.kind = "query" => r.role)

Concerns(r, fields) ==
    \/ "published" \in DOMAIN fields /\ fields["published"]
    \/ "author" \in DOMAIN fields /\ fields["author"] = r.requester
    \/ "recipient" \in DOMAIN fields /\ fields["recipient"] = r.requester

\* A requester is shown, on a page, by a read or through a subscription, only
\* what is published, what they wrote or received, and what a role or a grant
\* permits; a delete is shown as the record's initial write would be.
VisibleOnly ==
    \A a \in ask \cup live : \A x \in Items :
        returned[x] > 0 \/ x \in seen =>
            \/ Entitled(Request[a])
            \/ ~IsDelete(x) /\ Concerns(Request[a], Fields[x])
            \/ IsDelete(x) /\ \E y \in InitialOf(put, x) : Concerns(Request[a], Fields[y])

\* An owner who subscribes and then queries with the same filter misses no
\* record: when the query is done, whatever in the store it would select has
\* been returned, or its event has come or is about to be emitted.
LiveView ==
    \A a \in ask \cap live :
        /\ status = "done" /\ Request[a].kind = "query"
        /\ Request[a].requester = Owner /\ 0 \notin Request[a].limit
        => \A x \in items :
             Selected(a, x) => returned[x] > 0 \/ x \in seen \cup pending

\* A page has no more entries than the limit asked for.
PageWithinLimit ==
    status = "paging" =>
        \A a \in ask : \A n \in Request[a].limit \ {0} :
            LET page == Answer(Source(a, items, log), a, cursor).page
            IN  Cardinality(UNION {{x} \X (1..page[x]) : x \in DOMAIN page}) <= n

\* The cursor is at an item that is stored and that query_full collects more
\* often than the limit: the next page ends in it again.
Stuck ==
    \E a \in ask : \E n \in Request[a].limit : \E x \in items :
        /\ ~Concise[a] /\ Cardinality(Collected[a][x]) > n
        /\ cursor = {CursorOf(Request[a].sort, x)}

\* A read is answered, and a client that asks on for the next page comes to
\* the last one, unless it comes to an item that query_full collects more
\* often than the limit and stays there for ever.
PagingEnds == <>[](status \in {"paging", "deleted"} => Stuck)

=============================================================================

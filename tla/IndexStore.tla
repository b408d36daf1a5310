---------------------------- MODULE IndexStore ----------------------------
(***************************************************************************)
(* The message store of one owner, block by block: a block for each        *)
(* message, one for each index, and one for the reverse lookup of a        *)
(* message's index values.  The event log is the same code over a          *)
(* partition of its own.                                                   *)
(*                                                                         *)
(* put, delete and query are async functions without a lock.  An index is  *)
(* changed by reading its block, deleting it and storing the changed copy, *)
(* and other operations may run at each await in between.                  *)
(***************************************************************************)
EXTENDS Naturals, FiniteSets

CONSTANTS
    Cids,       \* message CIDs
    Fields,     \* names of indexes
    Values,     \* values of indexed fields
    Entries,    \* the entries put; one CID may be put with different values
    NoEntry,    \* no such entry
    NoBlock,    \* no such index block
    NoRequest,  \* the worker is free
    Workers,    \* operations in progress at once
    IndexLimit  \* items an index may have before its block exceeds MAX_BLOCK_SIZE

ASSUME EntriesAssumption ==
    /\ \A e \in Entries :
         e.cid \in Cids /\ e.fields \in [DOMAIN e.fields -> Values]
           /\ DOMAIN e.fields \subseteq Fields
    /\ IndexLimit \in Nat
    /\ NoEntry \notin Entries

\* The requests in progress.
PutRequests == {[kind |-> "put", cid |-> e.cid, entry |-> e] : e \in Entries}
DeleteRequests == {[kind |-> "delete", cid |-> c] : c \in Cids}
QueryRequests == {[kind |-> "query", field |-> f, value |-> v] : f \in Fields, v \in Values}
Requests == PutRequests \cup DeleteRequests \cup QueryRequests

ASSUME NamesAssumption ==
    /\ NoRequest \notin Requests
    /\ \A S \in SUBSET Entries : S # NoBlock

VARIABLES
    block,      \* the entry in the block of each message
    index,      \* the items in the block of each index
    lookup,     \* the items in the block "message_cid", one per CID
    pc, request,
    item,       \* the item whose values are being removed or inserted
    todo,       \* the fields left to do; for a query, the items left to fetch
    field,      \* the field being done
    copy,       \* the changed copy of the block that was read
    found,      \* the entries a query has fetched
    reply,      \* the answer given in the last step
    settled,    \* by CID: the entry last put, if nothing has happened to it since
    expected,   \* by query: the settled entries it matches, since it started
    contended   \* operations another one on the same message overlaps

blocks == <<block, index, lookup>>
local == <<request, item, todo, field, copy, found>>
history == <<settled, expected, contended>>
vars == <<block, index, lookup, pc, request, item, todo, field, copy, found,
          reply, settled, expected, contended>>
-----------------------------------------------------------------------------
(* Blocks                                                                  *)

\* What a block may hold after a put: a block store given a key that is taken
\* keeps the block or replaces it.
AfterPut(old, new, none) == IF old = none THEN {new} ELSE {old, new}

\* An index without a block is empty.
Get(b) == IF b = NoBlock THEN {} ELSE b

\* The items of an index are keyed by value and CID, those of the reverse lookup
\* by CID.
IndexRemove(S, f, x) == {y \in S : ~(y.cid = x.cid /\ y.fields[f] = x.fields[f])}

IndexInsert(S, f, x) == IndexRemove(S, f, x) \cup {x}

LookupInsert(S, x) == {y \in S : y.cid # x.cid} \cup {x}

\* Mutant of Matches: the candidates are not compared with the value.
MatchesAny(S, f, v) == S

\* The items a query for the value v selects.
Matches(S, f, v) == {x \in S : x.fields[f] = v}
-----------------------------------------------------------------------------
Goto(p, l) == pc' = [pc EXCEPT ![p] = l] /\ reply' = "none"

\* The operation of p returns r.
Answer(p, r) ==
    /\ pc' = [pc EXCEPT ![p] = "idle"]
    /\ reply' = r
    /\ request' = [request EXCEPT ![p] = NoRequest]
    /\ item' = [item EXCEPT ![p] = NoEntry]
    /\ todo' = [todo EXCEPT ![p] = {}]
    /\ field' = [field EXCEPT ![p] = NoEntry]
    /\ copy' = [copy EXCEPT ![p] = {}]
    /\ found' = [found EXCEPT ![p] = {}]

Init ==
    /\ block = [c \in Cids |-> NoEntry]
    /\ index = [f \in Fields |-> NoBlock]
    /\ lookup = NoBlock
    /\ pc = [p \in Workers |-> "idle"]
    /\ request = [p \in Workers |-> NoRequest]
    /\ item = [p \in Workers |-> NoEntry]
    /\ todo = [p \in Workers |-> {}]
    /\ field = [p \in Workers |-> NoEntry]
    /\ copy = [p \in Workers |-> {}]
    /\ found = [p \in Workers |-> {}]
    /\ reply = "none"
    /\ settled = [c \in Cids |-> NoEntry]
    /\ expected = [p \in Workers |-> {}]
    /\ contended = {}

\* p starts to change the message c: what was known of c is in flux.
Unsettle(p, c) ==
    LET rivals == {q \in Workers : /\ pc[q] \notin {"idle", "query", "fetch"}
                                   /\ request[q].cid = c}
    IN  /\ settled' = [settled EXCEPT ![c] = NoEntry]
        /\ expected' = [q \in Workers |-> {e \in expected[q] : e.cid # c}]
        /\ contended' = IF rivals = {} THEN contended \ {p}
                                       ELSE contended \cup rivals \cup {p}

\* A put of p is done.
Settle(p) ==
    settled' = IF p \in contended THEN settled
               ELSE [settled EXCEPT ![request[p].cid] = request[p].entry]

StartPut(p, e) ==
    /\ pc[p] = "idle"
    /\ request' = [request EXCEPT ![p] = [kind |-> "put", cid |-> e.cid, entry |-> e]]
    /\ Goto(p, "block_clear")
    /\ Unsettle(p, e.cid)
    /\ UNCHANGED <<blocks, item, todo, field, copy, found>>

StartDelete(p, c) ==
    /\ pc[p] = "idle"
    /\ request' = [request EXCEPT ![p] = [kind |-> "delete", cid |-> c]]
    /\ Goto(p, "lookup")
    /\ Unsettle(p, c)
    /\ UNCHANGED <<blocks, item, todo, field, copy, found>>

StartQuery(p, f, v) ==
    /\ pc[p] = "idle"
    /\ request' = [request EXCEPT ![p] = [kind |-> "query", field |-> f, value |-> v]]
    /\ Goto(p, "query")
    /\ expected' = [expected EXCEPT ![p] =
         {e \in Entries : /\ settled[e.cid] = e
                          /\ f \in DOMAIN e.fields /\ e.fields[f] = v}]
    /\ UNCHANGED <<blocks, item, todo, field, copy, found, settled, contended>>
-----------------------------------------------------------------------------
(* message::put and message::delete                                        *)

ClearBlock(p) ==
    /\ pc[p] = "block_clear"
    /\ block' = [block EXCEPT ![request[p].cid] = NoEntry]
    /\ Goto(p, "block_put")
    /\ UNCHANGED <<index, lookup, local, history>>

PutBlock(p) ==
    /\ pc[p] = "block_put"
    /\ LET c == request[p].cid
       IN  \E b \in AfterPut(block[c], request[p].entry, NoEntry) :
             block' = [block EXCEPT ![c] = b]
    /\ Goto(p, "lookup")
    /\ UNCHANGED <<index, lookup, local, history>>

\* Mutants of NextField: a put leaves the values the message had before; the
\* loop runs over all indexes.
NextFieldNoRemove(p, x) ==
    IF request[p].kind = "put"
      THEN /\ item' = [item EXCEPT ![p] = request[p].entry]
           /\ todo' = [todo EXCEPT ![p] = DOMAIN request[p].entry.fields]
           /\ Goto(p, "insert")
      ELSE /\ item' = [item EXCEPT ![p] = x]
           /\ todo' = [todo EXCEPT ![p] = IF x = NoEntry THEN {} ELSE DOMAIN x.fields]
           /\ Goto(p, "remove")

NextFieldAll(p, x) ==
    /\ item' = [item EXCEPT ![p] = x]
    /\ todo' = [todo EXCEPT ![p] = IF x = NoEntry THEN {} ELSE Fields]
    /\ Goto(p, "remove")

\* The values the message had are removed before the new ones are inserted.
NextField(p, x) ==
    /\ item' = [item EXCEPT ![p] = x]
    /\ todo' = [todo EXCEPT ![p] = IF x = NoEntry THEN {} ELSE DOMAIN x.fields]
    /\ Goto(p, "remove")

Lookup(p) ==
    /\ pc[p] = "lookup"
    /\ \/ /\ \A x \in Get(lookup) : x.cid # request[p].cid
          /\ NextField(p, NoEntry)
       \/ \E x \in Get(lookup) : x.cid = request[p].cid /\ NextField(p, x)
    /\ UNCHANGED <<blocks, request, field, copy, found, history>>

\* Read the index of one of the fields left, and change the copy.
ReadIndex(p) ==
    /\ pc[p] \in {"remove", "insert"}
    /\ \E f \in todo[p] :
         /\ field' = [field EXCEPT ![p] = f]
         /\ todo' = [todo EXCEPT ![p] = @ \ {f}]
         /\ copy' = [copy EXCEPT ![p] =
              IF pc[p] = "remove" THEN IndexRemove(Get(index[f]), f, item[p])
                                  ELSE IndexInsert(Get(index[f]), f, item[p])]
    /\ Goto(p, IF pc[p] = "remove" THEN "remove_clear" ELSE "insert_clear")
    /\ UNCHANGED <<blocks, request, item, found, history>>

ClearIndex(p) ==
    /\ pc[p] \in {"remove_clear", "insert_clear"}
    /\ index' = [index EXCEPT ![field[p]] = NoBlock]
    /\ Goto(p, IF pc[p] = "remove_clear" THEN "remove_put" ELSE "insert_put")
    /\ UNCHANGED <<block, lookup, local, history>>

\* The copy is stored, unless it is too large a block: the index is gone then.
PutIndex(p) ==
    /\ pc[p] \in {"remove_put", "insert_put"}
    /\ IF Cardinality(copy[p]) <= IndexLimit
         THEN /\ \E b \in AfterPut(index[field[p]], copy[p], NoBlock) :
                   index' = [index EXCEPT ![field[p]] = b]
              /\ Goto(p, IF pc[p] = "remove_put" THEN "remove" ELSE "insert")
              /\ UNCHANGED local
         ELSE Answer(p, "error") /\ UNCHANGED index
    /\ UNCHANGED <<block, lookup, history>>

\* The values the message had are gone: a put goes on with the new ones.
Removed(p) ==
    /\ pc[p] = "remove" /\ todo[p] = {}
    /\ \/ /\ request[p].kind = "put"
          /\ item' = [item EXCEPT ![p] = request[p].entry]
          /\ todo' = [todo EXCEPT ![p] = DOMAIN request[p].entry.fields]
          /\ Goto(p, "insert")
          /\ UNCHANGED block
          /\ UNCHANGED <<request, field, copy, found>>
       \/ /\ request[p].kind = "delete"
          /\ block' = [block EXCEPT ![request[p].cid] = NoEntry]
          /\ Answer(p, "ok")
    /\ UNCHANGED <<index, lookup, history>>

ReadLookup(p) ==
    /\ pc[p] = "insert" /\ todo[p] = {}
    /\ copy' = [copy EXCEPT ![p] = LookupInsert(Get(lookup), item[p])]
    /\ Goto(p, "lookup_clear")
    /\ UNCHANGED <<blocks, request, item, todo, field, found, history>>

ClearLookup(p) ==
    /\ pc[p] = "lookup_clear"
    /\ lookup' = NoBlock
    /\ Goto(p, "lookup_put")
    /\ UNCHANGED <<block, index, local, history>>

PutLookup(p) ==
    /\ pc[p] = "lookup_put"
    /\ IF Cardinality(copy[p]) <= IndexLimit
         THEN /\ \E b \in AfterPut(lookup, copy[p], NoBlock) : lookup' = b
              /\ Answer(p, "ok")
              /\ Settle(p)
         ELSE Answer(p, "error") /\ UNCHANGED <<lookup, settled>>
    /\ UNCHANGED <<block, index, expected, contended>>
-----------------------------------------------------------------------------
(* message::query, on the values of one index                              *)

Query(p) ==
    /\ pc[p] = "query"
    /\ todo' = [todo EXCEPT ![p] =
         Matches(Get(index[request[p].field]), request[p].field, request[p].value)]
    /\ Goto(p, "fetch")
    /\ UNCHANGED <<blocks, request, item, field, copy, found, history>>

\* The block of each item is fetched; one that is missing fails the query.
FetchBlock(p) ==
    /\ pc[p] = "fetch"
    /\ \E x \in todo[p] :
         \/ block[x.cid] = NoEntry /\ Answer(p, "error")
         \/ /\ block[x.cid] # NoEntry
            /\ found' = [found EXCEPT ![p] = @ \cup {block[x.cid]}]
            /\ todo' = [todo EXCEPT ![p] = @ \ {x}]
            /\ Goto(p, "fetch")
            /\ UNCHANGED <<request, item, field, copy>>
    /\ UNCHANGED <<blocks, history>>

QueryDone(p) ==
    /\ pc[p] = "fetch" /\ todo[p] = {}
    /\ Answer(p, "ok")
    /\ UNCHANGED <<blocks, history>>
-----------------------------------------------------------------------------
Operate(p) ==
    \/ ClearBlock(p)
    \/ PutBlock(p)
    \/ Lookup(p)
    \/ ReadIndex(p)
    \/ ClearIndex(p)
    \/ PutIndex(p)
    \/ Removed(p)
    \/ ReadLookup(p)
    \/ ClearLookup(p)
    \/ PutLookup(p)
    \/ Query(p)
    \/ FetchBlock(p)
    \/ QueryDone(p)

Next ==
    \E p \in Workers :
        \/ \E e \in Entries : StartPut(p, e)
        \/ \E c \in Cids : StartDelete(p, c)
        \/ \E f \in Fields, v \in Values : StartQuery(p, f, v)
        \/ Operate(p)

Spec == Init /\ [][Next]_vars
-----------------------------------------------------------------------------
(* Properties                                                              *)

AllIdle == \A p \in Workers : pc[p] = "idle"

\* The blocks are well formed, and an operation goes only through indexes that
\* the item at hand has a value for.
TypeOK ==
    /\ block \in [Cids -> Entries \cup {NoEntry}]
    /\ \A f \in Fields : Get(index[f]) \subseteq {e \in Entries : f \in DOMAIN e.fields}
    /\ Get(lookup) \subseteq Entries
    /\ settled \in [Cids -> Entries \cup {NoEntry}]
    /\ \A p \in Workers :
         /\ pc[p] = "idle" <=> request[p] = NoRequest
         /\ item[p] \in Entries \cup {NoEntry}
         /\ found[p] \subseteq Entries
         /\ pc[p] \in {"remove", "insert"} =>
              todo[p] \subseteq IF item[p] = NoEntry THEN {} ELSE DOMAIN item[p].fields

\* When no operation is in progress each index holds the entries that were put
\* and not deleted, under their latest values, and nothing else: neither the
\* values a message had before (removed by way of the reverse lookup, which
\* outlives a delete) nor a message whose block is gone.
IndexExact ==
    AllIdle => \A f \in Fields :
        Get(index[f]) = {e \in Entries : settled[e.cid] = e /\ f \in DOMAIN e.fields}

\* A query returns the entries put and not deleted that have the value it asks
\* for, and does not fail.
QueryExact ==
    [][\A p \in Workers :
         pc[p] = "fetch" /\ pc'[p] = "idle"
           => reply' = "ok" /\ found[p] = expected[p]]_vars

\* An entry that was put can be found by each of its values until something else
\* is done to its message.
StoredIsFound ==
    AllIdle => \A e \in Entries : settled[e.cid] = e =>
        \A f \in DOMAIN e.fields : e \in Get(index[f])
=============================================================================

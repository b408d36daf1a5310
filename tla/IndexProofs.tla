---------------------------- MODULE IndexProofs ----------------------------
(***************************************************************************)
(* Proofs about IndexStore, for any messages, fields and values.  The      *)
(* shape of the blocks holds for any number of operations at once; the     *)
(* exactness of the indexes for one operation at a time, in a store whose  *)
(* indexes fit their blocks.                                               *)
(***************************************************************************)
EXTENDS IndexStore, FiniteSetTheorems, TLAPS

-----------------------------------------------------------------------------
(* Types, for any number of operations at once                             *)

\* The steps of a put, those a put and a delete share, and those of a query.
Inserting == {"insert", "insert_clear", "insert_put", "lookup_clear", "lookup_put"}
PutSteps == {"block_clear", "block_put"} \cup Inserting
Removing == {"remove", "remove_clear", "remove_put"}
QuerySteps == {"query", "fetch"}
Steps == {"idle", "lookup"} \cup PutSteps \cup Removing \cup QuerySteps

\* An index has been read and its changed copy is not stored yet.
WriteBack == {"remove_clear", "remove_put", "insert_clear", "insert_put"}
Loop == {"remove", "insert"} \cup WriteBack

ItemsOf(f) == {e \in Entries : f \in DOMAIN e.fields}

FieldsOf(x) == IF x = NoEntry THEN {} ELSE DOMAIN x.fields

\* What each step knows of the request, the item and the copy at hand.
WorkerOK(p) ==
    /\ pc[p] = "idle" <=> request[p] = NoRequest
    /\ pc[p] \in PutSteps => request[p] \in PutRequests
    /\ pc[p] \in {"lookup"} \cup Removing => request[p] \in PutRequests \cup DeleteRequests
    /\ pc[p] \in QuerySteps => request[p] \in QueryRequests
    /\ pc[p] \in Inserting => item[p] = request[p].entry
    /\ pc[p] \in Loop => todo[p] \subseteq FieldsOf(item[p])
    /\ pc[p] \in WriteBack => field[p] \in FieldsOf(item[p]) /\ copy[p] \subseteq ItemsOf(field[p])
    /\ pc[p] = "fetch" => todo[p] \subseteq Entries

StoreOK ==
    /\ block \in [Cids -> Entries \cup {NoEntry}]
    /\ index \in [Fields -> (SUBSET Entries) \cup {NoBlock}]
    /\ \A f \in Fields : Get(index[f]) \subseteq ItemsOf(f)
    /\ lookup \in (SUBSET Entries) \cup {NoBlock}
    /\ settled \in [Cids -> Entries \cup {NoEntry}]

LocalOK ==
    /\ pc \in [Workers -> Steps]
    /\ request \in [Workers -> Requests \cup {NoRequest}]
    /\ item \in [Workers -> Entries \cup {NoEntry}]
    /\ todo \in [Workers -> SUBSET (Fields \cup Entries)]
    /\ field \in [Workers -> Fields \cup {NoEntry}]
    /\ copy \in [Workers -> SUBSET Entries]
    /\ found \in [Workers -> SUBSET Entries]

TypeInv == StoreOK /\ LocalOK /\ \A p \in Workers : WorkerOK(p)

\* The parts of an entry.
LEMMA EntryFacts ==
    ASSUME NEW e \in Entries
    PROVE  /\ e.cid \in Cids /\ DOMAIN e.fields \subseteq Fields /\ e # NoEntry
           /\ \A f \in DOMAIN e.fields : f \in Fields /\ e.fields[f] \in Values
BY EntriesAssumption

\* The parts of a request, kind by kind.
LEMMA RequestFacts ==
    ASSUME NEW r \in Requests
    PROVE  /\ r # NoRequest
           /\ r \in PutRequests => /\ r.kind = "put" /\ r.cid \in Cids
                                   /\ r.entry \in Entries /\ r.cid = r.entry.cid
           /\ r \in DeleteRequests => r.kind = "delete" /\ r.cid \in Cids
           /\ r \in QueryRequests => r.kind = "query" /\ r.field \in Fields /\ r.value \in Values
BY EntriesAssumption, NamesAssumption DEF Requests, PutRequests, DeleteRequests, QueryRequests

\* A block read back is what was put; one that is missing is read as empty.
LEMMA GetFacts ==
    ASSUME NEW b \in (SUBSET Entries) \cup {NoBlock}
    PROVE  /\ Get(b) \in SUBSET Entries
           /\ b # NoBlock => Get(b) = b
           /\ Get(NoBlock) = {}
           /\ \A S \in SUBSET Entries : Get(S) = S
BY NamesAssumption DEF Get

\* The first state is well typed.
LEMMA InitTypes == Init => TypeInv
<1> SUFFICES ASSUME Init PROVE TypeInv
  OBVIOUS
<1>1. StoreOK
  BY DEF Init, StoreOK, Get
<1>2. LocalOK
  BY DEF Init, LocalOK, Steps
<1>3. \A p \in Workers : WorkerOK(p)
  BY DEF Init, WorkerOK, PutSteps, Inserting, Removing, QuerySteps, Loop, WriteBack
<1> QED BY <1>1, <1>2, <1>3 DEF TypeInv

\* Returning to the caller keeps the types.
LEMMA AnswerTypes ==
    ASSUME TypeInv, StoreOK', NEW p \in Workers, NEW r, Answer(p, r)
    PROVE  TypeInv'
<1>1. LocalOK'
  BY DEF TypeInv, LocalOK, Answer, Steps
<1>2. ASSUME NEW q \in Workers PROVE WorkerOK(q)'
  <2>1. CASE q = p
    BY <2>1 DEF TypeInv, LocalOK, Answer, WorkerOK, PutSteps, Inserting, Removing, QuerySteps,
       Loop, WriteBack
  <2>2. CASE q # p
    BY <2>2 DEF TypeInv, LocalOK, Answer, WorkerOK
  <2> QED BY <2>1, <2>2
<1> QED BY <1>1, <1>2 DEF TypeInv

\* A step that changes the local state of p alone.
LEMMA LocalTypes ==
    ASSUME TypeInv, StoreOK', LocalOK', NEW p \in Workers, WorkerOK(p)',
           \A q \in Workers \ {p} :
             /\ pc'[q] = pc[q] /\ request'[q] = request[q] /\ item'[q] = item[q]
             /\ todo'[q] = todo[q] /\ field'[q] = field[q] /\ copy'[q] = copy[q]
    PROVE  TypeInv'
<1>1. ASSUME NEW q \in Workers \ {p} PROVE WorkerOK(q)'
  BY <1>1 DEF TypeInv, WorkerOK
<1> QED BY <1>1 DEF TypeInv

\* A new call keeps the types.
LEMMA StartTypes ==
    ASSUME TypeInv, NEW p \in Workers,
           \/ \E e \in Entries : StartPut(p, e)
           \/ \E c \in Cids : StartDelete(p, c)
           \/ \E f \in Fields, v \in Values : StartQuery(p, f, v)
    PROVE  TypeInv'
<1>1. ASSUME NEW r \in Requests, NEW l \in Steps,
             request' = [request EXCEPT ![p] = r], Goto(p, l), StoreOK',
             UNCHANGED <<item, todo, field, copy, found>>,
             \/ r \in PutRequests /\ l = "block_clear"
             \/ r \in DeleteRequests /\ l = "lookup"
             \/ r \in QueryRequests /\ l = "query"
      PROVE  TypeInv'
  <2>1. LocalOK'
    BY <1>1 DEF TypeInv, LocalOK, Goto
  <2>2. WorkerOK(p)'
    BY <1>1, RequestFacts DEF TypeInv, LocalOK, Goto, WorkerOK, PutSteps, Inserting, Removing,
       QuerySteps, Loop, WriteBack
  <2> QED BY <1>1, <2>1, <2>2, LocalTypes DEF TypeInv, LocalOK, Goto
<1>2. ASSUME NEW e \in Entries, StartPut(p, e) PROVE TypeInv'
  <2>1. StoreOK'
    BY <1>2, EntryFacts DEF TypeInv, StoreOK, StartPut, Unsettle, blocks
  <2>2. [kind |-> "put", cid |-> e.cid, entry |-> e] \in PutRequests
    BY DEF PutRequests
  <2> QED BY <1>1, <1>2, <2>1, <2>2, Zenon DEF StartPut, Requests, Steps, PutSteps
<1>3. ASSUME NEW c \in Cids, StartDelete(p, c) PROVE TypeInv'
  <2>1. StoreOK'
    BY <1>3 DEF TypeInv, StoreOK, StartDelete, Unsettle, blocks
  <2>2. [kind |-> "delete", cid |-> c] \in DeleteRequests
    BY DEF DeleteRequests
  <2> QED BY <1>1, <1>3, <2>1, <2>2, Zenon DEF StartDelete, Requests, Steps
<1>4. ASSUME NEW f \in Fields, NEW v \in Values, StartQuery(p, f, v) PROVE TypeInv'
  <2>1. StoreOK'
    BY <1>4 DEF TypeInv, StoreOK, StartQuery, blocks
  <2>2. [kind |-> "query", field |-> f, value |-> v] \in QueryRequests
    BY DEF QueryRequests
  <2> QED BY <1>1, <1>4, <2>1, <2>2, Zenon DEF StartQuery, Requests, Steps, QuerySteps
<1> QED BY <1>2, <1>3, <1>4

\* Deleting and writing the block of a message keeps the types.
LEMMA BlockTypes ==
    ASSUME TypeInv, NEW p \in Workers, ClearBlock(p) \/ PutBlock(p)
    PROVE  TypeInv'
<1>1. PICK r \in PutRequests : r = request[p]
  BY DEF TypeInv, WorkerOK, ClearBlock, PutBlock, PutSteps
<1>2. r \in Requests /\ r.cid \in Cids /\ r.entry \in Entries /\ r # NoRequest
  BY RequestFacts DEF Requests
<1>3. StoreOK'
  BY <1>1, <1>2 DEF TypeInv, StoreOK, ClearBlock, PutBlock, AfterPut, history
<1>4. LocalOK'
  BY DEF TypeInv, LocalOK, ClearBlock, PutBlock, Goto, local, Steps, PutSteps
<1>5. WorkerOK(p)'
  BY <1>1, <1>2 DEF TypeInv, LocalOK, WorkerOK, ClearBlock, PutBlock, Goto, local, PutSteps,
     Inserting, Removing, QuerySteps, Loop, WriteBack
<1> QED BY <1>3, <1>4, <1>5, LocalTypes DEF TypeInv, LocalOK, ClearBlock, PutBlock, Goto, local

\* Reading the reverse lookup keeps the types.
LEMMA LookupTypes ==
    ASSUME TypeInv, NEW p \in Workers, Lookup(p)
    PROVE  TypeInv'
<1>1. PICK x \in Entries \cup {NoEntry} : NextField(p, x)
  BY GetFacts DEF TypeInv, StoreOK, Lookup
<1>2. FieldsOf(x) \in SUBSET Fields
  BY EntryFacts DEF FieldsOf
<1>3. /\ item' = [item EXCEPT ![p] = x]
      /\ todo' = [todo EXCEPT ![p] = FieldsOf(x)]
      /\ pc' = [pc EXCEPT ![p] = "remove"]
      /\ UNCHANGED <<request, field, copy, found>>
      /\ pc[p] = "lookup"
  BY <1>1 DEF Lookup, NextField, Goto, FieldsOf
<1>4. StoreOK'
  BY DEF TypeInv, StoreOK, Lookup, blocks, history
<1>5. LocalOK'
  BY <1>2, <1>3 DEF TypeInv, LocalOK, Steps, Removing
<1>6. WorkerOK(p)'
  BY <1>2, <1>3 DEF TypeInv, LocalOK, WorkerOK, PutSteps, Inserting, Removing, QuerySteps, Loop,
     WriteBack
<1> QED BY <1>3, <1>4, <1>5, <1>6, LocalTypes DEF TypeInv, LocalOK

\* Loading, deleting and writing an index keeps the types.
LEMMA IndexBlockTypes ==
    ASSUME TypeInv, NEW p \in Workers, ReadIndex(p) \/ ClearIndex(p) \/ PutIndex(p)
    PROVE  TypeInv'
<1>1. /\ item[p] \in Entries \cup {NoEntry} /\ FieldsOf(item[p]) \subseteq Fields
      /\ todo[p] \subseteq FieldsOf(item[p])
  BY EntryFacts DEF TypeInv, LocalOK, WorkerOK, FieldsOf, ReadIndex, ClearIndex, PutIndex, Loop,
     WriteBack
<1>2. CASE ReadIndex(p)
  <2>1. PICK f \in todo[p] :
          /\ field' = [field EXCEPT ![p] = f]
          /\ todo' = [todo EXCEPT ![p] = @ \ {f}]
          /\ copy' = [copy EXCEPT ![p] =
               IF pc[p] = "remove" THEN IndexRemove(Get(index[f]), f, item[p])
                                   ELSE IndexInsert(Get(index[f]), f, item[p])]
    BY <1>2, Zenon DEF ReadIndex
  <2>2. f \in Fields /\ item[p] \in Entries /\ f \in DOMAIN item[p].fields
    BY <1>1, <2>1 DEF FieldsOf
  <2>3. PICK S \in SUBSET ItemsOf(f) : S = Get(index[f])
    BY <2>2 DEF TypeInv, StoreOK
  <2>4. copy'[p] \subseteq ItemsOf(f)
    BY <2>1, <2>2, <2>3 DEF IndexRemove, IndexInsert, ItemsOf, TypeInv, LocalOK
  <2>5. StoreOK'
    BY <1>2 DEF TypeInv, StoreOK, ReadIndex, blocks, history
  <2>6. \E C \in SUBSET Entries : copy' = [copy EXCEPT ![p] = C]
    BY <2>1, <2>4, Zenon DEF ItemsOf, TypeInv, LocalOK
  <2>7. LocalOK'
    BY <1>2, <2>1, <2>2, <2>6 DEF TypeInv, LocalOK, ReadIndex, Goto, Steps, Removing, PutSteps, Inserting
  <2>8. WorkerOK(p)'
    BY <1>1, <1>2, <2>1, <2>2, <2>4 DEF TypeInv, LocalOK, WorkerOK, ReadIndex, Goto, PutSteps,
       Inserting, Removing, QuerySteps, Loop, WriteBack, FieldsOf
  <2> QED BY <1>2, <2>1, <2>5, <2>7, <2>8, LocalTypes DEF TypeInv, LocalOK, ReadIndex, Goto
<1>3. CASE ClearIndex(p) \/ PutIndex(p)
  <2>1. /\ field[p] \in Fields /\ copy[p] \in SUBSET Entries /\ copy[p] \subseteq ItemsOf(field[p])
        /\ pc[p] \in WriteBack
    BY <1>1, <1>3, Zenon DEF ClearIndex, PutIndex, TypeInv, LocalOK, WorkerOK, WriteBack
  <2>2. StoreOK'
    <3>1. \E b \in (SUBSET Entries) \cup {NoBlock} :
            /\ index' = [index EXCEPT ![field[p]] = b]
            /\ Get(b) \subseteq ItemsOf(field[p])
      <4>1. CASE ClearIndex(p)
        BY <2>1, <4>1, GetFacts, Zenon DEF ClearIndex
      <4>2. CASE PutIndex(p) /\ Cardinality(copy[p]) <= IndexLimit
        <5>1. PICK b \in AfterPut(index[field[p]], copy[p], NoBlock) :
                index' = [index EXCEPT ![field[p]] = b]
          BY <4>2 DEF PutIndex
        <5>2. b = index[field[p]] \/ b = copy[p]
          BY DEF AfterPut
        <5>3. b \in (SUBSET Entries) \cup {NoBlock}
          BY <2>1, <5>2 DEF TypeInv, StoreOK
        <5>4. Get(b) \subseteq ItemsOf(field[p])
          <6>1. CASE b = index[field[p]]
            BY <2>1, <6>1 DEF TypeInv, StoreOK
          <6>2. CASE b = copy[p]
            BY <2>1, <6>2, GetFacts
          <6> QED BY <5>2, <6>1, <6>2
        <5> QED BY <5>1, <5>3, <5>4, Zenon
      <4>3. CASE PutIndex(p) /\ ~(Cardinality(copy[p]) <= IndexLimit)
        BY <2>1, <4>3 DEF PutIndex, TypeInv, StoreOK
      <4> QED BY <1>3, <4>1, <4>2, <4>3
    <3> QED BY <1>3, <2>1, <3>1 DEF TypeInv, StoreOK, ClearIndex, PutIndex, history
  <2>3. CASE UNCHANGED local
    <3>1. LocalOK' /\ (\A q \in Workers \ {p} : pc'[q] = pc[q])
      BY <1>3, <2>3 DEF TypeInv, LocalOK, ClearIndex, PutIndex, Goto, Answer, local, Steps, PutSteps,
         Inserting, Removing
    <3>2. \/ pc[p] \in {"remove_clear", "remove_put"} /\ pc'[p] \in {"remove_put", "remove", "idle"}
          \/ pc[p] \in {"insert_clear", "insert_put"} /\ pc'[p] \in {"insert_put", "insert", "idle"}
      BY <1>3 DEF TypeInv, LocalOK, ClearIndex, PutIndex, Goto, Answer
    <3>3. pc'[p] = "idle" => Answer(p, "error")
      BY <1>3, <2>1 DEF TypeInv, LocalOK, ClearIndex, PutIndex, Goto
    <3>4. pc'[p] # "idle" => WorkerOK(p)'
      BY <2>1, <2>3, <3>2 DEF TypeInv, LocalOK, WorkerOK, local, PutSteps,
         Inserting, Removing, QuerySteps, Loop, WriteBack
    <3>5. pc'[p] # "idle" => TypeInv'
      BY <2>2, <2>3, <3>1, <3>4, LocalTypes DEF local
    <3> QED BY <2>2, <3>3, <3>5, AnswerTypes
  <2>4. UNCHANGED local \/ Answer(p, "error")
    BY <1>3 DEF ClearIndex, PutIndex
  <2> QED BY <2>2, <2>3, <2>4, AnswerTypes
<1> QED BY <1>2, <1>3

\* The end of a removal keeps the types.
LEMMA RemovedTypes ==
    ASSUME TypeInv, NEW p \in Workers, Removed(p)
    PROVE  TypeInv'
<1>1. PICK r \in Requests : r = request[p] /\ r \in PutRequests \cup DeleteRequests
  BY Zenon DEF TypeInv, WorkerOK, Removed, Removing, Requests
<1>2. CASE request[p].kind = "put" /\ ~Answer(p, "ok")
  <2>1. r \in PutRequests /\ r.entry \in Entries /\ r # NoRequest
    BY <1>1, <1>2, RequestFacts
  <2>2. DOMAIN r.entry.fields \subseteq Fields /\ r.entry # NoEntry
    BY <2>1, EntryFacts
  <2>3. /\ pc' = [pc EXCEPT ![p] = "insert"]
        /\ item' = [item EXCEPT ![p] = r.entry]
        /\ todo' = [todo EXCEPT ![p] = DOMAIN r.entry.fields]
        /\ UNCHANGED <<block, index, lookup, settled, request, field, copy, found>>
    BY <1>1, <1>2 DEF Removed, Goto, history
  <2>4. StoreOK'
    BY <2>3 DEF TypeInv, StoreOK
  <2>5. LocalOK'
    BY <2>1, <2>2, <2>3 DEF TypeInv, LocalOK, Steps, PutSteps, Inserting
  <2>6. WorkerOK(p)'
    BY <1>1, <2>1, <2>2, <2>3 DEF TypeInv, LocalOK, WorkerOK, PutSteps, Inserting, Removing,
       QuerySteps, Loop, WriteBack, FieldsOf
  <2> QED BY <2>3, <2>4, <2>5, <2>6, LocalTypes DEF TypeInv, LocalOK
<1>3. CASE Answer(p, "ok")
  <2>1. StoreOK'
    BY <1>1, RequestFacts DEF TypeInv, StoreOK, Removed, history
  <2> QED BY <1>3, <2>1, AnswerTypes
<1> QED BY <1>2, <1>3 DEF Removed

\* Loading, deleting and writing the lookup of a message keeps the types.
LEMMA LookupBlockTypes ==
    ASSUME TypeInv, NEW p \in Workers, ReadLookup(p) \/ ClearLookup(p) \/ PutLookup(p)
    PROVE  TypeInv'
<1>1. PICK r \in Requests : r = request[p] /\ r \in PutRequests
  BY DEF TypeInv, WorkerOK, ReadLookup, ClearLookup, PutLookup, PutSteps, Inserting, Requests
<1>2. r.entry \in Entries /\ r.cid \in Cids /\ r # NoRequest /\ item[p] = r.entry
  BY <1>1, RequestFacts DEF TypeInv, WorkerOK, ReadLookup, ClearLookup, PutLookup, Inserting
<1>3. CASE ReadLookup(p)
  <2>1. PICK C \in SUBSET Entries : copy' = [copy EXCEPT ![p] = C]
    <3>1. PICK S \in SUBSET Entries : S = Get(lookup)
      BY GetFacts DEF TypeInv, StoreOK
    <3>2. LookupInsert(Get(lookup), item[p]) \in SUBSET Entries
      BY <1>2, <3>1 DEF LookupInsert
    <3> QED BY <1>3, <3>2, Zenon DEF ReadLookup
  <2>2. StoreOK'
    BY <1>3 DEF TypeInv, StoreOK, ReadLookup, blocks, history
  <2>3. LocalOK'
    BY <1>3, <2>1 DEF TypeInv, LocalOK, ReadLookup, Goto, Steps, PutSteps, Inserting
  <2>4. WorkerOK(p)'
    BY <1>1, <1>2, <1>3, Zenon DEF TypeInv, LocalOK, WorkerOK, ReadLookup, Goto, PutSteps, Inserting,
       Removing, QuerySteps, Loop, WriteBack
  <2> QED BY <1>3, <2>1, <2>2, <2>3, <2>4, LocalTypes DEF TypeInv, LocalOK, ReadLookup, Goto
<1>4. CASE ClearLookup(p)
  <2>1. StoreOK'
    BY <1>4 DEF TypeInv, StoreOK, ClearLookup, history
  <2>2. LocalOK'
    BY <1>4 DEF TypeInv, LocalOK, ClearLookup, Goto, Steps, PutSteps, Inserting, local
  <2>3. WorkerOK(p)'
    BY <1>1, <1>2, <1>4 DEF TypeInv, LocalOK, WorkerOK, ClearLookup, Goto, PutSteps, Inserting,
       Removing, QuerySteps, Loop, WriteBack, local
  <2> QED BY <1>4, <2>1, <2>2, <2>3, LocalTypes DEF TypeInv, LocalOK, ClearLookup, Goto, local
<1>5. CASE PutLookup(p)
  <2>1. lookup' \in (SUBSET Entries) \cup {NoBlock}
    BY <1>5 DEF TypeInv, StoreOK, LocalOK, PutLookup, AfterPut
  <2>2. settled' \in [Cids -> Entries \cup {NoEntry}]
    BY <1>1, <1>2, <1>5 DEF TypeInv, StoreOK, PutLookup, Settle
  <2>3. StoreOK'
    BY <1>5, <2>1, <2>2 DEF TypeInv, StoreOK, PutLookup
  <2> QED BY <1>5, <2>3, AnswerTypes DEF PutLookup
<1> QED BY <1>3, <1>4, <1>5, Zenon

\* The steps of a query keep the types.
LEMMA QueryTypes ==
    ASSUME TypeInv, NEW p \in Workers, Query(p) \/ FetchBlock(p) \/ QueryDone(p)
    PROVE  TypeInv'
<1>1. StoreOK'
  BY DEF TypeInv, StoreOK, Query, FetchBlock, QueryDone, blocks, history
<1>2. PICK r \in Requests : r = request[p] /\ r \in QueryRequests
  BY DEF TypeInv, WorkerOK, Query, FetchBlock, QueryDone, QuerySteps, Requests
<1>3. r.field \in Fields /\ r # NoRequest
  BY <1>2, RequestFacts
<1>4. CASE Query(p)
  <2>1. PICK T \in SUBSET Entries : todo' = [todo EXCEPT ![p] = T]
    <3>1. PICK S \in SUBSET Entries : S = Get(index[r.field])
      BY <1>3, GetFacts DEF TypeInv, StoreOK
    <3>2. Matches(Get(index[request[p].field]), request[p].field, request[p].value) \in SUBSET Entries
      BY <1>2, <3>1 DEF Matches
    <3> QED BY <1>4, <3>2, Zenon DEF Query
  <2>2. LocalOK'
    BY <1>4, <2>1 DEF TypeInv, LocalOK, Query, Goto, Steps, QuerySteps
  <2>3. WorkerOK(p)'
    BY <1>2, <1>3, <1>4, <2>1, Zenon DEF TypeInv, LocalOK, WorkerOK, Query, Goto, PutSteps, Inserting,
       Removing, QuerySteps, Loop, WriteBack
  <2> QED BY <1>1, <1>4, <2>1, <2>2, <2>3, LocalTypes, Zenon DEF TypeInv, LocalOK, Query, Goto
<1>5. CASE FetchBlock(p) /\ ~Answer(p, "error")
  <2>1. PICK x \in todo[p] :
          /\ block[x.cid] # NoEntry
          /\ found' = [found EXCEPT ![p] = @ \cup {block[x.cid]}]
          /\ todo' = [todo EXCEPT ![p] = @ \ {x}]
          /\ Goto(p, "fetch")
          /\ UNCHANGED <<request, item, field, copy>>
    BY <1>5, Zenon DEF FetchBlock
  <2>2. x \in Entries /\ block[x.cid] \in Entries
    BY <1>5, <2>1, EntryFacts, Zenon DEF TypeInv, StoreOK, WorkerOK, FetchBlock
  <2>3. LocalOK'
    BY <2>1, <2>2 DEF TypeInv, LocalOK, Goto, Steps, QuerySteps
  <2>4. WorkerOK(p)'
    BY <1>2, <1>3, <1>5, <2>1 DEF TypeInv, LocalOK, WorkerOK, FetchBlock, Goto, PutSteps, Inserting,
       Removing, QuerySteps, Loop, WriteBack
  <2> QED BY <1>1, <2>1, <2>3, <2>4, LocalTypes DEF TypeInv, LocalOK, Goto
<1>6. CASE \E a \in {"ok", "error"} : Answer(p, a)
  BY <1>1, <1>6, AnswerTypes
<1> QED BY <1>4, <1>5, <1>6 DEF QueryDone

\* Every reachable state is well typed.
LEMMA TypeInvariant == Spec => []TypeInv
<1>1. TypeInv /\ [Next]_vars => TypeInv'
  <2> SUFFICES ASSUME TypeInv, [Next]_vars PROVE TypeInv'
    OBVIOUS
  <2>1. CASE Next
    <3>1. PICK p \in Workers : \/ \E e \in Entries : StartPut(p, e)
                               \/ \E c \in Cids : StartDelete(p, c)
                               \/ \E f \in Fields, v \in Values : StartQuery(p, f, v)
                               \/ Operate(p)
      BY <2>1 DEF Next
    <3> QED BY <3>1, StartTypes, BlockTypes, LookupTypes, IndexBlockTypes, RemovedTypes,
               LookupBlockTypes, QueryTypes DEF Operate
  <2>2. CASE UNCHANGED vars
    <3>1. StoreOK' /\ LocalOK'
      BY <2>2 DEF vars, TypeInv, StoreOK, LocalOK
    <3>2. \A p \in Workers : WorkerOK(p)'
      BY <2>2 DEF vars, TypeInv, WorkerOK
    <3> QED BY <3>1, <3>2 DEF TypeInv
  <2> QED BY <2>1, <2>2
<1> QED BY <1>1, InitTypes, PTL DEF Spec

\* However many operations run at once, the blocks of the store stay well formed and
\* an operation changes only indexes that the item at hand has a value for.
THEOREM IndexTypes == Spec => []TypeOK
<1>1. TypeInv => TypeOK
  <2> SUFFICES ASSUME TypeInv PROVE TypeOK
    OBVIOUS
  <2>1. \A f \in Fields : Get(index[f]) \subseteq {e \in Entries : f \in DOMAIN e.fields}
    BY DEF TypeInv, StoreOK, ItemsOf
  <2>2. Get(lookup) \subseteq Entries
    BY GetFacts DEF TypeInv, StoreOK
  <2>3. ASSUME NEW p \in Workers
        PROVE  /\ pc[p] = "idle" <=> request[p] = NoRequest
               /\ item[p] \in Entries \cup {NoEntry}
               /\ found[p] \subseteq Entries
               /\ pc[p] \in {"remove", "insert"} =>
                    todo[p] \subseteq IF item[p] = NoEntry THEN {} ELSE DOMAIN item[p].fields
    BY <2>3 DEF TypeInv, LocalOK, WorkerOK, Loop, FieldsOf
  <2> QED BY <2>1, <2>2, <2>3 DEF TypeOK, TypeInv, StoreOK
<1> QED BY <1>1, TypeInvariant, PTL

-----------------------------------------------------------------------------
(* The indexes, when operations do not overlap                             *)

\* Operations are carried out one after the other.
OneAtATime == \E w : Workers = {w}

\* An index with an item for each message fits its block.
IndexesFit == IsFiniteSet(Cids) /\ Cardinality(Cids) <= IndexLimit

Live(f, e) == settled[e.cid] = e /\ f \in DOMAIN e.fields

\* The index S of f is right for all messages but c.
RightBut(S, f, c) == \A e \in Entries : e.cid # c => (e \in S <=> Live(f, e))

\* The reverse lookup S has one item for a message, the latest if it was put.
LookupRight(S) ==
    /\ \A x, y \in S : x.cid = y.cid => x = y
    /\ \A c \in Cids : settled[c] # NoEntry => settled[c] \in S

\* The blocks of messages are those of what was put.
BlocksRight ==
    /\ \A c \in Cids : settled[c] # NoEntry => settled[c].cid = c /\ block[c] = settled[c]
    /\ contended = {}

\* No message is being changed.
RestInv ==
    /\ \A f \in Fields : \A e \in Entries : e \in Get(index[f]) <=> Live(f, e)
    /\ LookupRight(Get(lookup))

Before == {"block_clear", "block_put", "lookup"}

\* The copy of the index of f at hand is the one to be stored.
CopyRight(p, c, f) ==
    /\ f \notin todo[p]
    /\ RightBut(copy[p], f, c)
    /\ pc[p] \in Removing => \A e \in copy[p] : e.cid # c
    /\ pc[p] \in Inserting => \A e \in Entries : e.cid = c => (e \in copy[p] <=> e = item[p])
    /\ pc[p] \in {"remove_put", "insert_put"} => index[f] = NoBlock

\* The index of f is as it should be at this step.
IndexRight(p, c, f) ==
    /\ RightBut(Get(index[f]), f, c)
    /\ pc[p] \in Before => \A e \in Get(index[f]) : e.cid = c => e \in Get(lookup)
    /\ pc[p] \in Removing => \A e \in Get(index[f]) : e.cid = c => e = item[p] /\ f \in todo[p]
    /\ pc[p] \in Inserting => \A e \in Entries : e.cid = c =>
         (e \in Get(index[f]) <=> e = item[p] /\ f \in DOMAIN e.fields /\ f \notin todo[p])

\* The message c is being changed.
ChangeInv(p, c) ==
    /\ settled[c] = NoEntry
    /\ \A f \in Fields : IF pc[p] \in WriteBack /\ f = field[p] THEN CopyRight(p, c, f)
                                                                ELSE IndexRight(p, c, f)
    /\ pc[p] \in Removing /\ item[p] # NoEntry => item[p].cid = c
    /\ pc[p] # "lookup_put" => LookupRight(Get(lookup))
    /\ pc[p] \in {"lookup_clear", "lookup_put"} =>
         todo[p] = {} /\ LookupRight(copy[p]) /\ item[p] \in copy[p]
    /\ pc[p] = "lookup_put" => lookup = NoBlock
    /\ pc[p] = "block_put" => block[c] = NoEntry
    /\ pc[p] \notin {"block_clear", "block_put"} /\ request[p].kind = "put"
         => block[c] = request[p].entry

\* What a query has found, and has left to fetch.
QueryInv(p) ==
    /\ pc[p] = "query" => \A e \in Entries :
         e \in expected[p] <=> Live(request[p].field, e) /\ e.fields[request[p].field] = request[p].value
    /\ pc[p] = "fetch" => \A e \in Entries :
         /\ e \in expected[p] <=> e \in todo[p] \/ e \in found[p]
         /\ e \in todo[p] => settled[e.cid] = e

Resting == {"idle"} \cup QuerySteps

ExactInv ==
    /\ BlocksRight
    /\ expected \in [Workers -> SUBSET Entries]
    /\ \A p \in Workers :
         /\ pc[p] \in Resting => RestInv
         /\ pc[p] \notin Resting => \A c \in Cids : c = request[p].cid => ChangeInv(p, c)
         /\ QueryInv(p)

\* The empty store is exact.
LEMMA InitExact == Init => ExactInv
<1> SUFFICES ASSUME Init PROVE ExactInv
  OBVIOUS
<1>1. BlocksRight
  BY DEF Init, BlocksRight
<1>2. RestInv
  BY EntryFacts DEF Init, RestInv, Get, Live, LookupRight
<1> QED BY <1>1, <1>2 DEF Init, ExactInv, QueryInv, Resting

\* The state of the one operation is all there is.
LEMMA OneExact ==
    ASSUME OneAtATime, NEW p \in Workers,
           BlocksRight', expected' \in [Workers -> SUBSET Entries],
           pc'[p] \in Resting => RestInv',
           pc'[p] \notin Resting => \E c \in Cids : c = request'[p].cid /\ ChangeInv(p, c)',
           QueryInv(p)'
    PROVE  ExactInv'
<1> SUFFICES ASSUME NEW q \in Workers
             PROVE  /\ pc'[q] \in Resting => RestInv'
                    /\ pc'[q] \notin Resting =>
                         \A c \in Cids : c = request'[q].cid => ChangeInv(q, c)'
                    /\ QueryInv(q)'
  BY DEF ExactInv
<1>1. q = p
  BY DEF OneAtATime
<1> QED BY <1>1

\* A put or a delete starts.
LEMMA StartChangeExact ==
    ASSUME TypeInv, TypeInv', ExactInv, OneAtATime, NEW p \in Workers, NEW c \in Cids, Unsettle(p, c),
           pc[p] = "idle", pc'[p] \in {"block_clear", "lookup"}, request'[p].cid = c,
           pc'[p] = "lookup" => request'[p].kind = "delete",
           UNCHANGED blocks
    PROVE  ExactInv'
<1>1. BlocksRight /\ RestInv /\ expected \in [Workers -> SUBSET Entries]
  BY DEF ExactInv, Resting
<1>2. settled' = [settled EXCEPT ![c] = NoEntry] /\ settled \in [Cids -> Entries \cup {NoEntry}]
  BY DEF Unsettle, TypeInv, StoreOK
<1>3. contended' = {}
  <2>1. {q \in Workers : pc[q] \notin {"idle", "query", "fetch"} /\ request[q].cid = c} = {}
    BY DEF OneAtATime
  <2> QED BY <1>1, <2>1 DEF Unsettle, BlocksRight
<1>4. BlocksRight'
  BY <1>1, <1>2, <1>3 DEF BlocksRight, blocks
<1>5. expected' \in [Workers -> SUBSET Entries]
  BY <1>1 DEF Unsettle
<1>6. LookupRight(Get(lookup))'
  BY <1>1, <1>2 DEF RestInv, LookupRight, blocks
<1>7. ASSUME NEW f \in Fields PROVE IndexRight(p, c, f)'
  <2>1. PICK S \in SUBSET Entries : S = Get(index[f]) /\ S = Get(index'[f])
    BY GetFacts DEF TypeInv, StoreOK, blocks
  <2>2. \A e \in Entries : e \in S <=> Live(f, e)
    BY <1>1, <2>1, Zenon DEF RestInv
  <2>3. \A e \in S : e.cid = c => e \in Get(lookup)
    BY <1>1, <2>2, EntryFacts DEF RestInv, LookupRight, Live
  <2>4. \A e \in Entries : e.cid # c => (e \in S <=> Live(f, e)')
    BY <1>2, <2>2, EntryFacts DEF Live
  <2> QED BY <2>1, <2>3, <2>4 DEF IndexRight, RightBut, blocks, Removing, Inserting
<1>8. ChangeInv(p, c)'
  BY <1>2, <1>6, <1>7, Zenon DEF ChangeInv, WriteBack, Removing
<1>9. QueryInv(p)'
  BY Zenon DEF QueryInv
<1> QED BY <1>4, <1>5, <1>8, <1>9, OneExact DEF Resting, QuerySteps

\* A new call begins with the store at rest.
LEMMA StartExact ==
    ASSUME TypeInv, TypeInv', ExactInv, OneAtATime, NEW p \in Workers,
           \/ \E e \in Entries : StartPut(p, e)
           \/ \E c \in Cids : StartDelete(p, c)
           \/ \E f \in Fields, v \in Values : StartQuery(p, f, v)
    PROVE  ExactInv'
<1>1. ASSUME NEW e \in Entries, StartPut(p, e) PROVE ExactInv'
  <2>1. /\ e.cid \in Cids /\ Unsettle(p, e.cid) /\ pc[p] = "idle" /\ pc'[p] = "block_clear"
        /\ request'[p].cid = e.cid /\ UNCHANGED blocks
    BY <1>1, EntryFacts DEF StartPut, Goto, TypeInv, LocalOK
  <2> QED BY <2>1, StartChangeExact, Zenon
<1>2. ASSUME NEW c \in Cids, StartDelete(p, c) PROVE ExactInv'
  <2>1. /\ Unsettle(p, c) /\ pc[p] = "idle" /\ pc'[p] = "lookup"
        /\ request'[p].cid = c /\ request'[p].kind = "delete" /\ UNCHANGED blocks
    BY <1>2, Zenon DEF StartDelete, Goto, TypeInv, LocalOK
  <2> QED BY <2>1, StartChangeExact, Zenon
<1>3. ASSUME NEW f \in Fields, NEW v \in Values, StartQuery(p, f, v) PROVE ExactInv'
  <2>1. /\ pc[p] = "idle" /\ pc'[p] = "query" /\ request'[p].field = f /\ request'[p].value = v
        /\ UNCHANGED <<block, index, lookup, settled, contended>>
    BY <1>3 DEF StartQuery, Goto, TypeInv, LocalOK, blocks
  <2>2. BlocksRight' /\ RestInv'
    BY <2>1, Zenon DEF ExactInv, Resting, BlocksRight, RestInv, LookupRight, Live
  <2>3. expected'[p] = {e \in Entries : settled[e.cid] = e /\ f \in DOMAIN e.fields /\ e.fields[f] = v}
    <3>1. expected' = [expected EXCEPT ![p] =
            {e \in Entries : settled[e.cid] = e /\ f \in DOMAIN e.fields /\ e.fields[f] = v}]
      BY <1>3, Zenon DEF StartQuery
    <3> QED BY <3>1 DEF ExactInv
  <2>4. QueryInv(p)'
    BY <2>1, <2>3, Zenon DEF QueryInv, Live
  <2>5. expected' \in [Workers -> SUBSET Entries]
    BY <1>3, Zenon DEF StartQuery, ExactInv
  <2> QED BY <2>1, <2>2, <2>4, <2>5, OneExact, Zenon DEF Resting, QuerySteps
<1> QED BY <1>1, <1>2, <1>3

\* A worker that is neither idle nor querying is changing one message.
LEMMA Changing ==
    ASSUME TypeInv, ExactInv, NEW p \in Workers, pc[p] \notin Resting
    PROVE  \E c \in Cids : c = request[p].cid /\ ChangeInv(p, c)
<1>1. request[p] \in PutRequests \cup DeleteRequests
  BY DEF TypeInv, LocalOK, WorkerOK, Steps, Resting, QuerySteps
<1>2. request[p].cid \in Cids
  BY <1>1, RequestFacts, Zenon DEF Requests
<1> QED BY <1>2 DEF ExactInv

\* A step in the middle of a change.
LEMMA ChangeExact ==
    ASSUME ExactInv, OneAtATime, NEW p \in Workers, NEW c \in Cids, c = request[p].cid,
           request' = request, pc'[p] \notin Resting, UNCHANGED history,
           \A d \in Cids : d # c => block'[d] = block[d],
           ChangeInv(p, c), ChangeInv(p, c)'
    PROVE  ExactInv'
<1>1. BlocksRight'
  BY ZenonT(30) DEF ExactInv, BlocksRight, ChangeInv, history
<1>2. QueryInv(p)'
  BY Zenon DEF QueryInv, Resting, QuerySteps
<1> QED BY <1>1, <1>2, OneExact DEF ExactInv, history

\* A put takes the block of its message out and puts the new one in.
LEMMA BlockExact ==
    ASSUME TypeInv, TypeInv', ExactInv, OneAtATime, NEW p \in Workers,
           ClearBlock(p) \/ PutBlock(p)
    PROVE  ExactInv'
<1>1. PICK c \in Cids : c = request[p].cid /\ ChangeInv(p, c)
  BY Changing DEF ClearBlock, PutBlock, Resting, QuerySteps
<1>2. /\ UNCHANGED <<index, lookup, request, settled>>
      /\ \/ pc[p] = "block_clear" /\ pc'[p] = "block_put" /\ block' = [block EXCEPT ![c] = NoEntry]
         \/ pc[p] = "block_put" /\ pc'[p] = "lookup" /\ block' = [block EXCEPT ![c] = request[p].entry]
  BY <1>1, Zenon DEF ClearBlock, PutBlock, Goto, local, history, TypeInv, LocalOK, AfterPut, ChangeInv
<1>3. ASSUME NEW f \in Fields PROVE IndexRight(p, c, f)'
  <2>1. IndexRight(p, c, f)
    BY <1>1, <1>2, Zenon DEF ChangeInv, WriteBack
  <2> QED BY <1>2, <2>1, Zenon DEF IndexRight, RightBut, Live, Before, Removing, Inserting
<1>4. ChangeInv(p, c)'
  BY <1>1, <1>2, <1>3, Zenon DEF ChangeInv, WriteBack, LookupRight, TypeInv, StoreOK, Removing
<1> QED BY <1>1, <1>2, <1>4, ChangeExact, Zenon DEF ClearBlock, PutBlock, local, history, Resting, QuerySteps,
           TypeInv, StoreOK

\* The values to remove are those the reverse lookup has.
LEMMA LookupExact ==
    ASSUME TypeInv, TypeInv', ExactInv, OneAtATime, NEW p \in Workers, Lookup(p)
    PROVE  ExactInv'
<1>1. PICK c \in Cids : c = request[p].cid /\ ChangeInv(p, c)
  BY Changing, Zenon DEF Lookup, Resting, QuerySteps
<1>2. PICK L \in SUBSET Entries : L = Get(lookup)
  BY GetFacts DEF TypeInv, StoreOK
<1>3. PICK x \in Entries \cup {NoEntry} :
        /\ NextField(p, x)
        /\ IF x = NoEntry THEN \A y \in L : y.cid # c ELSE x \in L /\ x.cid = c
  BY <1>1, <1>2, EntryFacts DEF Lookup
<1>4. /\ pc[p] = "lookup" /\ pc'[p] = "remove" /\ item'[p] = x /\ todo'[p] = FieldsOf(x)
      /\ UNCHANGED <<block, index, lookup, request, settled>>
  BY <1>3, Zenon DEF Lookup, NextField, Goto, FieldsOf, blocks, history, TypeInv, LocalOK
<1>5. ASSUME NEW f \in Fields PROVE IndexRight(p, c, f)'
  <2>1. IndexRight(p, c, f)
    BY <1>1, <1>4 DEF ChangeInv, WriteBack
  <2>2. PICK S \in SUBSET ItemsOf(f) : S = Get(index[f])
    BY DEF TypeInv, StoreOK
  <2>3. ASSUME NEW e \in S, e.cid = c PROVE e = x /\ f \in FieldsOf(x)
    <3>1. e \in L
      BY <1>2, <1>4, <2>1, <2>2, <2>3, Zenon DEF IndexRight, Before
    <3>2. e = x
      BY <1>1, <1>2, <1>3, <1>4, <2>3, <3>1, Zenon DEF ChangeInv, LookupRight
    <3> QED BY <2>2, <3>2, EntryFacts DEF ItemsOf, FieldsOf
  <2> QED BY <1>4, <2>1, <2>2, <2>3, Zenon DEF IndexRight, RightBut, Live, Before, Inserting
<1>6. ChangeInv(p, c)'
  BY <1>1, <1>3, <1>4, <1>5, Zenon DEF ChangeInv, WriteBack, LookupRight
<1> QED BY <1>1, <1>4, <1>6, ChangeExact, Zenon DEF Lookup, history, Resting, QuerySteps

\* The copy of an index that is read is changed as it should be.
LEMMA ReadIndexExact ==
    ASSUME TypeInv, TypeInv', ExactInv, OneAtATime, NEW p \in Workers, ReadIndex(p)
    PROVE  ExactInv'
<1>1. PICK c \in Cids : c = request[p].cid /\ ChangeInv(p, c)
  BY Changing, Zenon DEF ReadIndex, Resting, QuerySteps
<1>2. PICK f \in todo[p] :
        /\ field' = [field EXCEPT ![p] = f]
        /\ todo' = [todo EXCEPT ![p] = @ \ {f}]
        /\ copy' = [copy EXCEPT ![p] =
             IF pc[p] = "remove" THEN IndexRemove(Get(index[f]), f, item[p])
                                 ELSE IndexInsert(Get(index[f]), f, item[p])]
  BY Zenon DEF ReadIndex
<1>3. /\ UNCHANGED <<block, index, lookup, request, item, settled>>
      /\ \/ pc[p] = "remove" /\ pc'[p] = "remove_clear"
         \/ pc[p] = "insert" /\ pc'[p] = "insert_clear"
      /\ field'[p] = f /\ todo'[p] = todo[p] \ {f}
  BY <1>2, Zenon DEF ReadIndex, Goto, blocks, history, TypeInv, LocalOK
<1>4. f \in Fields /\ item[p] \in Entries /\ f \in DOMAIN item[p].fields
  <2>1. f \in FieldsOf(item[p]) /\ item[p] \in Entries \cup {NoEntry}
    BY <1>2, <1>3, Zenon DEF TypeInv, LocalOK, WorkerOK, Loop
  <2>2. item[p] \in Entries /\ f \in DOMAIN item[p].fields
    BY <2>1, Zenon DEF FieldsOf
  <2> QED BY <2>2, EntryFacts, Zenon
<1>5. \A g \in Fields : IndexRight(p, c, g)
  BY <1>1, <1>3, Zenon DEF ChangeInv, WriteBack
<1>6. ASSUME NEW g \in Fields, g # f PROVE IndexRight(p, c, g)'
  BY <1>3, <1>5, <1>6, Zenon DEF IndexRight, RightBut, Live, Before, Removing, Inserting
<1>7. CopyRight(p, c, f)'
  <2>1. PICK S \in SUBSET ItemsOf(f) : S = Get(index[f])
    BY <1>4, Zenon DEF TypeInv, StoreOK
  <2>2. PICK x \in Entries : x = item[p] /\ f \in DOMAIN x.fields
    BY <1>4, Zenon
  <2>3. RightBut(S, f, c)
    BY <1>4, <1>5, <2>1, Zenon DEF IndexRight
  <2>4. CASE pc[p] = "remove"
    <3>1. copy'[p] = IndexRemove(S, f, x)
      BY <1>2, <2>1, <2>2, <2>4 DEF TypeInv, LocalOK
    <3>2. x.cid = c /\ \A e \in S : e.cid = c => e = x
      BY <1>1, <1>4, <1>5, <2>1, <2>2, <2>4, EntryFacts, Zenon DEF ChangeInv, IndexRight, Removing
    <3>3. \A e \in Entries : e \in copy'[p] <=> e \in S /\ e.cid # c
      BY <2>1, <3>1, <3>2 DEF IndexRemove
    <3>4. copy'[p] \subseteq Entries
      BY DEF TypeInv, LocalOK
    <3> QED BY <1>3, <2>3, <2>4, <3>3, <3>4 DEF CopyRight, RightBut, Live, Inserting
  <2>5. CASE pc[p] = "insert"
    <3>1. copy'[p] = IndexRemove(S, f, x) \cup {x}
      BY <1>2, <2>1, <2>2, <2>5 DEF TypeInv, LocalOK, IndexInsert
    <3>2. x.cid = c
      BY <1>1, <2>2, <2>5, RequestFacts, Zenon DEF TypeInv, WorkerOK, Inserting, PutSteps, Requests
    <3>3. \A e \in S : e.cid # c
      BY <1>2, <1>4, <1>5, <2>1, <2>5, Zenon DEF IndexRight, Inserting, ItemsOf
    <3>4. \A e \in Entries : e \in copy'[p] <=> e \in S \/ e = x
      BY <2>1, <3>1, <3>2, <3>3, Zenon DEF IndexRemove
    <3> QED BY <1>3, <2>2, <2>3, <2>5, <3>2, <3>3, <3>4 DEF CopyRight, RightBut, Live, Removing
  <2> QED BY <1>3, <2>4, <2>5, Zenon
<1>8. ChangeInv(p, c)'
  BY <1>1, <1>3, <1>6, <1>7, Zenon DEF ChangeInv, WriteBack, LookupRight, Removing
<1> QED BY <1>1, <1>3, <1>8, ChangeExact, Zenon DEF ReadIndex, history, Resting, QuerySteps

\* As many entries as there are message ids fit into an index.
LEMMA Fits ==
    ASSUME IndexesFit, NEW S \in SUBSET Entries, \A x, y \in S : x.cid = y.cid => x = y
    PROVE  Cardinality(S) <= IndexLimit
<1> DEFINE g == [x \in S |-> x.cid]
<1>1. g \in Injection(S, Cids)
  BY EntryFacts DEF Injection, IsInjective
<1>2. IsFiniteSet(S) /\ Cardinality(S) <= Cardinality(Cids)
  BY <1>1, FS_Injection DEF IndexesFit
<1>3. Cardinality(S) \in Nat /\ Cardinality(Cids) \in Nat /\ IndexLimit \in Nat
  BY <1>2, FS_CardinalityType, EntriesAssumption DEF IndexesFit
<1> QED BY <1>2, <1>3 DEF IndexesFit

\* Deleting an index before it is written again keeps ExactInv.
LEMMA ClearIndexExact ==
    ASSUME TypeInv, TypeInv', ExactInv, OneAtATime, NEW p \in Workers, ClearIndex(p)
    PROVE  ExactInv'
<1>1. PICK c \in Cids : c = request[p].cid /\ ChangeInv(p, c)
  BY Changing, Zenon DEF ClearIndex, Resting, QuerySteps
<1>2. PICK f \in Fields : f = field[p]
  BY EntryFacts DEF ClearIndex, TypeInv, LocalOK, WorkerOK, WriteBack, FieldsOf
<1>3. /\ UNCHANGED <<block, lookup, request, item, todo, field, copy, settled>>
      /\ index' = [index EXCEPT ![f] = NoBlock]
      /\ \/ pc[p] = "remove_clear" /\ pc'[p] = "remove_put"
         \/ pc[p] = "insert_clear" /\ pc'[p] = "insert_put"
  BY <1>2 DEF ClearIndex, Goto, local, history, TypeInv, LocalOK
<1>4. CopyRight(p, c, f)'
  <2>1. CopyRight(p, c, f)
    BY <1>1, <1>2, <1>3, Zenon DEF ChangeInv, WriteBack
  <2> QED BY <1>3, <2>1 DEF CopyRight, RightBut, Live, Removing, Inserting, TypeInv, StoreOK
<1>5. ASSUME NEW g \in Fields, g # f PROVE IndexRight(p, c, g)'
  <2>1. IndexRight(p, c, g)
    BY <1>1, <1>2, <1>5, Zenon DEF ChangeInv
  <2>2. index'[g] = index[g]
    BY <1>3, <1>5, Zenon DEF TypeInv, StoreOK
  <2> QED BY <1>3, <2>1, <2>2, Zenon DEF IndexRight, RightBut, Live, Before, Removing, Inserting
<1>6. ChangeInv(p, c)'
  BY <1>1, <1>2, <1>3, <1>4, <1>5, Zenon DEF ChangeInv, WriteBack, LookupRight, Removing
<1> QED BY <1>1, <1>3, <1>6, ChangeExact, Zenon DEF ClearIndex, history, Resting, QuerySteps

\* The copy fits its block and is stored in place of the block that was read.
LEMMA PutIndexExact ==
    ASSUME TypeInv, TypeInv', ExactInv, OneAtATime, IndexesFit, NEW p \in Workers, PutIndex(p)
    PROVE  ExactInv'
<1>1. PICK c \in Cids : c = request[p].cid /\ ChangeInv(p, c)
  BY Changing, Zenon DEF PutIndex, Resting, QuerySteps
<1>2. PICK f \in Fields : f = field[p]
  <2>1. field[p] \in FieldsOf(item[p]) /\ item[p] \in Entries \cup {NoEntry}
    BY Zenon DEF PutIndex, TypeInv, LocalOK, WorkerOK, WriteBack
  <2>2. item[p] \in Entries /\ field[p] \in DOMAIN item[p].fields
    BY <2>1, Zenon DEF FieldsOf
  <2> QED BY <2>2, EntryFacts, Zenon
<1>3. PICK S \in SUBSET Entries : S = copy[p] /\ S \subseteq ItemsOf(f)
  BY <1>2 DEF PutIndex, TypeInv, LocalOK, WorkerOK, WriteBack
<1>4. CopyRight(p, c, f) /\ index[f] = NoBlock
  BY <1>1, <1>2, Zenon DEF PutIndex, ChangeInv, WriteBack, CopyRight
<1>5. Cardinality(S) <= IndexLimit
  <2>1. \A x, y \in S : x.cid = y.cid => x = y
    <3>1. \A e \in S : e.cid # c => e = settled[e.cid]
      BY <1>3, <1>4, Zenon DEF CopyRight, RightBut, Live
    <3>2. pc[p] \in Removing \/ pc[p] \in Inserting
      BY Zenon DEF PutIndex, Removing, Inserting
    <3>3. \A e \in S : e.cid = c => e = item[p]
      BY <1>3, <1>4, <3>2, Zenon DEF CopyRight
    <3> TAKE x, y \in S
    <3> HAVE x.cid = y.cid
    <3>4. CASE x.cid = c
      BY <3>3, <3>4, Zenon
    <3>5. CASE x.cid # c
      BY <3>1, <3>5, Zenon
    <3> QED BY <3>4, <3>5, Zenon
  <2> QED BY <2>1, Fits
<1>6. /\ UNCHANGED <<block, lookup, request, item, todo, field, copy, settled>>
      /\ index' = [index EXCEPT ![f] = S]
      /\ \/ pc[p] = "remove_put" /\ pc'[p] = "remove"
         \/ pc[p] = "insert_put" /\ pc'[p] = "insert"
  <2>1. p \in DOMAIN pc
    BY Zenon DEF TypeInv, LocalOK
  <2>2. AfterPut(index[f], S, NoBlock) = {S}
    BY <1>4, Zenon DEF AfterPut
  <2>3. UNCHANGED <<block, lookup, request, item, todo, field, copy, settled>>
    BY <1>3, <1>5, Zenon DEF PutIndex, local, history
  <2>4. index' = [index EXCEPT ![f] = S]
    BY <1>2, <1>3, <1>5, <2>2, Zenon DEF PutIndex
  <2>5. \/ pc[p] = "remove_put" /\ pc'[p] = "remove"
        \/ pc[p] = "insert_put" /\ pc'[p] = "insert"
    BY <1>3, <1>5, <2>1, Zenon DEF PutIndex, Goto
  <2> QED BY <2>3, <2>4, <2>5, Zenon
<1>7. Get(index'[f]) = S
  BY <1>6, GetFacts, Zenon DEF TypeInv, StoreOK
<1>8. IndexRight(p, c, f)'
  BY <1>3, <1>4, <1>6, <1>7, Zenon DEF CopyRight, IndexRight, RightBut, Live, Before, Removing, Inserting,
     ItemsOf
<1>9. ASSUME NEW g \in Fields, g # f PROVE IndexRight(p, c, g)'
  <2>1. IndexRight(p, c, g)
    BY <1>1, <1>2, <1>9, Zenon DEF ChangeInv
  <2>2. index'[g] = index[g]
    BY <1>6, <1>9, Zenon DEF TypeInv, StoreOK
  <2> QED BY <1>6, <2>1, <2>2, Zenon DEF IndexRight, RightBut, Live, Before, Removing, Inserting
<1>10. ChangeInv(p, c)'
  BY <1>1, <1>6, <1>8, <1>9, Zenon DEF ChangeInv, WriteBack, LookupRight, Removing
<1> QED BY <1>1, <1>6, <1>10, ChangeExact, Zenon DEF PutIndex, history, Resting, QuerySteps

\* The indexes are rid of the message: a put goes on, a delete is done.
LEMMA RemovedExact ==
    ASSUME TypeInv, TypeInv', ExactInv, OneAtATime, NEW p \in Workers, Removed(p)
    PROVE  ExactInv'
<1>1. PICK c \in Cids : c = request[p].cid /\ ChangeInv(p, c)
  BY Changing, Zenon DEF Removed, Resting, QuerySteps
<1>2. \A f \in Fields : /\ RightBut(Get(index[f]), f, c)
                        /\ \A e \in Get(index[f]) : e.cid # c
  BY <1>1, Zenon DEF Removed, ChangeInv, WriteBack, IndexRight, Removing
<1>3. CASE request[p].kind = "put"
  <2>1. /\ pc'[p] = "insert" /\ item'[p] = request[p].entry
        /\ todo'[p] = DOMAIN request[p].entry.fields
        /\ UNCHANGED <<block, index, lookup, request, settled>>
    BY <1>3, ZenonT(30) DEF Removed, Goto, TypeInv, LocalOK, history
  <2>2. ASSUME NEW f \in Fields PROVE IndexRight(p, c, f)'
    <3>1. \A e \in Entries : e.cid = c => e \notin Get(index[f])
      BY <1>2
    <3> QED BY <1>2, <2>1, <3>1, Zenon DEF IndexRight, RightBut, Live, Before, Removing
  <2>3. ChangeInv(p, c)'
    BY <1>1, <2>1, <2>2, Zenon DEF Removed, ChangeInv, WriteBack, LookupRight, Removing
  <2> QED BY <1>1, <2>1, <2>3, ChangeExact, Zenon DEF Removed, history, Resting, QuerySteps
<1>4. CASE request[p].kind = "delete"
  <2>1. /\ pc'[p] = "idle" /\ block' = [block EXCEPT ![c] = NoEntry]
        /\ UNCHANGED <<index, lookup, settled, expected, contended>>
    BY <1>1, <1>4, Zenon DEF Removed, Answer, TypeInv, LocalOK, history
  <2>2. BlocksRight'
    BY <1>1, <2>1, Zenon DEF ExactInv, BlocksRight, ChangeInv, TypeInv, StoreOK
  <2>3. \A f \in Fields : \A e \in Entries : e \in Get(index[f]) <=> Live(f, e)
    BY <1>1, <1>2, EntryFacts, Zenon DEF RightBut, ChangeInv, Live
  <2>4. RestInv'
    BY <1>1, <2>1, <2>3, Zenon DEF Removed, RestInv, ChangeInv, LookupRight, Live
  <2> QED BY <2>1, <2>2, <2>4, OneExact, Zenon DEF QueryInv, Resting, ExactInv
<1> QED BY <1>3, <1>4, Zenon DEF Removed

\* Loading and deleting the lookup before it is written again keeps ExactInv.
LEMMA ReadLookupExact ==
    ASSUME TypeInv, TypeInv', ExactInv, OneAtATime, NEW p \in Workers,
           ReadLookup(p) \/ ClearLookup(p)
    PROVE  ExactInv'
<1>1. PICK c \in Cids : c = request[p].cid /\ ChangeInv(p, c)
  BY Changing, Zenon DEF ReadLookup, ClearLookup, Resting, QuerySteps
<1>2. PICK x \in Entries : x = item[p] /\ x.cid = c
  BY <1>1, RequestFacts, Zenon DEF ReadLookup, ClearLookup, TypeInv, WorkerOK, Inserting, PutSteps, Requests
<1>3. CASE ReadLookup(p)
  <2>1. /\ UNCHANGED <<block, index, lookup, request, item, todo, field, settled>>
        /\ pc[p] = "insert" /\ pc'[p] = "lookup_clear" /\ todo[p] = {}
        /\ copy'[p] = LookupInsert(Get(lookup), x)
    BY <1>2, <1>3 DEF ReadLookup, Goto, blocks, history, TypeInv, LocalOK
  <2>2. PICK L \in SUBSET Entries : L = Get(lookup)
    BY GetFacts DEF TypeInv, StoreOK
  <2>3. LookupRight(L)
    BY <1>1, <2>1, <2>2, Zenon DEF ChangeInv
  <2>4. x \in copy'[p] /\ LookupRight(copy[p])'
    <3>1. copy'[p] = {y \in L : y.cid # c} \cup {x}
      BY <1>2, <2>1, <2>2, Zenon DEF LookupInsert
    <3>2. \A d \in Cids : settled[d] # NoEntry => d # c /\ settled[d].cid = d /\ settled[d] \in L
      BY <1>1, <2>3, Zenon DEF ExactInv, BlocksRight, ChangeInv, LookupRight
    <3>3. \A y, z \in L : y.cid = z.cid => y = z
      BY <2>3, Zenon DEF LookupRight
    <3>4. settled' = settled
      BY <2>1, Zenon
    <3> QED BY <1>2, <3>1, <3>2, <3>3, <3>4 DEF LookupRight
  <2>5. ASSUME NEW f \in Fields PROVE IndexRight(p, c, f)'
    <3>1. IndexRight(p, c, f)
      BY <1>1, <2>1, Zenon DEF ChangeInv, WriteBack
    <3> QED BY <2>1, <3>1, Zenon DEF IndexRight, RightBut, Live, Before, Removing, Inserting
  <2>6. ChangeInv(p, c)'
    BY <1>1, <1>2, <2>1, <2>4, <2>5, Zenon DEF ChangeInv, WriteBack, LookupRight, Removing
  <2> QED BY <1>1, <1>3, <2>1, <2>6, ChangeExact, Zenon DEF ReadLookup, history, Resting, QuerySteps
<1>4. CASE ClearLookup(p)
  <2>1. /\ UNCHANGED <<block, index, request, item, todo, field, copy, settled>>
        /\ pc[p] = "lookup_clear" /\ pc'[p] = "lookup_put" /\ lookup' = NoBlock
    BY <1>4, Zenon DEF ClearLookup, Goto, local, history, TypeInv, LocalOK
  <2>2. ASSUME NEW f \in Fields PROVE IndexRight(p, c, f)'
    <3>1. IndexRight(p, c, f)
      BY <1>1, <2>1, Zenon DEF ChangeInv, WriteBack
    <3> QED BY <2>1, <3>1, Zenon DEF IndexRight, RightBut, Live, Before, Removing, Inserting
  <2>3. ChangeInv(p, c)'
    BY <1>1, <2>1, <2>2, Zenon DEF ChangeInv, WriteBack, LookupRight, Removing
  <2> QED BY <1>1, <1>4, <2>1, <2>3, ChangeExact, Zenon DEF ClearLookup, history, Resting, QuerySteps
<1> QED BY <1>3, <1>4

\* The put is done.
LEMMA PutLookupExact ==
    ASSUME TypeInv, TypeInv', ExactInv, OneAtATime, IndexesFit, NEW p \in Workers, PutLookup(p)
    PROVE  ExactInv'
<1>1. PICK c \in Cids : c = request[p].cid /\ ChangeInv(p, c)
  BY Changing, Zenon DEF PutLookup, Resting, QuerySteps
<1>2. PICK x \in Entries : x = item[p] /\ x.cid = c /\ x = request[p].entry /\ request[p].kind = "put"
  BY <1>1, RequestFacts, ZenonT(30) DEF PutLookup, TypeInv, WorkerOK, Inserting, PutSteps, Requests
<1>3. PICK S \in SUBSET Entries : S = copy[p]
  BY DEF TypeInv, LocalOK
<1>4. LookupRight(S) /\ x \in S /\ lookup = NoBlock /\ todo[p] = {} /\ block[c] = x
  BY <1>1, <1>2, <1>3, Zenon DEF PutLookup, ChangeInv
<1>5. Cardinality(S) <= IndexLimit
  BY <1>4, Fits DEF LookupRight
<1>6. /\ pc'[p] = "idle" /\ lookup' = S /\ settled' = [settled EXCEPT ![c] = x]
      /\ UNCHANGED <<block, index, expected, contended>>
  BY <1>1, <1>2, <1>3, <1>4, <1>5 DEF PutLookup, Answer, Settle, AfterPut, TypeInv, LocalOK,
     ExactInv, BlocksRight
<1>7. \A d \in Cids : settled'[d] = IF d = c THEN x ELSE settled[d]
  BY <1>6 DEF TypeInv, StoreOK
<1>8. BlocksRight'
  BY <1>2, <1>4, <1>6, <1>7 DEF ExactInv, BlocksRight
<1>9. ASSUME NEW f \in Fields, NEW e \in Entries PROVE e \in Get(index[f]) <=> Live(f, e)'
  <2>1. IndexRight(p, c, f)
    BY <1>1, Zenon DEF PutLookup, ChangeInv, WriteBack
  <2>2. e.cid = c => (e \in Get(index[f]) <=> e = x /\ f \in DOMAIN e.fields)
    BY <1>2, <1>4, <2>1, Zenon DEF PutLookup, IndexRight, Inserting
  <2>3. e.cid # c => (e \in Get(index[f]) <=> Live(f, e))
    BY <2>1, Zenon DEF IndexRight, RightBut
  <2> QED BY <1>2, <1>7, <2>2, <2>3, EntryFacts DEF Live
<1>10. LookupRight(Get(lookup))'
  <2>1. Get(lookup') = S
    BY <1>6, GetFacts, Zenon
  <2> QED BY <1>4, <1>7, <2>1 DEF LookupRight
<1>11. RestInv'
  BY <1>6, <1>9, <1>10 DEF RestInv
<1> QED BY <1>6, <1>8, <1>11, OneExact, Zenon DEF QueryInv, Resting, ExactInv

\* Nothing is found before the items of a query are fetched.
NoneFound == \A p \in Workers : pc[p] # "fetch" => found[p] = {}

\* NoneFound always holds.
LEMMA NoneFoundYet == Spec => []NoneFound
<1>1. Init => NoneFound
  BY DEF Init, NoneFound
<1>2. TypeInv /\ NoneFound /\ [Next]_vars => NoneFound'
  <2> SUFFICES ASSUME TypeInv, NoneFound, [Next]_vars PROVE NoneFound'
    OBVIOUS
  <2>1. CASE UNCHANGED vars
    BY <2>1, Zenon DEF vars, NoneFound
  <2>2. CASE Next
    <3>1. PICK p \in Workers : \/ \E e \in Entries : StartPut(p, e)
                               \/ \E c \in Cids : StartDelete(p, c)
                               \/ \E f \in Fields, v \in Values : StartQuery(p, f, v)
                               \/ Operate(p)
      BY <2>2 DEF Next
    <3>2. CASE \E r \in {"ok", "error"} : Answer(p, r)
      BY <3>2, Zenon DEF NoneFound, Answer, TypeInv, LocalOK
    <3>3. CASE FetchBlock(p) /\ ~Answer(p, "error")
      BY <3>3 DEF FetchBlock, NoneFound, Goto, TypeInv, LocalOK
    <3>4. CASE pc[p] # "fetch" /\ found' = found /\ \E l \in Steps : Goto(p, l)
      BY <3>4 DEF NoneFound, Goto, TypeInv, LocalOK
    <3>5. Operate(p) \/ (pc[p] # "fetch" /\ found' = found /\ \E l \in Steps : Goto(p, l))
      BY <3>1, Zenon DEF StartPut, StartDelete, StartQuery, Steps, PutSteps, QuerySteps
    <3>6. Operate(p) => \/ \E r \in {"ok", "error"} : Answer(p, r)
                        \/ FetchBlock(p)
                        \/ pc[p] # "fetch" /\ found' = found /\ \E l \in Steps : Goto(p, l)
      BY Zenon DEF Operate, ClearBlock, PutBlock, Lookup, NextField, ReadIndex, ClearIndex, PutIndex,
         Removed, ReadLookup, ClearLookup, PutLookup, Query, QueryDone, local, Steps, PutSteps,
         Inserting, Removing, QuerySteps
    <3> QED BY <3>2, <3>3, <3>4, <3>5, <3>6
  <2> QED BY <2>1, <2>2
<1> QED BY <1>1, <1>2, TypeInvariant, PTL DEF Spec

\* A query changes nothing, and finds what the store holds.
LEMMA QueryExactly ==
    ASSUME TypeInv, TypeInv', ExactInv, NoneFound, OneAtATime, NEW p \in Workers,
           Query(p) \/ FetchBlock(p) \/ QueryDone(p)
    PROVE  ExactInv'
<1>1. UNCHANGED <<block, index, lookup, settled, expected, contended>>
  BY Zenon DEF Query, FetchBlock, QueryDone, blocks, history
<1>2. pc[p] \in QuerySteps /\ pc'[p] \in {"fetch", "idle"}
  BY Zenon DEF Query, FetchBlock, QueryDone, Goto, Answer, QuerySteps, TypeInv, LocalOK
<1>3. BlocksRight' /\ RestInv'
  BY <1>1, <1>2, Zenon DEF ExactInv, Resting, BlocksRight, RestInv, LookupRight, Live
<1>4. CASE Query(p)
  <2>1. PICK r \in QueryRequests : r = request[p] /\ r.field \in Fields
    BY <1>4, RequestFacts, Zenon DEF Query, TypeInv, WorkerOK, QuerySteps, Requests
  <2>2. PICK S \in SUBSET Entries : S = Get(index[r.field])
    BY <2>1, GetFacts DEF TypeInv, StoreOK
  <2>3. todo'[p] = {x \in S : x.fields[r.field] = r.value} /\ found' = found /\ pc[p] = "query"
    BY <1>4, <2>1, <2>2, Zenon DEF Query, Matches, TypeInv, LocalOK
  <2>4. \A e \in Entries : e \in S <=> Live(r.field, e)
    BY <1>2, <2>1, <2>2 DEF ExactInv, Resting, RestInv
  <2>5. found[p] = {}
    BY <2>3 DEF NoneFound
  <2>6. QueryInv(p)'
    BY <1>1, <1>2, <2>1, <2>3, <2>4, <2>5, Zenon DEF QueryInv, ExactInv, Live
  <2> QED BY <1>1, <1>2, <1>3, <2>6, OneExact, Zenon DEF ExactInv, Resting, QuerySteps
<1>5. CASE FetchBlock(p)
  <2>1. PICK x \in todo[p] :
         \/ block[x.cid] = NoEntry /\ Answer(p, "error")
         \/ /\ block[x.cid] # NoEntry
            /\ found' = [found EXCEPT ![p] = @ \cup {block[x.cid]}]
            /\ todo' = [todo EXCEPT ![p] = @ \ {x}]
            /\ Goto(p, "fetch")
    BY <1>5, Zenon DEF FetchBlock
  <2>2. x \in Entries /\ settled[x.cid] = x
    BY <1>5, <2>1, Zenon DEF FetchBlock, ExactInv, QueryInv, TypeInv, WorkerOK
  <2>3. block[x.cid] = x /\ x # NoEntry
    BY <2>2, EntryFacts DEF ExactInv, BlocksRight
  <2>4. found'[p] = found[p] \cup {x} /\ todo'[p] = todo[p] \ {x} /\ pc'[p] = "fetch"
    <3>1. /\ found' = [found EXCEPT ![p] = @ \cup {x}]
          /\ todo' = [todo EXCEPT ![p] = @ \ {x}]
          /\ pc' = [pc EXCEPT ![p] = "fetch"]
      BY <2>1, <2>3, Zenon DEF Goto
    <3>2. p \in DOMAIN found /\ p \in DOMAIN todo /\ p \in DOMAIN pc
      BY Zenon DEF TypeInv, LocalOK
    <3> QED BY <3>1, <3>2, Zenon
  <2>5. QueryInv(p)'
    BY <1>1, <1>5, <2>1, <2>2, <2>4, Zenon DEF QueryInv, ExactInv, FetchBlock
  <2> QED BY <1>1, <1>2, <1>3, <2>5, OneExact, Zenon DEF ExactInv, Resting, QuerySteps
<1>6. CASE QueryDone(p)
  <2>1. pc'[p] = "idle"
    BY <1>6, Zenon DEF QueryDone, Answer, TypeInv, LocalOK
  <2> QED BY <1>1, <1>3, <2>1, OneExact, Zenon DEF ExactInv, Resting, QuerySteps, QueryInv
<1> QED BY <1>4, <1>5, <1>6

\* With one call at a time and indexes within the limit, ExactInv always holds.
LEMMA IndexInvariant ==
    ASSUME OneAtATime, IndexesFit
    PROVE  Spec => []ExactInv
<1>1. TypeInv /\ TypeInv' /\ NoneFound /\ ExactInv /\ [Next]_vars => ExactInv'
  <2> SUFFICES ASSUME TypeInv, TypeInv', NoneFound, ExactInv, [Next]_vars PROVE ExactInv'
    OBVIOUS
  <2>1. CASE Next
    <3>1. PICK p \in Workers : \/ \E e \in Entries : StartPut(p, e)
                               \/ \E c \in Cids : StartDelete(p, c)
                               \/ \E f \in Fields, v \in Values : StartQuery(p, f, v)
                               \/ Operate(p)
      BY <2>1 DEF Next
    <3> QED BY <3>1, StartExact, BlockExact, LookupExact, ReadIndexExact, ClearIndexExact,
               PutIndexExact, RemovedExact, ReadLookupExact, PutLookupExact, QueryExactly DEF Operate
  <2>2. CASE UNCHANGED vars
    <3>1. BlocksRight' /\ (RestInv => RestInv') /\ \A p \in Workers : QueryInv(p)'
      BY <2>2, Zenon DEF vars, ExactInv, BlocksRight, RestInv, LookupRight, Live, QueryInv
    <3>2. ASSUME NEW p \in Workers, NEW c \in Cids, ChangeInv(p, c) PROVE ChangeInv(p, c)'
      <4>1. \A f \in Fields : /\ CopyRight(p, c, f) => CopyRight(p, c, f)'
                              /\ IndexRight(p, c, f) => IndexRight(p, c, f)'
        BY <2>2, Zenon DEF vars, CopyRight, IndexRight, RightBut, Live
      <4> QED BY <2>2, <3>2, <4>1, Zenon DEF vars, ChangeInv, LookupRight
    <3> QED BY <2>2, <3>1, <3>2, Zenon DEF vars, ExactInv
  <2> QED BY <2>1, <2>2
<1> QED BY <1>1, InitExact, TypeInvariant, NoneFoundYet, PTL DEF Spec

\* Between operations each index holds the messages put and not deleted, under
\* their latest values, and nothing else, as long as operations do not overlap and
\* the indexes fit their blocks.
THEOREM IndexesAreExact ==
    ASSUME OneAtATime, IndexesFit
    PROVE  Spec => []IndexExact
<1>1. TypeInv /\ ExactInv => IndexExact
  <2> SUFFICES ASSUME TypeInv, ExactInv, AllIdle, NEW f \in Fields
               PROVE  Get(index[f]) = {e \in Entries : settled[e.cid] = e /\ f \in DOMAIN e.fields}
    BY DEF IndexExact
  <2>1. Get(index[f]) \in SUBSET Entries
    BY GetFacts DEF TypeInv, StoreOK
  <2>2. RestInv
    BY DEF OneAtATime, AllIdle, ExactInv, Resting
  <2> QED BY <2>1, <2>2 DEF RestInv, Live
<1> QED BY <1>1, TypeInvariant, IndexInvariant, PTL

\* So a message that was put is found under each of its values.
THEOREM StoredAreFound ==
    ASSUME OneAtATime, IndexesFit
    PROVE  Spec => []StoredIsFound
<1>1. IndexExact => StoredIsFound
  BY EntryFacts DEF IndexExact, StoredIsFound
<1> QED BY <1>1, IndexesAreExact, PTL

\* And a query returns exactly the messages put and not deleted that have the value
\* it asks for.
THEOREM QueriesAreExact ==
    ASSUME OneAtATime, IndexesFit
    PROVE  Spec => QueryExact
<1>1. TypeInv /\ ExactInv /\ [Next]_vars =>
        [\A p \in Workers : pc[p] = "fetch" /\ pc'[p] = "idle"
           => reply' = "ok" /\ found[p] = expected[p]]_vars
  <2> SUFFICES ASSUME TypeInv, ExactInv, Next, NEW p \in Workers, pc[p] = "fetch", pc'[p] = "idle"
               PROVE  reply' = "ok" /\ found[p] = expected[p]
    OBVIOUS
  <2>1. FetchBlock(p) \/ QueryDone(p)
    <3>1. PICK q \in Workers : \/ \E e \in Entries : StartPut(q, e)
                               \/ \E c \in Cids : StartDelete(q, c)
                               \/ \E f \in Fields, v \in Values : StartQuery(q, f, v)
                               \/ Operate(q)
      BY DEF Next
    <3>2. q = p
      BY DEF OneAtATime
    <3> QED BY <3>1, <3>2, Zenon DEF StartPut, StartDelete, StartQuery, Operate, ClearBlock, PutBlock, Lookup,
               ReadIndex, ClearIndex, PutIndex, Removed, ReadLookup, ClearLookup, PutLookup, Query
  <2>2. ~FetchBlock(p)
    <3> SUFFICES ASSUME FetchBlock(p) PROVE FALSE
      BY Zenon
    <3>1. PICK x \in todo[p] : block[x.cid] = NoEntry
      BY Zenon DEF FetchBlock, Goto, TypeInv, LocalOK
    <3>2. x \in Entries /\ settled[x.cid] = x
      BY <3>1, Zenon DEF ExactInv, QueryInv, TypeInv, WorkerOK
    <3> QED BY <3>1, <3>2, EntryFacts DEF ExactInv, BlocksRight
  <2>3. QueryDone(p) /\ todo[p] = {}
    BY <2>1, <2>2 DEF QueryDone
  <2>4. found[p] \subseteq Entries /\ expected[p] \subseteq Entries
    BY Zenon DEF TypeInv, LocalOK, ExactInv
  <2>5. \A e \in Entries : e \in expected[p] <=> e \in found[p]
    BY <2>3 DEF ExactInv, QueryInv
  <2> QED BY <2>3, <2>4, <2>5, Zenon DEF QueryDone, Answer
<1> QED BY <1>1, TypeInvariant, IndexInvariant, PTL DEF Spec, QueryExact
=============================================================================

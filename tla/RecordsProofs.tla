--------------------------- MODULE RecordsProofs ---------------------------
(***************************************************************************)
(* Proofs about Records, for any set of messages, records, data and        *)
(* handlers: the handlers may interleave in any way and be dropped at any  *)
(* step.                                                                   *)
(***************************************************************************)
EXTENDS Records, TLAPS

-----------------------------------------------------------------------------
(* The inductive invariant.                                                *)

\* An initial write of n's record is stored that is n or precedes n: the clean
\* up of n's record has a first entry to retain.
RootedAt(n) ==
    \E i \in stored : IsInitialWrite(i) /\ i.record = n.record /\ NoLater(i, n)

\* The same, n itself excluded: n can be deleted.
StrictRooted(n) ==
    \E i \in stored : IsInitialWrite(i) /\ i.record = n.record /\ Precedes(i, n)

\* n agrees with the initial writes of its record.
SameParent(n) ==
    \A i \in Messages : IsInitialWrite(i) /\ i.record = n.record => i.parent = n.parent

\* Steps of a handler before it has fetched the entries of the record, between
\* that and the put of its message, after the put, and in the loop of a write.
Early == {"idle", "parent", "fetch", "active", "task"}
Ready == {"data_put", "data_get", "put"}
Cleaning == {"delete", "delete_data", "delete_log"}
Late == Steps \ (Early \cup Ready)

\* What a handler relies on: the entries it fetched precede its message and are
\* rooted; its message may start or continue the record; once put, the message
\* is stored or superseded; the entries it deletes are not the first.
HandlerInv(p) ==
    /\ pc[p] \in Early => existing[p] = {}
    /\ \A n \in existing[p] :
         /\ n.record = req[p].record /\ Precedes(n, req[p])
         /\ RootedAt(n)
         /\ n.kind = "write" => SameParent(n)
    /\ pc[p] \in Ready =>
         /\ IsInitialWrite(req[p]) \/ Rooted(req[p])
         /\ req[p].kind = "write" => SameParent(req[p])
    /\ pc[p] \in Late => Covered(req[p])
    /\ pc[p] \in Cleaning => \A n \in existing[p] : StrictRooted(n)

EmittedInv == \A m \in emitted : Covered(m)

StoreInv ==
    /\ InitialRetained
    /\ EmittedInv
    /\ \A m \in stored : m.kind = "write" => SameParent(m)

Inv == TypeOK /\ StoreInv /\ \A p \in Handlers : HandlerInv(p)
-----------------------------------------------------------------------------
(* Messages and their order.                                               *)

\* The fields of a message have their types.
LEMMA MessageFields ==
    \A m \in Messages :
        /\ m.ts \in Nat /\ m.cid \in Nat /\ m.record \in Record
        /\ m.kind \in {"write", "delete"}
        /\ m.initial \in BOOLEAN /\ m.prune \in BOOLEAN
        /\ m.data \in Data \cup {NoData}
        /\ m.initial => m.kind = "write"
        /\ m.prune => m.kind = "delete"
        /\ m.kind = "write" => m.data \in Data
BY MessagesAssumption DEF IsMessage

\* Precedes is a strict order and NoLater its reflexive closure.
LEMMA OrderFacts ==
    ASSUME NEW a \in Messages, NEW b \in Messages, NEW c \in Messages
    PROVE  /\ ~Precedes(a, a)
           /\ Precedes(a, b) /\ Precedes(b, c) => Precedes(a, c)
           /\ NoLater(a, b) /\ Precedes(b, c) => Precedes(a, c)
           /\ Precedes(a, b) /\ NoLater(b, c) => Precedes(a, c)
           /\ NoLater(a, b) /\ NoLater(b, c) => NoLater(a, c)
           /\ NoLater(a, b) => a.ts <= b.ts
BY MessageFields DEF Precedes, NoLater

\* A set has one earliest and one latest message.
LEMMA EarliestUnique ==
    ASSUME NEW S \in SUBSET Messages, NEW m, NEW n, IsEarliest(m, S), IsEarliest(n, S)
    PROVE  m = n
<1>1. m \in Messages /\ n \in Messages /\ NoLater(m, n) /\ NoLater(n, m)
  BY DEF IsEarliest
<1>2. ~Precedes(m, m) /\ (Precedes(m, n) /\ NoLater(n, m) => Precedes(m, m))
  BY <1>1, OrderFacts
<1> QED BY <1>1, <1>2 DEF NoLater

\* There is one latest message.
LEMMA LatestUnique ==
    ASSUME NEW S \in SUBSET Messages, NEW m, NEW n, IsLatest(m, S), IsLatest(n, S)
    PROVE  m = n
<1>1. m \in Messages /\ n \in Messages /\ NoLater(m, n) /\ NoLater(n, m)
  BY DEF IsLatest
<1>2. ~Precedes(m, m) /\ (Precedes(m, n) /\ NoLater(n, m) => Precedes(m, m))
  BY <1>1, OrderFacts
<1> QED BY <1>1, <1>2 DEF NoLater

-----------------------------------------------------------------------------
(* Type correctness.                                                       *)

Replies == {"none", "accepted", "no_content", "not_found", "error"}

StoreType ==
    /\ stored \subseteq Messages
    /\ archived \subseteq stored
    /\ encoded \subseteq stored
    /\ roots \in [Record \X Data -> Data \cup {NoData}]
    /\ eventLog \subseteq Messages
    /\ emitted \subseteq Messages

HandlerType ==
    /\ pc \in [Handlers -> Steps]
    /\ req \in [Handlers -> Messages \cup {NoMessage}]
    /\ stream \in [Handlers -> Data \cup {NoData}]
    /\ existing \in [Handlers -> SUBSET Messages]
    /\ existingEncoded \in [Handlers -> SUBSET Messages]
    /\ reply \in Replies
    /\ \A p \in Handlers :
         /\ req[p] = NoMessage <=> pc[p] = "idle"
         /\ pc[p] \in WriteSteps => req[p].kind = "write"
         /\ pc[p] \in DeleteSteps => req[p].kind = "delete"

\* The type invariant, the store and the handlers apart.
LEMMA TypeParts == TypeOK <=> StoreType /\ HandlerType
BY DEF TypeOK, StoreType, HandlerType, Replies

\* l is a step of the method of message m.
StepOf(l, m) ==
    /\ l \in Steps \ {"idle"}
    /\ l \in WriteSteps => m.kind = "write"
    /\ l \in DeleteSteps => m.kind = "delete"

\* Every way a handler moves on keeps HandlerType.
LEMMA AnswerType ==
    ASSUME HandlerType, NEW p \in Handlers, NEW r \in Replies, Answer(p, r)
    PROVE  HandlerType'
BY DEF HandlerType, Answer, Goto, Steps, WriteSteps, DeleteSteps

\* Going on to a step of the message's kind keeps the types.
LEMMA StepType ==
    ASSUME HandlerType, NEW p \in Handlers, NEW l, pc[p] # "idle",
           StepOf(l, req[p]), Step(p, l)
    PROVE  HandlerType'
BY DEF HandlerType, Step, Goto, StepOf, Replies, fetched, local

\* Going on, or answering when no entries are left, keeps the types.
LEMMA ProceedType ==
    ASSUME HandlerType, NEW p \in Handlers, NEW l, NEW r \in Replies,
           NEW S \in SUBSET Messages, pc[p] # "idle", StepOf(l, req[p]),
           Proceed(p, S, l, r)
    PROVE  HandlerType'
<1>1. CASE Answer(p, r)
  BY <1>1, AnswerType
<1>2. CASE ~Answer(p, r)
  BY <1>2 DEF HandlerType, Proceed, Goto, StepOf, Replies, local
<1> QED BY <1>1, <1>2

\* The effects on the stores keep StoreType.
LEMMA StorePutType ==
    ASSUME StoreType, NEW m \in Messages, NEW a, NEW e, StorePut(m, a, e),
           UNCHANGED <<roots, eventLog, emitted>>
    PROVE  StoreType'
BY DEF StoreType, StorePut

\* Deleting a message keeps the types.
LEMMA StoreDeleteType ==
    ASSUME StoreType, NEW m, StoreDelete(m), UNCHANGED <<roots, eventLog, emitted>>
    PROVE  StoreType'
BY DEF StoreType, StoreDelete

\* Deleting data keeps the types.
LEMMA DataDeleteType ==
    ASSUME StoreType, NEW r, NEW d, DataDelete(r, d),
           UNCHANGED <<store, eventLog, emitted>>
    PROVE  StoreType'
BY Zenon DEF StoreType, DataDelete, store

\* Every step keeps the types.
LEMMA TypeStep == TypeOK /\ [Next]_vars => TypeOK'
<1> SUFFICES ASSUME TypeOK, [Next]_vars PROVE TypeOK'
  OBVIOUS
<1> SUFFICES StoreType' /\ HandlerType'
  BY DEF TypeOK, StoreType, HandlerType, Replies
<1>t. StoreType /\ HandlerType
  BY TypeParts
<1>u. ASSUME UNCHANGED <<store, roots, eventLog, emitted>> PROVE StoreType'
  BY <1>t, <1>u DEF StoreType, store
<1>0. CASE UNCHANGED vars
  BY <1>t, <1>0 DEF StoreType, HandlerType, vars
<1>1. ASSUME NEW p \in Handlers, NEW m \in Messages, NEW s \in Data \cup {NoData},
             Start(p, m, s)
      PROVE  StoreType' /\ HandlerType'
  BY <1>t, <1>u, <1>1, MessageFields, ConstantsAssumption
     DEF Start, HandlerType, Goto, Steps, WriteSteps, DeleteSteps, Replies, fetched
<1> DEFINE Live(p) == /\ pc[p] # "idle" /\ req[p] \in Messages
                      /\ existing[p] \in SUBSET Messages
<1>l. \A p \in Handlers : pc[p] # "idle" => Live(p)
  BY <1>t DEF HandlerType
<1>w. \A p \in Handlers : WriteReply(p) \in Replies
  BY DEF WriteReply, Replies
<1> USE DEF Steps, WriteSteps, DeleteSteps, StepOf, Replies
<1> HIDE DEF Live
<1>2. ASSUME NEW p \in Handlers, VerifyParent(p) PROVE StoreType' /\ HandlerType'
  <2>1. pc[p] = "parent" /\ req[p].kind = "write"
    BY <1>t, <1>2 DEF VerifyParent, HandlerType
  <2> QED BY <1>t, <1>u, <1>2, <2>1, StepType, AnswerType DEF VerifyParent
<1>3. ASSUME NEW p \in Handlers, FetchExisting(p) PROVE StoreType' /\ HandlerType'
  <2> DEFINE S == ExistingEntries(req[p].record)
             l == DataSource(req[p], stream[p], S)
  <2>1. pc[p] = "fetch" /\ req[p].kind = "write"
    BY <1>t, <1>3 DEF FetchExisting, HandlerType
  <2>2. l \in {"data_put", "put", "error", "data_get"}
    BY DEF DataSource
  <2>3. CASE Answer(p, "error")
    BY <1>t, <1>u, <1>3, <2>3, AnswerType DEF FetchExisting
  <2>4. CASE ~Answer(p, "error")
    <3>1. /\ Goto(p, l) /\ l # "error"
          /\ existing' = [existing EXCEPT ![p] = S]
          /\ existingEncoded' = [existingEncoded EXCEPT ![p] = S \cap encoded]
          /\ reply' = "none"
          /\ UNCHANGED local
      BY <1>3, <2>4 DEF FetchExisting
    <3>2. S \in SUBSET Messages
      BY <1>t DEF StoreType, ExistingEntries
    <3> HIDE DEF S, l
    <3>3. HandlerType'
      BY <1>t, <2>1, <2>2, <3>1, <3>2 DEF HandlerType, Goto, local
    <3> QED BY <1>u, <1>3, <3>3 DEF FetchExisting
  <2> QED BY <2>3, <2>4
<1>4. ASSUME NEW p \in Handlers, UpdateData(p) PROVE StoreType' /\ HandlerType'
  <2>1. pc[p] = "data_put" /\ req[p].kind = "write"
    BY <1>t, <1>4 DEF UpdateData, HandlerType
  <2>2. HandlerType'
    BY <1>t, <1>4, <2>1, StepType, AnswerType DEF UpdateData
  <2>3. PICK b \in {stream[p], roots[<<req[p].record, req[p].data>>]} \ {NoData} :
          roots' = [roots EXCEPT ![<<req[p].record, req[p].data>>] = b]
    BY <1>4, Zenon DEF UpdateData, DataPut
  <2>4. req[p] \in Messages /\ req[p].record \in Record /\ req[p].data \in Data
    BY <1>l, <2>1, MessageFields DEF Live
  <2>5. b \in Data \cup {NoData}
    BY <1>t, <2>3, <2>4 DEF StoreType, HandlerType
  <2>6. StoreType'
    BY <1>t, <1>4, <2>3, <2>5, Zenon DEF StoreType, UpdateData, store
  <2> QED BY <2>2, <2>6
<1>5. ASSUME NEW p \in Handlers, CloneData(p) PROVE StoreType' /\ HandlerType'
  <2>1. pc[p] = "data_get" /\ req[p].kind = "write"
    BY <1>t, <1>5 DEF CloneData, HandlerType
  <2> QED BY <1>t, <1>u, <1>5, <2>1, StepType, AnswerType DEF CloneData
<1>6. ASSUME NEW p \in Handlers, PutMessage(p) PROVE StoreType' /\ HandlerType'
  BY <1>t, <1>l, <1>6, StepType, StorePutType DEF PutMessage, Live
<1>7. ASSUME NEW p \in Handlers, LogEvent(p) PROVE StoreType' /\ HandlerType'
  <2>1. HandlerType'
    BY <1>t, <1>7, StepType DEF LogEvent
  <2> QED BY <1>t, <1>l, <1>7, <2>1 DEF LogEvent, Live, StoreType, store
<1>8. ASSUME NEW p \in Handlers, EmitEvent(p) PROVE StoreType' /\ HandlerType'
  <2>1. pc[p] = "emit" /\ Live(p)
    BY <1>l, <1>8 DEF EmitEvent
  <2>2. StoreType'
    BY <1>t, <1>8, <2>1 DEF EmitEvent, Live, StoreType, store
  <2>3. req[p].prune => req[p].kind = "delete"
    BY <2>1, MessageFields DEF Live
  <2>4. HandlerType'
    BY <1>t, <1>w, <1>8, <2>1, <2>3, StepType, ProceedType, Zenon DEF EmitEvent, Live
  <2> QED BY <2>2, <2>4
<1>9. ASSUME NEW p \in Handlers, ArchiveInitial(p) PROVE StoreType' /\ HandlerType'
  <2>1. pc[p] = "archive" /\ Live(p) /\ req[p].kind = "write"
    BY <1>t, <1>l, <1>9 DEF ArchiveInitial, HandlerType
  <2>2. HandlerType'
    BY <1>t, <1>9, <2>1, StepType DEF ArchiveInitial
  <2> QED BY <1>t, <1>9, <2>1, <2>2, StorePutType, Zenon DEF ArchiveInitial, Live
<1>10. ASSUME NEW p \in Handlers, LogInitial(p) PROVE StoreType' /\ HandlerType'
  <2>1. pc[p] = "archive_log" /\ Live(p) /\ req[p].kind = "write"
    BY <1>t, <1>l, <1>10 DEF LogInitial, HandlerType
  <2>2. PICK e \in existing[p] :
          /\ eventLog' = eventLog \cup {e}
          /\ IF stream[p] # NoData
               THEN Step(p, "archive_data")
               ELSE Proceed(p, existing[p] \ {e}, "delete", WriteReply(p))
    BY <1>10 DEF LogInitial
  <2>3. HandlerType'
    BY <1>t, <1>w, <2>1, <2>2, StepType, ProceedType DEF Live
  <2> QED BY <1>t, <1>10, <2>1, <2>2, <2>3 DEF LogInitial, Live, StoreType, store
<1>11. ASSUME NEW p \in Handlers, DeleteInitialData(p) PROVE StoreType' /\ HandlerType'
  <2>1. pc[p] = "archive_data" /\ Live(p) /\ req[p].kind = "write"
    BY <1>t, <1>l, <1>11 DEF DeleteInitialData, HandlerType
  <2>2. HandlerType'
    BY <1>t, <1>w, <1>11, <2>1, ProceedType DEF DeleteInitialData, Live
  <2> QED BY <1>t, <1>11, <2>2, DataDeleteType DEF DeleteInitialData
<1>12. ASSUME NEW p \in Handlers, DeletePrevious(p) PROVE StoreType' /\ HandlerType'
  <2>1. pc[p] = "delete" /\ req[p].kind = "write"
    BY <1>t, <1>12 DEF DeletePrevious, HandlerType
  <2>2. HandlerType'
    BY <1>t, <1>12, <2>1, StepType, AnswerType DEF DeletePrevious
  <2> QED BY <1>t, <1>u, <1>12, <2>2, StoreDeleteType DEF DeletePrevious
<1>13. ASSUME NEW p \in Handlers, DeletePreviousData(p) PROVE StoreType' /\ HandlerType'
  <2>1. pc[p] = "delete_data" /\ req[p].kind = "write"
    BY <1>t, <1>13 DEF DeletePreviousData, HandlerType
  <2>2. HandlerType'
    BY <1>t, <1>13, <2>1, StepType DEF DeletePreviousData
  <2> QED BY <1>t, <1>13, <2>2, DataDeleteType DEF DeletePreviousData
<1>14. ASSUME NEW p \in Handlers, UnlogPrevious(p) PROVE StoreType' /\ HandlerType'
  <2>1. pc[p] = "delete_log" /\ Live(p) /\ req[p].kind = "write"
    BY <1>t, <1>l, <1>14 DEF UnlogPrevious, HandlerType
  <2>2. HandlerType'
    BY <1>t, <1>w, <1>14, <2>1, ProceedType DEF UnlogPrevious, Live
  <2> QED BY <1>t, <1>14, <2>2 DEF UnlogPrevious, StoreType, store
<1>15. ASSUME NEW p \in Handlers, FetchActive(p) PROVE StoreType' /\ HandlerType'
  <2>1. pc[p] = "active" /\ req[p].kind = "delete"
    BY <1>t, <1>15 DEF FetchActive, HandlerType
  <2> QED BY <1>t, <1>u, <1>15, <2>1, StepType, AnswerType DEF FetchActive
<1>16. ASSUME NEW p \in Handlers, FetchEntries(p) PROVE StoreType' /\ HandlerType'
  <2> DEFINE S == ExistingEntries(req[p].record)
  <2>1. pc[p] = "task" /\ req[p].kind = "delete"
    BY <1>t, <1>16 DEF FetchEntries, HandlerType
  <2>2. S \in SUBSET Messages
    BY <1>t DEF StoreType, ExistingEntries
  <2>3. CASE Answer(p, "accepted")
    BY <1>t, <1>u, <1>16, <2>3, AnswerType DEF FetchEntries
  <2>4. CASE ~Answer(p, "accepted")
    <3>1. /\ Goto(p, "put")
          /\ existing' = [existing EXCEPT ![p] = {n \in S : n.ts < req[p].ts}]
          /\ existingEncoded' = [existingEncoded EXCEPT ![p] = S \cap encoded]
          /\ reply' = "none"
          /\ UNCHANGED local
      BY <1>16, <2>4 DEF FetchEntries
    <3> HIDE DEF S
    <3>2. HandlerType'
      BY <1>t, <2>1, <2>2, <3>1 DEF HandlerType, Goto, local
    <3> QED BY <1>u, <1>16, <3>2 DEF FetchEntries
  <2> QED BY <2>3, <2>4
<1>17. ASSUME NEW p \in Handlers, DeleteChildren(p) PROVE StoreType' /\ HandlerType'
  <2>1. pc[p] = "children" /\ Live(p) /\ req[p].kind = "delete"
    BY <1>t, <1>l, <1>17 DEF DeleteChildren, HandlerType
  <2> QED BY <1>t, <1>u, <1>17, <2>1, ProceedType DEF DeleteChildren, Live
<1>18. ASSUME NEW p \in Handlers, DeleteEarlierData(p) PROVE StoreType' /\ HandlerType'
  <2>1. pc[p] = "earlier_data" /\ req[p].kind = "delete"
    BY <1>t, <1>18 DEF DeleteEarlierData, HandlerType
  <2>2. HandlerType'
    BY <1>t, <1>18, <2>1, StepType, AnswerType DEF DeleteEarlierData
  <2> QED BY <1>t, <1>u, <1>18, <2>2, DataDeleteType DEF DeleteEarlierData
<1>19. ASSUME NEW p \in Handlers, DeleteEarlier(p) PROVE StoreType' /\ HandlerType'
  <2>1. pc[p] = "earlier" /\ Live(p) /\ req[p].kind = "delete"
    BY <1>t, <1>l, <1>19 DEF DeleteEarlier, HandlerType
  <2>2. HandlerType'
    BY <1>t, <1>19, <2>1, StepType, ProceedType, ZenonT(30) DEF DeleteEarlier, Live
  <2> QED BY <1>t, <1>19, <2>1, <2>2, StorePutType, StoreDeleteType, Zenon DEF DeleteEarlier, Live
<1>20. ASSUME NEW p \in Handlers, UnlogEarlier(p) PROVE StoreType' /\ HandlerType'
  <2>1. pc[p] = "earlier_log" /\ Live(p) /\ req[p].kind = "delete"
    BY <1>t, <1>l, <1>20 DEF UnlogEarlier, HandlerType
  <2>2. HandlerType'
    BY <1>t, <1>20, <2>1, ProceedType DEF UnlogEarlier, Live
  <2> QED BY <1>t, <1>20, <2>2 DEF UnlogEarlier, StoreType, store
<1>21. ASSUME NEW p \in Handlers, Abandon(p) \/ TaskTimeout(p) \/ Refuse(p)
       PROVE  StoreType' /\ HandlerType'
  BY <1>t, <1>u, <1>21, AnswerType DEF Abandon, TaskTimeout, Refuse
<1> QED
  BY <1>0, <1>1, <1>2, <1>3, <1>4, <1>5, <1>6, <1>7, <1>8, <1>9, <1>10, <1>11,
     <1>12, <1>13, <1>14, <1>15, <1>16, <1>17, <1>18, <1>19, <1>20, <1>21
     DEF Next, Handle, Work

\* The variables keep their types, archived and inline entries are stored, and a
\* handler is only ever at a step of the method of its message.
THEOREM TypeCorrect == Spec => []TypeOK
<1>1. Init => TypeOK
  BY ConstantsAssumption DEF Init, TypeOK, Steps, WriteSteps, DeleteSteps
<1> QED BY <1>1, TypeStep, PTL DEF Spec

-----------------------------------------------------------------------------
(* How the set of stored messages may change.                              *)

\* Nothing leaves the store but messages that are neither the first nor the
\* latest of their record.
StoredKept ==
    \/ stored \subseteq stored'
    \/ \E x \in stored :
         /\ stored' = stored \ {x}
         /\ StrictRooted(x)
         /\ \E n \in stored : n.record = x.record /\ Precedes(x, n)

\* Such a change keeps what the invariant says of a message.
LEMMA KeptFacts ==
    ASSUME stored \subseteq Messages, StoredKept, NEW m \in Messages
    PROVE  /\ Rooted(m) => Rooted(m)'
           /\ RootedAt(m) => RootedAt(m)'
           /\ StrictRooted(m) => StrictRooted(m)'
           /\ Covered(m) => Covered(m)'
<1>1. CASE stored \subseteq stored'
  BY <1>1 DEF Rooted, RootedAt, StrictRooted, Covered
<1>2. ASSUME NEW x \in stored, stored' = stored \ {x}, StrictRooted(x),
             NEW n \in stored, n.record = x.record, Precedes(x, n)
      PROVE  /\ Rooted(m) => Rooted(m)'
             /\ RootedAt(m) => RootedAt(m)'
             /\ StrictRooted(m) => StrictRooted(m)'
             /\ Covered(m) => Covered(m)'
  <2>1. PICK i \in stored : IsInitialWrite(i) /\ i.record = x.record /\ Precedes(i, x)
    BY <1>2 DEF StrictRooted
  <2>2. i \in stored' /\ n \in stored' /\ \A y \in stored : y # x => y \in stored'
    BY <1>2, <2>1, OrderFacts
  <2>3. ASSUME Rooted(m) PROVE Rooted(m)'
    <3>1. PICK j \in stored : IsInitialWrite(j) /\ j.record = m.record /\ j.ts <= m.ts
      BY <2>3 DEF Rooted
    <3>2. CASE j # x
      BY <2>2, <3>1, <3>2 DEF Rooted
    <3>3. CASE j = x
      <4>1. i.ts <= m.ts
        BY <2>1, <3>1, <3>3, MessageFields DEF Precedes
      <4> QED BY <2>1, <2>2, <3>1, <3>3, <4>1 DEF Rooted
    <3> QED BY <3>2, <3>3
  <2>4. ASSUME RootedAt(m) PROVE RootedAt(m)'
    <3>1. PICK j \in stored : IsInitialWrite(j) /\ j.record = m.record /\ NoLater(j, m)
      BY <2>4 DEF RootedAt
    <3>2. CASE j # x
      BY <2>2, <3>1, <3>2 DEF RootedAt
    <3>3. CASE j = x
      <4>1. NoLater(i, m)
        BY <2>1, <3>1, <3>3, OrderFacts DEF NoLater
      <4> QED BY <2>1, <2>2, <3>1, <3>3, <4>1 DEF RootedAt
    <3> QED BY <3>2, <3>3
  <2>5. ASSUME StrictRooted(m) PROVE StrictRooted(m)'
    <3>1. PICK j \in stored : IsInitialWrite(j) /\ j.record = m.record /\ Precedes(j, m)
      BY <2>5 DEF StrictRooted
    <3>2. CASE j # x
      BY <2>2, <3>1, <3>2 DEF StrictRooted
    <3>3. CASE j = x
      <4>1. Precedes(i, m)
        BY <2>1, <3>1, <3>3, OrderFacts
      <4> QED BY <2>1, <2>2, <3>1, <3>3, <4>1 DEF StrictRooted
    <3> QED BY <3>2, <3>3
  <2>6. ASSUME Covered(m) PROVE Covered(m)'
    <3>1. PICK j \in stored : j.record = m.record /\ NoLater(m, j)
      BY <2>6 DEF Covered
    <3>2. CASE j # x
      BY <2>2, <3>1, <3>2 DEF Covered
    <3>3. CASE j = x
      <4>1. NoLater(m, n)
        BY <1>2, <3>1, <3>3, OrderFacts DEF NoLater
      <4> QED BY <1>2, <2>2, <3>1, <3>3, <4>1 DEF Covered
    <3> QED BY <3>2, <3>3
  <2> QED BY <2>3, <2>4, <2>5, <2>6
<1> QED BY <1>1, <1>2 DEF StoredKept

-----------------------------------------------------------------------------
(* How the local state of the handlers may change.                         *)

\* Only handler p moves.
OnlyMoves(p) ==
    \A q \in Handlers \ {p} :
        pc'[q] = pc[q] /\ req'[q] = req[q] /\ existing'[q] = existing[q]

\* What answering changes.
LEMMA AnswerMoves ==
    ASSUME TypeOK, NEW p \in Handlers, NEW r, Answer(p, r)
    PROVE  OnlyMoves(p) /\ pc'[p] = "idle" /\ existing'[p] = {}
BY DEF TypeOK, Answer, Goto, OnlyMoves

\* What going on to the next step changes.
LEMMA StepMoves ==
    ASSUME TypeOK, NEW p \in Handlers, NEW l, Step(p, l)
    PROVE  OnlyMoves(p) /\ pc'[p] = l /\ existing' = existing /\ req' = req
BY DEF TypeOK, Step, Goto, OnlyMoves, fetched, local

\* What going on or answering changes.
LEMMA ProceedMoves ==
    ASSUME TypeOK, NEW p \in Handlers, NEW l, NEW r, NEW S, Proceed(p, S, l, r)
    PROVE  /\ OnlyMoves(p)
           /\ \/ pc'[p] = "idle" /\ existing'[p] = {}
              \/ pc'[p] = l /\ existing'[p] = S /\ req' = req
<1>1. CASE Answer(p, r)
  BY <1>1, AnswerMoves
<1>2. CASE ~Answer(p, r)
  BY <1>2 DEF TypeOK, Proceed, Goto, OnlyMoves, local
<1> QED BY <1>1, <1>2

\* What a handler relies on survives the steps of the others.
LEMMA OthersKeep ==
    ASSUME Inv, StoredKept, NEW p \in Handlers, OnlyMoves(p)
    PROVE  \A q \in Handlers \ {p} : HandlerInv(q)'
<1> SUFFICES ASSUME NEW q \in Handlers \ {p} PROVE HandlerInv(q)'
  OBVIOUS
<1>1. HandlerInv(q) /\ stored \subseteq Messages
  BY DEF Inv, TypeOK
<1> PICK m : m = req[q]
  OBVIOUS
<1>2. pc'[q] = pc[q] /\ req'[q] = m /\ existing'[q] = existing[q]
  BY DEF OnlyMoves
<1>3. existing[q] \subseteq Messages
  BY DEF Inv, TypeOK
<1>4. pc[q] \in Ready \cup Late => m \in Messages
  BY DEF Inv, TypeOK, Early, Ready, Late
<1>5. \A n \in existing[q] :
        /\ RootedAt(n)'
        /\ pc[q] \in Cleaning => StrictRooted(n)'
  BY <1>1, <1>3, KeptFacts DEF HandlerInv
<1>6. pc[q] \in Ready => IsInitialWrite(m) \/ Rooted(m)'
  BY <1>1, <1>4, KeptFacts DEF HandlerInv
<1>7. pc[q] \in Late => Covered(m)'
  BY <1>1, <1>4, KeptFacts DEF HandlerInv
<1> QED
  BY <1>1, <1>2, <1>5, <1>6, <1>7
     DEF HandlerInv, RootedAt, StrictRooted, Rooted, Covered, SameParent

\* A handler that answered, or that has not fetched anything yet, relies on nothing.
LEMMA EarlyHandler ==
    ASSUME NEW p \in Handlers, pc'[p] \in Early, existing'[p] = {}
    PROVE  HandlerInv(p)'
BY DEF HandlerInv, Early, Ready, Late, Cleaning

\* A handler past its put moves on, possibly with fewer entries left.
LEMMA LateHandler ==
    ASSUME Inv, StoredKept, NEW p \in Handlers, pc[p] \in Late, pc'[p] \in Late,
           req' = req, existing'[p] \subseteq existing[p],
           pc'[p] \in Cleaning => \A n \in existing'[p] : StrictRooted(n)
    PROVE  HandlerInv(p)'
<1>1. HandlerInv(p) /\ stored \subseteq Messages /\ existing[p] \subseteq Messages
  BY DEF Inv, TypeOK
<1> PICK m : m = req[p]
  OBVIOUS
<1>2. m \in Messages /\ Covered(m)
  BY <1>1 DEF Inv, TypeOK, Late, Early, HandlerInv
<1>3. req'[p] = m /\ Covered(m)'
  BY <1>1, <1>2, KeptFacts
<1>4. \A n \in existing'[p] :
        RootedAt(n)' /\ (pc'[p] \in Cleaning => StrictRooted(n)')
  BY <1>1, KeptFacts, Zenon DEF HandlerInv
<1> QED
  BY <1>1, <1>2, <1>3, <1>4
     DEF HandlerInv, Late, Early, Ready, RootedAt, StrictRooted, Covered, SameParent

\* The three ways an action treats the set of stored messages.
LEMMA StoreSame ==
    ASSUME Inv, stored' = stored, emitted' = emitted
    PROVE  StoredKept /\ StoreInv'
BY DEF Inv, StoreInv, InitialRetained, EmittedInv, Rooted, Covered, SameParent, StoredKept

\* Storing a message whose record has its initial write keeps StoreInv.
LEMMA StoreAdd ==
    ASSUME Inv, NEW x \in Messages, stored' = stored \cup {x}, emitted' = emitted,
           IsInitialWrite(x) \/ Rooted(x), x.kind = "write" => SameParent(x)
    PROVE  StoredKept /\ StoreInv'
<1>1. StoredKept /\ stored \subseteq Messages
  BY DEF StoredKept, Inv, TypeOK
<1>2. Rooted(x)'
  BY MessageFields DEF Rooted
<1>3. \A m \in Messages : (Rooted(m) => Rooted(m)') /\ (Covered(m) => Covered(m)')
  BY <1>1, KeptFacts
<1> QED
  BY <1>1, <1>2, <1>3
     DEF Inv, TypeOK, StoreInv, InitialRetained, EmittedInv, SameParent

\* Deleting an entry that another one precedes keeps StoreInv.
LEMMA StoreRemove ==
    ASSUME Inv, NEW p \in Handlers, pc[p] \in Late, NEW n \in existing[p],
           StrictRooted(n), stored' = stored \ {n}, emitted' = emitted
    PROVE  StoredKept /\ StoreInv'
<1>1. HandlerInv(p) /\ stored \subseteq Messages /\ n \in Messages /\ req[p] \in Messages
  BY DEF Inv, TypeOK, Late, Early
<1>2. PICK c \in stored : c.record = req[p].record /\ NoLater(req[p], c)
  BY <1>1, Zenon DEF HandlerInv, Covered
<1>3. c.record = n.record /\ Precedes(n, c)
  BY <1>1, <1>2, OrderFacts DEF HandlerInv
<1>4. StoredKept
  BY <1>2, <1>3, Zenon DEF StoredKept
<1>5. \A m \in Messages : (Rooted(m) => Rooted(m)') /\ (Covered(m) => Covered(m)')
  BY <1>1, <1>4, KeptFacts
<1> QED
  BY <1>1, <1>4, <1>5
     DEF Inv, TypeOK, StoreInv, InitialRetained, EmittedInv, SameParent

\* Inv is kept if the store and the handler that moves keep their parts of it.
LEMMA InvParts ==
    ASSUME Inv, TypeOK', StoredKept, StoreInv', NEW p \in Handlers, OnlyMoves(p),
           HandlerInv(p)'
    PROVE  Inv'
BY OthersKeep DEF Inv

-----------------------------------------------------------------------------
(* Each action keeps the invariant.                                        *)

\* Actions that end the request, or move it on before anything was fetched.
LEMMA EarlyStep ==
    ASSUME Inv, TypeOK', stored' = stored, emitted' = emitted, NEW p \in Handlers,
           OnlyMoves(p), pc'[p] \in Early, existing'[p] = {}
    PROVE  Inv'
BY EarlyHandler, StoreSame, InvParts, Zenon

\* Answering keeps Inv.
LEMMA AnswerStep ==
    ASSUME Inv, TypeOK', stored' = stored, emitted' = emitted, NEW p \in Handlers,
           NEW r, Answer(p, r)
    PROVE  Inv'
<1>1. OnlyMoves(p) /\ pc'[p] = "idle" /\ existing'[p] = {}
  BY AnswerMoves DEF Inv
<1> QED BY <1>1, EarlyStep DEF Early

\* A write fetches the entries of its record: they precede it, their earliest is
\* an initial write, and so they and the new message are rooted.
LEMMA FetchExistingInv ==
    ASSUME Inv, TypeOK', NEW p \in Handlers, FetchExisting(p)
    PROVE  Inv'
<1> DEFINE S == ExistingEntries(req[p].record)
<1>1. stored' = stored /\ emitted' = emitted
  BY DEF FetchExisting, store
<1>2. CASE Answer(p, "error")
  BY <1>1, <1>2, AnswerStep
<1>3. CASE ~Answer(p, "error")
  <2>1. /\ Admissible(req[p], S)
        /\ pc' = [pc EXCEPT ![p] = DataSource(req[p], stream[p], S)]
        /\ DataSource(req[p], stream[p], S) # "error"
        /\ existing' = [existing EXCEPT ![p] = S]
        /\ req' = req
    BY <1>3 DEF FetchExisting, Goto, local
  <2> PICK m : m = req[p]
    OBVIOUS
  <2>2. m \in Messages /\ m.kind = "write" /\ S \subseteq stored /\ stored \subseteq Messages
    BY DEF Inv, TypeOK, FetchExisting, WriteSteps, ExistingEntries
  <2>3. pc'[p] \in Ready /\ existing'[p] = S /\ req'[p] = m
    <3>1. DataSource(req[p], stream[p], S) \in {"data_put", "data_get", "put", "error"}
      BY DEF DataSource
    <3> HIDE DEF S
    <3> QED BY <2>1, <3>1, Zenon DEF Inv, TypeOK, Ready
  <2>4. OnlyMoves(p)
    BY <2>1 DEF OnlyMoves, Inv, TypeOK
  <2>5. \A n \in S : n.record = m.record
    BY DEF ExistingEntries
  <2>6. CASE S = {}
    <3>1. IsInitialWrite(m)
      BY <2>1, <2>2, <2>6 DEF Admissible, IsInitialWrite
    <3>2. SameParent(m)
      BY <2>2, <3>1, MessagesAssumption, Zenon DEF SameParent, IsInitialWrite
    <3>3. HandlerInv(p)'
      BY <2>3, <2>6, <3>1, <3>2
         DEF HandlerInv, Early, Ready, Late, Cleaning, SameParent
    <3> QED BY <1>1, <2>4, <3>3, StoreSame, InvParts, Zenon
  <2>7. CASE S # {}
    <3>1. PICK e \in S, l \in S :
            /\ IsEarliest(e, S) /\ IsInitialWrite(e) /\ e.parent = m.parent
            /\ IsLatest(l, S) /\ Precedes(l, m)
      BY <2>1, <2>7 DEF Admissible
    <3>2. \A n \in S : NoLater(e, n) /\ Precedes(n, m)
      BY <2>2, <3>1, OrderFacts DEF IsEarliest, IsLatest
    <3>3. \A n \in S : RootedAt(n)
      BY <2>2, <2>5, <3>1, <3>2 DEF RootedAt
    <3>4. Rooted(m)
      <4>1. e.ts <= m.ts
        BY <2>2, <3>2, MessageFields DEF Precedes
      <4> QED BY <2>2, <2>5, <3>1, <4>1 DEF Rooted
    <3>5. SameParent(m)
      BY <2>2, <2>5, <3>1, MessagesAssumption DEF SameParent, IsInitialWrite
    <3>6. \A n \in S : n.kind = "write" => SameParent(n)
      BY <2>2, Zenon DEF Inv, StoreInv
    <3> HIDE DEF S
    <3>7. HandlerInv(p)'
      BY <1>1, <2>3, <2>5, <3>2, <3>3, <3>4, <3>5, <3>6
         DEF HandlerInv, Early, Ready, Late, Cleaning, SameParent, RootedAt, Rooted
    <3> QED BY <1>1, <2>4, <3>7, StoreSame, InvParts, Zenon
  <2> QED BY <2>6, <2>7
<1> QED BY <1>2, <1>3

\* The same for the task of a delete.
LEMMA FetchEntriesInv ==
    ASSUME Inv, TypeOK', NEW p \in Handlers, FetchEntries(p)
    PROVE  Inv'
<1> DEFINE S == ExistingEntries(req[p].record)
           T == {n \in S : n.ts < req[p].ts}
<1>1. stored' = stored /\ emitted' = emitted
  BY DEF FetchEntries, store
<1>2. CASE Answer(p, "accepted")
  BY <1>1, <1>2, AnswerStep
<1>3. CASE ~Answer(p, "accepted")
  <2>1. /\ Deletable(req[p], S)
        /\ pc' = [pc EXCEPT ![p] = "put"]
        /\ existing' = [existing EXCEPT ![p] = T]
        /\ req' = req
    BY <1>3 DEF FetchEntries, Goto, local
  <2> PICK m : m = req[p]
    OBVIOUS
  <2>2. m \in Messages /\ m.kind = "delete" /\ S \subseteq stored /\ stored \subseteq Messages
    BY Zenon DEF Inv, TypeOK, FetchEntries, DeleteSteps, ExistingEntries
  <2>3. pc'[p] = "put" /\ existing'[p] = T /\ req'[p] = m
    BY <2>1, Zenon DEF Inv, TypeOK
  <2>4. OnlyMoves(p)
    BY <2>1 DEF OnlyMoves, Inv, TypeOK
  <2>5. \A n \in S : n.record = m.record
    BY DEF ExistingEntries
  <2>6. PICK e \in S, l \in S :
          IsEarliest(e, S) /\ IsInitialWrite(e) /\ IsLatest(l, S) /\ m.ts >= l.ts
    BY <2>1 DEF Deletable
  <2>7. \A n \in S : NoLater(e, n)
    BY <2>6 DEF IsEarliest
  <2>8. \A n \in T : RootedAt(n) /\ Precedes(n, m)
    BY <2>2, <2>5, <2>6, <2>7 DEF RootedAt, Precedes
  <2>9. Rooted(m)
    <3>1. e.ts <= m.ts
      BY <2>2, <2>6, <2>7, OrderFacts, MessageFields
    <3> QED BY <2>2, <2>5, <2>6, <3>1, Zenon DEF Rooted
  <2>10. \A n \in T : n.record = m.record /\ (n.kind = "write" => SameParent(n))
    BY <2>2, <2>5 DEF Inv, StoreInv
  <2> HIDE DEF T
  <2>11. HandlerInv(p)'
    BY <1>1, <2>2, <2>3, <2>8, <2>9, <2>10
       DEF HandlerInv, Early, Ready, Late, Cleaning, SameParent, RootedAt, Rooted
  <2> QED BY <1>1, <2>4, <2>11, StoreSame, InvParts
<1> QED BY <1>2, <1>3

\* The put of a message that starts or continues its record.
LEMMA PutMessageInv ==
    ASSUME Inv, TypeOK', NEW p \in Handlers, PutMessage(p)
    PROVE  Inv'
<1> PICK m : m = req[p]
  OBVIOUS
<1>1. m \in Messages /\ HandlerInv(p) /\ pc[p] = "put" /\ existing[p] \subseteq Messages
      /\ stored \subseteq Messages
  BY DEF Inv, TypeOK, PutMessage
<1>2. stored' = stored \cup {m} /\ emitted' = emitted
  BY DEF PutMessage, StorePut
<1>3. StoredKept /\ StoreInv'
  BY <1>1, <1>2, StoreAdd DEF HandlerInv, Ready
<1>4. OnlyMoves(p) /\ pc'[p] = "log" /\ existing' = existing /\ req' = req
  BY StepMoves DEF PutMessage, Inv
<1>5. \A n \in existing[p] : RootedAt(n)'
  BY <1>1, <1>3, KeptFacts, Zenon DEF HandlerInv
<1>6. Covered(m)'
  BY <1>2 DEF Covered, NoLater
<1>7. HandlerInv(p)'
  BY <1>1, <1>4, <1>5, <1>6, Zenon
     DEF HandlerInv, Early, Ready, Late, Cleaning, SameParent, RootedAt, Covered
<1> QED BY <1>3, <1>4, <1>7, InvParts

\* Steps between the fetch and the put.
LEMMA ReadyStep ==
    ASSUME Inv, TypeOK', stored' = stored, emitted' = emitted, NEW p \in Handlers,
           pc[p] \in Ready, Step(p, "put")
    PROVE  Inv'
<1>1. OnlyMoves(p) /\ pc'[p] = "put" /\ existing' = existing /\ req' = req
  BY StepMoves DEF Inv
<1>2. HandlerInv(p)'
  BY <1>1, Zenon DEF Inv, HandlerInv, Early, Ready, Late, Cleaning, SameParent, RootedAt, Rooted
<1> QED BY <1>1, <1>2, StoreSame, InvParts

\* Steps after the put that leave the set of stored messages alone.
LEMMA LateStep ==
    ASSUME Inv, TypeOK', stored' = stored, emitted' = emitted, NEW p \in Handlers,
           pc[p] \in Late, NEW l \in Late,
           l \in Cleaning => \A n \in existing[p] : StrictRooted(n),
           Step(p, l)
    PROVE  Inv'
<1>1. OnlyMoves(p) /\ pc'[p] = l /\ existing' = existing /\ req' = req
  BY StepMoves DEF Inv
<1>2. StoredKept /\ StoreInv'
  BY StoreSame
<1>3. HandlerInv(p)'
  BY <1>1, <1>2, LateHandler
<1> QED BY <1>1, <1>2, <1>3, InvParts

\* Going on with the entries to clean up keeps Inv.
LEMMA LateProceed ==
    ASSUME Inv, TypeOK', StoredKept, StoreInv', NEW p \in Handlers,
           pc[p] \in Late, NEW l \in Late, NEW S \in SUBSET existing[p], NEW r,
           l \in Cleaning => \A n \in S : StrictRooted(n),
           Proceed(p, S, l, r)
    PROVE  Inv'
<1>1. /\ OnlyMoves(p)
      /\ \/ pc'[p] = "idle" /\ existing'[p] = {}
         \/ pc'[p] = l /\ existing'[p] = S /\ req' = req
  BY ProceedMoves, Zenon DEF Inv
<1>2. HandlerInv(p)'
  BY <1>1, EarlyHandler, LateHandler DEF Early
<1> QED BY <1>1, <1>2, InvParts, Zenon

\* Once the first entry is set aside, the others have one that precedes them.
LEMMA RestIsRooted ==
    ASSUME Inv, NEW p \in Handlers, NEW e \in existing[p], IsEarliest(e, existing[p])
    PROVE  \A n \in existing[p] \ {e} : StrictRooted(n)
<1> SUFFICES ASSUME NEW n \in existing[p] \ {e} PROVE StrictRooted(n)
  OBVIOUS
<1>1. existing[p] \subseteq Messages /\ stored \subseteq Messages /\ HandlerInv(p)
  BY DEF Inv, TypeOK
<1>2. Precedes(e, n) /\ e.record = n.record
  <2>1. NoLater(e, n) /\ e # n
    BY Zenon DEF IsEarliest
  <2>2. e.record = req[p].record /\ n.record = req[p].record
    BY <1>1, Zenon DEF HandlerInv
  <2> QED BY <2>1, <2>2, Zenon DEF NoLater
<1>3. PICK i \in stored : IsInitialWrite(i) /\ i.record = e.record /\ NoLater(i, e)
  BY <1>1 DEF HandlerInv, RootedAt
<1>4. Precedes(i, n)
  BY <1>1, <1>2, <1>3, OrderFacts
<1> QED BY <1>2, <1>3, <1>4 DEF StrictRooted

\* A fetched entry may be stored again.
LEMMA RestoreEntry ==
    ASSUME Inv, NEW p \in Handlers, NEW e \in existing[p], stored' = stored \cup {e},
           emitted' = emitted
    PROVE  StoredKept /\ StoreInv'
<1>1. existing[p] \subseteq Messages /\ stored \subseteq Messages /\ HandlerInv(p)
  BY DEF Inv, TypeOK
<1>2. PICK i \in stored : IsInitialWrite(i) /\ i.record = e.record /\ NoLater(i, e)
  BY <1>1, Zenon DEF HandlerInv, RootedAt
<1>3. i.ts <= e.ts
  BY <1>1, <1>2, OrderFacts
<1>4. Rooted(e)
  BY <1>2, <1>3 DEF Rooted
<1> QED BY <1>1, <1>4, StoreAdd, Zenon DEF HandlerInv

\* A request arrives.
LEMMA StartInv ==
    ASSUME Inv, TypeOK', NEW p \in Handlers, NEW m, NEW s, Start(p, m, s)
    PROVE  Inv'
<1>1. existing[p] = {}
  BY DEF Inv, HandlerInv, Start, Early
<1>2. OnlyMoves(p) /\ pc'[p] \in Early /\ existing'[p] = {}
  BY <1>1 DEF Start, Goto, OnlyMoves, Early, Inv, TypeOK, fetched
<1> QED BY <1>2, EarlyStep, Zenon DEF Start, store

\* Every step keeps the invariant.
LEMMA InvStep == Inv /\ [Next]_vars => Inv'
<1> SUFFICES ASSUME Inv, [Next]_vars PROVE Inv'
  OBVIOUS
<1>t. TypeOK'
  BY TypeStep DEF Inv
<1>e. \A p \in Handlers : existing[p] \subseteq Messages /\ HandlerInv(p)
  BY DEF Inv, TypeOK
<1>0. CASE UNCHANGED vars
  BY <1>0, <1>t, StoreSame, Zenon
     DEF vars, Inv, HandlerInv, SameParent, RootedAt, StrictRooted, Rooted, Covered
<1>1. ASSUME NEW p \in Handlers, NEW m \in Messages, NEW s \in Data \cup {NoData},
             Start(p, m, s)
      PROVE  Inv'
  BY <1>t, <1>1, StartInv
<1>2. ASSUME NEW p \in Handlers, NEW l \in Early, pc[p] \in Early, Step(p, l),
             stored' = stored, emitted' = emitted
      PROVE  Inv'
  <2>1. existing[p] = {}
    BY <1>e, <1>2, Zenon DEF HandlerInv
  <2>2. OnlyMoves(p) /\ pc'[p] = l /\ existing' = existing
    BY <1>2, StepMoves, ZenonT(30) DEF Inv
  <2> QED BY <1>t, <1>2, <2>1, <2>2, EarlyStep, Zenon
<1>3. ASSUME NEW p \in Handlers, VerifyParent(p) PROVE Inv'
  BY <1>t, <1>2, <1>3, AnswerStep, Zenon DEF VerifyParent, Early, store
<1>4. ASSUME NEW p \in Handlers, FetchExisting(p) PROVE Inv'
  BY <1>t, <1>4, FetchExistingInv
<1>5. ASSUME NEW p \in Handlers, UpdateData(p) \/ CloneData(p) PROVE Inv'
  BY <1>t, <1>5, AnswerStep, ReadyStep DEF UpdateData, CloneData, Ready, store
<1>6. ASSUME NEW p \in Handlers, PutMessage(p) PROVE Inv'
  BY <1>t, <1>6, PutMessageInv
<1> USE DEF Late, Early, Ready, Cleaning, Steps, WriteSteps, DeleteSteps
<1>7. ASSUME NEW p \in Handlers, LogEvent(p) PROVE Inv'
  BY <1>t, <1>7, LateStep DEF LogEvent, store
<1>8. ASSUME NEW p \in Handlers, EmitEvent(p) PROVE Inv'
  <2> PICK m : m = req[p]
    OBVIOUS
  <2>1. m \in Messages /\ Covered(m) /\ pc[p] \in Late
    BY <1>e, <1>8, Zenon DEF EmitEvent, HandlerInv, Inv, TypeOK
  <2>2. stored' = stored /\ emitted' = emitted \cup {m}
    BY <1>8 DEF EmitEvent, store
  <2>3. StoredKept /\ StoreInv'
    BY <2>1, <2>2
       DEF StoredKept, Inv, StoreInv, InitialRetained, EmittedInv, Rooted, Covered, SameParent
  <2>4. CASE Step(p, "children")
    <3>1. OnlyMoves(p) /\ pc'[p] = "children" /\ existing' = existing /\ req' = req
      BY <2>4, StepMoves DEF Inv
    <3>2. HandlerInv(p)'
      BY <2>1, <2>3, <3>1, LateHandler
    <3> QED BY <1>t, <2>3, <3>1, <3>2, InvParts
  <2>5. CASE \/ Proceed(p, existing[p], "archive", WriteReply(p))
             \/ Proceed(p, existing[p], "earlier_data", "accepted")
    BY <1>t, <2>1, <2>3, <2>5, LateProceed
  <2> QED BY <1>8, <2>4, <2>5 DEF EmitEvent
<1>9. ASSUME NEW p \in Handlers, ArchiveInitial(p) PROVE Inv'
  <2>1. PICK e \in existing[p] : stored' = stored \cup {e}
    BY <1>9 DEF ArchiveInitial, StorePut
  <2>2. StoredKept /\ StoreInv'
    BY <1>9, <2>1, RestoreEntry DEF ArchiveInitial
  <2>3. /\ OnlyMoves(p) /\ pc'[p] = "archive_log" /\ existing' = existing
        /\ req' = req
    BY <1>9, StepMoves DEF ArchiveInitial, Inv
  <2>4. HandlerInv(p)'
    BY <1>9, <2>2, <2>3, LateHandler DEF ArchiveInitial
  <2> QED BY <1>t, <2>2, <2>3, <2>4, InvParts
<1>10. ASSUME NEW p \in Handlers, LogInitial(p) \/ DeleteInitialData(p) PROVE Inv'
  <2>1. PICK e \in existing[p] :
          /\ IsEarliest(e, existing[p])
          /\ \/ Step(p, "archive_data")
             \/ Proceed(p, existing[p] \ {e}, "delete", WriteReply(p))
    BY <1>10 DEF LogInitial, DeleteInitialData
  <2>2. stored' = stored /\ emitted' = emitted /\ pc[p] \in Late
    BY <1>10 DEF LogInitial, DeleteInitialData, store
  <2>3. CASE Step(p, "archive_data")
    BY <1>t, <2>2, <2>3, LateStep
  <2>4. CASE Proceed(p, existing[p] \ {e}, "delete", WriteReply(p))
    <3>1. \A n \in existing[p] \ {e} : StrictRooted(n)
      BY <2>1, RestIsRooted
    <3>2. StoredKept /\ StoreInv'
      BY <2>2, StoreSame
    <3> QED BY <1>t, <2>2, <2>4, <3>1, <3>2, LateProceed
  <2> QED BY <2>1, <2>3, <2>4, Zenon
<1>11. ASSUME NEW p \in Handlers, DeletePrevious(p) PROVE Inv'
  <2>1. pc[p] = "delete" /\ emitted' = emitted
    BY <1>11 DEF DeletePrevious
  <2>2. PICK n \in existing[p] :
          \/ Answer(p, "error") /\ UNCHANGED store
          \/ StoreDelete(n) /\ Step(p, "delete_data")
    BY <1>11 DEF DeletePrevious
  <2>3. CASE Answer(p, "error") /\ UNCHANGED store
    BY <1>t, <2>1, <2>3, AnswerStep DEF store
  <2>4. CASE StoreDelete(n) /\ Step(p, "delete_data")
    <3>1. \A x \in existing[p] : StrictRooted(x)
      BY <1>e, <2>1 DEF HandlerInv
    <3>2. StoredKept /\ StoreInv'
      BY <2>1, <2>4, <3>1, StoreRemove DEF StoreDelete
    <3>3. /\ OnlyMoves(p) /\ pc'[p] = "delete_data" /\ existing' = existing
          /\ req' = req
      BY <2>4, StepMoves DEF Inv
    <3>4. HandlerInv(p)'
      BY <2>1, <3>1, <3>2, <3>3, LateHandler
    <3> QED BY <1>t, <3>2, <3>3, <3>4, InvParts
  <2> QED BY <2>2, <2>3, <2>4
<1>12. ASSUME NEW p \in Handlers, DeletePreviousData(p) PROVE Inv'
  <2>1. \A x \in existing[p] : StrictRooted(x)
    BY <1>e, <1>12, Zenon DEF HandlerInv, DeletePreviousData
  <2> QED BY <1>t, <1>12, <2>1, LateStep, Zenon DEF DeletePreviousData, store
<1>13. ASSUME NEW p \in Handlers, UnlogPrevious(p) PROVE Inv'
  <2>1. \A x \in existing[p] : StrictRooted(x)
    BY <1>e, <1>13 DEF HandlerInv, UnlogPrevious
  <2>2. StoredKept /\ StoreInv'
    BY <1>13, StoreSame DEF UnlogPrevious, store
  <2>3. PICK n \in existing[p] : Proceed(p, existing[p] \ {n}, "delete", WriteReply(p))
    BY <1>13, Zenon DEF UnlogPrevious
  <2>4. pc[p] \in Late
    BY <1>13, Zenon DEF UnlogPrevious
  <2> QED BY <1>t, <2>1, <2>2, <2>3, <2>4, LateProceed, Zenon
<1>14. ASSUME NEW p \in Handlers, FetchActive(p) PROVE Inv'
  BY <1>t, <1>2, <1>14, AnswerStep DEF FetchActive, store
<1>15. ASSUME NEW p \in Handlers, FetchEntries(p) PROVE Inv'
  BY <1>t, <1>15, FetchEntriesInv
<1>16. ASSUME NEW p \in Handlers, DeleteChildren(p) PROVE Inv'
  <2>1. StoredKept /\ StoreInv'
    BY <1>16, StoreSame, Zenon DEF DeleteChildren, store
  <2> QED BY <1>t, <1>16, <2>1, LateProceed DEF DeleteChildren
<1>17. ASSUME NEW p \in Handlers, DeleteEarlierData(p) PROVE Inv'
  BY <1>t, <1>17, AnswerStep, LateStep DEF DeleteEarlierData, store
<1>18. ASSUME NEW p \in Handlers, DeleteEarlier(p) PROVE Inv'
  <2>1. pc[p] = "earlier" /\ emitted' = emitted
    BY <1>18, Zenon DEF DeleteEarlier
  <2>2. PICK n \in existing[p] :
          \/ /\ stored' = stored \cup {n}
             /\ Proceed(p, existing[p] \ {n}, "earlier_data", "accepted")
          \/ ~n.initial /\ stored' = stored \ {n} /\ Step(p, "earlier_log")
    BY <1>18 DEF DeleteEarlier, StorePut, StoreDelete
  <2>3. CASE /\ stored' = stored \cup {n}
             /\ Proceed(p, existing[p] \ {n}, "earlier_data", "accepted")
    <3>1. StoredKept /\ StoreInv'
      BY <2>1, <2>3, RestoreEntry
    <3> QED BY <1>t, <2>1, <2>3, <3>1, LateProceed
  <2>4. CASE ~n.initial /\ stored' = stored \ {n} /\ Step(p, "earlier_log")
    <3>1. StrictRooted(n)
      BY <1>e, <2>4 DEF HandlerInv, RootedAt, StrictRooted, IsInitialWrite, NoLater
    <3>2. StoredKept /\ StoreInv'
      BY <2>1, <2>4, <3>1, StoreRemove
    <3>3. /\ OnlyMoves(p) /\ pc'[p] = "earlier_log" /\ existing' = existing
          /\ req' = req
      BY <2>4, StepMoves DEF Inv
    <3>4. HandlerInv(p)'
      BY <2>1, <3>2, <3>3, LateHandler
    <3> QED BY <1>t, <3>2, <3>3, <3>4, InvParts
  <2> QED BY <2>2, <2>3, <2>4
<1>19. ASSUME NEW p \in Handlers, UnlogEarlier(p) PROVE Inv'
  <2>1. StoredKept /\ StoreInv'
    BY <1>19, StoreSame DEF UnlogEarlier, store
  <2> QED BY <1>t, <1>19, <2>1, LateProceed DEF UnlogEarlier
<1>20. ASSUME NEW p \in Handlers, Abandon(p) \/ TaskTimeout(p) \/ Refuse(p)
       PROVE  Inv'
  BY <1>t, <1>20, AnswerStep DEF Abandon, TaskTimeout, Refuse, store
<1> QED
  BY <1>0, <1>1, <1>3, <1>4, <1>5, <1>6, <1>7, <1>8, <1>9, <1>10, <1>11, <1>12,
     <1>13, <1>14, <1>15, <1>16, <1>17, <1>18, <1>19, <1>20
     DEF Next, Handle, Work

\* Inv always holds.
LEMMA InvAlways == Spec => []Inv
<1>1. Init => Inv
  <2> SUFFICES ASSUME Init PROVE Inv
    OBVIOUS
  <2>1. TypeOK
    BY ConstantsAssumption DEF Init, TypeOK, Steps, WriteSteps, DeleteSteps
  <2>2. StoreInv
    BY DEF Init, StoreInv, InitialRetained, EmittedInv
  <2>3. ASSUME NEW p \in Handlers PROVE HandlerInv(p)
    BY DEF Init, HandlerInv, Early, Ready, Late, Cleaning
  <2> QED BY <2>1, <2>2, <2>3 DEF Inv
<1> QED BY <1>1, InvStep, PTL DEF Spec

\* The initial write a stored message relies on is never cleaned up, for any
\* number of handlers and however they interleave or are dropped.
THEOREM InitialIsRetained == Spec => []InitialRetained
<1>1. Inv => InitialRetained
  BY DEF Inv, StoreInv
<1> QED BY <1>1, InvAlways, PTL

\* All the writes stored for a record agree on the immutable properties.
THEOREM ImmutablesAgree == Spec => []ImmutableAgree
<1>1. Inv => ImmutableAgree
  <2> SUFFICES ASSUME Inv, NEW m \in stored, NEW n \in stored,
                      m.kind = "write", n.kind = "write", m.record = n.record
               PROVE  m.parent = n.parent
    BY DEF ImmutableAgree
  <2>1. PICK i \in stored : IsInitialWrite(i) /\ i.record = m.record
    BY DEF Inv, StoreInv, InitialRetained, Rooted
  <2> QED BY <2>1 DEF Inv, TypeOK, StoreInv, SameParent
<1> QED BY <1>1, InvAlways, PTL

-----------------------------------------------------------------------------
(* Records implements LatestWins.                                          *)

\* Removing a message another one supersedes does not change what is settled.
LEMMA RemoveSettled ==
    ASSUME Inv, NEW p \in Handlers, pc[p] \in Late, NEW x \in existing[p],
           stored' = stored \ {x}
    PROVE  Settled' = Settled
<1>1. HandlerInv(p) /\ stored \subseteq Messages /\ x \in Messages /\ req[p] \in Messages
  BY DEF Inv, TypeOK, Late, Early
<1>2. PICK c \in stored : c.record = req[p].record /\ NoLater(req[p], c)
  BY <1>1, Zenon DEF HandlerInv, Covered
<1>3. c.record = x.record /\ Precedes(x, c) /\ c \in stored'
  BY <1>1, <1>2, OrderFacts, Zenon DEF HandlerInv
<1>4. ASSUME NEW m \in Messages PROVE Covered(m)' <=> Covered(m)
  <2>1. Covered(m)' => Covered(m)
    BY DEF Covered
  <2>2. ASSUME Covered(m) PROVE Covered(m)'
    <3>1. PICK j \in stored : j.record = m.record /\ NoLater(m, j)
      BY <2>2 DEF Covered
    <3>2. CASE j # x
      BY <3>1, <3>2 DEF Covered
    <3>3. CASE j = x
      <4>1. NoLater(m, c)
        BY <1>1, <1>3, <3>1, <3>3, OrderFacts DEF NoLater
      <4> QED BY <1>3, <3>1, <3>3, <4>1, Zenon DEF Covered
    <3> QED BY <3>2, <3>3
  <2> QED BY <2>1, <2>2
<1> QED BY <1>4 DEF Settled

\* Adding a message settles it and everything it supersedes.
LEMMA AddSettled ==
    ASSUME Inv, NEW x \in Messages, stored' = stored \cup {x}
    PROVE  Settled' = [Settled EXCEPT ![x.record] = @ \cup Register!Down(x)]
<1>1. stored \subseteq Messages /\ x.record \in Record
  BY MessageFields DEF Inv, TypeOK
<1>2. ASSUME NEW m \in Messages
      PROVE  Covered(m)' <=> Covered(m) \/ (m.record = x.record /\ NoLater(m, x))
  BY DEF Covered
<1>3. ASSUME NEW m \in Messages
      PROVE  m \in Register!Down(x) <=> m.record = x.record /\ NoLater(m, x)
  BY DEF Register!Down, Register!Older, NoLater, Precedes
<1>4. Register!Down(x) \subseteq Messages
  BY DEF Register!Down
<1>5. ASSUME NEW r \in Record
      PROVE  Settled'[r] = IF r = x.record THEN Settled[r] \cup Register!Down(x)
                                           ELSE Settled[r]
  BY <1>2, <1>3, <1>4 DEF Settled
<1> QED BY <1>1, <1>5, Zenon DEF Settled

\* Adding a message that is covered already settles nothing new.
LEMMA RestoreSettled ==
    ASSUME Inv, NEW p \in Handlers, pc[p] \in Late, NEW x \in existing[p],
           stored' = stored \cup {x}
    PROVE  Settled' = Settled
<1>1. HandlerInv(p) /\ stored \subseteq Messages /\ x \in Messages /\ req[p] \in Messages
  BY DEF Inv, TypeOK, Late, Early
<1>2. PICK c \in stored : c.record = req[p].record /\ NoLater(req[p], c)
  BY <1>1 DEF HandlerInv, Covered
<1>3. c.record = x.record /\ Precedes(x, c)
  BY <1>1, <1>2, OrderFacts, Zenon DEF HandlerInv
<1>4. ASSUME NEW m \in Messages PROVE Covered(m)' <=> Covered(m)
  <2>1. NoLater(m, x) => NoLater(m, c)
    BY <1>1, <1>3, OrderFacts DEF NoLater
  <2> QED BY <1>2, <1>3, <2>1 DEF Covered
<1> QED BY <1>4 DEF Settled

\* The put of a handler's message is a step of the register, or settles nothing.
LEMMA PutIsAccept ==
    ASSUME Inv, NEW p \in Handlers, PutMessage(p)
    PROVE  Register!Next \/ Settled' = Settled
<1> PICK m : m = req[p]
  OBVIOUS
<1>1. m \in Messages /\ HandlerInv(p) /\ pc[p] = "put" /\ stored \subseteq Messages
  BY DEF Inv, TypeOK, PutMessage
<1>2. stored' = stored \cup {m}
  BY DEF PutMessage, StorePut
<1>4. CASE Covered(m)
  <2>1. PICK c \in stored : c.record = m.record /\ NoLater(m, c)
    BY <1>4 DEF Covered
  <2>2. ASSUME NEW n \in Messages PROVE Covered(n)' <=> Covered(n)
    <3>1. NoLater(n, m) => NoLater(n, c)
      BY <1>1, <2>1, OrderFacts
    <3> QED BY <1>2, <2>1, <3>1, Zenon DEF Covered
  <2> QED BY <2>2 DEF Settled
<1>5. CASE ~Covered(m)
  <2>1. m \notin Settled[m.record]
    BY <1>1, <1>5, MessageFields DEF Settled
  <2>2. ASSUME Settled[m.record] = {} PROVE m.initial
    <3>1. ~Rooted(m)
      <4> SUFFICES ASSUME NEW i \in stored, i.record = m.record PROVE FALSE
        BY DEF Rooted
      <4>1. i \in Settled[m.record]
        BY <1>1, MessageFields DEF Settled, Covered, NoLater
      <4> QED BY <2>2, <4>1
    <3> QED BY <1>1, <3>1, Zenon DEF HandlerInv, Ready, IsInitialWrite
  <2>3. Settled' = [Settled EXCEPT ![m.record] = @ \cup Register!Down(m)]
    BY <1>1, <1>2, AddSettled
  <2> QED BY <1>1, <2>1, <2>2, <2>3, Zenon DEF Register!Next, Register!Accept
<1> QED BY <1>4, <1>5

\* Settled depends on what is stored only.
LEMMA StoredSameSettled ==
    ASSUME stored' = stored
    PROVE  Settled' = Settled
BY DEF Settled, Covered

\* Every step is a step of the register, or settles nothing.
LEMMA RegisterStep == Inv /\ [Next]_vars => [Register!Next]_Settled
<1> SUFFICES ASSUME Inv, [Next]_vars PROVE Register!Next \/ Settled' = Settled
  OBVIOUS
<1>1. CASE stored' = stored
  BY <1>1, StoredSameSettled
<1>2. ASSUME NEW p \in Handlers, PutMessage(p) PROVE Register!Next \/ Settled' = Settled
  BY <1>2, PutIsAccept
<1> USE DEF Late, Early, Ready, Steps, WriteSteps, DeleteSteps
<1>3. ASSUME NEW p \in Handlers, ArchiveInitial(p) PROVE Settled' = Settled
  BY <1>3, RestoreSettled DEF ArchiveInitial, StorePut
<1>4. ASSUME NEW p \in Handlers, DeletePrevious(p) PROVE Settled' = Settled
  BY <1>4, RemoveSettled, StoredSameSettled DEF DeletePrevious, StoreDelete, store
<1>5. ASSUME NEW p \in Handlers, DeleteEarlier(p) PROVE Settled' = Settled
  BY <1>5, RestoreSettled, RemoveSettled, Zenon DEF DeleteEarlier, StorePut, StoreDelete
<1>6. CASE UNCHANGED vars
  BY <1>1, <1>6 DEF vars
<1>7. ASSUME NEW p \in Handlers, NEW m, NEW s, Start(p, m, s) PROVE stored' = stored
  BY <1>7 DEF Start, store
<1>8. ASSUME NEW p \in Handlers,
             \/ VerifyParent(p) \/ FetchExisting(p) \/ UpdateData(p) \/ CloneData(p)
             \/ LogEvent(p) \/ EmitEvent(p) \/ LogInitial(p) \/ DeleteInitialData(p)
             \/ DeletePreviousData(p) \/ UnlogPrevious(p) \/ FetchActive(p)
             \/ FetchEntries(p) \/ DeleteChildren(p) \/ DeleteEarlierData(p)
             \/ UnlogEarlier(p) \/ Abandon(p) \/ TaskTimeout(p) \/ Refuse(p)
      PROVE  stored' = stored
  BY <1>8, Zenon
     DEF VerifyParent, FetchExisting, UpdateData, CloneData, LogEvent, EmitEvent,
         LogInitial, DeleteInitialData, DeletePreviousData, UnlogPrevious, FetchActive,
         FetchEntries, DeleteChildren, DeleteEarlierData, UnlogEarlier, Abandon,
         TaskTimeout, Refuse, store
<1> QED
  BY <1>1, <1>2, <1>3, <1>4, <1>5, <1>6, <1>7, <1>8 DEF Next, Handle, Work

\* For any number of handlers, however they interleave or are dropped, the node
\* implements registers in which the latest message wins.
THEOREM Implements == Spec => LatestWinsSpec
<1>1. Init => Register!Init
  BY DEF Init, Register!Init, Settled, Covered
<1> QED BY <1>1, RegisterStep, InvAlways, PTL DEF Spec, LatestWinsSpec, Register!Spec
-----------------------------------------------------------------------------
(* The event log.                                                          *)

LogCovered == \A m \in eventLog : Covered(m)

\* What is stored or superseded stays so.
LEMMA CoveredStays ==
    ASSUME [Register!Next]_Settled, NEW m \in Messages, Covered(m)
    PROVE  Covered(m)'
<1>1. m \in Settled[m.record] /\ m.record \in Record
  BY MessageFields DEF Settled
<1>2. m \in Settled'[m.record]
  <2>1. CASE Settled' = Settled
    BY <1>1, <2>1
  <2>2. CASE Register!Next
    <3>1. PICK x \in Messages :
            Settled' = [Settled EXCEPT ![x.record] = @ \cup Register!Down(x)]
      BY <2>2, Zenon DEF Register!Next, Register!Accept
    <3>2. DOMAIN Settled = Record
      BY DEF Settled
    <3> HIDE DEF Settled
    <3> QED BY <1>1, <3>1, <3>2
  <2> QED BY <2>1, <2>2
<1> QED BY <1>1, <1>2 DEF Settled

\* Only what is stored or superseded is logged, and handlers that come later
\* keep it so.
LEMMA LogCoveredStep == Inv /\ LogCovered /\ [Next]_vars => LogCovered'
<1> SUFFICES ASSUME Inv, LogCovered, [Next]_vars, NEW m \in eventLog' PROVE Covered(m)'
  BY DEF LogCovered
<1>1. m \in eventLog \/ \E p \in Handlers : pc[p] \in Late /\ m \in existing[p] \cup {req[p]}
  <2>1. ASSUME NEW p \in Handlers, LogEvent(p) \/ LogInitial(p)
        PROVE  pc[p] \in Late /\ (m \in eventLog \/ m \in existing[p] \cup {req[p]})
    <3>1. pc[p] \in Late
      BY <2>1 DEF LogEvent, LogInitial, Late, Early, Ready, Steps, WriteSteps, DeleteSteps
    <3>2. m \in eventLog \/ m = req[p] \/ m \in existing[p]
      BY <2>1, Zenon DEF LogEvent, LogInitial
    <3> QED BY <3>1, <3>2
  <2>2. ASSUME NEW p \in Handlers,
               \/ VerifyParent(p) \/ FetchExisting(p) \/ UpdateData(p) \/ CloneData(p)
               \/ PutMessage(p) \/ EmitEvent(p) \/ ArchiveInitial(p) \/ DeleteInitialData(p)
               \/ DeletePrevious(p) \/ DeletePreviousData(p) \/ FetchActive(p)
               \/ FetchEntries(p) \/ DeleteChildren(p) \/ DeleteEarlierData(p)
               \/ DeleteEarlier(p) \/ Abandon(p) \/ TaskTimeout(p) \/ Refuse(p)
        PROVE  m \in eventLog
    BY <2>2, Zenon
       DEF VerifyParent, FetchExisting, UpdateData, CloneData, PutMessage, EmitEvent,
           ArchiveInitial, DeleteInitialData, DeletePrevious, DeletePreviousData,
           FetchActive, FetchEntries, DeleteChildren, DeleteEarlierData, DeleteEarlier,
           Abandon, TaskTimeout, Refuse
  <2>3. ASSUME NEW p \in Handlers, UnlogPrevious(p) \/ UnlogEarlier(p) PROVE m \in eventLog
    BY <2>3, Zenon DEF UnlogPrevious, UnlogEarlier
  <2>4. ASSUME NEW p \in Handlers, NEW x, NEW s, Start(p, x, s) PROVE m \in eventLog
    BY <2>4 DEF Start
  <2>5. CASE UNCHANGED vars
    BY <2>5 DEF vars
  <2> QED BY <2>1, <2>2, <2>3, <2>4, <2>5, Zenon DEF Next, Handle, Work
<1>2. CASE m \in eventLog
  BY <1>2, RegisterStep, CoveredStays DEF LogCovered, Inv, TypeOK
<1>3. ASSUME NEW p \in Handlers, pc[p] \in Late, m \in existing[p] \cup {req[p]}
      PROVE  Covered(m)'
  <2>1. HandlerInv(p) /\ stored \subseteq Messages /\ m \in Messages /\ req[p] \in Messages
    BY <1>3 DEF Inv, TypeOK, Late, Early
  <2>2. PICK c \in stored : c.record = req[p].record /\ NoLater(req[p], c)
    BY <1>3, <2>1, Zenon DEF HandlerInv, Covered
  <2>3. Covered(m)
    <3>1. CASE m = req[p]
      BY <2>2, <3>1 DEF Covered
    <3>2. CASE m \in existing[p]
      <4>1. c.record = m.record /\ Precedes(m, c)
        BY <2>1, <2>2, <3>2, OrderFacts DEF HandlerInv
      <4> QED BY <2>2, <4>1 DEF Covered, NoLater
    <3> QED BY <1>3, <3>1, <3>2
  <2> QED BY <2>1, <2>3, RegisterStep, CoveredStays
<1> QED BY <1>1, <1>2, <1>3

\* A message that was emitted, or that the event log lists, is stored, or a
\* newer one of its record is.
THEOREM EmittedIsCovered == Spec => []EmittedCovered
<1>1. Init => LogCovered
  BY DEF Init, LogCovered
<1>2. Inv /\ LogCovered => EmittedCovered
  BY DEF Inv, StoreInv, EmittedInv, LogCovered, EmittedCovered
<1> QED BY <1>1, <1>2, LogCoveredStep, InvAlways, PTL DEF Spec
=============================================================================

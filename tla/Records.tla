------------------------------ MODULE Records ------------------------------
(***************************************************************************)
(* The RecordsWrite and RecordsDelete handlers of one web node owner, over *)
(* the message store, the data store, the event log and the event stream.  *)
(*                                                                         *)
(* The handlers are async functions that share the provider and hold no    *)
(* lock, so two of them interleave at every await.  A handler is a process *)
(* whose actions are the stretches of code between two awaits that touch a *)
(* store.  With one handler the module is the sequential node.             *)
(*                                                                         *)
(* The constant Messages is the set of messages the node can be sent.  Any *)
(* of them may arrive at any time, in any order and more than once, and    *)
(* may be refused by its authorization and its integrity checks, which the *)
(* module Node adds.                                                       *)
(***************************************************************************)
EXTENDS Naturals, FiniteSets, MessageOrder

CONSTANTS
    Messages,   \* the RecordsWrite and RecordsDelete messages
    Record,     \* record ids
    Data,       \* data CIDs, each standing for the bytes it is the CID of
    LargeData,  \* those whose size exceeds MAX_ENCODED_SIZE
    NoData,     \* no data: a write sent without a stream, an absent root block
    NoRecord,   \* no parent
    NoMessage,  \* no request
    Handlers,   \* the requests being handled at once
    Abandons    \* whether a handler may be dropped before it is done

\* What the handlers look at.  A message may have more fields, which matter to
\* its authorization.
IsMessage(m) ==
    /\ m.kind \in {"write", "delete"} /\ m.record \in Record
    /\ m.ts \in Nat /\ m.cid \in Nat
    /\ m.initial \in BOOLEAN /\ m.prune \in BOOLEAN
    /\ m.data \in Data \cup {NoData} /\ m.parent \in Record \cup {NoRecord}

\* A message is identified by its CID.  The record id of a write is the hash of
\* the descriptor and the author of its initial write, so initial writes of one
\* record differ in their signatures only.
ASSUME MessagesAssumption ==
    /\ \A m \in Messages : IsMessage(m)
    /\ \A m, n \in Messages : m.cid = n.cid => m = n
    /\ \A m \in Messages :
         IF m.kind = "write" THEN m.data \in Data /\ ~m.prune
                             ELSE m.data = NoData /\ ~m.initial
    /\ \A m, n \in Messages :
         m.initial /\ n.initial /\ m.record = n.record
           => m.ts = n.ts /\ m.data = n.data /\ m.parent = n.parent

ASSUME ConstantsAssumption ==
    /\ LargeData \subseteq Data
    /\ NoData \notin Data
    /\ NoRecord \notin Record
    /\ NoMessage \notin Messages
    /\ Abandons \in BOOLEAN

VARIABLES
    stored,     \* messages in the message store
    archived,   \* those of them indexed with initial = "true"
    encoded,    \* those of them stored with their data inline (encoded_data)
    roots,      \* data store: the data found under (record id, data CID)
    eventLog,   \* messages in the event log
    emitted,    \* messages ever handed to the event stream
    pc,         \* where each handler is
    req,        \* the message each handler was given
    stream,     \* the bytes sent along with it
    existing,   \* the entries the handler fetched and has still to deal with
    existingEncoded, \* those of them fetched with their data inline
    reply       \* the answer given in the last step, "none" if it gave none

store == <<stored, archived, encoded>>
local == <<req, stream>>
fetched == <<existing, existingEncoded>>
vars == <<stored, archived, encoded, roots, eventLog, emitted,
          pc, req, stream, existing, existingEncoded, reply>>

-----------------------------------------------------------------------------
(* The entries of a record, and its kinds of messages.                     *)

ExistingEntries(r) == {n \in stored : n.record = r}

ActiveEntries(r) == {n \in stored \ archived : n.record = r}

IsInitialWrite(m) == m.kind = "write" /\ m.initial

Large(m) == m.data \in LargeData
-----------------------------------------------------------------------------
(* Control flow of a handler.                                              *)

Goto(p, l) == pc' = [pc EXCEPT ![p] = l]

\* The handler returns: it answers r and its local state is gone.
Answer(p, r) ==
    /\ Goto(p, "idle")
    /\ reply' = r
    /\ existing' = [existing EXCEPT ![p] = {}]
    /\ existingEncoded' = [existingEncoded EXCEPT ![p] = {}]
    /\ stream' = [stream EXCEPT ![p] = NoData]
    /\ req' = [req EXCEPT ![p] = NoMessage]

\* Go on with the entries in S, or answer r when none are left.
Proceed(p, S, l, r) ==
    \/ S = {} /\ Answer(p, r)
    \/ /\ S # {}
       /\ Goto(p, l)
       /\ existing' = [existing EXCEPT ![p] = S]
       /\ reply' = "none"
       /\ UNCHANGED <<existingEncoded, local>>

Step(p, l) == Goto(p, l) /\ reply' = "none" /\ UNCHANGED <<fetched, local>>

\* An initial write without data is kept but not queryable.
NoContent(p) == stream[p] = NoData /\ IsInitialWrite(req[p])

WriteReply(p) == IF NoContent(p) THEN "no_content" ELSE "accepted"

\* The message to be stored carries its data: taken from the stream or cloned
\* from the latest entry.
Inline(p) ==
    /\ req[p].kind = "write"
    /\ ~Large(req[p])
    /\ ~NoContent(p)
-----------------------------------------------------------------------------
(* The stores.                                                             *)

\* MessageStore::put of a message, replacing the block and the indexes.
StorePut(m, isArchived, isEncoded) ==
    /\ stored' = stored \cup {m}
    /\ archived' = IF isArchived THEN archived \cup {m} ELSE archived \ {m}
    /\ encoded' = IF isEncoded THEN encoded \cup {m} ELSE encoded \ {m}

\* Mutant of StoreDelete: the block survives the removal of its indexes.
StoreDeleteBlockLeft(m) ==
    /\ stored' = stored \ {m}
    /\ archived' = archived \ {m}
    /\ UNCHANGED encoded

StoreDelete(m) ==
    /\ stored' = stored \ {m}
    /\ archived' = archived \ {m}
    /\ encoded' = encoded \ {m}

\* DataStore::put under a key that is taken: the block store either keeps the
\* block it has or replaces it.
DataPut(r, d, bytes) ==
    \E b \in {bytes, roots[<<r, d>>]} \ {NoData} :
        roots' = [roots EXCEPT ![<<r, d>>] = b]

DataDelete(r, d) == roots' = [roots EXCEPT ![<<r, d>>] = NoData]
-----------------------------------------------------------------------------
Init ==
    /\ stored = {} /\ archived = {} /\ encoded = {}
    /\ roots = [k \in Record \X Data |-> NoData]
    /\ eventLog = {}
    /\ emitted = {}
    /\ pc = [p \in Handlers |-> "idle"]
    /\ req = [p \in Handlers |-> NoMessage]
    /\ stream = [p \in Handlers |-> NoData]
    /\ existing = [p \in Handlers |-> {}]
    /\ existingEncoded = [p \in Handlers |-> {}]
    /\ reply = "none"

\* A request arrives.  A write comes with the bytes s or without any; bytes that
\* are not the data the descriptor names stand for a damaged upload.
Start(p, m, s) ==
    /\ pc[p] = "idle"
    /\ m.kind = "delete" => s = NoData
    /\ req' = [req EXCEPT ![p] = m]
    /\ stream' = [stream EXCEPT ![p] = s]
    /\ reply' = "none"
    /\ Goto(p, IF m.kind = "delete" THEN "active"
               ELSE IF m.parent # NoRecord THEN "parent" ELSE "fetch")
    /\ UNCHANGED <<store, roots, eventLog, emitted, fetched>>
\* The request is turned down: a write by `authorize` or `verify_integrity`,
\* before the entries of its record are fetched; a delete by `authorize`, before
\* its task.
Refuse(p) ==
    /\ pc[p] \in {"parent", "fetch", "task"}
    /\ Answer(p, "error")
    /\ UNCHANGED <<store, roots, eventLog, emitted>>
-----------------------------------------------------------------------------
(* RecordsWrite                                                            *)

\* The parent must have an active write.
VerifyParent(p) ==
    /\ pc[p] = "parent"
    /\ IF \E n \in ActiveEntries(req[p].parent) : n.kind = "write"
         THEN Step(p, "fetch")
         ELSE Answer(p, "error")
    /\ UNCHANGED <<store, roots, eventLog, emitted>>

\* Mutants of Admissible: a record may start with any write; the timestamps are
\* not compared; the immutable properties are not; an update of a deleted record
\* is let through.
AdmissibleAnyFirst(m, S) ==
    \/ S = {}
    \/ \E e, l \in S :
         /\ IsEarliest(e, S) /\ IsInitialWrite(e) /\ e.parent = m.parent
         /\ IsLatest(l, S) /\ Precedes(l, m) /\ l.kind = "write"

AdmissibleOutdated(m, S) ==
    \/ S = {} /\ m.initial
    \/ \E e, l \in S :
         /\ IsEarliest(e, S) /\ IsInitialWrite(e) /\ e.parent = m.parent
         /\ IsLatest(l, S) /\ l # m /\ l.kind = "write"

AdmissibleAnyParent(m, S) ==
    \/ S = {} /\ m.initial
    \/ \E e, l \in S :
         /\ IsEarliest(e, S) /\ IsInitialWrite(e)
         /\ IsLatest(l, S) /\ Precedes(l, m) /\ l.kind = "write"

AdmissibleDeleted(m, S) ==
    \/ S = {} /\ m.initial
    \/ \E e, l \in S :
         /\ IsEarliest(e, S) /\ IsInitialWrite(e) /\ e.parent = m.parent
         /\ IsLatest(l, S) /\ Precedes(l, m)

\* The checks of a write m against the entries S of its record: the earliest is
\* the initial write and agrees on the immutable properties, the latest is a
\* write that precedes m.
Admissible(m, S) ==
    \/ S = {} /\ m.initial
    \/ \E e, l \in S :
         /\ IsEarliest(e, S) /\ IsInitialWrite(e) /\ e.parent = m.parent
         /\ IsLatest(l, S) /\ Precedes(l, m) /\ l.kind = "write"

\* Where the data of an admissible write comes from, as far as the message and
\* the latest entry tell: the next step, or "error".
DataSource(m, s, S) ==
    IF s # NoData
      THEN IF Large(m) THEN "data_put" ELSE IF s = m.data THEN "put" ELSE "error"
    ELSE IF m.initial THEN "put"
    ELSE IF \A l \in S : IsLatest(l, S) => l.data # m.data THEN "error"
    ELSE IF Large(m) THEN "data_get"
    ELSE IF \A l \in S : IsLatest(l, S) => l \notin encoded THEN "error"
    ELSE "put"

FetchExisting(p) ==
    LET m == req[p]
        S == ExistingEntries(m.record)
        l == DataSource(m, stream[p], S)
    IN  /\ pc[p] = "fetch"
        /\ IF Admissible(m, S) /\ l # "error"
             THEN /\ Goto(p, l)
                  /\ existing' = [existing EXCEPT ![p] = S]
                  /\ existingEncoded' = [existingEncoded EXCEPT ![p] = S \cap encoded]
                  /\ reply' = "none"
                  /\ UNCHANGED local
             ELSE Answer(p, "error")
        /\ UNCHANGED <<store, roots, eventLog, emitted>>

\* Large data goes to the data store first and is verified afterwards.
UpdateData(p) ==
    /\ pc[p] = "data_put"
    /\ DataPut(req[p].record, req[p].data, stream[p])
    /\ IF stream[p] = req[p].data THEN Step(p, "put") ELSE Answer(p, "error")
    /\ UNCHANGED <<store, eventLog, emitted>>

\* A write without bytes keeps the large data of the latest entry.
CloneData(p) ==
    /\ pc[p] = "data_get"
    /\ IF roots[<<req[p].record, req[p].data>>] # NoData
         THEN Step(p, "put")
         ELSE Answer(p, "error")
    /\ UNCHANGED <<store, roots, eventLog, emitted>>

\* The message of a write or of a delete is stored, then logged, then emitted.
PutMessage(p) ==
    /\ pc[p] = "put"
    /\ StorePut(req[p], NoContent(p), Inline(p))
    /\ Step(p, "log")
    /\ UNCHANGED <<roots, eventLog, emitted>>

LogEvent(p) ==
    /\ pc[p] = "log"
    /\ eventLog' = eventLog \cup {req[p]}
    /\ Step(p, "emit")
    /\ UNCHANGED <<store, roots, emitted>>

EmitEvent(p) ==
    /\ pc[p] = "emit"
    /\ emitted' = emitted \cup {req[p]}
    /\ \/ req[p].kind = "write" /\ Proceed(p, existing[p], "archive", WriteReply(p))
       \/ req[p].prune /\ Step(p, "children")
       \/ /\ req[p].kind = "delete" /\ ~req[p].prune
          /\ Proceed(p, existing[p], "earlier_data", "accepted")
    /\ UNCHANGED <<store, roots, eventLog>>

\* An update archives the initial write, as it was when it was fetched.
ArchiveInitial(p) ==
    /\ pc[p] = "archive"
    /\ \E e \in existing[p] :
         /\ IsEarliest(e, existing[p])
         /\ StorePut(e, TRUE, e \in existingEncoded[p])
    /\ Step(p, "archive_log")
    /\ UNCHANGED <<roots, eventLog, emitted>>

\* Mutant of LogInitial: the other entries are not deleted.
LogInitialOnly(p) ==
    /\ pc[p] = "archive_log"
    /\ \E e \in existing[p] :
         /\ IsEarliest(e, existing[p])
         /\ eventLog' = eventLog \cup {e}
         /\ Answer(p, WriteReply(p))
    /\ UNCHANGED <<store, roots, emitted>>

LogInitial(p) ==
    /\ pc[p] = "archive_log"
    /\ \E e \in existing[p] :
         /\ IsEarliest(e, existing[p])
         /\ eventLog' = eventLog \cup {e}
         /\ IF stream[p] # NoData
              THEN Step(p, "archive_data")
              ELSE Proceed(p, existing[p] \ {e}, "delete", WriteReply(p))
    /\ UNCHANGED <<store, roots, emitted>>

DeleteInitialData(p) ==
    /\ pc[p] = "archive_data"
    /\ \E e \in existing[p] :
         /\ IsEarliest(e, existing[p])
         /\ DataDelete(e.record, e.data)
         /\ Proceed(p, existing[p] \ {e}, "delete", WriteReply(p))
    /\ UNCHANGED <<store, eventLog, emitted>>

\* Every other entry is deleted, one at a time, in order.  The conversion to a
\* write fails on a RecordsDelete.
DeletePrevious(p) ==
    /\ pc[p] = "delete"
    /\ \E n \in existing[p] :
         /\ IsEarliest(n, existing[p])
         /\ \/ n.kind = "delete" /\ Answer(p, "error") /\ UNCHANGED store
            \/ n.kind = "write" /\ StoreDelete(n) /\ Step(p, "delete_data")
    /\ UNCHANGED <<roots, eventLog, emitted>>

\* Mutant of DeletePreviousData: the data of the new write is deleted.
DeletePreviousDataOfNew(p) ==
    /\ pc[p] = "delete_data"
    /\ DataDelete(req[p].record, req[p].data)
    /\ Step(p, "delete_log")
    /\ UNCHANGED <<store, eventLog, emitted>>

DeletePreviousData(p) ==
    /\ pc[p] = "delete_data"
    /\ \E n \in existing[p] :
         IsEarliest(n, existing[p]) /\ DataDelete(n.record, n.data)
    /\ Step(p, "delete_log")
    /\ UNCHANGED <<store, eventLog, emitted>>

\* Mutant of UnlogPrevious: the event stays in the log.
UnlogPreviousLeft(p) ==
    /\ pc[p] = "delete_log"
    /\ \E n \in existing[p] :
         /\ IsEarliest(n, existing[p])
         /\ Proceed(p, existing[p] \ {n}, "delete", WriteReply(p))
    /\ UNCHANGED <<store, roots, emitted, eventLog>>

UnlogPrevious(p) ==
    /\ pc[p] = "delete_log"
    /\ \E n \in existing[p] :
         /\ IsEarliest(n, existing[p])
         /\ eventLog' = eventLog \ {n}
         /\ Proceed(p, existing[p] \ {n}, "delete", WriteReply(p))
    /\ UNCHANGED <<store, roots, emitted>>
-----------------------------------------------------------------------------
(* RecordsDelete                                                           *)

\* A delete is turned down when the record has no active entry, or when the
\* first of them is a RecordsDelete or is newer than the request.
FetchActive(p) ==
    LET m == req[p]
        S == ActiveEntries(m.record)
    IN  /\ pc[p] = "active"
        /\ \/ S = {} /\ Answer(p, "not_found")
           \/ \E e \in S :
                /\ IsEarliest(e, S)
                /\ \/ /\ e.kind = "delete"
                      /\ Answer(p, IF m.prune /\ ~e.prune THEN "error" ELSE "not_found")
                   \/ e.kind = "write" /\ m.ts < e.ts /\ Answer(p, "error")
                   \/ e.kind = "write" /\ m.ts >= e.ts /\ Step(p, "task")
        /\ UNCHANGED <<store, roots, eventLog, emitted>>

\* Mutant of Deletable: off by one in the number of entries.
DeletableOne(m, S) ==
    /\ Cardinality(S) = 1
    /\ \E e, l \in S :
         /\ IsEarliest(e, S) /\ IsInitialWrite(e)
         /\ IsLatest(l, S) /\ m.ts >= l.ts

\* The checks of the delete task, on all entries of the record.
Deletable(m, S) ==
    /\ Cardinality(S) \in 1..2
    /\ \E e, l \in S :
         /\ IsEarliest(e, S) /\ IsInitialWrite(e)
         /\ IsLatest(l, S) /\ m.ts >= l.ts

\* Whatever the task returns, the request is answered as accepted.
FetchEntries(p) ==
    LET m == req[p]
        S == ExistingEntries(m.record)
    IN  /\ pc[p] = "task"
        /\ IF Deletable(m, S)
             THEN /\ Goto(p, "put")
                  /\ existing' = [existing EXCEPT ![p] = {n \in S : n.ts < m.ts}]
                  /\ existingEncoded' = [existingEncoded EXCEPT ![p] = S \cap encoded]
                  /\ reply' = "none"
                  /\ UNCHANGED local
             ELSE Answer(p, "accepted")
        /\ UNCHANGED <<store, roots, eventLog, emitted>>

\* The children are fetched and grouped, but a group is only added to when it
\* is there already, and none ever is: nothing is purged.
DeleteChildren(p) ==
    /\ pc[p] = "children"
    /\ Proceed(p, existing[p], "earlier_data", "accepted")
    /\ UNCHANGED <<store, roots, eventLog, emitted>>

DeleteEarlierData(p) ==
    /\ pc[p] = "earlier_data"
    /\ \E n \in existing[p] :
         /\ IsEarliest(n, existing[p])
         /\ \/ n.kind = "delete" /\ Answer(p, "accepted") /\ UNCHANGED roots
            \/ n.kind = "write" /\ DataDelete(n.record, n.data) /\ Step(p, "earlier")
    /\ UNCHANGED <<store, eventLog, emitted>>

\* Mutant of DeleteEarlier: the initial write is deleted like the others.
DeleteEarlierInitial(p) ==
    /\ pc[p] = "earlier"
    /\ \E n \in existing[p] :
         IsEarliest(n, existing[p]) /\ StoreDelete(n) /\ Step(p, "earlier_log")
    /\ UNCHANGED <<roots, eventLog, emitted>>

DeleteEarlier(p) ==
    /\ pc[p] = "earlier"
    /\ \E n \in existing[p] :
         /\ IsEarliest(n, existing[p])
         /\ \/ /\ n.initial
               /\ StorePut(n, TRUE, n \in existingEncoded[p])
               /\ Proceed(p, existing[p] \ {n}, "earlier_data", "accepted")
            \/ ~n.initial /\ StoreDelete(n) /\ Step(p, "earlier_log")
    /\ UNCHANGED <<roots, eventLog, emitted>>

UnlogEarlier(p) ==
    /\ pc[p] = "earlier_log"
    /\ \E n \in existing[p] :
         /\ IsEarliest(n, existing[p])
         /\ eventLog' = eventLog \ {n}
         /\ Proceed(p, existing[p] \ {n}, "earlier_data", "accepted")
    /\ UNCHANGED <<store, roots, emitted>>
-----------------------------------------------------------------------------
(* Interruptions                                                           *)

\* The future of a handler is dropped at an await: the node stops, or the
\* client goes away.  Nothing it did is undone and nothing resumes it.
Abandon(p) ==
    /\ Abandons
    /\ pc[p] # "idle"
    /\ Answer(p, "none")
    /\ UNCHANGED <<store, roots, eventLog, emitted>>

\* The delete task takes longer than the extensions of its timeout: it is
\* dropped where it stands, and the request answered as accepted.
TaskTimeout(p) ==
    /\ Abandons
    /\ pc[p] \notin {"idle", "active"}
    /\ req[p].kind = "delete"
    /\ Answer(p, "accepted")
    /\ UNCHANGED <<store, roots, eventLog, emitted>>
-----------------------------------------------------------------------------
\* One step of a handler that is not refused.
Work(p) ==
    \/ VerifyParent(p)
    \/ FetchExisting(p)
    \/ UpdateData(p)
    \/ CloneData(p)
    \/ PutMessage(p)
    \/ LogEvent(p)
    \/ EmitEvent(p)
    \/ ArchiveInitial(p)
    \/ LogInitial(p)
    \/ DeleteInitialData(p)
    \/ DeletePrevious(p)
    \/ DeletePreviousData(p)
    \/ UnlogPrevious(p)
    \/ FetchActive(p)
    \/ FetchEntries(p)
    \/ DeleteChildren(p)
    \/ DeleteEarlierData(p)
    \/ DeleteEarlier(p)
    \/ UnlogEarlier(p)

\* One step of the handler itself.
Handle(p) == Refuse(p) \/ Work(p)

Next ==
    \E p \in Handlers :
        \/ \E m \in Messages, s \in Data \cup {NoData} : Start(p, m, s)
        \/ Handle(p)
        \/ Abandon(p)
        \/ TaskTimeout(p)

Spec == Init /\ [][Next]_vars
-----------------------------------------------------------------------------
(* RecordsRead of a record by its id, on the state as it is.               *)

ReadOutcome(r) ==
    LET S == ActiveEntries(r)
    IN  IF S = {} THEN "not_found"
        ELSE IF Cardinality(S) > 1 THEN "error"
        ELSE IF \E n \in S : n.kind = "delete"
          THEN IF \E e \in ExistingEntries(r) :
                    IsEarliest(e, ExistingEntries(r)) /\ IsInitialWrite(e)
                 THEN "deleted" ELSE "error"
        ELSE IF \E n \in S : n \in encoded \/ roots[<<r, n.data>>] # NoData
          THEN "ok"
        ELSE "not_found"
-----------------------------------------------------------------------------
(* Properties                                                              *)

WriteSteps ==
    {"parent", "fetch", "data_put", "data_get", "archive", "archive_log",
     "archive_data", "delete", "delete_data", "delete_log"}

DeleteSteps ==
    {"active", "task", "children", "earlier_data", "earlier", "earlier_log"}

Steps == {"idle", "put", "log", "emit"} \cup WriteSteps \cup DeleteSteps

\* Types, the indexes agree with the message store (there is no archived or
\* inline entry that is not stored), and a handler is at a step of its method.
TypeOK ==
    /\ stored \subseteq Messages
    /\ archived \subseteq stored
    /\ encoded \subseteq stored
    /\ roots \in [Record \X Data -> Data \cup {NoData}]
    /\ eventLog \subseteq Messages
    /\ emitted \subseteq Messages
    /\ pc \in [Handlers -> Steps]
    /\ req \in [Handlers -> Messages \cup {NoMessage}]
    /\ stream \in [Handlers -> Data \cup {NoData}]
    /\ existing \in [Handlers -> SUBSET Messages]
    /\ existingEncoded \in [Handlers -> SUBSET Messages]
    /\ reply \in {"none", "accepted", "no_content", "not_found", "error"}
    /\ \A p \in Handlers :
         /\ req[p] = NoMessage <=> pc[p] = "idle"
         /\ pc[p] \in WriteSteps => req[p].kind = "write"
         /\ pc[p] \in DeleteSteps => req[p].kind = "delete"

AllIdle == \A p \in Handlers : pc[p] = "idle"

\* The initial write of m's record is stored, and is not newer than m.
Rooted(m) ==
    \E i \in stored : IsInitialWrite(i) /\ i.record = m.record /\ i.ts <= m.ts

\* However handlers interleave and wherever they are dropped, the clean-up of
\* superseded entries never removes the initial write a stored message relies
\* on (the first entry `handle` retains, the entry `delete_earlier` archives).
InitialRetained == \A m \in stored : Rooted(m)

\* m, or a message that supersedes it, is stored.
Covered(m) == \E n \in stored : n.record = m.record /\ NoLater(m, n)

\* What subscribers were told of, and what the event log lists, is never lost
\* to the clean-up of another request, nor to a handler that is dropped between
\* the writes to store and log: it is stored, or a newer message of its record is.
EmittedCovered == \A m \in emitted \cup eventLog : Covered(m)

\* verify_immutable compares with the earliest entry only and the store may
\* change after it: all the writes stored for a record still agree.
ImmutableAgree ==
    \A m, n \in stored :
        m.kind = "write" /\ n.kind = "write" /\ m.record = n.record
          => m.parent = n.parent

\* What the records of a node amount to: registers in which the latest message
\* wins.  Settled(r) is what can no longer become the latest message of r.
Settled == [r \in Record |-> {m \in Messages : m.record = r /\ Covered(m)}]

Register == INSTANCE LatestWins WITH settled <- Settled

\* Every interleaving of the handlers, dropped ones included, implements the
\* registers: a record starts with an initial write, each put either moves it to
\* a newer message or is superseded already, and no clean-up moves it back.
LatestWinsSpec == Register!Spec

(* Properties of the node when requests do not overlap.                    *)

\* Between requests a record keeps its initial write and its latest message,
\* and nothing else.
OnlyInitialAndLatest ==
    AllIdle => \A m \in stored :
        IsInitialWrite(m) \/ IsLatest(m, ExistingEntries(m.record))

\* Once the delete of a record has been emitted, the record reads as deleted
\* between requests, for good, and no update of it is left.
DeletedIsFinal ==
    AllIdle => \A d \in emitted : d.kind = "delete" =>
        /\ ReadOutcome(d.record) = "deleted"
        /\ \A m \in ExistingEntries(d.record) : m.kind = "write" => m.initial

\* Between requests a record that has a queryable write or an update, and no
\* delete, can be read, with its data.
LiveRecordReadable ==
    AllIdle => \A r \in Record :
        /\ \E m \in ExistingEntries(r) : m \notin archived \/ ~m.initial
        /\ \A m \in ExistingEntries(r) : m.kind = "write"
        => ReadOutcome(r) = "ok"

\* Between requests the event log holds the messages of the message store.
LogMatchesStore == AllIdle => eventLog = stored

\* A delete that is answered as accepted has been stored, or a later delete of
\* the record has: the record is deleted.
AcceptedDeleteStored ==
    [][\A p \in Handlers :
         pc[p] # "idle" /\ pc'[p] = "idle" /\ reply' = "accepted"
           /\ req[p].kind = "delete"
         => \E d \in stored' :
              d.kind = "delete" /\ d.record = req[p].record /\ NoLater(req[p], d)]_vars

\* Once the delete of a record has been emitted, no update of it is stored.
NoUpdateAfterDelete ==
    [][\A m \in stored' \ stored, d \in emitted :
         m.kind = "write" /\ ~m.initial /\ d.kind = "delete" => m.record # d.record]_vars

\* A write sent without data and accepted has inherited the data of the write
\* before it: the record can be read.
InheritedDataKept ==
    [][\A p \in Handlers, r \in Record :
         pc[p] # "idle" /\ pc'[p] = "idle" /\ reply' = "accepted"
           /\ req[p].kind = "write" /\ stream[p] = NoData /\ req[p].record = r
         => ReadOutcome(r)' = "ok"]_vars

\* Between requests, a record that was pruned has no queryable child.
PruneRemovesChildren ==
    AllIdle => \A d \in stored, m \in stored \ archived :
        d.prune => m.parent # d.record
=============================================================================

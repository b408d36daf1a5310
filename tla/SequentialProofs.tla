-------------------------- MODULE SequentialProofs --------------------------
(***************************************************************************)
(* Proofs about Records when requests do not overlap and no handler is     *)
(* dropped, for any messages, records and data: what the records of the    *)
(* node look like between requests.                                        *)
(***************************************************************************)
EXTENDS RecordsProofs, FiniteSetTheorems

\* Requests are handled one after the other, to their end.
Sequential == ~Abandons /\ \A p, q \in Handlers : p = q

\* A delete does not have the timestamp of another message of its record.
DeletesApart ==
    \A d, n \in Messages :
        d.kind = "delete" /\ n.record = d.record /\ n.ts = d.ts => n = d

\* No two writes of a record have the same large data.
LargeDataApart ==
    \A m, n \in Messages :
        /\ m.kind = "write" /\ n.kind = "write" /\ m.record = n.record
        /\ Large(m) /\ m.data = n.data
        => m = n
-----------------------------------------------------------------------------
(* The event log                                                           *)

\* Steps of a handler that has removed an entry from the message store and not
\* yet from the event log.
Removed == {"delete_data", "delete_log", "earlier_log"}

LogInv(p) ==
    LET E == existing[p]
    IN  /\ pc[p] \in {"idle", "parent", "fetch", "active", "task"} => E = {}
        /\ pc[p] \notin Removed => E \subseteq stored
        /\ pc[p] = "log" => stored = eventLog \cup {req[p]}
        /\ pc[p] \notin Removed \cup {"log"} => stored = eventLog
        /\ pc[p] \in Removed =>
             \E n \in E : /\ IsEarliest(n, E)
                         /\ E \ {n} \subseteq stored /\ stored = eventLog \ {n}

\* The next step of a handler keeps LogInv.
LEMMA LogHandles ==
    ASSUME TypeOK, NEW p \in Handlers, LogInv(p), Handle(p)
    PROVE  LogInv(p)'
<1>0. existing[p] \in SUBSET Messages
  BY DEF TypeOK
<1>1. ASSUME NEW r, Answer(p, r), stored = eventLog, stored' = stored, eventLog' = eventLog
      PROVE  LogInv(p)'
  BY <1>1, AnswerMoves DEF LogInv, Removed
\* The handler has done with n, or with none, and goes on with the others.
<1>2. ASSUME NEW S, NEW l, NEW r, Proceed(p, S, l, r), S \subseteq stored', stored' = eventLog',
             l \notin Removed \cup {"log", "idle", "parent", "fetch", "active", "task"}
      PROVE  LogInv(p)'
  BY <1>2, ProceedMoves DEF LogInv, Removed
<1>3. ASSUME NEW l, Step(p, l), existing[p] \subseteq stored', stored' = eventLog',
             l \notin Removed \cup {"log"}, existing[p] = {} \/ l \notin {"fetch", "task"},
             l \notin {"idle", "parent", "active"}
      PROVE  LogInv(p)'
  BY <1>3, StepMoves DEF LogInv, Removed
<1>4. ASSUME NEW l \in Removed, Step(p, l),
             \E n \in existing[p] : /\ IsEarliest(n, existing[p])
                                    /\ existing[p] \ {n} \subseteq stored'
                                    /\ stored' = eventLog' \ {n}
      PROVE  LogInv(p)'
  BY <1>4, StepMoves DEF LogInv, Removed
<1>5. CASE Refuse(p)
  BY <1>1, <1>5 DEF Refuse, store, LogInv, Removed
<1>6. CASE VerifyParent(p)
  BY <1>1, <1>3, <1>6 DEF VerifyParent, store, LogInv, Removed
<1>7. CASE FetchExisting(p)
  <2>1. stored = eventLog /\ stored' = stored /\ eventLog' = eventLog
    BY <1>7 DEF FetchExisting, store, LogInv, Removed
  <2>2. CASE Answer(p, "error")
    BY <1>1, <2>1, <2>2
  <2>3. CASE ~Answer(p, "error")
    <3>1. pc'[p] \in {"data_put", "data_get", "put"} /\ existing'[p] \subseteq stored
      BY <1>7, <2>3 DEF FetchExisting, DataSource, Goto, TypeOK, ExistingEntries
    <3> QED BY <2>1, <3>1 DEF LogInv, Removed
  <2> QED BY <2>2, <2>3
<1>8. CASE UpdateData(p) \/ CloneData(p)
  BY <1>1, <1>3, <1>8 DEF UpdateData, CloneData, store, LogInv, Removed
<1>9. CASE PutMessage(p)
  BY <1>9, StepMoves DEF PutMessage, StorePut, LogInv, Removed
<1>10. CASE LogEvent(p)
  BY <1>3, <1>10 DEF LogEvent, store, LogInv, Removed
<1>11. CASE EmitEvent(p)
  <2>1. existing[p] \subseteq stored' /\ stored' = eventLog'
    BY <1>11 DEF EmitEvent, store, LogInv, Removed
  <2> QED BY <1>2, <1>3, <1>11, <2>1 DEF EmitEvent, Removed
<1>12. CASE ArchiveInitial(p)
  <2>1. existing[p] \subseteq stored' /\ stored' = eventLog'
    BY <1>12 DEF ArchiveInitial, StorePut, LogInv, Removed
  <2> QED BY <1>3, <1>12, <2>1 DEF ArchiveInitial, Removed
<1>13. CASE LogInitial(p)
  <2>1. PICK e \in existing[p] :
          /\ eventLog' = eventLog \cup {e}
          /\ Step(p, "archive_data") \/ Proceed(p, existing[p] \ {e}, "delete", WriteReply(p))
    BY <1>13 DEF LogInitial
  <2>2. existing[p] \subseteq stored' /\ stored' = eventLog' /\ existing[p] \ {e} \subseteq stored'
    BY <1>13, <2>1 DEF LogInitial, store, LogInv, Removed
  <2> QED BY <1>2, <1>3, <2>1, <2>2 DEF Removed
<1>14. CASE DeleteInitialData(p)
  <2>1. PICK e \in existing[p] : Proceed(p, existing[p] \ {e}, "delete", WriteReply(p))
    BY <1>14, Zenon DEF DeleteInitialData
  <2>2. stored' = eventLog' /\ existing[p] \ {e} \subseteq stored'
    BY <1>14 DEF DeleteInitialData, store, LogInv, Removed
  <2> QED BY <1>2, <2>1, <2>2 DEF Removed
<1>15. CASE DeletePrevious(p)
  <2>1. stored = eventLog /\ eventLog' = eventLog /\ existing[p] \subseteq stored
    BY <1>15 DEF DeletePrevious, LogInv, Removed
  <2>2. PICK n \in existing[p] :
          /\ IsEarliest(n, existing[p])
          /\ \/ Answer(p, "error") /\ UNCHANGED store
             \/ StoreDelete(n) /\ Step(p, "delete_data")
    BY <1>15 DEF DeletePrevious
  <2>3. CASE Answer(p, "error") /\ UNCHANGED store
    BY <1>1, <2>1, <2>3 DEF store
  <2>4. CASE StoreDelete(n) /\ Step(p, "delete_data")
    <3>1. existing[p] \ {n} \subseteq stored' /\ stored' = eventLog' \ {n}
      BY <2>1, <2>4 DEF StoreDelete
    <3> QED BY <1>4, <2>2, <2>4, <3>1 DEF Removed
  <2> QED BY <2>2, <2>3, <2>4
<1>16. CASE DeletePreviousData(p)
  <2>1. stored' = stored /\ eventLog' = eventLog
    BY <1>16 DEF DeletePreviousData, store
  <2>2. pc[p] \in Removed /\ Step(p, "delete_log")
    BY <1>16 DEF DeletePreviousData, Removed
  <2>3. PICK n \in existing[p] : /\ IsEarliest(n, existing[p])
                                 /\ existing[p] \ {n} \subseteq stored
                                 /\ stored = eventLog \ {n}
    BY <2>2 DEF LogInv
  <2> QED BY <1>4, <2>1, <2>2, <2>3 DEF Removed
<1>17. ASSUME NEW l \in {"delete", "earlier_data"}, NEW r, pc[p] \in Removed, stored' = stored,
              \E n \in existing[p] : /\ IsEarliest(n, existing[p])
                                     /\ eventLog' = eventLog \ {n}
                                     /\ Proceed(p, existing[p] \ {n}, l, r)
       PROVE  LogInv(p)'
  <2>1. PICK n \in existing[p] : /\ IsEarliest(n, existing[p])
                                 /\ eventLog' = eventLog \ {n}
                                 /\ Proceed(p, existing[p] \ {n}, l, r)
    BY <1>17
  <2>2. existing[p] \ {n} \subseteq stored /\ stored = eventLog \ {n}
    BY <1>0, <1>17, <2>1, EarliestUnique DEF LogInv
  <2> QED BY <1>2, <1>17, <2>1, <2>2 DEF Removed
<1>18. CASE UnlogPrevious(p)
  <2>1. pc[p] \in Removed /\ stored' = stored
    BY <1>18 DEF UnlogPrevious, store, Removed
  <2> QED BY <1>17, <1>18, <2>1, Zenon DEF UnlogPrevious
<1>19. CASE UnlogEarlier(p)
  <2>1. pc[p] \in Removed /\ stored' = stored
    BY <1>19 DEF UnlogEarlier, store, Removed
  <2> QED BY <1>17, <1>19, <2>1, Zenon DEF UnlogEarlier
<1>20. CASE FetchActive(p)
  BY <1>1, <1>3, <1>20 DEF FetchActive, store, LogInv, Removed
<1>21. CASE FetchEntries(p)
  <2>1. stored = eventLog /\ stored' = stored /\ eventLog' = eventLog
    BY <1>21 DEF FetchEntries, store, LogInv, Removed
  <2>2. CASE Answer(p, "accepted")
    BY <1>1, <2>1, <2>2
  <2>3. CASE ~Answer(p, "accepted")
    <3>1. pc'[p] = "put" /\ existing'[p] \subseteq stored
      BY <1>21, <2>3 DEF FetchEntries, Goto, TypeOK, ExistingEntries
    <3> QED BY <2>1, <3>1 DEF LogInv, Removed
  <2> QED BY <2>2, <2>3
<1>22. CASE DeleteChildren(p)
  BY <1>2, <1>22 DEF DeleteChildren, store, LogInv, Removed
<1>23. CASE DeleteEarlierData(p)
  BY <1>1, <1>3, <1>23 DEF DeleteEarlierData, store, LogInv, Removed
<1>24. CASE DeleteEarlier(p)
  <2>1. stored = eventLog /\ eventLog' = eventLog /\ existing[p] \subseteq stored
    BY <1>24 DEF DeleteEarlier, LogInv, Removed
  <2>2. PICK n \in existing[p] :
          /\ IsEarliest(n, existing[p])
          /\ \/ /\ StorePut(n, TRUE, n \in existingEncoded[p])
                /\ Proceed(p, existing[p] \ {n}, "earlier_data", "accepted")
             \/ StoreDelete(n) /\ Step(p, "earlier_log")
    BY <1>24, Zenon DEF DeleteEarlier
  <2>3. CASE /\ StorePut(n, TRUE, n \in existingEncoded[p])
             /\ Proceed(p, existing[p] \ {n}, "earlier_data", "accepted")
    <3>1. existing[p] \ {n} \subseteq stored' /\ stored' = eventLog'
      BY <2>1, <2>3 DEF StorePut
    <3> QED BY <1>2, <2>3, <3>1 DEF Removed
  <2>4. CASE StoreDelete(n) /\ Step(p, "earlier_log")
    <3>1. existing[p] \ {n} \subseteq stored' /\ stored' = eventLog' \ {n}
      BY <2>1, <2>4 DEF StoreDelete
    <3> QED BY <1>4, <2>2, <2>4, <3>1 DEF Removed
  <2> QED BY <2>2, <2>3, <2>4, Zenon
<1> QED BY <1>5, <1>6, <1>7, <1>8, <1>9, <1>10, <1>11, <1>12, <1>13, <1>14, <1>15, <1>16, <1>18,
        <1>19, <1>20, <1>21, <1>22, <1>23, <1>24 DEF Handle, Work

LogsInv == (AllIdle => eventLog = stored) /\ \A p \in Handlers : LogInv(p)

\* LogsInv always holds, with one request at a time.
LEMMA LogsInvariant ==
    ASSUME Sequential
    PROVE  Spec => []LogsInv
<1>1. Init => LogsInv
  BY DEF Init, LogsInv, LogInv, Removed
<1>2. TypeOK /\ LogsInv /\ [Next]_vars => LogsInv'
  <2> SUFFICES ASSUME TypeOK, LogsInv, [Next]_vars PROVE LogsInv'
    OBVIOUS
  <2>1. ASSUME NEW p \in Handlers, LogInv(p)' PROVE LogsInv'
    BY <2>1 DEF LogsInv, LogInv, AllIdle, Sequential, Removed
  <2>2. ASSUME NEW p \in Handlers, NEW m \in Messages, NEW s, Start(p, m, s) PROVE LogsInv'
    <3>1. LogInv(p) /\ pc'[p] \in {"parent", "fetch", "active"} /\ existing' = existing
          /\ stored' = stored /\ eventLog' = eventLog /\ pc[p] = "idle"
      BY <2>2 DEF Start, Goto, TypeOK, store, fetched, LogsInv
    <3> QED BY <2>1, <3>1 DEF LogInv, Removed
  <2>3. ASSUME NEW p \in Handlers, Handle(p) PROVE LogsInv'
    BY <2>1, <2>3, LogHandles DEF LogsInv
  <2>4. ASSUME NEW p \in Handlers, Abandon(p) \/ TaskTimeout(p) PROVE FALSE
    BY <2>4 DEF Abandon, TaskTimeout, Sequential
  <2>5. CASE UNCHANGED vars
    BY <2>5 DEF vars, LogsInv, LogInv, AllIdle
  <2> QED BY <2>2, <2>3, <2>4, <2>5 DEF Next
<1> QED BY <1>1, <1>2, TypeCorrect, PTL DEF Spec

\* Between requests the event log and the message store hold the same messages,
\* whatever the requests were.
THEOREM LogAndStoreMatch ==
    ASSUME Sequential
    PROVE  Spec => []LogMatchesStore
<1>1. LogsInv => LogMatchesStore
  BY DEF LogsInv, LogMatchesStore
<1> QED BY <1>1, LogsInvariant, PTL

-----------------------------------------------------------------------------
(* The entries of a record                                                 *)

OnlyWrites(S) == \A n \in S : n.kind = "write"

\* The data of the write n can be read.
HasData(n) == n \in encoded \/ (Large(n) /\ roots[<<n.record, n.data>>] # NoData)

\* A record between requests: its first entry is the initial write, the entries
\* other than the latest are archived initial writes, there are two at most until
\* the record is deleted, and its latest has data.
AtRest(r) ==
    LET S == ExistingEntries(r)
    IN  /\ S # {} => \E e, l \in S : IsEarliest(e, S) /\ IsInitialWrite(e) /\ IsLatest(l, S)
        /\ \A n \in S : /\ IsLatest(n, S) \/ (n.initial /\ n \in archived)
                        /\ n \in archived => n.initial
        /\ OnlyWrites(S) => \A n \in S : IsEarliest(n, S) \/ IsLatest(n, S)
        /\ OnlyWrites(S) /\ LargeDataApart => \A n \in S \ archived : HasData(n)

\* While a request is handled, the entries of its record: as they were until its
\* message is put, then its message, what is still to be cleaned up, and archived
\* initial writes.
Arriving == {"parent", "fetch", "active", "task"}

Unarchived == {"log", "emit", "archive", "archive_log", "archive_data"}

BeforePut(p, m, S) ==
    /\ AtRest(m.record)
    /\ pc[p] \notin {"parent", "fetch", "active"} => OnlyWrites(S)
    /\ pc[p] = "task" => S # {} /\ \A l \in S : l.ts <= m.ts
    /\ pc[p] \in Ready =>
         /\ existing[p] = S /\ \A n \in S : Precedes(n, m)
         /\ S = {} => IsInitialWrite(m)
    /\ pc[p] = "put" /\ m.kind = "write" /\ Large(m) /\ ~NoContent(p) /\ LargeDataApart
         => roots[<<m.record, m.data>>] # NoData

AfterPut(p, m, S, E) ==
    /\ m \in S /\ \A n \in S \cup E : n = m \/ (Precedes(n, m) /\ n.kind = "write")
    /\ m \notin E /\ \A n \in E : n.record = m.record
    /\ \E e \in S : IsEarliest(e, S) /\ IsInitialWrite(e)
    /\ \A n \in S : /\ n \in E \cup {m} \/ (n.initial /\ n \in archived)
                    /\ n \in archived => n.initial
                    /\ m.kind = "write" => n \in E \cup {m} \/ IsEarliest(n, S)
    /\ m.kind = "write" /\ LargeDataApart /\ m \notin archived => HasData(m)
    /\ m.kind = "write" /\ pc[p] \in Unarchived => \A e \in E : IsEarliest(e, E) =>
         /\ IsInitialWrite(e) /\ IsEarliest(e, S)
         /\ pc[p] \in {"archive_log", "archive_data"} => e \in archived
    /\ pc[p] \in Removed =>
         \A n \in E : IsEarliest(n, E) => n \notin S

RequestInv(p, m) ==
    IF pc[p] \in Arriving \cup Ready
      THEN BeforePut(p, m, ExistingEntries(m.record))
      ELSE \A S, E \in SUBSET Messages :
             S = ExistingEntries(m.record) /\ E = existing[p] => AfterPut(p, m, S, E)

SequentialInv ==
    /\ \A p \in Handlers, m \in Messages :
         pc[p] # "idle" /\ m = req[p] => RequestInv(p, m)
    /\ \A r \in Record :
         (\A p \in Handlers : pc[p] = "idle" \/ req[p].record # r) => AtRest(r)
    /\ \A d \in emitted : d.kind = "delete" => d \in stored

\* AfterPut depends on the step, the archived entries and the data of m only.
LEMMA AfterPutSame ==
    ASSUME NEW p \in Handlers, NEW m \in Messages, NEW S \in SUBSET Messages,
           NEW E \in SUBSET Messages, pc' = pc, archived' = archived,
           HasData(m) => HasData(m)', AfterPut(p, m, S, E)
    PROVE  AfterPut(p, m, S, E)'
<1>1. /\ m \in S /\ \A n \in S \cup E : n = m \/ (Precedes(n, m) /\ n.kind = "write")
      /\ m \notin E /\ \A n \in E : n.record = m.record
  BY Zenon DEF AfterPut
<1>2. \E e \in S : IsEarliest(e, S) /\ IsInitialWrite(e)
  BY Zenon DEF AfterPut
<1>3. \A n \in S : /\ n \in E \cup {m} \/ (n.initial /\ n \in archived')
                   /\ n \in archived' => n.initial
                   /\ m.kind = "write" => n \in E \cup {m} \/ IsEarliest(n, S)
  BY Zenon DEF AfterPut
<1>4. m.kind = "write" /\ LargeDataApart /\ m \notin archived' => HasData(m)'
  BY Zenon DEF AfterPut
<1>5. m.kind = "write" /\ pc'[p] \in Unarchived => \A e \in E : IsEarliest(e, E) =>
        /\ IsInitialWrite(e) /\ IsEarliest(e, S)
        /\ pc'[p] \in {"archive_log", "archive_data"} => e \in archived'
  BY Zenon DEF AfterPut
<1>6. pc'[p] \in Removed => \A n \in E : IsEarliest(n, E) => n \notin S
  BY Zenon DEF AfterPut
<1> QED BY <1>1, <1>2, <1>3, <1>4, <1>5, <1>6, Zenon DEF AfterPut

\* Nothing about record r changes.
Untouched(r) ==
    /\ ExistingEntries(r)' = ExistingEntries(r)
    /\ \A n \in Messages : n.record = r =>
         (n \in archived' <=> n \in archived) /\ (n \in encoded' <=> n \in encoded)
    /\ \A d \in Data : roots'[<<r, d>>] = roots[<<r, d>>]

\* A record at rest stays at rest when nothing touches it.
LEMMA RestUntouched ==
    ASSUME TypeOK, NEW r, AtRest(r), Untouched(r)
    PROVE  AtRest(r)'
<1> DEFINE S == ExistingEntries(r)
<1>1. S' = S /\ \A n \in S : n \in Messages /\ n.record = r
  BY DEF Untouched, ExistingEntries, TypeOK
<1>2. \A n \in S : (n \in archived' <=> n \in archived) /\ (n \in encoded' <=> n \in encoded)
  BY <1>1 DEF Untouched
<1>3. \A n \in S : n.kind = "write" => (HasData(n)' <=> HasData(n))
  BY <1>1, <1>2, MessageFields DEF Untouched, HasData, Large
<1> HIDE DEF S
<1>4. /\ S # {} => \E e, l \in S : IsEarliest(e, S) /\ IsInitialWrite(e) /\ IsLatest(l, S)
      /\ \A n \in S : /\ IsLatest(n, S) \/ (n.initial /\ n \in archived)
                      /\ n \in archived => n.initial
      /\ OnlyWrites(S) => \A n \in S : IsEarliest(n, S) \/ IsLatest(n, S)
      /\ OnlyWrites(S) /\ LargeDataApart => \A n \in S \ archived : HasData(n)
  BY DEF AtRest, S
<1>5. /\ S # {} => \E e, l \in S : IsEarliest(e, S) /\ IsInitialWrite(e) /\ IsLatest(l, S)
      /\ \A n \in S : /\ IsLatest(n, S) \/ (n.initial /\ n \in archived')
                      /\ n \in archived' => n.initial
      /\ OnlyWrites(S) => \A n \in S : IsEarliest(n, S) \/ IsLatest(n, S)
      /\ OnlyWrites(S) /\ LargeDataApart => \A n \in S \ archived' : HasData(n)'
  BY <1>2, <1>3, <1>4 DEF OnlyWrites
<1> QED BY <1>1, <1>5 DEF AtRest, S, OnlyWrites, LargeDataApart, Large

\* The handler of m is done and its record at rest, or it goes on.
Handled(p, m) ==
    \/ pc'[p] = "idle" /\ AtRest(m.record)'
    \/ pc'[p] # "idle" /\ req'[p] = m /\ RequestInv(p, m)'

\* A step that is Handled keeps SequentialInv.
LEMMA HandledStep ==
    ASSUME Sequential, TypeOK, SequentialInv, NEW p \in Handlers, NEW m \in Messages,
           pc[p] # "idle" => req[p] = m, Handled(p, m),
           \A s \in Record \ {m.record} : Untouched(s),
           \A d \in emitted' : d.kind = "delete" => d \in stored'
    PROVE  SequentialInv'
<1>1. \A q \in Handlers : q = p
  BY DEF Sequential
<1>2. ASSUME NEW r \in Record, \A q \in Handlers : pc'[q] = "idle" \/ req'[q].record # r
      PROVE  AtRest(r)'
  <2>1. CASE r = m.record
    BY <1>2, <2>1 DEF Handled
  <2>2. CASE r # m.record
    <3>1. AtRest(r)
      BY <1>1, <2>2 DEF SequentialInv
    <3> QED BY <2>2, <3>1, RestUntouched
  <2> QED BY <2>1, <2>2
<1>3. \A q \in Handlers, n \in Messages : pc'[q] # "idle" /\ n = req'[q] => RequestInv(q, n)'
  BY <1>1 DEF Handled
<1> QED BY <1>2, <1>3 DEF SequentialInv

-----------------------------------------------------------------------------
(* Until the message is put                                                *)

\* A step that leaves the store alone leaves the entries alone.
LEMMA SameEntries ==
    ASSUME UNCHANGED store, NEW r
    PROVE  /\ ExistingEntries(r)' = ExistingEntries(r) /\ archived' = archived
           /\ stored' = stored /\ encoded' = encoded
BY DEF store, ExistingEntries

\* Nothing in the stores changes.
LEMMA AllUntouched ==
    ASSUME UNCHANGED <<store, roots>>
    PROVE  \A r : Untouched(r)
BY DEF Untouched, store, ExistingEntries

\* The steps before the fetch are Handled.
LEMMA ArriveStep ==
    ASSUME TypeOK, NEW p \in Handlers, NEW m \in Messages, m = req[p], pc[p] # "idle",
           RequestInv(p, m), Refuse(p) \/ VerifyParent(p) \/ FetchActive(p)
    PROVE  Handled(p, m)
<1> DEFINE S == ExistingEntries(m.record)
<1>1. UNCHANGED <<store, roots>> /\ pc[p] \in Arriving \cup Ready
  BY DEF Refuse, VerifyParent, FetchActive, Arriving, Ready
<1>2. AtRest(m.record)
  BY <1>1 DEF RequestInv, BeforePut
<1>3. AtRest(m.record)'
  BY <1>1, <1>2, AllUntouched, RestUntouched
<1>4. ASSUME NEW r, Answer(p, r) PROVE Handled(p, m)
  BY <1>3, <1>4, AnswerMoves DEF Handled
<1>5. ASSUME Step(p, "fetch") PROVE Handled(p, m)
  <2>1. pc'[p] = "fetch" /\ req'[p] = m
    BY <1>5, StepMoves
  <2> QED BY <1>3, <2>1 DEF Handled, RequestInv, BeforePut, Arriving, Ready
<1>6. ASSUME FetchActive(p), Step(p, "task") PROVE Handled(p, m)
  <2>1. pc'[p] = "task" /\ req'[p] = m
    BY <1>6, StepMoves
  <2>2. PICK e \in ActiveEntries(m.record) : e.kind = "write" /\ m.ts >= e.ts
    <3>1. ~Answer(p, "not_found") /\ ~Answer(p, "error")
      BY <1>6, <2>1, AnswerMoves
    <3> QED BY <1>6, <3>1 DEF FetchActive
  <2>3. e \in S /\ IsLatest(e, S)
    BY <1>2, <2>2 DEF AtRest, ActiveEntries, ExistingEntries
  <2>4. S \in SUBSET Messages
    BY DEF TypeOK, ExistingEntries
  <2>5. OnlyWrites(S)
    <3> SUFFICES ASSUME NEW n \in S, n.kind # "write" PROVE FALSE
      BY DEF OnlyWrites
    <3>1. IsLatest(n, S)
      BY <1>2, <2>4, MessageFields DEF AtRest
    <3> QED BY <2>2, <2>3, <2>4, <3>1, LatestUnique
  <2>6. \A l \in S : l.ts <= m.ts
    <3> SUFFICES ASSUME NEW l \in S PROVE l.ts <= m.ts
      OBVIOUS
    <3>1. l.ts <= e.ts
      BY <2>3, <2>4, OrderFacts DEF IsLatest
    <3> QED BY <2>2, <2>3, <2>4, <3>1, MessageFields
  <2>7. S' = S
    BY <1>1, SameEntries
  <2> QED BY <1>3, <2>1, <2>3, <2>5, <2>6, <2>7, Zenon
          DEF Handled, RequestInv, BeforePut, Arriving, Ready, OnlyWrites
<1> QED BY <1>4, <1>5, <1>6 DEF Refuse, VerifyParent, FetchActive

\* An admissible write follows the entries of its record.
LEMMA AdmissibleFacts ==
    ASSUME TypeOK, NEW m \in Messages, m.kind = "write", AtRest(m.record),
           NEW S, S = ExistingEntries(m.record), Admissible(m, S)
    PROVE  /\ OnlyWrites(S) /\ \A n \in S : Precedes(n, m)
           /\ S = {} => IsInitialWrite(m)
<1>0. S \in SUBSET Messages
  BY DEF TypeOK, ExistingEntries
<1>1. CASE S = {}
  BY <1>1 DEF Admissible, IsInitialWrite, OnlyWrites
<1>2. CASE S # {}
  <2>1. PICK l \in S : IsLatest(l, S) /\ Precedes(l, m) /\ l.kind = "write"
    BY <1>2 DEF Admissible
  <2>2. \A n \in S : Precedes(n, m)
    BY <1>0, <2>1, OrderFacts DEF IsLatest
  <2>3. \A n \in S : n.kind = "write"
    BY <1>0, <2>1, LatestUnique, MessageFields DEF AtRest
  <2> QED BY <1>2, <2>2, <2>3 DEF OnlyWrites
<1> QED BY <1>1, <1>2

\* The fetch of a write is Handled.
LEMMA FetchStep ==
    ASSUME TypeOK, NEW p \in Handlers, NEW m \in Messages, m = req[p], pc[p] # "idle",
           RequestInv(p, m), FetchExisting(p)
    PROVE  Handled(p, m)
<1> DEFINE S == ExistingEntries(m.record)
           l == DataSource(m, stream[p], S)
<1>1. UNCHANGED <<store, roots>> /\ pc[p] = "fetch" /\ m.kind = "write"
  BY DEF FetchExisting, TypeOK, WriteSteps
<1>2. AtRest(m.record)
  BY <1>1 DEF RequestInv, BeforePut, Arriving
<1>3. AtRest(m.record)'
  BY <1>1, <1>2, AllUntouched, RestUntouched
<1>4. CASE Answer(p, "error")
  BY <1>3, <1>4, AnswerMoves DEF Handled
<1>5. CASE ~Answer(p, "error")
  <2>1. /\ Admissible(m, S) /\ pc'[p] = l /\ l # "error" /\ existing'[p] = S
        /\ req'[p] = m /\ stream' = stream
    BY <1>5 DEF FetchExisting, TypeOK, Goto, local
  <2>2. l \in Ready
    BY <2>1, Zenon DEF DataSource, Ready
  <2>3. l = "put" /\ Large(m) => NoContent(p)'
    BY <1>1, <2>1 DEF DataSource, NoContent, IsInitialWrite
  <2>4. OnlyWrites(S) /\ (\A n \in S : Precedes(n, m)) /\ (S = {} => IsInitialWrite(m))
    BY <1>1, <1>2, <2>1, AdmissibleFacts, Zenon
  <2>5. S' = S
    BY <1>1, SameEntries
  <2>6. pc'[p] # "task" /\ pc'[p] # "idle"
    BY <2>1, <2>2 DEF Ready
  <2> HIDE DEF l, S
  <2>7. BeforePut(p, m, S)'
    BY <1>3, <2>1, <2>3, <2>4, <2>5, <2>6 DEF BeforePut, OnlyWrites, Large
  <2> QED BY <2>1, <2>2, <2>6, <2>7 DEF Handled, RequestInv, S
<1> QED BY <1>4, <1>5

\* The fetch of a delete is Handled.
LEMMA DeleteFetchStep ==
    ASSUME DeletesApart, TypeOK, NEW p \in Handlers, NEW m \in Messages, m = req[p],
           pc[p] # "idle", RequestInv(p, m), FetchEntries(p)
    PROVE  Handled(p, m)
<1> DEFINE S == ExistingEntries(m.record)
<1>1. UNCHANGED <<store, roots>> /\ pc[p] = "task" /\ m.kind = "delete"
  BY DEF FetchEntries, TypeOK, DeleteSteps
<1>2. AtRest(m.record) /\ S # {} /\ OnlyWrites(S) /\ \A l \in S : l.ts <= m.ts
  BY <1>1, Zenon DEF RequestInv, BeforePut, Arriving
<1>3. AtRest(m.record)' /\ S' = S
  BY <1>1, <1>2, AllUntouched, RestUntouched, SameEntries
<1>4. CASE Answer(p, "accepted")
  BY <1>3, <1>4, AnswerMoves DEF Handled
<1>5. CASE ~Answer(p, "accepted")
  <2>1. pc'[p] = "put" /\ existing'[p] = {n \in S : n.ts < m.ts} /\ req'[p] = m
    BY <1>5 DEF FetchEntries, TypeOK, Goto, local
  <2>2. ASSUME NEW n \in S PROVE n.ts < m.ts
    <3>1. n \in Messages /\ n.record = m.record /\ n # m
      BY <1>1, <1>2 DEF TypeOK, ExistingEntries, OnlyWrites
    <3>2. n.ts # m.ts
      BY <1>1, <3>1 DEF DeletesApart
    <3> QED BY <1>2, <3>1, <3>2, MessageFields
  <2>3. existing'[p] = S /\ \A n \in S : Precedes(n, m)
    BY <2>1, <2>2 DEF Precedes
  <2> HIDE DEF S
  <2>4. BeforePut(p, m, S)'
    BY <1>1, <1>2, <1>3, <2>1, <2>3 DEF BeforePut, OnlyWrites, Ready
  <2> QED BY <2>1, <2>4 DEF Handled, RequestInv, S, Ready
<1> QED BY <1>4, <1>5

\* The data of the message arrives or is found.
LEMMA DataStep ==
    ASSUME TypeOK, NEW p \in Handlers, NEW m \in Messages, m = req[p], pc[p] # "idle",
           RequestInv(p, m), UpdateData(p) \/ CloneData(p)
    PROVE  Handled(p, m)
<1> DEFINE S == ExistingEntries(m.record)
<1>1. UNCHANGED store /\ pc[p] \in {"data_put", "data_get"} /\ m.kind = "write"
      /\ m.record \in Record /\ m.data \in Data
  BY MessageFields DEF UpdateData, CloneData, TypeOK, WriteSteps
<1>2. AtRest(m.record) /\ BeforePut(p, m, S)
  BY <1>1 DEF RequestInv, BeforePut, Arriving, Ready
<1>3. \A d \in Data : roots[<<m.record, d>>] # NoData => roots'[<<m.record, d>>] # NoData
  BY <1>1 DEF UpdateData, CloneData, DataPut, TypeOK
<1>4. S' = S /\ archived' = archived /\ encoded' = encoded
  BY <1>1, SameEntries
<1>5. \A n \in S : n.kind = "write" /\ HasData(n) => HasData(n)'
  BY <1>3, <1>4, MessageFields DEF HasData, Large, TypeOK, ExistingEntries
<1>6. AtRest(m.record)'
  <2> HIDE DEF S
  <2>1. /\ S # {} => \E e, l \in S : IsEarliest(e, S) /\ IsInitialWrite(e) /\ IsLatest(l, S)
        /\ \A n \in S : /\ IsLatest(n, S) \/ (n.initial /\ n \in archived)
                        /\ n \in archived => n.initial
        /\ OnlyWrites(S) => \A n \in S : IsEarliest(n, S) \/ IsLatest(n, S)
        /\ OnlyWrites(S) /\ LargeDataApart => \A n \in S \ archived : HasData(n)
    BY <1>2, Zenon DEF AtRest, S
  <2>2. OnlyWrites(S) /\ LargeDataApart => \A n \in S \ archived' : HasData(n)'
    BY <1>4, <1>5, <2>1, Zenon DEF OnlyWrites
  <2> QED BY <1>4, <2>1, <2>2, Zenon DEF AtRest, S, OnlyWrites, LargeDataApart, Large
<1>7. CASE Answer(p, "error")
  BY <1>6, <1>7, AnswerMoves DEF Handled
<1>8. CASE Step(p, "put")
  <2>1. pc'[p] = "put" /\ req'[p] = m /\ existing' = existing
    BY <1>8, StepMoves
  <2>2. roots'[<<m.record, m.data>>] # NoData
    BY <1>1, <2>1, AnswerMoves DEF UpdateData, CloneData, DataPut, TypeOK
  <2>3. /\ OnlyWrites(S) /\ existing[p] = S /\ \A n \in S : Precedes(n, m)
        /\ S = {} => IsInitialWrite(m)
    BY <1>1, <1>2, Zenon DEF BeforePut, Ready
  <2> HIDE DEF S
  <2>4. BeforePut(p, m, S)'
    BY <1>4, <1>6, <2>1, <2>2, <2>3 DEF BeforePut, OnlyWrites
  <2> QED BY <2>1, <2>4 DEF Handled, RequestInv, S, Ready
<1> QED BY <1>7, <1>8 DEF UpdateData, CloneData

-----------------------------------------------------------------------------
(* From the put of the message on                                          *)

\* The put is Handled.
LEMMA PutStep ==
    ASSUME TypeOK, NEW p \in Handlers, NEW m \in Messages, m = req[p], pc[p] # "idle",
           RequestInv(p, m), PutMessage(p)
    PROVE  Handled(p, m)
<1>a. PICK S \in SUBSET Messages : S = ExistingEntries(m.record)
  BY Zenon DEF TypeOK, ExistingEntries
<1>b. PICK T \in SUBSET Messages : T = S \cup {m}
  BY Zenon
<1>0. S = ExistingEntries(m.record) /\ T = S \cup {m}
  BY <1>a, <1>b
<1>1. BeforePut(p, m, S) /\ pc[p] = "put"
  BY <1>0 DEF PutMessage, RequestInv, Ready
<1>2. /\ OnlyWrites(S) /\ existing[p] = S /\ \A n \in S : Precedes(n, m)
      /\ S = {} => IsInitialWrite(m)
      /\ m.kind = "write" /\ Large(m) /\ ~NoContent(p) /\ LargeDataApart
           => roots[<<m.record, m.data>>] # NoData
      /\ AtRest(m.record)
  BY <1>0, <1>1, Zenon DEF BeforePut, Ready
<1>3. /\ pc'[p] = "log" /\ req'[p] = m /\ existing' = existing /\ roots' = roots
      /\ StorePut(m, NoContent(p), Inline(p))
  BY StepMoves, Zenon DEF PutMessage
<1>4. ExistingEntries(m.record)' = T /\ S \in SUBSET Messages /\ m \in Messages
      /\ \A n \in S : n.record = m.record
  BY <1>0, <1>3 DEF StorePut, ExistingEntries, TypeOK
<1>5. m \notin S
  BY <1>2, OrderFacts, Zenon
<1>6. /\ \A n \in S : n \in archived' => n.initial
      /\ m \in archived' => m.initial
      /\ m.kind = "write" /\ LargeDataApart /\ m \notin archived' => HasData(m)'
  <2>1. \A n \in S : n \in archived' => n.initial
    BY <1>0, <1>2, <1>3, <1>5, Zenon DEF AtRest, StorePut
  <2>2. m \in archived' <=> NoContent(p)
    BY <1>3 DEF StorePut
  <2>3. m \in encoded' <=> Inline(p)
    BY <1>3 DEF StorePut
  <2> QED BY <1>2, <1>3, <2>1, <2>2, <2>3, Zenon DEF NoContent, IsInitialWrite, HasData, Inline, Large
<1>7. ASSUME NEW e, IsEarliest(e, S) PROVE IsEarliest(e, T) /\ IsInitialWrite(e)
  <2>1. IsEarliest(e, T)
    BY <1>0, <1>2, <1>7 DEF IsEarliest, NoLater
  <2>2. PICK f \in S : IsEarliest(f, S) /\ IsInitialWrite(f)
    BY <1>0, <1>2, <1>7, Zenon DEF AtRest, IsEarliest
  <2> QED BY <1>4, <1>7, <2>1, <2>2, EarliestUnique, Zenon
<1>8. \E e \in T : IsEarliest(e, T) /\ IsInitialWrite(e)
  <2>1. CASE S = {}
    BY <1>0, <1>2, <2>1, Zenon DEF IsEarliest, NoLater
  <2>2. CASE S # {}
    BY <1>0, <1>2, <1>7, <2>2, Zenon DEF AtRest, IsEarliest
  <2> QED BY <2>1, <2>2
<1>9. AfterPut(p, m, T, S)'
  BY <1>0, <1>2, <1>3, <1>4, <1>5, <1>6, <1>7, <1>8, Zenon
     DEF AfterPut, OnlyWrites, Removed, IsEarliest, IsInitialWrite, NoLater, LargeDataApart, Large, Precedes
<1> QED BY <1>2, <1>3, <1>4, <1>9, Zenon DEF Handled, RequestInv, Arriving, Ready

\* When nothing is left to clean up the record is at rest.
LEMMA RestAfter ==
    ASSUME TypeOK', NEW p, NEW m \in Messages, NEW S \in SUBSET Messages,
           S = ExistingEntries(m.record)', AfterPut(p, m, S, {})'
    PROVE  AtRest(m.record)'
<1>1. /\ m \in S /\ \A n \in S : n = m \/ (Precedes(n, m) /\ n.kind = "write")
      /\ \E e \in S : IsEarliest(e, S) /\ IsInitialWrite(e)
      /\ \A n \in S : /\ n = m \/ (n.initial /\ n \in archived')
                      /\ n \in archived' => n.initial
                      /\ m.kind = "write" => n = m \/ IsEarliest(n, S)
      /\ m.kind = "write" /\ LargeDataApart /\ m \notin archived' => HasData(m)'
  BY DEF AfterPut, IsEarliest, IsInitialWrite, NoLater, Precedes, LargeDataApart, Large
<1>2. IsLatest(m, S)
  BY <1>1 DEF IsLatest, NoLater
<1>3. AtRest(m.record)' <=>
        /\ S # {} => \E e, l \in S : IsEarliest(e, S) /\ IsInitialWrite(e) /\ IsLatest(l, S)
        /\ \A n \in S : /\ IsLatest(n, S) \/ (n.initial /\ n \in archived')
                        /\ n \in archived' => n.initial
        /\ OnlyWrites(S) => \A n \in S : IsEarliest(n, S) \/ IsLatest(n, S)
        /\ OnlyWrites(S) /\ LargeDataApart => \A n \in S \ archived' : HasData(n)'
  BY DEF AtRest, OnlyWrites, LargeDataApart, Large
<1> QED BY <1>1, <1>2, <1>3, Zenon DEF OnlyWrites

\* The handler goes on with the entries E, or is done when none are left.
LEMMA LateHandled ==
    ASSUME TypeOK, TypeOK', NEW p \in Handlers, NEW m \in Messages, m = req[p],
           NEW S \in SUBSET Messages, NEW E \in SUBSET Messages,
           S = ExistingEntries(m.record)', AfterPut(p, m, S, E)',
           NEW l, l \notin Arriving \cup Ready \cup {"idle"},
           \/ Step(p, l) /\ E = existing[p]
           \/ \E r : Proceed(p, E, l, r)
    PROVE  Handled(p, m)
<1>1. CASE Step(p, l) /\ E = existing[p]
  <2>1. pc'[p] = l /\ existing'[p] = E /\ req'[p] = m
    BY <1>1, StepMoves, Zenon
  <2> QED BY <2>1 DEF Handled, RequestInv
<1>2. ASSUME NEW r, Proceed(p, E, l, r) PROVE Handled(p, m)
  <2>1. CASE E = {}
    <3>1. pc'[p] = "idle"
      BY <1>2, <2>1, AnswerMoves DEF Proceed
    <3> QED BY <2>1, <3>1, RestAfter DEF Handled
  <2>2. CASE E # {}
    <3>1. pc'[p] = l /\ existing'[p] = E /\ req'[p] = m
      BY <1>2, <2>2 DEF Proceed, Goto, local, TypeOK
    <3> QED BY <3>1 DEF Handled, RequestInv
  <2> QED BY <2>1, <2>2
<1> QED BY <1>1, <1>2, Zenon

\* The entries stay as they are and the handler has done with some of its own, D,
\* that are gone already or archived.
LEMMA AfterSame ==
    ASSUME NEW p, NEW m \in Messages, NEW S \in SUBSET Messages, NEW E \in SUBSET Messages,
           AfterPut(p, m, S, E), archived' = archived,
           m.kind = "write" /\ LargeDataApart /\ HasData(m) => HasData(m)',
           NEW D \in SUBSET E,
           \A n \in D : \/ n \notin S
                        \/ /\ n.initial /\ n \in archived
                           /\ m.kind = "write" => IsEarliest(n, S),
           pc'[p] \in Unarchived =>
             /\ D = {} /\ pc[p] \in Unarchived
             /\ pc'[p] \in {"archive_log", "archive_data"}
                  => pc[p] \in {"archive_log", "archive_data"},
           pc'[p] \in Removed => D = {} /\ pc[p] \in Removed
    PROVE  AfterPut(p, m, S, E \ D)'
<1>1. PICK F \in SUBSET Messages : F = E \ D
  BY Zenon
<1>2. AfterPut(p, m, S, F)'
  <2>1. D = {} => F = E
    BY <1>1, Zenon
  <2>2. /\ m \in S /\ \A n \in S \cup F : n = m \/ (Precedes(n, m) /\ n.kind = "write")
        /\ m \notin F /\ \A n \in F : n.record = m.record
        /\ \E e \in S : IsEarliest(e, S) /\ IsInitialWrite(e)
    BY <1>1, Zenon DEF AfterPut
  <2>3. /\ \A n \in S : /\ n \in F \cup {m} \/ (n.initial /\ n \in archived)
                        /\ n \in archived => n.initial
                        /\ m.kind = "write" => n \in F \cup {m} \/ IsEarliest(n, S)
        /\ m.kind = "write" /\ LargeDataApart /\ m \notin archived' => HasData(m)'
    BY <1>1, Zenon DEF AfterPut
  <2>4. /\ m.kind = "write" /\ pc'[p] \in Unarchived => \A e \in F : IsEarliest(e, F) =>
             /\ IsInitialWrite(e) /\ IsEarliest(e, S)
             /\ pc'[p] \in {"archive_log", "archive_data"} => e \in archived
        /\ pc'[p] \in Removed => \A n \in F : IsEarliest(n, F) => n \notin S
    BY <2>1, Zenon DEF AfterPut
  <2> QED BY <2>2, <2>3, <2>4, Zenon
          DEF AfterPut, IsEarliest, IsInitialWrite, NoLater, Precedes, LargeDataApart, Large
<1> QED BY <1>1, <1>2, Zenon

\* Deleting the data of another write leaves the data of m, if they differ.
LEMMA DataStays ==
    ASSUME TypeOK, NEW m \in Messages, NEW n \in Messages, n # m, n.record = m.record,
           n.kind = "write", DataDelete(n.record, n.data), UNCHANGED store
    PROVE  m.kind = "write" /\ LargeDataApart /\ HasData(m) => HasData(m)'
<1> SUFFICES ASSUME m.kind = "write", LargeDataApart, HasData(m) PROVE HasData(m)'
  OBVIOUS
<1>1. m.record \in Record /\ m.data \in Data /\ n.data \in Data /\ encoded' = encoded
  BY MessageFields DEF store
<1>2. Large(m) => n.data # m.data
  BY DEF LargeDataApart
<1>3. n.data # m.data => roots'[<<m.record, m.data>>] = roots[<<m.record, m.data>>]
  BY <1>1 DEF DataDelete, TypeOK
<1> QED BY <1>1, <1>2, <1>3 DEF HasData, Large

\* The steps that leave the message store as it is.
LEMMA QuietHandled ==
    ASSUME TypeOK, TypeOK', NEW p \in Handlers, NEW m \in Messages, m = req[p],
           NEW S \in SUBSET Messages, NEW E \in SUBSET Messages,
           S = ExistingEntries(m.record), E = existing[p], AfterPut(p, m, S, E), UNCHANGED store,
           \/ LogEvent(p) \/ EmitEvent(p) \/ LogInitial(p) \/ DeleteInitialData(p)
           \/ DeletePreviousData(p) \/ UnlogPrevious(p) \/ UnlogEarlier(p)
           \/ DeleteChildren(p) \/ DeleteEarlierData(p)
    PROVE  Handled(p, m)
<1>0. /\ S = ExistingEntries(m.record)' /\ archived' = archived /\ encoded' = encoded
      /\ E \ {} = E
  BY SameEntries, Zenon
<1>1. roots' = roots => (HasData(m) => HasData(m)')
  BY <1>0, Zenon DEF HasData, Large
<1>2. ASSUME NEW n \in E
      PROVE  n \in Messages /\ n # m /\ n.record = m.record /\ n.kind = "write"
  BY Zenon DEF AfterPut
<1> USE DEF Arriving, Ready, Unarchived, Removed
<1>3. CASE LogEvent(p)
  <2>1. Step(p, "emit") /\ pc'[p] = "emit" /\ pc[p] = "log" /\ roots' = roots
    BY <1>3, StepMoves, Zenon DEF LogEvent
  <2>2. AfterPut(p, m, S, E \ {})'
    BY <1>0, <1>1, <2>1, AfterSame, Zenon
  <2> QED BY <1>0, <2>1, <2>2, LateHandled, Zenon
<1>4. CASE EmitEvent(p)
  <2>1. pc[p] = "emit" /\ roots' = roots
    BY <1>4, Zenon DEF EmitEvent
  <2>2. PICK l \in {"archive", "children", "earlier_data"} :
          Step(p, l) \/ \E r : Proceed(p, E, l, r)
    BY <1>4, Zenon DEF EmitEvent
  <2>3. pc'[p] \in {l, "idle"}
    BY <2>2, StepMoves, ProceedMoves, Zenon
  <2>4. AfterPut(p, m, S, E \ {})'
    BY <1>0, <1>1, <2>1, <2>3, AfterSame, Zenon
  <2> QED BY <1>0, <2>2, <2>4, LateHandled, Zenon
<1>5. CASE LogInitial(p)
  <2>1. PICK e \in E : /\ IsEarliest(e, E)
                       /\ \/ Step(p, "archive_data")
                          \/ Proceed(p, E \ {e}, "delete", WriteReply(p))
    BY <1>5, Zenon DEF LogInitial
  <2>2. pc[p] = "archive_log" /\ roots' = roots /\ m.kind = "write"
    BY <1>5, Zenon DEF LogInitial, TypeOK, WriteSteps
  <2>3. e.initial /\ e \in archived /\ IsEarliest(e, S)
    BY <2>1, <2>2, Zenon DEF AfterPut, IsInitialWrite
  <2>4. CASE Step(p, "archive_data")
    <3>1. pc'[p] = "archive_data"
      BY <2>4, StepMoves, Zenon
    <3>2. AfterPut(p, m, S, E \ {})'
      BY <1>0, <1>1, <2>2, <3>1, AfterSame, Zenon
    <3> QED BY <1>0, <2>4, <3>2, LateHandled, Zenon
  <2>5. CASE Proceed(p, E \ {e}, "delete", WriteReply(p))
    <3>1. pc'[p] \in {"delete", "idle"}
      BY <2>5, ProceedMoves, Zenon
    <3>2. AfterPut(p, m, S, E \ {e})'
      BY <1>0, <1>1, <2>2, <2>3, <3>1, AfterSame, Zenon
    <3> QED BY <1>0, <2>5, <3>2, LateHandled, Zenon
  <2> QED BY <2>1, <2>4, <2>5, Zenon
<1>6. CASE DeleteInitialData(p)
  <2>1. PICK e \in E : /\ IsEarliest(e, E) /\ DataDelete(e.record, e.data)
                       /\ Proceed(p, E \ {e}, "delete", WriteReply(p))
    BY <1>6, Zenon DEF DeleteInitialData
  <2>2. pc[p] = "archive_data" /\ m.kind = "write"
    BY <1>6 DEF DeleteInitialData, TypeOK, WriteSteps
  <2>3. e.initial /\ e \in archived /\ IsEarliest(e, S)
    BY <2>1, <2>2, Zenon DEF AfterPut, IsInitialWrite
  <2>4. m.kind = "write" /\ LargeDataApart /\ HasData(m) => HasData(m)'
    BY <1>2, <2>1, DataStays, Zenon
  <2>5. pc'[p] \in {"delete", "idle"}
    BY <2>1, ProceedMoves, Zenon
  <2>6. AfterPut(p, m, S, E \ {e})'
    BY <1>0, <2>3, <2>4, <2>5, AfterSame, Zenon
  <2> QED BY <1>0, <2>1, <2>6, LateHandled, Zenon
<1>7. CASE DeletePreviousData(p)
  <2>1. PICK n \in E : DataDelete(n.record, n.data)
    BY <1>7, Zenon DEF DeletePreviousData
  <2>2. Step(p, "delete_log") /\ pc'[p] = "delete_log" /\ pc[p] = "delete_data"
    BY <1>7, StepMoves, Zenon DEF DeletePreviousData
  <2>3. m.kind = "write" /\ LargeDataApart /\ HasData(m) => HasData(m)'
    BY <1>2, <2>1, DataStays, Zenon
  <2>4. AfterPut(p, m, S, E \ {})'
    BY <1>0, <2>2, <2>3, AfterSame, Zenon
  <2> QED BY <1>0, <2>2, <2>4, LateHandled, Zenon
<1>8. CASE UnlogPrevious(p) \/ UnlogEarlier(p)
  <2>1. PICK n \in E, l \in {"delete", "earlier_data"} :
          IsEarliest(n, E) /\ \E r : Proceed(p, E \ {n}, l, r)
    BY <1>8, Zenon DEF UnlogPrevious, UnlogEarlier
  <2>2. pc[p] \in Removed /\ roots' = roots
    BY <1>8, Zenon DEF UnlogPrevious, UnlogEarlier
  <2>3. n \notin S
    BY <2>1, <2>2, Zenon DEF AfterPut
  <2>4. pc'[p] \in {l, "idle"}
    BY <2>1, ProceedMoves, Zenon
  <2>5. AfterPut(p, m, S, E \ {n})'
    BY <1>0, <1>1, <2>2, <2>3, <2>4, AfterSame, Zenon
  <2> QED BY <1>0, <2>1, <2>5, LateHandled, Zenon
<1>9. CASE DeleteChildren(p)
  <2>1. Proceed(p, E, "earlier_data", "accepted") /\ roots' = roots
    BY <1>9, ZenonT(30) DEF DeleteChildren
  <2>2. pc'[p] \in {"earlier_data", "idle"}
    BY <2>1, ProceedMoves, Zenon
  <2>3. AfterPut(p, m, S, E \ {})'
    BY <1>0, <1>1, <2>1, <2>2, AfterSame, Zenon
  <2> QED BY <1>0, <2>1, <2>3, LateHandled, Zenon
<1>10. CASE DeleteEarlierData(p)
  <2>1. Step(p, "earlier") /\ pc'[p] = "earlier" /\ m.kind = "delete"
    BY <1>2, <1>10, StepMoves DEF DeleteEarlierData, TypeOK, DeleteSteps
  <2>2. AfterPut(p, m, S, E \ {})'
    BY <1>0, <2>1, AfterSame, Zenon
  <2> QED BY <1>0, <2>1, <2>2, LateHandled, Zenon
<1> QED BY <1>3, <1>4, <1>5, <1>6, <1>7, <1>8, <1>9, <1>10, Zenon

\* An entry that is stored is archived.
LEMMA AfterArchive ==
    ASSUME NEW p, NEW m \in Messages, NEW S \in SUBSET Messages, NEW E \in SUBSET Messages,
           AfterPut(p, m, S, E), NEW e \in E, IsEarliest(e, E), e.initial, e \in S, NEW c,
           StorePut(e, TRUE, c), roots' = roots, NEW D \in {{}, {e}},
           D # {} => m.kind = "delete" /\ pc'[p] \notin Unarchived,
           pc[p] \in Unarchived \/ m.kind = "delete", pc'[p] \notin Removed
    PROVE  AfterPut(p, m, S, E \ D)'
<1>0. PICK F \in SUBSET Messages : F = E \ D
  BY Zenon
<1>1. archived' = archived \cup {e} /\ e # m /\ (m \in encoded' <=> m \in encoded)
  BY Zenon DEF StorePut, AfterPut
<1>2. HasData(m) => HasData(m)'
  BY <1>1, Zenon DEF HasData, Large
<1>3. /\ m \in S /\ \A n \in S \cup F : n = m \/ (Precedes(n, m) /\ n.kind = "write")
      /\ m \notin F /\ \A n \in F : n.record = m.record
      /\ \E x \in S : IsEarliest(x, S) /\ IsInitialWrite(x)
  BY <1>0, Zenon DEF AfterPut
<1>4. /\ \A n \in S : /\ n \in F \cup {m} \/ (n.initial /\ n \in archived')
                      /\ n \in archived' => n.initial
                      /\ m.kind = "write" => n \in F \cup {m} \/ IsEarliest(n, S)
      /\ m.kind = "write" /\ LargeDataApart /\ m \notin archived' => HasData(m)'
  BY <1>0, <1>1, <1>2, Zenon DEF AfterPut
<1>5. m.kind = "write" /\ pc'[p] \in Unarchived => \A x \in F : IsEarliest(x, F) =>
        IsInitialWrite(x) /\ IsEarliest(x, S) /\ x \in archived'
  <2> SUFFICES ASSUME m.kind = "write", pc'[p] \in Unarchived, NEW x \in F, IsEarliest(x, F)
               PROVE  IsInitialWrite(x) /\ IsEarliest(x, S) /\ x \in archived'
    BY ZenonT(30)
  <2>1. F = E /\ m.kind # "delete" /\ pc[p] \in Unarchived
    BY <1>0
  <2>2. x = e
    BY <2>1, EarliestUnique
  <2> QED BY <1>1, <2>1, <2>2, Zenon DEF AfterPut
<1>6. AfterPut(p, m, S, F)'
  BY <1>3, <1>4, <1>5, Zenon
     DEF AfterPut, IsEarliest, IsInitialWrite, NoLater, Precedes, LargeDataApart, Large
<1> QED BY <1>0, <1>6, Zenon

\* An entry that is not the initial write is deleted.
LEMMA AfterRemove ==
    ASSUME NEW p, NEW m \in Messages, NEW S \in SUBSET Messages, NEW E \in SUBSET Messages,
           AfterPut(p, m, S, E), NEW n \in E, IsEarliest(n, E), StoreDelete(n), roots' = roots,
           ~IsInitialWrite(n) \/ \E i \in S : Precedes(i, n),
           pc'[p] \notin Unarchived
    PROVE  AfterPut(p, m, S \ {n}, E)'
<1>0. PICK T \in SUBSET Messages : T = S \ {n}
  BY Zenon
<1>1. archived' = archived \ {n} /\ n # m /\ (m \in encoded' <=> m \in encoded)
  BY Zenon DEF StoreDelete, AfterPut
<1>2. HasData(m) => HasData(m)'
  BY <1>1 DEF HasData, Large
<1>3. \A x \in T : IsEarliest(x, S) => IsEarliest(x, T)
  BY <1>0 DEF IsEarliest
<1>4. \E x \in T : IsEarliest(x, T) /\ IsInitialWrite(x)
  <2>1. PICK e \in S : IsEarliest(e, S) /\ IsInitialWrite(e)
    BY Zenon DEF AfterPut
  <2>2. e # n
    <3>1. ASSUME NEW i \in S, Precedes(i, n) PROVE e # n
      <4>1. NoLater(e, i)
        BY <2>1 DEF IsEarliest
      <4>2. Precedes(e, n)
        BY <3>1, <4>1, OrderFacts
      <4> QED BY <4>2, OrderFacts
    <3> QED BY <2>1, <3>1
  <2> QED BY <1>0, <1>3, <2>1, <2>2
<1>5. /\ m \in T /\ \A x \in T \cup E : x = m \/ (Precedes(x, m) /\ x.kind = "write")
      /\ m \notin E /\ \A x \in E : x.record = m.record
  BY <1>0, <1>1, Zenon DEF AfterPut
<1>6. /\ \A x \in T : /\ x \in E \cup {m} \/ (x.initial /\ x \in archived')
                      /\ x \in archived' => x.initial
                      /\ m.kind = "write" => x \in E \cup {m} \/ IsEarliest(x, T)
      /\ m.kind = "write" /\ LargeDataApart /\ m \notin archived' => HasData(m)'
  BY <1>0, <1>1, <1>2, <1>3, Zenon DEF AfterPut
<1>7. \A x \in E : IsEarliest(x, E) => x \notin T
  BY <1>0, EarliestUnique
<1>8. AfterPut(p, m, T, E)'
  BY <1>4, <1>5, <1>6, <1>7, Zenon
     DEF AfterPut, IsEarliest, IsInitialWrite, NoLater, Precedes, LargeDataApart, Large
<1> QED BY <1>0, <1>8

\* The steps that change the message store.
LEMMA CleanHandled ==
    ASSUME Inv, TypeOK', NEW p \in Handlers, NEW m \in Messages, m = req[p], LogInv(p),
           NEW S \in SUBSET Messages, NEW E \in SUBSET Messages,
           S = ExistingEntries(m.record), E = existing[p], AfterPut(p, m, S, E),
           ArchiveInitial(p) \/ DeletePrevious(p) \/ DeleteEarlier(p)
    PROVE  Handled(p, m)
<1>0. TypeOK /\ roots' = roots /\ E \ {} = E /\ E \subseteq S
  BY Zenon DEF Inv, ArchiveInitial, DeletePrevious, DeleteEarlier, LogInv, Removed, AfterPut,
         ExistingEntries
<1>1. ASSUME NEW n \in E
      PROVE  n \in Messages /\ n # m /\ n.record = m.record /\ n.kind = "write" /\ n \in S
  BY <1>0, Zenon DEF AfterPut
<1>2. ASSUME NEW n \in E, NEW c, StorePut(n, TRUE, c) PROVE ExistingEntries(m.record)' = S
  BY <1>1, <1>2, Zenon DEF StorePut, ExistingEntries
<1>3. ASSUME NEW n \in E, StoreDelete(n) PROVE ExistingEntries(m.record)' = S \ {n}
  BY <1>3 DEF StoreDelete, ExistingEntries
<1> USE DEF Arriving, Ready, Unarchived, Removed
<1>4. CASE ArchiveInitial(p)
  <2>1. PICK e \in E : IsEarliest(e, E) /\ StorePut(e, TRUE, e \in existingEncoded[p])
    BY <1>4, Zenon DEF ArchiveInitial
  <2>2. Step(p, "archive_log") /\ pc'[p] = "archive_log" /\ pc[p] = "archive" /\ m.kind = "write"
    BY <1>0, <1>4, StepMoves, Zenon DEF ArchiveInitial, TypeOK, WriteSteps
  <2>3. e.initial
    BY <2>1, <2>2, Zenon DEF AfterPut, IsInitialWrite
  <2>4. AfterPut(p, m, S, E \ {})'
    BY <1>0, <1>1, <2>1, <2>2, <2>3, AfterArchive, Zenon
  <2> QED BY <1>0, <1>2, <2>1, <2>2, <2>4, LateHandled, Zenon
<1>5. ASSUME NEW n \in E, IsEarliest(n, E), StoreDelete(n),
             NEW l \in {"delete_data", "earlier_log"}, Step(p, l),
             ~IsInitialWrite(n) \/ \E i \in S : Precedes(i, n)
      PROVE  Handled(p, m)
  <2>1. pc'[p] = l
    BY <1>0, <1>5, StepMoves, Zenon
  <2>2. AfterPut(p, m, S \ {n}, E)'
    BY <1>0, <1>5, <2>1, AfterRemove, Zenon
  <2>3. PICK T \in SUBSET Messages : T = S \ {n}
    BY Zenon
  <2>4. T = ExistingEntries(m.record)' /\ AfterPut(p, m, T, E)'
    BY <1>3, <1>5, <2>2, <2>3, Zenon
  <2> QED BY <1>0, <1>5, <2>4, LateHandled, Zenon
<1>6. CASE DeletePrevious(p)
  <2>1. PICK n \in E : IsEarliest(n, E) /\ StoreDelete(n) /\ Step(p, "delete_data")
    BY <1>1, <1>6, Zenon DEF DeletePrevious
  <2>2. StrictRooted(n)
    BY <1>6, Zenon DEF Inv, HandlerInv, DeletePrevious, Cleaning
  <2>3. \E i \in S : Precedes(i, n)
    BY <1>1, <2>2, Zenon DEF StrictRooted, ExistingEntries
  <2> QED BY <1>5, <2>1, <2>3, Zenon
<1>7. CASE DeleteEarlier(p)
  <2>1. m.kind = "delete"
    BY <1>0, <1>7 DEF DeleteEarlier, TypeOK, DeleteSteps
  <2>2. PICK n \in E :
          /\ IsEarliest(n, E)
          /\ \/ /\ n.initial
                /\ StorePut(n, TRUE, n \in existingEncoded[p])
                /\ Proceed(p, E \ {n}, "earlier_data", "accepted")
             \/ ~n.initial /\ StoreDelete(n) /\ Step(p, "earlier_log")
    BY <1>7, Zenon DEF DeleteEarlier
  <2>3. CASE /\ n.initial
             /\ StorePut(n, TRUE, n \in existingEncoded[p])
             /\ Proceed(p, E \ {n}, "earlier_data", "accepted")
    <3>1. pc'[p] \in {"earlier_data", "idle"}
      BY <1>0, <2>3, ProceedMoves, Zenon
    <3>2. AfterPut(p, m, S, E \ {n})'
      BY <1>0, <1>1, <2>1, <2>2, <2>3, <3>1, AfterArchive, Zenon
    <3> QED BY <1>0, <1>2, <2>3, <3>2, LateHandled, Zenon
  <2>4. CASE ~n.initial /\ StoreDelete(n) /\ Step(p, "earlier_log")
    BY <1>5, <2>2, <2>4, Zenon DEF IsInitialWrite
  <2> QED BY <2>2, <2>3, <2>4, Zenon
<1> QED BY <1>4, <1>6, <1>7, Zenon

-----------------------------------------------------------------------------
(* All steps                                                               *)

\* A handler changes the stores in the record of its message only.
LEMMA HandlerTouches ==
    ASSUME Inv, NEW p \in Handlers, NEW m \in Messages, m = req[p], pc[p] # "idle", Handle(p)
    PROVE  \A s \in Record \ {m.record} : Untouched(s)
<1>0. TypeOK /\ m.record \in Record
  BY MessageFields DEF Inv
<1>1. ASSUME NEW n \in existing[p] PROVE n \in Messages /\ n.record = m.record
  BY DEF Inv, TypeOK, HandlerInv
<1>2. \/ UNCHANGED store
      \/ \E n \in Messages : n.record = m.record /\ StoreDelete(n)
      \/ \E n \in Messages : n.record = m.record /\ \E a, e : StorePut(n, a, e)
  BY <1>1, Zenon DEF Handle, Work, Refuse, VerifyParent, FetchExisting, UpdateData, CloneData, PutMessage,
     LogEvent, EmitEvent, ArchiveInitial, LogInitial, DeleteInitialData, DeletePrevious,
     DeletePreviousData, UnlogPrevious, FetchActive, FetchEntries, DeleteChildren,
     DeleteEarlierData, DeleteEarlier, UnlogEarlier
<1>3. UpdateData(p) => \E d \in Data : \E b : roots' = [roots EXCEPT ![<<m.record, d>>] = b]
  <2>1. UpdateData(p) => m.data \in Data
    BY <1>0, MessageFields DEF UpdateData, TypeOK, WriteSteps
  <2> QED BY <2>1, Zenon DEF UpdateData, DataPut
<1>4. \/ UNCHANGED roots \/ UpdateData(p)
      \/ \E n \in existing[p] : DataDelete(n.record, n.data)
  BY Zenon DEF Handle, Work, Refuse, VerifyParent, FetchExisting, CloneData, PutMessage,
     LogEvent, EmitEvent, ArchiveInitial, LogInitial, DeleteInitialData, DeletePrevious,
     DeletePreviousData, UnlogPrevious, FetchActive, FetchEntries, DeleteChildren,
     DeleteEarlierData, DeleteEarlier, UnlogEarlier
<1>5. ASSUME NEW n \in existing[p], DataDelete(n.record, n.data), NEW s \in Record \ {m.record}
      PROVE  \A d \in Data : roots'[<<s, d>>] = roots[<<s, d>>]
  BY <1>0, <1>1, <1>5 DEF DataDelete, TypeOK
<1>6. ASSUME NEW s \in Record \ {m.record} PROVE Untouched(s)
  <2>1. \A d \in Data : roots'[<<s, d>>] = roots[<<s, d>>]
    BY <1>0, <1>3, <1>4, <1>5, Zenon DEF TypeOK
  <2>2. CASE UNCHANGED store
    BY <2>1, <2>2, Zenon DEF Untouched, store, ExistingEntries
  <2>3. CASE \E n \in Messages : n.record = m.record /\ StoreDelete(n)
    BY <2>1, <2>3 DEF Untouched, StoreDelete, ExistingEntries
  <2>4. CASE \E n \in Messages : n.record = m.record /\ \E a, e : StorePut(n, a, e)
    BY <2>1, <2>4, Zenon DEF Untouched, StorePut, ExistingEntries
  <2> QED BY <1>2, <2>2, <2>3, <2>4, Zenon
<1> QED BY <1>6

\* Every step of a handler is Handled.
LEMMA HandledAll ==
    ASSUME DeletesApart, Inv, TypeOK', NEW p \in Handlers, NEW m \in Messages, m = req[p],
           pc[p] # "idle", LogInv(p), RequestInv(p, m), Handle(p)
    PROVE  /\ Handled(p, m)
           /\ emitted' \subseteq emitted \cup {m} /\ (emitted' # emitted => m \in stored')
           /\ \A d \in stored : d.kind = "delete" => d \in stored'
<1>0. TypeOK /\ existing[p] \in SUBSET Messages
  BY Zenon DEF Inv, TypeOK
<1>1. PICK S, E \in SUBSET Messages : S = ExistingEntries(m.record) /\ E = existing[p]
  BY <1>0, Zenon DEF TypeOK, ExistingEntries
<1>2. pc[p] \notin Arriving \cup Ready => AfterPut(p, m, S, E)
  BY <1>1, Zenon DEF RequestInv
<1> DEFINE Rest == /\ emitted' \subseteq emitted \cup {m} /\ (emitted' # emitted => m \in stored')
                   /\ \A d \in stored : d.kind = "delete" => d \in stored'
<1>3. UNCHANGED <<store, emitted>> => Rest
  BY Zenon DEF store
<1>4. CASE Refuse(p) \/ VerifyParent(p) \/ FetchActive(p)
  BY <1>0, <1>3, <1>4, ArriveStep, Zenon DEF Refuse, VerifyParent, FetchActive
<1>5. CASE FetchExisting(p) \/ FetchEntries(p)
  BY <1>0, <1>3, <1>5, FetchStep, DeleteFetchStep, Zenon DEF FetchExisting, FetchEntries
<1>6. CASE UpdateData(p) \/ CloneData(p)
  BY <1>0, <1>3, <1>6, DataStep, Zenon DEF UpdateData, CloneData
<1>7. CASE PutMessage(p)
  <2>1. Handled(p, m)
    BY <1>0, <1>7, PutStep, Zenon
  <2> QED BY <1>7, <2>1, Zenon DEF PutMessage, StorePut
<1>8. CASE LogEvent(p) \/ LogInitial(p) \/ DeleteInitialData(p) \/ DeletePreviousData(p)
           \/ UnlogPrevious(p) \/ UnlogEarlier(p) \/ DeleteChildren(p) \/ DeleteEarlierData(p)
  <2>1. UNCHANGED <<store, emitted>> /\ pc[p] \notin Arriving \cup Ready
    BY <1>8, Zenon DEF LogEvent, LogInitial, DeleteInitialData, DeletePreviousData, UnlogPrevious,
       UnlogEarlier, DeleteChildren, DeleteEarlierData, Arriving, Ready
  <2> QED BY <1>0, <1>1, <1>2, <1>3, <1>8, <2>1, QuietHandled, Zenon
<1>9. CASE EmitEvent(p)
  <2>1. UNCHANGED store /\ emitted' = emitted \cup {m} /\ pc[p] \notin Arriving \cup Ready
    BY <1>9, Zenon DEF EmitEvent, Arriving, Ready
  <2>2. Handled(p, m)
    BY <1>0, <1>1, <1>2, <1>9, <2>1, QuietHandled, Zenon
  <2>3. m \in stored
    BY <1>1, <1>2, <2>1, Zenon DEF AfterPut, ExistingEntries
  <2> QED BY <2>1, <2>2, <2>3, Zenon DEF store
<1>10. CASE ArchiveInitial(p) \/ DeletePrevious(p) \/ DeleteEarlier(p)
  <2>1. pc[p] \notin Arriving \cup Ready /\ emitted' = emitted
    BY <1>10, Zenon DEF ArchiveInitial, DeletePrevious, DeleteEarlier, Arriving, Ready
  <2>2. Handled(p, m)
    BY <1>1, <1>2, <1>10, <2>1, CleanHandled, Zenon
  <2>3. \A n \in E : n.kind = "write"
    BY <1>2, <2>1, Zenon DEF AfterPut
  <2>4. \A d \in stored : d.kind = "delete" => d \in stored'
    BY <1>1, <1>10, <2>3, Zenon
       DEF ArchiveInitial, DeletePrevious, DeleteEarlier, StorePut, StoreDelete, store
  <2> QED BY <2>1, <2>2, <2>4, Zenon
<1> QED BY <1>4, <1>5, <1>6, <1>7, <1>8, <1>9, <1>10, Zenon DEF Handle, Work

\* SequentialInv always holds, with one request at a time.
LEMMA SequentialInvariant ==
    ASSUME Sequential, DeletesApart
    PROVE  Spec => []SequentialInv
<1>1. Init => SequentialInv
  <2> SUFFICES ASSUME Init PROVE SequentialInv
    OBVIOUS
  <2>1. \A r \in Record : ExistingEntries(r) = {}
    BY DEF Init, ExistingEntries
  <2>2. \A r \in Record : AtRest(r)
    BY <2>1 DEF AtRest
  <2> QED BY <2>2 DEF Init, SequentialInv
<1>2. Inv /\ TypeOK' /\ LogsInv /\ SequentialInv /\ [Next]_vars => SequentialInv'
  <2> SUFFICES ASSUME Inv, TypeOK', LogsInv, SequentialInv, [Next]_vars PROVE SequentialInv'
    OBVIOUS
  <2>0. TypeOK
    BY DEF Inv
  <2>1. ASSUME NEW p \in Handlers, NEW m \in Messages, NEW s, Start(p, m, s) PROVE SequentialInv'
    <3>1. UNCHANGED <<store, roots, emitted>> /\ pc[p] = "idle" /\ req'[p] = m
          /\ pc'[p] \in {"parent", "fetch", "active"}
      BY <2>0, <2>1, Zenon DEF Start, Goto, TypeOK
    <3>2. \A r : Untouched(r)
      BY <3>1, AllUntouched
    <3>3. AtRest(m.record)
      BY <3>1, MessageFields, Zenon DEF Sequential, SequentialInv
    <3>4. AtRest(m.record)'
      BY <2>0, <3>2, <3>3, RestUntouched
    <3>5. Handled(p, m)
      BY <3>1, <3>4, Zenon DEF Handled, RequestInv, BeforePut, Arriving, Ready
    <3>6. \A d \in emitted' : d.kind = "delete" => d \in stored'
      BY <3>1, Zenon DEF SequentialInv, store
    <3> QED BY <2>0, <3>1, <3>2, <3>5, <3>6, HandledStep
  <2>2. ASSUME NEW p \in Handlers, Handle(p) PROVE SequentialInv'
    <3>1. pc[p] # "idle"
      BY <2>2, Zenon DEF Handle, Work, Refuse, VerifyParent, FetchExisting, UpdateData, CloneData,
         PutMessage, LogEvent, EmitEvent, ArchiveInitial, LogInitial, DeleteInitialData,
         DeletePrevious, DeletePreviousData, UnlogPrevious, FetchActive, FetchEntries,
         DeleteChildren, DeleteEarlierData, DeleteEarlier, UnlogEarlier
    <3>2. PICK m \in Messages : m = req[p]
      BY <2>0, <3>1, Zenon DEF TypeOK
    <3>3. RequestInv(p, m) /\ LogInv(p)
      BY <3>1, <3>2, Zenon DEF SequentialInv, LogsInv
    <3>4. /\ Handled(p, m)
          /\ emitted' \subseteq emitted \cup {m} /\ (emitted' # emitted => m \in stored')
          /\ \A d \in stored : d.kind = "delete" => d \in stored'
      BY <2>2, <3>1, <3>2, <3>3, HandledAll, Zenon
    <3>5. \A s \in Record \ {m.record} : Untouched(s)
      BY <2>2, <3>1, <3>2, HandlerTouches
    <3>6. \A d \in emitted' : d.kind = "delete" => d \in stored'
      BY <3>4, Zenon DEF SequentialInv
    <3> QED BY <2>0, <3>2, <3>4, <3>5, <3>6, HandledStep
  <2>3. ASSUME NEW p \in Handlers, Abandon(p) \/ TaskTimeout(p) PROVE FALSE
    BY <2>3 DEF Abandon, TaskTimeout, Sequential
  <2>4. CASE UNCHANGED vars
    <3>1. UNCHANGED <<store, roots, emitted, pc, req, existing, stream>>
      BY <2>4 DEF vars, store
    <3>2. \A r \in Record : AtRest(r) => AtRest(r)'
      BY <2>0, <3>1, AllUntouched, RestUntouched
    <3>3. ASSUME NEW p \in Handlers, NEW m \in Messages, RequestInv(p, m) PROVE RequestInv(p, m)'
      <4>1. m.record \in Record /\ ExistingEntries(m.record)' = ExistingEntries(m.record)
            /\ archived' = archived /\ encoded' = encoded
        BY <3>1, SameEntries, MessageFields
      <4>2. BeforePut(p, m, ExistingEntries(m.record)) =>
              BeforePut(p, m, ExistingEntries(m.record))'
        BY <3>1, <3>2, <4>1, Zenon
           DEF BeforePut, OnlyWrites, NoContent, LargeDataApart, Large, IsInitialWrite
      <4>3. \A S, E \in SUBSET Messages : AfterPut(p, m, S, E) => AfterPut(p, m, S, E)'
        <5>1. pc' = pc /\ archived' = archived /\ (HasData(m) => HasData(m)')
          BY <3>1, <4>1, Zenon DEF HasData, Large
        <5> QED BY <5>1, AfterPutSame, Zenon
      <4> QED BY <3>1, <3>3, <4>1, <4>2, <4>3, Zenon DEF RequestInv
    <3> QED BY <3>1, <3>2, <3>3, Zenon DEF SequentialInv, store
  <2> QED BY <2>1, <2>2, <2>3, <2>4 DEF Next
<1> QED BY <1>1, <1>2, InvAlways, TypeCorrect, LogsInvariant, PTL DEF Spec

-----------------------------------------------------------------------------
(* What holds between requests                                             *)

\* When no handler is busy, every record is at rest.
LEMMA IdleAtRest ==
    ASSUME SequentialInv, AllIdle, NEW r \in Record
    PROVE  AtRest(r)
BY DEF SequentialInv, AllIdle

\* A record keeps its initial write and its latest message, unless a delete has the
\* timestamp of another message of the record.
THEOREM InitialAndLatestOnly ==
    ASSUME Sequential, DeletesApart
    PROVE  Spec => []OnlyInitialAndLatest
<1>1. ASSUME TypeOK, SequentialInv PROVE OnlyInitialAndLatest
  <2> SUFFICES ASSUME AllIdle, NEW m \in stored
               PROVE  IsInitialWrite(m) \/ IsLatest(m, ExistingEntries(m.record))
    BY DEF OnlyInitialAndLatest
  <2>1. m \in Messages /\ m.record \in Record /\ m \in ExistingEntries(m.record)
    BY <1>1, MessageFields, Zenon DEF TypeOK, ExistingEntries
  <2>2. AtRest(m.record)
    BY <1>1, <2>1, IdleAtRest
  <2> QED BY <2>1, <2>2, MessageFields, Zenon DEF AtRest, IsInitialWrite
<1> QED BY <1>1, TypeCorrect, SequentialInvariant, PTL

\* A record whose delete was emitted reads as deleted from then on, and has no
\* updates left, under the same proviso.
THEOREM DeletesAreFinal ==
    ASSUME Sequential, DeletesApart
    PROVE  Spec => []DeletedIsFinal
<1>1. ASSUME TypeOK, SequentialInv PROVE DeletedIsFinal
  <2> SUFFICES ASSUME AllIdle, NEW d \in emitted, d.kind = "delete"
               PROVE  /\ ReadOutcome(d.record) = "deleted"
                      /\ \A m \in ExistingEntries(d.record) : m.kind = "write" => m.initial
    BY DEF DeletedIsFinal
  <2>1. PICK S \in SUBSET Messages : S = ExistingEntries(d.record)
    BY <1>1, Zenon DEF TypeOK, ExistingEntries
  <2>2. d \in S /\ d \in Messages /\ d.record \in Record /\ ~d.initial
    BY <1>1, <2>1, MessageFields, Zenon DEF SequentialInv, TypeOK, ExistingEntries
  <2>3. /\ \E e \in S : IsEarliest(e, S) /\ IsInitialWrite(e)
        /\ \A n \in S : /\ IsLatest(n, S) \/ (n.initial /\ n \in archived)
                        /\ n \in archived => n.initial
    BY <1>1, <2>1, <2>2, IdleAtRest DEF AtRest
  <2>4. \A n \in S : n = d \/ (n.initial /\ n \in archived)
    BY <2>2, <2>3, LatestUnique
  <2>5. ActiveEntries(d.record) = {d}
    BY <1>1, <2>1, <2>2, <2>3, <2>4 DEF ActiveEntries, ExistingEntries
  <2>6. Cardinality({d}) = 1
    BY FS_Singleton
  <2>7. ~(Cardinality({d}) > 1) /\ {d} # {} /\ \E n \in {d} : n.kind = "delete"
    BY <2>6
  <2>8. \E e \in S : IsEarliest(e, S) /\ IsInitialWrite(e)
    BY <2>3
  <2>9. ReadOutcome(d.record) = "deleted"
    BY <2>1, <2>5, <2>7, <2>8, Zenon DEF ReadOutcome
  <2>10. \A n \in S : n.kind = "write" => n.initial
    BY <2>4
  <2> QED BY <2>1, <2>9, <2>10, Zenon
<1> QED BY <1>1, TypeCorrect, SequentialInvariant, PTL

\* A record with a queryable write or an update, and no delete, can be read with
\* its data, if moreover no two of its writes have the same large data.
THEOREM LiveRecordsReadable ==
    ASSUME Sequential, DeletesApart, LargeDataApart
    PROVE  Spec => []LiveRecordReadable
<1>1. ASSUME TypeOK, SequentialInv PROVE LiveRecordReadable
  <2> SUFFICES ASSUME AllIdle, NEW r \in Record,
                      \E m \in ExistingEntries(r) : m \notin archived \/ ~m.initial,
                      \A m \in ExistingEntries(r) : m.kind = "write"
               PROVE  ReadOutcome(r) = "ok"
    BY DEF LiveRecordReadable
  <2>1. PICK S \in SUBSET Messages : S = ExistingEntries(r)
    BY <1>1, Zenon DEF TypeOK, ExistingEntries
  <2>2. /\ \A n \in S : /\ IsLatest(n, S) \/ (n.initial /\ n \in archived)
                        /\ n \in archived => n.initial
        /\ \A n \in S \ archived : HasData(n)
    BY <1>1, <2>1, IdleAtRest, Zenon DEF AtRest, OnlyWrites
  <2>3. PICK m \in S : m \notin archived
    BY <2>1, <2>2
  <2>4. ActiveEntries(r) = {m} /\ m.record = r
    BY <2>1, <2>2, <2>3, LatestUnique DEF ActiveEntries, ExistingEntries
  <2>5. Cardinality({m}) = 1
    BY FS_Singleton
  <2>6. m.kind = "write" /\ HasData(m)
    BY <2>1, <2>2, <2>3
  <2>7. ~(Cardinality({m}) > 1) /\ {m} # {} /\ ~\E n \in {m} : n.kind = "delete"
    BY <2>5, <2>6
  <2>8. \E n \in {m} : n \in encoded \/ roots[<<r, n.data>>] # NoData
    BY <2>4, <2>6 DEF HasData
  <2> QED BY <2>4, <2>7, <2>8, Zenon DEF ReadOutcome
<1> QED BY <1>1, TypeCorrect, SequentialInvariant, PTL

\* The task of a delete that was let through finds the record as it should be.
LEMMA TaskDeletes ==
    ASSUME TypeOK, NEW p \in Handlers, NEW m \in Messages, m = req[p], pc[p] = "task",
           RequestInv(p, m)
    PROVE  Deletable(m, ExistingEntries(m.record))
<1>1. PICK S \in SUBSET Messages : S = ExistingEntries(m.record)
  BY Zenon DEF TypeOK, ExistingEntries
<1>2. /\ AtRest(m.record) /\ OnlyWrites(S) /\ S # {} /\ \A l \in S : l.ts <= m.ts
  BY <1>1, Zenon DEF RequestInv, BeforePut, Arriving
<1>3. PICK e, l \in S : IsEarliest(e, S) /\ IsInitialWrite(e) /\ IsLatest(l, S)
  BY <1>1, <1>2, Zenon DEF AtRest
<1>4. \A n \in S : n = e \/ n = l
  BY <1>1, <1>2, <1>3, EarliestUnique, LatestUnique, Zenon DEF AtRest
<1>5. S = {e} \cup {l}
  BY <1>3, <1>4
<1>6. IsFiniteSet({e}) /\ Cardinality({e}) = 1
  BY FS_Singleton, Zenon
<1>7. Cardinality({e} \cup {l}) = IF l \in {e} THEN Cardinality({e}) ELSE Cardinality({e}) + 1
  BY <1>6, FS_AddElement, Zenon
<1>8. Cardinality(S) \in 1..2
  BY <1>5, <1>6, <1>7
<1>9. m.ts >= l.ts
  BY <1>2, <1>3, MessageFields, Zenon
<1> QED BY <1>1, <1>3, <1>8, <1>9, Zenon DEF Deletable

\* A delete that is answered as accepted has been stored, or a later one has.
THEOREM AcceptedDeletesStored ==
    ASSUME Sequential, DeletesApart
    PROVE  Spec => AcceptedDeleteStored
<1>1. Inv /\ TypeOK' /\ LogsInv /\ SequentialInv /\ [Next]_vars =>
        [\A p \in Handlers :
           pc[p] # "idle" /\ pc'[p] = "idle" /\ reply' = "accepted" /\ req[p].kind = "delete"
           => \E d \in stored' :
                d.kind = "delete" /\ d.record = req[p].record /\ NoLater(req[p], d)]_vars
  <2> SUFFICES ASSUME Inv, TypeOK', LogsInv, SequentialInv, Next, NEW p \in Handlers,
                      pc[p] # "idle", pc'[p] = "idle", reply' = "accepted", req[p].kind = "delete"
               PROVE  \E d \in stored' :
                        d.kind = "delete" /\ d.record = req[p].record /\ NoLater(req[p], d)
    BY Zenon
  <2>0. TypeOK
    BY DEF Inv
  <2>1. Handle(p)
    <3>1. PICK q \in Handlers : \/ \E m \in Messages, s \in Data \cup {NoData} : Start(q, m, s)
                                \/ Handle(q) \/ Abandon(q) \/ TaskTimeout(q)
      BY Zenon DEF Next
    <3>2. q = p
      BY DEF Sequential
    <3> QED BY <3>1, <3>2, Zenon DEF Sequential, Start, Abandon, TaskTimeout
  <2>2. PICK m \in Messages : m = req[p]
    BY <2>0, Zenon DEF TypeOK
  <2>3. RequestInv(p, m) /\ LogInv(p)
    BY <2>2, Zenon DEF SequentialInv, LogsInv
  <2>4. CASE pc[p] \notin Arriving \cup Ready
    <3>1. m \in stored
      <4>1. PICK S, E \in SUBSET Messages : S = ExistingEntries(m.record) /\ E = existing[p]
        BY <2>0, Zenon DEF TypeOK, ExistingEntries
      <4>2. AfterPut(p, m, S, E)
        BY <2>3, <2>4, <4>1, Zenon DEF RequestInv
      <4> QED BY <4>1, <4>2, Zenon DEF AfterPut, ExistingEntries
    <3>2. m \in stored'
      BY <2>1, <2>2, <2>3, <3>1, HandledAll, Zenon
    <3> QED BY <2>2, <3>2 DEF NoLater
  <2>5. CASE pc[p] \in Arriving \cup Ready
    <3>1. pc[p] \notin WriteSteps
      BY <2>0, Zenon DEF TypeOK
    <3>2. CASE pc[p] = "task"
      <4>1. FetchEntries(p) \/ Refuse(p)
        BY <2>1, <3>2, Zenon DEF Handle, Work, Refuse, VerifyParent, FetchExisting, UpdateData, CloneData,
           PutMessage, LogEvent, EmitEvent, ArchiveInitial, LogInitial, DeleteInitialData,
           DeletePrevious, DeletePreviousData, UnlogPrevious, FetchActive, FetchEntries,
           DeleteChildren, DeleteEarlierData, DeleteEarlier, UnlogEarlier
      <4>2. ~Refuse(p)
        BY Zenon DEF Refuse, Answer
      <4>3. Deletable(m, ExistingEntries(m.record))
        BY <2>0, <2>2, <2>3, <3>2, TaskDeletes, Zenon
      <4> QED BY <2>0, <2>2, <4>1, <4>2, <4>3, Zenon DEF FetchEntries, Goto, TypeOK
    <3>3. CASE pc[p] \in {"put", "active"}
      <4>1. PutMessage(p) \/ FetchActive(p)
        BY <2>1, <3>3, Zenon DEF Handle, Work, Refuse, VerifyParent, FetchExisting, UpdateData, CloneData,
           PutMessage, LogEvent, EmitEvent, ArchiveInitial, LogInitial, DeleteInitialData,
           DeletePrevious, DeletePreviousData, UnlogPrevious, FetchActive, FetchEntries,
           DeleteChildren, DeleteEarlierData, DeleteEarlier, UnlogEarlier
      <4>2. ~Step(p, "log") /\ ~Step(p, "task")
        BY <2>0, StepMoves
      <4>3. FetchActive(p)
        BY <4>1, <4>2, Zenon DEF PutMessage
      <4>4. \E r \in {"not_found", "error"} : Answer(p, r)
        BY <4>2, <4>3, Zenon DEF FetchActive
      <4> QED BY <4>4 DEF Answer
    <3> QED BY <2>5, <3>1, <3>2, <3>3, Zenon DEF Arriving, Ready, WriteSteps
  <2> QED BY <2>4, <2>5, Zenon
<1> QED BY <1>1, InvAlways, TypeCorrect, LogsInvariant, SequentialInvariant, PTL
        DEF Spec, AcceptedDeleteStored
=============================================================================

----------------------------- MODULE NodeProofs -----------------------------
(***************************************************************************)
(* What the checks of a request find still holds when its message is       *)
(* stored, unless a request that could have changed it overlapped.  Proved *)
(* for any messages, definitions, number of handlers and interleaving.     *)
(*                                                                         *)
(* The argument: a handler changes the entries of the record it was asked  *)
(* about only, or cleans up after a revocation (Apart); and two requests   *)
(* that are in progress at once are recorded as such (Overlaps).  So what  *)
(* a check of p found about a record stays true, or the request that       *)
(* changed it is one that p's overlapped with.                             *)
(***************************************************************************)
EXTENDS Node, RecordsProofs, ConfigureProofs

Unstored == {"parent", "fetch", "data_put", "data_get", "put"}

\* The entries a handler fetched are those of its record.
OwnEntries ==
    \A p \in Handlers : IF pc[p] = "idle" THEN existing[p] = {}
                        ELSE \A n \in existing[p] : n.record = req[p].record

Overlaps ==
    \A p, q \in Handlers :
        p # q /\ InProgress(p) /\ InProgress(q) => {Busy(p), Busy(q)} \in concurrent

\* Where a handler is behind each gate.
Before(m) == IF m.parent # NoRecord THEN "parent" ELSE "fetch"

GateInv(p) ==
    /\ gate[p] \in {"grant", "current", "verify"} => pc[p] = Before(req[p])
    /\ gate[p] \in {"role", "role_holder", "rules", "chain", "action"}
         => pc[p] \in {"task", Before(req[p])}
    /\ gate[p] = "parent" => pc[p] = "parent"
    /\ gate[p] \in {"role_record", "revocation"} => pc[p] = "fetch"
    /\ gate[p] = "open" => pc[p] # "parent"
-----------------------------------------------------------------------------
(* What a step of a handler leaves alone                                   *)

\* The entries of records other than r are as before.
Elsewhere(r) ==
    \A n \in Messages : n.record # r =>
        /\ n \in stored' <=> n \in stored
        /\ n \in archived' <=> n \in archived
        /\ n \in encoded' <=> n \in encoded

\* A step of a handler for message m: another record is not touched, and no write
\* becomes active but m.
Frame(p, m) ==
    /\ Elsewhere(m.record)
    /\ ActiveWrites' \subseteq ActiveWrites \cup {m}
    /\ pc[p] # "put" => ActiveWrites' \subseteq ActiveWrites
    /\ pc[p] \in (Unstored \ {"put"}) \cup {"active", "task"} => UNCHANGED store
    /\ OnlyMoves(p)
    /\ pc'[p] = "idle" \/ req' = req
    /\ IF pc'[p] = "idle" THEN existing'[p] = {}
       ELSE \A n \in existing'[p] : n.record = m.record

\* A put touches the record of the message it puts.
LEMMA PutFrame ==
    ASSUME NEW m, NEW n, NEW a, NEW e, n.record = m.record, StorePut(n, a, e)
    PROVE  Elsewhere(m.record) /\ ActiveWrites' \subseteq ActiveWrites \cup {n}
BY DEF StorePut, Elsewhere, ActiveWrites

\* Putting an archived message makes none active.
LEMMA ArchiveFrame ==
    ASSUME NEW m, NEW n, NEW e, n.record = m.record, StorePut(n, TRUE, e)
    PROVE  Elsewhere(m.record) /\ ActiveWrites' \subseteq ActiveWrites
BY DEF StorePut, Elsewhere, ActiveWrites

\* A delete touches the record of the message it deletes.
LEMMA DeleteFrame ==
    ASSUME NEW m, NEW n, n.record = m.record, StoreDelete(n)
    PROVE  Elsewhere(m.record) /\ ActiveWrites' \subseteq ActiveWrites
BY DEF StoreDelete, Elsewhere, ActiveWrites

\* A step that leaves the store alone touches no record.
LEMMA SameFrame ==
    ASSUME NEW m, UNCHANGED store
    PROVE  Elsewhere(m.record) /\ ActiveWrites' = ActiveWrites
BY DEF store, Elsewhere, ActiveWrites

\* The entries after a step, if they are among those before.
LEMMA EntriesKept ==
    ASSUME TypeOK, NEW p \in Handlers, NEW m \in Messages, m = req[p], NEW l, NEW r,
           NEW S \in SUBSET existing[p], OwnEntries, l # "idle",
           Answer(p, r) \/ Step(p, l) \/ Proceed(p, S, l, r)
    PROVE  /\ OnlyMoves(p)
           /\ pc'[p] = "idle" \/ req' = req
           /\ IF pc'[p] = "idle" THEN existing'[p] = {}
              ELSE \A n \in existing'[p] : n.record = m.record
<1> pc[p] # "idle"
  BY ConstantsAssumption DEF TypeOK
<1>1. CASE Answer(p, r)
  BY <1>1, AnswerMoves
<1>2. CASE Step(p, l)
  BY <1>2, StepMoves DEF OwnEntries
<1>3. CASE Proceed(p, S, l, r)
  BY <1>3, ProceedMoves DEF OwnEntries
<1> QED BY <1>1, <1>2, <1>3

\* The steps after the checks touch the record of the handler's message only.
LEMMA WorkFrame ==
    ASSUME TypeOK, OwnEntries, NEW p \in Handlers, NEW m \in Messages, m = req[p], Work(p)
    PROVE  Frame(p, m)
<1>t. existing[p] \subseteq Messages /\ stored \subseteq Messages
  BY DEF TypeOK
<1>e. \A n \in existing[p] : n.record = m.record
  BY ConstantsAssumption DEF OwnEntries, TypeOK
<1>s. existing[p] \in SUBSET existing[p]
      /\ \A x : existing[p] \ {x} \in SUBSET existing[p]
  OBVIOUS
<1> USE DEF Frame, Unstored
<1>1. CASE VerifyParent(p)
  BY <1>1, <1>s, SameFrame, EntriesKept, Zenon DEF VerifyParent
<1>2. CASE FetchExisting(p)
  <2>1. CASE Answer(p, "error")
    BY <1>2, <2>1, <1>s, SameFrame, EntriesKept, Zenon DEF FetchExisting
  <2>2. CASE ~Answer(p, "error")
    <3>1. /\ pc' = [pc EXCEPT ![p] = DataSource(m, stream[p], ExistingEntries(m.record))]
          /\ existing' = [existing EXCEPT ![p] = ExistingEntries(m.record)]
          /\ req' = req
      BY <1>2, <2>2 DEF FetchExisting, Goto, local
    <3>2. OnlyMoves(p) /\ \A n \in existing'[p] : n.record = m.record
      BY <3>1 DEF OnlyMoves, ExistingEntries, TypeOK
    <3>3. pc'[p] # "idle"
      BY <3>1 DEF DataSource, TypeOK
    <3> QED BY <1>2, <3>1, <3>2, <3>3, SameFrame DEF FetchExisting
  <2> QED BY <2>1, <2>2
<1>3. CASE UpdateData(p)
  BY <1>3, <1>s, SameFrame, EntriesKept, Zenon DEF UpdateData
<1>4. CASE CloneData(p)
  BY <1>4, <1>s, SameFrame, EntriesKept, Zenon DEF CloneData
<1>5. CASE PutMessage(p)
  <2>1. StorePut(m, NoContent(p), Inline(p)) /\ Step(p, "log") /\ pc[p] = "put"
    BY <1>5 DEF PutMessage
  <2>2. Elsewhere(m.record) /\ ActiveWrites' \subseteq ActiveWrites \cup {m}
    BY <2>1, PutFrame
  <2> QED BY <2>1, <2>2, <1>s, EntriesKept, Zenon
<1>6. CASE LogEvent(p)
  BY <1>6, <1>s, SameFrame, EntriesKept, Zenon DEF LogEvent
<1>7. CASE EmitEvent(p)
  BY <1>7, <1>s, SameFrame, EntriesKept, Zenon DEF EmitEvent
<1>8. CASE ArchiveInitial(p)
  <2>1. PICK e \in existing[p] : StorePut(e, TRUE, e \in existingEncoded[p])
    BY <1>8, Zenon DEF ArchiveInitial
  <2>2. Elsewhere(m.record) /\ ActiveWrites' \subseteq ActiveWrites
    BY <2>1, <1>e, ArchiveFrame, Zenon
  <2> QED BY <1>8, <2>2, <1>s, EntriesKept, Zenon DEF ArchiveInitial
<1>9. CASE LogInitial(p)
  BY <1>9, <1>s, SameFrame, EntriesKept, Zenon DEF LogInitial
<1>10. CASE DeleteInitialData(p)
  BY <1>10, <1>s, SameFrame, EntriesKept DEF DeleteInitialData
<1>11. CASE DeletePrevious(p)
  <2>1. PICK n \in existing[p] :
          \/ Answer(p, "error") /\ UNCHANGED store
          \/ StoreDelete(n) /\ Step(p, "delete_data")
    BY <1>11 DEF DeletePrevious
  <2>2. Elsewhere(m.record) /\ ActiveWrites' \subseteq ActiveWrites
    BY <2>1, <1>e, SameFrame, DeleteFrame
  <2> QED BY <1>11, <2>1, <2>2, <1>s, EntriesKept, Zenon DEF DeletePrevious
<1>12. CASE DeletePreviousData(p)
  BY <1>12, <1>s, SameFrame, EntriesKept, Zenon DEF DeletePreviousData
<1>13. CASE UnlogPrevious(p)
  BY <1>13, <1>s, SameFrame, EntriesKept DEF UnlogPrevious
<1>14. CASE FetchActive(p)
  BY <1>14, <1>s, SameFrame, EntriesKept, Zenon DEF FetchActive
<1>15. CASE FetchEntries(p)
  <2>1. CASE Answer(p, "accepted")
    BY <1>15, <2>1, <1>s, SameFrame, EntriesKept, Zenon DEF FetchEntries
  <2>2. CASE ~Answer(p, "accepted")
    <3>1. /\ pc' = [pc EXCEPT ![p] = "put"]
          /\ existing' = [existing EXCEPT ![p] =
                            {n \in ExistingEntries(m.record) : n.ts < m.ts}]
          /\ req' = req
      BY <1>15, <2>2 DEF FetchEntries, Goto, local
    <3>2. OnlyMoves(p) /\ \A n \in existing'[p] : n.record = m.record
      BY <3>1 DEF OnlyMoves, ExistingEntries, TypeOK
    <3> QED BY <1>15, <3>1, <3>2, SameFrame DEF FetchEntries
  <2> QED BY <2>1, <2>2
<1>16. CASE DeleteChildren(p)
  BY <1>16, <1>s, SameFrame, EntriesKept DEF DeleteChildren
<1>17. CASE DeleteEarlierData(p)
  BY <1>17, <1>s, SameFrame, EntriesKept, Zenon DEF DeleteEarlierData
<1>18. CASE DeleteEarlier(p)
  <2>1. PICK n \in existing[p] :
          \/ /\ StorePut(n, TRUE, n \in existingEncoded[p])
             /\ Proceed(p, existing[p] \ {n}, "earlier_data", "accepted")
          \/ StoreDelete(n) /\ Step(p, "earlier_log")
    BY <1>18, Zenon DEF DeleteEarlier
  <2>2. Elsewhere(m.record) /\ ActiveWrites' \subseteq ActiveWrites
    BY <2>1, <1>e, ArchiveFrame, DeleteFrame, Zenon
  <2>3. CASE Proceed(p, existing[p] \ {n}, "earlier_data", "accepted")
    BY <1>18, <2>2, <2>3, <1>s, EntriesKept DEF DeleteEarlier
  <2>4. CASE Step(p, "earlier_log")
    BY <1>18, <2>2, <2>4, <1>s, EntriesKept, Zenon DEF DeleteEarlier
  <2> QED BY <2>1, <2>3, <2>4, Zenon
<1>19. CASE UnlogEarlier(p)
  BY <1>19, <1>s, SameFrame, EntriesKept DEF UnlogEarlier
<1> QED
  BY <1>1, <1>2, <1>3, <1>4, <1>5, <1>6, <1>7, <1>8, <1>9, <1>10, <1>11, <1>12,
     <1>13, <1>14, <1>15, <1>16, <1>17, <1>18, <1>19, Zenon DEF Work
-----------------------------------------------------------------------------
(* The steps of a handler, by what they do                                 *)

\* Only p moves.
OthersStay(p) ==
    \A q \in Handlers \ {p} :
        /\ pc'[q] = pc[q] /\ req'[q] = req[q] /\ existing'[q] = existing[q]
        /\ gate'[q] = gate[q] /\ rules'[q] = rules[q] /\ revoking'[q] = revoking[q]

\* The check of p succeeds, or fails.
Passes(p, g) == Gate(p, g) /\ UNCHANGED vars /\ UNCHANGED <<concurrent, cleanup>>

Fails(p) == Gate(p, "none") /\ Refuse(p) /\ UNCHANGED <<concurrent, cleanup>>

\* The step moves p from one gate to another.
Checks(p) ==
    \/ gate[p] = "grant" /\ Passes(p, "current")
    \/ gate[p] = "current" /\ Passes(p, "verify")
    \/ gate[p] = "role" /\ Passes(p, "role_holder")
    \/ gate[p] = "role_holder" /\ Passes(p, "rules")
    \/ gate[p] \in {"rules", "chain"} /\ \E g \in {"chain", "action"} : Passes(p, g)
    \/ gate[p] = "action" /\ req[p].kind = "write" /\ Passes(p, "verify")
    \/ gate[p] = "action" /\ req[p].kind # "write" /\ Passes(p, "open")
    \/ gate[p] = "verify" /\ req[p].parent # NoRecord /\ Passes(p, "parent")
    \/ /\ gate[p] = "verify" /\ req[p].parent = NoRecord
       /\ \E g \in {"role_record", "revocation", "open"} : Passes(p, g)
    \/ gate[p] = "role_record" /\ \E g \in {"revocation", "open"} : Passes(p, g)
    \/ gate[p] = "revocation" /\ Passes(p, "open")
    \/ gate[p] \notin {"none", "open", "parent"} \cup RevokeGates /\ Fails(p)

\* rules is a function of the handlers, of which only p's value changes.
RulesOf(p) == \E S : rules' = [rules EXCEPT ![p] = S]

\* The checks move a handler from one gate to the next, or refuse its request.
LEMMA ChecksOf ==
    ASSUME NEW p \in Handlers,
           Authorize(p) \/ VerifyRecord(p) \/ VerifyRoleRecord(p) \/ VerifyRevocation(p)
    PROVE  Checks(p)
<1> USE DEF Check, Checks, Passes, Fails, RevokeGates
<1>1. CASE CheckGrant(p) \/ CheckCurrent(p) \/ CheckRole(p) \/ CheckRoleHolder(p)
  BY <1>1, Zenon DEF CheckGrant, CheckCurrent, CheckRole, CheckRoleHolder
<1>2. CASE FetchRules(p)
  BY <1>2, Zenon DEF FetchRules
<1>3. CASE FetchAncestor(p) \/ CheckAction(p)
  BY <1>3, Zenon DEF FetchAncestor, CheckAction
<1>4. CASE VerifyRecord(p)
  <2>1. CASE Check(p, FALSE, "none") /\ gate[p] = "verify"
    BY <2>1
  <2>2. CASE gate[p] = "verify" /\ req[p].parent # NoRecord /\ Check(p, TRUE, "parent")
    BY <2>2
  <2>3. CASE /\ gate[p] = "verify" /\ req[p].parent = NoRecord
             /\ \E set : Check(p, TRUE, AfterPath(req[p], set))
    BY <2>3 DEF AfterPath, AfterRole
  <2> HIDE DEF Check, Checks, Passes, Fails, RevokeGates
  <2> QED BY <1>4, <2>1, <2>2, <2>3, Zenon DEF VerifyRecord
<1>5. CASE VerifyRoleRecord(p)
  BY <1>5 DEF VerifyRoleRecord, AfterRole
<1>6. CASE VerifyRevocation(p)
  BY <1>6 DEF VerifyRevocation
<1> QED BY <1>1, <1>2, <1>3, <1>4, <1>5, <1>6, Zenon DEF Authorize

\* A handler's step changes no other handler's rules.
LEMMA RulesOfChecks ==
    ASSUME rules = [q \in Handlers |-> rules[q]], NEW p \in Handlers,
           \/ HandleRequest(p) \/ DropRequest(p) \/ DropTask(p)
           \/ \E m \in Messages, s \in Data \cup {NoData} : Receive(p, m, s)
    PROVE  RulesOf(p)
<1>1. UNCHANGED rules \/ \E S : rules' = [rules EXCEPT ![p] = S]
  BY Zenon DEF HandleRequest, Authorize, Verify, RevokeGrants, CheckGrant, CheckCurrent,
     CheckRole, CheckRoleHolder, FetchRules, FetchAncestor, CheckAction, VerifyRecord,
     VerifyPath, VerifyRoleRecord, VerifyRevocation, Continue, RevokeFetch, RevokeQuery,
     RevokeDelete, RevokeUnlog, DropRequest, DropTask, Receive, Keep, kept
<1>2. rules = [rules EXCEPT ![p] = rules[p]]
  OBVIOUS
<1> QED BY <1>1, <1>2 DEF RulesOf

\* What is fetched of the ancestors of a record are messages.
ChainType == chain \in [Handlers -> Seq(Messages)]

\* Every step keeps ChainType.
LEMMA ChainStep ==
    ASSUME ChainType, stored \subseteq Messages, NEW p \in Handlers,
           \/ HandleRequest(p) \/ DropRequest(p) \/ DropTask(p)
           \/ \E m \in Messages, s \in Data \cup {NoData} : Receive(p, m, s)
    PROVE  ChainType'
<1>1. ASSUME NEW c \in Seq(Messages), Climb(p, c) PROVE ChainType'
  BY <1>1 DEF ChainType, Climb
<1>2. ASSUME NEW n \in InitialOf(NextUp(p)), Climb(p, <<n>> \o chain[p]) PROVE ChainType'
  <2>1. n \in Messages /\ chain[p] \in Seq(Messages)
    BY <1>2 DEF InitialOf, ExistingEntries, ChainType
  <2>2. PICK c : c = chain[p]
    OBVIOUS
  <2>3. <<n>> \o c \in Seq(Messages)
    BY <2>1, <2>2
  <2> QED BY <1>1, <1>2, <2>2, <2>3
<1>3. <<>> \in Seq(Messages)
  OBVIOUS
<1>4. CASE UNCHANGED chain
  BY <1>4 DEF ChainType
<1>5. \/ UNCHANGED chain \/ Climb(p, <<>>)
      \/ \E n \in InitialOf(NextUp(p)) : Climb(p, <<n>> \o chain[p])
  BY Zenon DEF HandleRequest, Authorize, Verify, RevokeGrants, CheckGrant, CheckCurrent,
     CheckRole, CheckRoleHolder, FetchRules, FetchAncestor, CheckAction, VerifyRecord,
     VerifyPath, VerifyRoleRecord, VerifyRevocation, Continue, RevokeFetch, RevokeQuery,
     RevokeDelete, RevokeUnlog, DropRequest, DropTask, Receive, kept
<1> QED BY <1>1, <1>2, <1>3, <1>4, <1>5, Zenon
-----------------------------------------------------------------------------
(* Types                                                                   *)

\* The conjuncts of NodeTypeOK about the handlers.
GateType ==
    /\ gate \in [Handlers -> Gates]
    /\ revoking \in [Handlers -> Messages \cup {NoMessage}]
    /\ victims \in [Handlers -> SUBSET Messages]
    /\ revoked \subseteq Messages

GateOf(p) ==
    /\ gate[p] = "none" => pc[p] = "idle"
    /\ gate[p] \in RevokeGates <=> revoking[p] # NoMessage
    /\ gate[p] \in RevokeGates => pc[p] = "idle" /\ IsRevocation(revoking[p])
    /\ gate[p] \notin RevokeGates \cup {"none"} => pc[p] # "idle"

\* The type invariant, handler by handler.
LEMMA NodeTypeParts ==
    NodeTypeOK <=> /\ TypeOK /\ ConfigTypeOK /\ GateType /\ ChainType
                   /\ \A p \in Handlers : GateOf(p)
BY DEF NodeTypeOK, GateType, GateOf, ChainType

\* Refusing, dropping and timing out end a request.
LEMMA EndMoves ==
    ASSUME TypeOK, NEW p \in Handlers, Refuse(p) \/ Abandon(p) \/ TaskTimeout(p)
    PROVE  OnlyMoves(p) /\ pc'[p] = "idle" /\ existing'[p] = {} /\ UNCHANGED store
BY AnswerMoves DEF Refuse, Abandon, TaskTimeout, store

\* What a new request changes.
LEMMA StartMoves ==
    ASSUME TypeOK, NEW p \in Handlers, NEW m, NEW s, Start(p, m, s)
    PROVE  /\ OnlyMoves(p) /\ req'[p] = m /\ existing' = existing /\ UNCHANGED store
           /\ pc[p] = "idle"
           /\ pc'[p] = IF m.kind = "delete" THEN "active" ELSE Before(m)
BY DEF TypeOK, Start, OnlyMoves, Goto, fetched, store, Before

\* Every step but the deletes of a revocation is one of Records, or none.
LEMMA RecordsStep ==
    ASSUME RecordsNext
    PROVE  [Next]_vars \/ \E p \in Handlers : RevokeDelete(p) \/ RevokeUnlog(p)
<1>1. ASSUME NEW p \in Handlers, NEW m \in Messages, NEW s \in Data \cup {NoData},
             Receive(p, m, s)
      PROVE  [Next]_vars
  BY <1>1 DEF Receive, Next
<1>2. ASSUME NEW p \in Handlers, Checks(p) PROVE [Next]_vars
  BY <1>2 DEF Checks, Passes, Fails, Next, Handle
<1>3. ASSUME NEW p \in Handlers, VerifyPath(p) PROVE [Next]_vars
  BY <1>3, Zenon DEF VerifyPath, Next, Handle, Work
<1>4. ASSUME NEW p \in Handlers, Continue(p) PROVE [Next]_vars
  BY <1>4 DEF Continue, Next, Handle
<1>5. ASSUME NEW p \in Handlers, RevokeFetch(p) \/ RevokeQuery(p) PROVE [Next]_vars
  BY <1>5, Zenon DEF RevokeFetch, RevokeQuery
<1>6. ASSUME NEW p \in Handlers, DropRequest(p) \/ DropTask(p) PROVE [Next]_vars
  BY <1>6, Zenon DEF DropRequest, DropTask, Next
<1> QED
  BY <1>1, <1>2, <1>3, <1>4, <1>5, <1>6, ChecksOf
     DEF RecordsNext, HandleRequest, Verify, RevokeGrants

\* The steps of Records keep the types of Records.
LEMMA RecordsTypeStep ==
    ASSUME TypeOK, GateType, RecordsNext
    PROVE  TypeOK'
<1>1. CASE [Next]_vars
  BY <1>1, TypeStep
<1>2. ASSUME NEW p \in Handlers, RevokeDelete(p) PROVE TypeOK'
  <2>1. StoreType' /\ HandlerType'
    BY <1>2, TypeParts, StoreDeleteType DEF RevokeDelete, local, fetched, HandlerType
  <2> QED BY <2>1 DEF TypeOK, StoreType, HandlerType, Replies
<1>3. ASSUME NEW p \in Handlers, RevokeUnlog(p) PROVE TypeOK'
  BY <1>3 DEF RevokeUnlog, TypeOK, store, local, fetched
<1> QED BY <1>1, <1>2, <1>3, RecordsStep
-----------------------------------------------------------------------------
(* A step of a handler that has a request                                  *)

HandlersOK ==
    /\ TypeOK /\ GateType /\ OwnEntries
    /\ rules = [q \in Handlers |-> rules[q]]
    /\ \A p \in Handlers : GateOf(p) /\ GateInv(p)

Summary(p) ==
    /\ OthersStay(p)
    /\ GateType' /\ GateOf(p)' /\ GateInv(p)'
    /\ InProgress(p)
    /\ InProgress(p)' => Busy(p)' = Busy(p)
    /\ concurrent' = concurrent
    /\ IF pc'[p] = "idle" THEN existing'[p] = {}
       ELSE \A n \in existing'[p] : n.record = req'[p].record
    /\ IsRevocation(Busy(p)) \/ Elsewhere(Busy(p).record)
    /\ ActiveWrites' \subseteq ActiveWrites \cup {Busy(p)}
    /\ pc[p] # "put" => ActiveWrites' \subseteq ActiveWrites
    /\ pc[p] \in Unstored \ {"put"} => UNCHANGED store

\* A handler moves, and the others stay where they are.
LEMMA OthersOf ==
    ASSUME HandlersOK, NEW p \in Handlers, OnlyMoves(p), RulesOf(p), NEW g, Gate(p, g),
           \/ UNCHANGED revoking
           \/ \E r : revoking' = [revoking EXCEPT ![p] = r]
    PROVE  OthersStay(p)
BY DEF HandlersOK, OnlyMoves, RulesOf, Gate, OthersStay, GateType

\* The handler is behind a gate: it has a request, of its kind.
LEMMA GatedRequest ==
    ASSUME HandlersOK, NEW p \in Handlers, gate[p] \notin {"none"} \cup RevokeGates
    PROVE  /\ req[p] \in Messages /\ InProgress(p) /\ Busy(p) = req[p]
           /\ pc[p] # "idle" /\ revoking[p] = NoMessage
BY DEF HandlersOK, GateOf, GateType, TypeOK, InProgress, Busy

\* Summary covers the checks of the grant, the role and the revocation.
LEMMA ChecksSummary ==
    ASSUME HandlersOK, NEW p \in Handlers, RulesOf(p), Checks(p)
    PROVE  Summary(p)
<1>1. gate[p] \notin {"none"} \cup RevokeGates
  BY DEF Checks, RevokeGates
<1>2. PICK m \in Messages : m = req[p] /\ InProgress(p) /\ Busy(p) = m /\ pc[p] # "idle"
                            /\ revoking[p] = NoMessage
  BY <1>1, GatedRequest
<1>3. ASSUME NEW g \in Gates \ ({"none"} \cup RevokeGates), Passes(p, g)
      PROVE  /\ OthersStay(p) /\ GateType' /\ GateOf(p)'
             /\ InProgress(p)' /\ Busy(p)' = m /\ concurrent' = concurrent
             /\ UNCHANGED store /\ pc' = pc /\ req' = req /\ existing' = existing
             /\ gate'[p] = g
  <2>1. UNCHANGED vars /\ UNCHANGED <<concurrent, cleanup>> /\ Gate(p, g)
    BY <1>3 DEF Passes
  <2>2. OthersStay(p)
    BY <2>1, OthersOf DEF vars, OnlyMoves, cleanup
  <2>3. GateType' /\ gate'[p] = g
    BY <2>1 DEF HandlersOK, GateType, Gate, cleanup
  <2>4. GateOf(p)'
    BY <1>2, <2>1, <2>3 DEF GateOf, vars, cleanup
  <2>5. InProgress(p)' /\ Busy(p)' = m
    BY <1>2, <2>1 DEF InProgress, Busy, vars
  <2> QED BY <2>1, <2>2, <2>3, <2>4, <2>5 DEF vars, store
<1>4. ASSUME NEW g \in Gates \ ({"none"} \cup RevokeGates), Passes(p, g), GateInv(p)'
      PROVE  Summary(p)
  BY <1>2, <1>3, <1>4, SameFrame DEF Summary, HandlersOK, OwnEntries
<1>5. CASE Fails(p)
  <2>1. OnlyMoves(p) /\ pc'[p] = "idle" /\ existing'[p] = {} /\ UNCHANGED store
    BY <1>5, EndMoves DEF Fails, HandlersOK
  <2>2. Gate(p, "none") /\ UNCHANGED <<concurrent, cleanup>>
    BY <1>5 DEF Fails
  <2>3. OthersStay(p)
    BY <2>1, <2>2, OthersOf DEF cleanup
  <2>4. GateType' /\ gate'[p] = "none"
    BY <2>2 DEF HandlersOK, GateType, Gate, Gates, cleanup
  <2>5. GateOf(p)' /\ GateInv(p)' /\ ~InProgress(p)'
    BY <1>2, <2>1, <2>2, <2>4, Zenon DEF GateOf, GateInv, InProgress, cleanup, RevokeGates
  <2> QED BY <1>2, <2>1, <2>2, <2>3, <2>4, <2>5, SameFrame DEF Summary
<1>6. GateInv(p) /\ (pc[p] \in WriteSteps => m.kind = "write")
                 /\ (pc[p] \in DeleteSteps => m.kind = "delete")
  BY <1>2 DEF HandlersOK, TypeOK
<1>7. CASE ~Fails(p)
  <2>1. PICK g \in Gates \ ({"none"} \cup RevokeGates) :
          /\ Passes(p, g)
          /\ gate[p] \in {"grant", "role", "role_holder", "rules", "chain", "current",
                          "action", "verify", "role_record", "revocation"}
          /\ g = "current" => gate[p] = "grant"
          /\ g = "verify" => gate[p] = "current" \/ (gate[p] = "action" /\ m.kind = "write")
          /\ g \in {"role_holder", "rules", "chain", "action"} =>
               gate[p] \in {"role", "role_holder", "rules", "chain"}
          /\ g = "parent" => gate[p] = "verify" /\ m.parent # NoRecord
          /\ g \in {"role_record", "revocation"} =>
               gate[p] = "role_record" \/ (gate[p] = "verify" /\ m.parent = NoRecord)
          /\ g = "open" => \/ gate[p] \in {"role_record", "revocation"}
                           \/ gate[p] = "verify" /\ m.parent = NoRecord
                           \/ gate[p] = "action" /\ m.kind # "write"
          /\ g \notin {"grant", "role"}
    BY <1>2, <1>7 DEF Checks, Gates, RevokeGates
  <2>2. GateInv(p)'
    BY <1>2, <1>3, <1>6, <2>1 DEF GateInv, Before, WriteSteps, DeleteSteps
  <2> QED BY <1>4, <2>1, <2>2
<1> QED BY <1>5, <1>7
\* The request of p is over.
LEMMA EndSummary ==
    ASSUME HandlersOK, NEW p \in Handlers, RulesOf(p), InProgress(p),
           OnlyMoves(p), pc'[p] = "idle", existing'[p] = {}, UNCHANGED store,
           Gate(p, "none"), concurrent' = concurrent, GateType', revoking'[p] = NoMessage,
           UNCHANGED revoking \/ \E r : revoking' = [revoking EXCEPT ![p] = r]
    PROVE  Summary(p)
<1>1. OthersStay(p)
  BY OthersOf, Zenon
<1>2. gate'[p] = "none"
  BY DEF Gate, HandlersOK, GateType
<1>3. GateOf(p)' /\ GateInv(p)' /\ ~InProgress(p)'
  BY <1>2, Zenon DEF GateOf, GateInv, InProgress, RevokeGates
<1> QED BY <1>1, <1>2, <1>3, SameFrame, Zenon DEF Summary

\* Summary covers the check of the protocol path.
LEMMA VerifyPathSummary ==
    ASSUME HandlersOK, NEW p \in Handlers, RulesOf(p), VerifyPath(p)
    PROVE  Summary(p)
<1>1. PICK m \in Messages : m = req[p] /\ InProgress(p) /\ Busy(p) = m /\ pc[p] # "idle"
                            /\ revoking[p] = NoMessage
  BY GatedRequest DEF VerifyPath, RevokeGates
<1>2. pc[p] = "parent"
  BY DEF HandlersOK, GateInv, VerifyPath
<1>3. ASSUME NEW g \in {"role_record", "revocation", "open"},
             VerifyParent(p), InPlace(m), Gate(p, g), UNCHANGED <<concurrent, cleanup>>
      PROVE  Summary(p)
  <2>1. Step(p, "fetch") /\ UNCHANGED store
    <3>1. \E n \in ActiveEntries(m.parent) : n.kind = "write"
      BY <1>3 DEF InPlace, ActiveEntries, ActiveWrites
    <3> QED BY <1>1, <1>3, <3>1, Zenon DEF VerifyParent, store
  <2>2. OnlyMoves(p) /\ pc'[p] = "fetch" /\ req' = req /\ existing' = existing
    BY <2>1, StepMoves DEF HandlersOK, Step, fetched
  <2>3. OthersStay(p)
    BY <1>3, <2>2, OthersOf DEF cleanup
  <2>4. GateType' /\ gate'[p] = g
    BY <1>3 DEF HandlersOK, GateType, Gate, Gates, cleanup
  <2>5. GateOf(p)' /\ GateInv(p)'
    BY <1>1, <1>3, <2>2, <2>4, Zenon DEF GateOf, GateInv, RevokeGates, cleanup
  <2>6. InProgress(p)' /\ Busy(p)' = m
    BY <1>1, <2>2, Zenon DEF InProgress, Busy
  <2> QED BY <1>1, <1>2, <1>3, <2>1, <2>2, <2>3, <2>4, <2>5, <2>6, SameFrame
          DEF Summary, HandlersOK, OwnEntries
<1>4. CASE Refuse(p) /\ Gate(p, "none") /\ UNCHANGED <<concurrent, cleanup>>
  <2>1. OnlyMoves(p) /\ pc'[p] = "idle" /\ existing'[p] = {} /\ UNCHANGED store
    BY <1>4, EndMoves DEF HandlersOK
  <2>2. GateType' /\ revoking'[p] = NoMessage /\ UNCHANGED revoking
    BY <1>1, <1>4 DEF HandlersOK, GateType, Gate, Gates, cleanup
  <2> QED BY <1>1, <1>4, <2>1, <2>2, EndSummary, Zenon
<1> QED BY <1>1, <1>3, <1>4, Zenon DEF VerifyPath, AfterPath, AfterRole

\* The answers that end a write are given after it was stored.
LEMMA ContinueSummary ==
    ASSUME HandlersOK, NEW p \in Handlers, RulesOf(p), Continue(p)
    PROVE  Summary(p)
<1>1. PICK m \in Messages : m = req[p] /\ InProgress(p) /\ Busy(p) = m /\ pc[p] # "idle"
                            /\ revoking[p] = NoMessage
  BY GatedRequest, Zenon DEF Continue, RevokeGates
<1>2. Frame(p, m)
  BY <1>1, WorkFrame DEF Continue, HandlersOK
<1>3. pc[p] # "parent" /\ gate[p] = "open"
  BY DEF HandlersOK, GateInv, Continue
<1>4. pc'[p] # "parent"
  BY <1>3, Zenon DEF Continue, Work, VerifyParent, FetchExisting, UpdateData, CloneData,
     PutMessage, LogEvent, EmitEvent, ArchiveInitial, LogInitial, DeleteInitialData,
     DeletePrevious, DeletePreviousData, UnlogPrevious, FetchActive, FetchEntries,
     DeleteChildren, DeleteEarlierData, DeleteEarlier, UnlogEarlier, Answer, Step,
     Proceed, Goto, DataSource, HandlersOK, TypeOK
<1>5. concurrent' = concurrent /\ UNCHANGED victims /\ UNCHANGED revoked
  BY DEF Continue
<1>6. ASSUME NEW g \in Gates, Gate(p, g),
             \/ UNCHANGED revoking /\ g \notin RevokeGates /\ (g # "none" => pc'[p] # "idle")
                  /\ (g = "none" => pc'[p] = "idle")
             \/ /\ revoking' = [revoking EXCEPT ![p] = m] /\ g = "revoke"
                /\ pc'[p] = "idle" /\ IsRevocation(m),
             GateInv(p)'
      PROVE  Summary(p)
  <2>1. OthersStay(p)
    BY <1>2, <1>6, OthersOf, Zenon DEF Frame
  <2>2. GateType' /\ gate'[p] = g
    BY <1>1, <1>5, <1>6 DEF HandlersOK, GateType, Gate
  <2>3. GateOf(p)'
    <3>1. NoMessage \notin Messages
      BY ConstantsAssumption
    <3> QED BY <1>1, <1>6, <2>2, <3>1 DEF GateOf, HandlersOK, GateType, RevokeGates, IsRevocation
  <2>4. InProgress(p)' => Busy(p)' = m
    BY <1>1, <1>2, <1>6, <2>2 DEF InProgress, Busy, Frame, HandlersOK, GateType
  <2>5. IF pc'[p] = "idle" THEN existing'[p] = {}
        ELSE \A n \in existing'[p] : n.record = req'[p].record
    BY <1>1, <1>2, Zenon DEF Frame
  <2> QED BY <1>1, <1>2, <1>5, <1>6, <2>1, <2>2, <2>3, <2>4, <2>5, Zenon DEF Summary, Frame
<1>7. CASE pc'[p] = "idle" /\ Returns(p)
  <2>1. CASE IsRevocation(m) /\ reply' \in {"accepted", "no_content"}
    <3>1. Gate(p, "revoke") /\ revoking' = [revoking EXCEPT ![p] = m]
      BY <1>1, <1>7, <2>1, Zenon DEF Returns
    <3>2. GateInv(p)'
      BY <3>1, <1>7 DEF GateInv, Gate, HandlersOK, GateType
    <3> QED BY <1>6, <1>7, <2>1, <3>1, <3>2 DEF Gates
  <2>2. CASE ~(IsRevocation(m) /\ reply' \in {"accepted", "no_content"})
    <3>1. Gate(p, "none") /\ UNCHANGED revoking
      BY <1>1, <1>7, <2>2 DEF Returns
    <3>2. GateInv(p)'
      BY <3>1, <1>7 DEF GateInv, Gate, HandlersOK, GateType
    <3> QED BY <1>6, <1>7, <3>1, <3>2, Zenon DEF Gates, RevokeGates
  <2> QED BY <2>1, <2>2
<1>8. CASE /\ pc'[p] = "task" /\ Gate(p, ByProtocol(m)) /\ UNCHANGED revoking
  <2>1. PICK g \in {"role", "rules"} : g = ByProtocol(m)
    BY DEF ByProtocol
  <2>2. GateInv(p)'
    BY <1>8, <2>1 DEF GateInv, Gate, HandlersOK, GateType
  <2> QED BY <1>6, <1>8, <2>1, <2>2 DEF Gates, RevokeGates
<1>9. CASE pc'[p] # "idle" /\ UNCHANGED <<gate, revoking>>
  <2>1. Gate(p, "open")
    BY <1>3, <1>9 DEF Gate, HandlersOK, GateType
  <2>2. GateInv(p)'
    BY <1>3, <1>4, <1>9, Zenon DEF GateInv
  <2> QED BY <1>6, <1>9, <2>1, <2>2 DEF Gates, RevokeGates
<1> QED BY <1>1, <1>7, <1>8, <1>9, Zenon DEF Continue
\* Summary covers the clean-up after a revocation.
LEMMA RevokeSummary ==
    ASSUME HandlersOK, NEW p \in Handlers, RulesOf(p), RevokeGrants(p)
    PROVE  Summary(p)
<1>1. gate[p] \in RevokeGates
  BY Zenon DEF RevokeGrants, RevokeFetch, RevokeQuery, RevokeDelete, RevokeUnlog, RevokeGates
<1>2. PICK m \in Messages : m = revoking[p] /\ IsRevocation(m) /\ pc[p] = "idle"
  BY <1>1 DEF HandlersOK, GateOf, GateType
<1>3. InProgress(p) /\ Busy(p) = m /\ pc[p] \notin Unstored
  BY <1>1, <1>2 DEF InProgress, Busy, RevokeGates, Unstored
<1>4. pc' = pc /\ req' = req /\ existing' = existing /\ concurrent' = concurrent
  BY Zenon DEF RevokeGrants, RevokeFetch, RevokeQuery, RevokeDelete, RevokeUnlog, vars, local, fetched
<1>5. ActiveWrites' \subseteq ActiveWrites
  <2>1. CASE UNCHANGED store
    BY <2>1, SameFrame
  <2>2. ASSUME NEW n, StoreDelete(n) PROVE ActiveWrites' \subseteq ActiveWrites
    BY <2>2, DeleteFrame
  <2> QED BY <2>1, <2>2, Zenon
          DEF RevokeGrants, RevokeFetch, RevokeQuery, RevokeDelete, RevokeUnlog, vars, store
<1>6. ASSUME NEW g \in RevokeGates, Gate(p, g), UNCHANGED <<revoking, revoked>>,
             \/ UNCHANGED victims
             \/ \E S \in SUBSET Messages : victims' = [victims EXCEPT ![p] = S]
      PROVE  Summary(p)
  <2>1. OthersStay(p)
    BY <1>4, <1>6, OthersOf, Zenon DEF OnlyMoves
  <2>2. GateType' /\ gate'[p] = g
    BY <1>6 DEF HandlersOK, GateType, Gate, Gates, RevokeGates
  <2>3. GateOf(p)' /\ GateInv(p)'
    BY <1>1, <1>2, <1>4, <1>6, <2>2 DEF GateOf, GateInv, RevokeGates, HandlersOK
  <2>4. Busy(p)' = m
    BY <1>2, <1>4, <1>6, Zenon DEF Busy
  <2> QED BY <1>2, <1>3, <1>4, <1>5, <2>1, <2>2, <2>3, <2>4
          DEF Summary, HandlersOK, OwnEntries
<1>7. ASSUME NEW d, RevokeDone(p, d), UNCHANGED store
      PROVE  Summary(p)
  <2>1. GateType' /\ revoking'[p] = NoMessage
    <3>1. gate' \in [Handlers -> Gates] /\ revoking' \in [Handlers -> Messages \cup {NoMessage}]
          /\ victims' \in [Handlers -> SUBSET Messages] /\ revoking'[p] = NoMessage
      BY <1>7 DEF RevokeDone, HandlersOK, GateType, Gate, Gates
    <3>2. revoked' \subseteq Messages
      BY <1>2, <1>7 DEF RevokeDone, HandlersOK, GateType
    <3> QED BY <3>1, <3>2 DEF GateType
  <2>2. OthersStay(p)
    BY <1>4, <1>7, OthersOf, Zenon DEF OnlyMoves, RevokeDone
  <2>3. gate'[p] = "none"
    BY <1>7 DEF RevokeDone, Gate, HandlersOK, GateType
  <2>4. GateOf(p)' /\ GateInv(p)' /\ ~InProgress(p)'
    BY <1>2, <1>4, <2>1, <2>3, Zenon DEF GateOf, GateInv, InProgress, RevokeGates
  <2> QED BY <1>2, <1>3, <1>4, <1>5, <2>1, <2>2, <2>3, <2>4
          DEF Summary, HandlersOK, OwnEntries
<1>8. ASSUME NEW S \in SUBSET Messages, RevokeRest(p, S), UNCHANGED store
      PROVE  Summary(p)
  <2>1. CASE S = {}
    BY <1>7, <1>8, <2>1, Zenon DEF RevokeRest
  <2>2. CASE S # {}
    BY <1>6, <1>8, <2>2, Zenon DEF RevokeRest, RevokeGates
  <2> QED BY <2>1, <2>2
<1>9. CASE RevokeFetch(p)
  <2>1. CASE Gate(p, "revoke_query") /\ UNCHANGED cleanup
    BY <1>6, <2>1 DEF cleanup, RevokeGates
  <2>2. CASE RevokeDone(p, FALSE)
    BY <1>7, <1>9, <2>2, Zenon DEF RevokeFetch, vars, store
  <2> QED BY <1>9, <2>1, <2>2, Zenon DEF RevokeFetch
<1>10. CASE RevokeQuery(p)
  BY <1>8, <1>10 DEF RevokeQuery, HandlersOK, TypeOK, vars, store
<1>11. CASE RevokeDelete(p)
  BY <1>6, <1>11 DEF RevokeDelete, RevokeGates, cleanup
<1>12. CASE RevokeUnlog(p)
  BY <1>8, <1>12 DEF RevokeUnlog, HandlersOK, GateType
<1> QED BY <1>9, <1>10, <1>11, <1>12 DEF RevokeGrants

\* Summary covers a request and a task that are dropped.
LEMMA DropSummary ==
    ASSUME HandlersOK, NEW p \in Handlers, RulesOf(p), DropRequest(p) \/ DropTask(p)
    PROVE  Summary(p)
<1>1. CASE DropRequest(p)
  <2>1. OnlyMoves(p) /\ pc'[p] = "idle" /\ UNCHANGED store /\ existing'[p] = {}
    <3>1. CASE pc[p] # "idle"
      BY <1>1, <3>1, EndMoves DEF DropRequest, HandlersOK
    <3>2. CASE pc[p] = "idle"
      BY <1>1, <3>2 DEF DropRequest, vars, store, OnlyMoves, HandlersOK, OwnEntries
    <3> QED BY <3>1, <3>2, Zenon
  <2>2. GateType' /\ revoking'[p] = NoMessage
    BY <1>1 DEF DropRequest, RevokeDone, HandlersOK, GateType, Gate, Gates
  <2>3. OthersStay(p)
    BY <1>1, <2>1, OthersOf, Zenon DEF DropRequest, RevokeDone
  <2>4. gate'[p] = "none"
    BY <1>1 DEF DropRequest, RevokeDone, Gate, HandlersOK, GateType
  <2>5. GateOf(p)' /\ GateInv(p)' /\ ~InProgress(p)'
    BY <2>1, <2>2, <2>4 DEF GateOf, GateInv, InProgress, RevokeGates
  <2> QED BY <1>1, <2>1, <2>2, <2>3, <2>4, <2>5, SameFrame, Zenon DEF Summary, DropRequest
<1>2. CASE DropTask(p)
  <2>1. OnlyMoves(p) /\ pc'[p] = "idle" /\ existing'[p] = {} /\ UNCHANGED store
    BY <1>2, EndMoves DEF DropTask, HandlersOK
  <2>2. revoking[p] = NoMessage /\ InProgress(p)
    BY <1>2, GatedRequest, Zenon DEF DropTask, RevokeGates
  <2>3. GateType' /\ revoking'[p] = NoMessage /\ UNCHANGED revoking
    BY <1>2, <2>2 DEF DropTask, HandlersOK, GateType, Gate, Gates, cleanup
  <2> QED BY <1>2, <2>1, <2>2, <2>3, EndSummary, Zenon DEF DropTask
<1> QED BY <1>1, <1>2

\* Every step of a handler that has a request.
LEMMA StepSummary ==
    ASSUME HandlersOK, NEW p \in Handlers, HandleRequest(p) \/ DropRequest(p) \/ DropTask(p)
    PROVE  Summary(p)
<1>1. RulesOf(p)
  BY RulesOfChecks DEF HandlersOK
<1> QED
  BY <1>1, ChecksOf, ChecksSummary, VerifyPathSummary, ContinueSummary, RevokeSummary,
     DropSummary DEF HandleRequest, Verify
-----------------------------------------------------------------------------
(* What the checks found                                                   *)

ParentFact(m) ==
    (\E n \in ActiveWrites : n.record = m.parent) \/ Disturbed(m, m.parent)

RoleFact(m) ==
    \/ HoldsRole(m)
    \/ \E w \in Messages, r \in m.role :
         IsRoleRecord(w, r, m.author, m.context) /\ Disturbed(m, w.record)

GrantFact(m) ==
    \A id \in m.grant :
        \/ \E g \in FetchGrant(id) :
             PermitGrantedWrite(g, Owner, {m.author}, Granted(m), {})
        \/ Disturbed(m, id)

CurrentFact(m) ==
    \A id \in m.grant :
        (\A r \in Revocations(id) : m.ts <= r.ts) \/ Disturbed(m, id)

\* Requests about the records r and s overlapped.
Met(r, s) ==
    \E a, b \in Messages : a.record = r /\ b.record = s /\ {a, b} \in concurrent

FreeFact(m) ==
    \A n \in ActiveWrites :
        TakesRole(n, m) /\ n.record # m.record => Met(n.record, m.record)

\* The rule set that is kept for the path check is one in force for the record.
KeptRules(p, m) == IsRolePath(m.path) => \A set \in rules[p] : set.role # {}

\* What the checks behind p's gate have found of the write m.
CheckedFor(p, m) ==
    /\ m.parent # NoRecord /\ gate[p] \in {"role_record", "revocation", "open"}
         => ParentFact(m)
    /\ ~ByOwner(m) /\ m.grant = {} /\ m.role # {} /\ gate[p] \notin {"role", "role_holder"}
         => RoleFact(m)
    /\ ~ByOwner(m) /\ gate[p] # "grant" => GrantFact(m)
    /\ ~ByOwner(m) /\ gate[p] \notin {"grant", "current"} => CurrentFact(m)
    /\ IsRolePath(m.path) /\ gate[p] \in {"revocation", "open"} => FreeFact(m)
    /\ gate[p] = "parent" => KeptRules(p, m)

CheckedInv(p) ==
    \A m \in Messages :
        m = req[p] /\ m.kind = "write" /\ pc[p] \in Unstored => CheckedFor(p, m)

\* What is kept of the facts in a step: all of them.
FactsKept(m) ==
    /\ ParentFact(m) => ParentFact(m)'
    /\ RoleFact(m) => RoleFact(m)'
    /\ GrantFact(m) => GrantFact(m)'
    /\ CurrentFact(m) => CurrentFact(m)'
    /\ FreeFact(m) => FreeFact(m)'

\* Requests that overlapped have overlapped ever after.
LEMMA DisturbedKept ==
    ASSUME NEW m, NEW r, concurrent \subseteq concurrent', Disturbed(m, r)
    PROVE  Disturbed(m, r)'
BY DEF Disturbed

\* Requests that met have met ever after.
LEMMA MetKept ==
    ASSUME NEW r, NEW s, concurrent \subseteq concurrent', Met(r, s)
    PROVE  Met(r, s)'
BY Zenon DEF Met

\* A step that leaves the store alone.
LEMMA FactsSame ==
    ASSUME NEW m, UNCHANGED store, concurrent \subseteq concurrent'
    PROVE  FactsKept(m)
<1>1. ActiveWrites' = ActiveWrites /\ encoded' = encoded
  BY SameFrame DEF store
<1>2. HoldsRole(m)' = HoldsRole(m)
  BY <1>1 DEF HoldsRole
<1>3. ASSUME NEW id PROVE FetchGrant(id)' = FetchGrant(id) /\ Revocations(id)' = Revocations(id)
  BY <1>1 DEF FetchGrant, Revocations
<1>4. ParentFact(m) => ParentFact(m)'
  BY <1>1, DisturbedKept DEF ParentFact
<1>5. RoleFact(m) => RoleFact(m)'
  BY <1>2, DisturbedKept DEF RoleFact
<1>6. GrantFact(m) => GrantFact(m)'
  BY <1>3, DisturbedKept DEF GrantFact
<1>7. CurrentFact(m) => CurrentFact(m)'
  BY <1>3, DisturbedKept DEF CurrentFact
<1>8. FreeFact(m) => FreeFact(m)'
  BY <1>1, MetKept DEF FreeFact
<1> QED BY <1>4, <1>5, <1>6, <1>7, <1>8 DEF FactsKept

\* A step for a message n that m's request overlapped with.
LEMMA FactsOther ==
    ASSUME NEW m \in Messages, NEW n \in Messages, {m, n} \in concurrent,
           concurrent' = concurrent, stored \subseteq Messages,
           IsRevocation(n) \/ Elsewhere(n.record),
           ActiveWrites' \subseteq ActiveWrites \cup {n}
    PROVE  FactsKept(m)
<1>1. ASSUME NEW r, Disturbed(m, r) PROVE Disturbed(m, r)'
  BY <1>1, DisturbedKept
<1>2. ASSUME NEW r, IsRevocation(n) \/ n.record = r PROVE Disturbed(m, r)'
  BY <1>2 DEF Disturbed, IsRevocation
<1>3. ASSUME ~IsRevocation(n), NEW w \in ActiveWrites, w.record # n.record
      PROVE  w \in ActiveWrites'
  BY <1>3 DEF Elsewhere, ActiveWrites
<1>4. ParentFact(m) => ParentFact(m)'
  BY <1>1, <1>2, <1>3 DEF ParentFact
<1>5. RoleFact(m) => RoleFact(m)'
  <2>1. ASSUME HoldsRole(m) PROVE RoleFact(m)'
    <3>1. PICK w \in ActiveWrites, r \in m.role : IsRoleRecord(w, r, m.author, m.context)
      BY <2>1 DEF HoldsRole
    <3>2. CASE IsRevocation(n) \/ n.record = w.record
      BY <1>2, <3>1, <3>2 DEF RoleFact, ActiveWrites
    <3>3. CASE ~IsRevocation(n) /\ n.record # w.record
      BY <1>3, <3>1, <3>3 DEF RoleFact, HoldsRole
    <3> QED BY <3>2, <3>3
  <2> QED BY <1>1, <2>1 DEF RoleFact
<1>6. GrantFact(m) => GrantFact(m)'
  <2>1. ASSUME NEW id, ~IsRevocation(n), n.record # id
        PROVE  FetchGrant(id)' = FetchGrant(id)
    <3> DEFINE S == {w \in ActiveWrites : w.record = id}
    <3>1. S' = S
      BY <2>1 DEF Elsewhere, ActiveWrites
    <3>2. (S \cap encoded)' = S \cap encoded
      BY <2>1, <3>1 DEF Elsewhere, ActiveWrites
    <3> HIDE DEF S
    <3>3. FetchGrant(id) = UNION {{GrantOf(w, t) : t \in w.terms} :
                                    w \in {v \in S \cap encoded : IsEarliest(v, S)}}
      BY DEF FetchGrant, S
    <3>4. FetchGrant(id)' = UNION {{GrantOf(w, t) : t \in w.terms} :
                                    w \in {v \in S' \cap encoded' : IsEarliest(v, S')}}
      BY DEF FetchGrant, S
    <3> QED BY <3>1, <3>2, <3>3, <3>4
  <2> QED BY <1>1, <1>2, <2>1, Zenon DEF GrantFact
<1>7. CurrentFact(m) => CurrentFact(m)'
  <2>1. ASSUME ~IsRevocation(n), NEW id PROVE Revocations(id)' \subseteq Revocations(id)
    BY <2>1 DEF Revocations, IsRevocation, ActiveWrites
  <2> QED BY <1>1, <1>2, <2>1 DEF CurrentFact
<1>8. FreeFact(m) => FreeFact(m)'
  <2>1. Met(n.record, m.record)'
    BY DEF Met
  <2> QED BY <2>1, MetKept DEF FreeFact
<1> QED BY <1>4, <1>5, <1>6, <1>7, <1>8 DEF FactsKept
\* CheckedInv of a handler that does not move.
LEMMA CheckedOther ==
    ASSUME HandlersOK, Overlaps, NEW p \in Handlers, NEW q \in Handlers \ {p},
           Summary(p), CheckedInv(q)
    PROVE  CheckedInv(q)'
<1> SUFFICES ASSUME NEW m \in Messages, m = req'[q], m.kind = "write", pc'[q] \in Unstored
             PROVE  CheckedFor(q, m)'
  BY DEF CheckedInv
<1>1. m = req[q] /\ pc'[q] = pc[q] /\ gate'[q] = gate[q] /\ rules'[q] = rules[q]
  BY Zenon DEF Summary, OthersStay
<1>2. InProgress(q) /\ Busy(q) = m
  BY <1>1, Zenon DEF InProgress, Busy, Unstored
<1>3. PICK n \in Messages : n = Busy(p)
  BY DEF Summary, InProgress, Busy, HandlersOK, TypeOK, GateType, GateOf
<1>4. {m, n} \in concurrent
  BY <1>2, <1>3, Zenon DEF Overlaps, Summary
<1>5. FactsKept(m)
  BY <1>3, <1>4, FactsOther, Zenon DEF Summary, HandlersOK, TypeOK
<1>6. KeptRules(q, m) => KeptRules(q, m)'
  BY <1>1, Zenon DEF KeptRules
<1>7. CheckedFor(q, m)
  BY <1>1, Zenon DEF CheckedInv
<1> QED BY <1>1, <1>5, <1>6, <1>7, Zenon DEF CheckedFor, FactsKept
\* A check of p that succeeds: the request and the stores stay as they are.
LEMMA PassesKeeps ==
    ASSUME HandlersOK, NEW p \in Handlers, NEW g, Passes(p, g), NEW m
    PROVE  FactsKept(m) /\ req'[p] = req[p] /\ pc'[p] = pc[p] /\ gate'[p] = g
<1>1. UNCHANGED store /\ concurrent \subseteq concurrent' /\ req' = req /\ pc' = pc
  BY DEF Passes, vars, store
<1> QED BY <1>1, FactsSame DEF Passes, Gate, HandlersOK, GateType

\* The definition in force for a path outside the permissions protocol is one of
\* those that were configured.
LEMMA InForceDefined ==
    ASSUME ConfigTypeOK, NEW m, m.path \notin {RequestPath, GrantPath, RevocationPath},
           NEW def \in InForce(m)
    PROVE  def \in Definitions
<1>1. PICK c \in configs : c.definition = def
  BY Zenon DEF InForce, IsPermission, ConfigsOf
<1> QED BY <1>1, ConfigsAssumption DEF ConfigTypeOK, Config

\* A handler's own step keeps what it has checked.
LEMMA CheckedOwn ==
    ASSUME HandlersOK, ConfigTypeOK, NEW p \in Handlers, CheckedInv(p), RulesOf(p),
           HandleRequest(p) \/ DropRequest(p) \/ DropTask(p)
    PROVE  CheckedInv(p)'
<1> SUFFICES ASSUME NEW m \in Messages, m = req'[p], m.kind = "write", pc'[p] \in Unstored
             PROVE  CheckedFor(p, m)'
  BY Zenon DEF CheckedInv
<1>0. pc'[p] # "idle"
  BY Zenon DEF Unstored
<1>1. ASSUME NEW g, Passes(p, g)
      PROVE  /\ FactsKept(m) /\ m = req[p] /\ gate'[p] = g
             /\ CheckedFor(p, m)
  BY <1>1, PassesKeeps DEF CheckedInv
<1>r. ~Refuse(p)
  BY <1>0, EndMoves DEF HandlersOK
<1>2. ASSUME NEW ok, NEW g, Check(p, ok, g)
      PROVE  Passes(p, g) /\ ok
  BY <1>2, <1>r, Zenon DEF Check, Passes
<1>3. CASE CheckGrant(p)
  <2>1. Passes(p, "current") /\ \E id \in req[p].grant : \E g \in FetchGrant(id) :
                 PermitGrantedWrite(g, Owner, {req[p].author}, Granted(req[p]), {})
    BY <1>2, <1>3, Zenon DEF CheckGrant
  <2>2. gate[p] = "grant" /\ FactsKept(m) /\ m = req[p] /\ gate'[p] = "current" /\ CheckedFor(p, m)
    BY <1>1, <1>3, <2>1, Zenon DEF CheckGrant
  <2>3. \A i, j \in m.grant : i = j
    BY NodeAssumption, Zenon
  <2>4. GrantFact(m)
    BY <2>1, <2>2, <2>3, Zenon DEF GrantFact
  <2> QED BY <2>2, <2>4, Zenon DEF CheckedFor, FactsKept
<1>4. CASE CheckCurrent(p)
  <2>1. Passes(p, "verify") /\ \A id \in req[p].grant : \A r \in Revocations(id) : req[p].ts <= r.ts
    BY <1>2, <1>4, Zenon DEF CheckCurrent
  <2>2. gate[p] = "current" /\ FactsKept(m) /\ m = req[p] /\ gate'[p] = "verify" /\ CheckedFor(p, m)
    BY <1>1, <1>4, <2>1, Zenon DEF CheckCurrent
  <2>3. CurrentFact(m)
    BY <2>1, <2>2, Zenon DEF CurrentFact
  <2> QED BY <2>2, <2>3, Zenon DEF CheckedFor, FactsKept
<1>5. CASE CheckRole(p)
  <2>1. Passes(p, "role_holder") /\ gate[p] = "role"
    BY <1>2, <1>5, Zenon DEF CheckRole
  <2>2. FactsKept(m) /\ gate'[p] = "role_holder" /\ CheckedFor(p, m)
    BY <1>1, <2>1, Zenon
  <2> QED BY <2>1, <2>2, Zenon DEF CheckedFor, FactsKept
<1>6. CASE CheckRoleHolder(p)
  <2>1. Passes(p, "rules") /\ gate[p] = "role_holder" /\ HoldsRole(req[p])
    BY <1>6, <1>r, Zenon DEF CheckRoleHolder, Check, Passes
  <2>2. FactsKept(m) /\ m = req[p] /\ gate'[p] = "rules" /\ CheckedFor(p, m)
    BY <1>1, <2>1, Zenon
  <2>3. RoleFact(m)
    BY <2>1, <2>2, Zenon DEF RoleFact
  <2> QED BY <2>1, <2>2, <2>3, Zenon DEF CheckedFor, FactsKept
<1>7. CASE FetchRules(p) \/ FetchAncestor(p)
  <2>1. PICK g \in {"chain", "action"} : Passes(p, g)
    BY <1>2, <1>7, Zenon DEF FetchRules, FetchAncestor
  <2>2. FactsKept(m) /\ gate'[p] = g /\ CheckedFor(p, m) /\ gate[p] \in {"rules", "chain"}
    BY <1>1, <1>7, <2>1, Zenon DEF FetchRules, FetchAncestor
  <2> QED BY <2>1, <2>2, Zenon DEF CheckedFor, FactsKept
<1>8. CASE CheckAction(p)
  <2>1. Passes(p, IF req[p].kind = "write" THEN "verify" ELSE "open") /\ gate[p] = "action"
    BY <1>2, <1>8, Zenon DEF CheckAction
  <2>2. FactsKept(m) /\ m = req[p] /\ CheckedFor(p, m)
        /\ gate'[p] = IF req[p].kind = "write" THEN "verify" ELSE "open"
    BY <1>1, <2>1, Zenon
  <2> QED BY <2>1, <2>2, Zenon DEF CheckedFor, FactsKept
<1>9. CASE VerifyRecord(p)
  <2>0. gate[p] = "verify"
    BY <1>9, Zenon DEF VerifyRecord
  <2>1. PICK def \in InForce(req[p]) :
          /\ VerifyStatic(def, req[p])
          /\ \/ /\ Keep(p, {def.rules[req[p].path]}) /\ Check(p, TRUE, "parent")
             \/ /\ req[p].parent = NoRecord
                /\ Check(p, TRUE, AfterPath(req[p], def.rules[req[p].path]))
    <3>1. ~Check(p, FALSE, "none")
      BY <1>2, Zenon
    <3> QED BY <1>9, <3>1, Zenon DEF VerifyRecord
  <2>2. PICK g : Passes(p, g)
    BY <1>2, <2>1, Zenon
  <2>3. FactsKept(m) /\ m = req[p] /\ CheckedFor(p, m)
    BY <1>1, <2>2, Zenon
  <2>4. IsRolePath(m.path) => def.rules[m.path].role # {}
    BY <2>1, <2>3, InForceDefined, Zenon DEF IsRolePath, VerifyStatic
  <2>5. CASE Keep(p, {def.rules[m.path]}) /\ Check(p, TRUE, "parent")
    <3>1. gate'[p] = "parent" /\ rules'[p] = {def.rules[m.path]}
      BY <1>1, <1>2, <2>5, Zenon DEF Keep, HandlersOK
    <3>2. KeptRules(p, m)'
      BY <2>4, <3>1, Zenon DEF KeptRules
    <3> QED BY <2>0, <2>3, <3>1, <3>2, Zenon DEF CheckedFor, FactsKept
  <2>6. CASE m.parent = NoRecord /\ Check(p, TRUE, AfterPath(m, def.rules[m.path]))
    <3>1. gate'[p] = AfterPath(m, def.rules[m.path])
      BY <1>1, <1>2, <2>6, Zenon
    <3>2. /\ gate'[p] \in {"role_record", "revocation", "open"}
          /\ IsRolePath(m.path) => gate'[p] = "role_record"
      BY <2>4, <3>1, Zenon DEF AfterPath, AfterRole
    <3> QED BY <2>0, <2>3, <2>6, <3>2, Zenon DEF CheckedFor, FactsKept
  <2> QED BY <2>1, <2>3, <2>5, <2>6, Zenon
<1>10. CASE VerifyPath(p)
  <2>1. ~Refuse(p)
    BY <1>0, EndMoves DEF HandlersOK
  <2>2. /\ gate[p] = "parent" /\ InPlace(req[p]) /\ VerifyParent(p)
        /\ \E set \in rules[p] : Gate(p, AfterPath(req[p], set))
        /\ UNCHANGED store /\ concurrent' = concurrent
    BY <1>10, <2>1, Zenon DEF VerifyPath, VerifyParent, store
  <2>3. req' = req /\ pc[p] = "parent"
    BY <1>0, <2>2 DEF VerifyParent, Step, Answer, Goto, local, HandlersOK, TypeOK
  <2>4. FactsKept(m) /\ m = req[p] /\ CheckedFor(p, m)
    BY <2>2, <2>3, FactsSame, Zenon DEF CheckedInv, Unstored
  <2>5. ParentFact(m)
    BY <2>2, <2>4, Zenon DEF InPlace, ParentFact
  <2>6. PICK set \in rules[p] : gate'[p] = AfterPath(m, set)
    BY <2>2, <2>4 DEF Gate, HandlersOK, GateType
  <2>7. /\ gate'[p] \in {"role_record", "revocation", "open"}
        /\ IsRolePath(m.path) => gate'[p] = "role_record"
    BY <2>2, <2>4, <2>6, Zenon DEF AfterPath, AfterRole, CheckedFor, KeptRules
  <2> QED BY <2>2, <2>4, <2>5, <2>7, Zenon DEF CheckedFor, FactsKept
<1>11. CASE VerifyRoleRecord(p)
  <2>1. /\ gate[p] = "role_record" /\ Passes(p, AfterRole(req[p])) /\ RoleFree(req[p])
    BY <1>11, <1>r, Zenon DEF VerifyRoleRecord, Check, Passes
  <2>2. FactsKept(m) /\ m = req[p] /\ CheckedFor(p, m) /\ gate'[p] \in {"revocation", "open"}
    BY <1>1, <2>1, Zenon DEF AfterRole
  <2>3. FreeFact(m)
    BY <2>1, <2>2, Zenon DEF FreeFact, RoleFree
  <2> QED BY <2>1, <2>2, <2>3, Zenon DEF CheckedFor, FactsKept
<1>12. CASE VerifyRevocation(p)
  <2>1. Passes(p, "open") /\ gate[p] = "revocation"
    BY <1>2, <1>12, Zenon DEF VerifyRevocation
  <2>2. FactsKept(m) /\ gate'[p] = "open" /\ CheckedFor(p, m)
    BY <1>1, <2>1, Zenon
  <2> QED BY <2>1, <2>2, Zenon DEF CheckedFor, FactsKept
<1>13. CASE Continue(p)
  <2>1. gate[p] = "open" /\ gate' = gate /\ concurrent' = concurrent /\ pc[p] # "parent"
        /\ pc[p] # "idle"
    BY <1>0, <1>13 DEF Continue, Unstored, HandlersOK, GateInv, GateOf, RevokeGates
  <2>2. PICK n \in Messages : n = req[p]
    BY <2>1 DEF HandlersOK, TypeOK
  <2>3. Frame(p, n)
    BY <1>13, <2>2, WorkFrame DEF Continue, HandlersOK
  <2>4. req' = req /\ n = m
    BY <1>0, <2>2, <2>3, Zenon DEF Frame
  <2>5. pc[p] \in Unstored \ {"put"}
    <3>1. pc[p] \notin DeleteSteps
      BY <2>2, <2>4 DEF HandlersOK, TypeOK
    <3> QED BY <1>0, <1>13, <3>1, Zenon DEF Continue, Work, VerifyParent, FetchExisting, UpdateData,
         CloneData, PutMessage, LogEvent, EmitEvent, ArchiveInitial, LogInitial,
         DeleteInitialData, DeletePrevious, DeletePreviousData, UnlogPrevious, FetchActive,
         FetchEntries, DeleteChildren, DeleteEarlierData, DeleteEarlier, UnlogEarlier,
         Answer, Step, Proceed, Goto, HandlersOK, TypeOK, DeleteSteps, Unstored
  <2>6. FactsKept(m)
    BY <2>1, <2>3, <2>5, FactsSame, Zenon DEF Frame
  <2>7. CheckedFor(p, m)
    BY <2>2, <2>4, <2>5, Zenon DEF CheckedInv, Unstored
  <2> QED BY <2>1, <2>6, <2>7, Zenon DEF CheckedFor, FactsKept
<1>14. CASE RevokeGrants(p) \/ DropRequest(p) \/ DropTask(p)
  <2>1. pc'[p] = "idle"
    <3>1. CASE RevokeGrants(p)
      <4>1. gate[p] \in RevokeGates /\ pc' = pc
        BY <3>1, Zenon DEF RevokeGrants, RevokeFetch, RevokeQuery, RevokeDelete, RevokeUnlog,
                    RevokeGates, vars
      <4> QED BY <4>1 DEF HandlersOK, GateOf
    <3>2. CASE DropRequest(p)
      BY <3>2, EndMoves DEF DropRequest, HandlersOK, vars
    <3>3. CASE DropTask(p)
      BY <3>3, EndMoves DEF DropTask, HandlersOK
    <3> QED BY <1>14, <3>1, <3>2, <3>3
  <2> QED BY <1>0, <2>1, Zenon
<1> QED
  BY <1>3, <1>4, <1>5, <1>6, <1>7, <1>8, <1>9, <1>10, <1>11, <1>12, <1>13, <1>14, Zenon
     DEF HandleRequest, Authorize, Verify
-----------------------------------------------------------------------------
(* The invariant                                                           *)

NodeInv ==
    /\ ConfigTypeOK /\ HandlersOK /\ ChainType /\ Overlaps /\ RoleOnce
    /\ \A p \in Handlers : CheckedInv(p)

\* A request that arrives.
LEMMA ReceiveStep ==
    ASSUME NodeInv, UNCHANGED configVars, TypeOK', NEW p \in Handlers, NEW m \in Messages,
           NEW s \in Data \cup {NoData}, Receive(p, m, s)
    PROVE  NodeInv'
<1> USE DEF NodeInv
<1>0. HandlersOK
  OBVIOUS
<1>1. /\ OnlyMoves(p) /\ req'[p] = m /\ existing' = existing /\ UNCHANGED store
      /\ pc[p] = "idle" /\ pc'[p] = IF m.kind = "delete" THEN "active" ELSE Before(m)
  BY StartMoves DEF Receive, HandlersOK
<1>2. /\ gate[p] = "none" /\ Gate(p, FirstGate(m)) /\ rules' = rules /\ UNCHANGED cleanup
      /\ concurrent' = concurrent \cup {{m, Busy(q)} : q \in {h \in Handlers : InProgress(h)}}
  BY Zenon DEF Receive, kept
<1>3. pc'[p] # "idle"
  BY <1>1 DEF Before
<1>4. PICK g \in {"open", "verify", "grant", "role", "rules"} :
         g = FirstGate(m) /\ (m.kind = "delete" <=> g = "open")
         /\ (g = "verify" => ByOwner(m))
         /\ (g = "grant" => m.grant # {})
         /\ (g = "role" => m.grant = {})
         /\ (g = "rules" => m.grant = {} /\ m.role = {})
  BY Zenon DEF FirstGate, ByProtocol
<1>5. gate'[p] = g
  BY <1>2, <1>4 DEF Gate, HandlersOK, GateType
<1>6. \A q \in Handlers \ {p} :
         /\ pc'[q] = pc[q] /\ req'[q] = req[q] /\ existing'[q] = existing[q]
         /\ gate'[q] = gate[q] /\ rules'[q] = rules[q] /\ revoking'[q] = revoking[q]
  BY <1>1, <1>2 DEF OnlyMoves, Gate, HandlersOK, GateType, cleanup
<1>7. HandlersOK'
  <2>1. GateType'
    BY <1>2, <1>4 DEF HandlersOK, GateType, Gate, Gates, cleanup
  <2>2. OwnEntries'
    <3>1. existing[p] = {}
      BY <1>1 DEF HandlersOK, OwnEntries
    <3> QED BY <1>1, <1>6, <3>1 DEF OwnEntries, HandlersOK
  <2>3. rules' = [q \in Handlers |-> rules'[q]]
    BY <1>2 DEF HandlersOK
  <2>4. GateOf(p)'
    BY <1>2, <1>3, <1>5 DEF GateOf, HandlersOK, RevokeGates, cleanup
  <2>5. GateInv(p)'
    BY <1>1, <1>4, <1>5, ZenonT(30) DEF GateInv
  <2>6. \A q \in Handlers \ {p} : GateOf(q)' /\ GateInv(q)'
    BY <1>6 DEF GateOf, GateInv, HandlersOK
  <2> QED BY <2>1, <2>2, <2>3, <2>4, <2>5, <2>6 DEF HandlersOK
<1>8. Overlaps'
  <2>1. Busy(p)' = m
    BY <1>1, <1>3, Zenon DEF Busy
  <2>2. \A q \in Handlers \ {p} : InProgress(q)' = InProgress(q) /\ Busy(q)' = Busy(q)
    BY <1>6, Zenon DEF InProgress, Busy
  <2>3. \A q \in Handlers : InProgress(q) => {m, Busy(q)} \in concurrent'
    BY <1>2
  <2>4. concurrent \subseteq concurrent'
    BY <1>2
  <2> QED BY <2>1, <2>2, <2>3, <2>4 DEF Overlaps
<1>9. concurrent \subseteq concurrent'
  BY <1>2
<1>10. RoleOnce'
  BY <1>1, <1>9, SameFrame, Zenon DEF RoleOnce, IsRolePath
<1>11. CheckedInv(p)'
  <2> SUFFICES ASSUME m.kind = "write" PROVE CheckedFor(p, m)'
    BY <1>1, Zenon DEF CheckedInv
  <2>1. m.grant = {} => GrantFact(m)' /\ CurrentFact(m)'
    BY Zenon DEF GrantFact, CurrentFact
  <2> QED BY <1>4, <1>5, <2>1, Zenon DEF CheckedFor
<1>12. ASSUME NEW q \in Handlers \ {p} PROVE CheckedInv(q)'
  <2> SUFFICES ASSUME NEW n \in Messages, n = req'[q], n.kind = "write", pc'[q] \in Unstored
               PROVE  CheckedFor(q, n)'
    BY Zenon DEF CheckedInv
  <2>1. CheckedFor(q, n) /\ FactsKept(n)
    BY <1>1, <1>6, <1>9, FactsSame, Zenon DEF CheckedInv
  <2> QED BY <1>6, <2>1, Zenon DEF CheckedFor, FactsKept, KeptRules
<1>13. ConfigTypeOK'
  BY DEF ConfigTypeOK, configVars
<1>14. ChainType'
  BY ChainStep DEF HandlersOK, TypeOK
<1> QED BY <1>7, <1>8, <1>10, <1>11, <1>12, <1>13, <1>14

\* Records of a role exclude each other: TakesRole is symmetric.
LEMMA TakesRoleSymmetric ==
    ASSUME NEW v \in Messages, NEW w \in Messages, TakesRole(v, w)
    PROVE  TakesRole(w, v)
<1>1. v.context \in Seq(Record) /\ w.context \in Seq(Record) /\ Len(v.context) = Len(w.context)
      /\ Len(v.context) > 0
  BY NodeAssumption DEF TakesRole
<1>2. PICK c \in Seq(Record), d \in Seq(Record) : c = v.context /\ d = w.context
  BY <1>1
<1>3. PICK k : k = Len(c) - 1
  OBVIOUS
<1>k. k \in Nat /\ k = Len(d) - 1 /\ k <= Len(c) /\ k <= Len(d)
  BY <1>1, <1>2, <1>3
<1>4. Len(SubSeq(c, 1, k)) = k /\ Len(SubSeq(d, 1, k)) = k
  BY <1>k
<1>5. Parent(c) = SubSeq(c, 1, k) /\ Parent(d) = SubSeq(d, 1, k)
  BY <1>3, <1>k DEF Parent
<1>6. SubSeq(c, 1, k) = SubSeq(d, 1, k)
  BY <1>2, <1>4, <1>5, Zenon DEF TakesRole, StartsWith
<1> QED BY <1>2, <1>k, <1>4, <1>5, <1>6 DEF TakesRole, StartsWith

\* A role stays unique as long as no write becomes active.
LEMMA RoleOnceKept ==
    ASSUME RoleOnce, ActiveWrites' \subseteq ActiveWrites, concurrent \subseteq concurrent'
    PROVE  RoleOnce'
BY Zenon DEF RoleOnce, IsRolePath

\* The record of a role that is stored finds no other, or met it.
LEMMA RoleOnceStep ==
    ASSUME NodeInv, NEW p \in Handlers, Summary(p)
    PROVE  RoleOnce'
<1> USE DEF NodeInv
<1>1. concurrent' = concurrent
  BY DEF Summary
<1>2. CASE ActiveWrites' \subseteq ActiveWrites
  BY <1>1, <1>2, Zenon DEF RoleOnce
<1>3. CASE ~(ActiveWrites' \subseteq ActiveWrites)
  <2>1. pc[p] = "put" /\ ActiveWrites' \subseteq ActiveWrites \cup {req[p]}
    BY <1>3 DEF Summary, Busy
  <2>2. PICK m \in Messages : m = req[p] /\ m.kind = "write"
    BY <1>3, <2>1 DEF HandlersOK, TypeOK, ActiveWrites
  <2>3. gate[p] = "open"
    BY <2>1 DEF HandlersOK, GateInv, GateOf, GateType, Gates, RevokeGates, Before
  <2>4. IsRolePath(m.path) => FreeFact(m)
    BY <2>1, <2>2, <2>3, Zenon DEF CheckedInv, CheckedFor, Unstored
  <2>5. ActiveWrites \subseteq Messages
    BY DEF HandlersOK, TypeOK, ActiveWrites
  <2>6. ASSUME NEW w \in ActiveWrites, TakesRole(w, m), IsRolePath(m.path), w.record # m.record
        PROVE  Met(w.record, m.record) /\ Met(m.record, w.record)
    <3>1. PICK a \in Messages, b \in Messages :
            a.record = w.record /\ b.record = m.record /\ {a, b} \in concurrent
      BY <2>4, <2>6, Zenon DEF FreeFact, Met
    <3>2. {b, a} = {a, b}
      OBVIOUS
    <3> QED BY <3>1, <3>2, Zenon DEF Met
  <2>7. ASSUME NEW v \in ActiveWrites', NEW w \in ActiveWrites',
               v.record # w.record, TakesRole(v, w), IsRolePath(w.path)
        PROVE  Met(v.record, w.record)
    <3>1. CASE v \in ActiveWrites /\ w \in ActiveWrites
      BY <2>7, <3>1, Zenon DEF RoleOnce, Met
    <3>2. CASE v \in ActiveWrites /\ w = m
      BY <2>6, <2>7, <3>2
    <3>3. CASE v = m /\ w \in ActiveWrites
      <4>1. TakesRole(w, m) /\ m.path = w.path
        BY <2>5, <2>7, <3>3, TakesRoleSymmetric DEF TakesRole
      <4> QED BY <2>6, <2>7, <3>3, <4>1
    <3> QED BY <2>1, <2>2, <2>7, <3>1, <3>2, <3>3, Zenon
  <2> QED BY <1>1, <2>7, Zenon DEF RoleOnce, Met
<1> QED BY <1>2, <1>3, Zenon

\* A step of a handler of records keeps NodeInv.
LEMMA HandlerStep ==
    ASSUME NodeInv, UNCHANGED configVars, TypeOK', NEW p \in Handlers,
           HandleRequest(p) \/ DropRequest(p) \/ DropTask(p)
    PROVE  NodeInv'
<1> USE DEF NodeInv
<1>1. Summary(p) /\ RulesOf(p)
  BY StepSummary, RulesOfChecks DEF HandlersOK
<1>2. OthersStay(p)
  BY <1>1, Zenon DEF Summary
<1>3. HandlersOK'
  <2>1. OwnEntries'
    BY <1>1, <1>2 DEF OwnEntries, HandlersOK, Summary, OthersStay
  <2>2. rules' = [q \in Handlers |-> rules'[q]]
    BY <1>1, Zenon DEF HandlersOK, RulesOf
  <2>3. \A q \in Handlers \ {p} : GateOf(q)' /\ GateInv(q)'
    BY <1>2 DEF OthersStay, GateOf, GateInv, HandlersOK
  <2> QED BY <1>1, <2>1, <2>2, <2>3 DEF HandlersOK, Summary
<1>4. Overlaps'
  <2>1. \A q \in Handlers \ {p} : InProgress(q)' = InProgress(q) /\ Busy(q)' = Busy(q)
    BY <1>2, Zenon DEF OthersStay, InProgress, Busy
  <2> QED BY <1>1, <2>1, Zenon DEF Overlaps, Summary
<1>5. RoleOnce'
  BY <1>1, RoleOnceStep
<1>6. CheckedInv(p)'
  BY <1>1, CheckedOwn
<1>7. \A q \in Handlers \ {p} : CheckedInv(q)'
  BY <1>1, CheckedOther
<1>8. ConfigTypeOK'
  BY DEF ConfigTypeOK, configVars
<1>9. ChainType'
  BY ChainStep DEF HandlersOK, TypeOK
<1> QED BY <1>3, <1>4, <1>5, <1>6, <1>7, <1>8, <1>9
-----------------------------------------------------------------------------
\* The checks of a request, its handler in Records and its clean-up keep the
\* invariant, in any interleaving with each other and with ProtocolsConfigure.
THEOREM NodeInvariant == NodeSpec => []NodeInv
<1>1. NodeInit => NodeInv
  <2> SUFFICES ASSUME NodeInit PROVE NodeInv
    OBVIOUS
  <2>1. TypeOK
    BY ConstantsAssumption DEF NodeInit, Init, TypeOK, Steps, WriteSteps, DeleteSteps
  <2>2. ConfigTypeOK
    BY ConfigTypeInit DEF NodeInit
  <2>3. GateType /\ ChainType
    BY DEF NodeInit, GateType, Gates, ChainType
  <2>4. OwnEntries /\ rules = [q \in Handlers |-> rules[q]]
    BY Zenon DEF NodeInit, Init, OwnEntries
  <2>5. \A p \in Handlers : GateOf(p) /\ GateInv(p) /\ ~InProgress(p) /\ CheckedInv(p)
    BY DEF NodeInit, Init, GateOf, GateInv, InProgress, CheckedInv, Unstored, RevokeGates
  <2>6. Overlaps /\ RoleOnce
    BY <2>5, Zenon DEF Overlaps, RoleOnce, NodeInit, Init, ActiveWrites
  <2> QED BY <2>1, <2>2, <2>3, <2>4, <2>5, <2>6 DEF NodeInv, HandlersOK
<1>2. NodeInv /\ [NodeNext]_nodeVars => NodeInv'
  <2> SUFFICES ASSUME NodeInv, [NodeNext]_nodeVars PROVE NodeInv'
    OBVIOUS
  <2>1. CASE RecordsNext /\ UNCHANGED configVars
    <3>1. TypeOK'
      BY <2>1, RecordsTypeStep DEF NodeInv, HandlersOK
    <3> QED BY <2>1, <3>1, ReceiveStep, HandlerStep DEF RecordsNext
  <2>2. CASE /\ [ConfigureNext]_configVars
             /\ UNCHANGED <<vars, gate, rules, chain, cleanup, concurrent>>
    <3>1. ConfigTypeOK'
      BY <2>2, ConfigTypeStep DEF NodeInv
    <3>2. TypeOK'
      BY <2>2, TypeStep DEF NodeInv, HandlersOK
    <3>3. UNCHANGED <<vars, gate, rules, chain, revoking, victims, revoked, concurrent>>
      BY <2>2, Zenon DEF cleanup
    <3>4. HandlersOK'
      BY <3>2, <3>3 DEF NodeInv, HandlersOK, GateType, OwnEntries, GateOf, GateInv, vars
    <3>5. Overlaps' /\ RoleOnce'
      <4>1. Overlaps'
        BY <3>3, Zenon DEF NodeInv, Overlaps, InProgress, Busy, vars
      <4>2. ActiveWrites' = ActiveWrites /\ concurrent' = concurrent
        BY <3>3 DEF ActiveWrites, vars
      <4>3. RoleOnce
        BY DEF NodeInv
      <4>4. RoleOnce'
        BY <4>2, <4>3, RoleOnceKept
      <4> QED BY <4>1, <4>4
    <3>6. ASSUME NEW p \in Handlers PROVE CheckedInv(p)'
      <4> SUFFICES ASSUME NEW m \in Messages, m = req'[p], m.kind = "write",
                          pc'[p] \in Unstored
                   PROVE  CheckedFor(p, m)'
        BY DEF CheckedInv
      <4>1. FactsKept(m)
        BY <3>3, FactsSame, Zenon DEF vars, store
      <4>2. CheckedFor(p, m)
        BY <3>3 DEF NodeInv, CheckedInv, vars
      <4> QED BY <3>3, <4>1, <4>2, Zenon DEF CheckedFor, FactsKept, KeptRules
    <3>7. ChainType'
      BY <3>3 DEF NodeInv, ChainType
    <3> QED BY <3>1, <3>4, <3>5, <3>6, <3>7 DEF NodeInv
  <2> QED BY <2>1, <2>2 DEF NodeNext, nodeVars, checks, cleanup
<1> QED BY <1>1, <1>2, PTL DEF NodeSpec

\* The types of the node's state; the gates and the steps of a handler agree.
THEOREM NodeTypeCorrect == NodeSpec => []NodeTypeOK
<1>1. NodeInv => NodeTypeOK
  BY NodeTypeParts DEF NodeInv, HandlersOK
<1> QED BY <1>1, NodeInvariant, PTL

\* A handler that stores a write has passed all of its checks.
LEMMA StoresChecked ==
    ASSUME NodeInv, NEW p \in Handlers, NEW m \in Messages, Stores(p, m)
    PROVE  CheckedFor(p, m) /\ gate[p] = "open"
<1>1. CheckedFor(p, m)
  BY DEF NodeInv, CheckedInv, Stores, Unstored
<1>2. gate[p] = "open"
  BY DEF Stores, NodeInv, HandlersOK, GateInv, GateOf, GateType, Gates, RevokeGates, Before
<1> QED BY <1>1, <1>2

\* A child is stored below a parent that is still there, or a request about the
\* parent, or a revocation, was in progress at the same time.
THEOREM ParentIsThere == NodeSpec => []ParentStillThere
<1>1. NodeInv => ParentStillThere
  BY StoresChecked, Zenon DEF ParentStillThere, CheckedFor, ParentFact
<1> QED BY <1>1, NodeInvariant, PTL

\* A write by virtue of a role is stored while its author has the role, or a
\* request about a record of the role was in progress at the same time.
THEOREM RoleIsHeld == NodeSpec => []RoleStillHeld
<1>1. NodeInv => RoleStillHeld
  BY StoresChecked, Zenon DEF RoleStillHeld, CheckedFor, RoleFact
<1> QED BY <1>1, NodeInvariant, PTL

\* A write by virtue of a grant is stored while the grant covers it and is not
\* revoked, or a request about the grant was in progress at the same time.
THEOREM GrantIsGood == NodeSpec => []GrantStillGood
<1>1. ASSUME NodeInv PROVE GrantStillGood
  <2> SUFFICES ASSUME NEW p \in Handlers, NEW m \in Messages, Stores(p, m), ~ByOwner(m),
                      NEW id \in m.grant, ~Disturbed(m, id)
               PROVE  \E g \in FetchGrant(id) :
                        PermitGrantedWrite(g, Owner, {m.author}, Granted(m),
                                           {r.ts : r \in Revocations(id)})
    BY Zenon DEF GrantStillGood
  <2>1. GrantFact(m) /\ CurrentFact(m)
    BY <1>1, StoresChecked, Zenon DEF CheckedFor
  <2>2. PICK g \in FetchGrant(id) :
          PermitGrantedWrite(g, Owner, {m.author}, Granted(m), {})
    BY <2>1, Zenon DEF GrantFact
  <2>3. \A r \in Revocations(id) : Granted(m).ts <= r.ts
    BY <2>1, Zenon DEF CurrentFact, Granted
  <2> QED BY <2>2, <2>3, Zenon DEF PermitGrantedWrite, GrantVerify, IsCurrent
<1> QED BY <1>1, NodeInvariant, PTL

\* A recipient has a role twice only after an overlap of the requests.
THEOREM RoleIsOnce == NodeSpec => []RoleOnce
BY NodeInvariant, PTL DEF NodeInv
-----------------------------------------------------------------------------
(* The components                                                          *)

\* The node handles ProtocolsConfigure as Configure does, whatever happens to the
\* records, so that the theorems of ConfigureProofs hold of the node.
THEOREM NodeConfigures == NodeSpec => ConfigureSpec
<1>1. NodeInit => ConfigureInit
  BY DEF NodeInit
<1>2. [NodeNext]_nodeVars => [ConfigureNext]_configVars
  BY DEF NodeNext, nodeVars, configVars
<1> QED BY <1>1, <1>2, PTL DEF NodeSpec, ConfigureSpec

\* Until a revocation is accepted no write is taken out of turn: if none is ever
\* sent, the node is the handlers of Records, which the checks can only hold back.
THEOREM NodeImplementsRecords ==
    ASSUME \A m \in Messages : ~IsRevocation(m)
    PROVE  NodeSpec => Spec
<1>1. NodeInit => Init
  BY DEF NodeInit
<1>2. NodeInv /\ [NodeNext]_nodeVars => [Next]_vars
  <2> SUFFICES ASSUME NodeInv, [NodeNext]_nodeVars PROVE [Next]_vars
    OBVIOUS
  <2>1. ASSUME NEW p \in Handlers, RevokeDelete(p) \/ RevokeUnlog(p) PROVE FALSE
    BY <2>1 DEF NodeInv, HandlersOK, GateOf, GateType, RevokeGates, RevokeDelete, RevokeUnlog
  <2>2. CASE RecordsNext
    BY <2>1, <2>2, RecordsStep
  <2>3. CASE UNCHANGED vars
    BY <2>3
  <2> QED BY <2>2, <2>3 DEF NodeNext, nodeVars
<1> QED BY <1>1, <1>2, NodeInvariant, PTL DEF NodeSpec, Spec
=============================================================================

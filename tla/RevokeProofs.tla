---------------------------- MODULE RevokeProofs ----------------------------
(***************************************************************************)
(* Once the revocation of a grant is through, nothing stored was created   *)
(* under the grant after it, unless a request for it overlapped with that  *)
(* of the revocation.  Proved for any messages and number of handlers.     *)
(*                                                                         *)
(* A write created after the revocation r is stored by a handler that had  *)
(* looked for revocations before r was stored, so that it overlapped with  *)
(* r's; or it is there when r's clean-up asks for the writes to delete.    *)
(* What the clean-up has deleted comes back only by a handler that had     *)
(* fetched it before, which overlapped as well.                            *)
(***************************************************************************)
EXTENDS NodeProofs

\* A request about record s overlapped with r's.
Meets(r, s) == \E n \in Messages : n.record = s /\ {r, n} \in concurrent

Left(r, m) == Outlives(m, r) /\ ~Meets(r, m.record)

\* Steps of a handler that has fetched the entries of its record.
Fetched == {"data_put", "data_get", "put"}

PutStored(r) ==
    /\ r \in revoked => r \in stored
    /\ \A p \in Handlers :
         /\ revoking[p] = r => r \in stored
         /\ req[p] = r => /\ existing[p] = {}
                          /\ pc[p] \in Unstored \cup {"log", "emit"}
                          /\ pc[p] \in {"log", "emit"} => r \in stored

\* r is active, or may be made so by a handler that is putting it.
Takes(r) ==
    r \in ActiveWrites \/ \E p \in Handlers : req[p] = r /\ pc[p] \in Fetched

NoneLeft(r) == r \in revoked /\ Takes(r) => \A m \in stored : ~Left(r, m)

CleanUp(r) ==
    \A p \in Handlers :
        revoking[p] = r /\ gate[p] \in {"revoke_delete", "revoke_log"} =>
          \A m \in stored : Left(r, m) =>
            /\ m \in victims[p]
            /\ gate[p] = "revoke_log" => ~IsEarliest(m, victims[p])

\* p has found that r is not older than m, or overlaps with r.
Looked(r, p) ==
    r \in ActiveWrites => \A m \in Messages :
        /\ m = req[p] /\ m.kind = "write" /\ pc[p] \in Unstored
        /\ ~ByOwner(m) /\ m.grant = {r.parent}
        /\ gate[p] \notin {"grant", "current"}
        => m.ts <= r.ts \/ {r, m} \in concurrent

NoneFetched(r, p) ==
    r \in revoked /\ r \in ActiveWrites => \A m \in existing[p] : ~Left(r, m)

VictimsGranted == \A p \in Handlers : \A n \in victims[p] : n.grant # {}

RevokeInv(r) ==
    /\ PutStored(r) /\ NoneLeft(r) /\ CleanUp(r)
    /\ \A p \in Handlers : Looked(r, p) /\ NoneFetched(r, p)

\* One instant after another is no earlier.
LEMMA LaterIsNoEarlier ==
    ASSUME NEW i \in Nat, NEW j \in Nat, i > j
    PROVE  i >= j
OBVIOUS

\* What never changes: r, and that it lasts.
LEMMA LastingFacts ==
    ASSUME NEW r \in Messages, Lasting(r)
    PROVE  /\ r.kind = "write" /\ r.grant = {} /\ r.record \in Record
           /\ \A n \in Messages : n.record = r.record => n = r
           /\ ~Outlives(r, r)
BY MessagesAssumption DEF Lasting, Outlives, IsRevocation, IsMessage

\* Nothing comes to be left by having overlapped.
LEMMA LeftShrinks ==
    ASSUME NEW r, NEW m, concurrent \subseteq concurrent', ~Left(r, m)
    PROVE  ~Left(r, m)'
BY DEF Left, Meets

\* A handler that is busy overlaps with the one that is busy with r.
LEMMA BusyMeets ==
    ASSUME NodeInv, NEW r \in Messages, NEW p \in Handlers, NEW q \in Handlers, p # q,
           InProgress(p), InProgress(q), Busy(p) = r, NEW m, m.record = Busy(q).record,
           Busy(q) \in Messages
    PROVE  Meets(r, m.record) /\ ~Left(r, m)
BY DEF NodeInv, Overlaps, Meets, Left

\* Going on adds nothing to the entries a handler has fetched.
LEMMA EntriesShrink ==
    ASSUME TypeOK, NEW p \in Handlers, NEW l, NEW r, NEW S \in SUBSET existing[p],
           Answer(p, r) \/ Step(p, l) \/ Proceed(p, S, l, r)
    PROVE  existing'[p] \subseteq existing[p]
BY AnswerMoves, StepMoves, ProceedMoves

\* What a handler's step in Records does to the store.
LEMMA WorkAdds ==
    ASSUME TypeOK, NEW p \in Handlers, Work(p)
    PROVE  /\ \A n \in stored' : n \in stored \/ n \in existing[p] \/ (pc[p] = "put" /\ n = req[p])
           /\ existing'[p] \subseteq existing[p] \cup stored
<1> DEFINE Goal == /\ \A n \in stored' : \/ n \in stored \/ n \in existing[p]
                                         \/ pc[p] = "put" /\ n = req[p]
                   /\ existing'[p] \subseteq existing[p] \cup stored
<1>s. existing[p] \in SUBSET existing[p]
      /\ \A x : existing[p] \ {x} \in SUBSET existing[p]
  OBVIOUS
<1>1. CASE FetchExisting(p)
  BY <1>1, AnswerMoves DEF FetchExisting, ExistingEntries, TypeOK, store
<1>2. CASE FetchEntries(p)
  BY <1>2, AnswerMoves DEF FetchEntries, ExistingEntries, TypeOK, store
<1>3. ASSUME UNCHANGED store, NEW l, NEW r, NEW S \in SUBSET existing[p],
             Answer(p, r) \/ Step(p, l) \/ Proceed(p, S, l, r)
      PROVE  Goal
  BY <1>3, EntriesShrink DEF store
<1>4. CASE VerifyParent(p) \/ UpdateData(p) \/ CloneData(p) \/ LogEvent(p)
  BY <1>4, <1>3, <1>s, Zenon DEF VerifyParent, UpdateData, CloneData, LogEvent
<1>5. CASE PutMessage(p)
  BY <1>5, StepMoves DEF PutMessage, StorePut
<1>6. CASE EmitEvent(p) \/ DeleteChildren(p)
  BY <1>6, <1>3, <1>s DEF EmitEvent, DeleteChildren
<1>7. CASE ArchiveInitial(p)
  BY <1>7, StepMoves DEF ArchiveInitial, StorePut
<1>8. CASE LogInitial(p) \/ DeleteInitialData(p)
  BY <1>8, <1>3, <1>s, Zenon DEF LogInitial, DeleteInitialData
<1>9. CASE DeletePrevious(p)
  <2>1. PICK n \in existing[p] :
          \/ Answer(p, "error") /\ UNCHANGED store
          \/ StoreDelete(n) /\ Step(p, "delete_data")
    BY <1>9 DEF DeletePrevious
  <2>2. CASE Answer(p, "error") /\ UNCHANGED store
    BY <1>3, <1>s, <2>2
  <2>3. CASE StoreDelete(n) /\ Step(p, "delete_data")
    BY <2>3, StepMoves DEF StoreDelete
  <2> QED BY <2>1, <2>2, <2>3
<1>10. CASE DeletePreviousData(p) \/ UnlogPrevious(p) \/ UnlogEarlier(p)
  BY <1>10, <1>3, <1>s, Zenon DEF DeletePreviousData, UnlogPrevious, UnlogEarlier
<1>11. CASE FetchActive(p) \/ DeleteEarlierData(p)
  BY <1>11, <1>3, <1>s, Zenon DEF FetchActive, DeleteEarlierData
<1>12. CASE DeleteEarlier(p)
  <2>1. PICK n \in existing[p] :
          \/ /\ StorePut(n, TRUE, n \in existingEncoded[p])
             /\ Proceed(p, existing[p] \ {n}, "earlier_data", "accepted")
          \/ StoreDelete(n) /\ Step(p, "earlier_log")
    BY <1>12, Zenon DEF DeleteEarlier
  <2>2. existing'[p] \subseteq existing[p]
    BY <1>s, <2>1, EntriesShrink, Zenon
  <2>3. \A w \in stored' : w \in stored \/ w \in existing[p]
    BY <2>1 DEF StorePut, StoreDelete
  <2> QED BY <2>2, <2>3
<1> QED BY <1>1, <1>2, <1>4, <1>5, <1>6, <1>7, <1>8, <1>9, <1>10, <1>11, <1>12 DEF Work
-----------------------------------------------------------------------------
(* Steps that do not touch the store                                       *)

\* A step that leaves the store alone and fetches nothing keeps RevokeInv.
LEMMA QuietStep ==
    ASSUME NodeInv, NEW r \in Messages, Lasting(r), RevokeInv(r), NEW p \in Handlers,
           OthersStay(p), UNCHANGED store, revoked' = revoked, concurrent' = concurrent,
           \A q \in Handlers \ {p} : victims'[q] = victims[q],
           existing'[p] \subseteq existing[p], revoking'[p] = NoMessage,
           \/ pc'[p] = "idle" /\ req'[p] = NoMessage
           \/ /\ req'[p] = req[p]
              /\ pc'[p] = pc[p] \/ (pc[p] = "parent" /\ pc'[p] = "fetch"),
           Looked(r, p)'
    PROVE  RevokeInv(r)'
<1>1. stored' = stored /\ ActiveWrites' = ActiveWrites /\ r # NoMessage
  BY SameFrame, ConstantsAssumption DEF store
<1>2. \A m : Left(r, m)' = Left(r, m)
  BY DEF Left, Meets, Outlives
<1>3. PutStored(r)'
  <2>1. \A q \in Handlers \ {p} :
           pc'[q] = pc[q] /\ req'[q] = req[q] /\ existing'[q] = existing[q] /\ revoking'[q] = revoking[q]
    BY DEF OthersStay
  <2> QED BY <1>1, <2>1 DEF RevokeInv, PutStored, Unstored
<1>4. NoneLeft(r)'
  <2>1. Takes(r)' => Takes(r)
    BY <1>1 DEF Takes, Fetched, OthersStay
  <2> QED BY <1>1, <1>2, <2>1 DEF RevokeInv, NoneLeft
<1>5. CleanUp(r)'
  BY <1>1, <1>2 DEF RevokeInv, CleanUp, OthersStay
<1>6. ASSUME NEW q \in Handlers \ {p} PROVE Looked(r, q)' /\ NoneFetched(r, q)'
  BY <1>1, <1>2 DEF RevokeInv, Looked, NoneFetched, OthersStay
<1>7. NoneFetched(r, p)'
  BY <1>1, <1>2 DEF RevokeInv, NoneFetched
<1> QED BY <1>3, <1>4, <1>5, <1>6, <1>7 DEF RevokeInv

\* The check of the revocations finds r, if it is active.
LEMMA LookedOwn ==
    ASSUME NodeInv, NEW r \in Messages, Lasting(r), NEW p \in Handlers, Looked(r, p),
           \/ Authorize(p) \/ VerifyRecord(p) \/ VerifyRoleRecord(p) \/ VerifyRevocation(p)
    PROVE  Looked(r, p)'
<1> SUFFICES ASSUME r \in ActiveWrites', NEW m \in Messages, m = req'[p], m.kind = "write",
                    pc'[p] \in Unstored, ~ByOwner(m), m.grant = {r.parent},
                    gate'[p] \notin {"grant", "current"}
             PROVE  m.ts <= r.ts \/ {r, m} \in concurrent'
  BY DEF Looked
<1>1. HandlersOK
  BY DEF NodeInv
<1>2. ~Refuse(p)
  BY <1>1, EndMoves DEF HandlersOK, Unstored
<1>3. /\ req' = req /\ pc' = pc /\ ActiveWrites' = ActiveWrites /\ concurrent' = concurrent
      /\ gate[p] \notin {"grant", "current"} \/ CheckCurrent(p)
  <2>1. Checks(p)
    BY ChecksOf
  <2>2. PICK g : Passes(p, g) /\ (gate[p] = "grant" => g = "current")
    BY <1>2, <2>1 DEF Checks, Fails
  <2>3. gate[p] # "grant"
    BY <1>1, <2>2 DEF Passes, Gate, HandlersOK, GateType
  <2>4. gate[p] = "current" => CheckCurrent(p)
    BY <2>3, Zenon DEF Authorize, CheckGrant, CheckRole, CheckRoleHolder, FetchRules,
               FetchAncestor, CheckAction, VerifyRecord, VerifyRoleRecord, VerifyRevocation
  <2> QED BY <2>2, <2>3, <2>4, SameFrame DEF Passes, vars, store
<1>4. CASE gate[p] \notin {"grant", "current"}
  BY <1>3, <1>4 DEF Looked
<1>5. CASE CheckCurrent(p)
  <2>1. \A id \in m.grant : \A x \in Revocations(id) : m.ts <= x.ts
    BY <1>2, <1>3, <1>5, Zenon DEF CheckCurrent, Check
  <2>2. r \in Revocations(r.parent)
    BY <1>3 DEF Revocations, Lasting, IsRevocation
  <2> QED BY <2>1, <2>2
<1> QED BY <1>3, <1>4, <1>5
\* The checks, and dropping a request or task, keep RevokeInv.
LEMMA ChecksRevoke ==
    ASSUME NodeInv, TypeOK', NEW r \in Messages, Lasting(r), RevokeInv(r), NEW p \in Handlers,
           \/ Authorize(p) \/ Verify(p)
           \/ DropRequest(p) \/ DropTask(p)
    PROVE  RevokeInv(r)' /\ \A q \in Handlers : victims'[q] \subseteq victims[q]
<1>0. HandlersOK
  BY DEF NodeInv
<1>1. Summary(p)
  BY <1>0, StepSummary DEF HandleRequest
<1>2. OthersStay(p) /\ concurrent' = concurrent
  BY <1>1 DEF Summary
<1>3. ASSUME Authorize(p) \/ VerifyRecord(p) \/ VerifyRoleRecord(p) \/ VerifyRevocation(p)
      PROVE  RevokeInv(r)' /\ victims' = victims
  <2>1. Checks(p) /\ Looked(r, p)'
    BY <1>3, ChecksOf, LookedOwn, Zenon DEF RevokeInv
  <2>2. revoking[p] = NoMessage
    BY <1>0, <2>1, GatedRequest, Zenon DEF Checks, RevokeGates
  <2>3. UNCHANGED cleanup
    BY <2>1 DEF Checks, Passes, Fails
  <2>4. CASE Fails(p)
    <3>1. pc'[p] = "idle" /\ existing'[p] = {} /\ UNCHANGED store
      BY <1>0, <2>4, EndMoves DEF Fails, HandlersOK
    <3>2. req'[p] = NoMessage
      BY <3>1 DEF TypeOK
    <3> QED BY <1>2, <2>1, <2>2, <2>3, <3>1, <3>2, QuietStep, Zenon DEF cleanup
  <2>5. CASE UNCHANGED vars
    BY <1>2, <2>1, <2>2, <2>3, <2>5, QuietStep DEF cleanup, vars, store
  <2> QED BY <2>1, <2>4, <2>5 DEF Checks, Passes
<1>4. ASSUME VerifyPath(p)
      PROVE  RevokeInv(r)' /\ victims' = victims
  <2>1. gate[p] = "parent" /\ pc[p] = "parent" /\ revoking[p] = NoMessage
    BY <1>0, <1>4, GatedRequest, Zenon DEF VerifyPath, HandlersOK, GateInv, RevokeGates
  <2>2. UNCHANGED cleanup /\ UNCHANGED store
    BY <1>4 DEF VerifyPath, VerifyParent, Refuse, store
  <2>3. \/ pc'[p] = "idle" /\ existing'[p] = {}
        \/ pc'[p] = "fetch" /\ req'[p] = req[p] /\ existing'[p] = existing[p]
    BY <1>0, <1>4, AnswerMoves, StepMoves DEF VerifyPath, VerifyParent, Refuse, HandlersOK
  <2>4. pc'[p] = "idle" => req'[p] = NoMessage
    BY Zenon DEF TypeOK
  <2>5. Looked(r, p)'
    <3> SUFFICES ASSUME r \in ActiveWrites', NEW m \in Messages, m = req'[p], m.kind = "write",
                        pc'[p] \in Unstored, ~ByOwner(m), m.grant = {r.parent}
                 PROVE  m.ts <= r.ts \/ {r, m} \in concurrent'
      BY DEF Looked
    <3>1. m = req[p] /\ r \in ActiveWrites
      BY <2>2, <2>3, SameFrame, Zenon DEF Unstored
    <3> QED BY <1>2, <2>1, <3>1, Zenon DEF RevokeInv, Looked, Unstored
  <2> QED BY <1>2, <2>1, <2>2, <2>3, <2>4, <2>5, QuietStep DEF cleanup
<1>5. ASSUME DropRequest(p) \/ DropTask(p)
      PROVE  RevokeInv(r)' /\ \A q \in Handlers : victims'[q] \subseteq victims[q]
  <2>1. pc'[p] = "idle" /\ existing'[p] = {} /\ UNCHANGED store
    <3>1. CASE DropRequest(p) /\ pc[p] = "idle"
      BY <1>0, <3>1, Zenon DEF DropRequest, vars, store, HandlersOK, OwnEntries
    <3> QED BY <1>0, <1>5, <3>1, EndMoves, Zenon DEF DropRequest, DropTask, HandlersOK
  <2>2. req'[p] = NoMessage
    BY <2>1 DEF TypeOK
  <2>3. Looked(r, p)'
    BY <2>1 DEF Looked, Unstored
  <2>4. revoked' = revoked /\ revoking'[p] = NoMessage
        /\ (\A q \in Handlers \ {p} : victims'[q] = victims[q]) /\ victims'[p] \subseteq victims[p]
    <3>1. CASE DropRequest(p)
      BY <1>0, <3>1 DEF DropRequest, RevokeDone, HandlersOK, GateType
    <3>2. CASE DropTask(p)
      BY <1>0, <3>2, GatedRequest, Zenon DEF DropTask, cleanup, RevokeGates
    <3> QED BY <1>5, <3>1, <3>2, Zenon
  <2> QED BY <1>2, <2>1, <2>2, <2>3, <2>4, QuietStep, Zenon
<1> QED BY <1>3, <1>4, <1>5 DEF Verify

\* A new request keeps RevokeInv.
LEMMA ReceiveRevoke ==
    ASSUME NodeInv, TypeOK', NEW r \in Messages, Lasting(r), RevokeInv(r), NEW p \in Handlers,
           NEW m \in Messages, NEW s, Receive(p, m, s)
    PROVE  RevokeInv(r)' /\ victims' = victims
<1>0. HandlersOK
  BY DEF NodeInv
<1>1. /\ OnlyMoves(p) /\ req'[p] = m /\ existing' = existing /\ UNCHANGED store
      /\ pc[p] = "idle" /\ pc'[p] = IF m.kind = "delete" THEN "active" ELSE Before(m)
  BY <1>0, StartMoves DEF Receive, HandlersOK
<1>2. /\ gate[p] = "none" /\ Gate(p, FirstGate(m)) /\ UNCHANGED <<revoking, victims, revoked>>
      /\ concurrent \subseteq concurrent'
  BY DEF Receive, cleanup
<1>3. stored' = stored /\ ActiveWrites' = ActiveWrites /\ revoking[p] = NoMessage /\ existing[p] = {}
      /\ r # NoMessage /\ gate'[p] = FirstGate(m)
  BY <1>0, <1>1, <1>2, SameFrame, ConstantsAssumption
     DEF store, HandlersOK, GateOf, RevokeGates, OwnEntries, Gate, GateType
<1>4. ASSUME NEW q \in Handlers \ {p}
      PROVE  pc'[q] = pc[q] /\ req'[q] = req[q] /\ gate'[q] = gate[q]
  BY <1>0, <1>1, <1>2 DEF OnlyMoves, Gate, HandlersOK, GateType
<1>5. \A n : ~Left(r, n) => ~Left(r, n)'
  BY <1>2, LeftShrinks
<1>6. PutStored(r)'
  <2>1. r.kind = "write"
    BY LastingFacts
  <2> QED BY <1>1, <1>2, <1>3, <1>4, <2>1, Zenon DEF RevokeInv, PutStored, Before, Unstored
<1>7. NoneLeft(r)'
  <2>1. Takes(r)' => Takes(r)
    BY <1>1, <1>3, <1>4 DEF Takes, Fetched, Before
  <2> QED BY <1>2, <1>3, <1>5, <2>1, ZenonT(30) DEF RevokeInv, NoneLeft
<1>8. CleanUp(r)'
  BY <1>2, <1>3, <1>4, <1>5, Zenon DEF RevokeInv, CleanUp
<1>9. ASSUME NEW q \in Handlers \ {p} PROVE Looked(r, q)'
  BY <1>2, <1>3, <1>4, Zenon DEF RevokeInv, Looked
<1>10. Looked(r, p)'
  BY <1>1, <1>3, Zenon DEF Looked, FirstGate, ByProtocol
<1>11. ASSUME NEW q \in Handlers PROVE NoneFetched(r, q)'
  BY <1>1, <1>2, <1>3, <1>5, Zenon DEF RevokeInv, NoneFetched
<1> QED BY <1>2, <1>6, <1>7, <1>8, <1>9, <1>10, <1>11 DEF RevokeInv
-----------------------------------------------------------------------------
(* The clean-up                                                            *)

\* The clean-up, of this revocation or another, keeps RevokeInv.
LEMMA RevokeStep ==
    ASSUME NodeInv, VictimsGranted, NEW r \in Messages, Lasting(r), RevokeInv(r),
           NEW p \in Handlers, RevokeGrants(p)
    PROVE  RevokeInv(r)'
<1>0. HandlersOK
  BY DEF NodeInv
<1>1. Summary(p)
  BY <1>0, StepSummary DEF HandleRequest
<1>2. gate[p] \in RevokeGates /\ pc' = pc /\ req' = req /\ existing' = existing
      /\ concurrent' = concurrent
  BY Zenon DEF RevokeGrants, RevokeFetch, RevokeQuery, RevokeDelete, RevokeUnlog, RevokeGates, vars,
         local, fetched
<1>3. pc[p] = "idle" /\ req[p] = NoMessage /\ existing[p] = {} /\ InProgress(p)
      /\ r # NoMessage /\ Busy(p) = revoking[p]
  BY <1>0, <1>2, ConstantsAssumption DEF HandlersOK, GateOf, OwnEntries, TypeOK, InProgress, Busy,
     RevokeGates
<1>4. \A q \in Handlers \ {p} : gate'[q] = gate[q] /\ revoking'[q] = revoking[q]
  BY <1>1, Zenon DEF Summary, OthersStay
<1>5. \A q \in Handlers \ {p} : victims'[q] = victims[q]
  BY <1>0 DEF RevokeGrants, RevokeFetch, RevokeQuery, RevokeDelete, RevokeUnlog, RevokeRest,
              RevokeDone, cleanup, HandlersOK, GateType
<1>6. stored' \subseteq stored /\ (r \in stored' <=> r \in stored)
      /\ (r \in ActiveWrites' <=> r \in ActiveWrites)
  <2>1. CASE UNCHANGED store
    BY <2>1, SameFrame DEF store
  <2>2. ASSUME NEW n \in victims[p], StoreDelete(n)
        PROVE  stored' \subseteq stored /\ (r \in stored' <=> r \in stored)
               /\ (r \in ActiveWrites' <=> r \in ActiveWrites)
    <3>1. n # r
      BY LastingFacts DEF VictimsGranted
    <3> QED BY <2>2, <3>1, Zenon DEF StoreDelete, ActiveWrites
  <2> QED BY <2>1, <2>2, Zenon
          DEF RevokeGrants, RevokeFetch, RevokeQuery, RevokeDelete, RevokeUnlog, vars, store
<1>7. \A m : Left(r, m)' = Left(r, m)
  BY <1>2 DEF Left, Meets, Outlives
<1>8. \/ revoked' = revoked
      \/ /\ revoked' = revoked \cup {revoking[p]}
         /\ revoking[p] = r => \A m \in stored' : ~Left(r, m)
  <2>1. CASE RevokeFetch(p)
    BY <2>1 DEF RevokeFetch, RevokeDone, cleanup
  <2>2. CASE RevokeQuery(p)
    <3> DEFINE S == {n \in stored : n.kind = "write" /\ RevokedBy(revoking[p].parent, revoking[p].ts, n)}
    <3>1. RevokeRest(p, S) /\ stored' = stored
      BY <2>2 DEF RevokeQuery, vars
    <3>2. ASSUME revoking[p] = r, NEW m \in stored, Left(r, m) PROVE m \in S
      <4>1. m.created \in Nat /\ r.ts \in Nat
        BY <1>0, NodeAssumption, MessagesAssumption DEF HandlersOK, TypeOK, IsMessage
      <4> QED BY <3>2, <4>1 DEF Left, Outlives, RevokedBy
    <3> HIDE DEF S
    <3> QED BY <3>1, <3>2 DEF RevokeRest, RevokeDone
  <2>3. CASE RevokeDelete(p)
    BY <2>3, Zenon DEF RevokeDelete, cleanup
  <2>4. CASE RevokeUnlog(p)
    <3>1. PICK n \in victims[p] : IsEarliest(n, victims[p]) /\ RevokeRest(p, victims[p] \ {n})
      BY <2>4 DEF RevokeUnlog
    <3>2. stored' = stored /\ gate[p] = "revoke_log"
      BY <2>4 DEF RevokeUnlog, store
    <3>3. CASE victims[p] \ {n} = {}
      <4>1. ASSUME revoking[p] = r, NEW m \in stored, Left(r, m) PROVE FALSE
        BY <3>1, <3>2, <3>3, <4>1, Zenon DEF RevokeInv, CleanUp
      <4> QED BY <3>1, <3>2, <3>3, <4>1 DEF RevokeRest, RevokeDone
    <3>4. CASE victims[p] \ {n} # {}
      BY <3>1, <3>4, Zenon DEF RevokeRest
    <3> QED BY <3>3, <3>4
  <2> QED BY <2>1, <2>2, <2>3, <2>4 DEF RevokeGrants
<1>9. PutStored(r)'
  <2>1. revoking'[p] \in {revoking[p], NoMessage}
    BY <1>0 DEF RevokeGrants, RevokeFetch, RevokeQuery, RevokeDelete, RevokeUnlog, RevokeRest,
                RevokeDone, cleanup, HandlersOK, GateType
  <2> QED BY <1>2, <1>3, <1>4, <1>6, <1>8, <2>1, ZenonT(30) DEF RevokeInv, PutStored
<1>10. NoneLeft(r)'
  <2>1. Takes(r)' <=> Takes(r)
    BY <1>2, <1>6, Zenon DEF Takes
  <2> QED BY <1>6, <1>7, <1>8, <2>1, Zenon DEF RevokeInv, NoneLeft
<1>11. CleanUp(r)'
  <2>1. ASSUME NEW q \in Handlers \ {p}, revoking'[q] = r, gate'[q] \in {"revoke_delete", "revoke_log"},
               NEW m \in stored', Left(r, m)'
        PROVE  m \in victims'[q] /\ (gate'[q] = "revoke_log" => ~IsEarliest(m, victims'[q]))
    BY <1>4, <1>5, <1>6, <1>7, <2>1, Zenon DEF RevokeInv, CleanUp
  <2>2. ASSUME revoking'[p] = r, gate'[p] \in {"revoke_delete", "revoke_log"},
               NEW m \in stored', Left(r, m)'
        PROVE  m \in victims'[p] /\ (gate'[p] = "revoke_log" => ~IsEarliest(m, victims'[p]))
    <3>0. Left(r, m) /\ m \in stored
      BY <1>6, <1>7, <2>2, Zenon
    <3>1. CASE RevokeFetch(p)
      BY <1>0, <2>2, <3>1 DEF RevokeFetch, RevokeDone, Gate, HandlersOK, GateType
    <3>2. CASE RevokeQuery(p)
      <4> DEFINE S == {n \in stored : n.kind = "write" /\ RevokedBy(revoking[p].parent, revoking[p].ts, n)}
      <4>1. RevokeRest(p, S)
        BY <3>2 DEF RevokeQuery
      <4> HIDE DEF S
      <4>2. gate'[p] = "revoke_delete" /\ victims'[p] = S /\ revoking' = revoking
        BY <1>0, <2>2, <4>1 DEF RevokeRest, RevokeDone, Gate, HandlersOK, GateType
      <4>3. m.created \in Nat /\ r.ts \in Nat
        BY <1>0, <3>0, NodeAssumption, MessagesAssumption DEF HandlersOK, TypeOK, IsMessage
      <4>4. m \in S
        <5>1. m.kind = "write" /\ m.grant = {r.parent} /\ m.created > r.ts
          BY <3>0, Zenon DEF Left, Outlives
        <5>2. m.created >= r.ts
          BY <4>3, <5>1, LaterIsNoEarlier, Zenon
        <5>3. revoking[p] = r
          BY <2>2, <4>2
        <5> QED BY <3>0, <5>1, <5>2, <5>3, Zenon DEF RevokedBy, S
      <4> QED BY <4>2, <4>4
    <3>3. CASE RevokeDelete(p)
      <4>1. PICK n \in victims[p] : IsEarliest(n, victims[p]) /\ StoreDelete(n)
        BY <3>3, Zenon DEF RevokeDelete
      <4>2. gate[p] = "revoke_delete" /\ victims' = victims /\ revoking' = revoking
        BY <3>3, Zenon DEF RevokeDelete, cleanup
      <4>3. m \in victims[p]
        BY <2>2, <3>0, <4>2, Zenon DEF RevokeInv, CleanUp
      <4>4. m # n
        BY <2>2, <4>1, Zenon DEF StoreDelete
      <4>5. victims[p] \in SUBSET Messages
        BY <1>0 DEF HandlersOK, GateType
      <4>6. ~IsEarliest(m, victims[p])
        BY <4>1, <4>4, <4>5, EarliestUnique, Zenon
      <4> QED BY <4>2, <4>3, <4>6
    <3>4. CASE RevokeUnlog(p)
      <4>1. PICK n \in victims[p] : IsEarliest(n, victims[p]) /\ RevokeRest(p, victims[p] \ {n})
        BY <3>4 DEF RevokeUnlog
      <4>2. gate[p] = "revoke_log"
        BY <3>4 DEF RevokeUnlog
      <4>3. gate'[p] = "revoke_delete" /\ victims'[p] = victims[p] \ {n} /\ revoking' = revoking
        BY <1>0, <2>2, <4>1 DEF RevokeRest, RevokeDone, Gate, HandlersOK, GateType
      <4>4. m \in victims[p] /\ m # n
        BY <2>2, <3>0, <4>1, <4>2, <4>3, Zenon DEF RevokeInv, CleanUp
      <4> QED BY <4>3, <4>4
    <3> QED BY <3>1, <3>2, <3>3, <3>4, Zenon DEF RevokeGrants
  <2> QED BY <2>1, <2>2, Zenon DEF CleanUp
<1>12. ASSUME NEW q \in Handlers PROVE Looked(r, q)'
  <2>1. CASE q = p
    BY <1>2, <1>3, <2>1, ZenonT(30) DEF Looked, Unstored
  <2>2. CASE q # p
    BY <1>2, <1>4, <1>6, <2>2 DEF RevokeInv, Looked
  <2> QED BY <2>1, <2>2
<1>13. ASSUME NEW q \in Handlers PROVE NoneFetched(r, q)'
  <2>1. CASE r \notin revoked /\ revoking[p] = r /\ q # p
    <3>1. ASSUME NEW m \in existing[q] PROVE ~Left(r, m)
      <4>1. pc[q] # "idle" /\ m.record = req[q].record /\ req[q] \in Messages
        BY <1>0, <3>1 DEF HandlersOK, OwnEntries, TypeOK
      <4>2. InProgress(q) /\ Busy(q) = req[q]
        BY <4>1, Zenon DEF InProgress, Busy
      <4> QED BY <1>3, <2>1, <4>1, <4>2, BusyMeets
    <3> QED BY <1>2, <1>7, <3>1 DEF NoneFetched
  <2>2. CASE q = p
    BY <1>2, <1>3, <2>2 DEF NoneFetched
  <2>3. CASE r \in revoked' => r \in revoked
    BY <1>2, <1>6, <1>7, <2>3, Zenon DEF RevokeInv, NoneFetched
  <2> QED BY <1>8, <2>1, <2>2, <2>3, Zenon
<1> QED BY <1>9, <1>10, <1>11, <1>12, <1>13 DEF RevokeInv
-----------------------------------------------------------------------------
(* The handler goes on                                                     *)

\* Which step is taken, up to the point where the message has been announced.
LEMMA WorkAt ==
    ASSUME NEW p, Work(p)
    PROVE  /\ pc[p] = "fetch" => FetchExisting(p)
           /\ pc[p] \in {"data_put", "data_get"} => UpdateData(p) \/ CloneData(p)
           /\ pc[p] = "put" => PutMessage(p)
           /\ pc[p] \in {"log", "emit"} => LogEvent(p) \/ EmitEvent(p)
BY Zenon DEF Work, VerifyParent, FetchExisting, UpdateData, CloneData, PutMessage, LogEvent, EmitEvent,
       ArchiveInitial, LogInitial, DeleteInitialData, DeletePrevious, DeletePreviousData,
       UnlogPrevious, FetchActive, FetchEntries, DeleteChildren, DeleteEarlierData,
       DeleteEarlier, UnlogEarlier

\* The handler of r itself.
LEMMA ContinueOwn ==
    ASSUME NodeInv, NEW r \in Messages, Lasting(r), RevokeInv(r), NEW p \in Handlers,
           Continue(p), req[p] = r
    PROVE  /\ existing'[p] = {}
           /\ req'[p] = r => /\ pc'[p] \in Unstored \cup {"log", "emit"}
                             /\ pc'[p] \in {"log", "emit"} => r \in stored'
           /\ revoking'[p] = r => r \in stored'
           /\ pc'[p] \in Fetched => pc[p] \in Fetched \/ r \notin stored
           /\ stored \subseteq stored' /\ \A m \in stored' : m \in stored \/ m = r
           /\ r \in ActiveWrites' => r \in ActiveWrites \/ pc[p] = "put"
           /\ pc'[p] \in Unstored => (r \in ActiveWrites' => r \in ActiveWrites)
<1>0. HandlersOK /\ TypeOK /\ gate[p] = "open" /\ pc[p] # "parent" /\ pc[p] # "idle"
  BY ConstantsAssumption DEF NodeInv, HandlersOK, Continue, GateInv, TypeOK
<1>1. existing[p] = {} /\ pc[p] \in {"fetch", "data_put", "data_get", "put", "log", "emit"}
      /\ (pc[p] \in {"log", "emit"} => r \in stored)
  BY <1>0, Zenon DEF RevokeInv, PutStored, Unstored
<1>2. r.kind = "write" /\ r \in Messages /\ r # NoMessage /\ revoking[p] = NoMessage
  BY <1>0, LastingFacts, ConstantsAssumption, GatedRequest, ZenonT(30) DEF RevokeGates
<1>3. ~r.prune
  BY <1>2, MessagesAssumption, ZenonT(30)
<1>4. Work(p)
  BY Zenon DEF Continue
<1>5. revoking'[p] = r => reply' \in {"accepted", "no_content"}
  BY <1>0, <1>2 DEF Continue, Returns, HandlersOK, GateType
<1>6. CASE pc[p] = "fetch"
  <2>1. FetchExisting(p)
    BY <1>4, <1>6, WorkAt, Zenon
  <2>2. UNCHANGED store
    BY <2>1, Zenon DEF FetchExisting, store
  <2>3. CASE Answer(p, "error")
    <3>1. pc'[p] = "idle" /\ existing'[p] = {} /\ reply' = "error" /\ req'[p] = NoMessage
      BY <1>0, <2>3, AnswerMoves, Zenon DEF Answer, TypeOK
    <3> QED BY <1>2, <1>5, <2>2, <3>1, SameFrame, Zenon DEF store, Fetched, Unstored
  <2>4. CASE ~Answer(p, "error")
    <3>1. /\ Admissible(r, ExistingEntries(r.record))
          /\ existing'[p] = ExistingEntries(r.record)
          /\ pc'[p] = DataSource(r, stream[p], ExistingEntries(r.record))
          /\ DataSource(r, stream[p], ExistingEntries(r.record)) # "error" /\ reply' = "none"
      BY <1>0, <2>1, <2>4 DEF FetchExisting, Goto, TypeOK
    <3>2. ExistingEntries(r.record) \subseteq {r}
      BY <1>0, LastingFacts, ZenonT(30) DEF ExistingEntries, TypeOK
    <3>3. ~Precedes(r, r)
      BY OrderFacts
    <3>4. ExistingEntries(r.record) = {}
      BY <3>1, <3>2, <3>3, Zenon DEF Admissible
    <3>5. r \notin stored
      BY <3>4 DEF ExistingEntries
    <3>6. pc'[p] \in Fetched
      BY <3>1, Zenon DEF DataSource, Fetched
    <3> QED BY <1>5, <2>2, <3>1, <3>4, <3>5, <3>6, SameFrame, Zenon DEF store, Fetched, Unstored
  <2> QED BY <2>3, <2>4, ZenonT(30)
<1>7. CASE pc[p] \in {"data_put", "data_get"}
  <2>1. UpdateData(p) \/ CloneData(p)
    BY <1>4, <1>7, WorkAt, Zenon
  <2>2. UNCHANGED store /\ (Step(p, "put") \/ Answer(p, "error"))
    BY <2>1, Zenon DEF UpdateData, CloneData, store
  <2>3. CASE Step(p, "put")
    <3>1. pc'[p] = "put" /\ existing'[p] = {} /\ reply' = "none"
      BY <1>0, <1>1, <2>3, StepMoves, Zenon DEF Step
    <3> QED BY <1>5, <1>7, <2>2, <3>1, SameFrame, Zenon DEF store, Fetched, Unstored
  <2>4. CASE Answer(p, "error")
    <3>1. pc'[p] = "idle" /\ existing'[p] = {} /\ reply' = "error" /\ req'[p] = NoMessage
      BY <1>0, <2>4, AnswerMoves, Zenon DEF Answer, TypeOK
    <3> QED BY <1>2, <1>5, <2>2, <3>1, SameFrame, Zenon DEF store, Fetched, Unstored
  <2> QED BY <2>2, <2>3, <2>4, Zenon
<1>8. CASE pc[p] = "put"
  <2>1. PutMessage(p)
    BY <1>4, <1>8, WorkAt, Zenon
  <2>2. pc'[p] = "log" /\ existing' = existing /\ stored' = stored \cup {r}
    BY <1>0, <2>1, StepMoves DEF PutMessage, StorePut
  <2> QED BY <1>1, <1>8, <2>2, Zenon DEF Fetched, Unstored
<1>9. CASE pc[p] \in {"log", "emit"}
  <2>1. LogEvent(p) \/ EmitEvent(p)
    BY <1>4, <1>9, WorkAt, Zenon
  <2>2. UNCHANGED store
    BY <2>1 DEF LogEvent, EmitEvent, store
  <2>3. CASE LogEvent(p)
    <3>1. pc'[p] = "emit" /\ existing' = existing
      BY <1>0, <2>3, StepMoves, Zenon DEF LogEvent
    <3> QED BY <1>1, <1>9, <2>2, <3>1, SameFrame, Zenon DEF store, Fetched, Unstored
  <2>4. CASE EmitEvent(p)
    <3>1. Proceed(p, existing[p], "archive", WriteReply(p))
      BY <1>2, <1>3, <2>4, Zenon DEF EmitEvent
    <3>2. pc'[p] = "idle" /\ existing'[p] = {} /\ req'[p] = NoMessage
      <4>1. Answer(p, WriteReply(p))
        BY <1>1, <3>1 DEF Proceed
      <4> QED BY <1>0, <4>1, AnswerMoves, Zenon DEF Answer, TypeOK
    <3> QED BY <1>1, <1>2, <1>9, <2>2, <3>2, SameFrame, Zenon DEF store, Fetched, Unstored
  <2> QED BY <2>1, <2>3, <2>4, Zenon
<1> QED BY <1>1, <1>6, <1>7, <1>8, <1>9, ZenonT(30)
\* A write that has not been stored has not been stored before.
LEMMA UnstoredBefore ==
    ASSUME TypeOK, NEW p \in Handlers, NEW m, m = req[p], m.kind = "write", Work(p),
           pc'[p] \in Unstored
    PROVE  pc[p] \in Unstored
<1>1. pc[p] \notin DeleteSteps
  BY Zenon DEF TypeOK
<1> QED BY <1>1, Zenon DEF Work, VerifyParent, FetchExisting, UpdateData,
         CloneData, PutMessage, LogEvent, EmitEvent, ArchiveInitial, LogInitial,
         DeleteInitialData, DeletePrevious, DeletePreviousData, UnlogPrevious, FetchActive,
         FetchEntries, DeleteChildren, DeleteEarlierData, DeleteEarlier, UnlogEarlier,
         Answer, Step, Proceed, Goto, TypeOK, DeleteSteps, Unstored

\* The steps after the checks keep RevokeInv.
LEMMA ContinueRevoke ==
    ASSUME NodeInv, NEW r \in Messages, Lasting(r), RevokeInv(r), NEW p \in Handlers, Continue(p)
    PROVE  RevokeInv(r)'
<1>0. HandlersOK /\ TypeOK
  BY DEF NodeInv, HandlersOK
<1>1. Summary(p)
  BY <1>0, StepSummary DEF HandleRequest
<1>2. PICK m \in Messages : m = req[p] /\ InProgress(p) /\ Busy(p) = m /\ pc[p] # "idle"
                            /\ revoking[p] = NoMessage
  BY <1>0, GatedRequest, Zenon DEF Continue, RevokeGates
<1>3. Frame(p, m)
  BY <1>0, <1>2, WorkFrame DEF Continue, HandlersOK
<1>4. /\ \A n \in stored' : n \in stored \/ n \in existing[p] \/ (pc[p] = "put" /\ n = m)
      /\ existing'[p] \subseteq existing[p] \cup stored
  BY <1>0, <1>2, WorkAdds, Zenon DEF Continue
<1>5. revoked' = revoked /\ victims' = victims /\ concurrent' = concurrent /\ r # NoMessage
  BY ConstantsAssumption, Zenon DEF Continue
<1>6. \A n : Left(r, n)' = Left(r, n)
  BY <1>5, Zenon DEF Left, Meets, Outlives
<1>7. ASSUME NEW q \in Handlers \ {p}
      PROVE  /\ pc'[q] = pc[q] /\ req'[q] = req[q] /\ existing'[q] = existing[q]
             /\ gate'[q] = gate[q] /\ revoking'[q] = revoking[q]
  BY <1>1, Zenon DEF Summary, OthersStay
<1>8. gate[p] = "open" /\ gate'[p] \notin {"revoke_delete", "revoke_log"}
      /\ (pc'[p] \in Unstored => gate'[p] = "open" /\ req'[p] = m)
  <2>1. gate[p] = "open" /\ (pc'[p] # "idle" => req' = req)
    BY <1>3 DEF Continue, Frame
  <2>2. \/ gate'[p] \in {"none", "revoke"} /\ pc'[p] = "idle"
        \/ pc'[p] = "task" /\ gate'[p] \in {"role", "rules"}
        \/ gate'[p] = gate[p]
    BY <1>0 DEF Continue, Returns, ByProtocol, Gate, HandlersOK, GateType
  <2> QED BY <1>2, <2>1, <2>2, ZenonT(30) DEF Unstored
<1>9. \A n \in existing[p] : n.record = m.record
  BY <1>0, <1>2 DEF HandlersOK, OwnEntries
\* A handler that is busy with r, beside p.
<1>10. ASSUME NEW q \in Handlers \ {p}, InProgress(q), Busy(q) = r, NEW n, n.record = m.record
       PROVE  ~Left(r, n)
  BY <1>2, <1>10, BusyMeets, Zenon
<1>11. ASSUME NEW q \in Handlers \ {p}, m = r, NEW n \in existing[q] PROVE ~Left(r, n)
  <2>1. pc[q] # "idle" /\ n.record = req[q].record /\ req[q] \in Messages
    BY <1>0, <1>11 DEF HandlersOK, OwnEntries, TypeOK
  <2>2. InProgress(q) /\ Busy(q) = req[q]
    BY <2>1, Zenon DEF InProgress, Busy
  <2> QED BY <1>2, <1>11, <2>1, <2>2, BusyMeets, ZenonT(30)
<1>12. CASE m = r
  <2>1. /\ existing'[p] = {}
        /\ req'[p] = r => /\ pc'[p] \in Unstored \cup {"log", "emit"}
                          /\ pc'[p] \in {"log", "emit"} => r \in stored'
        /\ revoking'[p] = r => r \in stored'
        /\ pc'[p] \in Fetched => pc[p] \in Fetched \/ r \notin stored
        /\ stored \subseteq stored' /\ \A n \in stored' : n \in stored \/ n = r
        /\ r \in ActiveWrites' => r \in ActiveWrites \/ pc[p] = "put"
        /\ pc'[p] \in Unstored => (r \in ActiveWrites' => r \in ActiveWrites)
    BY <1>2, <1>12, ContinueOwn, Zenon
  <2>2. PutStored(r)'
    BY <1>5, <1>7, <2>1, ZenonT(30) DEF RevokeInv, PutStored
  <2>3. ~Left(r, r)
    BY LastingFacts, Zenon DEF Left
  <2>4. NoneLeft(r)'
    <3> SUFFICES ASSUME r \in revoked, Takes(r)' PROVE \A n \in stored' : ~Left(r, n)
      BY <1>5, <1>6 DEF NoneLeft
    <3>1. r \in stored
      BY Zenon DEF RevokeInv, PutStored
    <3>2. Takes(r)
      <4>1. CASE r \in ActiveWrites'
        BY <1>2, <1>12, <2>1, <4>1, Zenon DEF Takes, Fetched
      <4>2. ASSUME NEW q \in Handlers, req'[q] = r, pc'[q] \in Fetched PROVE Takes(r)
        BY <1>2, <1>7, <1>12, <2>1, <3>1, <4>2, Zenon DEF Takes
      <4> QED BY <4>1, <4>2 DEF Takes
    <3> QED BY <2>1, <2>3, <3>2, Zenon DEF RevokeInv, NoneLeft
  <2>5. CleanUp(r)'
    BY <1>5, <1>6, <1>7, <1>8, <2>1, <2>3, Zenon DEF RevokeInv, CleanUp
  <2>6. ASSUME NEW q \in Handlers \ {p} PROVE Looked(r, q)'
    <3> SUFFICES ASSUME NEW n \in Messages, n = req[q], pc[q] \in Unstored
                 PROVE  {r, n} \in concurrent
      BY <1>5, <1>7 DEF Looked
    <3>1. InProgress(q) /\ Busy(q) = n
      BY DEF InProgress, Busy, Unstored
    <3> QED BY <1>2, <1>12, <3>1, Zenon DEF NodeInv, Overlaps
  <2>7. Looked(r, p)'
    BY <1>8, <1>12, LastingFacts DEF Looked
  <2>8. ASSUME NEW q \in Handlers PROVE NoneFetched(r, q)'
    BY <1>6, <1>7, <1>11, <1>12, <2>1, Zenon DEF NoneFetched
  <2> QED BY <2>2, <2>4, <2>5, <2>6, <2>7, <2>8 DEF RevokeInv
<1>13. CASE m # r
  <2>1. m.record # r.record
    BY <1>13, LastingFacts, Zenon
  <2>2. (r \in stored' <=> r \in stored) /\ (r \in ActiveWrites' <=> r \in ActiveWrites)
    BY <1>3, <2>1, Zenon DEF Frame, Elsewhere, ActiveWrites
  <2>3. req'[p] # r /\ revoking'[p] # r
    <3>1. req'[p] \in {m, NoMessage}
      BY <1>0, <1>2, <1>3, Zenon DEF Frame, Continue, Work, VerifyParent, FetchExisting, UpdateData, CloneData,
         PutMessage, LogEvent, EmitEvent, ArchiveInitial, LogInitial, DeleteInitialData,
         DeletePrevious, DeletePreviousData, UnlogPrevious, FetchActive, FetchEntries,
         DeleteChildren, DeleteEarlierData, DeleteEarlier, UnlogEarlier, Answer, Step, Proceed,
         local, TypeOK
    <3>2. revoking'[p] \in {m, NoMessage}
      BY <1>0, <1>2 DEF Continue, Returns, HandlersOK, GateType
    <3> QED BY <1>5, <1>13, <3>1, <3>2, Zenon
  <2>4. PutStored(r)'
    BY <1>5, <1>7, <2>2, <2>3, Zenon DEF RevokeInv, PutStored
  <2>5. Takes(r)' => Takes(r)
    BY <1>7, <2>2, <2>3, Zenon DEF Takes
  \* The write m itself, if p stores it while r is active.
  <2>6. ASSUME r \in ActiveWrites, pc[p] = "put" PROVE ~Left(r, m)
    <3>1. m.kind = "write" /\ ~ByOwner(m) /\ m.grant = {r.parent} /\ Left(r, m)
            => m.ts <= r.ts \/ {r, m} \in concurrent
      BY <1>2, <1>8, <2>6, Zenon DEF RevokeInv, Looked, Unstored
    <3>2. m.created \in Nat /\ m.created <= m.ts /\ m.ts \in Nat /\ r.ts \in Nat
      BY NodeAssumption, MessagesAssumption, Zenon DEF IsMessage
    <3> SUFFICES ASSUME Left(r, m) PROVE FALSE
      OBVIOUS
    <3>3. m.kind = "write" /\ ~ByOwner(m) /\ m.grant = {r.parent} /\ m.created > r.ts
      BY DEF Left, Outlives
    <3>4. {r, m} \in concurrent
      BY <3>1, <3>2, <3>3
    <3> QED BY <3>4, Zenon DEF Left, Meets
  <2>7. NoneLeft(r)'
    <3> SUFFICES ASSUME r \in revoked, Takes(r), NEW n \in stored' PROVE ~Left(r, n)
      BY <1>5, <1>6, <2>5 DEF NoneLeft
    <3>1. CASE n \in stored
      BY <3>1 DEF RevokeInv, NoneLeft
    <3>2. CASE n \notin stored
      <4>1. n.record = m.record
        BY <1>4, <1>9, <3>2
      <4>2. ASSUME NEW q \in Handlers, req[q] = r, pc[q] \in Fetched PROVE ~Left(r, n)
        <5>1. q # p /\ InProgress(q) /\ Busy(q) = r
          BY <1>2, <1>13, <4>2 DEF InProgress, Busy, Fetched
        <5> QED BY <1>10, <4>1, <5>1
      <4>3. CASE r \in ActiveWrites
        BY <1>4, <2>6, <3>2, <4>3, Zenon DEF RevokeInv, NoneFetched
      <4> QED BY <4>2, <4>3 DEF Takes
    <3> QED BY <3>1, <3>2
  <2>8. CleanUp(r)'
    <3> SUFFICES ASSUME NEW q \in Handlers \ {p}, revoking[q] = r,
                        gate[q] \in {"revoke_delete", "revoke_log"}, NEW n \in stored', Left(r, n)
                 PROVE  n \in victims[q] /\ (gate[q] = "revoke_log" => ~IsEarliest(n, victims[q]))
      BY <1>5, <1>6, <1>7, <1>8, Zenon DEF CleanUp
    <3>1. InProgress(q) /\ Busy(q) = r
      BY <1>0 DEF InProgress, Busy, HandlersOK, GateOf, RevokeGates
    <3>2. n \in stored
      BY <1>4, <1>9, <1>10, <3>1, Zenon
    <3> QED BY <3>2, Zenon DEF RevokeInv, CleanUp
  <2>9. ASSUME NEW q \in Handlers \ {p} PROVE Looked(r, q)' /\ NoneFetched(r, q)'
    BY <1>5, <1>6, <1>7, <2>2, Zenon DEF RevokeInv, Looked, NoneFetched
  <2>10. Looked(r, p)'
    <3> SUFFICES ASSUME r \in ActiveWrites, m.kind = "write", pc'[p] \in Unstored,
                        ~ByOwner(m), m.grant = {r.parent}
                 PROVE  m.ts <= r.ts \/ {r, m} \in concurrent
      BY <1>5, <1>8, <2>2, Zenon DEF Looked
    <3>1. pc[p] \in Unstored
      BY <1>0, <1>2, UnstoredBefore, Zenon DEF Continue
    <3> QED BY <1>2, <1>8, <3>1, Zenon DEF RevokeInv, Looked
  <2>11. NoneFetched(r, p)'
    <3>1. r \in revoked /\ r \in ActiveWrites => \A n \in stored : ~Left(r, n)
      BY DEF RevokeInv, NoneLeft, Takes
    <3> QED BY <1>4, <1>5, <1>6, <2>2, <3>1, ZenonT(30) DEF RevokeInv, NoneFetched
  <2> QED BY <2>4, <2>7, <2>8, <2>9, <2>10, <2>11 DEF RevokeInv
<1> QED BY <1>12, <1>13
-----------------------------------------------------------------------------
(* All steps                                                               *)

\* The clean-up deletes what was written under a grant.
LEMMA VictimsStep ==
    ASSUME NodeInv, VictimsGranted, NEW p \in Handlers, RevokeGrants(p)
    PROVE  VictimsGranted'
<1>1. victims \in [Handlers -> SUBSET Messages]
  BY DEF NodeInv, HandlersOK, GateType
<1>2. CASE RevokeQuery(p)
  <2>1. PICK S : RevokeRest(p, S) /\ \A n \in S : RevokedBy(revoking[p].parent, revoking[p].ts, n)
    BY <1>2 DEF RevokeQuery
  <2>2. \A n \in S : n.grant # {}
    BY <2>1, Zenon DEF RevokedBy
  <2>3. PICK T : victims' = [victims EXCEPT ![p] = T] /\ T \subseteq S
    BY <2>1, Zenon DEF RevokeRest, RevokeDone
  <2>4. \A q \in Handlers : victims'[q] = T \/ victims'[q] = victims[q]
    BY <1>1, <2>3, Zenon
  <2> QED BY <2>2, <2>3, <2>4, Zenon DEF VictimsGranted
<1>3. CASE RevokeFetch(p)
  BY <1>1, <1>3, Zenon DEF VictimsGranted, RevokeFetch, RevokeDone, cleanup
<1>4. CASE RevokeDelete(p)
  BY <1>4, Zenon DEF VictimsGranted, RevokeDelete, cleanup
<1>5. CASE RevokeUnlog(p)
  BY <1>1, <1>5, Zenon DEF VictimsGranted, RevokeUnlog, RevokeRest, RevokeDone
<1> QED BY <1>2, <1>3, <1>4, <1>5 DEF RevokeGrants

AllRevokeInv == VictimsGranted /\ \A r \in Messages : Lasting(r) => RevokeInv(r)

\* RevokeInv always holds, of every revocation that lasts.
LEMMA AllRevokeInvariant == NodeSpec => []AllRevokeInv
<1>1. NodeInit => AllRevokeInv
  <2> SUFFICES ASSUME NodeInit PROVE AllRevokeInv
    OBVIOUS
  <2>1. VictimsGranted
    BY Zenon DEF NodeInit, VictimsGranted
  <2>2. ASSUME NEW r \in Messages PROVE RevokeInv(r)
    BY ConstantsAssumption, Zenon DEF NodeInit, Init, RevokeInv, PutStored, NoneLeft, CleanUp, Looked,
       NoneFetched, ActiveWrites
  <2> QED BY <2>1, <2>2 DEF AllRevokeInv
<1>2. NodeInv /\ NodeInv' /\ AllRevokeInv /\ [NodeNext]_nodeVars => AllRevokeInv'
  <2> SUFFICES ASSUME NodeInv, NodeInv', AllRevokeInv, [NodeNext]_nodeVars PROVE AllRevokeInv'
    OBVIOUS
  <2>0. TypeOK' /\ VictimsGranted /\ \A r \in Messages : Lasting(r)' = Lasting(r)
    BY DEF NodeInv, HandlersOK, AllRevokeInv, Lasting, IsRevocation
  <2>1. ASSUME NEW p \in Handlers, NEW m \in Messages, NEW s, Receive(p, m, s)
        PROVE  AllRevokeInv'
    <3>1. VictimsGranted'
      BY <2>0, <2>1 DEF VictimsGranted, Receive, cleanup
    <3> QED BY <2>0, <2>1, <3>1, ReceiveRevoke, Zenon DEF AllRevokeInv
  <2>2. ASSUME NEW p \in Handlers, Authorize(p) \/ Verify(p) \/ DropRequest(p) \/ DropTask(p)
        PROVE  AllRevokeInv'
    <3>1. VictimsGranted'
      <4>1. \A q \in Handlers : victims'[q] \subseteq victims[q]
        BY <2>2, NodeTypeParts, Zenon DEF NodeInv, HandlersOK, GateType, Authorize, CheckGrant,
           CheckCurrent, CheckRole,
           CheckRoleHolder, FetchRules, FetchAncestor, CheckAction, Verify, VerifyRecord, VerifyPath,
           VerifyRoleRecord, VerifyRevocation, Check, DropRequest, DropTask, RevokeDone, cleanup
      <4> QED BY <2>0, <4>1 DEF VictimsGranted
    <3> QED BY <2>0, <2>2, <3>1, ChecksRevoke DEF AllRevokeInv
  <2>3. ASSUME NEW p \in Handlers, Continue(p) PROVE AllRevokeInv'
    <3>1. VictimsGranted'
      BY <2>0, <2>3 DEF VictimsGranted, Continue
    <3> QED BY <2>0, <2>3, <3>1, ContinueRevoke, Zenon DEF AllRevokeInv
  <2>4. ASSUME NEW p \in Handlers, RevokeGrants(p) PROVE AllRevokeInv'
    BY <2>0, <2>4, VictimsStep, RevokeStep DEF AllRevokeInv
  <2>5. CASE UNCHANGED <<vars, gate, rules, chain, cleanup, concurrent>>
    <3>1. UNCHANGED <<stored, archived, pc, req, existing, gate, revoking, victims, revoked,
                      concurrent>>
      BY <2>5 DEF cleanup, vars
    <3>2. ActiveWrites' = ActiveWrites /\ VictimsGranted'
      BY <2>0, <3>1 DEF ActiveWrites, VictimsGranted
    <3>3. ASSUME NEW r \in Messages, RevokeInv(r) PROVE RevokeInv(r)'
      <4>1. \A n : Left(r, n)' = Left(r, n)
        BY <3>1, Zenon DEF Left, Meets, Outlives
      <4> QED BY <3>1, <3>2, <3>3, <4>1, Zenon DEF RevokeInv, PutStored, NoneLeft, Takes, CleanUp,
              Looked, NoneFetched
    <3> QED BY <2>0, <3>2, <3>3 DEF AllRevokeInv
  <2> QED BY <2>1, <2>2, <2>3, <2>4, <2>5 DEF NodeNext, RecordsNext, HandleRequest, nodeVars,
          checks, cleanup
<1> QED BY <1>1, <1>2, NodeInvariant, PTL DEF NodeSpec

\* Once the revocation of a grant is through, nothing stored was created under the
\* grant after it, unless a request of its record overlapped with the revocation's.
THEOREM RevokedAreGone == NodeSpec => []RevokedWritesGone
<1>1. ASSUME NodeInv, AllRevokeInv PROVE RevokedWritesGone
  <2> SUFFICES ASSUME NEW r \in revoked \cap ActiveWrites, NEW m \in stored, Lasting(r),
                      Outlives(m, r)
               PROVE  Meets(r, m.record)
    BY Zenon DEF RevokedWritesGone, Meets
  <2>1. r \in Messages
    BY <1>1 DEF NodeInv, HandlersOK, TypeOK, ActiveWrites
  <2>2. NoneLeft(r)
    BY <1>1, <2>1 DEF AllRevokeInv, RevokeInv
  <2> QED BY <2>2 DEF NoneLeft, Takes, Left
<1> QED BY <1>1, NodeInvariant, AllRevokeInvariant, PTL
=============================================================================

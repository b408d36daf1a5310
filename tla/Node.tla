-------------------------------- MODULE Node --------------------------------
(***************************************************************************)
(* The node: RecordsWrite and RecordsDelete requests with the checks that  *)
(* let them in, beside ProtocolsConfigure requests.                        *)
(*                                                                         *)
(* A request is let in by its author being the owner or the owner having   *)
(* signed it too, by a permission grant, or by the rules of its protocol,  *)
(* with or without a role.  Each check reads the store at awaits of its    *)
(* own, before the handler of Records goes on, so that what it found may   *)
(* have changed by the time the message is stored.  gate[p] is the check   *)
(* that p has come to; the step pc[p] of Records waits until it is "open". *)
(*                                                                         *)
(* Messages have the fields that ProtocolRules and GrantRules name, a      *)
(* delete those of the record it deletes; owner is an Option, the signer   *)
(* of a write's owner signature.  All records belong to Protocol, or to    *)
(* the built-in protocol of permission records.                            *)
(***************************************************************************)
EXTENDS Records, Configure, ProtocolRules, GrantRules

CONSTANTS
    Owner,      \* the owner of the node
    Protocol    \* the protocol of the records

\* The context of a record is that of its parent and its own id, at the depth of
\* its path; a message invokes one grant at most; a record is created no later than
\* any message of it is sent.  Definitions that validate_structure refuses, grants
\* whose scope their tags do not name (verify_schema), and owner signatures of others
\* leave no trace.
ASSUME NodeAssumption ==
    /\ Protocol \in Protocols \ {PermissionsProtocol}
    /\ \A m \in Messages :
         /\ m.context \in Seq(Record)
         /\ Len(m.context) = Len(m.path) /\ Len(m.path) > 0
         /\ \A i, j \in m.grant : i = j
         /\ m.owner \subseteq {Owner}
         /\ m.created \in Nat /\ m.created <= m.ts
         /\ \A t \in m.terms : VerifyGrantScope(t.scope, m.tag)
    /\ \A c \in Configs : ValidStructure(c.definition)

VARIABLES
    gate,       \* the check each handler has come to
    rules,      \* Option: the rule set it has fetched
    chain,      \* the initial writes of the ancestors it has fetched
    revoking,   \* the revocation whose clean-up it is doing
    victims,    \* the messages it has still to delete
    concurrent, \* history: pairs of messages whose requests were in progress at once
    revoked     \* history: the revocations whose clean-up was completed

kept == <<rules, chain>>
checks == <<gate, rules, chain>>
cleanup == <<revoking, victims, revoked>>
nodeVars == <<vars, configVars, gate, rules, chain, revoking, victims, concurrent,
              revoked>>
-----------------------------------------------------------------------------
(* What the checks read                                                    *)

ActiveWrites == {n \in stored \ archived : n.kind = "write"}

IsPermission(m) == m.path \in {RequestPath, GrantPath, RevocationPath}

\* Option: the definition in force for the path of m.
InForce(m) ==
    IF IsPermission(m)
      THEN {PermissionsDefinition}
      ELSE {c.definition : c \in {d \in ConfigsOf(Protocol) :
                                    IsEarliest(d, ConfigsOf(Protocol))}}

\* The grant that fetch_grant makes of the write n.
GrantOf(n, terms) ==
    [id |-> n.record, grantor |-> n.author, grantee |-> n.recipient,
     granted |-> n.created, expires |-> terms.expires, scope |-> terms.scope,
     publication |-> terms.publication]

\* It takes the first active write of the record, which has to hold the terms of a
\* grant inline.
FetchGrant(id) ==
    LET S == {n \in ActiveWrites : n.record = id}
    IN  UNION {{GrantOf(n, t) : t \in n.terms} :
                 n \in {w \in S \cap encoded : IsEarliest(w, S)}}

\* The active revocations of a grant.
Revocations(id) == {n \in ActiveWrites : n.parent = id /\ n.path = RevocationPath}

InitialOf(r) == {n \in ExistingEntries(r) :
                   IsEarliest(n, ExistingEntries(r)) /\ IsInitialWrite(n)}

InitialAuthor(r) == {n.author : n \in InitialOf(r)}

\* Where the ancestor chain of m begins: at its record, or at the parent of a
\* record to be created.
Descendant(m) == IF m.kind = "write" /\ m.initial THEN m.parent ELSE m.record

\* The write m as a grant is compared with it.
Granted(m) ==
    [interface |-> "records", method |-> m.kind, ts |-> m.ts,
     protocol |-> {IF IsPermission(m) THEN PermissionsProtocol ELSE Protocol},
     context |-> {m.context}, path |-> {m.path}, published |-> m.published]
-----------------------------------------------------------------------------
(* A request arrives and is let in or refused                              *)

IsRevocation(m) == m.kind = "write" /\ m.path = RevocationPath

InProgress(p) == pc[p] # "idle" \/ gate[p] # "none"

\* The message that p is busy with.
Busy(p) == IF pc[p] # "idle" THEN req[p] ELSE revoking[p]

Gate(p, g) == gate' = [gate EXCEPT ![p] = g]

\* By the protocol: a role that is invoked is looked up first.
ByProtocol(m) == IF m.role # {} THEN "role" ELSE "rules"

\* The owner wrote m, or signed what someone else wrote.
ByOwner(m) == m.author = Owner \/ m.owner # {}

\* A delete is authorized once its record has been fetched.
FirstGate(m) ==
    IF m.kind = "delete" THEN "open"
    ELSE IF ByOwner(m) THEN "verify"
    ELSE IF m.grant # {} THEN "grant"
    ELSE ByProtocol(m)

NodeInit ==
    /\ Init /\ ConfigureInit
    /\ gate = [p \in Handlers |-> "none"]
    /\ rules = [p \in Handlers |-> {}]
    /\ chain = [p \in Handlers |-> <<>>]
    /\ revoking = [p \in Handlers |-> NoMessage]
    /\ victims = [p \in Handlers |-> {}]
    /\ concurrent = {}
    /\ revoked = {}

Receive(p, m, s) ==
    /\ gate[p] = "none"
    /\ Start(p, m, s)
    /\ Gate(p, FirstGate(m))
    /\ concurrent' = concurrent \cup
         {{m, Busy(q)} : q \in {h \in Handlers : InProgress(h)}}
    /\ UNCHANGED <<kept, cleanup>>

\* A check succeeds and g is next, or fails.
Check(p, ok, g) ==
    /\ IF ok THEN Gate(p, g) /\ UNCHANGED vars
             ELSE Gate(p, "none") /\ Refuse(p)
    /\ UNCHANGED <<concurrent, cleanup>>

\* A rule set and the ancestors are kept until the check they are for.
Keep(p, sets) == rules' = [rules EXCEPT ![p] = sets]

Climb(p, writes) == chain' = [chain EXCEPT ![p] = writes]
-----------------------------------------------------------------------------
(* authorize                                                               *)

\* The grant is fetched and compared with the write.
CheckGrant(p) ==
    LET m == req[p]
    IN  /\ gate[p] = "grant"
        /\ Check(p, \E id \in m.grant : \E g \in FetchGrant(id) :
                      PermitGrantedWrite(g, Owner, {m.author}, Granted(m), {}),
                 "current")
        /\ UNCHANGED kept

\* Mutant of CheckCurrent: the revocations are not looked up.
CheckCurrentNot(p) ==
    gate[p] = "current" /\ Check(p, TRUE, "verify") /\ UNCHANGED kept

\* The oldest revocation of the grant must not be older than the write.
CheckCurrent(p) ==
    LET m == req[p]
    IN  /\ gate[p] = "current"
        /\ Check(p, \A id \in m.grant : \A r \in Revocations(id) : m.ts <= r.ts,
                 "verify")
        /\ UNCHANGED kept

\* permit_role: the role is one of the definition ...
CheckRole(p) ==
    LET m == req[p]
    IN  /\ gate[p] = "role"
        /\ Check(p, \E def \in InForce(m), r \in m.role : RoleInvocable(def, r),
                 "role_holder")
        /\ UNCHANGED kept

HoldsRole(m) ==
    \E n \in ActiveWrites, r \in m.role : IsRoleRecord(n, r, m.author, m.context)

\* Mutant of CheckRoleHolder: the record of the role is not looked up.
CheckRoleHolderNot(p) ==
    gate[p] = "role_holder" /\ Check(p, TRUE, "rules") /\ UNCHANGED kept

\* ... and the author has a record of it.
CheckRoleHolder(p) ==
    /\ gate[p] = "role_holder"
    /\ Check(p, HoldsRole(req[p]), "rules")
    /\ UNCHANGED kept

\* permit_action: the rule set of the record's path ...
FetchRules(p) ==
    LET m == req[p]
        found == {def \in InForce(m) : m.path \in DOMAIN def.rules}
    IN  /\ gate[p] = "rules"
        /\ \/ found = {} /\ Check(p, FALSE, "none") /\ UNCHANGED kept
           \/ \E def \in found :
                /\ Keep(p, {def.rules[m.path]}) /\ UNCHANGED chain
                /\ Check(p, TRUE, IF Descendant(m) = NoRecord THEN "action" ELSE "chain")

\* The record to fetch next on the way to the root.
NextUp(p) == IF chain[p] = <<>> THEN Descendant(req[p]) ELSE chain[p][1].parent

\* ... one ancestor after the other ...
FetchAncestor(p) ==
    LET found == InitialOf(NextUp(p))
    IN  /\ gate[p] = "chain"
        /\ \/ found = {} /\ Check(p, FALSE, "none") /\ Keep(p, {}) /\ Climb(p, <<>>)
           \/ \E n \in found :
                /\ Climb(p, <<n>> \o chain[p]) /\ UNCHANGED rules
                /\ Check(p, TRUE, IF n.parent = NoRecord THEN "action" ELSE "chain")

\* ... has a rule for the author, given the ancestors, and who wrote the record first.
CheckAction(p) ==
    LET m == req[p]
    IN  /\ gate[p] = "action"
        /\ Check(p, \E set \in rules[p] :
                      PermitAction(set, m, chain[p],
                                   PermittedActions(m, InitialAuthor(m.record))),
                 IF m.kind = "write" THEN "verify" ELSE "open")
        /\ Keep(p, {}) /\ Climb(p, <<>>)
-----------------------------------------------------------------------------
(* verify_integrity                                                        *)

AfterRole(m) == IF m.path = RevocationPath THEN "revocation" ELSE "open"

AfterPath(m, set) == IF set.role # {} THEN "role_record" ELSE AfterRole(m)

\* verify, as far as it needs the definition only.
VerifyRecord(p) ==
    LET m == req[p]
        found == {def \in InForce(m) : VerifyStatic(def, m)}
    IN  /\ gate[p] = "verify"
        /\ \/ /\ \/ found = {}
                 \/ m.parent = NoRecord /\ Len(m.path) > 1
              /\ Check(p, FALSE, "none") /\ UNCHANGED kept
           \/ \E def \in found :
                \/ /\ m.parent # NoRecord
                   /\ Keep(p, {def.rules[m.path]}) /\ UNCHANGED chain
                   /\ Check(p, TRUE, "parent")
                \/ /\ m.parent = NoRecord /\ Len(m.path) = 1
                   /\ Check(p, TRUE, AfterPath(m, def.rules[m.path]))
                   /\ UNCHANGED kept

\* verify_protocol_path: the write has its place below an active write of its
\* parent.
InPlace(m) ==
    LET S == {n \in ActiveWrites : n.record = m.parent}
    IN  \E n \in S : /\ IsEarliest(n, S)
                     /\ m.path = Append(n.path, Last(m.path))
                     /\ StartsWith(m.context, n.context)

\* Mutant of VerifyPath: the parent is not looked up.
VerifyPathNot(p) ==
    LET m == req[p]
    IN  /\ gate[p] = "parent"
        /\ Step(p, "fetch") /\ UNCHANGED <<store, roots, eventLog, emitted>>
        /\ \E set \in rules[p] : Gate(p, AfterPath(m, set))
        /\ Keep(p, {}) /\ UNCHANGED <<chain, concurrent, cleanup>>

VerifyPath(p) ==
    LET m == req[p]
    IN  /\ gate[p] = "parent"
        /\ \/ InPlace(m) /\ VerifyParent(p)
              /\ \E set \in rules[p] : Gate(p, AfterPath(m, set))
           \/ ~InPlace(m) /\ Refuse(p) /\ Gate(p, "none")
        /\ Keep(p, {}) /\ UNCHANGED <<chain, concurrent, cleanup>>

\* Mutant of RoleFree: a recipient may have a role twice.
RoleFreeAny(m) == m.recipient # {}

\* verify_role_record: no other record gives the recipient the role.
RoleFree(m) ==
    /\ m.recipient # {}
    /\ \A n \in ActiveWrites : TakesRole(n, m) => n.record = m.record

VerifyRoleRecord(p) ==
    /\ gate[p] = "role_record"
    /\ Check(p, RoleFree(req[p]), AfterRole(req[p]))
    /\ UNCHANGED kept

\* verify_revoke: the grant exists, and its protocol is that of the tags.
VerifyRevocation(p) ==
    LET m == req[p]
    IN  /\ gate[p] = "revocation"
        /\ Check(p, \E g \in FetchGrant(m.parent) : VerifyRevoke(g, m.tags # {}, m.tag),
                 "open")
        /\ UNCHANGED kept
-----------------------------------------------------------------------------
(* The handler goes on                                                     *)

\* Mutant of Returns: the clean-up follows any message that is accepted.
ReturnsAny(p) ==
    IF reply' \in {"accepted", "no_content"}
      THEN Gate(p, "revoke") /\ revoking' = [revoking EXCEPT ![p] = req[p]]
      ELSE Gate(p, "none") /\ UNCHANGED revoking

\* The handler has come to an end; the answer to a revocation is given after its
\* clean-up.
Returns(p) ==
    IF IsRevocation(req[p]) /\ reply' \in {"accepted", "no_content"}
      THEN Gate(p, "revoke") /\ revoking' = [revoking EXCEPT ![p] = req[p]]
      ELSE Gate(p, "none") /\ UNCHANGED revoking

\* A step of the handler in Records.  After the step that fetches the record to be
\* deleted a delete is authorized.
Continue(p) ==
    /\ gate[p] = "open"
    /\ Work(p)
    /\ \/ pc'[p] = "idle" /\ Returns(p)
       \/ /\ pc'[p] = "task" /\ req[p].author # Owner
          /\ Gate(p, ByProtocol(req[p])) /\ UNCHANGED revoking
       \/ /\ pc'[p] # "idle" /\ (pc'[p] = "task" => req[p].author = Owner)
          /\ UNCHANGED <<gate, revoking>>
    /\ UNCHANGED <<kept, victims, concurrent, revoked>>
-----------------------------------------------------------------------------
(* revoke_grants: what was written under the grant since is deleted        *)

RevokeDone(p, done) ==
    /\ Gate(p, "none")
    /\ revoking' = [revoking EXCEPT ![p] = NoMessage]
    /\ victims' = [victims EXCEPT ![p] = {}]
    /\ revoked' = IF done THEN revoked \cup {revoking[p]} ELSE revoked

\* Delete the messages in S, or be done when none are left.
RevokeRest(p, S) ==
    IF S = {} THEN RevokeDone(p, TRUE)
    ELSE /\ Gate(p, "revoke_delete")
         /\ victims' = [victims EXCEPT ![p] = S]
         /\ UNCHANGED <<revoking, revoked>>

RevokeFetch(p) ==
    LET m == revoking[p]
    IN  /\ gate[p] = "revoke"
        /\ IF \E g \in FetchGrant(m.parent) : RevokeMatches(g, m.tag)
             THEN Gate(p, "revoke_query") /\ UNCHANGED cleanup
             ELSE RevokeDone(p, FALSE)
        /\ UNCHANGED <<vars, kept, concurrent>>

\* Mutant of RevokeQuery: the active writes only.
RevokeQueryActive(p) ==
    LET m == revoking[p]
    IN  /\ gate[p] = "revoke_query"
        /\ RevokeRest(p, {n \in ActiveWrites : RevokedBy(m.parent, m.ts, n)})
        /\ UNCHANGED <<vars, kept, concurrent>>

RevokeQuery(p) ==
    LET m == revoking[p]
    IN  /\ gate[p] = "revoke_query"
        /\ RevokeRest(p, {n \in stored : n.kind = "write" /\ RevokedBy(m.parent, m.ts, n)})
        /\ UNCHANGED <<vars, kept, concurrent>>

RevokeDelete(p) ==
    /\ gate[p] = "revoke_delete"
    /\ \E n \in victims[p] : IsEarliest(n, victims[p]) /\ StoreDelete(n)
    /\ Gate(p, "revoke_log")
    /\ UNCHANGED <<roots, eventLog, emitted, pc, local, fetched, reply>>
    /\ UNCHANGED <<kept, concurrent, cleanup>>

\* Mutant of RevokeUnlog: the message stays among those to delete.
RevokeUnlogAgain(p) ==
    /\ gate[p] = "revoke_log"
    /\ \E n \in victims[p] : IsEarliest(n, victims[p]) /\ eventLog' = eventLog \ {n}
    /\ RevokeRest(p, victims[p])
    /\ UNCHANGED <<store, roots, emitted, pc, local, fetched, reply, kept, concurrent>>

RevokeUnlog(p) ==
    /\ gate[p] = "revoke_log"
    /\ \E n \in victims[p] :
         /\ IsEarliest(n, victims[p])
         /\ eventLog' = eventLog \ {n}
         /\ RevokeRest(p, victims[p] \ {n})
    /\ UNCHANGED <<store, roots, emitted, pc, local, fetched, reply, kept, concurrent>>
-----------------------------------------------------------------------------
(* The handler is dropped, or the delete task is                           *)

DropRequest(p) ==
    /\ Abandons
    /\ InProgress(p)
    /\ IF pc[p] # "idle" THEN Abandon(p) ELSE UNCHANGED vars
    /\ RevokeDone(p, FALSE)
    /\ Keep(p, {}) /\ Climb(p, <<>>) /\ UNCHANGED concurrent

DropTask(p) ==
    /\ gate[p] = "open"
    /\ TaskTimeout(p)
    /\ Gate(p, "none")
    /\ UNCHANGED <<kept, concurrent, cleanup>>
-----------------------------------------------------------------------------
Authorize(p) ==
    \/ CheckGrant(p)
    \/ CheckCurrent(p)
    \/ CheckRole(p)
    \/ CheckRoleHolder(p)
    \/ FetchRules(p)
    \/ FetchAncestor(p)
    \/ CheckAction(p)

Verify(p) ==
    \/ VerifyRecord(p)
    \/ VerifyPath(p)
    \/ VerifyRoleRecord(p)
    \/ VerifyRevocation(p)

RevokeGrants(p) ==
    \/ RevokeFetch(p)
    \/ RevokeQuery(p)
    \/ RevokeDelete(p)
    \/ RevokeUnlog(p)

HandleRequest(p) == Authorize(p) \/ Verify(p) \/ Continue(p) \/ RevokeGrants(p)

RecordsNext ==
    \E p \in Handlers :
        \/ \E m \in Messages, s \in Data \cup {NoData} : Receive(p, m, s)
        \/ HandleRequest(p)
        \/ DropRequest(p)
        \/ DropTask(p)

\* The node takes a step of a Records request or of a ProtocolsConfigure request.
NodeNext ==
    \/ RecordsNext /\ UNCHANGED configVars
    \/ ConfigureNext /\ UNCHANGED <<vars, checks, cleanup, concurrent>>

NodeSpec == NodeInit /\ [][NodeNext]_nodeVars

\* The runtime keeps polling the handlers.
HandlersRun ==
    \A p \in Handlers : WF_nodeVars(HandleRequest(p) /\ UNCHANGED configVars)
-----------------------------------------------------------------------------
(* Properties                                                              *)

Gates ==
    {"none", "open", "grant", "current", "role", "role_holder", "rules", "chain",
     "action", "verify", "parent", "role_record", "revocation",
     "revoke", "revoke_query", "revoke_delete", "revoke_log"}

RevokeGates == {"revoke", "revoke_query", "revoke_delete", "revoke_log"}

\* Types; a handler is behind a gate as long as it has a request, and cleans up
\* after a revocation when its request is over.
NodeTypeOK ==
    /\ TypeOK /\ ConfigTypeOK
    /\ gate \in [Handlers -> Gates]
    /\ chain \in [Handlers -> Seq(Messages)]
    /\ revoking \in [Handlers -> Messages \cup {NoMessage}]
    /\ victims \in [Handlers -> SUBSET Messages]
    /\ revoked \subseteq Messages
    /\ \A p \in Handlers :
         /\ gate[p] = "none" => pc[p] = "idle"
         /\ gate[p] \in RevokeGates <=> revoking[p] # NoMessage
         /\ gate[p] \in RevokeGates => pc[p] = "idle" /\ IsRevocation(revoking[p])
         /\ gate[p] \notin RevokeGates \cup {"none"} => pc[p] # "idle"

\* A request that overlapped with m's may have changed the record r, by being about
\* it or as a revocation whose clean-up deletes messages.
Disturbed(m, r) ==
    \E n \in Messages : (n.record = r \/ IsRevocation(n)) /\ {m, n} \in concurrent

\* The handler is about to store the write m.
Stores(p, m) == pc[p] = "put" /\ req[p] = m /\ m.kind = "write"

\* The parent is looked up several awaits before a child is stored.  It is still
\* there when the child is, unless a request about the parent overlapped.
ParentStillThere ==
    \A p \in Handlers, m \in Messages :
        Stores(p, m) /\ m.parent # NoRecord
          => \/ \E n \in ActiveWrites : n.record = m.parent
             \/ Disturbed(m, m.parent)

\* The same for the role its author invoked: whoever stores a record by virtue of
\* a role has the role, unless a request about a record of the role overlapped.
RoleStillHeld ==
    \A p \in Handlers, m \in Messages :
        Stores(p, m) /\ ~ByOwner(m) /\ m.grant = {} /\ m.role # {}
          => \/ HoldsRole(m)
             \/ \E w \in Messages, r \in m.role :
                  IsRoleRecord(w, r, m.author, m.context) /\ Disturbed(m, w.record)

\* The same for a grant: it is there, covers the write, and has not been revoked
\* before the write was made, unless a request about it, or a revocation, overlapped.
GrantStillGood ==
    \A p \in Handlers, m \in Messages :
        Stores(p, m) /\ ~ByOwner(m)
          => \A id \in m.grant :
               \/ \E g \in FetchGrant(id) :
                    PermitGrantedWrite(g, Owner, {m.author}, Granted(m),
                                       {r.ts : r \in Revocations(id)})
               \/ Disturbed(m, id)

\* Records at path give a role, whichever definition of the protocol is in force.
IsRolePath(path) ==
    /\ path \notin {RequestPath, GrantPath, RevocationPath}
    /\ \A def \in Definitions : path \in DOMAIN def.rules => def.rules[path].role # {}

\* A recipient has a role twice only if the requests of two records overlapped:
\* verify_role_record looks for other records long before the record is stored.
RoleOnce ==
    \A v, w \in ActiveWrites :
        v.record # w.record /\ TakesRole(v, w) /\ IsRolePath(w.path)
          => \E m, n \in Messages :
               m.record = v.record /\ n.record = w.record /\ {m, n} \in concurrent

\* A revocation that nothing supersedes or cleans up.
Lasting(r) ==
    /\ IsRevocation(r) /\ r.grant = {}
    /\ \A n \in Messages : n.record = r.record => n = r

\* m was created under the grant after r revoked it.
Outlives(m, r) ==
    m.kind = "write" /\ m.grant = {r.parent} /\ ~ByOwner(m) /\ m.created > r.ts

\* Once the revocation r of a grant is through, nothing is stored that was created
\* under the grant after it, unless by a request that overlapped with it.
RevokedWritesGone ==
    \A r \in revoked \cap ActiveWrites, m \in stored :
        Lasting(r) /\ Outlives(m, r)
          => \E n \in Messages : n.record = m.record /\ {r, n} \in concurrent

\* Every request is answered, whatever the checks find and the clean-up meets.
EveryRequestDone == \A p \in Handlers : InProgress(p) ~> ~InProgress(p)
=============================================================================

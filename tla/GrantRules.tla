----------------------------- MODULE GrantRules -----------------------------
(***************************************************************************)
(* Permission grants: what a grant allows its grantee, and what the        *)
(* records that carry grants have to look like.  The operators are         *)
(* functions of a grant, of a message and of the revocations the store was *)
(* found to hold.                                                          *)
(*                                                                         *)
(* A grant g has the fields                                                *)
(*   id, grantor, grantee     the id of its record; its signer; recipient  *)
(*   granted, expires         the creation of its record; its end          *)
(*   scope                    interface, method, protocol (Option) and     *)
(*                            limit (Option: a context or a protocol path) *)
(*   publication              Option: "required" or "prohibited"           *)
(* A message m has interface, method, ts, and protocol (Option); a write   *)
(* has, besides, context (Option), path (Option) and published.            *)
(***************************************************************************)
EXTENDS Naturals, Sequences

\* s begins with pre; ids are of one length, so the prefix ends with an id.
Begins(s, pre) == Len(pre) <= Len(s) /\ SubSeq(s, 1, Len(pre)) = pre

\* The scope of Records grants names a protocol.
Scope(interface, method, protocol, limit) ==
    [interface |-> interface, method |-> method, protocol |-> protocol,
     limit |-> limit]

\* ts is within the term of g, and not after the oldest of its revocations.
IsCurrent(g, ts, revocations) ==
    g.granted <= ts /\ ts < g.expires /\ \A r \in revocations : ts <= r

\* The message m of grantee, sent on behalf of grantor, is within the grant as
\* far as interface, method and time go.
GrantVerify(g, grantor, grantee, m, revocations) ==
    /\ g.grantee = grantee
    /\ g.grantor = grantor
    /\ g.scope.interface = m.interface
    /\ g.scope.method = m.method
    /\ IsCurrent(g, m.ts, revocations)

InLimit(limit, w) ==
    CASE limit.kind = "context" -> \E c \in w.context : Begins(c, limit.value)
      [] limit.kind = "path" -> w.path = {limit.value}

\* The write w is within the scope of a Records grant.
GrantScope(g, w) ==
    /\ g.scope.interface = "records"
    /\ g.scope.protocol = w.protocol
    /\ \A l \in g.scope.limit : InLimit(l, w)

GrantConditions(g, w) ==
    /\ g.publication = {"required"} => w.published
    /\ g.publication = {"prohibited"} => ~w.published

PermitGrantedWrite(g, grantor, grantee, w, revocations) ==
    /\ GrantVerify(g, grantor, grantee, w, revocations)
    /\ GrantScope(g, w)
    /\ GrantConditions(g, w)
-----------------------------------------------------------------------------
(* Permission records                                                      *)

\* A request or a grant that is scoped to a protocol is tagged with it.
VerifyGrantScope(scope, tag) == scope.protocol # {} => tag = scope.protocol

\* A revocation that is tagged has the tag of the grant's protocol; tags without
\* a protocol count as the empty one.
VerifyRevoke(g, tagged, tag) == tagged => g.scope.protocol # {} /\ g.scope.protocol = tag

\* The clean-up compares the tag only if it is there.
RevokeMatches(g, tag) == tag # {} => tag = g.scope.protocol

\* What a revocation at ts deletes of the writes authorized by the grant: those
\* created from then on.
RevokedBy(id, ts, w) == w.grant = {id} /\ w.created >= ts
=============================================================================

--------------------------- MODULE ProtocolRules ---------------------------
(***************************************************************************)
(* Protocol definitions: what validate_structure accepts, what a rule set  *)
(* demands of a record (verify) and what it allows an author to do (the    *)
(* Authorizer).  The operators are functions of a definition, of a message *)
(* and of what the store was found to hold.                                *)
(*                                                                         *)
(* A protocol path is a sequence of type names.  The nested structure of a *)
(* definition is the function rules from paths to rule sets; its domain is *)
(* closed under non-empty prefixes.  An Option is a set of at most one     *)
(* element.                                                                *)
(*                                                                         *)
(* A message m has the fields                                              *)
(*   kind      "write", "delete", "read", "query" or "subscribe"           *)
(*   author    the author of the message                                   *)
(*   role      Option: the path of the role it invokes                     *)
(* and a write has, besides,                                               *)
(*   path, context   its protocol path; the record ids from root to record *)
(*   recipient       Option                                                *)
(*   initial         it is the initial write of its record                 *)
(*   schema (Option), format, size, tags (Option: a set of tag names).     *)
(***************************************************************************)
EXTENDS Naturals, Sequences

CONSTANT JsonTags   \* the tag names that happen to be JSON schemas

Last(path) == path[Len(path)]

Parent(path) == SubSeq(path, 1, Len(path) - 1)

StartsWith(s, pre) == Len(pre) <= Len(s) /\ SubSeq(s, 1, Len(pre)) = pre

ReadLike == {"read", "query", "subscribe"}

CoActions == {"co-update", "co-delete", "co-prune"}
-----------------------------------------------------------------------------
(* validate_structure                                                      *)

\* The rule sets found by role_paths: it does not look below a role.
IsRole(def, path) ==
    /\ path \in DOMAIN def.rules
    /\ def.rules[path].role # {}
    /\ \A q \in DOMAIN def.rules :
         StartsWith(path, q) /\ q # path => def.rules[q].role = {}

\* The depth is limited along paths without a role only.
MaxDepth == 10

TooDeep(def) ==
    \E path \in DOMAIN def.rules :
        /\ Len(path) > MaxDepth
        /\ \A q \in DOMAIN def.rules : StartsWith(path, q) => def.rules[q].role = {}

ValidSize(size) == \A a \in size.min, b \in size.max : a <= b

\* A role has a role record; a role reads in every way or in none; only known
\* combinations of `who` and `of`; who may update or delete may create.
ValidRule(def, rule) ==
    /\ \A r \in rule.role :
         IsRole(def, r) /\ (rule.can \cap ReadLike \in {{}, ReadLike})
    /\ rule.who = {"anyone"} => rule.of = {}
    /\ rule.who = {"recipient"} /\ rule.of = {} => rule.can \cap CoActions # {}
    /\ rule.who = {"author"} => rule.of # {}
    /\ rule.can \cap {"update", "delete"} # {} => "create" \in rule.can

\* A later rule b is for the same actor or role as a.
SameActor(a, b) ==
    IF a.who # {} THEN a.who = b.who /\ a.of = b.of ELSE a.role = b.role

ValidRuleSet(def, set) ==
    /\ ValidSize(set.size)
    /\ \A t \in set.tags : t.defined \subseteq JsonTags
    /\ \A i \in DOMAIN set.actions :
         /\ ValidRule(def, set.actions[i])
         /\ \A j \in DOMAIN set.actions :
              i < j => ~SameActor(set.actions[i], set.actions[j])

\* Only nested names are looked up among the types.
ValidStructure(def) ==
    /\ ~TooDeep(def)
    /\ \A path \in DOMAIN def.rules :
         /\ ValidRuleSet(def, def.rules[path])
         /\ Len(path) > 1 => Last(path) \in DOMAIN def.types
-----------------------------------------------------------------------------
(* The Authorizer                                                          *)

\* The invoked role is the path of a rule set marked as a role.
RoleInvocable(def, role) ==
    role \in DOMAIN def.rules /\ def.rules[role].role = {TRUE}

\* The context a role record has to be in: none for a role at the root, else the
\* context of the parent of the record at hand, or its own if that is a root.
RoleContext(role, context) ==
    IF Len(role) = 1 THEN <<>>
    ELSE IF Len(context) > 1 THEN Parent(context) ELSE context

\* w, an active write, makes author the holder of the role.
IsRoleRecord(w, role, author, context) ==
    /\ w.path = role
    /\ author \in w.recipient
    /\ StartsWith(w.context, RoleContext(role, context))

\* The actions that authorize message m, given the author of the initial write
\* of its record, if there is one.
PermittedActions(m, initialAuthor) ==
    CASE m.kind = "write" /\ m.initial -> {"create"}
      [] m.kind \in ReadLike -> {m.kind}
      [] m.kind = "write" /\ ~m.initial ->
           IF initialAuthor = {} THEN {}
           ELSE {"co-update"} \cup
                (IF m.author \in initialAuthor THEN {"update"} ELSE {})
      [] m.kind = "delete" ->
           IF initialAuthor = {} THEN {}
           ELSE LET kinds == {"delete"} \cup (IF m.prune THEN {"prune"} ELSE {})
                    cos == {"co-delete"} \cup (IF m.prune THEN {"co-prune"} ELSE {})
                IN  cos \cup (IF m.author \in initialAuthor THEN kinds ELSE {})

\* author is the recipient or the author of the record the rule is `of`.
PermitActor(author, rule, chain) ==
    \E i \in DOMAIN chain :
        /\ rule.of = {chain[i].path}
        /\ IF rule.who = {"recipient"} THEN author \in chain[i].recipient
                                       ELSE author = chain[i].author

\* Rule `rule` lets m through.  chain are the initial writes of the ancestors of
\* m, or of its record, from the root on.
RulePermits(rule, m, chain, actions) ==
    /\ rule.can \cap actions # {}
    /\ \/ rule.who = {"anyone"}
       \/ m.role # {} /\ rule.role = m.role
       \/ /\ m.role = {}
          /\ rule.who # {"anyone"}
          /\ IF rule.who = {"recipient"} /\ rule.of = {}
               THEN m.author \in IF m.kind = "write" THEN m.recipient
                                 ELSE Last(chain).recipient
               ELSE PermitActor(m.author, rule, chain)

PermitAction(set, m, chain, actions) ==
    \E i \in DOMAIN set.actions : RulePermits(set.actions[i], m, chain, actions)
-----------------------------------------------------------------------------
(* verify: what a rule set demands of a record                             *)

VerifyType(def, w) ==
    /\ Last(w.path) \in DOMAIN def.types
    /\ LET t == def.types[Last(w.path)]
       IN  /\ t.schema # {} => t.schema = w.schema
           /\ \A fs \in t.formats : w.format \in fs

VerifySize(set, w) ==
    /\ \A a \in set.size.min : w.size >= a
    /\ \A b \in set.size.max : w.size <= b

\* The values of tags are left out.  Absent tags are no object: they match no
\* schema.
VerifyTags(set, w) ==
    \A t \in set.tags : \E names \in w.tags :
        t.required \subseteq names /\ (t.open \/ names \subseteq t.defined)

\* The checks of a write that need no look at the store, and the path of a
\* record without a parent.
VerifyStatic(def, w) ==
    /\ w.path \in DOMAIN def.rules
    /\ VerifyType(def, w)
    /\ VerifySize(def.rules[w.path], w)
    /\ VerifyTags(def.rules[w.path], w)

\* Another record in n's place gives its recipient the role already.
TakesRole(n, w) ==
    /\ n.path = w.path /\ n.recipient = w.recipient
    /\ StartsWith(n.context, Parent(w.context))
-----------------------------------------------------------------------------
(* The built-in protocol of permission records                             *)

PermissionsProtocol == "https://vercre.website/dwn/permissions"

RequestPath == <<"request">>
GrantPath == <<"grant">>
RevocationPath == <<"grant", "revocation">>

PermissionRule(actor, record, actions) ==
    [who |-> {actor}, role |-> {}, of |-> record, can |-> actions]

PermissionRuleSet(rule) ==
    [actions |-> <<rule>>, role |-> {}, size |-> [min |-> {}, max |-> {10000}],
     tags |-> {}]

PermissionsDefinition ==
    [types |-> [t \in {"request", "grant", "revocation"} |->
                  [schema |-> {}, formats |-> {{"application/json"}}]],
     rules |-> [path \in {RequestPath, GrantPath, RevocationPath} |->
        PermissionRuleSet(
          CASE path = RequestPath -> PermissionRule("anyone", {}, {"create"})
            [] path = GrantPath ->
                 PermissionRule("recipient", {GrantPath}, {"read", "query"})
            [] path = RevocationPath -> PermissionRule("anyone", {}, {"read"}))]]
=============================================================================

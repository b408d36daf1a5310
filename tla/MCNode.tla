------------------------------- MODULE MCNode -------------------------------
(***************************************************************************)
(* Protocols and pools of messages for the model checking of Node.         *)
(***************************************************************************)
EXTENDS Node, TLC

CONSTANTS alice, bob, thread, member, member2, chat, grant, revocation, note, late, data,
          MaxAccepted

\* Messages about the records of a pool, with the fields the checks look at.
Message(kind, r, t, c, path, context, author) ==
    [kind |-> kind, record |-> r, ts |-> t, cid |-> c, initial |-> kind = "write",
     data |-> IF kind = "write" THEN data ELSE NoData,
     parent |-> IF kind = "write" /\ Len(context) > 1
                  THEN context[Len(context) - 1] ELSE NoRecord,
     prune |-> FALSE, path |-> path, context |-> context, author |-> author,
     owner |-> {}, role |-> {}, recipient |-> {}, grant |-> {}, created |-> t, terms |-> {},
     schema |-> {}, format |-> "application/json", size |-> 1, tags |-> {},
     tag |-> {}, published |-> FALSE]

\* The owner has set up a protocol and the messages in S, one after the other.
SetUp(config, S) ==
    /\ stored = S /\ archived = {} /\ encoded = S /\ eventLog = S /\ emitted = S
    /\ configs = {config} /\ configLog = {config} /\ configEmitted = {config}
    /\ roots = [k \in Record \X Data |-> NoData]
    /\ pc = [p \in Handlers |-> "idle"]
    /\ req = [p \in Handlers |-> NoMessage]
    /\ stream = [p \in Handlers |-> NoData]
    /\ existing = [p \in Handlers |-> {}]
    /\ existingEncoded = [p \in Handlers |-> {}]
    /\ reply = "none"
    /\ configPc = [p \in Configurers |-> "idle"]
    /\ configReq = [p \in Configurers |-> NoConfig]
    /\ superseded = [p \in Configurers |-> {}]
    /\ dropped = {} /\ overlapped = {}
    /\ gate = [p \in Handlers |-> "none"]
    /\ rules = [p \in Handlers |-> {}]
    /\ chain = [p \in Handlers |-> <<>>]
    /\ revoking = [p \in Handlers |-> NoMessage]
    /\ victims = [p \in Handlers |-> {}]
    /\ concurrent = {} /\ revoked = {}

-----------------------------------------------------------------------------
(* Threads: whoever is a member of a thread may chat in it.                *)

ThreadPath == <<"thread">>
MemberPath == <<"thread", "member">>
ChatPath == <<"thread", "chat">>

Rule(who, of, role, can) == [who |-> who, of |-> of, role |-> role, can |-> can]

RuleSet(actions, role) ==
    [actions |-> actions, role |-> role, size |-> [min |-> {}, max |-> {}], tags |-> {}]

Types == [t \in {"thread", "member", "chat"} |-> [schema |-> {}, formats |-> {}]]

ThreadDefinition ==
    [types |-> Types,
     rules |-> [path \in {ThreadPath, MemberPath, ChatPath} |->
        CASE path = ThreadPath -> RuleSet(<<>>, {})
          [] path = MemberPath ->
               RuleSet(<<Rule({"recipient"}, {}, {}, {"co-delete"})>>, {TRUE})
          [] path = ChatPath ->
               RuleSet(<<Rule({}, {}, {MemberPath}, {"create", "delete"})>>, {})]]

\* Without the rule that lets members chat.
ClosedDefinition ==
    [ThreadDefinition EXCEPT !.rules[ChatPath] = RuleSet(<<>>, {})]

ThreadDefinitions == {ThreadDefinition, ClosedDefinition}

Opening == [protocol |-> "threads", ts |-> 1, cid |-> 1, definition |-> ThreadDefinition]
Closing == [protocol |-> "threads", ts |-> 2, cid |-> 2, definition |-> ClosedDefinition]

Reopening == [Opening EXCEPT !.ts = 3, !.cid = 3]

ThreadConfigs == {Opening, Closing, Reopening}

TheThread == Message("write", thread, 1, 1, ThreadPath, <<thread>>, alice)

TheMember(r, c) ==
    [Message("write", r, 2, c, MemberPath, <<thread, r>>, alice) EXCEPT !.recipient = {bob}]

TheChat ==
    [Message("write", chat, 3, 4, ChatPath, <<thread, chat>>, bob) EXCEPT !.role = {MemberPath}]

\* Two records that make Bob a member, the second written by Bob and signed by Alice
\* as the owner, a chat of theirs, and deletes of the thread by its owner and of a
\* membership by Bob.
ThreadPool ==
    {TheThread, TheMember(member, 2),
     [TheMember(member2, 3) EXCEPT !.author = bob, !.owner = {alice}], TheChat,
     Message("delete", thread, 4, 5, ThreadPath, <<thread>>, alice),
     Message("delete", member, 4, 6, MemberPath, <<thread, member>>, bob)}

\* A membership and a delete that may be dropped, while the protocol changes.
MemberPool ==
    {TheThread, TheMember(member, 2), Message("delete", thread, 4, 5, ThreadPath, <<thread>>, alice)}

ThreadSpec == SetUp(Opening, {TheThread}) /\ [][NodeNext]_nodeVars
-----------------------------------------------------------------------------
(* Notes: Bob writes them under a grant of Alice's.                        *)

NotePath == <<"note">>

NoteDefinition ==
    [types |-> [t \in {"note"} |-> [schema |-> {}, formats |-> {}]],
     rules |-> [path \in {NotePath} |-> RuleSet(<<>>, {})]]

NoteDefinitions == {NoteDefinition}

NoteConfig == [protocol |-> "notes", ts |-> 1, cid |-> 1, definition |-> NoteDefinition]

NoteConfigs == {NoteConfig}

TheGrant ==
    [Message("write", grant, 1, 1, GrantPath, <<grant>>, alice) EXCEPT
       !.recipient = {bob}, !.tags = {{"protocol"}}, !.tag = {"notes"},
       !.terms = {[expires |-> 7, publication |-> {},
                   scope |-> Scope("records", "write", {"notes"}, {})]}]

TheRevocation ==
    [Message("write", revocation, 4, 2, RevocationPath, <<grant, revocation>>, alice) EXCEPT
       !.tags = {{"protocol"}}, !.tag = {"notes"}]

TheNote(r, t, c) ==
    [Message("write", r, t, c, NotePath, <<r>>, bob) EXCEPT !.grant = {grant}]

TheUpdate(r, t, c, created) ==
    [TheNote(r, t, c) EXCEPT !.initial = FALSE, !.created = created]

\* Notes from before and after the revocation, the second with an update, and a delete
\* of the grant.
NotePool ==
    {TheGrant, TheRevocation, TheNote(note, 3, 3), TheNote(late, 5, 4),
     TheUpdate(late, 6, 5, 5),
     Message("delete", grant, 7, 6, GrantPath, <<grant>>, alice)}

NoteSpec ==
    /\ SetUp(NoteConfig, {TheGrant})
    /\ [][NodeNext]_nodeVars /\ HandlersRun
-----------------------------------------------------------------------------
\* The bounds of the runs: a write comes with its data, a message is not sent
\* again once it was accepted nor while it is being handled, and MaxAccepted
\* messages are accepted, those of the initial state included.
SentOnce ==
    /\ \A p \in Handlers : pc[p] = "idle" /\ pc'[p] # "idle" =>
         /\ req'[p] \notin emitted /\ \A q \in Handlers \ {p} : req'[p] # req[q]
         /\ req'[p].kind = "write" => stream'[p] = data
         /\ Cardinality((emitted \cup {req[q] : q \in Handlers}) \ {NoMessage}) < MaxAccepted
    /\ \A k \in Configurers :
         configPc[k] = "idle" /\ configPc'[k] # "idle" => configReq'[k] \notin configEmitted \cup dropped

HandlerSymmetry == Permutations(Handlers)
ConfigurerSymmetry == Permutations(Configurers)
=============================================================================

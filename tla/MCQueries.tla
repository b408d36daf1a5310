----------------------------- MODULE MCQueries -----------------------------
(***************************************************************************)
(* Instances of Queries for TLC: the node of bob, whose records alice and  *)
(* a client without a signature also ask for.                              *)
(***************************************************************************)
EXTENDS Queries

Note(r, author, time, schema) ==
    [interface |-> "Records", method |-> "Write", recordId |-> r,
     author |-> author, messageTimestamp |-> time, dateCreated |-> time,
     protocol |-> <<"p">>, protocolPath |-> <<"note">>, schema |-> schema,
     initial |-> FALSE]

To(m, did) == Set(m, "recipient", did)
Publish(m, time) == Set(Set(m, "published", TRUE), "datePublished", time)
Protocol(published) ==
    [interface |-> "Protocols", method |-> "Configure", protocol |-> <<"p">>,
     published |-> published, messageTimestamp |-> 2]

Mine == Note(<<"r1">>, "bob", 1, <<"s">>)
Theirs == To(Note(<<"r2">>, "alice", 1, <<"s">>), "bob")
Public == Publish(Note(<<"r3">>, "bob", 2, <<"s">>), 2)
Sent == To(Note(<<"r4">>, "bob", 3, <<"s", "t">>), "alice")
Self == To(Note(<<"r6">>, "alice", 2, <<"s">>), "alice")

MCMessage ==
    [mine |-> Mine, archived |-> Set(Mine, "initial", TRUE),
     theirs |-> Theirs, public |-> Public, sent |-> Sent, self |-> Self,
     deleted |-> [interface |-> "Records", method |-> "Delete",
                  recordId |-> <<"r1">>, author |-> "bob",
                  messageTimestamp |-> 4, initial |-> FALSE],
     open |-> Protocol(TRUE), closed |-> Protocol(FALSE)]

MCCid ==
    [mine |-> 4, archived |-> 4, theirs |-> 2, public |-> 3, sent |-> 1,
     self |-> 6, deleted |-> 5, open |-> 7, closed |-> 8]

MCItems == DOMAIN MCMessage

\* What is stored, and what comes, while the client is there.
History(stored, new) == [stored |-> stored, put |-> MCItems \ new]

MCHistories ==
    {History({"theirs"}, {"mine", "public"}), History({"public"}, {"mine", "theirs"}),
     History({"mine"}, {"archived", "deleted"}), History({}, {"mine", "archived"}),
     History({}, {"self", "sent"}), History({"open"}, {"closed"})}

\* Both come, one written and received by the same one.
MCHistoriesTwo == {History({}, {"self", "public"})}

ByTime(asc) == [field |-> "messageTimestamp", asc |-> asc]
NoFilter == [d \in {} |-> 0]
BySchema == [schema |-> <<"s">>]
ByRecord == [recordId |-> <<"r1">>]
ByPath == [protocol |-> <<"p">>, protocolPath |-> <<"note">>]

AskOf(kind, requester, filter, asc, limit) ==
    [kind |-> kind, requester |-> requester, filter |-> filter,
     sort |-> ByTime(asc), limit |-> limit, role |-> FALSE, named |-> FALSE,
     permitted |-> FALSE, protocol |-> {}, delegated |-> {}]
Granted(a, protocol) ==
    [a EXCEPT !.named = TRUE, !.permitted = TRUE, !.protocol = protocol]

MCRequest ==
    [all |-> AskOf("query", "bob", NoFilter, TRUE, {1}),
     newest |-> AskOf("query", "bob", BySchema, FALSE, {1}),
     shared |-> AskOf("query", "alice", NoFilter, TRUE, {2}),
     sharedNotes |-> AskOf("query", "alice", BySchema, TRUE, {1}),
     notes |-> AskOf("query", "alice", NoFilter, TRUE, {1}),
     published |-> [AskOf("query", "nobody", BySchema, FALSE, {1})
                       EXCEPT !.sort.field = "datePublished"],
     member |-> [AskOf("query", "alice", ByPath, TRUE, {1})
                    EXCEPT !.role = TRUE, !.permitted = TRUE],
     delegate |-> [AskOf("query", "bob", NoFilter, TRUE, {1})
                      EXCEPT !.delegated = {FALSE}],
     drafts |-> AskOf("query", "nobody", [published |-> FALSE], TRUE, {1}),
     read |-> AskOf("read", "bob", ByRecord, TRUE, {}),
     readOther |-> AskOf("read", "alice", ByRecord, TRUE, {}),
     protocols |-> AskOf("protocols", "nobody", {}, TRUE, {}),
     granted |-> Granted(AskOf("protocols", "alice", {<<"p">>}, TRUE, {}), {<<"p">>}),
     expired |-> [AskOf("protocols", "alice", {}, TRUE, {}) EXCEPT !.named = TRUE],
     log |-> AskOf("messages", "bob", <<[interface |-> "Records"]>>, TRUE, {}),
     grantedLog |-> Granted(AskOf("messages", "alice", <<[protocol |-> <<"p">>]>>,
                                  TRUE, {}), {<<"p">>})]

MCAsks == DOMAIN MCRequest

\* Asks, one item at a time, for what is published and for what alice wrote
\* or received.
MCAsksOne == {"notes"}

=============================================================================

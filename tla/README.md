# TLA+ models of the decentralized web node

The repository is a Rust library: the message handlers of a decentralized web
node (DWN). A node holds the records of its owner. Clients send it signed
messages. The embedding program supplies a *provider*: a block store and an event
stream. This directory holds TLA+ models of the handlers, the TLC configurations
that check them on small instances, and TLAPS proofs about them.

## Parts of the system

| Part | Source | Model |
|---|---|---|
| RecordsWrite: create and update a record | `records/write.rs`, `records/integrity.rs` | `Records`, `Node` |
| RecordsDelete: handler and its resumable task | `records/delete.rs` | `Records`, `Node` |
| Authorization of records by protocol rules and roles | `records/protocol.rs` | `ProtocolRules`, `Node` |
| Permission grants and revocations | `grants.rs`, `grants/verify.rs` | `GrantRules`, `Node` |
| ProtocolsConfigure | `protocols.rs`, `protocols/configure.rs` | `Configure`, `ProtocolRules` |
| RecordsRead, RecordsQuery, RecordsSubscribe, ProtocolsQuery, MessagesQuery, MessagesSubscribe | `records/*`, `protocols/query.rs`, `messages/*` | `Filters`, `Queries`; `ReadOutcome` in `Records` |
| Queries of the store: match sets, order, pages | `store.rs`, `records.rs`, `lib.rs`, `store/index.rs` | `Filters`, `Queries` |
| Message store and indexes, block by block | `store/message.rs`, `store/index.rs` | `IndexStore` |
| Data store | `store/data.rs` | `roots` in `Records` |
| Event log, event stream | `store/event_log.rs`, `event.rs` | `eventLog`, `emitted`; `Filters`, `Queries` |
| Task manager | `tasks.rs`, `store/task.rs` | `TaskTimeout` in `Records` |
| MessagesRead | `messages/read.rs` | not modelled: a lookup by CID that changes nothing |
| Signatures, schemas, errors | `authorization.rs`, `endpoint.rs`, `schema.rs` | not modelled beyond the arrival of a request |
| Client builders | `interfaces/*` | not modelled: they hold no node state |
| Encryption, key derivation, CIDs | `records/encryption.rs`, `hd_key.rs`, `utils.rs` | not modelled: cryptography and encoding |

A handler is an async function. It shares the provider with all other handlers
and takes no lock. It authorizes the message, checks it, fetches the existing
entries of the record, compares the message with them, and then writes to message
store, data store, event log and event stream, one await after the other. Two
handlers interleave at every await. A handler may be dropped at any await, because
the node stops or the client goes away; nothing resumes it.

## Modules

**`MessageOrder`**: the order by timestamp and CID that store and handlers share.

**`Records`**: the two handlers that change records. A handler is a process; an
action is the code from one await on a store to the next. The values of `pc` are
places in the code:

| `pc` | Code |
|---|---|
| `parent` | `verify_protocol_path` (integrity.rs:111) |
| `fetch` | `existing_entries` and the checks after it (write.rs:40-85) |
| `data_put`, `data_get` | `update_data`, `clone_data` (write.rs:461-536) |
| `put`, `log`, `emit` | write.rs:96-104, and delete.rs:240-243 for a delete |
| `archive`, `archive_log`, `archive_data` | the initial write is archived (write.rs:106-121) |
| `delete`, `delete_data`, `delete_log` | the loop over the other entries (write.rs:123-132) |
| `active` | the delete handler (delete.rs:34-84) |
| `task` | the delete task (delete.rs:207-241) |
| `children` | `delete_children` (delete.rs:257-293) |
| `earlier_data`, `earlier`, `earlier_log` | `delete_earlier` (delete.rs:323-351) |

State: `stored`, `archived` (indexed with `initial = "true"`), `encoded` (stored
with inline data), `roots` (the data store), `eventLog`, `emitted`, and for each
handler its request and the entries it fetched. A fetched entry keeps what it was
when it was fetched: `existingEncoded` remembers whether it had inline data.
`parent` stands for all immutable properties. `Refuse` stands for authorization
and integrity checks, which may turn any message down here; `Node` makes them
precise. Messages are sent without a client-supplied `encodedData`.

**`LatestWins`**: the abstract specification of records, one register per record.
It starts with an initial write, and a message is accepted only if it is newer
than the latest one. The refinement mapping is `Settled`: the messages that are
stored or superseded by a stored one.

**`Configure`**: the ProtocolsConfigure handler: fetch, conflict check, the loop
that deletes the configurations found, put, log, emit. `dropped` and `overlapped`
are history variables.

**`ProtocolRules`, `GrantRules`**: pure operators. What `validate_structure`
accepts, what a rule set demands of a record, what it permits an author to do;
what a grant covers, until when, and what its revocation deletes.

**`Node`**: the composition. It extends `Records` and `Configure` and puts a
`gate` before the steps of `Records`: the check a request has come to, each of
which reads the store at an await of its own.

| `gate` | Code |
|---|---|
| `grant`, `current` | `fetch_grant`, `permit_write`, `is_current` (write.rs:367-373, verify.rs) |
| `role`, `role_holder` | `permit_role` (protocol.rs:100-148) |
| `rules`, `chain`, `action` | the rule set, the ancestors one by one, `permit_action` (protocol.rs:152-228) |
| `verify`, `parent`, `role_record`, `revocation` | `verify` (integrity.rs) |
| `open` | the handler of `Records` goes on |
| `revoke`, `revoke_query`, `revoke_delete`, `revoke_log` | `revoke_grants` (write.rs:539-571) |

A write that the owner wrote, or signed as well (`owner`), goes straight to `verify`.
Records of permissions belong to the built-in protocol, which a grant's scope is
compared with. The history variable `concurrent` holds the pairs of messages whose
requests were in progress at once; `revoked` the revocations whose clean-up was
completed. The author of the record's first write, which decides what counts as the
action, is looked up in the step `action` itself. The checks of `verify` that need no look at the store are made before the parent is looked up;
the order is immaterial because a refused message leaves no trace. The reply to a
revocation is given by the step of `Records` before the clean-up. All messages of
a record carry the path, context and recipient of the record.

**`Filters`**: what a query selects: filters, match sets and matchers, which
queries of the store the handlers make of a request, and what the filter of a
subscription lets through. **`Queries`**: a client subscribes, then collects the
answer to a request page by page, or reads one record. Meanwhile handlers put a
message in the store, append it to the event log and emit its event (`Put`,
`AppendEvent`, `Emit`), put an initial write again to archive it (`Archive`), and
delete a message from the store, then from the log (`Delete`, `DeleteEvent`), each
in a step of its own. Messages are queried in the log, everything else in the
store. `query_concise` and `query_full` are the two strategies of store/index.rs.
One query is one step; a read that finds a delete fetches the initial write in a
second one (`Read`, `ReadDeleted`). What a role or a grant permits (`permitted`, and
`delegated` for a delegated grant) is an input. Numbers and ranges as tags and the
validation of URIs are left out. `steady` and `restarted` are history variables:
what was there all the time, and whether the item of a cursor was gone when it was
used. `returned` counts how often an item was on a page, up to `Often`, which is two:
the properties ask whether it was there, and whether more than once.

**`IndexStore`**: the message store block by block. `put` stores the message block,
looks up the values the message had (`Lookup`), removes them from each index,
inserts the new ones and stores the reverse lookup. Each change of an index is
three steps: `ReadIndex`, `ClearIndex`, `PutIndex`. A query reads one index and
then each message block. One CID may be put with different values, as when an
initial write is archived. `IndexLimit` stands for the size at which an index no
longer fits a block. `settled`, `expected` and `contended` are history variables.

**Atomic store operations.** In all modules but `IndexStore` each `put`, `delete`
and query of the message store is one step. In the code each is many awaits, and
`IndexStore` shows that overlapping ones lose index entries. What is checked and
proved of the other modules is therefore about the handlers over a message store
whose operations are atomic: one with a lock, or a provider that overrides the
default store.

External behaviour: a block store `put` under a key that is taken either keeps or
replaces the block (the provider trait does not say which), and a future may be
dropped at any await (`Abandon`, `DropConfigure`, `DropRequest`).

The `MC` modules hold the pools of messages for TLC. Definitions marked as mutants
are changed versions of an operator, each with a slip the code could have had; the
property named with it in `PROJECT.json` catches it.

## Runs

| Run | Instance | Checks |
|---|---|---|
| `records_interrupted` | 2 handlers, dropped anywhere; a record with 4 writes and a prune | `InitialRetained`, `EmittedCovered`, `ImmutableAgree`, `LatestWinsSpec` |
| `records_sequential` | 1 handler, a record and its child, 8 messages | types, `OnlyInitialAndLatest`, `DeletedIsFinal`, `LiveRecordReadable`, `LogMatchesStore`, `AcceptedDeleteStored` |
| `index_sequential` | 1 operation at a time, 2 messages, 3 indexes, 3 entries | types, `IndexExact`, `QueryExact` |
| `protocol_space` | 2 handlers; a thread, two memberships of one person, a chat, deletes of the thread and of a membership | `ParentStillThere`, `RoleStillHeld`, `RoleOnce` |
| `protocol_change` | 2 configurers and a handler, dropped anywhere; 3 definitions of a protocol | `ConfigTypeOK`, `AcceptedConfigKept`, `OneConfigUnlessOverlapped` |
| `grants` | 2 handlers, fair; a grant, notes under it, its revocation and its delete | `NodeTypeOK`, `GrantStillGood`, `RevokedWritesGone`, `EveryRequestDone` |
| `query_pages` | 16 requests of an owner, another person and an anonymous client; 9 messages, of which up to 3 are stored or come while the client is there | types, `NothingMissed`, `NoRepeats`, `PagesInOrder`, `VisibleOnly`, `LiveView`, `PagingEnds` |

Bounds. Two handlers are enough for one to act on what the other has changed; the
proofs cover any number. The pools make ties of timestamps, data kept and
replaced, deletes older and newer than updates, roles and parents that go away
between check and put, and a revocation in the middle of a write happen. In
`records_sequential` no delete has the timestamp of an update and no two writes of
a record name the same large data; what happens otherwise is below. In
`records_interrupted` only writes are tied; the proofs cover a delete tied with a
write. The runs of `Node` start when the owner has set up a protocol and one record; their action
constraint `SentOnce` sends each message once and accepts `MaxAccepted` messages,
which bounds the run and drops no interleaving of those. In `query_pages` a history
says what is stored when the client arrives and what may still come; the other
messages have come and gone.

Several properties exempt requests that overlapped: `ParentStillThere`,
`RoleStillHeld`, `RoleOnce`, `GrantStillGood`, `RevokedWritesGone` and
`OneConfigUnlessOverlapped`; `AcceptedConfigKept` exempts handlers that were dropped.
The code takes no lock, so an overlap can break what these say. The properties
characterise the damage: nothing else causes it, in particular no request that had
finished before, and none about a record that the check does not look at. `AcceptedDeleteStored`,
`OnlyInitialAndLatest` and `LogMatchesStore` are checked and proved with one handler
that is not dropped, and say nothing about overlaps.

`protocol_space`, `protocol_change`, `grants` and the two runs of `Queries` turn
the deadlock check off: their messages are used up and the client is served.

Fairness. `HandlersRun` asks that a handler of `Node` with an enabled step takes
one: the runtime polls a woken future, the provider's futures complete, and no
handler waits for another. Nothing is assumed of arrivals, drops, timeouts or
configurers. In `Queries` a handler that reads is polled until it answers, and the
client asks on: it gets the next page, unless again and again the page would lead
back to the cursor it is asked for with (`FairSpec`). Nothing is assumed of those who
put, log, emit and delete.

`PagingEnds` excepts one case, `Stuck`, which the code has: the cursor is at an item
that `query_full` collects more often than the limit. The page from there ends in
that item again, and its cursor is the one the client came with, for as long as the
item is stored. A client that asks for one item at a time what is published or
concerns it stays at a record it sent to itself.

Five runs show where the code departs from what its comments and tests say:

| Run | What TLC shows |
|---|---|
| `race_delete` | an update is stored after the delete of its record (write.rs:60-73) |
| `keep_large_data` | the second update in a row that keeps large data deletes that data (write.rs:130) |
| `prune_children` | a prune leaves the children (delete.rs:279-283) |
| `index_writers` | of two overlapping puts one loses the index entry of the other (index.rs:37-45) |
| `page_limit` | an item that matches two match sets is counted twice, the count steps over the limit, and the page holds two items where one was asked for (index.rs:216-221) |

More departures follow from the models, without a run of their own:

- A delete with the timestamp of the latest update leaves the update active, and
  reads fail (delete.rs:332): `DeletedIsFinal` needs distinct timestamps.
- Of two overlapping updates both may stay active (write.rs:43):
  `OnlyInitialAndLatest` needs requests one after the other.
- A delete whose task fails, because a newer write came after the handler's own
  check, is answered as accepted (tasks.rs:59): `AcceptedDeleteStored` needs
  requests one after the other.
- Bytes of a large upload are stored before they are checked and stay when the
  check fails (write.rs:486-500).
- A copy of an initial write, co-signed by the owner and sent without data,
  archives both copies (write.rs:98): the record can no longer be read.
- A query between `ClearIndex` and `PutIndex` takes the index for empty, and a put
  that makes an index larger than a block removes the index (index.rs:120-122):
  `QueryExact` and `IndexExact` need operations one after the other and indexes that
  fit.
- A write created at the very time of a revocation is permitted by `is_current`
  and deleted by the clean-up (verify.rs:149, lib.rs:297). The clean-up may also
  delete an initial write made under the grant and keep an update of the owner's.
  It selects by date of creation: an update under the grant whose request overlapped
  with the revocation stays if its record was created before. `RevokedWritesGone`
  speaks of what was created after.
- `query_full` scans upwards whatever the order asked for, so `PagesInOrder` holds
  of its ascending queries only; a limit of zero returns one item.
- A subscription of someone else is limited to what they both wrote and received
  (records/subscribe.rs:37 speaks of either). A tag filter by prefix becomes
  equality in queries (store.rs:379-519), not in subscriptions.

## Proofs

All theorems hold for every value of the constants that satisfies the named
assumptions of the modules (`MessagesAssumption`, `ConstantsAssumption`,
`ConfigsAssumption`, `NodeAssumption`, `ItemsAssumption`, `AsksAssumption`, those of
`IndexStore`): CIDs identify messages, initial writes of a record agree on what its
id is the hash of, contexts match paths, what is sorted by a date has it.

**`RecordsProofs`** (any number of handlers, with and without drops): `TypeCorrect`,
`InitialIsRetained`, `EmittedIsCovered`, `ImmutablesAgree`, and `Implements`, that
`Records` implements `LatestWins`. None of the invariants is inductive alone: a
handler acts on entries it fetched earlier while others change the store. The
inductive `Inv` adds, for each handler: the entries it holds precede its message,
and an initial write no later than each of them is still stored; before its put,
its message is an initial write or has one stored; after its put, its message is
stored or superseded. Every step of one handler preserves the claims of the others
(`OthersKeep`), because it only removes a message when a newer one of the record is
stored and an initial write before it is. The event log comes last: a message is
logged only after its put, and what `LatestWins` has accepted stays accepted
(`LogCoveredStep`).

**`SequentialProofs`** (one handler, not dropped: `Sequential`): `LogAndStoreMatch`;
with `DeletesApart` (no delete has the timestamp of another message of its record)
also `InitialAndLatestOnly`, `DeletesAreFinal`, `AcceptedDeletesStored`; with
`LargeDataApart` (no two writes of a record share large data) `LiveRecordsReadable`.
The assumptions are needed: see the departures above. `SequentialInv` says what
every record looks like at rest, and for the record being changed, what it looks
like at each step of its handler.

**`IndexProofs`**: `IndexTypes` for any number of workers. With one operation at a
time (`OneAtATime`) and indexes that fit (`IndexesFit`): `IndexesAreExact`,
`StoredAreFound`, `QueriesAreExact`. `ExactInv` says of each index which entries are
right already while an operation works through the fields of one message.

**`ConfigureProofs`** (any number of handlers, with drops): `ConfigTypeCorrect`,
`ConfigsAreKept`, `ConfigsAreAlone`. `ConfigInv` adds that a handler past its
conflict check is newer than all it will delete, that an announced configuration is
stored, superseded, or about to be by a handler in its loop (`Standing`), and that
requests in progress together are recorded as overlapping.

**`NodeProofs`** (any number of handlers and configurers, with drops):
`NodeTypeCorrect`, `ParentIsThere`, `RoleIsHeld`, `GrantIsGood`, `RoleIsOnce`;
`NodeConfigures`, that the node implements `Configure`; `NodeImplementsRecords`, that
without revocations it implements `Records`, so that the theorems of
`RecordsProofs` hold of it. `NodeInv` keeps, with each handler past a check, the fact
the check found (`CheckedFor`). Such a fact about a record can only be lost to a
request about that record or to the clean-up of a revocation (`Frame`), and such a
request is then in `concurrent`.

**`RevokeProofs`**: `RevokedAreGone`. `RevokeInv` follows one revocation through its
put, its query and its clean-up: a write it will have to account for is either
found by the query, or refused by `is_current`, or its request overlapped.

**`QueriesProofs`** (any messages and requests): `QueriesTypes`, `OnlyVisibleShown`.
For each kind of request a lemma says what its match sets let through
(`QueryVisible`, `AnswerVisible`), and `ConciseFindsAll` that the search of one index
finds all that matches.

**`PagesProofs`**: `NothingIsMissed`, `ViewIsLive`, `NothingIsRepeated` and
`PagesAreInOrder`. One lemma for each strategy says what a page contains: all that
lies between its cursor and the next (`ConciseScan`, `FullScan`). `PagingInv` says
that all that matched and stayed before the cursor has been returned, `RepeatInv`
that nothing from the cursor on has, but for an item at the cursor that was
collected for two match sets, `LiveInv` that what is selected was there when
the query was made, or its event has come or is to come.

Only model-checked: liveness (`EveryRequestDone`, `PagingEnds`), which the prover
cannot do. The runs of `Node` start from a set-up state instead of an empty node;
the theorems start from the empty one.

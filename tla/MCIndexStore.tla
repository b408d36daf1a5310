--------------------------- MODULE MCIndexStore ---------------------------
(***************************************************************************)
(* Entries for the model checking of IndexStore: a write of record r1 that *)
(* is put as a queryable message and again as an archived one, and a       *)
(* delete of the same record, which has other fields.                      *)
(***************************************************************************)
EXTENDS IndexStore, TLC

CONSTANTS a, b, recordId, initial, dateCreated, r1, yes, no, t1

Put(c, fs) == [cid |-> c, fields |-> fs]

Queryable == Put(a, recordId :> r1 @@ initial :> no @@ dateCreated :> t1)
Archived == Put(a, recordId :> r1 @@ initial :> yes @@ dateCreated :> t1)
Deletion == Put(b, recordId :> r1 @@ initial :> no)

EntryPool == {Queryable, Archived, Deletion}
=============================================================================

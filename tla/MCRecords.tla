----------------------------- MODULE MCRecords -----------------------------
(***************************************************************************)
(* Pools of messages for the model checking of Records.                    *)
(***************************************************************************)
EXTENDS Records, TLC

CONSTANTS r1, r2, small, large, large2

Write(r, t, c, init, d, par) ==
    [kind |-> "write", record |-> r, ts |-> t, cid |-> c, initial |-> init,
     data |-> d, parent |-> par, prune |-> FALSE]

Del(r, t, c, pr) ==
    [kind |-> "delete", record |-> r, ts |-> t, cid |-> c, initial |-> FALSE,
     data |-> NoData, parent |-> NoRecord, prune |-> pr]

\* One record with large data: its initial write, two updates with the same
\* timestamp, one that moves the record below itself, and an older delete that
\* prunes.
InterruptPool ==
    {Write(r1, 1, 2, TRUE, large, NoRecord),
     Write(r1, 3, 1, FALSE, large, NoRecord),
     Write(r1, 3, 3, FALSE, large, NoRecord),
     Write(r1, 3, 5, FALSE, large, r1),
     Del(r1, 2, 4, TRUE)}

\* For the sequential node: a record whose writes bring small data, keep it, and
\* bring large data no other write of the record names; deletes newer than all
\* of its writes; and a child.
SequentialPool ==
    {Write(r1, 1, 3, TRUE, small, NoRecord),
     Write(r1, 2, 1, FALSE, small, NoRecord),
     Write(r1, 2, 2, FALSE, large, NoRecord),
     Write(r1, 3, 4, FALSE, large2, NoRecord),
     Write(r1, 6, 5, FALSE, small, NoRecord),
     Del(r1, 4, 6, FALSE),
     Del(r1, 5, 7, TRUE),
     Write(r2, 2, 8, TRUE, large, r1)}

\* A record with large data and updates that keep it, sent without a stream.
KeepLargePool ==
    {Write(r1, 1, 1, TRUE, large, NoRecord),
     Write(r1, 2, 2, FALSE, large, NoRecord),
     Write(r1, 3, 3, FALSE, large, NoRecord)}

\* A delete and an update that is newer.
RacePool ==
    {Write(r1, 1, 1, TRUE, small, NoRecord),
     Write(r1, 3, 2, FALSE, small, NoRecord),
     Del(r1, 2, 3, FALSE)}

HandlerSymmetry == Permutations(Handlers)
=============================================================================

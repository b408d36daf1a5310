---------------------------- MODULE LatestWins ----------------------------
(***************************************************************************)
(* What the records of a web node promise: each record is a register in    *)
(* which the latest message wins.  The state of a record is the set of the *)
(* messages that can no longer become its latest one: those that are not   *)
(* newer than the latest message accepted so far.                          *)
(***************************************************************************)
EXTENDS Naturals

CONSTANTS Messages, Record

VARIABLE settled

Older(m, n) == m.ts < n.ts \/ (m.ts = n.ts /\ m.cid < n.cid)

\* m and everything it supersedes.
Down(m) == {n \in Messages : n.record = m.record /\ (n = m \/ Older(n, m))}

Init == settled = [r \in Record |-> {}]

\* A record starts with an initial write and moves to newer messages only.
Accept(m) ==
    /\ m \notin settled[m.record]
    /\ settled[m.record] = {} => m.initial
    /\ settled' = [settled EXCEPT ![m.record] = @ \cup Down(m)]

Next == \E m \in Messages : Accept(m)

Spec == Init /\ [][Next]_settled
=============================================================================

---------------------------- MODULE MessageOrder ----------------------------
(***************************************************************************)
(* The order of the messages of a web node: the store sorts by timestamp,  *)
(* then CID, and the handlers compare messages the same way.  A message is *)
(* a record with the fields ts and cid; its CID identifies it.             *)
(***************************************************************************)
EXTENDS Naturals

Precedes(m, n) == m.ts < n.ts \/ (m.ts = n.ts /\ m.cid < n.cid)

NoLater(m, n) == m = n \/ Precedes(m, n)

IsEarliest(m, S) == m \in S /\ \A n \in S : NoLater(m, n)

IsLatest(m, S) == m \in S /\ \A n \in S : NoLater(n, m)
=============================================================================

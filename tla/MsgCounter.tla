----------------------------- MODULE MsgCounter -----------------------------
(***************************************************************************)
(* The per-round reply bookkeeping of the proposer (class MsgCounter,     *)
(* used by src/src/algorithm/proposer.cpp).  Its source is not among the  *)
(* files under src/, so it is written from section 4.4 of the spec: three *)
(* sets of node ids and three threshold tests against the configured node *)
(* count.                                                                 *)
(***************************************************************************)
EXTENDS Naturals, FiniteSets

\* StartNewRound(): the three sets cleared.
EmptyRound == [receive |-> {}, promiseOrAccept |-> {}, reject |-> {}]

\* AddReceive / AddPromiseOrAccept / AddReject: idempotent set insertion.
AddReceive(c, n)          == [c EXCEPT !.receive = @ \cup {n}]
AddPromiseOrAccept(c, n)  == [c EXCEPT !.promiseOrAccept = @ \cup {n}]
AddReject(c, n)           == [c EXCEPT !.reject = @ \cup {n}]

\* IsPassedOnThisRound(): strictly more than half of nodeCount promised or accepted.
IsPassedOnThisRound(c, nodeCount) == Cardinality(c.promiseOrAccept) * 2 > nodeCount

\* IsRejectedOnThisRound(): strictly more than half rejected.
IsRejectedOnThisRound(c, nodeCount) == Cardinality(c.reject) * 2 > nodeCount

\* IsAllReceiveOnThisRound(): every configured node has replied.
IsAllReceiveOnThisRound(c, nodeCount) == Cardinality(c.receive) = nodeCount
=============================================================================

---------------------------- MODULE BallotNumber ----------------------------
(***************************************************************************)
(* The BallotNumber value type of src/src/algorithm/base.h: a pair        *)
(* (proposal id, node id) ordered on the proposal id first and on the     *)
(* node id on a tie.  A zero proposal id is the null ballot.              *)
(***************************************************************************)
EXTENDS Naturals

\* BallotNumber(llProposalID, llNodeID): the two fields of the class.
Ballot(pid, node) == [pid |-> pid, node |-> node]

\* The default constructor and reset(): proposal id 0, node id 0 (nullnode).
NullBallot == Ballot(0, 0)

\* isnull(): only the proposal id is looked at.
IsNull(b) == b.pid = 0

\* Variant of BallotGEq that compares the proposal ids only.
BallotGEqPidOnly(b1, b2) == b1.pid >= b2.pid

\* operator >=: the node id breaks a tie on the proposal id.
BallotGEq(b1, b2) ==
    IF b1.pid = b2.pid THEN b1.node >= b2.node ELSE b1.pid >= b2.pid

\* operator >: strict version of the same order.
BallotGt(b1, b2) ==
    IF b1.pid = b2.pid THEN b1.node > b2.node ELSE b1.pid > b2.pid

=============================================================================

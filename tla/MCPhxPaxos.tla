----------------------------- MODULE MCPhxPaxos -----------------------------
(* Model values and bounds for checking PhxPaxos with TLC. *)
EXTENDS PhxPaxos

CONSTANTS v1, v2

MCValues == {v1, v2}

\* Node 1 proposes v1, node 2 proposes v2.
MCClientValue == [p \in 1..2 |-> IF p = 1 THEN v1 ELSE v2]

\* Every node starts from an empty database.
MCPriorEmpty == {[a \in Nodes |-> EmptyState]}

\* What a node may hold when proposers of nodes 2 and 3 have gone silent:
\* a promise to (1,2) or (1,3), or (1,2) accepted with v2.
SilentStates ==
    {EmptyState,
     [inst |-> 1, promise |-> Ballot(1, 2), accepted |-> NullBallot, value |-> NoValue],
     [inst |-> 1, promise |-> Ballot(1, 3), accepted |-> NullBallot, value |-> NoValue],
     [inst |-> 1, promise |-> Ballot(1, 2), accepted |-> Ballot(1, 2), value |-> v2],
     [inst |-> 1, promise |-> Ballot(1, 3), accepted |-> Ballot(1, 2), value |-> v2]}

\* A ballot is only ever accepted after a majority promised it, and the
\* promises are durable.
PriorPossible(st) ==
    \A a \in 1..3 :
        ~IsNull(st[a].accepted) =>
            IsMajority({n \in 1..3 : BallotGEq(st[n].promise, st[a].accepted)})

\* Node 1 starts empty, nodes 2 and 3 from any silent state that a run of
\* Paxos can leave behind.
MCPriorSilent ==
    {st \in {[a \in 1..3 |-> IF a = 1 THEN EmptyState ELSE IF a = 2 THEN s2 ELSE s3] :
               s2 \in SilentStates, s3 \in SilentStates} :
        PriorPossible(st)}

\* Timer firings allowed to each proposer.
MCNoRetry    == [p \in 1..2 |-> 0]
MCRetryTwice == [p \in 1..2 |-> 2]
=============================================================================

---------------------------- MODULE PaxosMessages ----------------------------
(***************************************************************************)
(* What the proposer and the acceptor roles share: the node set, the      *)
(* value set, the instances, the bound on proposal ids, and the network.  *)
(*                                                                         *)
(* Paxos messages go out through Base::SendMessage / BroadcastMessage with *)
(* the default send type Message_SendType_UDP (base.h): the UDP transport  *)
(* of src/src/communicate/udp.cpp may drop, duplicate and reorder them.    *)
(* The network is therefore the set of every message ever sent: a message *)
(* in it may be received any number of times, in any order, or never.     *)
(***************************************************************************)
EXTENDS Naturals, FiniteSets, BallotNumber

CONSTANTS
    N,              \* number of nodes in the group (Config node count)
    Values,         \* values a client may hand to NewValue
    NoValue,        \* the empty std::string
    MaxProposalID,  \* bound on proposal ids, a model bound
    MaxInstance     \* bound on the instance ids a node reaches, a model bound

\* Node ids 1..N: every node runs an acceptor; the node id is the
\* tie-breaker of BallotNumber, so node ids are numbers.
Nodes == 1..N

ProposalIDs == 1..MaxProposalID

Ballots == {NullBallot} \cup [pid : ProposalIDs, node : Nodes]

\* Instance ids: the slots of the replicated log, numbered from 1 here.
Instances == 1..MaxInstance

VARIABLE msgs

\* PaxosMsg with its logical fields (spec section 6); inst is instanceid,
\* set by the proposer to its instance and copied into the reply.
PrepareMsgs      == [type : {"Prepare"}, inst : Instances, from : Nodes,
                     pid : ProposalIDs]
AcceptMsgs       == [type : {"Accept"}, inst : Instances, from : Nodes,
                     pid : ProposalIDs, value : Values]
PrepareReplyMsgs == [type : {"PrepareReply"}, inst : Instances, from : Nodes,
                     to : Nodes, pid : ProposalIDs, preAccept : Ballots,
                     value : Values \cup {NoValue},
                     rejectBy : 0..MaxProposalID]
AcceptReplyMsgs  == [type : {"AcceptReply"}, inst : Instances, from : Nodes,
                     to : Nodes, pid : ProposalIDs, rejectBy : 0..MaxProposalID]

Messages == PrepareMsgs \cup AcceptMsgs \cup PrepareReplyMsgs \cup AcceptReplyMsgs

\* Enqueue to the transport: fire and forget.
Send(S) == msgs' = msgs \cup S

\* A strict majority of the N configured nodes.
IsMajority(S) == Cardinality(S) * 2 > N
=============================================================================

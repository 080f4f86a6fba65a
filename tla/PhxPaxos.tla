------------------------------ MODULE PhxPaxos ------------------------------
(***************************************************************************)
(* A group of N nodes running the instances 1..MaxInstance of the log:   *)
(* every node runs an Acceptor, the nodes in Proposers also run a         *)
(* Proposer whose client calls NewValue.  Messages travel through the UDP *)
(* network of PaxosMessages.  Each handler runs to completion before the  *)
(* next one starts: messages and timeouts of a group are processed one at *)
(* a time (spec section 5).  A node works in one instance at a time and   *)
(* moves to the next once it has learned the value of its own.            *)
(***************************************************************************)
EXTENDS Proposer

vars == <<acceptorVars, proposerVars, msgs>>

TypeOK ==
    /\ msgs \subseteq Messages
    /\ AcceptorTypeOK
    /\ ProposerTypeOK

Init ==
    /\ msgs = {}
    /\ AcceptorInit
    /\ ProposerInit

\* Instance::OnReceivePaxosMsg on an acceptor: a Prepare or an Accept of
\* another node arrives; only one of the acceptor's instance is handled
\* (one of a later instance waits in the retry queue until the node gets
\* there, which the network set already allows).
AcceptorStep ==
    /\ \E a \in Nodes, m \in msgs :
          /\ m.inst = instance[a]
          /\ \/ OnPrepare(a, m)
             \/ OnAccept(a, m)
    /\ UNCHANGED proposerVars

\* The proposer of node p: its client's value, a reply addressed to it, or
\* one of its timers.  Instance::ReceiveMsgForProposer hands a reply of
\* the node's instance to the round handlers, one of the instance before
\* to the expired-reply handlers, and drops any other.
ProposerStep(p) ==
    \/ NewValue(p, ClientValue[p])
    \/ \E m \in msgs : /\ m.inst = instance[p]
                      /\ \/ OnPrepareReply(p, m)
                         \/ OnAcceptReply(p, m)
    \/ \E m \in msgs : /\ m.inst + 1 = instance[p]
                      /\ \/ OnExpiredPrepareReply(p, m)
                         \/ OnExpiredAcceptReply(p, m)
    \/ OnPrepareTimeout(p)
    \/ OnAcceptTimeout(p)

\* The machine of a node without a proposer crashes and restarts.
Restart ==
    /\ \E a \in Nodes \ Proposers : AcceptorRestart(a)
    /\ UNCHANGED proposerVars

-----------------------------------------------------------------------------
(* Chosen in the sense of the Paxos algorithm: a majority of acceptors    *)
(* has, at some time, accepted the same value under the same ballot in    *)
(* instance i.                                                            *)
ChosenAt(i, b, v) == IsMajority({a \in Nodes : <<i, a, b, v>> \in votes})

Chosen(i, v) == \E b \in Ballots : ChosenAt(i, b, v)

chosenValues(i) == {v \in Values : Chosen(i, v)}

\* The instances seen as the abstract Consensus service.
C == INSTANCE Consensus WITH Slots <- Instances,
                             chosen <- [i \in Instances |-> chosenValues(i)]

\* Instance::NewInstance (not under src/): once the node has learned the
\* value chosen in its instance, Base::NewInstance of each role increments
\* the instance id and calls its InitForNewPaxosInstance.
NewInstance(a) ==
    /\ instance[a] < MaxInstance
    /\ \E v \in Values : Chosen(instance[a], v)
    /\ instance' = [instance EXCEPT ![a] = @ + 1]
    /\ AcceptorStateInit(a)
    /\ prop' = IF a \in Proposers
               THEN [prop EXCEPT ![a] = ProposerInitForNewPaxosInstance(@)]
               ELSE prop
    /\ UNCHANGED <<durable, votes, synced, syncTimes, restarts, msgs,
                   chosenReports, timeouts>>

Next == \/ AcceptorStep
        \/ \E p \in Proposers : ProposerStep(p)
        \/ Restart
        \/ \E a \in Nodes : NewInstance(a)

Spec == Init /\ [][Next]_vars

-----------------------------------------------------------------------------
(* Properties.                                                            *)

\* Spec section 8, Safety: the Learner is only ever told of one value for
\* the instance, whichever proposer's OnAcceptReply reached a majority.
LearnerAgreement ==
    \A r1, r2 \in chosenReports : r1.inst = r2.inst => r1.value = r2.value

\* A proposer reports a value chosen (OnAcceptReply passed) only when a
\* majority of acceptors really accepted that value under its ballot: the
\* accept replies it counted answer the Accept it broadcast last.
ReportedWasAccepted ==
    \A r \in chosenReports : ChosenAt(r.inst, r.ballot, r.value)

\* Safe-value selection: every Accept a proposer broadcasts carries the
\* value already chosen at any lower ballot.  This is what Prepare's reset
\* of the pre-accept ballot, AddPreAcceptValue's choice of the highest one
\* and the quorum test of OnPrepareReply must achieve together.
AcceptedValueIsSafe ==
    \A m \in msgs :
        m.type = "Accept" =>
            \A b \in Ballots, w \in Values :
                (BallotGt(MsgBallot(m), b) /\ ChosenAt(m.inst, b, w)) => m.value = w

\* A proposer that is preparing or accepting always holds the timer of its
\* phase, and that timer is stamped with the node's current instance, so
\* OnPrepareTimeout/OnAcceptTimeout never skip it on the m_llTimeoutInstanceID
\* test: when every reply is lost the proposer still starts a new Prepare.
\* The retry timers armed after a rejection do not stamp the instance; this
\* holds only because a default timer of the same instance always came first
\* and InitForNewPaxosInstance leaves both phases when the node moves on.
WorkingProposerWillRetry ==
    \A p \in Proposers :
        /\ prop[p].isPreparing => prop[p].prepareTimer
        /\ prop[p].isAccepting => prop[p].acceptTimer
        /\ IsWorking(prop[p]) => prop[p].timeoutInstance = instance[p]

\* Every instance refines Consensus: at most one value is ever chosen in
\* it, and a chosen value stays chosen.
ConsensusRefined == C!ConsensusSpec

\* Spec section 6: a reply that depends on a promise or an accept is sent
\* only after AcceptorState::Persist has made it durable, so the durable
\* promise of the replying acceptor covers the ballot it answered.
ReplyIsDurable ==
    \A r \in msgs :
        /\ r.type \in {"PrepareReply", "AcceptReply"}
        /\ r.rejectBy = 0
        => BallotGEq(durable[r.from].promise, Ballot(r.pid, r.to))

\* A promise or accept once sent is kept across machine crashes: the
\* acceptor that replied never again holds a promise below the ballot it
\* answered, whatever restarts and AcceptorState::Load lose.  With
\* SyncInterval > 0, Persist replies on writes that were not synced.
PromiseKept ==
    \A r \in msgs :
        /\ r.type \in {"PrepareReply", "AcceptReply"}
        /\ r.rejectBy = 0
        => BallotGEq(promiseBallot[r.from], Ballot(r.pid, r.to))
=============================================================================

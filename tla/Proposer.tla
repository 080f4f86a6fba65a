------------------------------ MODULE Proposer ------------------------------
(***************************************************************************)
(* The proposer role of one node: ProposerState and Proposer of           *)
(* src/src/algorithm/proposer.cpp.  It works in the instance of its node, *)
(* instance[p], and is reset by InitForNewPaxosInstance when the node     *)
(* moves on.                                                               *)
(*                                                                         *)
(* prop[p] holds the fields of ProposerState and Proposer that drive the   *)
(* protocol.  The two timers are kept as "a timer of this type is         *)
(* pending": AddPrepareTimer / AddAcceptTimer first remove the pending    *)
(* one, ExitPrepare / ExitAccept remove it, so at most one of each type   *)
(* is pending.  Timeout durations and the randomized 10-40 ms retry delay *)
(* only decide when a timer fires, which the model leaves free.           *)
(* chosenReports is a history of Learner::ProposerSendSuccess calls.      *)
(*                                                                         *)
(* A proposer is on a node that also runs an acceptor.  Prepare           *)
(* broadcasts with BroadcastMessage_Type_RunSelf_First and Accept with    *)
(* RunSelf_Final: the own acceptor handles the message inside the same   *)
(* handler, and its reply, sent to the own node id, is handed straight   *)
(* back to the proposer.  With N >= 2 that one reply never completes a    *)
(* round, so it only updates the MsgCounter.                              *)
(***************************************************************************)
EXTENDS Acceptor, MsgCounter

CONSTANTS
    Proposers,       \* the nodes whose clients call NewValue
    ClientValue,     \* ClientValue[p]: the value the client of node p proposes
    MaxTimeouts      \* MaxTimeouts[p]: bound on the timer firings of p, a model bound

VARIABLES
    prop,            \* prop[p]: the proposer state of node p
    chosenReports,   \* history: [inst, node, ballot, value] of every ProposerSendSuccess
    timeouts         \* timeouts[p]: timer firings of p so far

ASSUME N >= 2 /\ Proposers \subseteq Nodes

proposerVars == <<prop, chosenReports, timeouts>>

Counters == [receive : SUBSET Nodes, promiseOrAccept : SUBSET Nodes,
             reject : SUBSET Nodes]

ProposerRecords ==
    [proposalID : ProposalIDs, highestOtherProposalID : 0..MaxProposalID,
     value : Values \cup {NoValue}, highestOtherPreAcceptBallot : Ballots,
     isPreparing : BOOLEAN, isAccepting : BOOLEAN,
     canSkipPrepare : BOOLEAN, wasRejectBySomeone : BOOLEAN,
     counter : Counters, prepareTimer : BOOLEAN, acceptTimer : BOOLEAN,
     timeoutInstance : Instances \cup {0}]

ProposerTypeOK ==
    /\ prop \in [Proposers -> ProposerRecords]
    /\ chosenReports \subseteq [inst : Instances, node : Proposers, ballot : Ballots,
                                value : Values]
    /\ timeouts \in [Proposers -> Nat]

\* ProposerState(): m_llProposalID = 1 and Init(); Proposer(): both phases
\* off, no skip, no rejection, no timer.
ProposerInit ==
    /\ prop = [p \in Proposers |->
                 [proposalID |-> 1, highestOtherProposalID |-> 0,
                  value |-> NoValue, highestOtherPreAcceptBallot |-> NullBallot,
                  isPreparing |-> FALSE, isAccepting |-> FALSE,
                  canSkipPrepare |-> FALSE, wasRejectBySomeone |-> FALSE,
                  counter |-> EmptyRound,
                  prepareTimer |-> FALSE, acceptTimer |-> FALSE,
                  timeoutInstance |-> 0]]
    /\ chosenReports = {}
    /\ timeouts = [p \in Proposers |-> 0]

-----------------------------------------------------------------------------
(* ProposerState helpers, each a function of the proposer record s.       *)

\* ProposerState::NewPrepare: one past the larger of the own and the
\* highest other proposal id.
NewPrepare(s) ==
    [s EXCEPT !.proposalID =
        (IF s.proposalID > s.highestOtherProposalID
         THEN s.proposalID ELSE s.highestOtherProposalID) + 1]

\* Variant of AddPreAcceptValue that never adopts a reported value: the
\* properties must not hold of it.
AddPreAcceptValueIgnored(s, b, v) == s

\* ProposerState::AddPreAcceptValue: keep the value of the highest
\* non-null pre-accepted ballot seen in this round.
AddPreAcceptValue(s, b, v) ==
    IF ~IsNull(b) /\ BallotGt(b, s.highestOtherPreAcceptBallot)
    THEN [s EXCEPT !.highestOtherPreAcceptBallot = b, !.value = v]
    ELSE s

\* ProposerState::SetOtherProposalID.
SetOtherProposalID(s, id) ==
    IF id > s.highestOtherProposalID THEN [s EXCEPT !.highestOtherProposalID = id]
                                      ELSE s

\* Proposer::ExitPrepare / ExitAccept: leave the phase and remove its timer.
ExitPrepare(s) ==
    IF s.isPreparing THEN [s EXCEPT !.isPreparing = FALSE, !.prepareTimer = FALSE]
                     ELSE s
ExitAccept(s) ==
    IF s.isAccepting THEN [s EXCEPT !.isAccepting = FALSE, !.acceptTimer = FALSE]
                     ELSE s

-----------------------------------------------------------------------------
(* What a reply of the current round does to the proposer record s,      *)
(* before the round is judged: the middle part of OnPrepareReply and     *)
(* OnAcceptReply.                                                        *)

\* A rejection: count it, remember it, and raise highestOtherProposalID.
CountReject(s, m) ==
    SetOtherProposalID([s EXCEPT !.counter = AddReject(AddReceive(s.counter, m.from), m.from),
                                 !.wasRejectBySomeone = TRUE],
                       m.rejectBy)

\* OnPrepareReply: a promise also offers its pre-accepted ballot and value.
CountPrepareReply(s, m) ==
    IF m.rejectBy = 0
    THEN AddPreAcceptValue(
             [s EXCEPT !.counter = AddPromiseOrAccept(AddReceive(s.counter, m.from), m.from)],
             m.preAccept, m.value)
    ELSE CountReject(s, m)

\* Variant of CountAcceptReply that drops the rejectbypromiseid test and
\* counts every reply as an accept.
CountAcceptReplyAll(s, m) ==
    [s EXCEPT !.counter = AddPromiseOrAccept(AddReceive(s.counter, m.from), m.from)]

\* OnAcceptReply.
CountAcceptReply(s, m) ==
    IF m.rejectBy = 0
    THEN [s EXCEPT !.counter = AddPromiseOrAccept(AddReceive(s.counter, m.from), m.from)]
    ELSE CountReject(s, m)

-----------------------------------------------------------------------------
(* Proposer::Prepare and Proposer::Accept, the two steps every handler    *)
(* ends in.  Each sets prop[p] from the record s, broadcasts, and runs    *)
(* the own acceptor on the message.                                       *)

\* Proposer::AddPrepareTimer(iTimeoutMs): the old prepare timer is removed
\* and a new one armed.  A positive iTimeoutMs (the 10..39 ms retry delay)
\* returns right after AddTimer; only the default timeout records the
\* instance the timer belongs to in m_llTimeoutInstanceID.  The durations
\* and their doubling are abstracted away.
AddPrepareTimer(s, retry, inst) ==
    IF retry THEN [s EXCEPT !.prepareTimer = TRUE]
             ELSE [s EXCEPT !.prepareTimer = TRUE, !.timeoutInstance = inst]

\* Proposer::AddAcceptTimer(iTimeoutMs): the same for the accept timer.
AddAcceptTimer(s, retry, inst) ==
    IF retry THEN [s EXCEPT !.acceptTimer = TRUE]
             ELSE [s EXCEPT !.acceptTimer = TRUE, !.timeoutInstance = inst]

\* Proposer::Prepare(bNeedNewBallot): exit Accept, reset the round's
\* pre-accept tracking, maybe take a new proposal id, start a new round,
\* arm the prepare timer, broadcast Prepare.
PrepareState(s, needNewBallot, inst) ==
    LET s1 == [ExitAccept(s) EXCEPT !.isPreparing = TRUE,
                                    !.canSkipPrepare = FALSE,
                                    !.wasRejectBySomeone = FALSE,
                                    !.highestOtherPreAcceptBallot = NullBallot]
        s2 == IF needNewBallot THEN NewPrepare(s1) ELSE s1
    IN  AddPrepareTimer([s2 EXCEPT !.counter = EmptyRound], FALSE, inst)

DoPrepare(p, s, needNewBallot) ==
    LET s2 == PrepareState(s, needNewBallot, instance[p])
        m  == [type |-> "Prepare", inst |-> instance[p], from |-> p,
               pid |-> s2.proposalID]
    IN  /\ s2.proposalID <= MaxProposalID
        /\ Send({m})
        /\ \E ok \in PersistResults :
              /\ AcceptPrepare(p, m, ok)
              /\ prop' = [prop EXCEPT ![p] =
                     IF Replies(p, m, ok) THEN CountPrepareReply(s2, PrepareReplyOf(p, m))
                                          ELSE s2]

\* Proposer::Accept: exit Prepare, start a new round, arm the accept timer,
\* broadcast Accept with the current value.
AcceptState(s, inst) ==
    AddAcceptTimer([ExitPrepare(s) EXCEPT !.isAccepting = TRUE, !.counter = EmptyRound],
                   FALSE, inst)

DoAccept(p, s) ==
    LET s2 == AcceptState(s, instance[p])
        m  == [type |-> "Accept", inst |-> instance[p], from |-> p,
               pid |-> s2.proposalID, value |-> s2.value]
    IN  /\ Send({m})
        /\ \E ok \in PersistResults :
              /\ AcceptAccept(p, m, ok)
              /\ prop' = [prop EXCEPT ![p] =
                     IF Replies(p, m, ok) THEN CountAcceptReply(s2, AcceptReplyOf(p, m))
                                          ELSE s2]

-----------------------------------------------------------------------------
(* The handlers.                                                          *)

\* Proposer::IsWorking.
IsWorking(s) == s.isPreparing \/ s.isAccepting

\* Whether node p's proposer has called ProposerSendSuccess in its instance.
Reported(p) == \E r \in chosenReports : r.node = p /\ r.inst = instance[p]

\* Variant of NewValue that forgets to stage the client's value.
NewValueUnstaged(p, v) ==
    /\ ~IsWorking(prop[p])
    /\ ~Reported(p)
    /\ IF prop[p].canSkipPrepare /\ ~prop[p].wasRejectBySomeone
       THEN DoAccept(p, prop[p])
       ELSE DoPrepare(p, prop[p], prop[p].wasRejectBySomeone)
    /\ UNCHANGED <<chosenReports, timeouts>>

\* Proposer::NewValue: stage v unless a value is already staged, then skip
\* to Accept if the last Prepare passed unrejected, else Prepare with a
\* new ballot only if someone rejected.  The caller (the committer of
\* Instance, not under src/) hands a new value only to an idle proposer
\* whose instance is still open: once ProposerSendSuccess has been
\* called the node learns the value and leaves the instance.
NewValue(p, v) ==
    LET s == prop[p]
        s1 == IF s.value = NoValue THEN [s EXCEPT !.value = v] ELSE s
    IN  /\ ~IsWorking(s)
        /\ ~Reported(p)
        /\ IF s.canSkipPrepare /\ ~s.wasRejectBySomeone
           THEN DoAccept(p, s1)
           ELSE DoPrepare(p, s1, s.wasRejectBySomeone)
        /\ UNCHANGED <<chosenReports, timeouts>>

\* Proposer::OnPrepareReply: replies of another round, or arriving when
\* not preparing, are ignored; a majority of promises goes on to Accept;
\* a majority of rejections, or all replies without a majority, re-arms
\* the prepare timer with the short retry delay.
OnPrepareReply(p, m) ==
    LET s == prop[p]
        s1 == CountPrepareReply(s, m)
    IN  /\ m \in msgs
        /\ m.type = "PrepareReply"
        /\ m.to = p
        /\ s.isPreparing
        /\ m.pid = s.proposalID
        /\ IF IsPassedOnThisRound(s1.counter, N)
           THEN DoAccept(p, [s1 EXCEPT !.canSkipPrepare = TRUE])
           ELSE /\ prop' = [prop EXCEPT ![p] =
                      IF IsRejectedOnThisRound(s1.counter, N)
                         \/ IsAllReceiveOnThisRound(s1.counter, N)
                      THEN AddPrepareTimer(s1, TRUE, instance[p])
                      ELSE s1]
                /\ UNCHANGED <<msgs, acceptorVars>>
        /\ UNCHANGED <<chosenReports, timeouts>>

\* Proposer::OnAcceptReply: a majority of accepts exits Accept and calls
\* Learner::ProposerSendSuccess with the instance and proposal id.
OnAcceptReply(p, m) ==
    LET s == prop[p]
        s1 == CountAcceptReply(s, m)
    IN  /\ m \in msgs
        /\ m.type = "AcceptReply"
        /\ m.to = p
        /\ s.isAccepting
        /\ m.pid = s.proposalID
        /\ IF IsPassedOnThisRound(s1.counter, N)
           THEN /\ prop' = [prop EXCEPT ![p] = ExitAccept(s1)]
                /\ chosenReports' = chosenReports \cup
                      {[inst |-> instance[p], node |-> p,
                        ballot |-> Ballot(s.proposalID, p),
                        value |-> s1.value]}
           ELSE /\ prop' = [prop EXCEPT ![p] =
                      IF IsRejectedOnThisRound(s1.counter, N)
                         \/ IsAllReceiveOnThisRound(s1.counter, N)
                      THEN AddAcceptTimer(s1, TRUE, instance[p])
                      ELSE s1]
                /\ UNCHANGED chosenReports
        /\ UNCHANGED <<msgs, acceptorVars, timeouts>>

\* Proposer::OnExpiredPrepareReply: a reply that answers the previous
\* instance changes nothing, unless it is a rejection: then the proposer
\* counts as rejected and raises its highest other proposal id.
OnExpiredPrepareReply(p, m) ==
    /\ m \in msgs
    /\ m.type = "PrepareReply"
    /\ m.to = p
    /\ m.rejectBy # 0
    /\ prop' = [prop EXCEPT ![p] =
                  SetOtherProposalID([@ EXCEPT !.wasRejectBySomeone = TRUE], m.rejectBy)]
    /\ UNCHANGED <<msgs, acceptorVars, chosenReports, timeouts>>

\* Proposer::OnExpiredAcceptReply: the same for an accept reply.
OnExpiredAcceptReply(p, m) ==
    /\ m \in msgs
    /\ m.type = "AcceptReply"
    /\ m.to = p
    /\ m.rejectBy # 0
    /\ prop' = [prop EXCEPT ![p] =
                  SetOtherProposalID([@ EXCEPT !.wasRejectBySomeone = TRUE], m.rejectBy)]
    /\ UNCHANGED <<msgs, acceptorVars, chosenReports, timeouts>>

\* A timer of p fires; counted against MaxTimeouts[p].
TimerFires(p) ==
    /\ timeouts[p] < MaxTimeouts[p]
    /\ timeouts' = [timeouts EXCEPT ![p] = @ + 1]

\* Proposer::OnPrepareTimeout: the pending prepare timer fires (it is popped
\* by the timer loop).  If the node's instance is no longer the one recorded
\* in m_llTimeoutInstanceID the timeout is skipped; otherwise a new Prepare
\* starts.
OnPrepareTimeout(p) ==
    LET s == [prop[p] EXCEPT !.prepareTimer = FALSE]
    IN  /\ prop[p].prepareTimer
        /\ TimerFires(p)
        /\ IF instance[p] # s.timeoutInstance
           THEN /\ prop' = [prop EXCEPT ![p] = s]
                /\ UNCHANGED <<msgs, acceptorVars>>
           ELSE DoPrepare(p, s, s.wasRejectBySomeone)
        /\ UNCHANGED chosenReports

\* Proposer::OnAcceptTimeout: likewise for the accept timer.
OnAcceptTimeout(p) ==
    LET s == [prop[p] EXCEPT !.acceptTimer = FALSE]
    IN  /\ prop[p].acceptTimer
        /\ TimerFires(p)
        /\ IF instance[p] # s.timeoutInstance
           THEN /\ prop' = [prop EXCEPT ![p] = s]
                /\ UNCHANGED <<msgs, acceptorVars>>
           ELSE DoPrepare(p, s, s.wasRejectBySomeone)
        /\ UNCHANGED chosenReports

\* ProposerState::Init: no highest other proposal id, no value.  The
\* proposal id and the highest other pre-accepted ballot are kept.
ProposerStateInit(s) ==
    [s EXCEPT !.highestOtherProposalID = 0, !.value = NoValue]

\* Proposer::InitForNewPaxosInstance: a new counter round, the state's
\* Init, and both phases left with their timers.  canSkipPrepare and
\* wasRejectBySomeone are kept for the next instance.
\* Variant of InitForNewPaxosInstance that keeps the phase it is in.
ProposerInitForNewPaxosInstanceKeepPhase(s) ==
    ProposerStateInit([s EXCEPT !.counter = EmptyRound])

ProposerInitForNewPaxosInstance(s) ==
    ExitAccept(ExitPrepare(ProposerStateInit([s EXCEPT !.counter = EmptyRound])))
=============================================================================

------------------------------ MODULE Acceptor ------------------------------
(***************************************************************************)
(* The acceptor role of one node: Acceptor::OnPrepare, Acceptor::OnAccept, *)
(* AcceptorState::Persist and AcceptorState::Init of                       *)
(* src/src/algorithm/acceptor.cpp.  An acceptor holds the state of its     *)
(* current instance only; instance[a] is its Base::m_llInstanceID.         *)
(*                                                                         *)
(* promiseBallot, acceptedBallot and acceptedValue are the in-memory       *)
(* AcceptorState; durable is what the last successful Persist wrote.      *)
(* votes is a history variable: every (ballot, value) an acceptor has put  *)
(* in acceptedBallot / acceptedValue, with the instance.  synced is what the last write with *)
(* fdatasync made safe from a machine crash; with LogSync and a positive  *)
(* SyncInterval, Persist syncs only every SyncInterval+1-th write.         *)
(*                                                                         *)
(* A handler is split into what it does to the acceptor (AcceptPrepare,   *)
(* AcceptAccept) and the reply it produces, because the reply goes either *)
(* to the network or, on the proposer's own node, straight back into the  *)
(* proposer (Base::SendMessage to the own node id).                       *)
(***************************************************************************)
EXTENDS PaxosMessages

CONSTANTS
    PersistMayFail,  \* whether LogStorage::WriteState may return an error
    PriorStates,     \* the AcceptorStateData of every node when the run starts
    LogSync,         \* Config::LogSync()
    SyncInterval,    \* Config::SyncInterval()
    MaxRestarts      \* bound on machine crashes, a model bound

VARIABLES
    promiseBallot,   \* m_oPromiseBallot
    acceptedBallot,  \* m_oAcceptedBallot
    acceptedValue,   \* m_sAcceptedValue
    durable,         \* the AcceptorStateData last written by WriteState
    votes,           \* history: <<acceptor, ballot, value>> ever accepted
    synced,          \* the AcceptorStateData last written with fdatasync
    syncTimes,       \* m_iSyncTimes
    restarts,        \* machine crashes so far
    instance         \* Base::m_llInstanceID of the node's roles

acceptorVars == <<promiseBallot, acceptedBallot, acceptedValue, durable, votes,
                  synced, syncTimes, restarts, instance>>

\* AcceptorStateData: the instance it was written for and the state.
StateRecords == [inst : Instances, promise : Ballots, accepted : Ballots,
                 value : Values \cup {NoValue}]

\* The store of an empty database: the first instance, null ballots.
EmptyState == [inst |-> 1, promise |-> NullBallot, accepted |-> NullBallot,
               value |-> NoValue]

AcceptorTypeOK ==
    /\ promiseBallot \in [Nodes -> Ballots]
    /\ acceptedBallot \in [Nodes -> Ballots]
    /\ acceptedValue \in [Nodes -> Values \cup {NoValue}]
    /\ durable \in [Nodes -> StateRecords]
    /\ votes \subseteq Instances \X Nodes \X Ballots \X Values
    /\ synced \in [Nodes -> StateRecords]
    /\ syncTimes \in [Nodes -> 0..SyncInterval]
    /\ restarts \in 0..MaxRestarts
    /\ instance \in [Nodes -> Instances]

\* Acceptor::Init: AcceptorState::Load reads the AcceptorStateData of the
\* last instance from the log, or nothing from an empty database (then the
\* constructor's null ballots stay).  PriorStates holds the stores the
\* nodes may start from: what proposers that have since gone silent left
\* in them.
AcceptorInit ==
    \E st \in PriorStates :
        /\ promiseBallot = [a \in Nodes |-> st[a].promise]
        /\ acceptedBallot = [a \in Nodes |-> st[a].accepted]
        /\ acceptedValue = [a \in Nodes |-> st[a].value]
        /\ durable = st
        /\ votes = {<<st[a].inst, a, st[a].accepted, st[a].value>> :
                       a \in {n \in Nodes : ~IsNull(st[n].accepted)}}
        /\ synced = st
        /\ syncTimes = [a \in Nodes |-> 0]
        /\ restarts = 0
        /\ instance = [a \in Nodes |-> st[a].inst]

\* The outcomes of LogStorage::WriteState inside AcceptorState::Persist.
PersistResults == IF PersistMayFail THEN BOOLEAN ELSE {TRUE}

\* The ballot of a Prepare or Accept: BallotNumber(proposalid, nodeid).
MsgBallot(m) == Ballot(m.pid, m.from)

\* oBallot >= m_oAcceptorState.GetPromiseBallot(), the test of both handlers.
Promises(a, m) == BallotGEq(MsgBallot(m), promiseBallot[a])

\* With LogSync, m_iSyncTimes counts writes; the write that takes it past
\* SyncInterval is synced and resets it.
SyncDueOffByOne(t) == t > SyncInterval + 1
SyncDue(t) == t > SyncInterval

\* Persist writes the whole in-memory state st; on success it is durable,
\* and safe from a machine crash when the write was synced.  The counter
\* moves whether or not WriteState succeeds.
PersistState(a, st, ok) ==
    LET t    == syncTimes[a] + 1
        sync == LogSync /\ SyncDue(t)
    IN  /\ syncTimes' = [syncTimes EXCEPT ![a] = IF ~LogSync \/ sync THEN 0 ELSE t]
        /\ IF ok THEN /\ durable' = [durable EXCEPT ![a] = st]
                      /\ synced' = IF sync THEN [synced EXCEPT ![a] = st] ELSE synced
                 ELSE UNCHANGED <<durable, synced>>

-----------------------------------------------------------------------------
\* Acceptor::OnPrepare, the state change: promise the ballot and persist.
\* A rejection changes nothing.
AcceptPrepare(a, m, ok) ==
    /\ IF Promises(a, m)
       THEN /\ promiseBallot' = [promiseBallot EXCEPT ![a] = MsgBallot(m)]
            /\ PersistState(a, [inst |-> instance[a], promise |-> MsgBallot(m),
                                accepted |-> acceptedBallot[a],
                                value |-> acceptedValue[a]], ok)
       ELSE UNCHANGED <<promiseBallot, durable, synced, syncTimes>>
    /\ UNCHANGED <<acceptedBallot, acceptedValue, votes, restarts, instance>>

\* Variant of PrepareReplyOf that never reports the accepted ballot.
PrepareReplyOfBlind(a, m) ==
    [type |-> "PrepareReply", inst |-> instance[a], from |-> a, to |-> m.from, pid |-> m.pid,
     preAccept |-> NullBallot, value |-> NoValue,
     rejectBy |-> IF Promises(a, m) THEN 0 ELSE promiseBallot[a].pid]

\* Variant of PrepareReplyOf that attaches the value only to an accepted
\* proposal id above 1, an off-by-one in the test of the id.
PrepareReplyOfOffByOne(a, m) ==
    [type |-> "PrepareReply", inst |-> instance[a], from |-> a, to |-> m.from, pid |-> m.pid,
     preAccept |-> IF Promises(a, m) /\ acceptedBallot[a].pid > 1
                   THEN acceptedBallot[a] ELSE NullBallot,
     value |-> IF Promises(a, m) /\ acceptedBallot[a].pid > 1
               THEN acceptedValue[a] ELSE NoValue,
     rejectBy |-> IF Promises(a, m) THEN 0 ELSE promiseBallot[a].pid]

\* Acceptor::OnPrepare, the reply: the accepted ballot and (if one was
\* accepted) its value, or the promised proposal id as rejectbypromiseid.
PrepareReplyOf(a, m) ==
    [type |-> "PrepareReply", inst |-> instance[a], from |-> a, to |-> m.from, pid |-> m.pid,
     preAccept |-> IF Promises(a, m) THEN acceptedBallot[a] ELSE NullBallot,
     value |-> IF Promises(a, m) /\ acceptedBallot[a].pid > 0
               THEN acceptedValue[a] ELSE NoValue,
     rejectBy |-> IF Promises(a, m) THEN 0 ELSE promiseBallot[a].pid]

\* Acceptor::OnAccept, the state change: promise and accept the ballot,
\* take the value, persist.  A rejection changes nothing.
AcceptAccept(a, m, ok) ==
    IF Promises(a, m)
    THEN /\ promiseBallot' = [promiseBallot EXCEPT ![a] = MsgBallot(m)]
         /\ acceptedBallot' = [acceptedBallot EXCEPT ![a] = MsgBallot(m)]
         /\ acceptedValue' = [acceptedValue EXCEPT ![a] = m.value]
         /\ votes' = votes \cup {<<instance[a], a, MsgBallot(m), m.value>>}
         /\ PersistState(a, [inst |-> instance[a], promise |-> MsgBallot(m),
                             accepted |-> MsgBallot(m), value |-> m.value], ok)
         /\ UNCHANGED <<restarts, instance>>
    ELSE UNCHANGED acceptorVars

\* Acceptor::OnAccept, the reply.
AcceptReplyOf(a, m) ==
    [type |-> "AcceptReply", inst |-> instance[a], from |-> a, to |-> m.from, pid |-> m.pid,
     rejectBy |-> IF Promises(a, m) THEN 0 ELSE promiseBallot[a].pid]

\* Variant of Replies that sends the reply even when Persist failed.
RepliesAlways(a, m, ok) == TRUE

\* Both handlers return before SendMessage when Persist fails.
Replies(a, m, ok) == ~Promises(a, m) \/ ok

-----------------------------------------------------------------------------
\* Acceptor a handles a Prepare of another node from the network.
OnPrepare(a, m) ==
    /\ m \in msgs
    /\ m.type = "Prepare"
    /\ m.from # a
    /\ \E ok \in PersistResults :
          /\ AcceptPrepare(a, m, ok)
          /\ IF Replies(a, m, ok) THEN Send({PrepareReplyOf(a, m)})
                                  ELSE UNCHANGED msgs

\* Acceptor a handles an Accept of another node from the network.
OnAccept(a, m) ==
    /\ m \in msgs
    /\ m.type = "Accept"
    /\ m.from # a
    /\ \E ok \in PersistResults :
          /\ AcceptAccept(a, m, ok)
          /\ IF Replies(a, m, ok) THEN Send({AcceptReplyOf(a, m)})
                                  ELSE UNCHANGED msgs

\* The machine of acceptor a crashes and the node starts again: the new
\* AcceptorState's m_iSyncTimes is 0, and AcceptorState::Load reads the
\* last record that reached the disk, the last synced one or a later one
\* that the kernel had written back in time; Acceptor::Init takes its
\* instance id from that record.
AcceptorRestart(a) ==
    /\ restarts < MaxRestarts
    /\ restarts' = restarts + 1
    /\ \E st \in {synced[a], durable[a]} :
          /\ promiseBallot' = [promiseBallot EXCEPT ![a] = st.promise]
          /\ acceptedBallot' = [acceptedBallot EXCEPT ![a] = st.accepted]
          /\ acceptedValue' = [acceptedValue EXCEPT ![a] = st.value]
          /\ durable' = [durable EXCEPT ![a] = st]
          /\ synced' = [synced EXCEPT ![a] = st]
          /\ instance' = [instance EXCEPT ![a] = st.inst]
    /\ syncTimes' = [syncTimes EXCEPT ![a] = 0]
    /\ UNCHANGED <<votes, msgs>>

\* Variant of AcceptorStateInit that clears the promise with the rest of
\* the state.
AcceptorStateInitAll(a) ==
    /\ promiseBallot' = [promiseBallot EXCEPT ![a] = NullBallot]
    /\ acceptedBallot' = [acceptedBallot EXCEPT ![a] = NullBallot]
    /\ acceptedValue' = [acceptedValue EXCEPT ![a] = NoValue]

\* AcceptorState::Init, called by Acceptor::InitForNewPaxosInstance when
\* the node moves to the next instance: the accepted ballot and value are
\* cleared; the promise ballot is kept.
AcceptorStateInit(a) ==
    /\ acceptedBallot' = [acceptedBallot EXCEPT ![a] = NullBallot]
    /\ acceptedValue' = [acceptedValue EXCEPT ![a] = NoValue]
    /\ UNCHANGED promiseBallot
=============================================================================

# TLA+ models of phxpaxos

This directory holds TLA+ models of the consensus core of phxpaxos
(`src/src/algorithm`), of the timer and event tables of its event loop (`src/src/utils/timer.cpp`,
`src/src/communicate/tcp/event_loop.cpp`), of the value file that stores acceptor state
(`src/src/logstorage/log_store.cpp`), of the start and stop of the network threads
(`src/src/communicate/dfnetwork.cpp`, `udp.cpp`), and the TLC configurations that check them.
`PROJECT.json` maps every modelled definition to the source lines it translates,
lists the runs, the mutants that show each property can fail, the findings and the hazards.

## The system

phxpaxos runs one Paxos instance after another per group. In each instance every node
runs an **Acceptor** and a **Proposer**. The parts interact as follows.

- **NewValue.** A client value enters through `Proposer::NewValue`. The proposer then
  runs `Prepare` or, on the skip-prepare fast path, goes straight to `Accept`.
- **Delivery.** Messages go out through `Base::BroadcastMessage` to the UDP transport,
  which may lose, duplicate or reorder them. A node's own acceptor is run inside the
  broadcast: `RunSelf_First` for Prepare and `RunSelf_Final` for Accept.
- **Acceptor.** `Acceptor::OnPrepare` and `OnAccept` compare the ballot with the promise,
  update `AcceptorState`, `Persist` it and reply. They return without a reply when
  Persist fails.
- **Proposer.** The proposer counts replies in a `MsgCounter`. A majority of promises
  leads to Accept. A majority of accepts reports the instance chosen to the Learner. A
  majority of rejections, or all replies without a majority, re-arm the timer with a
  short random delay.
- **Timers.** `OnPrepareTimeout` and `OnAcceptTimeout` restart Prepare, with a new
  proposal id only if someone rejected.
- **Timer loop.** Timers live in `Timer`, a min-heap keyed by (deadline, id), and in
  `EventLoop`'s table from timer id to the fd of the owning event.
  `EventLoop::RemoveTimer` only erases the table entry.
- **Event table.** The same `EventLoop` maps each socket fd to its event object in
  `m_mapEvent`, beside the kernel's epoll set. The acceptor thread queues accepted
  sockets (`AddEvent`). On its turn the loop:
  - runs `CreateEvent`, which first deletes destroyed events (`ClearEvent`), then makes
    a `MessageEvent` per queued fd and registers it through `ModEvent`;
  - handles an epoll error or a failed read in `OneLoop`, which calls `OnError`;
    `OnError` calls `RemoveEvent`, and the event may then ask to be deleted.
  A timer is delivered only to an fd still in `m_mapEvent`.
- **Storage.** `AcceptorState::Persist` writes through the Database into `LogStore`. It
  appends one record per write to preallocated files `<id>.f`. A meta file names the
  current file, and LevelDB maps each instance to the file id (file, offset, CRC) of its
  record. At start, `LogStore::Init` reads the meta file. `RebuildIndex` then scans the
  files from the largest indexed record on, re-indexes what it finds, cuts a file off at
  a record it cannot parse, and sets the write offset.
- **Network threads.** `DFNetWork::RunNetWork` starts three threads: `UDPSend`, which
  pops its queue and calls sendto; `UDPRecv`, which polls the socket; and the TCP I/O
  thread, whose `EventLoop::StartLoop` runs until `m_bIsEnd`. `SendMessageUDP` calls
  `UDPSend::AddMessage`, which queues under a lock. `StopNetWork` stops them in turn.
  Each UDP `Stop` sets `m_bIsEnd` and joins only if `m_bIsStarted` is set, and only
  `run()` sets that flag, on the new thread.

## Modules

| module | models | state | actions |
|---|---|---|---|
| `BallotNumber` | `BallotNumber` of `base.h` | — | operators `Ballot`, `IsNull`, `BallotGEq`, `BallotGt` |
| `PaxosMessages` | the message records and the UDP network | `msgs`: every message ever sent | `Send` |
| `MsgCounter` | `MsgCounter` (not under `src/`; from spec section 4.4) | — | operators |
| `Acceptor` | `Acceptor`, `AcceptorState` | `instance` (`m_llInstanceID`), `promiseBallot`, `acceptedBallot`, `acceptedValue` (memory), `durable` (last successful WriteState), `synced` (last fdatasync'd state), `syncTimes` (`m_iSyncTimes`), `votes` (history), `restarts` (bound) | `OnPrepare`, `OnAccept`, `AcceptorRestart`; `AcceptorStateInit` for a new instance |
| `Proposer` | `Proposer`, `ProposerState` | `prop[p]`, `chosenReports` (history of `ProposerSendSuccess`), `timeouts` (bound) | `NewValue`, `OnPrepareReply`, `OnAcceptReply`, `OnExpiredPrepareReply`, `OnExpiredAcceptReply`, `OnPrepareTimeout`, `OnAcceptTimeout`; `ProposerInitForNewPaxosInstance` |
| `PhxPaxos` | a group over instances 1..`MaxInstance`, and its properties | all of the above | `AcceptorStep`, `ProposerStep(p)`, `Restart`, `NewInstance(a)` |
| `Consensus` | the abstract service: in each slot at most one value is chosen and stays chosen | `chosen` (slot -> set of values) | `Choose(i)` |
| `MCPhxPaxos` | model values, starting stores and bounds | | |
| `LogStore` | `LogStore` of `log_store.cpp` | `meta`, `exists`, `files` (cells), `fileID`, `fdOpen`, `offset`, `size`, `deletedMax` (the members), `index` (LevelDB), `status`, `lastInst`, `appends`/`restarts` (bounds), `acked`, `cleaned` (history) | `LogStoreInit`, `LogStoreAppend(i, sz, sync)`, `LogStoreDel(i)` (with `DeleteFile`), `Crash`, `Exhausted` |
| `MCLogStore` | which system calls may fail in each run | | |
| `Timer` | `Timer` and the timer and event tables of `EventLoop` | `now`, `nowTimerID`, `heap` (a bag), `timerFd`, `adds`, `pending`, `fired` (history); `mapEvent` (`m_mapEvent`), `epollSet` (kernel), `fdQueue` (`m_oFDQueue`), `objState`/`objFd` (the `MessageEvent` at each address), `accepts` (bound) | `AddTimer`, `RemoveTimer`, `DealwithTimeoutOne`, `Tick`, `AddEvent(fd)`, `CreateEvent`, `GetActiveEventCount`, `OneLoop(fd)` |
| `Network` | `DFNetWork`, `UDPSend`, `UDPRecv`, and the life cycle of the TCP `EventLoop` | `mainPc` (the owner's place in RunNetWork, StopNetWork and delete), `pc` (each thread), `isStarted`/`isEnd` (`m_bIsStarted`/`m_bIsEnd`), `queue` (`m_oSendQueue`), `sent` (history), `adds` (bound), `destroyed` | `RunNetWork`, `AddMessage`, `UDPStart`, `SendTurn`, `RecvTurn`, `TcpStartLoop`, `TcpTurn`, and `StopNetWork` (`UDPStop`, `Join`, `TcpStop`, `Delete`) |

Each handler is one action: the whole handler including the `Prepare`/`Accept` it ends
in, the broadcast, and the own acceptor's handling of the broadcast message. The
modelled code handles one message or timeout at a time (spec section 5), so handlers do
not interleave inside a group. A `Persist` outcome is a nondeterministic choice wherever
a run allows storage to fail.

Durations are abstracted. Timeouts and the 10–40 ms retry delay only decide *when* a
timer fires, so the model lets any pending timer fire at any time, up to a bound
`MaxTimeouts[p]` on the number of firings. What is kept of the timers is which instance
they belong to: `AddPrepareTimer`/`AddAcceptTimer` with the default timeout record the
node's instance in `m_llTimeoutInstanceID` (`prop[p].timeoutInstance`), the retry delay
after a rejected round returns before doing so, and `OnPrepareTimeout`/`OnAcceptTimeout`
skip a timer whose recorded instance is not the node's current one.

`Acceptor!AcceptorInit` chooses the starting stores from `PriorStates`, which models
`AcceptorState::Load`. `MCPhxPaxos!MCPriorSilent` gives nodes 2 and 3 the promises and
accepted values that their own proposers, since silent, could have left behind. It keeps
only stores a Paxos run can produce (`PriorPossible`: an accepted ballot was promised by
a majority). This replaces live contention with retries, which TLC cannot finish, by
histories that end in the same stores.

`LogStore` measures files in cells. A record of size k is a head cell (length word and
instance id) and k-1 body cells. Each Append stamps its cells with its sequence number,
and the stamp stands for the record's bytes and its CRC. A body cell where a length word
is expected is leftover bytes of another record. RebuildIndexForOneFile may read it as
any length, so the scan of a file is a set of outcomes:
- the length is out of range, and the start fails;
- the read runs past the end of the file, and the file is truncated without setting the
  write offset;
- the read succeeds but parsing fails, and the file is truncated with the offset set.

A short `write()` (log_store.cpp:350) may stop anywhere in the record, also inside its
12-byte head (length word and instance id). The sparse file that `ExpandFile` made may
run out of space at any byte. Such a head is a torn cell. The scan may read its length
word cut or mixed with the bytes before it and refuse the file at line 639. It may also
read an incomplete instance id below the last indexed one and refuse at line 666.
Otherwise the body, which holds bytes not written by this record, fails to parse, and
the file is truncated there (line 690).

Each failing system call of `Append`/`GetFileFD`/`IncreaseFileID` is an outcome of the
one `LogStoreAppend` action. `LogStoreDel(i)` is `LogStore::Del` for any indexed instance:
it deletes the files below the record's own file through `DeleteFile`, which skips what
`m_iDeletedMaxFileID` says is gone (starting 2000 files back in a new process) and
stops at the first failing remove. A process crash keeps everything written, because the
kernel's page cache survives it. Since a failure leaves exactly the state a crash at
that point leaves, a crash between two calls of one handler is a failure followed by
`Crash`.

A machine crash of an acceptor is `AcceptorRestart`. `PersistState` models
`AcceptorState::Persist`: `m_iSyncTimes` counts every write, a failed one included,
and the write is fdatasync'd only when the count exceeds `SyncInterval` (or never,
without `LogSync`). `durable` is what the page cache holds and `synced` what the disk
holds. After a crash, `Load` reads either of them (unsynced pages may or may not have
reached the disk), and `m_iSyncTimes` starts at 0 again. Only nodes that run no modelled
proposer restart, because a node restart also resets its proposer.

In `Network`, each locked region of the send queue is atomic, and so is each turn of a
thread's loop. A turn is one pass of `while (true)`: peek or poll, the send or the
delivery, and the `m_bIsEnd` test. The owner's calls are steps of `mainPc`, and a join is
a step that waits until the thread has returned. `Thread::start` (not under `src/`)
only creates the thread, and `run()` begins in a later step.

Each node holds the acceptor and proposer state of its current instance only
(`instance[a]`, `Base::m_llInstanceID`); every message carries its instance. The
routing of `Instance` (not under `src/`) is taken from spec section 4: the acceptor
handles messages of its own instance, the proposer the replies of its own instance with
the round handlers and those of the previous instance with `OnExpiredPrepareReply` /
`OnExpiredAcceptReply`, which only note a rejection (`wasRejectBySomeone`,
`SetOtherProposalID`). `NewInstance(a)` moves a node on once a value is chosen in its
instance. It calls `AcceptorState::Init`, which clears the accepted ballot and value and
keeps the promise, and on proposer nodes `Proposer::InitForNewPaxosInstance`, which
calls `ProposerState::Init` and `ExitPrepare`/`ExitAccept` and keeps the proposal id and
the skip-prepare token.

The refinement is `PhxPaxos!C == INSTANCE Consensus WITH Slots <- Instances, chosen <-
[i \in Instances |-> chosenValues(i)]`. A value is chosen in an instance when a majority
of acceptors has accepted it there under one ballot.
`ConsensusRefined == C!ConsensusSpec` is checked as a PROPERTY.

## Runs

| run | expect | what it shows |
|---|---|---|
| `contention` | pass | Two proposers with values v1 and v2, one proposal id each, a network that loses, duplicates and reorders, and no storage failure. Checks four things. `LearnerAgreement`: one value is ever reported to the Learner. `ReportedWasAccepted`: a report means a majority accepted. `AcceptedValueIsSafe`: every Accept carries the value chosen at any lower ballot. `ConsensusRefined`. About 185k states. |
| `instances` | pass | Two proposers with one proposal id each over three instances, nodes moving on as they see a value chosen. A proposer that won Prepare in one instance skips it in the next, while the other may still hold its own token. `LearnerAgreement` (per instance), `AcceptedValueIsSafe` and `ConsensusRefined` hold, and so does `WorkingProposerWillRetry`: a preparing or accepting proposer always holds the timer of its phase, recorded with its current instance, so the timeout handler never skips it. About 33k states. |
| `persist` | pass | WriteState may fail, every write is fdatasync'd, and node 3 may crash once. No promise or accept reply is sent before its state is durable (`ReplyIsDurable`, spec section 6), and every reply still rests on the acceptor's current promise (`PromiseKept`), across the crash. About 8k states. |
| `syncbatch` | violation | As `contention`, with `SyncInterval = 1` and one crash of node 3: two values are chosen (see findings). |
| `ballotreuse` | violation | One proposer with two timer firings and up to 3 proposal ids, against every consistent store that silent competitors could leave (`MCPriorSilent`), plus failing WriteState: two values are chosen at one ballot (see findings). |
| `stoprace` | violation | StopNetWork may come at any time after RunNetWork. `NoThreadAfterDelete`: once the network is deleted, no thread is still to run on it. Violated (see findings). |
| `timer_nowrap` | pass | With 3 adds and 3-bit ids (no wrap), every OnTimeout goes to the fd of the timer after its deadline, and a timer removed with `RemoveTimer` is dropped when its heap entry is popped. Three sockets are accepted on two fds into two event addresses, fail, are destroyed and cleared, and their fds and addresses are reused. `EventTableSound`: `m_mapEvent` never names a deleted event or another fd's event, and it agrees with the kernel's epoll set. About 250k states. |
| `logstore_io` | pass | Every system call of `Append`, `Init` and `Del` may fail except fdatasync, which `logstore_junk` covers. Short writes may cut records of sizes 1 and 2 anywhere, inside the head too, and the process may crash between calls. `AckedReadable`: while up, the index holds a readable record for every Append that returned 0, from that Append or a later one of the instance, unless the cleaner has passed a later instance to `Del`. `Del` may run at any time and its removes may fail; `DeleteFile` must never remove the file of a record still to be read. A torn head refuses the start rather than overwriting, so it does not break this. About 774k states in 25 s. |
| `logstore_torn` | violation | Short writes of records of sizes 1 and 2, anywhere in the record, and three crashes. `RestartSucceeds`: Init always accepts the files again. Violated: a write cut inside a record's head refuses every later start (see findings). |
| `logstore_meta` | violation | A failed meta fsync during a file rollover prevents every later start (see findings). |
| `logstore_junk` | violation | A failed fdatasync followed by a shorter record leads to an acknowledged record being overwritten after a restart (see findings). |
| `timer_wrap` | violation | With 2-bit ids the counter wraps. An old heap entry fires the new owner's timer early. |

Every property of a passing run has a mutant in `PROJECT.json`. The mutant is an operator
defined just before the definition it replaces, with the bug a slip in that code would
introduce. TLC finds the property violated with it.

## Findings

1. **A ballot can carry two values (code bug).** `OnAcceptTimeout` (proposer.cpp:577)
   retries Prepare with the same proposal id when nobody rejected. `OnPrepareReply`
   matches replies by proposal id only (line 343). So promises sent before the Accept
   of the earlier round are counted again, and they report no accepted value. If the
   proposer's own acceptor then fails to persist, the one reply that would carry the
   value chosen at that ballot is missing. The proposer adopts an older pre-accepted
   value and proposes it at the same ballot. TLC finds this in 13 steps in run
   `ballotreuse`.
2. **Stop before the UDP threads start leaves them running on a deleted network (code
   bug).** `UDPSend::Stop` and `UDPRecv::Stop` (udp.cpp:158, 49) set `m_bIsEnd` and join
   only if `m_bIsStarted` is set. That flag is set by `run()`, on the new thread, after
   `start()` has returned. A `StopNetWork` that comes first skips both threads. The
   network is deleted, and both threads later run on it and never end. TLC finds this in
   11 steps in run `stoprace`. The flag is also a plain `bool` shared between threads
   without synchronisation.
3. **Timer ids wrap (spec divergence).** Spec section 4.5 promises strictly increasing
   timer ids. `m_iNowTimerID++` is a `uint32_t` (timer.cpp:47). With the lazy
   `RemoveTimer`, a reused id delivers OnTimeout early to the wrong event. The run uses
   2-bit ids so that the wrap happens within the bounds. The code has the same behaviour
   after 2^32 timers.

4. **A failed meta fsync prevents every restart (code bug).** `IncreaseFileID` names the
   next file in the meta file before `OpenFile` creates it. Suppose the fsync fails,
   the open fails, or the process dies in between. The meta file then names a file that
   does not exist. `RebuildIndex` stops at the missing file and returns "meta file
   wrong" (log_store.cpp:545) on every start.
5. **A truncate without the write offset overwrites acknowledged records (code bug).**
   After a failed fdatasync, the record's bytes stay in the file. A shorter record
   written over them leaves their tail behind it. At the next start that tail is read
   as a length word. If it passes the range check but reaches past the end of the file,
   the truncate branch at log_store.cpp:649 does not set the write offset, unlike the
   parse-failure branch at line 690. Init seeks to offset 0, and the next Append
   overwrites earlier records that the index still points to. The same tail read as an
   out-of-range length fails Init instead (line 639).
7. **A write cut inside a record's head prevents every restart (code bug).** Append
   writes the length word, the instance id and the state in one `write()`
   (log_store.cpp:350). A short write that stops inside the first 12 bytes returns -1.
   If the process dies before the record is rewritten, the scan reads a cut length word,
   which fails the range check at line 639, or an incomplete instance id below the last
   indexed one, which fails at line 666. Both return -1, where every other torn tail is
   truncated, so Init refuses the files on every later start. TLC finds this in 5 steps
   in run `logstore_torn`.
6. **Batched fdatasync loses an accept that counted (spec divergence).** Spec section 6
   says a successful Persist is durable before the reply, while allowing fsync to be
   batched every N writes. `AcceptorState::Persist` (acceptor.cpp:93) syncs only when
   `++m_iSyncTimes > SyncInterval`, and the acceptor replies on the unsynced write.
   In run `syncbatch` v1 is chosen by nodes 1 and 3. Node 3 crashes, and its accept is
   lost. Proposer 2 then prepares with nodes 2 and 3, learns of no accepted value, and
   gets v2 chosen by nodes 1 and 2. TLC finds this in 10 steps.

### Why skip-prepare across instances is safe

Spec section 3 says the acceptor state is reset when a node moves to a new instance.
The code (`AcceptorState::Init`, acceptor.cpp:37-43) clears only the accepted ballot and
value and keeps the promise. This is what makes skipping Prepare in the next instance
safe: the promises a proposer won in instance i still bind the acceptors in instance
i+1. With the mutant `AcceptorStateInitAll`, which clears the promise as well, TLC
finds two values chosen in instance 2 of the `instances` run (two nodes, one proposal id
each). Keeping the accepted state, too, would be harmless: the carried promise is at
least the accepted ballot, so it dominates it.

## Bounds and fairness

- **Group size.** N = 3 nodes, the smallest group where a majority is not everyone.
  The `instances` run uses N = 2 (a majority is both nodes) and three instances: with
  N = 3 two instances already exceed a million states without finishing, and
  `contention` covers three nodes in one instance. The race across instances needs
  only that one proposer carries a token into the next instance while the other
  prepares there.
- **Values.** Two values, enough to tell agreement from disagreement.
- **Proposal ids.** One proposal id per proposer under contention. Up to 3 ids, with two
  timer firings, for the single retrying proposer. A retry then meets both an equal and a
  higher competing ballot in the stores.
- **Timer.** MaxTime 2 ms, delays {0, 2}, and 3 adds over two fds (5 in the wrap run).
  This lets timers overtake one another, be removed before and after their deadline,
  and share deadlines. There are three accepted sockets, two fds and two event
  addresses, and `CreatePerTime = 1` (200 in the code). A closed fd is accepted again,
  a freed address holds a new event, and a second queued socket waits for the next
  `CreateEvent`, as one does beyond the 200th.
- **LogStore.** Files of 3 cells (2 in the meta run), three file ids, 2 instances, and
  6 appends with 3 crashes. Files fill and roll over, a record can be written over a
  longer failed one, and a restart can follow every kind of failure. Records of sizes
  1 and 2 (1 in the meta run) are the smallest setting in which a shorter record leaves
  a tail behind it and a write can stop after the head.
- **Crashes.** One machine crash of node 3, the node without a proposer. One crash
  is enough to lose a write, and node 3 is part of every majority with node 1 or 2.
- **Fairness.** None is assumed for the timer loop. Whether a due timer is popped
  depends on `StartLoop` passing `GetNextTimeout` to `epoll_wait`, and on the break at
  event_loop.cpp:370-373. The model does not schedule either, and fairness on the pop
  alone would make "every timer fires" hold whatever the code does. No fairness is
  assumed for the Paxos model. Message delivery is UDP, and
  nothing in the code guarantees progress under contention. `Network` has weak
  fairness on every thread's steps and on the owner's stop steps, as a scheduler gives
  each runnable thread a turn. The `stoprace` violation is a safety property and needs
  none of it.
- **Network.** Two payloads, `UDP_QUEUE_MAXLEN = 1` and three `AddMessage` calls. The
  queue then fills, and a send is refused. The race needs only the order of the steps.

## Not modelled (yet)

- Restarts combined with several instances in one run: `persist` and `syncbatch` keep
  `MaxInstance = 1` to stay within the time a run may take.
- The checksum chain of `AcceptorState` (`GetLastChecksum`), which guards only against
  corrupted storage, and the Learner and Instance classes, which are not under `src/`
  (their routing and `NewInstance` are taken from the spec).
- Crash of a node that runs a proposer, which would also reset the proposer's state.
- In LogStore: machine crashes, which lose unsynced pages, and so the `bSync` flag
  (it only decides whether fdatasync can fail); `ForceDel`, whose callers are not under `src/` and which
  the spec does not describe; and failures of `truncate` and `lseek`. Leftover bytes that happen
  to parse as a valid record are also left out. The LevelDB index is not under `src/`,
  so it is kept as durable as the file.
- The TCP threads' own classes (`TcpIOThread`, `TcpRead`, `TcpWrite`, `TcpAcceptor`) are
  not under `src/`. `Network` takes from them only that Stop calls `EventLoop::Stop` and
  joins. The hang this allows is not checked by a run: StartLoop resets `m_bIsEnd`, so a
  Stop that comes before it is lost.
- A failed Persist leaves the promise, and in OnAccept the accepted ballot and value,
  advanced in memory (acceptor.cpp:235, 290-292). Spec section 7 forbids this. The
  model keeps this behaviour, since `AcceptPrepare` and `AcceptAccept` set the new state
  whatever Persist returns. No run checks the divergence by itself, because the state
  invariant it breaks is violated in two steps and says nothing more.
- In the event loop: `JumpoutEpollWait`/`Notify`, `SetTcpClient` with `DealWithWrite`,
  and successful reads, whose data reaches Paxos as the lossy network. `MessageEvent`
  is not under `src/`. The model lets an event fail its read, ask or not ask for
  deletion in `OnError`, and ask for timers while not destroyed. It assumes that
  deleting an event closes its socket. `epoll_ctl` failing for lack of kernel resources
  is not modelled.
- `ModEvent` as written does not compile: line 109 assigns `iEpollOperation`, but the
  variable declared at line 98 is `iEpollOpertion`. The model takes the evident intent:
  MOD for an entry with non-zero `m_iEvents`, and ADD otherwise.
- DFNetWork dispatch, Node bootstrap and the state-machine base. These are plumbing
  outside the consensus core.

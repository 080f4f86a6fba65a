------------------------------- MODULE Timer -------------------------------
(***************************************************************************)
(* The timer of the TCP event loop: the min-heap of Timer                 *)
(* (src/src/utils/timer.cpp) and the timer table of EventLoop            *)
(* (src/src/communicate/tcp/event_loop.cpp) that maps a timer id to the   *)
(* socket fd of the event that owns it.                                   *)
(*                                                                         *)
(* Timer ids come from the uint32_t counter m_iNowTimerID; the model      *)
(* keeps its width as IDBits, so that the counter wraps as in the code.  *)
(* The heap is a bag of TimerObj; std::pop_heap under TimerObj::operator< *)
(* removes the entry with the smallest (deadline, id).  RemoveTimer only *)
(* erases the table entry: the heap entry stays until it is popped.      *)
(*                                                                         *)
(* pending and fired are history: the timers the owners of events hold   *)
(* (added, neither removed nor popped), and the last OnTimeout call.      *)
(*                                                                         *)
(* The event table of the same EventLoop: m_mapEvent from a socket fd to  *)
(* its event object and the epoll events it is registered for, beside    *)
(* the kernel's epoll interest set, the FD queue the acceptor thread     *)
(* fills (AddEvent), and the MessageEvent objects CreateEvent allocates  *)
(* and ClearEvent deletes.  MessageEvent is not under src/: what an event *)
(* does is the environment's choice (a read may fail, OnError may ask    *)
(* for deletion, a live event may ask for timers), with two assumptions   *)
(* of its class: the socket is closed when the object is deleted, and an *)
(* event asks for timers only while it is not destroyed.                  *)
(***************************************************************************)
EXTENDS Naturals, FiniteSets, Sequences, Bags, BagsExt, TLC

CONSTANTS
    Fds,        \* socket fds of the events that ask for timers; 0: no socket
    Types,      \* timer types (iType)
    IDBits,     \* width of m_iNowTimerID: 32 in the code
    Delays,     \* timeouts in ms an event may ask for
    MaxTime,    \* bound on the steady clock, a model bound
    MaxAdds,    \* bound on the number of AddTimer calls, a model bound
    Objs,       \* addresses a MessageEvent may be allocated at
    NoObj,      \* an event without a socket
    CreatePerTime, \* iCreatePerTime of CreateEvent: 200 in the code
    MaxAccepts  \* bound on the sockets the acceptor hands over, a model bound

IDs == 0 .. (2^IDBits - 1)
NoFd == 0
ASSUME NoFd \in Fds
NoFire == [fd |-> NoFd, id |-> 0, type |-> NoFd]

TimerObjs == [id : IDs, time : 0..MaxTime, type : Types]
Holds == [id : IDs, fd : Fds \ {NoFd}, type : Types, time : 0..MaxTime]

SocketFds == Fds \ {NoFd}
EPOLLIN == 1
\* EventCtx: the event object and m_iEvents (0 for an fd that only has timers).
EventCtxs == [obj : Objs, events : {0, EPOLLIN}]
ObjStates == {"free", "live", "destroyed"}

VARIABLES
    now,         \* Time::GetSteadyClockMS()
    nowTimerID,  \* Timer::m_iNowTimerID
    heap,        \* Timer::m_vecTimerHeap
    timerFd,     \* EventLoop::m_mapTimerID2FD (NoFd: no entry)
    adds,        \* AddTimer calls so far
    pending,     \* history: timers held by their events
    fired,       \* history: the OnTimeout call of the last step, or NoFire
    mapEvent,    \* EventLoop::m_mapEvent, a function on the fds it holds
    epollSet,    \* the fds registered with epoll, kernel state
    fdQueue,     \* EventLoop::m_oFDQueue
    objState,    \* each address: not allocated, a live event, destroyed (IsDestroy)
    objFd,       \* the socket fd of the event at each address
    accepts      \* AddEvent calls so far

timerVars == <<now, nowTimerID, heap, timerFd, adds, pending, fired>>
eventVars == <<mapEvent, epollSet, fdQueue, objState, objFd, accepts>>
loopVars == <<timerVars, eventVars>>

TimerTypeOK ==
    /\ now \in 0..MaxTime
    /\ nowTimerID \in IDs
    /\ IsABag(heap) /\ BagToSet(heap) \subseteq TimerObjs
    /\ timerFd \in [IDs -> Fds]
    /\ adds \in 0..MaxAdds
    /\ pending \subseteq Holds
    /\ fired \in [fd : Fds, id : IDs, type : Types \cup {NoFd}]
    /\ DOMAIN mapEvent \subseteq SocketFds
    /\ \A fd \in DOMAIN mapEvent : mapEvent[fd] \in EventCtxs
    /\ epollSet \subseteq SocketFds
    /\ fdQueue \in Seq(SocketFds)
    /\ objState \in [Objs -> ObjStates]
    /\ objFd \in [Objs -> Fds]
    /\ accepts \in 0..MaxAccepts

\* Timer::Timer() starts the ids at 1; the loop has no events yet, and
\* EventLoop::Init gives it an epoll fd with nothing registered.
TimerInit ==
    /\ now = 0
    /\ nowTimerID = 1
    /\ heap = EmptyBag
    /\ timerFd = [i \in IDs |-> NoFd]
    /\ adds = 0
    /\ pending = {}
    /\ fired = NoFire
    /\ mapEvent = << >>
    /\ epollSet = {}
    /\ fdQueue = << >>
    /\ objState = [o \in Objs |-> "free"]
    /\ objFd = [o \in Objs |-> NoFd]
    /\ accepts = 0

\* TimerObj::operator< makes std heap functions keep at the front the entry
\* with the earliest deadline, and among equal deadlines the smallest id.
Earlier(x, y) == x.time < y.time \/ (x.time = y.time /\ x.id <= y.id)

Front == CHOOSE x \in BagToSet(heap) : \A y \in BagToSet(heap) : Earlier(x, y)

-----------------------------------------------------------------------------
\* Timer::AddTimerWithType: the id handed out is m_iNowTimerID, and the
\* uint32_t counter is incremented, modulo its width.
NextTimerID == (nowTimerID + 1) % (2^IDBits)

\* Timer::PopTimeout finds an entry to pop: the heap is not empty and the
\* deadline of its front entry has passed.
Due == heap # EmptyBag /\ Front.time <= now

\* The fds the process holds open: those of allocated events and those
\* still in the FD queue.  The acceptor gets only an fd that is not open.
OpenFds == {objFd[o] : o \in {x \in Objs : objState[x] # "free"}}
           \cup {fdQueue[i] : i \in DOMAIN fdQueue}

\* The allocated event whose socket is fd; NoObj stands for an event
\* without a socket (GetSocketFd() == 0), which is not in Objs.
EventOf(fd) ==
    IF fd = NoFd THEN NoObj
    ELSE CHOOSE o \in Objs : objState[o] # "free" /\ objFd[o] = fd

\* The caller of AddTimer: an event without a socket, or a live event.
MayAskTimer(fd) ==
    fd = NoFd \/ \E o \in Objs : objState[o] = "live" /\ objFd[o] = fd

\* The m_mapEvent entry EventLoop::AddTimer makes for an fd it does not
\* hold yet: the event, with m_iEvents = 0.
WithTimerEntry(fd) ==
    IF fd \in DOMAIN mapEvent THEN mapEvent
    ELSE mapEvent @@ (fd :> [obj |-> EventOf(fd), events |-> 0])

\* Variant of AddTimer without the early return for an event that has no
\* socket.
AddTimerAnyFd(fd, delay, type) ==
    LET id == nowTimerID
    IN  /\ MayAskTimer(fd)
        /\ adds < MaxAdds
        /\ now + delay <= MaxTime
        /\ mapEvent' = WithTimerEntry(fd)
        /\ adds' = adds + 1
        /\ nowTimerID' = NextTimerID
        /\ heap' = BagAdd(heap, [id |-> id, time |-> now + delay, type |-> type])
        /\ timerFd' = [timerFd EXCEPT ![id] = fd]
        /\ pending' = pending \cup {[id |-> id, fd |-> fd, type |-> type,
                                    time |-> now + delay]}
        /\ fired' = NoFire
        /\ UNCHANGED <<now, epollSet, fdQueue, objState, objFd, accepts>>

\* EventLoop::AddTimer: an event without a socket fd gets no timer;
\* otherwise the fd gets an m_mapEvent entry if it has none,
\* Timer::AddTimerWithType takes the id m_iNowTimerID++ (uint32_t) and
\* pushes the entry, and the table maps the id to the fd.
AddTimer(fd, delay, type) ==
    LET id == nowTimerID
    IN  /\ MayAskTimer(fd)
        /\ fd # NoFd
        /\ adds < MaxAdds
        /\ now + delay <= MaxTime
        /\ mapEvent' = WithTimerEntry(fd)
        /\ adds' = adds + 1
        /\ nowTimerID' = NextTimerID
        /\ heap' = BagAdd(heap, [id |-> id, time |-> now + delay, type |-> type])
        /\ timerFd' = [timerFd EXCEPT ![id] = fd]
        /\ pending' = pending \cup {[id |-> id, fd |-> fd, type |-> type,
                                    time |-> now + delay]}
        /\ fired' = NoFire
        /\ UNCHANGED <<now, epollSet, fdQueue, objState, objFd, accepts>>

\* EventLoop::RemoveTimer(iTimerID) by the event holding timer t: erase the
\* table entry of its id, whatever fd it maps to now.
RemoveTimer(t) ==
    /\ t \in pending
    /\ timerFd' = [timerFd EXCEPT ![t.id] = NoFd]
    /\ pending' = pending \ {t}
    /\ fired' = NoFire
    /\ UNCHANGED <<now, nowTimerID, heap, adds>>
    /\ UNCHANGED eventVars

\* The held timer a pop of entry x consumes: delivered, or dropped because
\* its fd has left m_mapEvent.
Popped(x, fd) == {t \in pending : t.id = x.id /\ t.fd = fd}

\* Variant of DealwithTimeoutOne whose PopTimeout skips the deadline test.
DealwithTimeoutOneEarly ==
    /\ heap # EmptyBag
    /\ heap' = BagRemove(heap, Front)
    /\ LET fd == timerFd[Front.id]
       IN  IF fd = NoFd
           THEN UNCHANGED <<timerFd, pending>> /\ fired' = NoFire
           ELSE /\ timerFd' = [timerFd EXCEPT ![Front.id] = NoFd]
                /\ pending' = pending \ Popped(Front, fd)
                /\ fired' = IF fd \in DOMAIN mapEvent
                            THEN [fd |-> fd, id |-> Front.id, type |-> Front.type]
                            ELSE NoFire
    /\ UNCHANGED <<now, nowTimerID, adds>>
    /\ UNCHANGED eventVars

\* One turn of the while loop of EventLoop::DealwithTimeout: PopTimeout
\* takes the front entry if its deadline has passed, then
\* DealwithTimeoutOne drops it if the id has no table entry, else erases
\* the entry, and calls OnTimeout(id, type) on the event m_mapEvent holds
\* for the fd, if it holds one.
DealwithTimeoutOne ==
    /\ Due
    /\ heap' = BagRemove(heap, Front)
    /\ LET fd == timerFd[Front.id]
       IN  IF fd = NoFd
           THEN UNCHANGED <<timerFd, pending>> /\ fired' = NoFire
           ELSE /\ timerFd' = [timerFd EXCEPT ![Front.id] = NoFd]
                /\ pending' = pending \ Popped(Front, fd)
                /\ fired' = IF fd \in DOMAIN mapEvent
                            THEN [fd |-> fd, id |-> Front.id, type |-> Front.type]
                            ELSE NoFire
    /\ UNCHANGED <<now, nowTimerID, adds>>
    /\ UNCHANGED eventVars

\* The steady clock advances by one millisecond.
Tick ==
    /\ now < MaxTime
    /\ now' = now + 1
    /\ fired' = NoFire
    /\ UNCHANGED <<nowTimerID, heap, timerFd, adds, pending>>
    /\ UNCHANGED eventVars

-----------------------------------------------------------------------------
(* The event table.                                                       *)

\* EventLoop::AddEvent, on the acceptor's thread under m_oMutex: a newly
\* accepted socket, which the kernel gives an fd that is not open, is
\* queued for the loop.
AddEvent(fd) ==
    /\ accepts < MaxAccepts
    /\ fd \notin OpenFds
    /\ fdQueue' = Append(fdQueue, fd)
    /\ accepts' = accepts + 1
    /\ fired' = NoFire
    /\ UNCHANGED <<now, nowTimerID, heap, timerFd, adds, pending>>
    /\ UNCHANGED <<mapEvent, epollSet, objState, objFd>>

\* EventLoop::ClearEvent: the events of m_vecCreatedEvent that IsDestroy
\* are deleted, which closes their sockets; a closed fd leaves the epoll
\* set in the kernel.  m_mapEvent is not touched.
Destroyed == {o \in Objs : objState[o] = "destroyed"}
ClearedState == [o \in Objs |-> IF o \in Destroyed THEN "free" ELSE objState[o]]
ClearedFd == [o \in Objs |-> IF o \in Destroyed THEN NoFd ELSE objFd[o]]
ClosedFds == {objFd[o] : o \in Destroyed}

\* EventLoop::ModEvent(poEvent, iEvents) picks EPOLL_CTL_MOD for an fd
\* m_mapEvent holds with non-zero m_iEvents and EPOLL_CTL_ADD otherwise;
\* the kernel refuses ADD of a registered fd and MOD of an unregistered
\* one.  On success the entry is set to the event and iEvents; on failure
\* ModEvent returns and nothing changes.
ModOp(fd) ==
    IF fd \in DOMAIN mapEvent /\ mapEvent[fd].events # 0 THEN "mod" ELSE "add"
CtlSucceeds(op, fd, ep) == IF op = "add" THEN fd \notin ep ELSE fd \in ep

\* EventLoop::CreateEvent, under m_oMutex: nothing if the queue is empty;
\* else ClearEvent, then for at most iCreatePerTime queued fds a new
\* MessageEvent, whose constructor's AddEvent(EPOLLIN) calls ModEvent.
CreateEvent ==
    LET n  == IF Len(fdQueue) < CreatePerTime THEN Len(fdQueue) ELSE CreatePerTime
        ep == epollSet \ ClosedFds
    IN  /\ fdQueue # << >>
        /\ \E at \in [1..n -> {o \in Objs : ClearedState[o] = "free"}] :
             LET made == {at[i] : i \in 1..n}
                 ok   == {i \in 1..n : CtlSucceeds(ModOp(fdQueue[i]), fdQueue[i], ep)}
                 okFd == {fdQueue[i] : i \in ok}
                 slot(o) == CHOOSE i \in 1..n : at[i] = o
             IN  /\ \A i, j \in 1..n : at[i] = at[j] => i = j
                 /\ objState' = [o \in Objs |-> IF o \in made THEN "live" ELSE ClearedState[o]]
                 /\ objFd' = [o \in Objs |-> IF o \in made THEN fdQueue[slot(o)] ELSE ClearedFd[o]]
                 /\ mapEvent' = [fd \in DOMAIN mapEvent \cup okFd |->
                                   IF fd \in okFd
                                   THEN [obj |-> at[CHOOSE i \in ok : fdQueue[i] = fd],
                                         events |-> EPOLLIN]
                                   ELSE mapEvent[fd]]
                 /\ epollSet' = ep \cup okFd
        /\ fdQueue' = SubSeq(fdQueue, n + 1, Len(fdQueue))
        /\ fired' = NoFire
        /\ UNCHANGED <<now, nowTimerID, heap, timerFd, adds, pending, accepts>>

\* EventLoop::GetActiveEventCount: ClearEvent under m_oMutex.
GetActiveEventCount ==
    /\ Destroyed # {}
    /\ objState' = ClearedState
    /\ objFd' = ClearedFd
    /\ epollSet' = epollSet \ ClosedFds
    /\ fired' = NoFire
    /\ UNCHANGED <<now, nowTimerID, heap, timerFd, adds, pending>>
    /\ UNCHANGED <<mapEvent, fdQueue, accepts>>

\* Variant of RemoveEvent that unregisters the fd from epoll and keeps its
\* m_mapEvent entry.
RemoveEventKeepEntry(o) ==
    LET fd == objFd[o]
    IN  /\ epollSet' = IF fd \in DOMAIN mapEvent THEN epollSet \ {fd} ELSE epollSet
        /\ UNCHANGED mapEvent

\* EventLoop::RemoveEvent(poEvent): nothing if m_mapEvent has no entry for
\* the event's fd; EPOLL_CTL_DEL, and on failure return; else erase it.
RemoveEvent(o) ==
    LET fd == objFd[o]
    IN  IF fd \in DOMAIN mapEvent /\ fd \in epollSet
        THEN /\ mapEvent' = [x \in DOMAIN mapEvent \ {fd} |-> mapEvent[x]]
             /\ epollSet' = epollSet \ {fd}
        ELSE UNCHANGED <<mapEvent, epollSet>>

\* One event of EventLoop::OneLoop that ends in EventLoop::OnError: epoll
\* reports fd, m_mapEvent holds it (else the loop goes on), and the event
\* has EPOLLERR or its OnRead fails.  OnError calls RemoveEvent, then the
\* event's OnError, which may ask to be deleted: Destroy.  Events whose
\* read succeeds change nothing modelled here.
OneLoop(fd) ==
    LET o == mapEvent[fd].obj
    IN  /\ fd \in epollSet
        /\ fd \in DOMAIN mapEvent
        /\ RemoveEvent(o)
        /\ \E needDelete \in BOOLEAN :
              objState' = [objState EXCEPT ![o] = IF needDelete THEN "destroyed" ELSE @]
        /\ fired' = NoFire
        /\ UNCHANGED <<now, nowTimerID, heap, timerFd, adds, pending>>
        /\ UNCHANGED <<fdQueue, objFd, accepts>>

\* The bounds are used up: the clock has run out and every entry has been
\* popped.
Exhausted ==
    /\ now = MaxTime /\ heap = EmptyBag
    /\ UNCHANGED loopVars

TimerNext ==
    \/ \E fd \in Fds, d \in Delays, ty \in Types : AddTimer(fd, d, ty)
    \/ \E t \in pending : RemoveTimer(t)
    \/ DealwithTimeoutOne
    \/ Tick
    \/ \E fd \in SocketFds : AddEvent(fd)
    \/ CreateEvent
    \/ GetActiveEventCount
    \/ \E fd \in SocketFds : OneLoop(fd)
    \/ Exhausted

TimerSpec == TimerInit /\ [][TimerNext]_loopVars

-----------------------------------------------------------------------------
(* Properties.                                                            *)

\* OnTimeout is called on the event of an fd only for a timer added for that
\* fd and still held (not removed with RemoveTimer), with the type it was
\* added with, once its deadline has passed: the timer id alone identifies
\* the fd in m_mapTimerID2FD, which relies on ids never being reused.
DeliveredToOwnerWhenDue ==
    [][fired' # NoFire =>
         \E t \in pending : /\ t.id = fired'.id /\ t.fd = fired'.fd
                            /\ t.type = fired'.type /\ t.time <= now]_timerVars

\* m_mapEvent and the kernel agree, across accepts, errors, Destroy and the
\* ClearEvent of a later CreateEvent: every entry names an event that is
\* still allocated (not deleted by ClearEvent) on that very fd, so OneLoop
\* and DealwithTimeoutOne never call into a deleted event; and an fd is
\* registered with epoll exactly when its entry has non-zero m_iEvents, so
\* ModEvent's choice of ADD or MOD is the one the kernel accepts.
EventTableSound ==
    /\ \A fd \in DOMAIN mapEvent :
          /\ objState[mapEvent[fd].obj] # "free"
          /\ objFd[mapEvent[fd].obj] = fd
    /\ \A fd \in SocketFds :
          fd \in epollSet <=> (fd \in DOMAIN mapEvent /\ mapEvent[fd].events # 0)

=============================================================================

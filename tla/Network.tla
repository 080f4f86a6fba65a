------------------------------ MODULE Network ------------------------------
(* DFNetWork of dfnetwork.cpp: the UDP send thread with its queue (UDPSend),  *)
(* the UDP receive thread (UDPRecv) and the TCP I/O thread running an         *)
(* EventLoop, started by RunNetWork and stopped by StopNetWork on the thread *)
(* that owns the network.  Each locked region and each turn of a thread's    *)
(* loop is one action; the owner's calls are the steps of mainPc.            *)
EXTENDS Naturals, Sequences

CONSTANTS
    Msgs,            \* payloads handed to SendMessageUDP
    UDP_QUEUE_MAXLEN,
    MaxAdds          \* bound on AddMessage calls

Threads == {"send", "recv", "tcp"}
UDPThreads == {"send", "recv"}

VARIABLES
    mainPc,      \* where the owner is in RunNetWork / StopNetWork / delete
    pc,          \* each thread: not yet created, created, in its loop, returned
    isStarted,   \* m_bIsStarted of UDPSend and UDPRecv
    isEnd,       \* m_bIsEnd of UDPSend, UDPRecv and the EventLoop
    queue,       \* m_oSendQueue
    sent,        \* history: payloads handed to sendto
    adds,        \* bound
    destroyed    \* the DFNetWork object has been deleted

netVars == <<mainPc, pc, isStarted, isEnd, queue, sent, adds, destroyed>>

MainSteps == {"init", "running", "stopRecv", "joinRecv", "stopSend", "joinSend",
              "stopTcp", "joinTcp", "delete", "done"}

NetTypeOK ==
    /\ mainPc \in MainSteps
    /\ pc \in [Threads -> {"none", "created", "loop", "ended"}]
    /\ isStarted \in [UDPThreads -> BOOLEAN]
    /\ isEnd \in [Threads -> BOOLEAN]
    /\ queue \in Seq(Msgs)
    /\ Len(queue) <= UDP_QUEUE_MAXLEN + 1
    /\ sent \in SUBSET Msgs
    /\ adds \in 0..MaxAdds
    /\ destroyed \in BOOLEAN

\* The constructors: m_bIsEnd(false), m_bIsStarted(false), an empty queue.
NetInit ==
    /\ mainPc = "init"
    /\ pc = [t \in Threads |-> "none"]
    /\ isStarted = [t \in UDPThreads |-> FALSE]
    /\ isEnd = [t \in Threads |-> FALSE]
    /\ queue = <<>>
    /\ sent = {}
    /\ adds = 0
    /\ destroyed = FALSE

-----------------------------------------------------------------------------
\* DFNetWork::RunNetWork: start() of UDPSend, UDPRecv and the TCP I/O
\* threads.  start() only creates a thread; run() begins later, on it.
RunNetWork ==
    /\ mainPc = "init"
    /\ mainPc' = "running"
    /\ pc' = [t \in Threads |-> "created"]
    /\ UNCHANGED <<isStarted, isEnd, queue, sent, adds, destroyed>>

\* UDPSend::AddMessage, under the queue lock: refused with -2 only when the
\* queue already holds more than UDP_QUEUE_MAXLEN messages.
AddMessage(m) ==
    /\ mainPc = "running"
    /\ adds < MaxAdds
    /\ adds' = adds + 1
    /\ IF Len(queue) > UDP_QUEUE_MAXLEN
       THEN UNCHANGED queue
       ELSE queue' = Append(queue, m)
    /\ UNCHANGED <<mainPc, pc, isStarted, isEnd, sent, destroyed>>

\* The first statement of UDPSend::run and UDPRecv::run: m_bIsStarted = true.
UDPStart(t) ==
    /\ pc[t] = "created"
    /\ pc' = [pc EXCEPT ![t] = "loop"]
    /\ isStarted' = [isStarted EXCEPT ![t] = TRUE]
    /\ UNCHANGED <<mainPc, isEnd, queue, sent, adds, destroyed>>

\* One turn of UDPSend::run: peek with a 1000 ms timeout and pop under the
\* lock, SendMessage what was taken, then return if m_bIsEnd.
SendTurn ==
    /\ pc["send"] = "loop"
    /\ IF queue # <<>>
       THEN /\ queue' = Tail(queue)
            /\ sent' = sent \cup {Head(queue)}
       ELSE UNCHANGED <<queue, sent>>
    /\ pc' = IF isEnd["send"] THEN [pc EXCEPT !["send"] = "ended"] ELSE pc
    /\ UNCHANGED <<mainPc, isStarted, isEnd, adds, destroyed>>

\* One turn of UDPRecv::run: return if m_bIsEnd, else poll for 500 ms and
\* hand a datagram, if one came, to OnReceiveMessage.
RecvTurn ==
    /\ pc["recv"] = "loop"
    /\ isEnd["recv"]
    /\ pc' = [pc EXCEPT !["recv"] = "ended"]
    /\ UNCHANGED <<mainPc, isStarted, isEnd, queue, sent, adds, destroyed>>

\* The TCP thread's run calls EventLoop::StartLoop, whose first statement is
\* m_bIsEnd = false.
TcpStartLoop ==
    /\ pc["tcp"] = "created"
    /\ pc' = [pc EXCEPT !["tcp"] = "loop"]
    /\ isEnd' = [isEnd EXCEPT !["tcp"] = FALSE]
    /\ UNCHANGED <<mainPc, isStarted, queue, sent, adds, destroyed>>

\* One turn of StartLoop: timeouts, epoll, new events, writes, then break if
\* m_bIsEnd.  Only the break changes what this model tracks.
TcpTurn ==
    /\ pc["tcp"] = "loop"
    /\ isEnd["tcp"]
    /\ pc' = [pc EXCEPT !["tcp"] = "ended"]
    /\ UNCHANGED <<mainPc, isStarted, isEnd, queue, sent, adds, destroyed>>

-----------------------------------------------------------------------------
\* DFNetWork::StopNetWork, on the owner's thread: m_oUDPRecv.Stop(),
\* m_oUDPSend.Stop(), m_oTcpIOThread.Stop(), in this order.
\* UDPRecv::Stop / UDPSend::Stop: only if m_bIsStarted, set m_bIsEnd and
\* join.
BeginStop ==
    /\ mainPc = "running"
    /\ mainPc' = "stopRecv"
    /\ UNCHANGED <<pc, isStarted, isEnd, queue, sent, adds, destroyed>>

UDPStop(t, here, joinAt, next) ==
    /\ mainPc = here
    /\ IF isStarted[t]
       THEN /\ isEnd' = [isEnd EXCEPT ![t] = TRUE]
            /\ mainPc' = joinAt
       ELSE /\ mainPc' = next
            /\ UNCHANGED isEnd
    /\ UNCHANGED <<pc, isStarted, queue, sent, adds, destroyed>>

\* join(): wait until the thread has returned from run.
Join(t, here, next) ==
    /\ mainPc = here
    /\ pc[t] = "ended"
    /\ mainPc' = next
    /\ UNCHANGED <<pc, isStarted, isEnd, queue, sent, adds, destroyed>>

\* TcpIOThread::Stop calls EventLoop::Stop (m_bIsEnd = true) of its loop and
\* joins the thread; Start has set its m_bIsStarted in RunNetWork.
TcpStop ==
    /\ mainPc = "stopTcp"
    /\ isEnd' = [isEnd EXCEPT !["tcp"] = TRUE]
    /\ mainPc' = "joinTcp"
    /\ UNCHANGED <<pc, isStarted, queue, sent, adds, destroyed>>

\* Deleting the network: ~UDPSend deletes what is left in the queue and
\* ~UDPRecv closes the socket.
Delete ==
    /\ mainPc = "delete"
    /\ mainPc' = "done"
    /\ queue' = <<>>
    /\ destroyed' = TRUE
    /\ UNCHANGED <<pc, isStarted, isEnd, sent, adds>>

StopNetWork ==
    \/ BeginStop
    \/ UDPStop("recv", "stopRecv", "joinRecv", "stopSend")
    \/ Join("recv", "joinRecv", "stopSend")
    \/ UDPStop("send", "stopSend", "joinSend", "stopTcp")
    \/ Join("send", "joinSend", "stopTcp")
    \/ TcpStop
    \/ Join("tcp", "joinTcp", "delete")
    \/ Delete

NetNext ==
    \/ RunNetWork
    \/ \E m \in Msgs : AddMessage(m)
    \/ \E t \in UDPThreads : UDPStart(t)
    \/ SendTurn
    \/ RecvTurn
    \/ TcpStartLoop
    \/ TcpTurn
    \/ StopNetWork

\* Every thread is scheduled: a step it can keep taking is eventually taken.
NetSpec ==
    /\ NetInit
    /\ [][NetNext]_netVars
    /\ WF_netVars(SendTurn) /\ WF_netVars(RecvTurn) /\ WF_netVars(TcpTurn)
    /\ WF_netVars(TcpStartLoop) /\ \A t \in UDPThreads : WF_netVars(UDPStart(t))
    /\ WF_netVars(StopNetWork)

-----------------------------------------------------------------------------
\* Once the network object is deleted, no UDP or TCP thread is still running
\* or still to start on it: StopNetWork must have ended and joined each of
\* them (UDPSend::Stop / UDPRecv::Stop test m_bIsStarted, set by run()).
NoThreadAfterDelete ==
    destroyed => \A t \in Threads : pc[t] = "ended"
=============================================================================

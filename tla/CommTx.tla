------------------------------- MODULE CommTx -------------------------------
(***************************************************************************)
(* The sending half of CommBase (EIBCommNEO/CommBase.cpp): the queue       *)
(* m_tx_list, its mutex and event, the threads that call tx_sync and       *)
(* tx_async, the tx thread, and the life of the object from Init to        *)
(* Uninit.  One step is what a thread does between two points at which     *)
(* another thread may interfere.                                           *)
(*                                                                         *)
(* Mutexes are those of the CrossPlatform layer: WaitForSingleObject polls *)
(* a non-recursive lock, so there is no queue of waiters.  The wait for    *)
(* m_event4tx_list has a 25 ms timeout and may always end.                 *)
(***************************************************************************)
EXTENDS Naturals, Sequences

CONSTANTS Callers,     \* application threads that call tx_sync / tx_async
          TxThread,    \* the thread started on CommBase::tx_thread
          Nobody,      \* "no thread holds the mutex"
          MaxFrames    \* bound: no call starts once this many frames have been queued

ASSUME ThreadsAssumption == TxThread \notin Callers /\ Nobody \notin Callers \cup {TxThread}
ASSUME MaxFramesAssumption == MaxFrames \in Nat

VARIABLES
    life,              \* how far the owner of the object is: see LifeStates
    m_inited,          \* CommBase::m_inited
    m_quit_tx_thread,  \* CommBase::m_quit_tx_thread
    m_tx_list,         \* CommBase::m_tx_list, front first
    m_next_tx_id,      \* CommBase::m_next_tx_id
    mutex4tx,          \* holder of CommBase::m_mutex4tx_list
    event4tx,          \* CommBase::m_event4tx_list (manual reset): signalled or not
    tx_pc,             \* where the tx thread is
    call_pc,           \* call_pc[c]: where caller c is
    call_sync,         \* call_sync[c]: the call in progress is tx_sync
    call_evt,          \* call_evt[c]: the event tx_sync created for its frame
    call_ret,          \* call_ret[c]: what the last call returned
    call_id,           \* history: the id caller c's last frame was queued under
    wire               \* history: frames given to _send_frame, with its verdict

owner_vars == <<life, m_inited, m_quit_tx_thread>>
caller_vars == <<call_pc, call_sync, call_ret, call_id>>
vars == <<owner_vars, m_tx_list, m_next_tx_id, mutex4tx, event4tx, tx_pc,
          caller_vars, call_evt, wire>>

LifeStates == {"raw", "threads started", "up", "joining", "closed"}
TxStates == {"not started", "test", "wait", "lock", "inspect", "signal", "pop", "gone"}
CallStates == {"idle", "lock", "push", "notify", "wait"}
EventStates == {"none", "clear", "signalled"}
Returns == {"none", "refused", "SENDING_OKAY", "SENDING_INQUEUE"}

TxData == [id : Nat, by : Callers, sync : BOOLEAN]
Sent == [id : Nat, by : Callers, sync : BOOLEAN, okay : BOOLEAN]

TypeOK ==
    /\ life \in LifeStates
    /\ m_inited \in BOOLEAN
    /\ m_quit_tx_thread \in BOOLEAN
    /\ m_tx_list \in Seq(TxData)
    /\ m_next_tx_id \in Nat /\ m_next_tx_id > 0
    /\ mutex4tx \in Callers \cup {TxThread, Nobody}
    /\ event4tx \in BOOLEAN
    /\ tx_pc \in TxStates
    /\ call_pc \in [Callers -> CallStates]
    /\ call_sync \in [Callers -> BOOLEAN]
    /\ call_evt \in [Callers -> EventStates]
    /\ call_ret \in [Callers -> Returns]
    /\ call_id \in [Callers -> Nat]
    /\ wire \in Seq(Sent)

\* The constructor has run; the threads do not exist yet.
Init ==
    /\ life = "raw"
    /\ m_inited = FALSE
    /\ m_quit_tx_thread = FALSE
    /\ m_tx_list = <<>>
    /\ m_next_tx_id = 1
    /\ mutex4tx = Nobody
    /\ event4tx = FALSE
    /\ tx_pc = "not started"
    /\ call_pc = [c \in Callers |-> "idle"]
    /\ call_sync = [c \in Callers |-> FALSE]
    /\ call_evt = [c \in Callers |-> "none"]
    /\ call_ret = [c \in Callers |-> "none"]
    /\ call_id = [c \in Callers |-> 0]
    /\ wire = <<>>

-----------------------------------------------------------------------------
(* The owner: Init and Uninit.                                             *)

\* CommBase::Init up to the creation of the threads, which start at once.
InitStart ==
    /\ life = "raw"
    /\ life' = "threads started"
    /\ m_quit_tx_thread' = FALSE
    /\ m_next_tx_id' = 1
    /\ event4tx' = FALSE
    /\ mutex4tx' = Nobody
    /\ tx_pc' = "test"
    /\ UNCHANGED <<m_inited, m_tx_list, caller_vars, call_evt, wire>>

\* The last statement of CommBase::Init.
InitFinish ==
    /\ life = "threads started"
    /\ life' = "up"
    /\ m_inited' = TRUE
    /\ UNCHANGED <<m_quit_tx_thread, m_tx_list, m_next_tx_id, mutex4tx, event4tx, tx_pc,
                   caller_vars, call_evt, wire>>

\* CommBase::Uninit asks the thread to quit and joins it.
UninitStart ==
    /\ life = "up"
    /\ m_inited
    /\ life' = "joining"
    /\ m_quit_tx_thread' = TRUE
    /\ UNCHANGED <<m_inited, m_tx_list, m_next_tx_id, mutex4tx, event4tx, tx_pc,
                   caller_vars, call_evt, wire>>

\* The join returns and the handles are closed.  m_inited stays TRUE and the
\* queue keeps what it holds; the object is deleted next, so that no thread
\* that is still inside a call is followed any further.
UninitFinish ==
    /\ life = "joining"
    /\ tx_pc = "gone"
    /\ life' = "closed"
    /\ UNCHANGED <<m_inited, m_quit_tx_thread, m_tx_list, m_next_tx_id, mutex4tx, event4tx,
                   tx_pc, caller_vars, call_evt, wire>>

-----------------------------------------------------------------------------
(* The callers: tx_sync and tx_async.                                      *)

\* The early returns: not initialised (the only outcome then), NULL frame, or no
\* event for tx_sync.
TxRefuse(c) ==
    /\ life # "closed"
    /\ call_pc[c] = "idle"
    /\ call_ret' = [call_ret EXCEPT ![c] = "refused"]
    /\ UNCHANGED <<owner_vars, m_tx_list, m_next_tx_id, mutex4tx, event4tx, tx_pc,
                   call_pc, call_sync, call_id, call_evt, wire>>

\* A call that passes its guards; tx_sync creates its event first.
TxEnter(c, sync) ==
    /\ life # "closed"
    /\ call_pc[c] = "idle"
    /\ m_inited
    /\ m_next_tx_id <= MaxFrames
    /\ call_pc' = [call_pc EXCEPT ![c] = "lock"]
    /\ call_sync' = [call_sync EXCEPT ![c] = sync]
    /\ call_evt' = [call_evt EXCEPT ![c] = IF sync THEN "clear" ELSE "none"]
    /\ call_ret' = [call_ret EXCEPT ![c] = "none"]
    /\ UNCHANGED <<owner_vars, m_tx_list, m_next_tx_id, mutex4tx, event4tx, tx_pc,
                   call_id, wire>>

\* WaitForSingleObject(m_mutex4tx_list, INFINITE)
TxLock(c) ==
    /\ life # "closed"
    /\ call_pc[c] = "lock"
    /\ mutex4tx = Nobody
    /\ mutex4tx' = c
    /\ call_pc' = [call_pc EXCEPT ![c] = "push"]
    /\ UNCHANGED <<owner_vars, m_tx_list, m_next_tx_id, event4tx, tx_pc,
                   call_sync, call_ret, call_id, call_evt, wire>>

\* push_back and ReleaseMutex.
TxPush(c) ==
    /\ life # "closed"
    /\ call_pc[c] = "push"
    /\ m_tx_list' = Append(m_tx_list, [id |-> m_next_tx_id, by |-> c, sync |-> call_sync[c]])
    /\ m_next_tx_id' = m_next_tx_id + 1
    /\ call_id' = [call_id EXCEPT ![c] = m_next_tx_id]
    /\ mutex4tx' = Nobody
    /\ call_pc' = [call_pc EXCEPT ![c] = "notify"]
    /\ UNCHANGED <<owner_vars, event4tx, tx_pc, call_sync, call_ret, call_evt, wire>>

\* SetEvent(m_event4tx_list); tx_async returns, tx_sync goes on to wait.
TxNotify(c) ==
    /\ life # "closed"
    /\ call_pc[c] = "notify"
    /\ event4tx' = TRUE
    /\ IF call_sync[c]
       THEN /\ call_pc' = [call_pc EXCEPT ![c] = "wait"]
            /\ UNCHANGED call_ret
       ELSE /\ call_pc' = [call_pc EXCEPT ![c] = "idle"]
            /\ call_ret' = [call_ret EXCEPT ![c] = "SENDING_INQUEUE"]
    /\ UNCHANGED <<owner_vars, m_tx_list, m_next_tx_id, mutex4tx, tx_pc,
                   call_sync, call_id, call_evt, wire>>

\* Mutant of TxReturn: the wait gives up without the event.
TxReturn_GivesUp(c) ==
    /\ life # "closed"
    /\ call_pc[c] = "wait"
    /\ call_evt' = [call_evt EXCEPT ![c] = "none"]
    /\ call_pc' = [call_pc EXCEPT ![c] = "idle"]
    /\ call_ret' = [call_ret EXCEPT ![c] = "SENDING_OKAY"]
    /\ UNCHANGED <<owner_vars, m_tx_list, m_next_tx_id, mutex4tx, event4tx, tx_pc,
                   call_sync, call_id, wire>>

\* The caller's own event is signalled: it closes the event and returns.
TxReturn(c) ==
    /\ life # "closed"
    /\ call_pc[c] = "wait"
    /\ call_evt[c] = "signalled"
    /\ call_evt' = [call_evt EXCEPT ![c] = "none"]
    /\ call_pc' = [call_pc EXCEPT ![c] = "idle"]
    /\ call_ret' = [call_ret EXCEPT ![c] = "SENDING_OKAY"]
    /\ UNCHANGED <<owner_vars, m_tx_list, m_next_tx_id, mutex4tx, event4tx, tx_pc,
                   call_sync, call_id, wire>>

-----------------------------------------------------------------------------
(* The tx thread.                                                          *)

\* Mutant of TxThreadTest: the thread ends if it is scheduled before Init ends.
TxThreadTest_NoPause ==
    /\ tx_pc = "test"
    /\ tx_pc' = IF m_quit_tx_thread \/ ~m_inited THEN "gone" ELSE "wait"
    /\ UNCHANGED <<owner_vars, m_tx_list, m_next_tx_id, mutex4tx, event4tx,
                   caller_vars, call_evt, wire>>

\* The loop condition, and the pause while Init has not finished.
TxThreadTest ==
    /\ tx_pc = "test"
    /\ tx_pc' = IF m_quit_tx_thread THEN "gone"
                ELSE IF m_inited THEN "wait" ELSE "test"
    /\ UNCHANGED <<owner_vars, m_tx_list, m_next_tx_id, mutex4tx, event4tx,
                   caller_vars, call_evt, wire>>

\* Mutant of TxThreadWait: the event is an auto-reset one.
TxThreadWait_AutoReset ==
    /\ tx_pc = "wait"
    /\ event4tx' = FALSE
    /\ tx_pc' = "lock"
    /\ UNCHANGED <<owner_vars, m_tx_list, m_next_tx_id, mutex4tx,
                   caller_vars, call_evt, wire>>

\* The wait for m_event4tx_list ends, by the event or by the 25 ms timeout.
TxThreadWait ==
    /\ tx_pc = "wait"
    /\ tx_pc' = "lock"
    /\ UNCHANGED <<owner_vars, m_tx_list, m_next_tx_id, mutex4tx, event4tx,
                   caller_vars, call_evt, wire>>

TxThreadLock ==
    /\ tx_pc = "lock"
    /\ mutex4tx = Nobody
    /\ mutex4tx' = TxThread
    /\ tx_pc' = "inspect"
    /\ UNCHANGED <<owner_vars, m_tx_list, m_next_tx_id, event4tx, caller_vars, call_evt, wire>>

\* Mutant of TxThreadIdle: the early continue keeps the mutex.
TxThreadIdle_KeepsMutex ==
    /\ tx_pc = "inspect"
    /\ m_tx_list = <<>>
    /\ event4tx' = FALSE
    /\ tx_pc' = "test"
    /\ UNCHANGED <<owner_vars, m_tx_list, m_next_tx_id, mutex4tx, caller_vars, call_evt, wire>>

\* The queue is empty: the event is reset before the mutex is released.
TxThreadIdle ==
    /\ tx_pc = "inspect"
    /\ m_tx_list = <<>>
    /\ event4tx' = FALSE
    /\ mutex4tx' = Nobody
    /\ tx_pc' = "test"
    /\ UNCHANGED <<owner_vars, m_tx_list, m_next_tx_id, caller_vars, call_evt, wire>>

\* _send_frame on the front of the queue, with the mutex held.  The verdict is
\* the channel's; a failure is only logged.
TxThreadSend(okay) ==
    /\ tx_pc = "inspect"
    /\ m_tx_list # <<>>
    /\ LET front == Head(m_tx_list) IN
       wire' = Append(wire, [id |-> front.id, by |-> front.by, sync |-> front.sync, okay |-> okay])
    /\ tx_pc' = "signal"
    /\ UNCHANGED <<owner_vars, m_tx_list, m_next_tx_id, mutex4tx, event4tx,
                   caller_vars, call_evt>>

\* Mutant of TxThreadSignal: nobody is told that a frame failed to go out.
TxThreadSignal_OnlyIfSent ==
    /\ tx_pc = "signal"
    /\ LET front == Head(m_tx_list) IN
       call_evt' = IF front.sync /\ wire[Len(wire)].okay
                   THEN [call_evt EXCEPT ![front.by] = "signalled"] ELSE call_evt
    /\ tx_pc' = "pop"
    /\ UNCHANGED <<owner_vars, m_tx_list, m_next_tx_id, mutex4tx, event4tx, caller_vars, wire>>

\* After the pause between two frames: SetEvent on the front's own event.
TxThreadSignal ==
    /\ tx_pc = "signal"
    /\ LET front == Head(m_tx_list) IN
       call_evt' = IF front.sync THEN [call_evt EXCEPT ![front.by] = "signalled"] ELSE call_evt
    /\ tx_pc' = "pop"
    /\ UNCHANGED <<owner_vars, m_tx_list, m_next_tx_id, mutex4tx, event4tx, caller_vars, wire>>

\* Mutant of TxThreadPop: pop_back for pop_front.
TxThreadPop_Back ==
    /\ tx_pc = "pop"
    /\ m_tx_list' = SubSeq(m_tx_list, 1, Len(m_tx_list) - 1)
    /\ mutex4tx' = Nobody
    /\ tx_pc' = "test"
    /\ UNCHANGED <<owner_vars, m_next_tx_id, event4tx, caller_vars, call_evt, wire>>

\* delete, pop_front and ReleaseMutex.
TxThreadPop ==
    /\ tx_pc = "pop"
    /\ m_tx_list' = Tail(m_tx_list)
    /\ mutex4tx' = Nobody
    /\ tx_pc' = "test"
    /\ UNCHANGED <<owner_vars, m_next_tx_id, event4tx, caller_vars, call_evt, wire>>

-----------------------------------------------------------------------------

Owner == InitStart \/ InitFinish \/ UninitStart \/ UninitFinish

Caller(c) ==
    \/ TxRefuse(c)
    \/ \E sync \in BOOLEAN : TxEnter(c, sync)
    \/ TxLock(c) \/ TxPush(c) \/ TxNotify(c) \/ TxReturn(c)

TxThreadStep ==
    \/ TxThreadTest \/ TxThreadWait \/ TxThreadLock \/ TxThreadIdle
    \/ \E okay \in BOOLEAN : TxThreadSend(okay)
    \/ TxThreadSignal \/ TxThreadPop

Next == Owner \/ TxThreadStep \/ \E c \in Callers : Caller(c)

Spec == Init /\ [][Next]_vars

(***************************************************************************)
(* Threads that can run do run.  A thread that polls for the mutex gets it *)
(* when it is free again and again: the tx thread leaves it free for up to *)
(* 25 ms whenever the queue is empty, and a caller holds it for a moment.  *)
(* Nothing obliges the application to call, nor the owner to Uninit; an    *)
(* Init or Uninit that has begun goes on.                                  *)
(***************************************************************************)
Fairness ==
    /\ WF_vars(InitFinish) /\ WF_vars(UninitFinish)
    /\ WF_vars(TxThreadStep) /\ SF_vars(TxThreadLock)
    /\ \A c \in Callers :
         SF_vars(TxLock(c)) /\ WF_vars(TxPush(c)) /\ WF_vars(TxNotify(c)) /\ WF_vars(TxReturn(c))

FairSpec == Spec /\ Fairness

-----------------------------------------------------------------------------
(* What should hold.                                                       *)

\* The front of the queue has been given to _send_frame and not yet popped.
InFlight == IF tx_pc \in {"signal", "pop"} THEN 1 ELSE 0

\* Every frame queued is sent at most once and in the order of the calls: the
\* frames sent and those still queued are numbered without a gap or a repeat,
\* the frame in flight being both (the queue and the pop in tx_thread).
ExactlyOnceInOrder ==
    /\ Len(wire) + Len(m_tx_list) = m_next_tx_id - 1 + InFlight
    /\ \A i \in DOMAIN wire : wire[i].id = i
    /\ \A i \in DOMAIN m_tx_list : m_tx_list[i].id = Len(wire) - InFlight + i

Queued(c) == \E i \in DOMAIN m_tx_list : /\ m_tx_list[i].id = call_id[c]
                                        /\ m_tx_list[i].by = c
                                        /\ m_tx_list[i].sync

Attempted(c) == \E i \in DOMAIN wire : wire[i].id = call_id[c] /\ wire[i].by = c

\* A thread blocked in tx_sync is never forgotten: its frame is in the queue,
\* where the tx thread finds the event to signal, or the event is signalled
\* and the frame has been attempted.
WaiterAccounted ==
    \A c \in Callers : call_pc[c] = "wait" =>
        \/ call_evt[c] = "clear" /\ Queued(c)
        \/ call_evt[c] = "signalled" /\ Attempted(c)

\* No wakeup is lost between push_back, SetEvent and the tx thread's
\* ResetEvent: while frames are queued the event is signalled or a caller is
\* about to signal it, so that the thread never sleeps its 25 ms over a frame.
WakeupPending ==
    m_tx_list # <<>> => event4tx \/ \E c \in Callers : call_pc[c] = "notify"

\* A thread blocked in tx_sync returns, unless Uninit has begun: the tx thread
\* leaves its loop with frames in the queue and signals none of their events.
SyncCallReturns ==
    \A c \in Callers : call_pc[c] = "wait" ~> call_pc[c] = "idle" \/ m_quit_tx_thread

\* Every frame queued is attempted, unless Uninit has begun.
EveryFrameAttempted ==
    \A n \in 1..MaxFrames : m_next_tx_id > n ~> Len(wire) >= n \/ m_quit_tx_thread

\* Uninit gets past the join of the tx thread.
UninitCompletes == life = "joining" ~> life = "closed"

\* The flags follow the life of the object, and nothing moves before Init ends.
LifeInv ==
    /\ m_inited <=> life \in {"up", "joining", "closed"}
    /\ m_quit_tx_thread <=> life \in {"joining", "closed"}
    /\ tx_pc = "not started" <=> life = "raw"
    /\ tx_pc = "gone" => m_quit_tx_thread
    /\ life = "closed" => tx_pc = "gone"
    /\ ~m_inited => /\ tx_pc \in {"not started", "test"}
                    /\ m_tx_list = <<>> /\ wire = <<>> /\ m_next_tx_id = 1
                    /\ \A c \in Callers : call_pc[c] = "idle"

\* Who holds m_mutex4tx_list is told by where the threads are.
MutexInv ==
    /\ mutex4tx = TxThread <=> tx_pc \in {"inspect", "signal", "pop"}
    /\ \A c \in Callers : mutex4tx = c <=> call_pc[c] = "push"

\* The frame in flight is the front of the queue and the last one on the wire.
FlightInv ==
    InFlight = 1 => /\ m_tx_list # <<>> /\ wire # <<>>
                    /\ wire[Len(wire)].by = Head(m_tx_list).by

\* Entry i still has its event to be signalled.
Unsignalled(i) == m_tx_list[i].sync /\ ~(i = 1 /\ tx_pc = "pop")

\* Caller c is inside tx_sync with its frame queued.
InsideSync(c) == call_sync[c] /\ call_pc[c] \in {"notify", "wait"}

\* The event in an entry still to be signalled belongs to a caller that is
\* inside tx_sync for that very entry, so the event exists.
EntryOwned ==
    \A i \in DOMAIN m_tx_list : Unsignalled(i) =>
        LET c == m_tx_list[i].by IN
        /\ InsideSync(c)
        /\ call_id[c] = m_tx_list[i].id
        /\ call_evt[c] = "clear"

\* Caller c's event is still to be signalled, and the queue says so.
InQueue(c) == /\ call_evt[c] = "clear"
              /\ \E i \in DOMAIN m_tx_list : /\ Unsignalled(i)
                                             /\ m_tx_list[i].id = call_id[c]
                                             /\ m_tx_list[i].by = c

\* WaiterAccounted, from the moment the frame is queued.
WaiterInv ==
    \A c \in Callers :
        /\ call_sync[c] /\ call_pc[c] \in {"lock", "push"} => call_evt[c] = "clear"
        /\ call_pc[c] = "wait" => call_sync[c]
        /\ InsideSync(c) => InQueue(c) \/ (call_evt[c] = "signalled" /\ Attempted(c))

\* The inductive invariant.
IInv ==
    /\ TypeOK /\ LifeInv /\ MutexInv /\ FlightInv
    /\ ExactlyOnceInOrder /\ EntryOwned /\ WaiterInv /\ WakeupPending

\* CommTx seen from its callers: the frame in flight has left the queue, the
\* channel's verdicts are not shown, and a synchronous caller is owed its frame
\* from the moment the frame is queued.
AbsQueue == IF InFlight = 1 THEN Tail(m_tx_list) ELSE m_tx_list
AbsWire == [i \in DOMAIN wire |-> [id |-> wire[i].id, by |-> wire[i].by, sync |-> wire[i].sync]]
AbsOwed == [c \in Callers |-> IF InsideSync(c) THEN call_id[c] ELSE 0]

Service == INSTANCE SendService WITH queue <- AbsQueue, wire <- AbsWire, owed <- AbsOwed

\* The threads, the locks and the events implement the abstract sender: requests
\* join in one step, attempts happen in order, release follows the attempt.
ImplementsSendService == Service!Spec
=============================================================================

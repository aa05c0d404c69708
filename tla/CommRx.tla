------------------------------- MODULE CommRx -------------------------------
(***************************************************************************)
(* The receiving half of CommBase (EIBCommNEO/CommBase.cpp): the rx thread,*)
(* the queue m_rx_list, the threads that call rx_sync and rx_sync_ex, the   *)
(* threads that peek at the queue, QuitRxNow, Init and Uninit.             *)
(*                                                                         *)
(* Every access to m_rx_list is inside m_mutex4rx_list and takes no other   *)
(* lock there, so that each such section is one step.  A reader that has a  *)
(* sending time is an application call of EIBEmulatorImpl: it holds         *)
(* m_mutex4lock_peeker from before it sends until it returns.  A reader     *)
(* without one is a listener.                                              *)
(***************************************************************************)
EXTENDS RxQueue, FiniteSets

CONSTANTS Readers,      \* threads that call rx_sync / rx_sync_ex
          Peekers,      \* threads that call FramePeeker / RemoveFrameFromRxQueue
          Nobody,       \* "no thread holds the mutex"
          Requests,     \* Requests[r]: what reader r may ask for
          Contents,     \* what the channel may bring: records [type, from, to, short]
          MaxFrames,    \* bound: the channel brings no more frames than this
          StartTick,    \* GetTickCount when the history begins
          MaxTicks      \* bound of the history clock; 0 switches it off

ASSUME ReaderAssumption == Nobody \notin Readers
ASSUME RequestAssumption ==
    \A r \in Readers : Requests[r] \subseteq
        [sends : BOOLEAN, ex : BOOLEAN, types : SUBSET {c.type : c \in Contents},
         from : {DontCare} \cup {c.from : c \in Contents}, to : {DontCare} \cup {c.to : c \in Contents},
         waiting : 0..MinusOne]
ASSUME ContentAssumption == \A c \in Contents : c.short \in BOOLEAN
ASSUME BoundAssumption == MaxFrames \in Nat /\ MaxTicks \in Nat /\ StartTick \in 0..MinusOne

VARIABLES
    life,              \* how far the owner of the object is
    m_inited,          \* CommBase::m_inited
    m_quit_rx_thread,  \* CommBase::m_quit_rx_thread
    m_quit_listen,     \* CommBase::m_quit_listen
    m_rx_list,         \* CommBase::m_rx_list, front first
    m_next_rx_id,      \* CommBase::m_next_rx_id
    lock_peeker,       \* holder of CommBase::m_mutex4lock_peeker
    rx_pc,             \* where the rx thread is
    data_list,         \* its local list of frames just parsed
    rd_pc,             \* rd_pc[r]: where reader r is
    rd_request,        \* rd_request[r]: its arguments
    sending_time,      \* sending_time[r]: the tick read before sending, or MinusOne
    time_ent,          \* time_ent[r]: the tick at which rx_sync was entered
    recv_frames,       \* recv_frames[r]: the frames handed to r by its call so far
    response,          \* response[r]: what its call is about to return
    peeked,            \* peeked[p]: numbers of the frames in p's array of FramePeek
    now,               \* GetTickCount
    clock,             \* history: the true time
    sent_at            \* history: the true time at which reader r read sending_time

owner_vars == <<life, m_inited, m_quit_rx_thread, m_quit_listen>>
thread_vars == <<rx_pc, data_list, m_next_rx_id>>
call_vars == <<rd_request, sending_time, sent_at>>
reader_vars == <<call_vars, rd_pc, time_ent, recv_frames, response>>
time_vars == <<now, clock>>
vars == <<owner_vars, thread_vars, reader_vars, time_vars, m_rx_list, lock_peeker, peeked>>

LifeStates == {"raw", "threads started", "up", "joining", "closed", "crashed"}
RxStates == {"not started", "test", "recv", "deliver", "clear", "gone"}
ReaderStates == {"idle", "send", "scan", "timeout", "return"}
Responses == {"UNDEFINED", "SHORT", "NORMAL", "RECVING_TIMEOUT", "QUIT_FORCED"}

Frames == [type : {c.type : c \in Contents}, from : {c.from : c \in Contents},
           to : {c.to : c \in Contents}, short : BOOLEAN,
           id : 1..MaxFrames, ts : 0..MinusOne, at : 0..MaxTicks]

\* The object still exists and the process runs.
Alive == life \notin {"closed", "crashed"}

\* A reader between calls has no arguments.
NoRequest == [sends |-> FALSE, ex |-> FALSE, types |-> {}, from |-> DontCare, to |-> DontCare, waiting |-> 0]

TypeOK ==
    /\ life \in LifeStates
    /\ {m_inited, m_quit_rx_thread, m_quit_listen} \subseteq BOOLEAN
    /\ m_rx_list \in Seq(Frames) /\ data_list \in Seq(Frames)
    /\ m_next_rx_id \in 1..(MaxFrames + 1)
    /\ lock_peeker \in Readers \cup {Nobody}
    /\ rx_pc \in RxStates
    /\ rd_pc \in [Readers -> ReaderStates]
    /\ rd_request \in [Readers -> (UNION {Requests[r] : r \in Readers}) \cup {NoRequest}]
    /\ sending_time \in [Readers -> 0..MinusOne]
    /\ time_ent \in [Readers -> 0..MinusOne]
    /\ recv_frames \in [Readers -> Seq(Frames)]
    /\ response \in [Readers -> Responses]
    /\ peeked \in [Peekers -> SUBSET (1..MaxFrames)]
    /\ now \in 0..MinusOne /\ clock \in 0..MaxTicks
    /\ sent_at \in [Readers -> 0..MaxTicks]

Init ==
    /\ life = "raw"
    /\ m_inited = FALSE /\ m_quit_rx_thread = FALSE /\ m_quit_listen = FALSE
    /\ m_rx_list = <<>> /\ data_list = <<>>
    /\ m_next_rx_id = 1
    /\ lock_peeker = Nobody
    /\ rx_pc = "not started"
    /\ rd_pc = [r \in Readers |-> "idle"]
    /\ rd_request = [r \in Readers |-> NoRequest]
    /\ sending_time = [r \in Readers |-> 0]
    /\ time_ent = [r \in Readers |-> 0]
    /\ recv_frames = [r \in Readers |-> <<>>]
    /\ response = [r \in Readers |-> "UNDEFINED"]
    /\ peeked = [p \in Peekers |-> {}]
    /\ now = StartTick /\ clock = 0
    /\ sent_at = [r \in Readers |-> 0]

-----------------------------------------------------------------------------
(* Time, and the owner.                                                    *)

\* A reader with a waiting time to look at, which the tick counter does not lap.
Waiting(r) == rd_pc[r] \in {"scan", "timeout"} /\ rd_request[r].waiting # MinusOne

\* Mutant of Tick: 64 bits, kept in members of 32 (GetTickCount is unsigned long).
Tick_Wide ==
    /\ Alive
    /\ MaxTicks > 0 => clock < MaxTicks
    /\ now' = now + 1
    /\ clock' = clock + 1
    /\ UNCHANGED <<owner_vars, thread_vars, reader_vars, m_rx_list, lock_peeker, peeked>>

\* MaxTicks bounds the history clock, and ends the behaviour with it.  The counter
\* takes 49 days to wrap: no thread is kept from running for so long.
Tick ==
    /\ Alive
    /\ MaxTicks > 0 => clock < MaxTicks
    /\ \A r \in Readers : Waiting(r) => Elapsed(now, time_ent[r]) < TickMod - 1
    /\ now' = (now + 1) % TickMod
    /\ clock' = IF MaxTicks > 0 THEN clock + 1 ELSE 0
    /\ UNCHANGED <<owner_vars, thread_vars, reader_vars, m_rx_list, lock_peeker, peeked>>

InitStart ==
    /\ life = "raw"
    /\ life' = "threads started"
    /\ m_quit_rx_thread' = FALSE /\ m_quit_listen' = FALSE
    /\ m_next_rx_id' = 1
    /\ lock_peeker' = Nobody
    /\ rx_pc' = "test"
    /\ UNCHANGED <<m_inited, data_list, m_rx_list, reader_vars, time_vars, peeked>>

InitFinish ==
    /\ life = "threads started"
    /\ life' = "up"
    /\ m_inited' = TRUE
    /\ UNCHANGED <<m_quit_rx_thread, m_quit_listen, thread_vars, reader_vars, time_vars,
                   m_rx_list, lock_peeker, peeked>>

\* EIBEmulatorImpl::Uninit calls it before it waits for its listener.
QuitRxNow ==
    /\ life = "up" /\ ~m_quit_listen
    /\ m_quit_listen' = TRUE
    /\ m_quit_rx_thread' = TRUE
    /\ UNCHANGED <<life, m_inited, thread_vars, reader_vars, time_vars,
                   m_rx_list, lock_peeker, peeked>>

\* Mutant of UninitStart: the rx thread is not told.
UninitStart_NotTold ==
    /\ life = "up" /\ m_inited
    /\ life' = "joining"
    /\ UNCHANGED <<m_inited, m_quit_listen, m_quit_rx_thread, thread_vars, reader_vars, time_vars,
                   m_rx_list, lock_peeker, peeked>>

\* CommBase::Uninit asks the thread to quit and joins it.
UninitStart ==
    /\ life = "up" /\ m_inited
    /\ life' = "joining"
    /\ m_quit_rx_thread' = TRUE
    /\ UNCHANGED <<m_inited, m_quit_listen, thread_vars, reader_vars, time_vars,
                   m_rx_list, lock_peeker, peeked>>

\* The join returns and the handles are closed.  The object is deleted next, so
\* that no thread still inside a call is followed any further.
UninitFinish ==
    /\ life = "joining" /\ rx_pc = "gone"
    /\ life' = "closed"
    /\ UNCHANGED <<m_inited, m_quit_rx_thread, m_quit_listen, thread_vars, reader_vars, time_vars,
                   m_rx_list, lock_peeker, peeked>>

-----------------------------------------------------------------------------
(* The rx thread.                                                          *)

RxThreadTest ==
    /\ rx_pc = "test"
    /\ rx_pc' = IF m_quit_rx_thread THEN "gone" ELSE IF m_inited THEN "recv" ELSE "test"
    /\ UNCHANGED <<owner_vars, data_list, m_next_rx_id, reader_vars, time_vars,
                   m_rx_list, lock_peeker, peeked>>

\* _recv_bytes fails or brings nothing: the loop goes on without ClearOldFrames.
RxThreadNothing ==
    /\ rx_pc = "recv"
    /\ rx_pc' = "test"
    /\ UNCHANGED <<owner_vars, data_list, m_next_rx_id, reader_vars, time_vars,
                   m_rx_list, lock_peeker, peeked>>

\* Bytes arrive in which no frame is found.
RxThreadJunk ==
    /\ rx_pc = "recv"
    /\ data_list' = <<>>
    /\ rx_pc' = "clear"
    /\ UNCHANGED <<owner_vars, m_next_rx_id, reader_vars, time_vars,
                   m_rx_list, lock_peeker, peeked>>

\* A frame as the rx thread records it.
RxData(content, id) ==
    [type |-> content.type, from |-> content.from, to |-> content.to, short |-> content.short,
     id |-> id, ts |-> now, at |-> clock]

\* One or two long frames are found in what has arrived, or a single byte is a
\* short frame; each is numbered and stamped.
RxThreadParse ==
    /\ rx_pc = "recv"
    /\ \E first, second \in Contents : \E n \in 1..2 :
         /\ n = 2 => ~first.short /\ ~second.short
         /\ n = 1 => second = first
         /\ m_next_rx_id + n - 1 <= MaxFrames
         /\ data_list' = [i \in 1..n |-> RxData(IF i = 1 THEN first ELSE second,
                                                 m_next_rx_id + i - 1)]
         /\ m_next_rx_id' = m_next_rx_id + n
    /\ rx_pc' = "deliver"
    /\ UNCHANGED <<owner_vars, reader_vars, time_vars, m_rx_list, lock_peeker, peeked>>

\* Mutant of RxThreadDeliver: splice at begin().
RxThreadDeliver_Front ==
    /\ rx_pc = "deliver"
    /\ m_rx_list' = data_list \o m_rx_list
    /\ data_list' = <<>>
    /\ rx_pc' = "clear"
    /\ UNCHANGED <<owner_vars, m_next_rx_id, reader_vars, time_vars, lock_peeker, peeked>>

\* After the reporter has seen the frames: splice.
RxThreadDeliver ==
    /\ rx_pc = "deliver"
    /\ m_rx_list' = m_rx_list \o data_list
    /\ data_list' = <<>>
    /\ rx_pc' = "clear"
    /\ UNCHANGED <<owner_vars, m_next_rx_id, reader_vars, time_vars, lock_peeker, peeked>>

\* Mutant of RxThreadClear: the last expired frame stays.
RxThreadClear_KeepsLast ==
    /\ rx_pc = "clear"
    /\ LET kept == Len(ClearOldFrames(m_rx_list, now)) IN
       m_rx_list' = IF kept = Len(m_rx_list) THEN m_rx_list
                    ELSE SubSeq(m_rx_list, Len(m_rx_list) - kept, Len(m_rx_list))
    /\ rx_pc' = "test"
    /\ UNCHANGED <<owner_vars, data_list, m_next_rx_id, reader_vars, time_vars,
                   lock_peeker, peeked>>

RxThreadClear ==
    /\ rx_pc = "clear"
    /\ m_rx_list' = ClearOldFrames(m_rx_list, now)
    /\ rx_pc' = "test"
    /\ UNCHANGED <<owner_vars, data_list, m_next_rx_id, reader_vars, time_vars,
                   lock_peeker, peeked>>

-----------------------------------------------------------------------------
(* The readers.                                                            *)

\* An application call takes the peeker's lock and reads the sending time; a
\* listener enters rx_sync at once, without either.
ReaderBegin(r, request) ==
    /\ Alive
    /\ rd_pc[r] = "idle"
    /\ m_inited
    /\ rd_request' = [rd_request EXCEPT ![r] = request]
    /\ recv_frames' = [recv_frames EXCEPT ![r] = <<>>]
    /\ response' = [response EXCEPT ![r] = "UNDEFINED"]
    /\ sent_at' = [sent_at EXCEPT ![r] = clock]
    /\ IF request.sends
       THEN /\ lock_peeker = Nobody
            /\ lock_peeker' = r
            /\ sending_time' = [sending_time EXCEPT ![r] = now]
            /\ rd_pc' = [rd_pc EXCEPT ![r] = "send"]
            /\ UNCHANGED time_ent
       ELSE /\ sending_time' = [sending_time EXCEPT ![r] = MinusOne]
            /\ time_ent' = [time_ent EXCEPT ![r] = now]
            /\ rd_pc' = [rd_pc EXCEPT ![r] = "scan"]
            /\ UNCHANGED lock_peeker
    /\ UNCHANGED <<owner_vars, thread_vars, time_vars, m_rx_list, peeked>>

\* tx_sync has returned; rx_sync or rx_sync_ex is entered.
ReaderEnter(r) ==
    /\ Alive
    /\ rd_pc[r] = "send"
    /\ time_ent' = [time_ent EXCEPT ![r] = now]
    /\ rd_pc' = [rd_pc EXCEPT ![r] = "scan"]
    /\ UNCHANGED <<owner_vars, thread_vars, call_vars, recv_frames, response, time_vars,
                   m_rx_list, lock_peeker, peeked>>

\* rx_sync returns `answer`.  rx_sync_ex calls it again, whatever it says, until
\* it says RECVING_TIMEOUT.
Answer(r, answer) ==
    IF rd_request[r].ex /\ answer # "RECVING_TIMEOUT"
    THEN /\ time_ent' = [time_ent EXCEPT ![r] = now]
         /\ rd_pc' = [rd_pc EXCEPT ![r] = "scan"]
         /\ UNCHANGED response
    ELSE /\ response' = [response EXCEPT ![r] = answer]
         /\ rd_pc' = [rd_pc EXCEPT ![r] = "return"]
         /\ UNCHANGED time_ent

\* What the search of m_rx_list does with the frame in place i, if i > 0; rx_sync_ex
\* keeps long frames only.
Take(r, i) ==
    IF i = 0
    THEN /\ rd_pc' = [rd_pc EXCEPT ![r] = "timeout"]
         /\ UNCHANGED <<m_rx_list, recv_frames, time_ent, response>>
    ELSE LET frame == m_rx_list[i] IN
         /\ m_rx_list' = RemoveAt(m_rx_list, i)
         /\ recv_frames' = IF rd_request[r].ex /\ frame.short THEN recv_frames
                           ELSE [recv_frames EXCEPT ![r] = Append(@, frame)]
         /\ Answer(r, IF frame.short THEN "SHORT" ELSE "NORMAL")

\* Mutant of ReaderScan: the frame handed over stays in the queue.
ReaderScan_NoErase(r) ==
    /\ Alive
    /\ rd_pc[r] = "scan"
    /\ LET i == FirstAccepted(m_rx_list, rd_request[r], sending_time[r]) IN
       IF m_quit_listen
       THEN Answer(r, "QUIT_FORCED") /\ UNCHANGED recv_frames
       ELSE IF i = 0
       THEN /\ rd_pc' = [rd_pc EXCEPT ![r] = "timeout"]
            /\ UNCHANGED <<recv_frames, time_ent, response>>
       ELSE /\ recv_frames' = [recv_frames EXCEPT ![r] = Append(@, m_rx_list[i])]
            /\ Answer(r, "NORMAL")
    /\ UNCHANGED <<owner_vars, thread_vars, call_vars, time_vars, m_rx_list, lock_peeker,
                   peeked>>

\* Mutant of ReaderScan: m_quit_listen is not looked at.
ReaderScan_NoQuit(r) ==
    /\ Alive
    /\ rd_pc[r] = "scan"
    /\ Take(r, FirstAccepted(m_rx_list, rd_request[r], sending_time[r]))
    /\ UNCHANGED <<owner_vars, thread_vars, call_vars, time_vars, lock_peeker, peeked>>

\* Mutant of ReaderScan: the sending time is not looked at.
ReaderScan_AnyTime(r) ==
    /\ Alive
    /\ rd_pc[r] = "scan"
    /\ IF m_quit_listen
       THEN Answer(r, "QUIT_FORCED") /\ UNCHANGED <<m_rx_list, recv_frames>>
       ELSE Take(r, SelectInSeq(m_rx_list, LAMBDA f : Fits(f, rd_request[r])))
    /\ UNCHANGED <<owner_vars, thread_vars, call_vars, time_vars, lock_peeker, peeked>>

\* One turn of the loop: m_quit_listen is tested before and after Sleep(10), and as
\* it is never reset the second test tells all; then the search.
ReaderScan(r) ==
    /\ Alive
    /\ rd_pc[r] = "scan"
    /\ IF m_quit_listen
       THEN Answer(r, "QUIT_FORCED") /\ UNCHANGED <<m_rx_list, recv_frames>>
       ELSE Take(r, FirstAccepted(m_rx_list, rd_request[r], sending_time[r]))
    /\ UNCHANGED <<owner_vars, thread_vars, call_vars, time_vars, lock_peeker, peeked>>

\* Mutant of ReaderTimeout: the time of entry is read anew in every turn.
ReaderTimeout_Restarts(r) ==
    /\ Alive
    /\ rd_pc[r] = "timeout"
    /\ LET waiting == rd_request[r].waiting IN
       IF waiting # MinusOne /\ Elapsed(now, time_ent[r]) >= waiting
       THEN Answer(r, "RECVING_TIMEOUT")
       ELSE /\ rd_pc' = [rd_pc EXCEPT ![r] = "scan"]
            /\ time_ent' = [time_ent EXCEPT ![r] = now]
            /\ UNCHANGED response
    /\ UNCHANGED <<owner_vars, thread_vars, call_vars, recv_frames, time_vars,
                   m_rx_list, lock_peeker, peeked>>

\* The search found nothing: the waiting time is looked at.
ReaderTimeout(r) ==
    /\ Alive
    /\ rd_pc[r] = "timeout"
    /\ LET waiting == rd_request[r].waiting IN
       IF waiting # MinusOne /\ Elapsed(now, time_ent[r]) >= waiting
       THEN Answer(r, "RECVING_TIMEOUT")
       ELSE /\ rd_pc' = [rd_pc EXCEPT ![r] = "scan"]
            /\ UNCHANGED <<time_ent, response>>
    /\ UNCHANGED <<owner_vars, thread_vars, call_vars, recv_frames, time_vars,
                   m_rx_list, lock_peeker, peeked>>

\* The caller deletes what it was given and, if it sent, releases the peeker's lock.
ReaderReturn(r) ==
    /\ Alive
    /\ rd_pc[r] = "return"
    /\ rd_pc' = [rd_pc EXCEPT ![r] = "idle"]
    /\ rd_request' = [rd_request EXCEPT ![r] = NoRequest]
    /\ recv_frames' = [recv_frames EXCEPT ![r] = <<>>]
    /\ sending_time' = [sending_time EXCEPT ![r] = 0]
    /\ time_ent' = [time_ent EXCEPT ![r] = 0]
    /\ sent_at' = [sent_at EXCEPT ![r] = 0]
    /\ response' = [response EXCEPT ![r] = "UNDEFINED"]
    /\ lock_peeker' = IF rd_request[r].sends THEN Nobody ELSE lock_peeker
    /\ UNCHANGED <<owner_vars, thread_vars, time_vars, m_rx_list, peeked>>

-----------------------------------------------------------------------------
(* The peekers.                                                            *)

\* Mutant of FramePeeker: it goes on without the lock.
FramePeeker_NoLock(p, filter) ==
    /\ Alive
    /\ m_inited
    /\ peeked' = [peeked EXCEPT ![p] =
                    {f.id : f \in {g \in ToSet(m_rx_list) : filter \in {DontCare, g.type}}}]
    /\ UNCHANGED <<owner_vars, thread_vars, reader_vars, time_vars, m_rx_list, lock_peeker>>

\* FramePeeker.  While an application call holds the lock it answers BUSY and does
\* nothing.
FramePeeker(p, filter) ==
    /\ Alive
    /\ m_inited
    /\ lock_peeker = Nobody
    /\ peeked' = [peeked EXCEPT ![p] =
                    {f.id : f \in {g \in ToSet(m_rx_list) : filter \in {DontCare, g.type}}}]
    /\ UNCHANGED <<owner_vars, thread_vars, reader_vars, time_vars, m_rx_list, lock_peeker>>

\* RemoveFrameFromRxQueue, by number, without the peeker's lock.  After erase the
\* loop advances the invalidated iterator: it goes on, or the process dies.
RemoveFrameFromRxQueue(p, id, dies) ==
    /\ Alive
    /\ id \in peeked[p]
    /\ m_rx_list' = RemoveFrame(m_rx_list, id)
    /\ peeked' = [peeked EXCEPT ![p] = @ \ {id}]
    /\ dies => \E f \in ToSet(m_rx_list) : f.id = id
    /\ life' = IF dies THEN "crashed" ELSE life
    /\ rx_pc' = IF dies THEN "gone" ELSE rx_pc
    /\ UNCHANGED <<m_inited, m_quit_rx_thread, m_quit_listen, data_list, m_next_rx_id,
                   reader_vars, time_vars, lock_peeker>>

-----------------------------------------------------------------------------

Owner == InitStart \/ InitFinish \/ QuitRxNow \/ UninitStart \/ UninitFinish

RxThread ==
    \/ RxThreadTest \/ RxThreadNothing \/ RxThreadJunk \/ RxThreadParse
    \/ RxThreadDeliver \/ RxThreadClear

Reader(r) ==
    \/ \E request \in Requests[r] : ReaderBegin(r, request)
    \/ ReaderEnter(r) \/ ReaderScan(r) \/ ReaderTimeout(r) \/ ReaderReturn(r)

Peeker(p) ==
    \/ \E filter \in {DontCare} \cup {c.type : c \in Contents} : FramePeeker(p, filter)
    \/ \E id \in peeked[p], dies \in BOOLEAN : RemoveFrameFromRxQueue(p, id, dies)

Next ==
    \/ Tick \/ Owner \/ RxThread
    \/ \E r \in Readers : Reader(r)
    \/ \E p \in Peekers : Peeker(p)

Spec == Init /\ [][Next]_vars

(***************************************************************************)
(* Time passes and threads that can run do run.  Nothing obliges the       *)
(* channel to bring anything, an application to call, or the owner to stop.*)
(***************************************************************************)
Fairness ==
    /\ WF_vars(Tick)
    /\ WF_vars(InitFinish) /\ WF_vars(UninitFinish)
    /\ WF_vars(RxThread)
    /\ \A r \in Readers :
         WF_vars(ReaderEnter(r) \/ ReaderScan(r) \/ ReaderTimeout(r) \/ ReaderReturn(r))

FairSpec == Spec /\ Fairness

-----------------------------------------------------------------------------
(* What should hold.                                                       *)

\* Everything received and not yet taken, in the order in which it was numbered.
Pending == m_rx_list \o data_list

\* Parsing, splice, the erasures of readers and peekers and ClearOldFrames keep
\* the queue in the order of arrival, which ClearOldFrames relies on when it stops
\* at the first young frame.
QueueInOrder ==
    \A i, j \in DOMAIN Pending : i < j =>
        Pending[i].id < Pending[j].id /\ Pending[i].at <= Pending[j].at

\* A frame handed to a reader is the reader's to delete: nobody else holds it and
\* it has left the queue.
HandedOverOnce ==
    \A r \in Readers : \A f \in ToSet(recv_frames[r]) :
        /\ \A g \in ToSet(Pending) : g.id # f.id
        /\ \A q \in Readers \ {r} : \A g \in ToSet(recv_frames[q]) : g.id # f.id

\* What CommBase.h:89 says of the sending time: the reply arrived after it, and by
\* at least the configured delay, in true time.  Only until the tick counter wraps,
\* for rx_sync compares ticks with < and takes the last one for "no sending time"
\* (CommBase.cpp:194).
BeforeWrap == clock <= now /\ now < MinusOne
ReplyAfterRequest ==
    \A r \in Readers : BeforeWrap /\ rd_request[r].sends =>
        \A f \in ToSet(recv_frames[r]) : f.at >= sent_at[r] + ResponseTime

\* ClearOldFrames judges by age: what it deletes, the first n frames, is as old as
\* LifeTime, what it leaves is younger, though it compares ticks that wrap and looks
\* no further than the first young frame.
TrueAge(f) == clock - f.at
ClearedByAge ==
    [][rx_pc = "clear" /\ rx_pc' = "test" =>
         \E n \in 0..Len(m_rx_list) :
            /\ m_rx_list' = SubSeq(m_rx_list, n + 1, Len(m_rx_list))
            /\ \A i \in DOMAIN m_rx_list : i > n <=> TrueAge(m_rx_list[i]) < LifeTime]_vars

\* The reply an application call waits for.
Answers(f, r) ==
    /\ rd_request[r].sends /\ rd_pc[r] \in {"send", "scan", "timeout"}
    /\ Fits(f, rd_request[r])
    /\ f.at >= sent_at[r] + ResponseTime

\* The peeker never removes the reply of an application call in progress, though
\* RemoveFrameFromRxQueue takes no peeker's lock: what it can name was queued
\* before the call began.
PeekerNeverSteals ==
    [][\A r \in Readers : \A f \in ToSet(m_rx_list) :
         peeked' # peeked /\ Answers(f, r) => f \in ToSet(m_rx_list')]_vars

-----------------------------------------------------------------------------
(* The inductive invariant that the proofs are about.                      *)

\* Nothing is received, read or peeked at before Init has set m_inited, which nothing resets.
LifeInv ==
    /\ m_inited <=> life \notin {"raw", "threads started"}
    /\ ~m_inited => /\ ~m_quit_rx_thread /\ m_rx_list = <<>> /\ rx_pc \in {"not started", "test"}
                    /\ lock_peeker = Nobody
                    /\ \A r \in Readers : rd_pc[r] = "idle"
                    /\ \A p \in Peekers : peeked[p] = {}
    /\ rx_pc \notin {"deliver", "gone"} => data_list = <<>>

\* The peeker's lock is with the application call in progress.
ReaderInv ==
    \A r \in Readers :
        /\ rd_pc[r] = "idle" => rd_request[r] = NoRequest /\ recv_frames[r] = <<>>
        /\ rd_request[r].sends <=> lock_peeker = r

\* What is numbered has a number given before, what is stamped has a time that is past.
NumberInv ==
    /\ \A f \in ToSet(Pending) : f.id < m_next_rx_id /\ f.at <= clock
    /\ \A r \in Readers : sent_at[r] <= clock /\ \A f \in ToSet(recv_frames[r]) : f.id < m_next_rx_id
    /\ \A p \in Peekers : \A id \in peeked[p] : id < m_next_rx_id

\* What a peeker can name was queued before the application call in progress began.
PeekInv ==
    \A p \in Peekers, r \in Readers : \A f \in ToSet(Pending) :
        f.id \in peeked[p] /\ rd_request[r].sends => f.at <= sent_at[r]

\* Until the tick counter wraps, ticks are the true time; from then on the counter is behind it.
TimeInv ==
    \/ now < clock
    \/ /\ now = StartTick + clock
       /\ \A f \in ToSet(Pending) : f.ts = StartTick + f.at
       /\ \A r \in Readers : rd_request[r].sends => sending_time[r] = StartTick + sent_at[r]

\* In a history shorter than a round of the tick counter, which may wrap in it, a tick is the
\* true time of its moment or one round behind it.
Told(tick, time) == tick \in {StartTick + time, StartTick + time - TickMod}
StampInv == MaxTicks < TickMod => /\ Told(now, clock)
                                  /\ \A f \in ToSet(Pending) : Told(f.ts, f.at)

IInv ==
    /\ TypeOK /\ LifeInv /\ ReaderInv /\ NumberInv /\ PeekInv /\ QueueInOrder /\ HandedOverOnce
    /\ MaxTicks > 0 => TimeInv /\ StampInv /\ ReplyAfterRequest

-----------------------------------------------------------------------------
(* What must happen.                                                       *)

InCall(r) == rd_pc[r] # "idle"

\* A call of rx_sync with a waiting time returns: a frame, a timeout or a quit.
ReaderReturns ==
    \A r \in Readers :
        Waiting(r) /\ ~rd_request[r].ex ~> ~InCall(r) \/ ~Alive

\* QuitRxNow releases every rx_sync, the ones that wait for ever too.
QuitReleasesReaders ==
    \A r \in Readers :
        InCall(r) /\ m_quit_listen /\ ~rd_request[r].ex ~> ~InCall(r) \/ ~Alive

\* What CommBase.h:104 says of QuitRxNow, of rx_sync_ex: listening is left quickly.
QuitReleasesEx ==
    \A r \in Readers : InCall(r) /\ m_quit_listen ~> ~InCall(r) \/ ~Alive

\* Uninit gets past the join of the rx thread.
RxThreadJoined == life = "joining" ~> ~Alive
=============================================================================

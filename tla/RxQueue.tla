------------------------------ MODULE RxQueue ------------------------------
(***************************************************************************)
(* The receive queue of CommBase as a data structure: which frame rx_sync  *)
(* takes for a request, and which frames ClearOldFrames throws away.       *)
(*                                                                         *)
(* A frame is a record [id, type, from, to, short, ts, at]: its number, the *)
(* type of its APDU, its addresses (a short frame carries none), the tick  *)
(* it was stamped with, and, as history, the true time of that moment.     *)
(* A tick is what GetTickCount returns, an unsigned integer that wraps.    *)
(***************************************************************************)
EXTENDS Integers, Sequences, SequencesExt

CONSTANTS TickMod,       \* ticks are 0..TickMod-1
          ResponseTime,  \* g_myconfig.GetRxResponseTime(), in ticks
          LifeTime,      \* g_myconfig.GetFrameLifeTime(), in ticks
          DontCare            \* a NULL address or an empty list of types: not checked

ASSUME TickAssumption ==
    /\ TickMod \in Nat /\ TickMod > 1
    /\ ResponseTime \in 0..(TickMod - 1)
    /\ LifeTime \in 0..(TickMod - 1)

\* later - earlier in unsigned arithmetic.
Elapsed(later, earlier) == (later - earlier) % TickMod

\* (uint)-1, which stands for "no sending time" and "wait for ever".
MinusOne == TickMod - 1

\* The first test of rx_sync.  && binds tighter than ||, so that the second
\* comparison is made without a sending time too.
TooEarly(frame, sending_time) ==
    \/ sending_time # MinusOne /\ frame.ts < sending_time
    \/ Elapsed(frame.ts, sending_time) < ResponseTime

\* The addresses and the type asked for.
Fits(frame, request) ==
    /\ frame.short \/ request.from \in {DontCare, frame.from}
    /\ frame.short \/ request.to \in {DontCare, frame.to}
    /\ request.types = {} \/ frame.type \in request.types

\* The place of the first frame rx_sync accepts, 0 if there is none.
FirstAccepted(queue, request, sending_time) ==
    SelectInSeq(queue, LAMBDA f : ~TooEarly(f, sending_time) /\ Fits(f, request))

Expired(frame, now) == Elapsed(now, frame.ts) >= LifeTime

\* ClearOldFrames: the leading run of expired frames goes.
ClearOldFrames(queue, now) ==
    LET young == SelectInSeq(queue, LAMBDA f : ~Expired(f, now)) IN
    IF young = 0 THEN <<>> ELSE SubSeq(queue, young, Len(queue))

\* RemoveFrameFromRxQueue_nolock: the frame with this number goes.  The loop looks at all of the
\* queue, in which a number is found once (QueueInOrder of CommRx).
RemoveFrame(queue, id) ==
    LET i == SelectInSeq(queue, LAMBDA f : f.id = id) IN
    IF i = 0 THEN queue ELSE RemoveAt(queue, i)
=============================================================================

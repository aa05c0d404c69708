--------------------------- MODULE CommTx_proofs ----------------------------
(***************************************************************************)
(* CommTx, for any set of callers and any bound: IInv is inductive, so     *)
(* that frames leave exactly once and in order, no blocked caller is       *)
(* forgotten, no event is signalled after its caller has closed it and no  *)
(* wakeup is lost; and CommTx implements SendService.                      *)
(*                                                                         *)
(* One lemma per conjunct of IInv, one case per action that disturbs it.   *)
(***************************************************************************)
EXTENDS CommTx, SequenceTheorems, TLAPS

-----------------------------------------------------------------------------
(* The queue and the wire as sequences.                                    *)

\* An entry of the queue names a caller.
LEMMA EntryType ==
    ASSUME TypeOK, NEW i \in DOMAIN m_tx_list
    PROVE  m_tx_list[i] \in TxData /\ m_tx_list[i].by \in Callers
<1>1. m_tx_list[i] \in TxData
  BY DEF TypeOK
<1>. QED BY <1>1 DEF TxData

\* What a push does to m_tx_list (TxData tx_data; push_back).
LEMMA PushEffect ==
    ASSUME TypeOK, NEW c \in Callers, TxPush(c)
    PROVE  /\ m_tx_list' \in Seq(TxData)
           /\ Len(m_tx_list') = Len(m_tx_list) + 1
           /\ \A i \in 1..Len(m_tx_list) : m_tx_list'[i] = m_tx_list[i]
           /\ m_tx_list'[Len(m_tx_list) + 1]
                = [id |-> m_next_tx_id, by |-> c, sync |-> call_sync[c]]
<1>. DEFINE e == [id |-> m_next_tx_id, by |-> c, sync |-> call_sync[c]]
<1>1. e \in TxData
  BY DEF TypeOK, TxData
<1>2. m_tx_list' = Append(m_tx_list, e) /\ m_tx_list \in Seq(TxData)
  BY DEF TxPush, TypeOK
<1>. HIDE DEF e
<1>3. /\ Append(m_tx_list, e) \in Seq(TxData)
      /\ Len(Append(m_tx_list, e)) = Len(m_tx_list) + 1
      /\ \A i \in 1..Len(m_tx_list) : Append(m_tx_list, e)[i] = m_tx_list[i]
      /\ Append(m_tx_list, e)[Len(m_tx_list) + 1] = e
  BY <1>1, <1>2, AppendProperties
<1>. QED BY <1>2, <1>3 DEF e

\* What a pop does to m_tx_list.
LEMMA PopEffect ==
    ASSUME TypeOK, TxThreadPop, m_tx_list # <<>>
    PROVE  /\ m_tx_list' \in Seq(TxData)
           /\ Len(m_tx_list') = Len(m_tx_list) - 1
           /\ \A i \in 1..Len(m_tx_list') : m_tx_list'[i] = m_tx_list[i + 1]
<1>1. m_tx_list' = Tail(m_tx_list) /\ m_tx_list \in Seq(TxData)
  BY DEF TxThreadPop, TypeOK
<1>. QED BY <1>1, HeadTailProperties

\* What an attempt does to the wire, and which entry is the front.
LEMMA SendEffect ==
    ASSUME TypeOK, NEW okay \in BOOLEAN, TxThreadSend(okay)
    PROVE  /\ Head(m_tx_list) = m_tx_list[1] /\ m_tx_list[1] \in TxData
           /\ 1 \in DOMAIN m_tx_list
           /\ wire' \in Seq(Sent)
           /\ Len(wire') = Len(wire) + 1
           /\ \A i \in 1..Len(wire) : wire'[i] = wire[i]
           /\ wire'[Len(wire) + 1].id = m_tx_list[1].id
           /\ wire'[Len(wire) + 1].by = m_tx_list[1].by
           /\ wire'[Len(wire) + 1].sync = m_tx_list[1].sync
<1>. DEFINE f == m_tx_list[1]
            e == [id |-> f.id, by |-> f.by, sync |-> f.sync, okay |-> okay]
<1>1. m_tx_list \in Seq(TxData) /\ m_tx_list # <<>> /\ wire \in Seq(Sent)
  BY DEF TxThreadSend, TypeOK
<1>2. Head(m_tx_list) = f /\ f \in TxData /\ 1 \in DOMAIN m_tx_list
  BY <1>1
<1>3. wire' = Append(wire, e)
  BY <1>2 DEF TxThreadSend
<1>4. e \in Sent
  BY <1>2 DEF TxData, Sent
<1>5. e.id = f.id /\ e.by = f.by /\ e.sync = f.sync
  OBVIOUS
<1>. HIDE DEF e
<1>6. /\ Append(wire, e) \in Seq(Sent)
      /\ Len(Append(wire, e)) = Len(wire) + 1
      /\ \A i \in 1..Len(wire) : Append(wire, e)[i] = wire[i]
      /\ Append(wire, e)[Len(wire) + 1] = e
  BY <1>1, <1>4, AppendProperties
<1>. QED BY <1>2, <1>3, <1>5, <1>6

-----------------------------------------------------------------------------
(* Types, life and locks.                                                  *)

\* Every step keeps the variables in their types.
LEMMA TypeStep == IInv /\ [Next]_vars => TypeOK'
<1>. SUFFICES ASSUME IInv, [Next]_vars PROVE TypeOK'
  OBVIOUS
<1>. USE DEF TypeOK, LifeStates, TxStates, CallStates, EventStates, Returns,
             owner_vars, caller_vars
<1>0. TypeOK /\ FlightInv
  BY DEF IInv
<1>1. CASE Owner
  <2>1. CASE InitStart
    <3>1. m_next_tx_id' = 1
      BY <2>1 DEF InitStart
    <3>2. m_tx_list' = m_tx_list /\ wire' = wire
      BY <2>1 DEF InitStart
    <3>3. m_next_tx_id' \in Nat /\ m_next_tx_id' > 0
      BY <3>1
    <3>4. UNCHANGED <<m_inited, call_pc, call_sync, call_ret, call_id, call_evt>>
      BY <2>1 DEF InitStart
    <3>5. /\ life' \in LifeStates /\ tx_pc' \in TxStates /\ m_quit_tx_thread' = FALSE
          /\ event4tx' = FALSE /\ mutex4tx' = Nobody
      BY <2>1 DEF InitStart
    <3>. QED BY <1>0, <3>2, <3>3, <3>4, <3>5
  <2>2. CASE InitFinish \/ UninitStart
    BY <1>0, <2>2 DEF InitFinish, UninitStart
  <2>3. CASE UninitFinish
    BY <1>0, <2>3 DEF UninitFinish
  <2>. QED BY <1>1, <2>1, <2>2, <2>3 DEF Owner
<1>2. CASE TxThreadTest \/ TxThreadWait \/ TxThreadLock \/ TxThreadIdle
  BY <1>0, <1>2 DEF TxThreadTest, TxThreadWait, TxThreadLock, TxThreadIdle
<1>3. ASSUME NEW okay \in BOOLEAN, TxThreadSend(okay) PROVE TypeOK'
  <2>1. wire' \in Seq(Sent)
    BY <1>0, <1>3, SendEffect
  <2>. QED BY <1>0, <1>3, <2>1 DEF TxThreadSend
<1>4. CASE TxThreadSignal
  BY <1>0, <1>4 DEF TxThreadSignal
<1>5. CASE TxThreadPop
  <2>1. m_tx_list' \in Seq(TxData)
    BY <1>0, <1>5, PopEffect DEF FlightInv, InFlight, TxThreadPop
  <2>. QED BY <1>0, <1>5, <2>1 DEF TxThreadPop
<1>6. ASSUME NEW c \in Callers, TxPush(c) PROVE TypeOK'
  <2>1. m_tx_list' \in Seq(TxData)
    BY <1>0, <1>6, PushEffect
  <2>2. m_next_tx_id' \in Nat /\ m_next_tx_id' > 0
    <3>1. m_next_tx_id \in Nat /\ m_next_tx_id' = m_next_tx_id + 1
      BY <1>0, <1>6 DEF TxPush
    <3>. QED BY <3>1
  <2>3. call_id' \in [Callers -> Nat]
    BY <1>0, <1>6 DEF TxPush
  <2>4. call_pc' \in [Callers -> CallStates] /\ mutex4tx' = Nobody
    BY <1>0, <1>6 DEF TxPush
  <2>. QED BY <1>0, <1>6, <2>1, <2>2, <2>3, <2>4 DEF TxPush
<1>7. ASSUME NEW c \in Callers, TxNotify(c) PROVE TypeOK'
  <2>1. CASE call_sync[c]
    BY <1>0, <1>7, <2>1 DEF TxNotify
  <2>2. CASE ~call_sync[c]
    BY <1>0, <1>7, <2>2 DEF TxNotify
  <2>. QED BY <2>1, <2>2
<1>8. ASSUME NEW c \in Callers, NEW sync \in BOOLEAN, TxEnter(c, sync) PROVE TypeOK'
  BY <1>0, <1>8 DEF TxEnter
<1>9. ASSUME NEW c \in Callers, TxRefuse(c) \/ TxLock(c) \/ TxReturn(c) PROVE TypeOK'
  BY <1>0, <1>9 DEF TxRefuse, TxLock, TxReturn
<1>10. CASE UNCHANGED vars
  BY <1>0, <1>10 DEF vars
<1>. QED
  BY <1>1, <1>2, <1>3, <1>4, <1>5, <1>6, <1>7, <1>8, <1>9, <1>10
  DEF Next, TxThreadStep, Caller

\* Every step keeps the flags in agreement with the life of the object.
LEMMA LifeStep == IInv /\ [Next]_vars => LifeInv'
<1>. SUFFICES ASSUME IInv, [Next]_vars PROVE LifeInv'
  OBVIOUS
<1>. USE DEF LifeInv, owner_vars, caller_vars
<1>0. LifeInv /\ TypeOK
  BY DEF IInv
<1>1. CASE Owner
  <2>1. CASE InitStart
    BY <1>0, <2>1 DEF InitStart
  <2>2. CASE InitFinish
    BY <1>0, <2>2 DEF InitFinish
  <2>3. CASE UninitStart
    BY <1>0, <2>3 DEF UninitStart
  <2>4. CASE UninitFinish
    BY <1>0, <2>4 DEF UninitFinish
  <2>. QED BY <1>1, <2>1, <2>2, <2>3, <2>4 DEF Owner
<1>2. CASE TxThreadStep
  <2>1. CASE TxThreadTest
    BY <1>0, <2>1 DEF TypeOK, TxThreadTest
  <2>2. CASE ~TxThreadTest
    <3>1. /\ tx_pc \in {"wait", "lock", "inspect", "signal", "pop"}
          /\ tx_pc' \in {"lock", "inspect", "signal", "pop", "test"}
          /\ UNCHANGED <<life, m_inited, m_quit_tx_thread>>
      BY <1>2, <2>2 DEF TxThreadStep, TxThreadWait, TxThreadLock, TxThreadIdle,
                        TxThreadSend, TxThreadSignal, TxThreadPop
    <3>. QED BY <1>0, <3>1
  <2>. QED BY <2>1, <2>2
<1>3. ASSUME NEW c \in Callers, Caller(c) PROVE LifeInv'
  <2>1. CASE TxRefuse(c)
    BY <1>0, <2>1 DEF TxRefuse
  <2>2. CASE ~TxRefuse(c)
    <3>1. m_inited /\ m_inited' = m_inited /\ UNCHANGED <<life, m_quit_tx_thread, tx_pc>>
      BY <1>0, <1>3, <2>2 DEF Caller, TxEnter, TxLock, TxPush, TxNotify, TxReturn
    <3>. QED BY <1>0, <3>1
  <2>. QED BY <2>1, <2>2
<1>4. CASE UNCHANGED vars
  BY <1>0, <1>4 DEF vars
<1>. QED BY <1>1, <1>2, <1>3, <1>4 DEF Next

\* Every step keeps the holder of m_mutex4tx_list in agreement with the
\* program counters: the queue is only touched by the thread that holds it.
LEMMA MutexStep == IInv /\ [Next]_vars => MutexInv'
<1>. SUFFICES ASSUME IInv, [Next]_vars PROVE MutexInv'
  OBVIOUS
<1>. USE ThreadsAssumption DEF MutexInv, owner_vars, caller_vars
<1>0. MutexInv /\ TypeOK /\ LifeInv
  BY DEF IInv
<1>1. CASE Owner
  BY <1>0, <1>1 DEF LifeInv, Owner, InitStart, InitFinish, UninitStart, UninitFinish
<1>2. CASE TxThreadTest \/ TxThreadWait \/ TxThreadSignal \/ \E okay \in BOOLEAN : TxThreadSend(okay)
  BY <1>0, <1>2 DEF TxThreadTest, TxThreadWait, TxThreadSignal, TxThreadSend
<1>3. CASE TxThreadLock
  BY <1>0, <1>3 DEF TxThreadLock
<1>4. CASE TxThreadIdle \/ TxThreadPop
  <2>1. mutex4tx = TxThread /\ mutex4tx' = Nobody /\ tx_pc' = "test" /\ call_pc' = call_pc
    BY <1>0, <1>4 DEF TxThreadIdle, TxThreadPop
  <2>. QED BY <1>0, <2>1
<1>5. ASSUME NEW c \in Callers, TxRefuse(c) \/ TxReturn(c) \/ TxNotify(c)
               \/ \E sync \in BOOLEAN : TxEnter(c, sync)
      PROVE  MutexInv'
  <2>1. UNCHANGED <<mutex4tx, tx_pc>> /\ call_pc[c] # "push" /\ call_pc' \in [Callers -> CallStates]
        /\ call_pc'[c] # "push" /\ \A d \in Callers \ {c} : call_pc'[d] = call_pc[d]
    BY <1>0, <1>5 DEF TypeOK, CallStates, TxRefuse, TxReturn, TxNotify, TxEnter
  <2>. QED BY <1>0, <2>1
<1>6. ASSUME NEW c \in Callers, TxLock(c) PROVE MutexInv'
  <2>1. /\ mutex4tx = Nobody /\ mutex4tx' = c /\ tx_pc' = tx_pc
        /\ call_pc'[c] = "push" /\ \A d \in Callers \ {c} : call_pc'[d] = call_pc[d]
    BY <1>0, <1>6 DEF TypeOK, TxLock
  <2>. QED BY <1>0, <2>1
<1>7. ASSUME NEW c \in Callers, TxPush(c) PROVE MutexInv'
  <2>1. /\ mutex4tx = c /\ mutex4tx' = Nobody /\ tx_pc' = tx_pc
        /\ call_pc'[c] = "notify" /\ \A d \in Callers \ {c} : call_pc'[d] = call_pc[d]
    BY <1>0, <1>7 DEF TypeOK, TxPush
  <2>. QED BY <1>0, <2>1
<1>8. CASE UNCHANGED vars
  BY <1>0, <1>8 DEF vars
<1>. QED BY <1>1, <1>2, <1>3, <1>4, <1>5, <1>6, <1>7, <1>8 DEF Next, TxThreadStep, Caller

-----------------------------------------------------------------------------
(* The order of the frames.                                                *)

\* Every step keeps the numbering of the wire and of the queue gapless, and the
\* frame in flight at the front of the queue.
LEMMA OrderStep == IInv /\ [Next]_vars => ExactlyOnceInOrder' /\ FlightInv'
<1>. SUFFICES ASSUME IInv, [Next]_vars PROVE ExactlyOnceInOrder' /\ FlightInv'
  OBVIOUS
<1>. USE DEF owner_vars, caller_vars
<1>0. ExactlyOnceInOrder /\ FlightInv /\ TypeOK /\ LifeInv
  BY DEF IInv
<1>1. ASSUME UNCHANGED <<m_tx_list, m_next_tx_id, wire>>, InFlight' = InFlight
      PROVE  ExactlyOnceInOrder' /\ FlightInv'
  BY <1>0, <1>1 DEF ExactlyOnceInOrder, FlightInv
<1>2. CASE Owner
  <2>1. UNCHANGED <<m_tx_list, m_next_tx_id, wire>>
    BY <1>0, <1>2 DEF LifeInv, Owner, InitStart, InitFinish, UninitStart, UninitFinish
  <2>2. InFlight' = InFlight
    BY <1>0, <1>2 DEF LifeInv, InFlight, Owner, InitStart, InitFinish, UninitStart, UninitFinish
  <2>. QED BY <1>1, <2>1, <2>2
<1>3. CASE TxThreadTest \/ TxThreadWait \/ TxThreadLock \/ TxThreadIdle \/ TxThreadSignal
  <2>1. UNCHANGED <<m_tx_list, m_next_tx_id, wire>>
    BY <1>3 DEF TxThreadTest, TxThreadWait, TxThreadLock, TxThreadIdle, TxThreadSignal
  <2>2. InFlight' = InFlight
    BY <1>3 DEF InFlight, TxThreadTest, TxThreadWait, TxThreadLock, TxThreadIdle, TxThreadSignal
  <2>. QED BY <1>1, <2>1, <2>2
<1>4. ASSUME NEW okay \in BOOLEAN, TxThreadSend(okay) PROVE ExactlyOnceInOrder' /\ FlightInv'
  <2>1. InFlight = 0 /\ InFlight' = 1
    BY <1>4 DEF InFlight, TxThreadSend
  <2>2. UNCHANGED <<m_tx_list, m_next_tx_id>> /\ m_tx_list # <<>>
    BY <1>4 DEF TxThreadSend
  <2>3. /\ Head(m_tx_list) = m_tx_list[1] /\ 1 \in DOMAIN m_tx_list
        /\ wire' \in Seq(Sent) /\ Len(wire') = Len(wire) + 1
        /\ \A i \in 1..Len(wire) : wire'[i] = wire[i]
        /\ wire'[Len(wire) + 1].id = m_tx_list[1].id
        /\ wire'[Len(wire) + 1].by = m_tx_list[1].by
    BY <1>0, <1>4, SendEffect
  <2>4. m_tx_list[1].id = Len(wire) + 1
    BY <1>0, <2>1, <2>3 DEF ExactlyOnceInOrder, TypeOK
  <2>5. ASSUME NEW i \in DOMAIN wire' PROVE wire'[i].id = i
    <3>1. i \in 1..Len(wire) \/ i = Len(wire) + 1
      BY <1>0, <2>3 DEF TypeOK
    <3>2. CASE i \in 1..Len(wire)
      BY <1>0, <2>3, <3>2 DEF ExactlyOnceInOrder, TypeOK
    <3>3. CASE i = Len(wire) + 1
      BY <2>3, <2>4, <3>3
    <3>. QED BY <3>1, <3>2, <3>3
  <2>6. Len(wire') + Len(m_tx_list') = m_next_tx_id' - 1 + InFlight'
    BY <1>0, <2>1, <2>2, <2>3 DEF ExactlyOnceInOrder, TypeOK
  <2>7. \A i \in DOMAIN m_tx_list' : m_tx_list'[i].id = Len(wire') - InFlight' + i
    BY <1>0, <2>1, <2>2, <2>3 DEF ExactlyOnceInOrder, TypeOK
  <2>8. FlightInv'
    BY <1>0, <2>2, <2>3 DEF FlightInv, TypeOK
  <2>. QED BY <2>5, <2>6, <2>7, <2>8 DEF ExactlyOnceInOrder
<1>5. CASE TxThreadPop
  <2>1. InFlight = 1 /\ InFlight' = 0
    BY <1>5 DEF InFlight, TxThreadPop
  <2>2. UNCHANGED <<wire, m_next_tx_id>>
    BY <1>5 DEF TxThreadPop
  <2>3. /\ Len(m_tx_list') = Len(m_tx_list) - 1
        /\ m_tx_list' \in Seq(TxData)
        /\ \A i \in 1..Len(m_tx_list') : m_tx_list'[i] = m_tx_list[i + 1]
    BY <1>0, <1>5, <2>1, PopEffect DEF FlightInv
  <2>4. Len(wire') + Len(m_tx_list') = m_next_tx_id' - 1 + InFlight'
    BY <1>0, <2>1, <2>2, <2>3 DEF ExactlyOnceInOrder, TypeOK
  <2>5. ASSUME NEW i \in DOMAIN m_tx_list'
        PROVE  m_tx_list'[i].id = Len(wire') - InFlight' + i
    <3>1. i \in 1..Len(m_tx_list') /\ i + 1 \in DOMAIN m_tx_list
      BY <1>0, <2>3 DEF TypeOK
    <3>2. m_tx_list[i + 1].id = Len(wire) - 1 + (i + 1)
      BY <1>0, <2>1, <3>1 DEF ExactlyOnceInOrder
    <3>3. i \in Nat /\ Len(wire) \in Nat /\ wire' = wire
      BY <1>0, <2>2, <2>3 DEF TypeOK
    <3>4. m_tx_list'[i] = m_tx_list[i + 1]
      BY <2>3
    <3>. QED BY <2>1, <3>2, <3>3, <3>4
  <2>. QED BY <1>0, <2>1, <2>2, <2>4, <2>5 DEF ExactlyOnceInOrder, FlightInv
<1>6. ASSUME NEW c \in Callers, TxPush(c) PROVE ExactlyOnceInOrder' /\ FlightInv'
  <2>1. InFlight' = InFlight /\ InFlight \in {0, 1}
    BY <1>6 DEF InFlight, TxPush
  <2>2. wire' = wire /\ m_next_tx_id' = m_next_tx_id + 1
    BY <1>6 DEF TxPush
  <2>3. /\ m_tx_list' \in Seq(TxData)
        /\ Len(m_tx_list') = Len(m_tx_list) + 1
        /\ \A i \in 1..Len(m_tx_list) : m_tx_list'[i] = m_tx_list[i]
        /\ m_tx_list'[Len(m_tx_list) + 1].id = m_next_tx_id
    <3>. DEFINE e == [id |-> m_next_tx_id, by |-> c, sync |-> call_sync[c]]
    <3>1. e.id = m_next_tx_id
      OBVIOUS
    <3>. QED BY <1>0, <1>6, <3>1, PushEffect
  <2>4. Len(wire') + Len(m_tx_list') = m_next_tx_id' - 1 + InFlight'
    BY <1>0, <2>1, <2>2, <2>3 DEF ExactlyOnceInOrder, TypeOK
  <2>5. ASSUME NEW i \in DOMAIN m_tx_list'
        PROVE  m_tx_list'[i].id = Len(wire') - InFlight' + i
    <3>1. i \in 1..Len(m_tx_list) \/ i = Len(m_tx_list) + 1
      BY <1>0, <2>3 DEF TypeOK
    <3>2. CASE i \in 1..Len(m_tx_list)
      BY <1>0, <2>1, <2>2, <2>3, <3>2 DEF ExactlyOnceInOrder, TypeOK
    <3>3. CASE i = Len(m_tx_list) + 1
      <4>1. Len(wire) \in Nat /\ Len(m_tx_list) \in Nat /\ m_next_tx_id \in Nat
        BY <1>0 DEF TypeOK
      <4>2. m_next_tx_id = Len(wire) - InFlight + Len(m_tx_list) + 1
        BY <1>0, <2>1, <4>1 DEF ExactlyOnceInOrder
      <4>3. m_tx_list'[i].id = m_next_tx_id
        BY <2>3, <3>3
      <4>. QED BY <2>1, <2>2, <3>3, <4>1, <4>2, <4>3
    <3>. QED BY <3>1, <3>2, <3>3
  <2>6. FlightInv'
    <3>1. CASE InFlight = 1
      <4>1. m_tx_list # <<>> /\ 1 \in 1..Len(m_tx_list) /\ m_tx_list' # <<>>
        BY <1>0, <2>3, <3>1 DEF FlightInv, TypeOK
      <4>2. Head(m_tx_list') = m_tx_list'[1] /\ Head(m_tx_list) = m_tx_list[1]
        BY <1>0, <2>3, <4>1 DEF TypeOK
      <4>. QED BY <1>0, <2>2, <2>3, <3>1, <4>1, <4>2 DEF FlightInv
    <3>2. CASE InFlight = 0
      BY <2>1, <3>2 DEF FlightInv
    <3>. QED BY <2>1, <3>1, <3>2
  <2>. QED BY <1>0, <2>2, <2>4, <2>5, <2>6 DEF ExactlyOnceInOrder
<1>7. ASSUME NEW c \in Callers, NEW sync \in BOOLEAN,
             TxRefuse(c) \/ TxEnter(c, sync) \/ TxLock(c) \/ TxNotify(c) \/ TxReturn(c)
      PROVE  ExactlyOnceInOrder' /\ FlightInv'
  <2>1. UNCHANGED <<m_tx_list, m_next_tx_id, wire, tx_pc>>
    BY <1>7 DEF TxRefuse, TxEnter, TxLock, TxNotify, TxReturn
  <2>. QED BY <1>1, <2>1 DEF InFlight
<1>8. CASE UNCHANGED vars
  BY <1>1, <1>8 DEF vars, InFlight
<1>. QED
  BY <1>2, <1>3, <1>4, <1>5, <1>6, <1>7, <1>8 DEF Next, TxThreadStep, Caller

-----------------------------------------------------------------------------
(* Events and wakeups.                                                     *)

\* Every step keeps the tx thread's event signalled, or about to be, while
\* frames are queued.
LEMMA WakeupStep == IInv /\ [Next]_vars => WakeupPending'
<1>. SUFFICES ASSUME IInv, [Next]_vars PROVE WakeupPending'
  OBVIOUS
<1>. USE DEF WakeupPending, owner_vars, caller_vars
<1>0. WakeupPending /\ TypeOK /\ LifeInv /\ FlightInv
  BY DEF IInv
<1>1. CASE Owner
  BY <1>0, <1>1 DEF LifeInv, Owner, InitStart, InitFinish, UninitStart, UninitFinish
<1>2. CASE TxThreadStep
  <2>1. CASE TxThreadIdle
    BY <2>1 DEF TxThreadIdle
  <2>2. CASE TxThreadPop
    BY <1>0, <2>2 DEF TxThreadPop, FlightInv, InFlight
  <2>3. CASE ~TxThreadIdle /\ ~TxThreadPop
    <3>1. UNCHANGED <<m_tx_list, event4tx, call_pc>>
      BY <1>2, <2>3 DEF TxThreadStep, TxThreadTest, TxThreadWait, TxThreadLock, TxThreadSend,
                        TxThreadSignal
    <3>. QED BY <1>0, <3>1
  <2>. QED BY <2>1, <2>2, <2>3
<1>3. ASSUME NEW c \in Callers, TxPush(c) PROVE WakeupPending'
  BY <1>0, <1>3 DEF TxPush, TypeOK
<1>4. ASSUME NEW c \in Callers, TxNotify(c) PROVE WakeupPending'
  BY <1>4 DEF TxNotify
<1>5. ASSUME NEW c \in Callers, NEW sync \in BOOLEAN,
             TxRefuse(c) \/ TxEnter(c, sync) \/ TxLock(c) \/ TxReturn(c)
      PROVE  WakeupPending'
  <2>1. /\ UNCHANGED <<m_tx_list, event4tx>> /\ call_pc[c] # "notify"
        /\ \A d \in Callers \ {c} : call_pc'[d] = call_pc[d]
    BY <1>0, <1>5 DEF TypeOK, TxRefuse, TxEnter, TxLock, TxReturn
  <2>. QED BY <1>0, <2>1
<1>6. CASE UNCHANGED vars
  BY <1>0, <1>6 DEF vars
<1>. QED BY <1>1, <1>2, <1>3, <1>4, <1>5, <1>6 DEF Next, Caller

\* A step that leaves the queue and its owners alone keeps EntryOwned.
LEMMA OwnersKept ==
    ASSUME EntryOwned, TypeOK, m_tx_list' = m_tx_list, tx_pc' = "pop" <=> tx_pc = "pop",
           \A d \in Callers : InsideSync(d) /\ call_evt[d] = "clear" =>
               /\ call_sync'[d] /\ call_pc'[d] \in {"notify", "wait"}
               /\ call_id'[d] = call_id[d] /\ call_evt'[d] = "clear"
    PROVE  EntryOwned'
<1>. SUFFICES ASSUME NEW i \in DOMAIN m_tx_list, m_tx_list[i].sync, ~(i = 1 /\ tx_pc = "pop")
              PROVE  LET c == m_tx_list[i].by IN
                     /\ call_sync'[c] /\ call_pc'[c] \in {"notify", "wait"}
                     /\ call_id'[c] = m_tx_list[i].id /\ call_evt'[c] = "clear"
  BY DEF EntryOwned, Unsignalled, InsideSync
<1>1. m_tx_list[i].by \in Callers
  BY EntryType
<1>2. /\ InsideSync(m_tx_list[i].by) /\ call_id[m_tx_list[i].by] = m_tx_list[i].id
      /\ call_evt[m_tx_list[i].by] = "clear"
  BY DEF EntryOwned, Unsignalled
<1>. QED BY <1>1, <1>2

\* Every step keeps the events of the queue's entries alive: the tx thread
\* never signals an event that its caller has closed.
LEMMA EntryStep == IInv /\ [Next]_vars => EntryOwned'
<1>. SUFFICES ASSUME IInv, [Next]_vars PROVE EntryOwned'
  OBVIOUS
<1>. USE DEF owner_vars, caller_vars
<1>0. EntryOwned /\ TypeOK /\ LifeInv /\ FlightInv /\ ExactlyOnceInOrder /\ WaiterInv
  BY DEF IInv
<1>1. ASSUME UNCHANGED <<m_tx_list, caller_vars, call_evt>>, tx_pc' = "pop" <=> tx_pc = "pop"
      PROVE  EntryOwned'
  BY <1>0, <1>1, OwnersKept DEF InsideSync
<1>2. CASE Owner
  <2>1. UNCHANGED <<m_tx_list, caller_vars, call_evt>>
    BY <1>2 DEF Owner, InitStart, InitFinish, UninitStart, UninitFinish
  <2>2. tx_pc' = "pop" <=> tx_pc = "pop"
    BY <1>0, <1>2 DEF LifeInv, Owner, InitStart, InitFinish, UninitStart, UninitFinish
  <2>. QED BY <1>1, <2>1, <2>2
<1>3. CASE TxThreadTest \/ TxThreadWait \/ TxThreadLock \/ TxThreadIdle
           \/ \E okay \in BOOLEAN : TxThreadSend(okay)
  <2>1. UNCHANGED <<m_tx_list, caller_vars, call_evt>>
    BY <1>3 DEF TxThreadTest, TxThreadWait, TxThreadLock, TxThreadIdle, TxThreadSend
  <2>2. tx_pc' = "pop" <=> tx_pc = "pop"
    BY <1>3 DEF TxThreadTest, TxThreadWait, TxThreadLock, TxThreadIdle, TxThreadSend
  <2>. QED BY <1>1, <2>1, <2>2
<1>4. CASE TxThreadSignal
  <2>. SUFFICES ASSUME NEW i \in DOMAIN m_tx_list, m_tx_list[i].sync, i # 1
                PROVE  LET c == m_tx_list[i].by IN
                       /\ InsideSync(c) /\ call_id[c] = m_tx_list[i].id
                       /\ call_evt'[c] = "clear"
    BY <1>4 DEF EntryOwned, Unsignalled, InsideSync, TxThreadSignal
  <2>. DEFINE f == m_tx_list[1]
              c == m_tx_list[i].by
  <2>1. Head(m_tx_list) = f /\ 1 \in DOMAIN m_tx_list /\ f \in TxData /\ c \in Callers
    <3>1. m_tx_list # <<>> /\ m_tx_list \in Seq(TxData)
      BY <1>0, <1>4 DEF FlightInv, InFlight, TxThreadSignal, TypeOK
    <3>2. Head(m_tx_list) = f /\ 1 \in DOMAIN m_tx_list
      BY <3>1
    <3>. QED BY <1>0, <3>2, EntryType
  <2>2. InsideSync(c) /\ call_id[c] = m_tx_list[i].id /\ call_evt[c] = "clear"
    BY <1>0, <1>4 DEF EntryOwned, Unsignalled, TxThreadSignal
  <2>3. f.sync => call_id[f.by] = f.id
    BY <1>0, <1>4, <2>1 DEF EntryOwned, Unsignalled, TxThreadSignal
  <2>4. m_tx_list[i].id # f.id
    <3>1. m_tx_list[i].id = Len(wire) - InFlight + i /\ f.id = Len(wire) - InFlight + 1
      BY <1>0, <2>1 DEF ExactlyOnceInOrder
    <3>2. Len(wire) \in Nat /\ InFlight \in Nat /\ i \in Nat
      BY <1>0 DEF TypeOK, InFlight
    <3>. QED BY <3>1, <3>2
  <2>5. ~(f.sync /\ c = f.by)
    BY <2>2, <2>3, <2>4
  <2>6. call_evt'[c] = call_evt[c]
    BY <1>0, <1>4, <2>1, <2>5 DEF TxThreadSignal, TypeOK
  <2>. QED BY <2>2, <2>6
<1>5. CASE TxThreadPop
  <2>1. /\ m_tx_list' \in Seq(TxData) /\ Len(m_tx_list') = Len(m_tx_list) - 1
        /\ \A i \in 1..Len(m_tx_list') : m_tx_list'[i] = m_tx_list[i + 1]
    BY <1>0, <1>5, PopEffect DEF FlightInv, InFlight, TxThreadPop
  <2>. SUFFICES ASSUME NEW i \in DOMAIN m_tx_list', m_tx_list'[i].sync
                PROVE  LET c == m_tx_list'[i].by IN
                       /\ InsideSync(c) /\ call_id[c] = m_tx_list'[i].id
                       /\ call_evt[c] = "clear"
    BY <1>5 DEF EntryOwned, Unsignalled, InsideSync, TxThreadPop
  <2>2. i + 1 \in DOMAIN m_tx_list /\ i + 1 # 1 /\ m_tx_list'[i] = m_tx_list[i + 1]
    <3>1. i \in 1..(Len(m_tx_list) - 1) /\ Len(m_tx_list) \in Nat
      BY <1>0, <2>1 DEF TypeOK
    <3>2. DOMAIN m_tx_list = 1..Len(m_tx_list) /\ DOMAIN m_tx_list' = 1..Len(m_tx_list')
      BY <1>0, <2>1 DEF TypeOK
    <3>3. m_tx_list'[i] = m_tx_list[i + 1]
      BY <2>1, <3>2
    <3>4. i + 1 \in 1..Len(m_tx_list) /\ i + 1 # 1
      BY <3>1
    <3>. QED BY <3>2, <3>3, <3>4
  <2>3. Unsignalled(i + 1)
    BY <2>2 DEF Unsignalled
  <2>. QED BY <1>0, <2>2, <2>3 DEF EntryOwned
<1>6. ASSUME NEW c \in Callers, TxPush(c) PROVE EntryOwned'
  <2>. DEFINE e == [id |-> m_next_tx_id, by |-> c, sync |-> call_sync[c]]
  <2>0. e.id = m_next_tx_id /\ e.by = c /\ e.sync = call_sync[c]
    OBVIOUS
  <2>1. /\ m_tx_list' \in Seq(TxData) /\ Len(m_tx_list') = Len(m_tx_list) + 1
        /\ \A i \in 1..Len(m_tx_list) : m_tx_list'[i] = m_tx_list[i]
        /\ m_tx_list'[Len(m_tx_list) + 1] = e
    BY <1>0, <1>6, PushEffect
  <2>. HIDE DEF e
  <2>2. /\ call_pc[c] = "push" /\ call_pc'[c] = "notify" /\ call_id'[c] = m_next_tx_id
        /\ UNCHANGED <<tx_pc, call_sync, call_evt>>
        /\ \A d \in Callers \ {c} : call_pc'[d] = call_pc[d] /\ call_id'[d] = call_id[d]
    BY <1>0, <1>6 DEF TxPush, TypeOK
  <2>. SUFFICES ASSUME NEW i \in DOMAIN m_tx_list', m_tx_list'[i].sync,
                       ~(i = 1 /\ tx_pc = "pop")
                PROVE  LET d == m_tx_list'[i].by IN
                       /\ call_sync[d] /\ call_pc'[d] \in {"notify", "wait"}
                       /\ call_id'[d] = m_tx_list'[i].id /\ call_evt[d] = "clear"
    BY <2>2 DEF EntryOwned, Unsignalled, InsideSync
  <2>3. i \in 1..Len(m_tx_list) \/ i = Len(m_tx_list) + 1
    BY <1>0, <2>1 DEF TypeOK
  <2>4. CASE i \in 1..Len(m_tx_list)
    <3>1. i \in DOMAIN m_tx_list /\ m_tx_list'[i] = m_tx_list[i] /\ m_tx_list[i].by \in Callers
      <4>1. i \in DOMAIN m_tx_list
        BY <1>0, <2>4 DEF TypeOK
      <4>. QED BY <1>0, <2>1, <2>4, <4>1, EntryType
    <3>2. LET d == m_tx_list[i].by IN
          InsideSync(d) /\ call_id[d] = m_tx_list[i].id /\ call_evt[d] = "clear"
      BY <1>0, <3>1 DEF EntryOwned, Unsignalled
    <3>. QED BY <2>2, <3>1, <3>2 DEF InsideSync
  <2>5. CASE i = Len(m_tx_list) + 1
    BY <1>0, <2>0, <2>1, <2>2, <2>5 DEF WaiterInv
  <2>. QED BY <2>3, <2>4, <2>5
<1>7. ASSUME NEW c \in Callers, NEW sync \in BOOLEAN, TxRefuse(c) \/ TxEnter(c, sync) \/ TxLock(c)
      PROVE  EntryOwned'
  <2>1. /\ UNCHANGED <<m_tx_list, tx_pc>> /\ ~InsideSync(c)
        /\ \A d \in Callers \ {c} : /\ call_pc'[d] = call_pc[d] /\ call_sync'[d] = call_sync[d]
                                    /\ call_id'[d] = call_id[d] /\ call_evt'[d] = call_evt[d]
    BY <1>0, <1>7 DEF TypeOK, InsideSync, TxRefuse, TxEnter, TxLock
  <2>. QED BY <1>0, <2>1, OwnersKept DEF InsideSync
<1>8. ASSUME NEW c \in Callers, TxNotify(c) PROVE EntryOwned'
  <2>1. /\ UNCHANGED <<m_tx_list, tx_pc, call_sync, call_id, call_evt>>
        /\ call_sync[c] => call_pc'[c] = "wait"
        /\ \A d \in Callers \ {c} : call_pc'[d] = call_pc[d]
    BY <1>0, <1>8 DEF TypeOK, TxNotify
  <2>. QED BY <1>0, <2>1, OwnersKept DEF InsideSync
<1>9. ASSUME NEW c \in Callers, TxReturn(c) PROVE EntryOwned'
  <2>1. /\ UNCHANGED <<m_tx_list, tx_pc, call_sync, call_id>> /\ call_evt[c] = "signalled"
        /\ \A d \in Callers \ {c} : call_pc'[d] = call_pc[d] /\ call_evt'[d] = call_evt[d]
    BY <1>0, <1>9 DEF TypeOK, TxReturn
  <2>. QED BY <1>0, <2>1, OwnersKept DEF InsideSync
<1>10. CASE UNCHANGED vars
  BY <1>1, <1>10 DEF vars
<1>. QED
  BY <1>2, <1>3, <1>4, <1>5, <1>6, <1>7, <1>8, <1>9, <1>10 DEF Next, TxThreadStep, Caller

-----------------------------------------------------------------------------
(* The callers blocked in tx_sync.                                         *)

\* What WaiterInv says of one caller.
Accounted(d) ==
    /\ call_sync[d] /\ call_pc[d] \in {"lock", "push"} => call_evt[d] = "clear"
    /\ call_pc[d] = "wait" => call_sync[d]
    /\ InsideSync(d) => InQueue(d) \/ (call_evt[d] = "signalled" /\ Attempted(d))

\* A caller whose own variables do not change stays accounted for as long as the
\* queue and the wire do not change either.
LEMMA AccountedFrame ==
    ASSUME NEW d \in Callers, Accounted(d), UNCHANGED <<m_tx_list, wire>>,
           tx_pc' = "pop" <=> tx_pc = "pop",
           call_pc'[d] = call_pc[d], call_sync'[d] = call_sync[d],
           call_id'[d] = call_id[d], call_evt'[d] = call_evt[d]
    PROVE  Accounted(d)'
<1>1. \A i : Unsignalled(i)' <=> Unsignalled(i)
  BY DEF Unsignalled
<1>2. InQueue(d)' <=> InQueue(d)
  BY <1>1 DEF InQueue
<1>3. Attempted(d)' <=> Attempted(d)
  BY DEF Attempted
<1>. QED BY <1>2, <1>3 DEF Accounted, InsideSync

\* Every step keeps every blocked caller accounted for.
LEMMA WaiterStep == IInv /\ [Next]_vars => WaiterInv'
<1>. SUFFICES ASSUME IInv, [Next]_vars, NEW d \in Callers PROVE Accounted(d)'
  BY DEF WaiterInv, Accounted
<1>. USE DEF owner_vars, caller_vars
<1>0. /\ EntryOwned /\ TypeOK /\ LifeInv /\ FlightInv /\ ExactlyOnceInOrder
      /\ Accounted(d)
  BY DEF IInv, WaiterInv, Accounted
<1>1. ASSUME UNCHANGED <<m_tx_list, wire, caller_vars, call_evt>>, tx_pc' = "pop" <=> tx_pc = "pop"
      PROVE  Accounted(d)'
  BY <1>0, <1>1, AccountedFrame
<1>2. CASE Owner
  <2>1. UNCHANGED <<m_tx_list, wire, caller_vars, call_evt>>
    BY <1>2 DEF Owner, InitStart, InitFinish, UninitStart, UninitFinish
  <2>2. tx_pc' = "pop" <=> tx_pc = "pop"
    BY <1>0, <1>2 DEF LifeInv, Owner, InitStart, InitFinish, UninitStart, UninitFinish
  <2>. QED BY <1>1, <2>1, <2>2
<1>3. CASE TxThreadTest \/ TxThreadWait \/ TxThreadLock \/ TxThreadIdle
  <2>1. UNCHANGED <<m_tx_list, wire, caller_vars, call_evt>>
    BY <1>3 DEF TxThreadTest, TxThreadWait, TxThreadLock, TxThreadIdle
  <2>2. tx_pc' = "pop" <=> tx_pc = "pop"
    BY <1>3 DEF TxThreadTest, TxThreadWait, TxThreadLock, TxThreadIdle
  <2>. QED BY <1>1, <2>1, <2>2
<1>4. ASSUME NEW okay \in BOOLEAN, TxThreadSend(okay) PROVE Accounted(d)'
  <2>1. /\ UNCHANGED <<m_tx_list, caller_vars, call_evt>> /\ tx_pc = "inspect" /\ tx_pc' = "signal"
    BY <1>4 DEF TxThreadSend
  <2>2. InQueue(d) => InQueue(d)'
    <3>1. \A i : Unsignalled(i)' <=> Unsignalled(i)
      BY <2>1 DEF Unsignalled
    <3>. QED BY <2>1, <3>1 DEF InQueue
  <2>3. Attempted(d) => Attempted(d)'
    <3>1. /\ wire' \in Seq(Sent) /\ Len(wire') = Len(wire) + 1
          /\ \A i \in 1..Len(wire) : wire'[i] = wire[i]
      BY <1>0, <1>4, SendEffect
    <3>2. \A i \in DOMAIN wire : i \in DOMAIN wire' /\ wire'[i] = wire[i]
      BY <1>0, <3>1 DEF TypeOK
    <3>. QED BY <2>1, <3>2 DEF Attempted
  <2>. QED BY <1>0, <2>1, <2>2, <2>3 DEF Accounted, InsideSync
<1>5. CASE TxThreadSignal
  <2>. DEFINE f == m_tx_list[1]
  <2>1. UNCHANGED <<m_tx_list, wire, caller_vars>> /\ tx_pc = "signal" /\ tx_pc' = "pop"
    BY <1>5 DEF TxThreadSignal
  <2>2. Head(m_tx_list) = f /\ 1 \in DOMAIN m_tx_list
    BY <1>0, <2>1 DEF FlightInv, InFlight, TypeOK
  <2>3. CASE f.sync /\ d = f.by
    <3>1. call_evt'[d] = "signalled"
      BY <1>0, <1>5, <2>2, <2>3 DEF TxThreadSignal, TypeOK
    <3>2. InsideSync(d) /\ call_id[d] = f.id
      BY <1>0, <2>1, <2>2, <2>3 DEF EntryOwned, Unsignalled
    <3>3. Attempted(d)
      <4>1. wire # <<>> /\ wire[Len(wire)].by = d
        BY <1>0, <2>1, <2>2, <2>3 DEF FlightInv, InFlight
      <4>2. Len(wire) \in DOMAIN wire /\ Len(wire) \in Nat
        BY <1>0, <4>1 DEF TypeOK
      <4>3. f.id = Len(wire)
        BY <1>0, <2>1, <2>2, <4>2 DEF ExactlyOnceInOrder, InFlight
      <4>. QED BY <1>0, <3>2, <4>1, <4>2, <4>3 DEF ExactlyOnceInOrder, Attempted
    <3>4. Attempted(d)'
      BY <2>1, <3>3 DEF Attempted
    <3>. QED BY <1>0, <2>1, <3>1, <3>2, <3>4 DEF Accounted, InsideSync
  <2>4. CASE ~(f.sync /\ d = f.by)
    <3>1. call_evt'[d] = call_evt[d]
      BY <1>0, <1>5, <2>2, <2>4 DEF TxThreadSignal, TypeOK
    <3>2. InQueue(d) => InQueue(d)'
      <4>. SUFFICES ASSUME NEW i \in DOMAIN m_tx_list, m_tx_list[i].sync,
                           m_tx_list[i].id = call_id[d], m_tx_list[i].by = d,
                           call_evt[d] = "clear"
                    PROVE  InQueue(d)'
        BY DEF InQueue, Unsignalled
      <4>1. i # 1
        BY <2>4
      <4>2. Unsignalled(i)'
        BY <2>1, <4>1 DEF Unsignalled
      <4>. QED BY <2>1, <3>1, <4>2 DEF InQueue
    <3>3. Attempted(d)' <=> Attempted(d)
      BY <2>1 DEF Attempted
    <3>. QED BY <1>0, <2>1, <3>1, <3>2, <3>3 DEF Accounted, InsideSync
  <2>. QED BY <2>3, <2>4
<1>6. CASE TxThreadPop
  <2>1. UNCHANGED <<wire, caller_vars, call_evt>> /\ tx_pc = "pop" /\ tx_pc' = "test"
    BY <1>6 DEF TxThreadPop
  <2>2. /\ m_tx_list' \in Seq(TxData) /\ Len(m_tx_list') = Len(m_tx_list) - 1
        /\ \A i \in 1..Len(m_tx_list') : m_tx_list'[i] = m_tx_list[i + 1]
    BY <1>0, <1>6, PopEffect DEF FlightInv, InFlight, TxThreadPop
  <2>3. InQueue(d) => InQueue(d)'
    <3>. SUFFICES ASSUME NEW i \in DOMAIN m_tx_list, m_tx_list[i].sync, i # 1,
                         m_tx_list[i].id = call_id[d], m_tx_list[i].by = d,
                         call_evt[d] = "clear"
                  PROVE  InQueue(d)'
      BY <2>1 DEF InQueue, Unsignalled
    <3>. DEFINE j == i - 1
    <3>1. i \in 2..Len(m_tx_list) /\ Len(m_tx_list) \in Nat
      BY <1>0 DEF TypeOK
    <3>2. j \in 1..Len(m_tx_list') /\ j + 1 = i
      BY <2>2, <3>1
    <3>3. j \in DOMAIN m_tx_list' /\ m_tx_list'[j] = m_tx_list[i]
      BY <2>2, <3>2
    <3>. HIDE DEF j
    <3>4. Unsignalled(j)'
      BY <2>1, <3>3 DEF Unsignalled
    <3>. QED BY <2>1, <3>3, <3>4 DEF InQueue
  <2>4. Attempted(d)' <=> Attempted(d)
    BY <2>1 DEF Attempted
  <2>. QED BY <1>0, <2>1, <2>3, <2>4 DEF Accounted, InsideSync
<1>7. ASSUME NEW c \in Callers, TxPush(c) PROVE Accounted(d)'
  <2>. DEFINE e == [id |-> m_next_tx_id, by |-> c, sync |-> call_sync[c]]
              last == Len(m_tx_list) + 1
  <2>0. e.id = m_next_tx_id /\ e.by = c /\ e.sync = call_sync[c]
    OBVIOUS
  <2>1. /\ m_tx_list' \in Seq(TxData) /\ Len(m_tx_list') = Len(m_tx_list) + 1
        /\ \A i \in 1..Len(m_tx_list) : m_tx_list'[i] = m_tx_list[i]
        /\ m_tx_list'[last] = e
    BY <1>0, <1>7, PushEffect
  <2>. HIDE DEF e
  <2>2. /\ call_pc[c] = "push" /\ call_pc'[c] = "notify" /\ call_id'[c] = m_next_tx_id
        /\ UNCHANGED <<tx_pc, wire, call_sync, call_evt>>
        /\ \A x \in Callers \ {c} : call_pc'[x] = call_pc[x] /\ call_id'[x] = call_id[x]
    BY <1>0, <1>7 DEF TxPush, TypeOK
  <2>3. \A i \in DOMAIN m_tx_list : i \in DOMAIN m_tx_list' /\ m_tx_list'[i] = m_tx_list[i]
    <3>1. Len(m_tx_list) \in Nat /\ DOMAIN m_tx_list = 1..Len(m_tx_list)
      BY <1>0 DEF TypeOK
    <3>2. DOMAIN m_tx_list' = 1..(Len(m_tx_list) + 1)
      BY <2>1
    <3>. QED BY <2>1, <3>1, <3>2
  <2>4. CASE d = c
    <3>1. last \in DOMAIN m_tx_list' /\ ~(last = 1 /\ tx_pc = "pop")
      BY <1>0, <2>1 DEF TypeOK, FlightInv, InFlight
    <3>2. call_sync[d] => InQueue(d)'
      BY <1>0, <2>0, <2>1, <2>2, <2>4, <3>1 DEF InQueue, Unsignalled, Accounted
    <3>3. call_pc'[d] \notin {"lock", "push"} /\ call_pc'[d] # "wait"
      BY <2>2, <2>4
    <3>4. call_sync'[d] = call_sync[d]
      BY <2>2, <2>4
    <3>. QED BY <3>2, <3>3, <3>4 DEF Accounted, InsideSync
  <2>5. CASE d # c
    <3>1. InQueue(d) => InQueue(d)'
      BY <2>2, <2>3, <2>5 DEF InQueue, Unsignalled
    <3>2. Attempted(d)' <=> Attempted(d)
      BY <2>2, <2>5 DEF Attempted
    <3>. QED BY <1>0, <2>2, <2>5, <3>1, <3>2 DEF Accounted, InsideSync
  <2>. QED BY <2>4, <2>5
<1>8. ASSUME NEW c \in Callers, NEW sync \in BOOLEAN,
             TxRefuse(c) \/ TxEnter(c, sync) \/ TxLock(c) \/ TxNotify(c) \/ TxReturn(c)
      PROVE  Accounted(d)'
  <2>1. /\ UNCHANGED <<m_tx_list, wire, tx_pc, call_id>>
        /\ \A x \in Callers \ {c} : /\ call_pc'[x] = call_pc[x] /\ call_sync'[x] = call_sync[x]
                                    /\ call_evt'[x] = call_evt[x]
    BY <1>0, <1>8 DEF TypeOK, TxRefuse, TxEnter, TxLock, TxNotify, TxReturn
  <2>2. CASE d # c
    BY <1>0, <2>1, <2>2, AccountedFrame
  <2>3. CASE d = c /\ TxRefuse(c)
    <3>1. UNCHANGED <<call_pc, call_sync, call_evt>>
      BY <2>3 DEF TxRefuse
    <3>. QED BY <1>0, <2>1, <3>1, AccountedFrame
  <2>4. CASE d = c /\ (TxEnter(c, sync) \/ TxLock(c))
    BY <1>0, <2>4 DEF TypeOK, TxEnter, TxLock, Accounted, InsideSync
  <2>5. CASE d = c /\ TxNotify(c)
    <3>1. /\ call_pc[c] = "notify" /\ UNCHANGED <<call_sync, call_evt>>
          /\ call_pc'[c] = IF call_sync[c] THEN "wait" ELSE "idle"
      BY <1>0, <2>5 DEF TypeOK, TxNotify
    <3>2. \A i : Unsignalled(i)' <=> Unsignalled(i)
      BY <2>1 DEF Unsignalled
    <3>3. (InQueue(d)' <=> InQueue(d)) /\ (Attempted(d)' <=> Attempted(d))
      BY <2>1, <3>1, <3>2 DEF InQueue, Attempted
    <3>. QED BY <1>0, <2>5, <3>1, <3>3 DEF Accounted, InsideSync
  <2>6. CASE d = c /\ TxReturn(c)
    <3>1. call_pc'[c] = "idle"
      BY <1>0, <2>6 DEF TypeOK, TxReturn
    <3>. QED BY <2>6, <3>1 DEF Accounted, InsideSync
  <2>. QED BY <1>8, <2>2, <2>3, <2>4, <2>5, <2>6
<1>9. CASE UNCHANGED vars
  BY <1>1, <1>9 DEF vars
<1>. QED
  BY <1>2, <1>3, <1>4, <1>5, <1>6, <1>7, <1>8, <1>9 DEF Next, TxThreadStep, Caller

-----------------------------------------------------------------------------
(* The theorems.                                                           *)

LEMMA InitIInv == Init => IInv
<1>. SUFFICES ASSUME Init PROVE IInv
  OBVIOUS
<1>1. /\ m_tx_list = <<>> /\ wire = <<>> /\ m_next_tx_id = 1
      /\ tx_pc = "not started" /\ call_pc = [c \in Callers |-> "idle"]
      /\ call_sync = [c \in Callers |-> FALSE]
  BY DEF Init
<1>2. TypeOK
  <2>1. m_tx_list \in Seq(TxData) /\ wire \in Seq(Sent)
    <3>1. m_tx_list = <<>> /\ wire = <<>>
      BY <1>1
    <3>. QED BY <3>1
  <2>2. m_next_tx_id \in Nat /\ m_next_tx_id > 0
    <3>1. m_next_tx_id = 1
      BY <1>1
    <3>. QED BY <3>1
  <2>3. call_id \in [Callers -> Nat] /\ call_sync \in [Callers -> BOOLEAN]
    BY DEF Init
  <2>4. /\ call_pc \in [Callers -> CallStates] /\ call_evt \in [Callers -> EventStates]
        /\ call_ret \in [Callers -> Returns]
    BY DEF Init, CallStates, EventStates, Returns
  <2>5. /\ life \in LifeStates /\ tx_pc \in TxStates /\ mutex4tx = Nobody
        /\ m_inited = FALSE /\ m_quit_tx_thread = FALSE /\ event4tx = FALSE
    BY DEF Init, LifeStates, TxStates
  <2>. QED BY <2>1, <2>2, <2>3, <2>4, <2>5 DEF TypeOK
<1>3. LifeInv /\ MutexInv
  BY ThreadsAssumption DEF Init, LifeInv, MutexInv
<1>4. InFlight = 0 /\ FlightInv
  <2>1. tx_pc = "not started"
    BY <1>1
  <2>2. InFlight = 0
    BY <2>1 DEF InFlight
  <2>. QED BY <2>2 DEF FlightInv
<1>5. ExactlyOnceInOrder
  <2>1. Len(m_tx_list) = 0 /\ Len(wire) = 0 /\ DOMAIN m_tx_list = {} /\ DOMAIN wire = {}
    <3>1. m_tx_list = <<>> /\ wire = <<>>
      BY <1>1
    <3>. QED BY <3>1
  <2>2. m_next_tx_id - 1 + InFlight = 0
    <3>1. m_next_tx_id = 1
      BY <1>1
    <3>. QED BY <1>4, <3>1
  <2>. QED BY <2>1, <2>2 DEF ExactlyOnceInOrder
<1>6. EntryOwned /\ WaiterInv /\ WakeupPending
  <2>1. DOMAIN m_tx_list = {}
    <3>1. m_tx_list = <<>>
      BY <1>1
    <3>. QED BY <3>1
  <2>. QED BY <1>1, <2>1 DEF EntryOwned, WaiterInv, WakeupPending, InsideSync
<1>. QED BY <1>2, <1>3, <1>4, <1>5, <1>6 DEF IInv

LEMMA StepIInv == IInv /\ [Next]_vars => IInv'
BY TypeStep, LifeStep, MutexStep, OrderStep, EntryStep, WaiterStep, WakeupStep DEF IInv

\* The inductive invariant holds in every execution, for any set of callers.
THEOREM Invariance == Spec => []IInv
BY InitIInv, StepIInv, PTL DEF Spec

\* Every frame queued is sent at most once, in the order of the calls.
THEOREM OrderTheorem == Spec => []ExactlyOnceInOrder
<1>1. IInv => ExactlyOnceInOrder
  BY DEF IInv
<1>. QED BY <1>1, Invariance, PTL

\* No thread blocked in tx_sync is forgotten.
THEOREM WaiterTheorem == Spec => []WaiterAccounted
<1>1. IInv => WaiterAccounted
  BY DEF IInv, WaiterInv, WaiterAccounted, InsideSync, InQueue, Queued, Unsignalled
<1>. QED BY <1>1, Invariance, PTL

\* The tx thread never signals an event that its caller has closed.
THEOREM EntryTheorem == Spec => []EntryOwned
<1>1. IInv => EntryOwned
  BY DEF IInv
<1>. QED BY <1>1, Invariance, PTL

\* No wakeup of the tx thread is lost.
THEOREM WakeupTheorem == Spec => []WakeupPending
<1>1. IInv => WakeupPending
  BY DEF IInv
<1>. QED BY <1>1, Invariance, PTL

-----------------------------------------------------------------------------
(* CommTx implements SendService.                                          *)

\* What the attempts on the wire look like from outside.
Shown(r) == [id |-> r.id, by |-> r.by, sync |-> r.sync]

LEMMA RefInit == Init => Service!Init
<1>. SUFFICES ASSUME Init PROVE Service!Init
  OBVIOUS
<1>1. m_tx_list = <<>> /\ wire = <<>>
  BY DEF Init
<1>2. AbsQueue = <<>>
  <2>1. InFlight = 0
    BY DEF Init, InFlight
  <2>. QED BY <1>1, <2>1 DEF AbsQueue
<1>3. AbsWire = <<>>
  BY <1>1 DEF AbsWire
<1>4. AbsOwed = [c \in Callers |-> 0]
  BY DEF Init, AbsOwed, InsideSync
<1>. QED BY <1>2, <1>3, <1>4 DEF Service!Init

\* Every step of CommTx is a step of the abstract sender or changes nothing that
\* its callers can see.
LEMMA RefStep == IInv /\ [Next]_vars => [Service!Next]_(Service!vars)
<1>. SUFFICES ASSUME IInv, [Next]_vars PROVE [Service!Next]_(Service!vars)
  OBVIOUS
<1>. USE DEF owner_vars, caller_vars
<1>0. TypeOK /\ LifeInv /\ FlightInv /\ ExactlyOnceInOrder /\ WaiterInv
  BY DEF IInv
<1>1. ASSUME UNCHANGED <<m_tx_list, wire>>, InFlight' = InFlight, AbsOwed' = AbsOwed
      PROVE  UNCHANGED Service!vars
  BY <1>1 DEF Service!vars, AbsQueue, AbsWire
<1>2. ASSUME UNCHANGED caller_vars PROVE AbsOwed' = AbsOwed
  BY <1>2 DEF AbsOwed, InsideSync
<1>3. CASE Owner
  <2>1. UNCHANGED <<m_tx_list, wire, caller_vars>>
    BY <1>3 DEF Owner, InitStart, InitFinish, UninitStart, UninitFinish
  <2>2. InFlight' = InFlight
    BY <1>0, <1>3 DEF LifeInv, InFlight, Owner, InitStart, InitFinish, UninitStart, UninitFinish
  <2>. QED BY <1>1, <1>2, <2>1, <2>2
<1>4. CASE TxThreadTest \/ TxThreadWait \/ TxThreadLock \/ TxThreadIdle \/ TxThreadSignal
  <2>1. UNCHANGED <<m_tx_list, wire, caller_vars>>
    BY <1>4 DEF TxThreadTest, TxThreadWait, TxThreadLock, TxThreadIdle, TxThreadSignal
  <2>2. InFlight' = InFlight
    BY <1>4 DEF InFlight, TxThreadTest, TxThreadWait, TxThreadLock, TxThreadIdle, TxThreadSignal
  <2>. QED BY <1>1, <1>2, <2>1, <2>2
<1>5. CASE TxThreadPop
  <2>1. /\ UNCHANGED <<wire, caller_vars>> /\ m_tx_list' = Tail(m_tx_list)
        /\ tx_pc = "pop" /\ tx_pc' = "test"
    BY <1>5 DEF TxThreadPop
  <2>2. AbsQueue' = AbsQueue
    BY <2>1 DEF AbsQueue, InFlight
  <2>. QED BY <1>2, <2>1, <2>2 DEF Service!vars, AbsWire
<1>6. ASSUME NEW okay \in BOOLEAN, TxThreadSend(okay) PROVE Service!Attempt
  <2>. DEFINE f == m_tx_list[1]
  <2>1. UNCHANGED <<m_tx_list, caller_vars>> /\ tx_pc = "inspect" /\ tx_pc' = "signal"
        /\ m_tx_list # <<>>
    BY <1>6 DEF TxThreadSend
  <2>2. /\ Head(m_tx_list) = f /\ f \in TxData
        /\ wire' \in Seq(Sent) /\ Len(wire') = Len(wire) + 1
        /\ \A i \in 1..Len(wire) : wire'[i] = wire[i]
        /\ Shown(wire'[Len(wire) + 1]) = Shown(f)
    BY <1>0, <1>6, SendEffect DEF Shown
  <2>3. Shown(f) = f
    BY <2>2 DEF Shown, TxData
  <2>4. AbsQueue = m_tx_list /\ AbsQueue' = Tail(m_tx_list)
    BY <2>1 DEF AbsQueue, InFlight
  <2>5. AbsWire' = Append(AbsWire, f)
    <3>1. /\ Len(wire) \in Nat /\ DOMAIN wire = 1..Len(wire)
          /\ DOMAIN wire' = 1..(Len(wire) + 1)
      BY <1>0, <2>2 DEF TypeOK
    <3>2. AbsWire = [i \in 1..Len(wire) |-> Shown(wire[i])]
      BY <3>1 DEF AbsWire, Shown
    <3>3. AbsWire' = [i \in 1..(Len(wire) + 1) |-> Shown(wire'[i])]
      BY <3>1 DEF AbsWire, Shown
    <3>4. AbsWire \in Seq(TxData)
      <4>1. \A i \in 1..Len(wire) : wire[i] \in Sent
        BY <1>0, <3>1 DEF TypeOK
      <4>2. \A i \in 1..Len(wire) : Shown(wire[i]) \in TxData
        BY <4>1 DEF Shown, Sent, TxData
      <4>. QED BY <3>1, <3>2, <4>2
    <3>5. Len(AbsWire) = Len(wire)
      BY <3>1, <3>2, <3>4
    <3>. DEFINE a == Append(AbsWire, f)
    <3>6. /\ a \in Seq(TxData) /\ Len(a) = Len(wire) + 1
          /\ \A i \in 1..Len(wire) : a[i] = AbsWire[i]
          /\ a[Len(wire) + 1] = f
      BY <2>2, <3>4, <3>5, AppendProperties
    <3>. HIDE DEF a
    <3>7. ASSUME NEW i \in 1..(Len(wire) + 1) PROVE a[i] = Shown(wire'[i])
      <4>1. i \in 1..Len(wire) \/ i = Len(wire) + 1
        BY <3>1
      <4>2. CASE i \in 1..Len(wire)
        BY <2>2, <3>2, <3>6, <4>2
      <4>3. CASE i = Len(wire) + 1
        BY <2>2, <2>3, <3>6, <4>3
      <4>. QED BY <4>1, <4>2, <4>3
    <3>8. a = [i \in 1..(Len(wire) + 1) |-> Shown(wire'[i])]
      BY <3>6, <3>7
    <3>. QED BY <3>3, <3>8 DEF a
  <2>6. AbsOwed' = AbsOwed
    BY <1>2, <2>1
  <2>. QED BY <2>1, <2>2, <2>4, <2>5, <2>6 DEF Service!Attempt
<1>7. ASSUME NEW c \in Callers, TxPush(c) PROVE Service!Submit(c, call_sync[c])
  <2>. DEFINE e == [id |-> m_next_tx_id, by |-> c, sync |-> call_sync[c]]
  <2>1. /\ m_tx_list' = Append(m_tx_list, e) /\ UNCHANGED <<wire, tx_pc, call_sync>>
        /\ call_pc[c] = "push" /\ call_pc'[c] = "notify" /\ call_id'[c] = m_next_tx_id
        /\ \A d \in Callers \ {c} : call_pc'[d] = call_pc[d] /\ call_id'[d] = call_id[d]
    BY <1>0, <1>7 DEF TxPush, TypeOK
  <2>2. e \in TxData /\ call_sync[c] \in BOOLEAN
    BY <1>0 DEF TypeOK, TxData
  <2>3. AbsOwed[c] = 0
    BY <2>1 DEF AbsOwed, InsideSync
  <2>4. AbsOwed' = IF call_sync[c] THEN [AbsOwed EXCEPT ![c] = m_next_tx_id] ELSE AbsOwed
    BY <2>1 DEF AbsOwed, InsideSync
  <2>5. m_next_tx_id = Len(AbsQueue) + Len(AbsWire) + 1
    <3>1. m_next_tx_id \in Nat /\ Len(wire) \in Nat /\ Len(m_tx_list) \in Nat
      BY <1>0 DEF TypeOK
    <3>2. Len(AbsWire) = Len(wire)
      BY <1>0 DEF TypeOK, AbsWire
    <3>3. Len(AbsQueue) = Len(m_tx_list) - InFlight
      <4>1. CASE InFlight = 1
        BY <1>0, <4>1, HeadTailProperties DEF FlightInv, TypeOK, AbsQueue
      <4>2. CASE InFlight = 0
        BY <3>1, <4>2 DEF AbsQueue
      <4>. QED BY <4>1, <4>2 DEF InFlight
    <3>4. InFlight \in Nat
      BY DEF InFlight
    <3>5. Len(wire) + Len(m_tx_list) = m_next_tx_id - 1 + InFlight
      BY <1>0 DEF ExactlyOnceInOrder
    <3>. QED BY <3>1, <3>2, <3>3, <3>4, <3>5
  <2>6. AbsQueue' = Append(AbsQueue, e)
    <3>. HIDE DEF e
    <3>1. InFlight' = InFlight
      BY <2>1 DEF InFlight
    <3>2. CASE InFlight = 1
      <4>1. m_tx_list \in Seq(TxData) /\ m_tx_list # <<>>
        BY <1>0, <3>2 DEF FlightInv, TypeOK
      <4>2. Tail(Append(m_tx_list, e)) = Append(Tail(m_tx_list), e)
        BY <2>2, <4>1, HeadTailAppend
      <4>. QED BY <2>1, <3>1, <3>2, <4>2 DEF AbsQueue
    <3>3. CASE InFlight # 1
      BY <2>1, <3>1, <3>3 DEF AbsQueue
    <3>. QED BY <3>2, <3>3
  <2>7. AbsWire' = AbsWire
    BY <2>1 DEF AbsWire
  <2>. QED BY <2>3, <2>4, <2>5, <2>6, <2>7 DEF Service!Submit
<1>8. ASSUME NEW c \in Callers, TxReturn(c) PROVE Service!Release(c)
  <2>1. /\ UNCHANGED <<m_tx_list, wire, tx_pc, call_sync, call_id>>
        /\ call_pc[c] = "wait" /\ call_pc'[c] = "idle" /\ call_evt[c] = "signalled"
        /\ \A d \in Callers \ {c} : call_pc'[d] = call_pc[d]
    BY <1>0, <1>8 DEF TxReturn, TypeOK
  <2>2. InsideSync(c) /\ Attempted(c)
    BY <1>0, <2>1 DEF WaiterInv, InsideSync, InQueue
  <2>3. PICK i \in DOMAIN wire : wire[i].id = call_id[c]
    BY <2>2 DEF Attempted
  <2>4. AbsOwed[c] = call_id[c]
    BY <2>2 DEF AbsOwed
  <2>5. call_id[c] # 0
    <3>1. i \in 1..Len(wire) /\ wire[i].id = i
      BY <1>0 DEF ExactlyOnceInOrder, TypeOK
    <3>. QED BY <2>3, <3>1
  <2>6. i \in DOMAIN AbsWire /\ AbsWire[i].id = AbsOwed[c]
    BY <2>3, <2>4 DEF AbsWire
  <2>7. AbsOwed' = [AbsOwed EXCEPT ![c] = 0]
    BY <2>1 DEF AbsOwed, InsideSync
  <2>8. UNCHANGED <<AbsQueue, AbsWire>>
    BY <2>1 DEF AbsQueue, AbsWire, InFlight
  <2>. QED BY <2>4, <2>5, <2>6, <2>7, <2>8 DEF Service!Release
<1>9. ASSUME NEW c \in Callers, NEW sync \in BOOLEAN,
             TxRefuse(c) \/ TxEnter(c, sync) \/ TxLock(c) \/ TxNotify(c)
      PROVE  UNCHANGED Service!vars
  <2>1. /\ UNCHANGED <<m_tx_list, wire, tx_pc, call_id>>
        /\ \A d \in Callers \ {c} : call_pc'[d] = call_pc[d] /\ call_sync'[d] = call_sync[d]
    BY <1>0, <1>9 DEF TypeOK, TxRefuse, TxEnter, TxLock, TxNotify
  <2>2. (call_sync'[c] /\ call_pc'[c] \in {"notify", "wait"}) <=> InsideSync(c)
    BY <1>0, <1>9 DEF TypeOK, InsideSync, TxRefuse, TxEnter, TxLock, TxNotify
  <2>3. AbsOwed' = AbsOwed
    BY <2>1, <2>2 DEF AbsOwed, InsideSync
  <2>. QED BY <1>1, <2>1, <2>3 DEF InFlight
<1>10. CASE UNCHANGED vars
  BY <1>1, <1>2, <1>10 DEF vars, InFlight
<1>11. ASSUME NEW c \in Callers, TxPush(c) PROVE Service!Next
  <2>1. call_sync[c] \in BOOLEAN
    BY <1>0 DEF TypeOK
  <2>. QED BY <1>7, <1>11, <2>1 DEF Service!Next
<1>. QED
  BY <1>3, <1>4, <1>5, <1>6, <1>8, <1>9, <1>10, <1>11
  DEF Next, TxThreadStep, Caller, Service!Next

\* The threaded queue of CommBase implements the abstract sender.
THEOREM Refinement == Spec => ImplementsSendService
<1>1. Init => Service!Init
  BY RefInit
<1>2. IInv /\ [Next]_vars => [Service!Next]_(Service!vars)
  BY RefStep
<1>. QED BY <1>1, <1>2, Invariance, PTL DEF Spec, ImplementsSendService, Service!Spec
=============================================================================

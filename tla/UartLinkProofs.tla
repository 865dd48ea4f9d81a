--------------------------- MODULE UartLinkProofs -----------------------------
(* Proofs about UartLink for every set of receivers, every size of the queues  *)
(* and every number of messages, chunks and sessions.                          *)
EXTENDS UartLink, FiniteSetTheorems, SequenceTheorems, TLAPS

(* A step of a call of uart_receive. *)
Receives(r) == ReceiveTest(r) \/ ReceivePop(r) \/ ReceiveSpuriousWakeup(r)

(* Which threads exist, and what they may use, while main is where it is.      *)
Alive == /\ main \in {"idle", "open", "create_tx", "close"} => tx \in Dead /\ rx \in Dead
         /\ main \in {"create_rx", "undo_signal", "undo_join"} => rx \in Dead
         /\ main = "join_rx" => tx \in Dead
         /\ main # "idle" => queues = "live"
         /\ main \notin {"idle", "open"} => fd # "closed"

(* At first there is no thread. *)
LEMMA InitAlive == Init => Alive
BY DEF Init, Alive, Dead

(* uart_thread_start and uart_thread_stop go through their stages in order. *)
LEMMA StepAlive == TypeOK /\ Alive /\ [Next]_vars => Alive'
<1> USE DEF Alive, Dead, lifeVars, txVars, rxVars
<1> SUFFICES ASSUME TypeOK, Alive, [Next]_vars PROVE Alive'
  OBVIOUS
<1>1. CASE Lifecycle
  BY <1>1 DEF Lifecycle, StartInit, StartOpen, StartTx, StartRx, UndoSignal, UndoJoin, StopFlag,
     StopSignal, StopJoinTx, StopJoinRx, StopClose, Close, SignalTx, Joined
<1>2. CASE TxThread \/ TxSpuriousWakeup
  BY <1>2 DEF TxThread, TxLoop, TxPop, TxCheck, TxWrite, TxSpuriousWakeup
<1>3. CASE RxThread \/ uart_send
  BY <1>3 DEF RxThread, RxLoop, RxRead, RxReadNothing, RxPush, RxCall, AfterPush, uart_send, Enqueue, SignalTx
<1>4. CASE uart_set_rx_callback \/ UNCHANGED vars \/ \E r \in Receiver : Receives(r)
  BY <1>4 DEF uart_set_rx_callback, vars, Receives, ReceiveTest, ReceivePop, ReceiveSpuriousWakeup
<1> QED BY <1>1, <1>2, <1>3, <1>4 DEF Next, Receives

(* What a thread holds between two of its steps.                               *)
Buffers == /\ tx_buf # 0 <=> tx \in {"check", "write"}
           /\ rx \in {"push", "call"} => rx_buf = nread /\ nread # 0

-----------------------------------------------------------------------------
(* queue_push: a message is appended to a queue with room, and a full queue is *)
(* left alone.                                                                 *)
LEMMA StoredFits ==
  ASSUME NEW S, NEW q \in Seq(S), NEW m \in S, Len(q) <= QueueSize
  PROVE  Stored(q, m) \in Seq(S) /\ Len(Stored(q, m)) <= QueueSize
<1>1. CASE HasRoom(q)
  <2>1. Stored(q, m) = Append(q, m) BY <1>1 DEF Stored
  <2>2. Append(q, m) \in Seq(S) /\ Len(Append(q, m)) = Len(q) + 1 OBVIOUS
  <2> QED BY <1>1, <2>1, <2>2, QueueAssumption DEF HasRoom
<1>2. CASE ~HasRoom(q)
  BY <1>2 DEF Stored
<1> QED BY <1>1, <1>2

(* A queue that is not empty: what a pop takes and what it leaves.             *)
LEMMA PopOf ==
  ASSUME NEW S, NEW q \in Seq(S), q # <<>>
  PROVE  /\ Head(q) = q[1] /\ Head(q) \in S /\ Tail(q) \in Seq(S)
         /\ Len(q) >= 1 /\ Len(Tail(q)) = Len(q) - 1
         /\ \A j \in 1 .. Len(q) - 1 : Tail(q)[j] = q[j + 1]
OBVIOUS

-----------------------------------------------------------------------------
(* TypeOK by the owner of the variables. *)
LifeTypes == /\ main \in {"idle", "open", "create_tx", "create_rx", "undo_signal", "undo_join",
                          "up", "stop_signal", "join_tx", "join_rx", "close"}
             /\ stop_flag \in 0 .. 1
             /\ fd \in {"closed", "open", "stale"}
             /\ queues \in {"unset", "live", "destroyed"}
             /\ starts \in 0 .. MaxStart
Fates     == Seq([msg : 1 .. MaxSend, how : {"sent", "part", "failed", "dropped"}])
TxTypes   == /\ tx \in Dead \cup {"loop", "pop", "wait", "check", "write"}
             /\ tx_buf \in 0 .. MaxSend /\ (tx_buf # 0 <=> tx \in {"check", "write"})
             /\ tx_queue \in Seq(1 .. MaxSend) /\ Len(tx_queue) <= QueueSize
             /\ base \in 0 .. accepted /\ accepted \in 0 .. MaxSend
             /\ fate \in Fates
RxTypes   == /\ rx \in Dead \cup {"loop", "read", "push", "call"}
             /\ rx_buf \in 0 .. MaxRead /\ nread \in 0 .. MaxRead
             /\ rx \in {"push", "call"} => rx_buf = nread /\ nread # 0
             /\ rx_queue \in Seq(1 .. MaxRead) /\ Len(rx_queue) <= QueueSize
             /\ handled \in Seq(1 .. MaxRead)
FlagTypes == rx_callback \in BOOLEAN
RecvTypes == recv \in [Receiver -> {"idle", "pop", "wait"}] /\ overtaken \subseteq Receiver
Types     == LifeTypes /\ TxTypes /\ RxTypes /\ FlagTypes /\ RecvTypes

(* The parts are TypeOK, and what the threads hold. *)
LEMMA TypesAreTypeOK == Types <=> TypeOK /\ Buffers
BY DEF Types, LifeTypes, TxTypes, RxTypes, FlagTypes, RecvTypes, Fates, TypeOK, Buffers

(* The link starts with empty queues. *)
LEMMA InitTypes == Init => Types
<1> SUFFICES ASSUME Init PROVE Types
  OBVIOUS
<1> USE BoundAssumption, QueueAssumption DEF Init
<1>1. LifeTypes BY DEF LifeTypes
<1>2. TxTypes BY DEF TxTypes, Fates, Dead
<1>3. RxTypes BY DEF RxTypes, Dead
<1>4. RecvTypes /\ FlagTypes BY DEF RecvTypes, FlagTypes
<1> QED BY <1>1, <1>2, <1>3, <1>4 DEF Types

(* uart_send, by whoever calls it. *)
LEMMA SendTypes ==
  ASSUME TxTypes, Enqueue, accepted < MaxSend, UNCHANGED <<tx_buf, base, fate>>
  PROVE  TxTypes'
<1>1. accepted + 1 \in 1 .. MaxSend /\ tx_queue \in Seq(1 .. MaxSend) /\ Len(tx_queue) <= QueueSize
  BY BoundAssumption DEF TxTypes
<1>2. tx_queue' \in Seq(1 .. MaxSend) /\ Len(tx_queue') <= QueueSize
  BY <1>1, StoredFits DEF Enqueue
<1>3. tx' = tx \/ (tx = "wait" /\ tx' = "pop")
  BY DEF Enqueue, SignalTx
<1>4. accepted' = accepted \/ accepted' = accepted + 1
  BY DEF Enqueue
<1>5. accepted' \in 0 .. MaxSend /\ base' \in 0 .. accepted'
  BY <1>4, BoundAssumption DEF TxTypes
<1> QED BY <1>2, <1>3, <1>5 DEF TxTypes

(* A signal moves a waiting TX thread and nothing else. *)
LEMMA SignalTypes ==
  ASSUME TxTypes, SignalTx, UNCHANGED <<tx_buf, tx_queue, base, accepted, fate>>
  PROVE  TxTypes'
<1>1. tx' = tx \/ (tx = "wait" /\ tx' = "pop") BY DEF SignalTx
<1> QED BY <1>1 DEF TxTypes, Dead

(* Every step of the link keeps the types. *)
LEMMA StepTypes == Types /\ Alive /\ [Next]_vars => Types'
<1> USE BoundAssumption, QueueAssumption DEF lifeVars, txVars, rxVars
<1> SUFFICES ASSUME Types, Alive, [Next]_vars PROVE Types'
  OBVIOUS
<1>0. LifeTypes /\ TxTypes /\ RxTypes /\ FlagTypes /\ RecvTypes BY DEF Types
<1>f. FlagTypes'
  <2>1. UNCHANGED rx_callback \/ rx_callback' = TRUE
    BY DEF Next, Lifecycle, StartInit, StartOpen, StartTx, StartRx, UndoSignal, UndoJoin, StopFlag,
       StopSignal, StopJoinTx, StopJoinRx, StopClose, TxThread, TxLoop, TxPop, TxCheck, TxWrite,
       TxSpuriousWakeup, RxThread, RxLoop, RxRead, RxReadNothing, RxPush, RxCall, uart_send,
       uart_set_rx_callback, Receives, ReceiveTest, ReceivePop, ReceiveSpuriousWakeup, vars
  <2> QED BY <1>0, <2>1 DEF FlagTypes
<1>l. ASSUME UNCHANGED lifeVars PROVE LifeTypes' BY <1>0, <1>l DEF LifeTypes
<1>t. ASSUME UNCHANGED txVars PROVE TxTypes' BY <1>0, <1>t DEF TxTypes
<1>r. ASSUME UNCHANGED rxVars PROVE RxTypes' BY <1>0, <1>r DEF RxTypes
<1>c. ASSUME UNCHANGED receivers PROVE RecvTypes' BY <1>0, <1>c DEF RecvTypes, receivers
<1>s. ASSUME SignalRx, UNCHANGED overtaken PROVE RecvTypes' BY <1>0, <1>s DEF RecvTypes, SignalRx
<1>1. CASE Lifecycle
  <2>1. CASE StartInit
    <3>1. LifeTypes' BY <1>0, <2>1 DEF LifeTypes, StartInit
    <3>2. TxTypes' BY <1>0, <2>1 DEF TxTypes, StartInit, Fates, Dead
    <3>3. RxTypes' BY <1>0, <2>1 DEF RxTypes, StartInit, Dead
    <3>4. RecvTypes' BY <1>0, <2>1 DEF RecvTypes, StartInit
    <3> QED BY <1>f, <3>1, <3>2, <3>3, <3>4 DEF Types
  <2>2. CASE StartOpen \/ UndoJoin \/ StopFlag \/ StopJoinTx \/ StopJoinRx \/ StopClose
    <3>1. LifeTypes'
      BY <1>0, <2>2 DEF LifeTypes, StartOpen, UndoJoin, StopFlag, StopJoinTx, StopJoinRx, StopClose, Close
    <3>2. UNCHANGED <<txVars, rxVars, receivers>>
      BY <2>2 DEF StartOpen, UndoJoin, StopFlag, StopJoinTx, StopJoinRx, StopClose
    <3> QED BY <1>f, <1>t, <1>r, <1>c, <3>1, <3>2 DEF Types
  <2>3. CASE StartTx
    <3>1. LifeTypes' BY <1>0, <2>3 DEF LifeTypes, StartTx, Close
    <3>2. TxTypes' BY <1>0, <2>3 DEF TxTypes, StartTx, Alive, Dead
    <3> QED BY <1>f, <1>r, <1>c, <2>3, <3>1, <3>2 DEF Types, StartTx
  <2>4. CASE StartRx
    <3>1. LifeTypes' BY <1>0, <2>4 DEF LifeTypes, StartRx
    <3>2. RxTypes' BY <1>0, <2>4 DEF RxTypes, StartRx, Dead
    <3> QED BY <1>f, <1>t, <1>c, <2>4, <3>1, <3>2 DEF Types, StartRx
  <2>5. CASE UndoSignal \/ StopSignal
    <3>1. LifeTypes' BY <1>0, <2>5 DEF LifeTypes, UndoSignal, StopSignal
    <3>2. TxTypes' BY <1>0, <2>5, SignalTypes DEF UndoSignal, StopSignal
    <3>3. UNCHANGED rxVars /\ (UNCHANGED receivers \/ (SignalRx /\ UNCHANGED overtaken))
      BY <2>5 DEF UndoSignal, StopSignal
    <3> QED BY <1>f, <1>r, <1>c, <1>s, <3>1, <3>2, <3>3 DEF Types
  <2> QED BY <1>1, <2>1, <2>2, <2>3, <2>4, <2>5 DEF Lifecycle
<1>2. CASE TxThread \/ TxSpuriousWakeup
  <2>0. UNCHANGED <<lifeVars, rxVars, receivers>>
    BY <1>2 DEF TxThread, TxLoop, TxPop, TxCheck, TxWrite, TxSpuriousWakeup
  <2>1. CASE TxLoop \/ TxSpuriousWakeup
    <3>1. TxTypes' BY <1>0, <2>1 DEF TxTypes, TxLoop, TxSpuriousWakeup, Dead
    <3> QED BY <1>f, <1>l, <1>r, <1>c, <2>0, <3>1 DEF Types
  <2>2. CASE TxPop
    <3>1. tx_queue \in Seq(1 .. MaxSend) BY <1>0 DEF TxTypes
    <3>2. tx_queue # <<>> => /\ Head(tx_queue) \in 1 .. MaxSend /\ Tail(tx_queue) \in Seq(1 .. MaxSend)
                             /\ Len(Tail(tx_queue)) = Len(tx_queue) - 1
      BY <3>1, PopOf
    <3>3. /\ tx_queue' \in Seq(1 .. MaxSend) /\ Len(tx_queue') <= QueueSize /\ tx_buf' \in 0 .. MaxSend
          /\ tx' \in {"wait", "check"} /\ (tx' = "check" <=> tx_buf' # 0)
      <4>1. CASE tx_queue = <<>>
        BY <1>0, <2>2, <4>1 DEF TxTypes, TxPop
      <4>2. CASE tx_queue # <<>>
        <5>1. tx' = "check" /\ tx_buf' = Head(tx_queue) /\ tx_queue' = Tail(tx_queue)
          BY <2>2, <4>2 DEF TxPop
        <5>2. Len(tx_queue) \in Nat /\ Len(tx_queue) <= QueueSize BY <1>0 DEF TxTypes
        <5> QED BY <3>2, <4>2, <5>1, <5>2
      <4> QED BY <4>1, <4>2
    <3>4. UNCHANGED <<base, accepted, fate>> BY <2>2 DEF TxPop
    <3>5. TxTypes' BY <1>0, <3>3, <3>4 DEF TxTypes
    <3> QED BY <1>f, <1>l, <1>r, <1>c, <2>0, <3>5 DEF Types
  <2>3. CASE TxCheck \/ TxWrite
    <3>1. tx_buf \in 1 .. MaxSend
      BY <1>0, <2>3 DEF TxCheck, TxWrite, TxTypes
    <3>2. ASSUME NEW how \in {"sent", "part", "failed", "dropped"}, Settle(how) PROVE fate' \in Fates
      <4>1. [msg |-> tx_buf, how |-> how] \in [msg : 1 .. MaxSend, how : {"sent", "part", "failed", "dropped"}]
        BY <3>1
      <4> HIDE DEF lifeVars, txVars, rxVars
      <4> QED BY <1>0, <3>2, <4>1, AppendProperties DEF TxTypes, Fates, Settle
    <3>3. fate' \in Fates
      <4>1. \/ \E how \in {"sent", "part", "failed", "dropped"} : Settle(how)
            \/ fate' = fate
        BY <2>3 DEF TxCheck, TxWrite
      <4> QED BY <1>0, <3>2, <4>1 DEF TxTypes
    <3>4. TxTypes'
      BY <1>0, <2>3, <3>3 DEF TxTypes, TxCheck, TxWrite, Settle, Dead
    <3> QED BY <1>f, <1>l, <1>r, <1>c, <2>0, <3>4 DEF Types
  <2> QED BY <1>2, <2>1, <2>2, <2>3 DEF TxThread
<1>3. CASE uart_send
  <2>1. /\ Enqueue /\ accepted < MaxSend
        /\ UNCHANGED <<lifeVars, rxVars, receivers, tx_buf, base, fate>> BY <1>3 DEF uart_send
  <2>2. TxTypes' BY <1>0, <2>1, SendTypes
  <2> QED BY <1>f, <1>l, <1>r, <1>c, <2>1, <2>2 DEF Types
<1>4. CASE RxThread
  <2>0. UNCHANGED lifeVars
    BY <1>4 DEF RxThread, RxLoop, RxRead, RxReadNothing, RxPush, RxCall
  <2>1. CASE RxLoop \/ RxRead \/ RxReadNothing
    <3>1. RxTypes' BY <1>0, <2>1 DEF RxTypes, RxLoop, RxRead, RxReadNothing, Dead
    <3>2. UNCHANGED <<txVars, receivers>> BY <2>1 DEF RxLoop, RxRead, RxReadNothing
    <3> QED BY <1>f, <1>l, <1>t, <1>c, <2>0, <3>1, <3>2 DEF Types
  <2>2. CASE RxPush
    <3>1. rx_queue \in Seq(1 .. MaxRead) /\ Len(rx_queue) <= QueueSize /\ rx_buf \in 1 .. MaxRead
      BY <1>0, <2>2 DEF RxPush, RxTypes
    <3>2. rx_queue' \in Seq(1 .. MaxRead) /\ Len(rx_queue') <= QueueSize
      BY <2>2, <3>1, StoredFits DEF RxPush
    <3>3. RxTypes'
      BY <1>0, <2>2, <3>2 DEF RxPush, RxTypes, AfterPush
    <3>4. UNCHANGED txVars /\ (UNCHANGED receivers \/ (SignalRx /\ UNCHANGED overtaken))
      BY <2>2 DEF RxPush, receivers
    <3> QED BY <1>f, <1>l, <1>t, <1>c, <1>s, <2>0, <3>3, <3>4 DEF Types
  <2>3. CASE RxCall
    <3>1. handled \in Seq(1 .. MaxRead) /\ rx_buf \in 1 .. MaxRead
      BY <1>0, <2>3 DEF RxCall, RxTypes
    <3>2. handled' \in Seq(1 .. MaxRead)
      <4>1. handled' = handled \/ handled' = Append(handled, rx_buf) BY <2>3 DEF RxCall
      <4>2. Append(handled, rx_buf) \in Seq(1 .. MaxRead) BY <3>1, AppendProperties
      <4> QED BY <3>1, <4>1, <4>2
    <3>3. UNCHANGED <<receivers, rx_buf, rx_queue, rx_callback, nread, tx_buf, base, fate>> /\ rx' = "loop"
      BY <2>3 DEF RxCall
    <3>4. RxTypes' BY <1>0, <3>2, <3>3 DEF RxTypes
    <3>5. TxTypes'
      <4>1. CASE UNCHANGED <<tx, tx_queue, accepted>>
        BY <1>t, <3>3, <4>1
      <4>2. CASE Enqueue /\ accepted < MaxSend
        BY <1>0, <3>3, <4>2, SendTypes
      <4> QED BY <2>3, <4>1, <4>2 DEF RxCall
    <3> QED BY <1>f, <1>l, <1>c, <2>0, <3>3, <3>4, <3>5 DEF Types
  <2> QED BY <1>4, <2>1, <2>2, <2>3 DEF RxThread
<1>5. CASE uart_set_rx_callback
  <2>1. RxTypes' BY <1>0, <1>5 DEF RxTypes, uart_set_rx_callback
  <2> QED BY <1>f, <1>l, <1>t, <1>c, <1>5, <2>1 DEF Types, uart_set_rx_callback
<1>6. CASE UNCHANGED vars
  BY <1>f, <1>l, <1>t, <1>r, <1>c, <1>6 DEF Types, vars
<1>7. CASE \E r \in Receiver : Receives(r)
  <2> PICK r \in Receiver : Receives(r)
    BY <1>7
  <2>1. CASE ReceiveTest(r)
    <3>1. RecvTypes' BY <1>0, <2>1 DEF RecvTypes, ReceiveTest, AfterTest
    <3> QED BY <1>f, <1>l, <1>t, <1>r, <2>1, <3>1 DEF Types, ReceiveTest
  <2>2. CASE ReceivePop(r)
    <3>1. rx_queue \in Seq(1 .. MaxRead) BY <1>0 DEF RxTypes
    <3>2. rx_queue # <<>> => Tail(rx_queue) \in Seq(1 .. MaxRead) /\ Len(Tail(rx_queue)) = Len(rx_queue) - 1
      BY <3>1, PopOf
    <3>3. rx_queue' \in Seq(1 .. MaxRead) /\ Len(rx_queue') <= QueueSize
      <4>1. rx_queue' = rx_queue \/ (rx_queue # <<>> /\ rx_queue' = Tail(rx_queue))
        BY <2>2 DEF ReceivePop
      <4>2. Len(rx_queue) \in Nat /\ Len(rx_queue) <= QueueSize BY <1>0 DEF RxTypes
      <4>3. CASE rx_queue' = rx_queue
        BY <3>1, <4>2, <4>3
      <4>4. CASE rx_queue # <<>> /\ rx_queue' = Tail(rx_queue)
        <5>1. Len(rx_queue') = Len(rx_queue) - 1 /\ rx_queue' \in Seq(1 .. MaxRead)
          BY <3>2, <4>4
        <5>2. Len(rx_queue') <= QueueSize
          BY <4>2, <5>1, QueueAssumption
        <5> QED BY <5>1, <5>2
      <4> QED BY <4>1, <4>3, <4>4
    <3>5. RxTypes' BY <1>0, <2>2, <3>3 DEF RxTypes, ReceivePop
    <3>4. RecvTypes' BY <1>0, <2>2 DEF RecvTypes, ReceivePop
    <3> QED BY <1>f, <1>l, <1>t, <2>2, <3>4, <3>5 DEF Types, ReceivePop
  <2>3. CASE ReceiveSpuriousWakeup(r)
    <3>1. RecvTypes' BY <1>0, <2>3 DEF RecvTypes, ReceiveSpuriousWakeup
    <3> QED BY <1>f, <1>l, <1>t, <1>r, <2>3, <3>1 DEF Types, ReceiveSpuriousWakeup
  <2> QED BY <2>1, <2>2, <2>3 DEF Receives
<1> QED BY <1>1, <1>2, <1>3, <1>4, <1>5, <1>6, <1>7 DEF Next, Receives

-----------------------------------------------------------------------------
(* The numbers of a session's messages: those settled, the one held by the TX  *)
(* thread and those queued follow each other without a gap.                    *)
Held     == IF tx_buf = 0 THEN 0 ELSE 1
Numbered == /\ \A i \in 1 .. Len(fate) : fate[i].msg = base + i
            /\ tx_buf # 0 => tx_buf = base + Len(fate) + 1
            /\ \A j \in 1 .. Len(tx_queue) : tx_queue[j] = base + Len(fate) + Held + j
            /\ Len(fate) + Held + Len(tx_queue) = accepted - base
(* A message is thrown away by the last step of its session's TX thread. *)
Dropped  == /\ \A i \in 1 .. Len(fate) : fate[i].how = "dropped" => i = Len(fate) /\ tx = "done"
            /\ main \in {"open", "create_tx"} => fate = <<>>

(* Nothing is accepted at first. *)
LEMMA InitNumbered == Init => Numbered /\ Dropped
BY DEF Init, Numbered, Dropped, Held

(* queue_push, entry by entry. *)
LEMMA StoredIs ==
  ASSUME NEW S, NEW q \in Seq(S), NEW m \in S
  PROVE  /\ Stored(q, m) \in Seq(S)
         /\ HasRoom(q) => /\ Len(Stored(q, m)) = Len(q) + 1
                          /\ Stored(q, m)[Len(q) + 1] = m
                          /\ \A j \in 1 .. Len(q) : Stored(q, m)[j] = q[j]
         /\ ~HasRoom(q) => Stored(q, m) = q
<1>1. CASE HasRoom(q)
  BY <1>1, AppendProperties DEF Stored
<1>2. CASE ~HasRoom(q)
  BY <1>2 DEF Stored
<1> QED BY <1>1, <1>2

(* uart_send gives the next message the next number. *)
LEMMA SendNumbered ==
  ASSUME Types, Numbered, Enqueue, accepted < MaxSend, UNCHANGED <<tx_buf, base, fate>>
  PROVE  Numbered'
<1>1. /\ accepted + 1 \in 1 .. MaxSend /\ tx_queue \in Seq(1 .. MaxSend)
      /\ Len(tx_queue) \in Nat /\ Len(fate) \in Nat /\ base \in Nat /\ accepted \in Nat
  BY BoundAssumption DEF Types, TxTypes, Fates
<1>2. Held' = Held /\ Held \in 0 .. 1
  BY DEF Held
<1>3. CASE HasRoom(tx_queue)
  <2>1. /\ Len(tx_queue') = Len(tx_queue) + 1 /\ tx_queue'[Len(tx_queue) + 1] = accepted + 1
        /\ \A j \in 1 .. Len(tx_queue) : tx_queue'[j] = tx_queue[j]
    <3>1. tx_queue' = Stored(tx_queue, accepted + 1)
      BY DEF Enqueue
    <3> DEFINE m == accepted + 1  q == Stored(tx_queue, m)
    <3>2. m \in 1 .. MaxSend /\ tx_queue \in Seq(1 .. MaxSend)
      BY <1>1
    <3> HIDE DEF m
    <3>3. /\ Len(q) = Len(tx_queue) + 1 /\ q[Len(tx_queue) + 1] = m
          /\ \A j \in 1 .. Len(tx_queue) : q[j] = tx_queue[j]
      <4>1. q = Append(tx_queue, m)
        BY <1>3 DEF Stored
      <4> HIDE DEF q
      <4> QED BY <3>2, <4>1
    <3> QED BY <3>1, <3>3 DEF m
  <2>2. accepted' = accepted + 1 BY <1>3 DEF Enqueue
  <2>3. \A j \in 1 .. Len(tx_queue') : tx_queue'[j] = base + Len(fate) + Held + j
    <3> SUFFICES ASSUME NEW j \in 1 .. Len(tx_queue') PROVE tx_queue'[j] = base + Len(fate) + Held + j
      OBVIOUS
    <3>1. CASE j = Len(tx_queue) + 1 BY <1>1, <1>2, <2>1, <3>1 DEF Numbered
    <3>2. CASE j \in 1 .. Len(tx_queue) BY <2>1, <3>2 DEF Numbered
    <3> QED BY <1>1, <2>1, <3>1, <3>2
  <2> QED BY <1>1, <1>2, <2>1, <2>2, <2>3 DEF Numbered
<1>4. CASE ~HasRoom(tx_queue)
  <2>1. tx_queue' = tx_queue /\ accepted' = accepted
    BY <1>1, <1>4, StoredIs DEF Enqueue
  <2> QED BY <1>2, <2>1 DEF Numbered
<1> QED BY <1>3, <1>4

(* The message the TX thread holds is the next one to be settled. *)
LEMMA SettleNumbered ==
  ASSUME Types, Numbered, tx_buf # 0, NEW how, Settle(how), UNCHANGED <<tx_queue, base, accepted>>
  PROVE  /\ Numbered'
         /\ Len(fate') = Len(fate) + 1 /\ fate'[Len(fate) + 1].how = how
         /\ \A i \in 1 .. Len(fate) : fate'[i] = fate[i]
<1>1. fate \in Seq([msg : 1 .. MaxSend, how : {"sent", "part", "failed", "dropped"}])
  BY DEF Types, TxTypes, Fates
<1>2. DEFINE e == [msg |-> tx_buf, how |-> how]
<1>3. e.msg = tx_buf /\ e.how = how
  OBVIOUS
<1> HIDE DEF e
<1>4. fate' = Append(fate, e) /\ tx_buf' = 0
  BY DEF Settle, e
<1>5. /\ Len(fate') = Len(fate) + 1 /\ fate'[Len(fate) + 1] = e
      /\ \A i \in 1 .. Len(fate) : fate'[i] = fate[i]
  BY <1>1, <1>4
<1>6. Held = 1 /\ Held' = 0
  BY <1>4 DEF Held
<1>7. /\ Len(fate) \in Nat /\ base \in Nat /\ accepted \in Nat /\ Len(tx_queue) \in Nat
  BY <1>1 DEF Types, TxTypes
<1>8. \A i \in 1 .. Len(fate') : fate'[i].msg = base + i
  <2> SUFFICES ASSUME NEW i \in 1 .. Len(fate') PROVE fate'[i].msg = base + i
    OBVIOUS
  <2>1. CASE i = Len(fate) + 1 BY <1>3, <1>5, <1>7, <2>1 DEF Numbered
  <2>2. CASE i \in 1 .. Len(fate) BY <1>5, <2>2 DEF Numbered
  <2> QED BY <1>5, <1>7, <2>1, <2>2
<1>9. Len(fate) + 1 + Len(tx_queue) = accepted - base
  BY <1>6 DEF Numbered
<1>10. \A j \in 1 .. Len(tx_queue) : tx_queue[j] = base + Len(fate') + 0 + j
  BY <1>5, <1>6, <1>7 DEF Numbered
<1>11. Len(fate') + 0 + Len(tx_queue) = accepted - base
  BY <1>5, <1>7, <1>9
<1>12. Numbered'
  BY <1>4, <1>6, <1>8, <1>10, <1>11 DEF Numbered
<1> QED BY <1>3, <1>5, <1>12

(* Every step keeps the messages of the session in a row. *)
LEMMA StepNumbered == Types /\ Alive /\ Numbered /\ Dropped /\ [Next]_vars => Numbered' /\ Dropped'
<1> USE DEF lifeVars, txVars, rxVars
<1> SUFFICES ASSUME Types, Alive, Numbered, Dropped, [Next]_vars PROVE Numbered' /\ Dropped'
  OBVIOUS
<1>0. Len(fate) \in Nat /\ tx_queue \in Seq(1 .. MaxSend) /\ base \in Nat /\ accepted \in Nat
  BY DEF Types, TxTypes, Fates
<1>n. ASSUME UNCHANGED <<tx_buf, tx_queue, base, accepted, fate>> PROVE Numbered'
  BY <1>n DEF Numbered, Held
<1>1. CASE Lifecycle
  <2>1. CASE StartInit
    BY <1>0, <2>1 DEF StartInit, Numbered, Held, Dropped
  <2>2. CASE StartTx
    <3>1. UNCHANGED <<tx_buf, tx_queue, base, accepted, fate>> /\ fate = <<>>
      BY <2>2 DEF StartTx, Dropped
    <3> QED BY <1>n, <3>1 DEF Dropped
  <2>3. CASE StartOpen \/ UndoJoin \/ StopFlag \/ StopJoinTx \/ StopJoinRx \/ StopClose \/ StartRx
             \/ UndoSignal \/ StopSignal
    <3>1. /\ UNCHANGED <<tx_buf, tx_queue, base, accepted, fate>>
          /\ main' \in {"open", "create_tx"} => main \in {"open", "create_tx"}
          /\ tx = "done" => tx' = "done"
      BY <2>3 DEF StartOpen, UndoJoin, StopFlag, StopJoinTx, StopJoinRx, StopClose, StartRx, UndoSignal,
         StopSignal, SignalTx
    <3> QED BY <1>n, <3>1 DEF Dropped
  <2> QED BY <1>1, <2>1, <2>2, <2>3 DEF Lifecycle
<1>2. CASE TxThread \/ TxSpuriousWakeup
  <2>0. main' = main /\ base' = base /\ accepted' = accepted /\ tx \notin Dead
    BY <1>2 DEF TxThread, TxLoop, TxPop, TxCheck, TxWrite, TxSpuriousWakeup, Dead
  <2>1. main \notin {"open", "create_tx"}
    BY <2>0 DEF Alive
  <2>2. \A i \in 1 .. Len(fate) : fate[i].how # "dropped"
    BY <2>0 DEF Dropped, Dead
  <2>3. CASE TxLoop \/ TxSpuriousWakeup
    <3>1. UNCHANGED <<tx_buf, tx_queue, fate>> BY <2>3 DEF TxLoop, TxSpuriousWakeup
    <3> QED BY <1>n, <2>0, <2>1, <2>2, <3>1 DEF Dropped
  <2>4. CASE TxPop
    <3>1. fate' = fate BY <2>4 DEF TxPop
    <3>2. Dropped' BY <2>0, <2>1, <2>2, <3>1 DEF Dropped
    <3>3. CASE tx_queue = <<>>
      <4>1. UNCHANGED <<tx_buf, tx_queue>> BY <2>4, <3>3 DEF TxPop
      <4> QED BY <1>n, <2>0, <3>1, <3>2, <4>1
    <3>4. CASE tx_queue # <<>>
      <4>1. tx_buf' = Head(tx_queue) /\ tx_queue' = Tail(tx_queue) /\ tx_buf = 0
        BY <2>4, <3>4 DEF TxPop, Types, TxTypes
      <4>2. /\ tx_buf' = tx_queue[1] /\ tx_buf' \in 1 .. MaxSend
            /\ Len(tx_queue) \in Nat /\ Len(tx_queue) >= 1 /\ Len(tx_queue') = Len(tx_queue) - 1
            /\ \A j \in 1 .. Len(tx_queue) - 1 : tx_queue'[j] = tx_queue[j + 1]
        <5>1. /\ Head(tx_queue) = tx_queue[1] /\ Head(tx_queue) \in 1 .. MaxSend
              /\ Len(tx_queue) >= 1 /\ Len(Tail(tx_queue)) = Len(tx_queue) - 1
              /\ \A j \in 1 .. Len(tx_queue) - 1 : Tail(tx_queue)[j] = tx_queue[j + 1]
          BY <1>0, <3>4, PopOf
        <5>2. Len(tx_queue) \in Nat BY <1>0
        <5> QED BY <4>1, <5>1, <5>2
      <4>3. Held = 0 /\ Held' = 1
        BY <4>1, <4>2 DEF Held
      <4>4. tx_buf' = base + Len(fate) + 1
        BY <1>0, <4>2, <4>3 DEF Numbered
      <4>5. \A j \in 1 .. Len(tx_queue') : tx_queue'[j] = base + Len(fate) + 1 + j
        <5> SUFFICES ASSUME NEW j \in 1 .. Len(tx_queue') PROVE tx_queue'[j] = base + Len(fate) + 1 + j
          OBVIOUS
        <5>1. j \in 1 .. Len(tx_queue) - 1 /\ j + 1 \in 1 .. Len(tx_queue) BY <4>2
        <5>2. tx_queue[j + 1] = base + Len(fate) + Held + (j + 1) BY <5>1 DEF Numbered
        <5> QED BY <1>0, <4>2, <4>3, <5>1, <5>2
      <4>6. Len(fate) + 1 + Len(tx_queue') = accepted - base
        <5>1. Len(fate) + 0 + Len(tx_queue) = accepted - base BY <4>3 DEF Numbered
        <5>2. Len(tx_queue) \in Nat /\ Len(tx_queue') = Len(tx_queue) - 1 BY <4>2
        <5>3. Len(fate) \in Nat /\ base \in Nat /\ accepted \in Nat BY <1>0
        <5> QED BY <5>1, <5>2, <5>3
      <4>7. Numbered'
        BY <2>0, <3>1, <4>3, <4>4, <4>5, <4>6 DEF Numbered
      <4> QED BY <3>2, <4>7
    <3> QED BY <3>3, <3>4
  <2>5. CASE TxCheck \/ TxWrite
    <3>1. tx_buf # 0 /\ tx_queue' = tx_queue
      BY <2>5 DEF TxCheck, TxWrite, Types, TxTypes
    <3>2. CASE UNCHANGED <<tx_buf, fate>>
      BY <1>n, <2>0, <2>1, <2>2, <3>1, <3>2 DEF Dropped
    <3>3. CASE \E how : Settle(how) /\ (how = "dropped" => tx' = "done")
      <4> PICK how : Settle(how) /\ (how = "dropped" => tx' = "done")
        BY <3>3
      <4>1. /\ Numbered'
            /\ Len(fate') = Len(fate) + 1 /\ fate'[Len(fate) + 1].how = how
            /\ \A i \in 1 .. Len(fate) : fate'[i] = fate[i]
        BY <2>0, <3>1, SettleNumbered
      <4>2. Dropped'
        <5>1. ASSUME NEW i \in 1 .. Len(fate'), fate'[i].how = "dropped" PROVE i = Len(fate') /\ tx' = "done"
          <6>1. i \notin 1 .. Len(fate) BY <2>2, <4>1, <5>1
          <6> QED BY <1>0, <4>1, <5>1, <6>1
        <5> QED BY <2>0, <2>1, <5>1 DEF Dropped
      <4> QED BY <4>1, <4>2
    <3> QED BY <2>5, <3>2, <3>3 DEF TxCheck, TxWrite
  <2> QED BY <1>2, <2>3, <2>4, <2>5 DEF TxThread
<1>3. CASE uart_send \/ (RxCall /\ ~UNCHANGED <<tx, tx_queue, accepted>>)
  <2>1. Enqueue /\ accepted < MaxSend /\ UNCHANGED <<main, tx_buf, base, fate>>
    BY <1>3 DEF uart_send, RxCall
  <2>2. Numbered' BY <2>1, SendNumbered
  <2>3. tx = "done" => tx' = "done" BY <2>1 DEF Enqueue, SignalTx
  <2> QED BY <2>1, <2>2, <2>3 DEF Dropped
<1>4. CASE RxThread /\ UNCHANGED <<tx, tx_queue, accepted>>
  <2>1. UNCHANGED <<main, tx_buf, base, fate>>
    BY <1>4 DEF RxThread, RxLoop, RxRead, RxReadNothing, RxPush, RxCall
  <2> QED BY <1>4, <1>n, <2>1 DEF Dropped
<1>5. CASE uart_set_rx_callback \/ UNCHANGED vars \/ \E r \in Receiver : Receives(r)
  <2>1. UNCHANGED <<main, txVars>>
    BY <1>5 DEF uart_set_rx_callback, vars, Receives, ReceiveTest, ReceivePop, ReceiveSpuriousWakeup
  <2> QED BY <1>n, <2>1 DEF Dropped
<1>6. RxThread => RxCall \/ UNCHANGED <<tx, tx_queue, accepted>>
  BY DEF RxThread, RxLoop, RxRead, RxReadNothing, RxPush
<1> QED BY <1>1, <1>2, <1>3, <1>4, <1>5, <1>6 DEF Next, Receives

-----------------------------------------------------------------------------
(* Only a registered callback is given chunks, and it stays registered. *)
Heard == handled # <<>> => rx_callback

(* No callback has been given anything at first. *)
LEMMA InitHeard == Init => Heard /\ CallbackInOrder
BY DEF Init, Heard, CallbackInOrder

(* Every step keeps the chunks of the callback in a row. *)
LEMMA StepHeard == Types /\ Alive /\ Heard /\ CallbackInOrder /\ [Next]_vars => Heard' /\ CallbackInOrder'
<1> USE DEF lifeVars, txVars, rxVars
<1> SUFFICES ASSUME Types, Alive, Heard, CallbackInOrder, [Next]_vars PROVE Heard' /\ CallbackInOrder'
  OBVIOUS
<1>0. nread \in Nat /\ handled \in Seq(1 .. MaxRead) /\ Len(handled) \in Nat
  BY DEF Types, RxTypes
<1>n. ASSUME handled' = handled, nread' = nread, rx_callback => rx_callback',
             rx' \in {"push", "call"} <=> rx \in {"push", "call"}
      PROVE  Heard' /\ CallbackInOrder'
  <2>1. Heard' BY <1>n, Zenon DEF Heard
  <2>2. CallbackInOrder' BY <1>n DEF CallbackInOrder
  <2> QED BY <2>1, <2>2
<1>1. CASE StartInit
  <2>1. handled' = <<>> BY <1>1 DEF StartInit
  <2> QED BY <2>1 DEF Heard, CallbackInOrder
<1>2. CASE StartRx
  <2>1. UNCHANGED <<handled, nread, rx_callback>> BY <1>2 DEF StartRx
  <2>2. CASE rx' = rx BY <1>n, <2>1, <2>2
  <2>3. CASE rx' = "loop"
    <3>1. rx \notin {"push", "call"} BY <1>2 DEF StartRx, Alive, Dead
    <3> QED BY <1>n, <2>1, <2>3, <3>1
  <2> QED BY <1>2, <2>2, <2>3 DEF StartRx
<1>3. CASE StartOpen \/ StartTx \/ UndoJoin \/ StopFlag \/ StopJoinTx \/ StopJoinRx \/ StopClose
           \/ UndoSignal \/ StopSignal \/ TxThread \/ TxSpuriousWakeup \/ uart_send
           \/ uart_set_rx_callback \/ UNCHANGED vars \/ \E r \in Receiver : Receives(r)
  <2>1. UNCHANGED <<handled, nread, rx>> /\ (rx_callback => rx_callback')
    BY <1>3 DEF StartOpen, StartTx, UndoJoin, StopFlag, StopJoinTx, StopJoinRx, StopClose, UndoSignal,
       StopSignal, TxThread, TxLoop, TxPop, TxCheck, TxWrite, TxSpuriousWakeup, uart_send,
       uart_set_rx_callback, vars, Receives, ReceiveTest, ReceivePop, ReceiveSpuriousWakeup
  <2> QED BY <1>n, <2>1
<1>4. CASE RxThread
  <2>0. UNCHANGED rx_callback
    BY <1>4 DEF RxThread, RxLoop, RxRead, RxReadNothing, RxPush, RxCall
  <2>1. CASE RxLoop \/ RxReadNothing \/ RxPush
    <3>1. /\ UNCHANGED <<handled, nread>>
          /\ rx' \in {"push", "call"} <=> rx \in {"push", "call"}
      BY <2>1 DEF RxLoop, RxReadNothing, RxPush, AfterPush
    <3> QED BY <1>n, <2>0, <3>1
  <2>2. CASE RxRead
    <3>1. handled' = handled /\ nread' = nread + 1 /\ rx = "read" /\ rx' = "push"
      BY <2>2 DEF RxRead
    <3>2. Heard' BY <2>0, <3>1 DEF Heard
    <3>3. CallbackInOrder' BY <1>0, <3>1 DEF CallbackInOrder
    <3> QED BY <3>2, <3>3
  <2>3. CASE RxCall
    <3>1. /\ rx = "call" /\ rx' = "loop" /\ nread' = nread
          /\ \/ ~rx_callback /\ handled' = handled
             \/ rx_callback /\ handled' = Append(handled, rx_buf)
      BY <2>3 DEF RxCall
    <3>2. CASE ~rx_callback /\ handled' = handled
      <4>1. handled' = <<>> BY <3>2 DEF Heard
      <4> QED BY <4>1 DEF Heard, CallbackInOrder
    <3>3. CASE rx_callback /\ handled' = Append(handled, rx_buf)
      <4>1. rx_buf = nread /\ rx_buf \in 1 .. MaxRead
        BY <3>1 DEF Types, RxTypes
      <4>2. /\ Len(handled') = Len(handled) + 1 /\ handled'[Len(handled) + 1] = nread
            /\ \A i \in 1 .. Len(handled) : handled'[i] = handled[i]
        BY <1>0, <3>3, <4>1, AppendProperties
      <4>3. Heard' BY <2>0, <3>3 DEF Heard
      <4>4. handled'[Len(handled')] = nread' BY <3>1, <4>2
      <4>5. ASSUME NEW i \in 1 .. Len(handled') - 1 PROVE handled'[i + 1] = handled'[i] + 1
        <5>1. i \in 1 .. Len(handled) BY <1>0, <4>2
        <5>2. CASE i = Len(handled)
          <6>1. handled # <<>> BY <5>1, <5>2
          <6>2. handled[Len(handled)] = nread - 1 BY <3>1, <6>1 DEF CallbackInOrder
          <6> QED BY <1>0, <4>2, <5>1, <5>2, <6>2
        <5>3. CASE i \in 1 .. Len(handled) - 1
          <6>1. handled # <<>> BY <5>1
          <6>2. handled[i + 1] = handled[i] + 1 BY <5>3, <6>1 DEF CallbackInOrder
          <6>3. i + 1 \in 1 .. Len(handled) BY <1>0, <5>3
          <6> QED BY <4>2, <5>1, <6>2, <6>3
        <5> QED BY <1>0, <5>1, <5>2, <5>3
      <4>6. CallbackInOrder' BY <3>1, <4>4, <4>5 DEF CallbackInOrder
      <4> QED BY <4>3, <4>6
    <3> QED BY <3>1, <3>2, <3>3
  <2> QED BY <1>4, <2>1, <2>2, <2>3 DEF RxThread
<1> QED BY <1>1, <1>2, <1>3, <1>4 DEF Next, Lifecycle, Receives

-----------------------------------------------------------------------------
(* A receiver that is alone finds in rx_queue what it saw there, unless the    *)
(* link was started again meanwhile.                                           *)
Sees(r) == recv[r] = "idle" \/ r \in overtaken \/ (recv[r] = "pop" /\ rx_queue # <<>>)
Alone   == \A r : Receiver = {r} => Sees(r)

(* Nobody receives at first. *)
LEMMA InitAlone == Init => Alone
BY DEF Init, Alone, Sees

(* Nobody but a start of the link takes what the only receiver has seen. *)
LEMMA StepAlone == Types /\ Alone /\ [Next]_vars => Alone'
<1> USE DEF lifeVars, txVars, rxVars, receivers
<1> SUFFICES ASSUME Types, Alone, [Next]_vars, NEW r, Receiver = {r} PROVE Sees(r)'
  BY DEF Alone
<1>0. Sees(r)
  BY DEF Alone
<1>1. /\ rx_queue \in Seq(1 .. MaxRead) /\ rx_buf \in Nat
      /\ recv \in [{r} -> {"idle", "pop", "wait"}] /\ overtaken \subseteq {r}
  BY BoundAssumption DEF Types, RxTypes, RecvTypes
<1>s. ASSUME SignalRx
      PROVE  recv'[r] = recv[r] \/ (recv[r] = "wait" /\ recv'[r] = "pop")
  BY <1>1, <1>s DEF SignalRx
<1>2. CASE StartInit
  BY <1>2 DEF StartInit, Sees
<1>3. CASE RxPush
  <2>1. overtaken' = overtaken /\ (recv'[r] = recv[r] \/ (recv[r] = "wait" /\ recv'[r] = "pop"))
    BY <1>3, <1>s DEF RxPush
  <2>2. rx_queue' = rx_queue \/ rx_queue' = Append(rx_queue, rx_buf)
    BY <1>3 DEF RxPush, Stored
  <2>3. Append(rx_queue, rx_buf) # <<>>
    <3>1. rx_buf \in 0 .. MaxRead /\ rx_queue \in Seq(0 .. MaxRead)
      BY BoundAssumption, <1>1 DEF Types, RxTypes
    <3> QED BY <3>1
  <2> QED BY <1>0, <2>1, <2>2, <2>3 DEF Sees
<1>4. CASE StopSignal
  <2>1. rx_queue' = rx_queue /\ overtaken' = overtaken
    BY <1>4 DEF StopSignal
  <2>2. recv'[r] = recv[r] \/ (recv[r] = "wait" /\ recv'[r] = "pop")
    BY <1>4, <1>s DEF StopSignal
  <2> QED BY <1>0, <2>1, <2>2 DEF Sees
<1>5. CASE Receives(r)
  <2>1. CASE ReceiveTest(r)
    BY <1>1, <2>1 DEF ReceiveTest, AfterTest, Sees
  <2>2. CASE ReceivePop(r)
    BY <1>0, <1>1, <2>2 DEF ReceivePop, Sees
  <2>3. CASE ReceiveSpuriousWakeup(r)
    BY <1>0, <1>1, <2>3 DEF ReceiveSpuriousWakeup, Sees
  <2> QED BY <1>5, <2>1, <2>2, <2>3 DEF Receives
<1>6. CASE UNCHANGED <<receivers, rx_queue>>
  BY <1>0, <1>6 DEF Sees
<1>7. \/ StartInit \/ RxPush \/ StopSignal \/ UNCHANGED <<receivers, rx_queue>>
      \/ \E q \in Receiver : Receives(q)
  BY DEF Next, Lifecycle, StartOpen, StartTx, StartRx, UndoJoin, StopFlag, StopJoinTx, StopJoinRx,
     StopClose, UndoSignal, TxThread, TxLoop, TxPop, TxCheck, TxWrite, TxSpuriousWakeup, RxThread,
     RxLoop, RxRead, RxReadNothing, RxCall, uart_send, uart_set_rx_callback, Receives, vars
<1> QED BY <1>2, <1>3, <1>4, <1>5, <1>6, <1>7

-----------------------------------------------------------------------------
(* Everything the proofs need to know of a reachable state. *)
IInv == Types /\ Alive /\ Numbered /\ Dropped /\ Heard /\ CallbackInOrder /\ Alone

(* The invariant of the link is inductive. *)
LEMMA Inductive == Spec => []IInv
<1>1. Init => IInv
  BY InitTypes, InitAlive, InitNumbered, InitHeard, InitAlone DEF IInv
<1>2. IInv /\ [Next]_vars => IInv'
  BY StepTypes, StepAlive, StepNumbered, StepHeard, StepAlone, TypesAreTypeOK DEF IInv
<1> QED BY <1>1, <1>2, PTL DEF Spec

(* The variables of the link keep their types: no queue exceeds its size. *)
THEOREM LinkTypes == Spec => []TypeOK
<1>1. IInv => TypeOK BY TypesAreTypeOK DEF IInv
<1> QED BY <1>1, Inductive, PTL

(* uart_thread_stop and the failure paths of uart_thread_start join the        *)
(* threads before they close the device and destroy the queues.                *)
THEOREM NothingUsedAfterClose == Spec => []NoUseAfterClose
<1>1. IInv => NoUseAfterClose
  BY DEF IInv, Alive, NoUseAfterClose, Dead
<1> QED BY <1>1, Inductive, PTL

(* Two runs of numbers, the second where the first ends, are one run. *)
LEMMA Consecutive ==
  ASSUME NEW k \in Nat, NEW p \in Seq(Nat), NEW q \in Seq(Nat),
         \A i \in 1 .. Len(p) : p[i] = k + i,
         \A j \in 1 .. Len(q) : q[j] = k + Len(p) + j
  PROVE  /\ p \o q \in Seq(Nat) /\ Len(p \o q) = Len(p) + Len(q)
         /\ \A i \in 1 .. Len(p \o q) : (p \o q)[i] = k + i
<1>1. p \o q \in Seq(Nat) /\ Len(p \o q) = Len(p) + Len(q) /\ Len(p) \in Nat /\ Len(q) \in Nat
  OBVIOUS
<1>2. ASSUME NEW i \in 1 .. Len(p \o q) PROVE (p \o q)[i] = k + i
  <2>1. CASE i <= Len(p)
    BY <1>1, <2>1
  <2>2. CASE ~(i <= Len(p))
    <3>1. (p \o q)[i] = q[i - Len(p)] BY <1>1, <2>2
    <3>2. i - Len(p) \in 1 .. Len(q) BY <1>1, <2>2
    <3> QED BY <1>1, <3>1, <3>2
  <2> QED BY <2>1, <2>2
<1> QED BY <1>1, <1>2

(* What uart_tx_thread_func takes off the queue is what uart_send accepted, in *)
(* its order, whoever sends and however often the link is stopped and started. *)
THEOREM NothingLostOnTheWay == Spec => []TxAccounting
<1>1. ASSUME IInv PROVE TxAccounting
  <2>1. Types /\ Numbered /\ Dropped BY <1>1 DEF IInv
  <2>2. /\ Len(fate) \in Nat /\ fate \in Seq([msg : 1 .. MaxSend, how : {"sent", "part", "failed", "dropped"}])
        /\ DOMAIN fate = 1 .. Len(fate)
        /\ tx_queue \in Seq(Nat) /\ Len(tx_queue) \in Nat /\ tx_buf \in Nat
        /\ base \in Nat /\ accepted \in Nat
    <3>1. fate \in Fates /\ tx_queue \in Seq(1 .. MaxSend) /\ tx_buf \in Nat /\ base \in Nat /\ accepted \in Nat
      BY <2>1, BoundAssumption DEF Types, TxTypes
    <3>2. tx_queue \in Seq(Nat) BY <3>1, BoundAssumption
    <3>3. DOMAIN fate = 1 .. Len(fate) /\ Len(fate) \in Nat BY <3>1 DEF Fates
    <3> QED BY <3>1, <3>2, <3>3 DEF Fates
  <2> DEFINE Msgs == [i \in DOMAIN fate |-> fate[i].msg]
             Own  == IF tx_buf = 0 THEN <<>> ELSE <<tx_buf>>
             All  == [i \in 1 .. accepted - base |-> base + i]
  <2>3. Msgs \in Seq(Nat) /\ Len(Msgs) = Len(fate) /\ \A i \in 1 .. Len(fate) : Msgs[i] = base + i
    BY <2>1, <2>2 DEF Numbered
  <2>4. Own \in Seq(Nat) /\ Len(Own) = Held /\ \A i \in 1 .. Held : Own[i] = base + Len(fate) + i
    BY <2>1, <2>2 DEF Numbered, Held
  <2>5. Popped = Msgs \o Own
    BY DEF Popped
  <2>6. Held \in 0 .. 1 BY DEF Held
  <2>7. accepted - base = Len(fate) + Held + Len(tx_queue) /\ accepted - base \in Nat
    BY <2>1, <2>2, <2>6 DEF Numbered
  <2>8. All \in Seq(Nat) /\ Len(All) = accepted - base /\ \A i \in 1 .. accepted - base : All[i] = base + i
    BY <2>2, <2>7
  <2>9. \A j \in 1 .. Len(tx_queue) : tx_queue[j] = base + Len(fate) + Held + j
    BY <2>1 DEF Numbered
  <2> HIDE DEF Msgs, Own, All
  <2>10. Popped \o tx_queue = All
    <3>1. \A i \in 1 .. Len(Own) : Own[i] = base + Len(Msgs) + i
      BY <2>3, <2>4
    <3>2. /\ Popped \in Seq(Nat) /\ Len(Popped) = Len(Msgs) + Len(Own)
          /\ \A i \in 1 .. Len(Popped) : Popped[i] = base + i
      <4>1. \A i \in 1 .. Len(Msgs) : Msgs[i] = base + i BY <2>3
      <4>2. /\ Msgs \o Own \in Seq(Nat) /\ Len(Msgs \o Own) = Len(Msgs) + Len(Own)
            /\ \A i \in 1 .. Len(Msgs \o Own) : (Msgs \o Own)[i] = base + i
        <5>1. Msgs \in Seq(Nat) /\ Own \in Seq(Nat) /\ base \in Nat BY <2>2, <2>3, <2>4
        <5> QED BY <3>1, <4>1, <5>1, Consecutive
      <4> QED BY <2>5, <4>2
    <3>3. Len(Popped) = Len(fate) + Held
      BY <2>3, <2>4, <3>2
    <3>4. \A j \in 1 .. Len(tx_queue) : tx_queue[j] = base + Len(Popped) + j
      BY <2>2, <2>6, <2>9, <3>3
    <3>5. /\ Popped \o tx_queue \in Seq(Nat) /\ Len(Popped \o tx_queue) = Len(Popped) + Len(tx_queue)
          /\ \A i \in 1 .. Len(Popped \o tx_queue) : (Popped \o tx_queue)[i] = base + i
      BY <2>2, <3>2, <3>4, Consecutive
    <3>6. Len(Popped \o tx_queue) = accepted - base
      BY <2>7, <3>3, <3>5
    <3> QED BY <2>8, <3>5, <3>6, SeqEqual
  <2> QED BY <2>1, <2>2, <2>10 DEF TxAccounting, All, Dropped
<1> QED BY <1>1, Inductive, PTL

(* The chunks the callback is given in a session are consecutive, and end with *)
(* the last one that the RX thread has read and is done with.                  *)
THEOREM NothingKeptFromTheCallback == Spec => []CallbackInOrder
<1>1. IInv => CallbackInOrder BY DEF IInv
<1> QED BY <1>1, Inductive, PTL

(* uart_receive blocks only if two of its callers race, or if the link was     *)
(* started again during the call, which empties rx_queue under it.             *)
THEOREM ReceiveBlocksOnlyInARace == Spec => []ReceiveDoesNotBlock
<1>1. ASSUME IInv PROVE ReceiveDoesNotBlock
  <2> SUFFICES ASSUME Cardinality(Receiver) = 1, NEW r \in Receiver, recv[r] = "wait"
               PROVE  r \in overtaken
    BY DEF ReceiveDoesNotBlock
  <2>1. Receiver = {r} BY ReceiverAssumption, FS_Singleton
  <2> QED BY <1>1, <2>1 DEF IInv, Alone, Sees
<1> QED BY <1>1, Inductive, PTL
=============================================================================

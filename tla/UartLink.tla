------------------------------ MODULE UartLink -------------------------------
(* user_space/uart/uart_thread.c over uart.c: the serial link to the Pico.     *)
(* uart_thread_start opens the device and creates a TX thread that drains      *)
(* tx_queue into it and an RX thread that reads it into rx_queue and into the  *)
(* registered callback; uart_thread_stop ends both.  uart_send and             *)
(* uart_receive are called by any thread of the car.  The two queues are the   *)
(* first-in first-out queues of BoundedFifo, which UartQueue implements: an    *)
(* operation on one is one step, except that a pop of an empty queue waits.    *)
EXTENDS Integers, Sequences, FiniteSets

CONSTANTS Receiver,      \* threads that call uart_receive
          QueueSize,     \* UART_QUEUE_SIZE
          MaxSend,       \* bound: messages accepted by uart_send
          MaxRead,       \* bound: chunks that arrive from the Pico
          MaxStart       \* bound: calls of uart_thread_start

ASSUME ReceiverAssumption == IsFiniteSet(Receiver)
ASSUME QueueAssumption    == QueueSize \in Nat \ {0}
ASSUME BoundAssumption    == MaxSend \in Nat /\ MaxRead \in Nat /\ MaxStart \in Nat

VARIABLES main,          \* where the thread that starts and stops the link is
          stop_flag,     \* 1: the threads are to end
          fd,            \* uart_fd: "closed" is -1; "stale" is a descriptor kept by a failed close
          queues,        \* whether the mutexes and conditions are initialised
          tx, tx_buf,    \* the TX thread and the message it has popped
          rx, rx_buf,    \* the RX thread and the chunk it has read
          tx_queue, rx_queue,
          rx_callback,   \* whether a callback is registered
          recv,          \* recv[r]: where r is in a call of uart_receive
          overtaken,     \* the receivers whose call began before the last queue_init
          starts,        \* history: calls of uart_thread_start
          base,          \* history: messages accepted before this session
          accepted,      \* history: messages accepted; message n is the n-th
          fate,          \* history: what became of the messages popped in this session
          nread,         \* history: chunks read; chunk n is the n-th
          handled        \* history: the chunks given to the callback in this session

lifeVars == <<main, stop_flag, fd, queues, starts>>
txVars   == <<tx, tx_buf, tx_queue, base, accepted, fate>>
rxVars   == <<rx, rx_buf, rx_queue, rx_callback, nread, handled>>
receivers == <<recv, overtaken>>
vars     == <<lifeVars, txVars, rxVars, receivers>>

Dead == {"none", "done"}    \* a thread that was not created or has returned

TypeOK == /\ main \in {"idle", "open", "create_tx", "create_rx", "undo_signal", "undo_join",
                       "up", "stop_signal", "join_tx", "join_rx", "close"}
          /\ stop_flag \in 0 .. 1
          /\ fd \in {"closed", "open", "stale"}
          /\ queues \in {"unset", "live", "destroyed"}
          /\ tx \in Dead \cup {"loop", "pop", "wait", "check", "write"}
          /\ rx \in Dead \cup {"loop", "read", "push", "call"}
          /\ tx_buf \in 0 .. MaxSend /\ rx_buf \in 0 .. MaxRead
          /\ tx_queue \in Seq(1 .. MaxSend) /\ Len(tx_queue) <= QueueSize
          /\ rx_queue \in Seq(1 .. MaxRead) /\ Len(rx_queue) <= QueueSize
          /\ rx_callback \in BOOLEAN
          /\ recv \in [Receiver -> {"idle", "pop", "wait"}] /\ overtaken \subseteq Receiver
          /\ starts \in 0 .. MaxStart
          /\ base \in 0 .. accepted /\ accepted \in 0 .. MaxSend /\ nread \in 0 .. MaxRead
          /\ fate \in Seq([msg : 1 .. MaxSend, how : {"sent", "part", "failed", "dropped"}])
          /\ handled \in Seq(1 .. MaxRead)

Init == /\ main = "idle" /\ stop_flag = 0 /\ fd = "closed" /\ queues = "unset"
        /\ tx = "none" /\ rx = "none" /\ tx_buf = 0 /\ rx_buf = 0
        /\ tx_queue = <<>> /\ rx_queue = <<>> /\ rx_callback = FALSE
        /\ recv = [r \in Receiver |-> "idle"] /\ overtaken = {}
        /\ starts = 0 /\ base = 0 /\ accepted = 0 /\ nread = 0
        /\ fate = <<>> /\ handled = <<>>

-----------------------------------------------------------------------------
(* queue_push; and pthread_join, which waits.  An operator named ...Mut... is  *)
(* a variant, with a bug in it, of the definition that follows.                *)
HasRoomMutOffByOne(queue) == Len(queue) <= QueueSize
HasRoom(queue) == Len(queue) < QueueSize

StoredMutOverwrites(queue, m) == IF HasRoom(queue) THEN Append(queue, m)
                                 ELSE Append(Tail(queue), m)
Stored(queue, m) == IF HasRoom(queue) THEN Append(queue, m) ELSE queue

JoinedMutNoWait(thread) == TRUE
Joined(thread) == thread \in Dead

-----------------------------------------------------------------------------
(* uart_thread_start *)

(* queue_init of both queues, which takes no lock: whatever the last session   *)
(* left is forgotten, under a receiver that has found rx_queue not empty too.  *)
StartInit == /\ main = "idle" /\ starts < MaxStart
             /\ main' = "open"
             /\ starts' = starts + 1
             /\ queues' = "live"
             /\ tx_queue' = <<>> /\ rx_queue' = <<>>
             /\ base' = accepted /\ fate' = <<>> /\ handled' = <<>>
             /\ tx' = "none" /\ rx' = "none" /\ tx_buf' = 0
             /\ overtaken' = {r \in Receiver : recv[r] # "idle"}
             /\ UNCHANGED <<stop_flag, fd, accepted, rx_buf, rx_callback, nread, recv>>

(* uart_open returns at once when the last close left a descriptor behind. *)
StartOpen == /\ main = "open"
             /\ \/ /\ fd = "closed"
                   /\ main' = "idle" /\ UNCHANGED <<fd, stop_flag>>
                \/ /\ fd' = IF fd = "closed" THEN "open" ELSE fd
                   /\ main' = "create_tx" /\ stop_flag' = 0
             /\ UNCHANGED <<queues, starts, txVars, rxVars, receivers>>

(* uart_close: on an error the descriptor number is kept. *)
Close == \/ fd' = "closed"
         \/ fd # "closed" /\ fd' = "stale"

StartTx == /\ main = "create_tx"
           /\ \/ main' = "create_rx" /\ tx' = "loop" /\ UNCHANGED fd
              \/ main' = "idle" /\ Close /\ UNCHANGED tx
           /\ UNCHANGED <<stop_flag, queues, starts, rxVars, receivers,
                          tx_buf, tx_queue, base, accepted, fate>>

StartRx == /\ main = "create_rx"
           /\ \/ main' = "up" /\ rx' = "loop" /\ UNCHANGED stop_flag
              \/ main' = "undo_signal" /\ stop_flag' = 1 /\ UNCHANGED rx
           /\ UNCHANGED <<fd, queues, starts, txVars, receivers,
                          rx_buf, rx_queue, rx_callback, nread, handled>>

(* pthread_cond_signal wakes the waiter; it tests count == 0 again. *)
SignalTxMutNone == UNCHANGED tx
SignalTx == tx' = IF tx = "wait" THEN "pop" ELSE tx

UndoSignal == /\ main = "undo_signal"
              /\ main' = "undo_join"
              /\ SignalTx
              /\ UNCHANGED <<stop_flag, fd, queues, starts, rxVars, receivers,
                             tx_buf, tx_queue, base, accepted, fate>>

UndoJoin == /\ main = "undo_join"
            /\ Joined(tx)
            /\ main' = "idle"
            /\ Close
            /\ UNCHANGED <<stop_flag, queues, starts, txVars, rxVars, receivers>>

-----------------------------------------------------------------------------
(* uart_thread_stop *)

StopFlag == /\ main = "up"
            /\ main' = "stop_signal"
            /\ stop_flag' = 1
            /\ UNCHANGED <<fd, queues, starts, txVars, rxVars, receivers>>

(* A receiver blocked in queue_pop of rx_queue is woken by the signal too, but *)
(* perhaps not one that waits on the condition as it was before queue_init.    *)
SignalRx == LET blocked == {r \in Receiver : recv[r] = "wait"} IN
            \/ blocked \subseteq overtaken /\ UNCHANGED recv
            \/ \E r \in blocked : recv' = [recv EXCEPT ![r] = "pop"]

StopSignal == /\ main = "stop_signal"
              /\ main' = "join_tx"
              /\ SignalTx /\ SignalRx
              /\ UNCHANGED <<stop_flag, fd, queues, starts, rxVars, overtaken,
                             tx_buf, tx_queue, base, accepted, fate>>

StopJoinTx == /\ main = "join_tx"
              /\ Joined(tx)
              /\ main' = "join_rx"
              /\ UNCHANGED <<stop_flag, fd, queues, starts, txVars, rxVars, receivers>>

StopJoinRx == /\ main = "join_rx"
              /\ Joined(rx)
              /\ main' = "close"
              /\ UNCHANGED <<stop_flag, fd, queues, starts, txVars, rxVars, receivers>>

(* queue_destroy frees nothing: a receiver in its call goes on with the queue  *)
(* as it is, and one that waits there may at most hold the caller up.          *)
StopClose == /\ main = "close"
             /\ main' = "idle"
             /\ Close
             /\ queues' = "destroyed"
             /\ UNCHANGED <<stop_flag, starts, txVars, rxVars, receivers>>

-----------------------------------------------------------------------------
(* uart_tx_thread_func *)

TxLoop == /\ tx = "loop"
          /\ tx' = IF stop_flag = 1 THEN "done" ELSE "pop"
          /\ UNCHANGED <<lifeVars, rxVars, receivers, tx_buf, tx_queue, base, accepted, fate>>

TxPop == /\ tx = "pop"
         /\ IF tx_queue = <<>>
            THEN tx' = "wait" /\ UNCHANGED <<tx_buf, tx_queue>>
            ELSE tx' = "check" /\ tx_buf' = Head(tx_queue) /\ tx_queue' = Tail(tx_queue)
         /\ UNCHANGED <<lifeVars, rxVars, receivers, base, accepted, fate>>

(* A wait on a condition variable may end without a signal. *)
TxSpuriousWakeup == /\ tx = "wait"
                    /\ tx' = "pop"
                    /\ UNCHANGED <<lifeVars, rxVars, receivers, tx_buf, tx_queue, base, accepted, fate>>

Settle(how) == /\ fate' = Append(fate, [msg |-> tx_buf, how |-> how])
               /\ tx_buf' = 0

(* The message that was popped when the flag is set is thrown away. *)
TxCheck == /\ tx = "check"
           /\ IF stop_flag = 1 THEN tx' = "done" /\ Settle("dropped")
              ELSE tx' = "write" /\ UNCHANGED <<tx_buf, fate>>
           /\ UNCHANGED <<lifeVars, rxVars, receivers, tx_queue, base, accepted>>

(* write may be short or fail; neither is tried again. *)
TxWrite == /\ tx = "write"
           /\ \/ fd = "open" /\ \E how \in {"sent", "part"} : Settle(how)
              \/ Settle("failed")
           /\ tx' = "loop"
           /\ UNCHANGED <<lifeVars, rxVars, receivers, tx_queue, base, accepted>>

-----------------------------------------------------------------------------
(* uart_send, from any thread while the queues are initialised *)

Enqueue == /\ tx_queue' = Stored(tx_queue, accepted + 1)
           /\ IF HasRoom(tx_queue) THEN accepted' = accepted + 1 /\ SignalTx
              ELSE UNCHANGED <<tx, accepted>>

uart_send == /\ queues = "live" /\ accepted < MaxSend
             /\ Enqueue
             /\ UNCHANGED <<lifeVars, rxVars, receivers, tx_buf, base, fate>>

-----------------------------------------------------------------------------
(* uart_rx_thread_func *)

RxLoop == /\ rx = "loop"
          /\ rx' = IF stop_flag = 1 THEN "done" ELSE "read"
          /\ UNCHANGED <<lifeVars, txVars, receivers, rx_buf, rx_queue, rx_callback, nread, handled>>

(* The blocking read returns a non-empty string. *)
RxRead == /\ rx = "read" /\ fd = "open" /\ nread < MaxRead
          /\ rx' = "push"
          /\ nread' = nread + 1
          /\ rx_buf' = nread + 1
          /\ UNCHANGED <<lifeVars, txVars, receivers, rx_queue, rx_callback, handled>>

(* It returns nothing, an error, or a string that is empty and filtered out. *)
RxReadNothing == /\ rx = "read"
                 /\ rx' = "loop"
                 /\ UNCHANGED <<lifeVars, txVars, receivers, rx_buf, rx_queue, rx_callback, nread, handled>>

(* queue_push; its result is ignored, so a chunk that finds the queue full is  *)
(* kept by nobody but the callback.                                            *)
AfterPushMutChecksResult == IF HasRoom(rx_queue) THEN "call" ELSE "loop"
AfterPush == "call"

RxPush == /\ rx = "push"
          /\ rx' = AfterPush
          /\ rx_queue' = Stored(rx_queue, rx_buf)
          /\ IF HasRoom(rx_queue) THEN SignalRx ELSE UNCHANGED recv
          /\ UNCHANGED <<lifeVars, txVars, rx_buf, rx_callback, nread, handled, overtaken>>

(* The callback runs on the RX thread and may answer with uart_send. *)
RxCall == /\ rx = "call"
          /\ rx' = "loop"
          /\ handled' = IF rx_callback THEN Append(handled, rx_buf) ELSE handled
          /\ \/ UNCHANGED <<tx, tx_queue, accepted>>
             \/ rx_callback /\ accepted < MaxSend /\ Enqueue
          /\ UNCHANGED <<lifeVars, receivers, rx_buf, rx_queue, rx_callback, nread,
                         tx_buf, base, fate>>

uart_set_rx_callback == /\ main \in {"idle", "up"} /\ ~rx_callback
                        /\ rx_callback' = TRUE
                        /\ UNCHANGED <<lifeVars, txVars, receivers, rx, rx_buf, rx_queue, nread, handled>>

-----------------------------------------------------------------------------
(* uart_receive, from any thread while the queues are initialised: the test of *)
(* queue_is_empty and the pop are two critical sections, and between the two   *)
(* the link may be stopped and started.                                        *)

AfterTestMutNoTest == "pop"
AfterTest == IF rx_queue = <<>> THEN "idle" ELSE "pop"

ReceiveTest(r) ==
  /\ recv[r] = "idle" /\ queues = "live"
  /\ recv' = [recv EXCEPT ![r] = AfterTest]
  /\ UNCHANGED <<lifeVars, txVars, rxVars, overtaken>>

ReceivePop(r) ==
  /\ recv[r] = "pop"
  /\ IF rx_queue = <<>>
     THEN recv' = [recv EXCEPT ![r] = "wait"] /\ UNCHANGED <<rx_queue, overtaken>>
     ELSE /\ recv' = [recv EXCEPT ![r] = "idle"] /\ overtaken' = overtaken \ {r}
          /\ rx_queue' = Tail(rx_queue)
  /\ UNCHANGED <<lifeVars, txVars, rx, rx_buf, rx_callback, nread, handled>>

(* A wait ends without a signal, at once if the queue is destroyed. *)
ReceiveSpuriousWakeup(r) ==
  /\ recv[r] = "wait"
  /\ recv' = [recv EXCEPT ![r] = "pop"]
  /\ UNCHANGED <<lifeVars, txVars, rxVars, overtaken>>

-----------------------------------------------------------------------------
Lifecycle == \/ StartInit \/ StartOpen \/ StartTx \/ StartRx \/ UndoSignal \/ UndoJoin
             \/ StopFlag \/ StopSignal \/ StopJoinTx \/ StopJoinRx \/ StopClose
TxThread  == TxLoop \/ TxPop \/ TxCheck \/ TxWrite
RxThread  == RxLoop \/ RxRead \/ RxReadNothing \/ RxPush \/ RxCall

Next == \/ Lifecycle \/ TxThread \/ TxSpuriousWakeup \/ RxThread
        \/ uart_send \/ uart_set_rx_callback
        \/ \E r \in Receiver : ReceiveTest(r) \/ ReceivePop(r) \/ ReceiveSpuriousWakeup(r)

Spec == Init /\ [][Next]_vars

(* The TX thread keeps running, and takes its mutex and its device in the end; *)
(* nothing else is assumed.                                                    *)
TxFairSpec == Spec /\ WF_vars(TxThread)

(* Every thread of the link keeps running, every read returns in the end, and  *)
(* whoever began to start or to stop the link goes on.                         *)
FairSpec == Spec /\ WF_vars(TxThread) /\ WF_vars(RxThread)
                 /\ WF_vars(StartOpen \/ StartTx \/ StartRx \/ UndoSignal \/ UndoJoin)
                 /\ WF_vars(StopSignal \/ StopJoinTx \/ StopJoinRx \/ StopClose)

-----------------------------------------------------------------------------
(* What is written is what was accepted: the messages of a session reach the   *)
(* device in the order of uart_send, each once, and the only one the TX thread *)
(* may have popped and thrown away is the last, on its way out.                *)
Popped == [i \in DOMAIN fate |-> fate[i].msg] \o (IF tx_buf = 0 THEN <<>> ELSE <<tx_buf>>)
TxAccounting ==
  /\ queues = "live" => Popped \o tx_queue = [i \in 1 .. accepted - base |-> base + i]
  /\ \A i \in DOMAIN fate : fate[i].how = "dropped" => i = Len(fate) /\ tx = "done"

(* No thread reads or writes a closed descriptor, and no thread of the link    *)
(* outlives the queues it uses: both are joined before uart_close and          *)
(* queue_destroy, on the failure paths of uart_thread_start too.               *)
NoUseAfterClose ==
  /\ tx \notin Dead => fd # "closed" /\ queues = "live"
  /\ rx \notin Dead => fd # "closed" /\ queues = "live"

(* From the first chunk it is given in a session the callback misses none and  *)
(* gets them in order, whether or not rx_queue is full.                        *)
CallbackInOrder ==
  handled # <<>> =>
    /\ \A i \in 1 .. Len(handled) - 1 : handled[i + 1] = handled[i] + 1
    /\ handled[Len(handled)] = IF rx \in {"push", "call"} THEN nread - 1 ELSE nread

(* A single receiver blocks in uart_receive only if the link was started again *)
(* during its call: whatever the RX thread and a stop of the link do between   *)
(* its test and its pop, what it has found in rx_queue stays there.            *)
ReceiveDoesNotBlock ==
  Cardinality(Receiver) = 1 => \A r \in Receiver : recv[r] = "wait" => r \in overtaken

(* Once the flag is set, the TX thread ends if there is any message for it,    *)
(* even one that arrives after the stop: the push is what wakes it.            *)
TxEndsOnMessage == (stop_flag = 1 /\ main \in {"undo_join", "join_tx"} /\ tx_queue # <<>>)
                     ~> tx \in Dead

(* uart_thread.c: uart_thread_stop wakes the threads that may be blocked in a  *)
(* queue and waits for them to exit; so it returns.                            *)
StopReturns == main \in {"stop_signal", "join_tx", "join_rx", "close"} ~> main = "idle"
=============================================================================

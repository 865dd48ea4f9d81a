------------------------------ MODULE UartQueue ------------------------------
(* user_space/uart/uart_queue.c: a ring of UART_QUEUE_SIZE strings guarded by  *)
(* one mutex and one condition variable, shared by any number of threads.      *)
(* A call is a sequence of steps of its thread: the call, taking the mutex,    *)
(* the body under the mutex, and the unlock that returns.                      *)
EXTENDS Integers, FiniteSets, Sequences

CONSTANTS Pusher,    \* threads that call queue_push
          Popper,    \* threads that call queue_pop and queue_is_empty
          Text,      \* the strings that are pushed
          Fit,       \* Fit[m]: the prefix of m that fits a slot of UART_DATA_MAX bytes
          Size,      \* UART_QUEUE_SIZE
          NoThread   \* owner of a free mutex

Thread == Pusher \cup Popper

ASSUME ThreadAssumption == /\ IsFiniteSet(Pusher) /\ IsFiniteSet(Popper)
                           /\ NoThread \notin Pusher \cup Popper
ASSUME SizeAssumption   == Size \in Nat \ {0}
ASSUME FitAssumption    == /\ Fit \in [Text -> Text]
                           /\ \A m \in Text : Fit[Fit[m]] = Fit[m]

VARIABLES head, tail, count,   \* the indices and the fill level of uart_queue_t
          data,                \* its slots
          mutex,               \* the owner of its mutex
          pc,                  \* where each thread is in its call
          arg,                 \* the string a pending push stores
          res                  \* what the last call of a thread returned

vars == <<head, tail, count, data, mutex, pc, arg, res>>

Slot     == 0 .. Size - 1
Waiting  == {t \in Thread : pc[t] = "pop_wait"}      \* blocked on the condition variable
AtLock   == {"push_lock", "pop_lock", "empty_lock"}
InBody   == {"push_body", "pop_body", "empty_body"}
AtUnlock == {"unlock"}
Locked   == InBody \cup AtUnlock

Body == [push_lock |-> "push_body", pop_lock |-> "pop_body", empty_lock |-> "empty_body"]

(* Each operator named ...Mut... is a variant, with a bug in it, of the        *)
(* definition that follows: the properties are checked to notice it.           *)
FullMutOffByOne    == count > Size
FullMutOneSlotFree == count >= Size - 1
Full == count >= Size

AfterMutWrapsEarly(i) == (i + 1) % (Size - 1)
After(i) == (i + 1) % Size

-----------------------------------------------------------------------------
(* queue_init leaves the slots as they were: static storage at the first       *)
(* start, the strings of the previous session at a later one.                  *)
Init == /\ head = 0 /\ tail = 0 /\ count = 0
        /\ data \in [Slot -> {Fit[m] : m \in Text}]
        /\ mutex = NoThread
        /\ pc  = [t \in Thread |-> "idle"]
        /\ arg = [t \in Thread |-> "none"]
        /\ res = [t \in Thread |-> "none"]

Call(t, at, m) == /\ pc[t] = "idle"
                  /\ pc'  = [pc EXCEPT ![t] = at]
                  /\ arg' = [arg EXCEPT ![t] = m]
                  /\ res' = [res EXCEPT ![t] = "none"]
                  /\ UNCHANGED <<head, tail, count, data, mutex>>

PushCall(t, m) == Call(t, "push_lock", m)
PopCall(t)     == Call(t, "pop_lock", "none")
EmptyCall(t)   == Call(t, "empty_lock", "none")

(* pthread_mutex_lock, and the return of pthread_cond_wait, which takes the    *)
(* mutex again before the while condition is tested again.                     *)
Lock(t) == /\ pc[t] \in AtLock
           /\ mutex = NoThread
           /\ mutex' = t
           /\ pc' = [pc EXCEPT ![t] = Body[pc[t]]]
           /\ UNCHANGED <<head, tail, count, data, arg, res>>

Unlock(t) == /\ pc[t] = "unlock"
             /\ mutex' = NoThread
             /\ pc' = [pc EXCEPT ![t] = "idle"]
             /\ UNCHANGED <<head, tail, count, data, arg, res>>

Leave(t, r) == /\ arg' = [arg EXCEPT ![t] = "none"]
               /\ res' = [res EXCEPT ![t] = r]

PushFull(t) == /\ pc[t] = "push_body"
               /\ Full
               /\ pc' = [pc EXCEPT ![t] = "unlock"]
               /\ Leave(t, "full")
               /\ UNCHANGED <<head, tail, count, data, mutex>>

(* pthread_cond_signal moves one waiting thread, if there is one, to the queue *)
(* of the mutex.                                                               *)
SignalledMutNone(at) == {at}
SignalledMutOnlyFirst(at) == IF count > 0 \/ Waiting = {} THEN {at}
                             ELSE {[at EXCEPT ![w] = "pop_lock"] : w \in Waiting}
Signalled(at) == IF Waiting = {} THEN {at}
                 ELSE {[at EXCEPT ![w] = "pop_lock"] : w \in Waiting}

PushStore(t) == /\ pc[t] = "push_body"
                /\ ~Full
                /\ data'  = [data EXCEPT ![tail] = Fit[arg[t]]]
                /\ tail'  = After(tail)
                /\ count' = count + 1
                /\ pc' \in Signalled([pc EXCEPT ![t] = "unlock"])
                /\ Leave(t, "ok")
                /\ UNCHANGED <<head, mutex>>

PopWait(t) == /\ pc[t] = "pop_body"
              /\ count = 0
              /\ mutex' = NoThread
              /\ pc' = [pc EXCEPT ![t] = "pop_wait"]
              /\ UNCHANGED <<head, tail, count, data, arg, res>>

(* A condition wait may return without a signal; the uart threads also signal  *)
(* it without the mutex when they stop (uart_thread.c).                        *)
SpuriousWakeup(t) == /\ pc[t] = "pop_wait"
                     /\ pc' = [pc EXCEPT ![t] = "pop_lock"]
                     /\ UNCHANGED <<head, tail, count, data, mutex, arg, res>>

PopTake(t) == /\ pc[t] = "pop_body"
              /\ count # 0
              /\ head'  = After(head)
              /\ count' = count - 1
              /\ pc' = [pc EXCEPT ![t] = "unlock"]
              /\ Leave(t, Fit[data[head]])
              /\ UNCHANGED <<tail, data, mutex>>

EmptyTest(t) == /\ pc[t] = "empty_body"
                /\ pc' = [pc EXCEPT ![t] = "unlock"]
                /\ Leave(t, IF count = 0 THEN "empty" ELSE "nonempty")
                /\ UNCHANGED <<head, tail, count, data, mutex>>

Next == \/ \E t \in Pusher : \/ \E m \in Text : PushCall(t, m)
                             \/ PushFull(t) \/ PushStore(t)
        \/ \E t \in Popper : \/ PopCall(t) \/ PopWait(t) \/ SpuriousWakeup(t) \/ PopTake(t)
                             \/ EmptyCall(t) \/ EmptyTest(t)
        \/ \E t \in Thread : Lock(t) \/ Unlock(t)

Spec == Init /\ [][Next]_vars

-----------------------------------------------------------------------------
(* A thread inside a call keeps running.  The mutex is strongly fair: callers  *)
(* of uart_send and the rx thread sleep between their calls, so a thread that  *)
(* finds the mutex free again and again gets it in the end.  Nothing makes a   *)
(* thread call, and no spurious wakeup is promised.                            *)
Fairness == /\ \A t \in Thread : SF_vars(Lock(t)) /\ WF_vars(Unlock(t))
            /\ \A t \in Pusher : WF_vars(PushFull(t) \/ PushStore(t))
            /\ \A t \in Popper : WF_vars(PopWait(t) \/ PopTake(t) \/ EmptyTest(t))

FairSpec == Spec /\ Fairness

-----------------------------------------------------------------------------
(* Every variable has its type. *)
TypeOK == /\ head \in Slot /\ tail \in Slot
          /\ count \in 0 .. Size
          /\ data \in [Slot -> Text]
          /\ mutex \in Thread \cup {NoThread}
          /\ pc \in [Thread -> {"idle", "pop_wait"} \cup AtLock \cup Locked]
          /\ arg \in [Thread -> Text \cup {"none"}]
          /\ res \in [Thread -> Text \cup {"none", "ok", "full", "empty", "nonempty"}]

(* The three integers of the ring agree after any history of pushes and pops:  *)
(* the next free slot is count places after the oldest message.                *)
RingConsistent == tail = (head + count) % Size

(* At most one thread is between a lock and its unlock, and it owns the mutex: *)
(* a waiter of queue_pop does not count until it has taken the mutex back.     *)
MutexHeld == \A t \in Thread : pc[t] \in Locked <=> mutex = t

(* No wakeup is lost: while a thread sleeps in queue_pop, every message in the *)
(* ring has a popper that is awake and on its way to take it.                  *)
Awake == {t \in Popper : pc[t] \in {"pop_lock", "pop_body"}}
NoLostWakeup == Waiting # {} => count <= Cardinality(Awake)

(* While a thread is in queue_pop and there is a message, some pop returns.    *)
InPop(t) == pc[t] \in {"pop_lock", "pop_body", "pop_wait"}
PopProgress == (count > 0 /\ \E t \in Popper : InPop(t))
                  ~> (\E t \in Popper : pc[t] = "unlock" /\ res[t] \in Text)

-----------------------------------------------------------------------------
(* The ring implements the first-in first-out queue of BoundedFifo: the body   *)
(* of a call under the mutex is the instant at which it takes effect.          *)
Contents == [i \in 1 .. count |-> data[(head + i - 1) % Size]]

Asked == [idle |-> "idle", push_lock |-> "push", push_body |-> "push",
          pop_lock |-> "pop", pop_body |-> "pop", pop_wait |-> "pop",
          empty_lock |-> "is_empty", empty_body |-> "is_empty", unlock |-> "done"]

Fifo == INSTANCE BoundedFifo WITH
          Capacity <- Size,
          q    <- Contents,
          call <- [t \in Thread |-> [op |-> Asked[pc[t]], arg |-> arg[t], res |-> res[t]]]

(* Callers of the ring see a linearizable bounded first-in first-out queue. *)
ImplementsFifo == Fifo!FifoSpec
=============================================================================

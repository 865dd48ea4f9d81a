--------------------------- MODULE UartQueueProofs ---------------------------
(* Proofs about UartQueue for every set of threads, every set of strings and   *)
(* every size of the ring.                                                     *)
EXTENDS UartQueue, FiniteSetTheorems, SequenceTheorems, TLAPS

(* Storing at the tail keeps the ring consistent. *)
LEMMA RingAfterStore ==
  ASSUME NEW n \in Nat \ {0}, NEW h \in 0 .. n - 1, NEW c \in 0 .. n - 1
  PROVE  /\ (((h + c) % n) + 1) % n = (h + (c + 1)) % n
         /\ (((h + c) % n) + 1) % n \in 0 .. n - 1
<1> DEFINE y == (h + c) % n
<1>1. y = IF h + c < n THEN h + c ELSE h + c - n
  OBVIOUS
<1>2. (h + (c + 1)) % n = IF h + (c + 1) < n THEN h + (c + 1) ELSE h + (c + 1) - n
  OBVIOUS
<1> HIDE DEF y
<1>3. (y + 1) % n = IF y + 1 < n THEN y + 1 ELSE y + 1 - n
  BY <1>1
<1> QED BY <1>1, <1>2, <1>3 DEF y

(* Taking from the head keeps the ring consistent. *)
LEMMA RingAfterTake ==
  ASSUME NEW n \in Nat \ {0}, NEW h \in 0 .. n - 1, NEW c \in 1 .. n
  PROVE  /\ (h + c) % n = (((h + 1) % n) + (c - 1)) % n
         /\ (h + 1) % n \in 0 .. n - 1
<1> DEFINE y == (h + 1) % n
<1>1. y = IF h + 1 < n THEN h + 1 ELSE h + 1 - n
  OBVIOUS
<1>2. (h + c) % n = IF h + c < n THEN h + c ELSE h + c - n
  OBVIOUS
<1> HIDE DEF y
<1>3. (y + (c - 1)) % n = IF y + (c - 1) < n THEN y + (c - 1) ELSE y + (c - 1) - n
  BY <1>1
<1> QED BY <1>1, <1>2, <1>3 DEF y

(* The part of the invariant that does not count threads. *)
CallOK == \A t \in Thread :
            /\ pc[t] \in {"push_lock", "push_body"} => t \in Pusher /\ arg[t] \in Text
            /\ pc[t] \in {"pop_lock", "pop_body", "pop_wait"} => t \in Popper
Inv == TypeOK /\ CallOK /\ MutexHeld /\ RingConsistent

LEMMA InitInv == Init => Inv
<1> SUFFICES ASSUME Init PROVE Inv
  OBVIOUS
<1> USE SizeAssumption, FitAssumption, ThreadAssumption
<1>1. TypeOK
  <2>1. head \in Slot /\ tail \in Slot /\ count \in 0 .. Size
    BY DEF Init, Slot
  <2>2. data \in [Slot -> Text]
    BY DEF Init
  <2> QED BY <2>1, <2>2 DEF Init, TypeOK
<1>2. MutexHeld
  BY DEF Init, MutexHeld, Locked, InBody, AtUnlock, Thread
<1>3. RingConsistent
  BY DEF Init, RingConsistent
<1>4. CallOK
  BY DEF Init, CallOK
<1> QED BY <1>1, <1>2, <1>3, <1>4 DEF Inv

(* Every step of the queue keeps the indices, the fill level and the mutex in  *)
(* agreement.                                                                  *)
LEMMA NextInv == Inv /\ [Next]_vars => Inv'
<1> SUFFICES ASSUME Inv, [Next]_vars PROVE Inv'
  OBVIOUS
<1> USE SizeAssumption, FitAssumption, ThreadAssumption
<1> USE DEF Inv, TypeOK, CallOK, MutexHeld, RingConsistent, Locked, InBody, AtUnlock, AtLock, Thread
<1>1. ASSUME NEW t \in Pusher, NEW m \in Text, PushCall(t, m) PROVE Inv'
  BY <1>1 DEF PushCall, Call
<1>2. ASSUME NEW t \in Popper, PopCall(t) PROVE Inv'
  BY <1>2 DEF PopCall, Call
<1>3. ASSUME NEW t \in Popper, EmptyCall(t) PROVE Inv'
  BY <1>3 DEF EmptyCall, Call
<1>4. ASSUME NEW t \in Thread, Lock(t) PROVE Inv'
  BY <1>4 DEF Lock, Body
<1>5. ASSUME NEW t \in Thread, Unlock(t) PROVE Inv'
  BY <1>5 DEF Unlock
<1>6. ASSUME NEW t \in Pusher, PushFull(t) PROVE Inv'
  BY <1>6 DEF PushFull, Leave
<1>7. ASSUME NEW t \in Pusher, PushStore(t) PROVE Inv'
  <2> DEFINE at == [pc EXCEPT ![t] = "unlock"]
  <2>1. \/ pc' = at
        \/ \E w \in Thread : pc[w] = "pop_wait" /\ pc' = [at EXCEPT ![w] = "pop_lock"]
    <3>1. pc' \in Signalled(at)
      BY <1>7 DEF PushStore
    <3>2. \A w \in Waiting : pc[w] = "pop_wait" /\ w \in Thread
      BY DEF Waiting
    <3> HIDE DEF Inv, at
    <3> QED BY <3>1, <3>2 DEF Signalled
  <2>2. pc' \in [Thread -> {"idle", "pop_wait"} \cup AtLock \cup Locked] /\ MutexHeld'
    <3>1. mutex = t /\ mutex' = t /\ pc[t] = "push_body"
      BY <1>7 DEF PushStore
    <3> HIDE DEF TypeOK, CallOK, RingConsistent
    <3>2. pc \in [Thread -> {"idle", "pop_wait"} \cup AtLock \cup Locked]
      BY DEF TypeOK
    <3>3. CASE pc' = at
      BY <3>1, <3>2, <3>3
    <3>4. ASSUME NEW w \in Thread, pc[w] = "pop_wait", pc' = [at EXCEPT ![w] = "pop_lock"]
          PROVE  pc' \in [Thread -> {"idle", "pop_wait"} \cup AtLock \cup Locked] /\ MutexHeld'
      BY <3>1, <3>2, <3>4
    <3> QED BY <2>1, <3>3, <3>4
  <2>3. CallOK'
    BY <2>1, <1>7 DEF PushStore, Leave
  <2>4. data' \in [Slot -> Text]
    BY <1>7 DEF PushStore
  <2>5. tail' \in Slot /\ count' \in 0 .. Size /\ RingConsistent'
    <3>1. /\ tail' = (tail + 1) % Size /\ count' = count + 1 /\ head' = head
          /\ count \in 0 .. Size - 1 /\ head \in 0 .. Size - 1
      BY <1>7 DEF PushStore, Slot, Full, After
    <3>2. (((head + count) % Size) + 1) % Size = (head + (count + 1)) % Size
          /\ (((head + count) % Size) + 1) % Size \in 0 .. Size - 1
      BY <3>1, RingAfterStore
    <3>3. tail = (head + count) % Size
      OBVIOUS
    <3> HIDE DEF Inv
    <3> QED BY <3>1, <3>2, <3>3 DEF Slot
  <2> QED BY <2>2, <2>3, <2>4, <2>5, <1>7 DEF PushStore, Leave
<1>8. ASSUME NEW t \in Popper, PopWait(t) PROVE Inv'
  BY <1>8 DEF PopWait
<1>9. ASSUME NEW t \in Popper, SpuriousWakeup(t) PROVE Inv'
  BY <1>9 DEF SpuriousWakeup
<1>10. ASSUME NEW t \in Popper, PopTake(t) PROVE Inv'
  <2>1. head' \in Slot /\ count' \in 0 .. Size /\ RingConsistent'
    <3>1. /\ head' = (head + 1) % Size /\ count' = count - 1 /\ tail' = tail
          /\ count \in 1 .. Size /\ head \in 0 .. Size - 1
      BY <1>10 DEF PopTake, Slot, After
    <3> HIDE DEF TypeOK, CallOK, MutexHeld
    <3> QED BY <3>1, RingAfterTake DEF Slot
  <2>2. res' \in [Thread -> Text \cup {"none", "ok", "full", "empty", "nonempty"}]
    BY <1>10 DEF PopTake, Leave
  <2> QED BY <2>1, <2>2, <1>10 DEF PopTake, Leave
<1>11. ASSUME NEW t \in Popper, EmptyTest(t) PROVE Inv'
  BY <1>11 DEF EmptyTest, Leave
<1>12. CASE UNCHANGED vars
  BY <1>12 DEF vars
<1> QED BY <1>1, <1>2, <1>3, <1>4, <1>5, <1>6, <1>7, <1>8, <1>9, <1>10, <1>11, <1>12 DEF Next

(* The integers of the ring, the types and the ownership of the mutex hold in  *)
(* every reachable state of uart_queue.c.                                      *)
THEOREM RingInvariant == Spec => [](TypeOK /\ MutexHeld /\ RingConsistent)
<1>1. Inv => TypeOK /\ MutexHeld /\ RingConsistent
  BY DEF Inv
<1> QED BY InitInv, NextInv, <1>1, PTL DEF Spec

(* Every variable of the ring has its type. *)
THEOREM RingTypes == Spec => []TypeOK
BY RingInvariant, PTL

-----------------------------------------------------------------------------
(* Counting the poppers that are awake.                                        *)
LEMMA AwakeFinite == IsFiniteSet(Awake) /\ Cardinality(Awake) \in Nat
<1>1. IsFiniteSet(Popper) /\ Awake \subseteq Popper
  BY ThreadAssumption DEF Awake
<1> QED BY <1>1, FS_Subset, FS_CardinalityType

(* A step that puts no popper to sleep and adds no message loses no wakeup. *)
LEMMA MoreAwake ==
  ASSUME NoLostWakeup, count \in Nat, count' \in Nat, count' <= count,
         Waiting' # {} => Waiting # {}, Awake \subseteq Awake', Awake' \subseteq Popper
  PROVE  NoLostWakeup'
<1>1. IsFiniteSet(Awake') /\ Cardinality(Awake') \in Nat
  BY ThreadAssumption, FS_Subset, FS_CardinalityType
<1>2. Cardinality(Awake) <= Cardinality(Awake')
  BY <1>1, FS_Subset
<1> QED BY <1>1, <1>2, AwakeFinite DEF NoLostWakeup

(* No step of the queue leaves a popper asleep beside a message that nobody    *)
(* is awake to take.                                                           *)
LEMMA NextWakeup == Inv /\ Inv' /\ NoLostWakeup /\ [Next]_vars => NoLostWakeup'
<1> SUFFICES ASSUME Inv, Inv', NoLostWakeup, [Next]_vars PROVE NoLostWakeup'
  OBVIOUS
<1>0. /\ count \in Nat /\ count' \in Nat /\ Awake' \subseteq Popper
      /\ pc \in [Thread -> {"idle", "pop_wait"} \cup AtLock \cup Locked]
      /\ Popper \subseteq Thread /\ Pusher \subseteq Thread
      /\ \A t \in Thread : pc[t] \in {"pop_lock", "pop_body", "pop_wait"} => t \in Popper
  BY SizeAssumption DEF Inv, TypeOK, CallOK, Awake, Thread
(* Steps that only move one thread, and not out of queue_pop. *)
<1>1. ASSUME NEW t \in Thread, NEW at, pc' = [pc EXCEPT ![t] = at], count' = count,
             at # "pop_wait",
             pc[t] \in {"pop_lock", "pop_body"} => at \in {"pop_lock", "pop_body"}
      PROVE  NoLostWakeup'
  <2>1. Waiting' # {} => Waiting # {}
    BY <1>0, <1>1 DEF Waiting
  <2>2. Awake \subseteq Awake'
    BY <1>0, <1>1 DEF Awake
  <2> QED BY <1>0, <1>1, <2>1, <2>2, MoreAwake
<1>2. ASSUME NEW t \in Pusher, NEW m \in Text, PushCall(t, m) PROVE NoLostWakeup'
  BY <1>0, <1>1, <1>2 DEF PushCall, Call
<1>3. ASSUME NEW t \in Popper, PopCall(t) \/ EmptyCall(t) PROVE NoLostWakeup'
  BY <1>0, <1>1, <1>3 DEF PopCall, EmptyCall, Call
<1>4. ASSUME NEW t \in Thread, Lock(t) PROVE NoLostWakeup'
  <2>1. /\ pc' = [pc EXCEPT ![t] = Body[pc[t]]] /\ count' = count
        /\ pc[t] \in {"push_lock", "pop_lock", "empty_lock"}
    BY <1>4 DEF Lock, AtLock
  <2>2. Body[pc[t]] # "pop_wait" /\ (pc[t] = "pop_lock" => Body[pc[t]] = "pop_body")
    BY <2>1 DEF Body
  <2> QED BY <2>1, <2>2, <1>1
<1>5. ASSUME NEW t \in Thread, Unlock(t) PROVE NoLostWakeup'
  BY <1>0, <1>1, <1>5 DEF Unlock
<1>6. ASSUME NEW t \in Pusher, PushFull(t) PROVE NoLostWakeup'
  BY <1>0, <1>1, <1>6 DEF PushFull
<1>7. ASSUME NEW t \in Pusher, PushStore(t) PROVE NoLostWakeup'
  <2>1. t \in Thread /\ pc[t] = "push_body" /\ count' = count + 1
    BY <1>0, <1>7 DEF PushStore
  <2>2. CASE Waiting = {}
    <3>1. pc' = [pc EXCEPT ![t] = "unlock"]
      BY <2>2, <1>7 DEF PushStore, Signalled
    <3>2. Waiting' = {}
      BY <1>0, <2>1, <2>2, <3>1 DEF Waiting
    <3> QED BY <3>2 DEF NoLostWakeup
  <2>3. CASE Waiting # {}
    <3>1. PICK w \in Waiting : pc' = [[pc EXCEPT ![t] = "unlock"] EXCEPT ![w] = "pop_lock"]
      BY <2>3, <1>7 DEF PushStore, Signalled
    <3>2. w \in Popper /\ w # t /\ pc[w] = "pop_wait"
      BY <1>0, <2>1 DEF Waiting
    <3>3. Awake' = Awake \cup {w} /\ w \notin Awake
      BY <1>0, <2>1, <3>1, <3>2 DEF Awake
    <3>4. Cardinality(Awake') = Cardinality(Awake) + 1
      BY <3>3, AwakeFinite, FS_AddElement
    <3> QED BY <1>0, <2>1, <2>3, <3>4, AwakeFinite DEF NoLostWakeup
  <2> QED BY <2>2, <2>3
<1>8. ASSUME NEW t \in Popper, PopWait(t) PROVE NoLostWakeup'
  <2>1. count' = 0
    BY <1>8 DEF PopWait
  <2>2. Cardinality(Awake') \in Nat
    BY <1>0, ThreadAssumption, FS_Subset, FS_CardinalityType
  <2> QED BY <2>1, <2>2 DEF NoLostWakeup
<1>9. ASSUME NEW t \in Popper, SpuriousWakeup(t) PROVE NoLostWakeup'
  BY <1>0, <1>1, <1>9 DEF SpuriousWakeup
<1>10. ASSUME NEW t \in Popper, PopTake(t) PROVE NoLostWakeup'
  <2>1. t \in Thread /\ pc[t] = "pop_body" /\ count' = count - 1 /\ pc' = [pc EXCEPT ![t] = "unlock"]
    BY <1>0, <1>10 DEF PopTake
  <2>2. Awake' = Awake \ {t} /\ t \in Awake
    BY <1>0, <2>1 DEF Awake
  <2>3. Cardinality(Awake') = Cardinality(Awake) - 1
    BY <2>2, AwakeFinite, FS_RemoveElement
  <2>4. Waiting' = Waiting
    BY <1>0, <2>1 DEF Waiting
  <2> QED BY <1>0, <2>1, <2>3, <2>4, AwakeFinite DEF NoLostWakeup
<1>11. ASSUME NEW t \in Popper, EmptyTest(t) PROVE NoLostWakeup'
  BY <1>0, <1>1, <1>11 DEF EmptyTest
<1>12. CASE UNCHANGED vars
  <2>1. Awake' = Awake /\ Waiting' = Waiting /\ count' = count
    BY <1>12 DEF vars, Waiting, Awake
  <2> QED BY <2>1 DEF NoLostWakeup
<1> QED BY <1>2, <1>3, <1>4, <1>5, <1>6, <1>7, <1>8, <1>9, <1>10, <1>11, <1>12 DEF Next

(* No wakeup is lost in uart_queue.c, whatever the threads, the strings and    *)
(* the size of the ring.                                                       *)
THEOREM WakeupSafety == Spec => []NoLostWakeup
<1>1. Init => NoLostWakeup
  BY DEF Init, NoLostWakeup, Waiting
<1> QED BY InitInv, NextInv, <1>1, NextWakeup, PTL DEF Spec

-----------------------------------------------------------------------------
(* The step simulation of BoundedFifo *)

(* What the refinement needs beside Inv: a string in a slot fits it, and a     *)
(* call that has taken effect has given up its argument.                       *)
Fitted   == \A i \in Slot : Fit[data[i]] = data[i]
Settled  == \A t \in Thread : pc[t] = "unlock" => arg[t] = "none"
Simulated == Inv /\ Fitted /\ Settled

(* The calls, as BoundedFifo sees them. *)
Calls == [t \in Thread |-> [op |-> Asked[pc[t]], arg |-> arg[t], res |-> res[t]]]

(* A ring that is empty in the beginning holds nothing else. *)
LEMMA InitSimulated == Init => Simulated
<1> SUFFICES ASSUME Init PROVE Fitted /\ Settled
  BY InitInv DEF Simulated
<1>1. data \in [Slot -> {Fit[m] : m \in Text}]
  BY DEF Init
<1>2. Fitted
  BY <1>1, FitAssumption DEF Fitted
<1> QED BY <1>2 DEF Init, Settled

(* Every step keeps the strings cut to their slots and the answers settled. *)
LEMMA NextSimulated == Simulated /\ [Next]_vars => Simulated'
<1> SUFFICES ASSUME Simulated, [Next]_vars PROVE Fitted' /\ Settled'
  BY NextInv DEF Simulated
<1>1. /\ TypeOK /\ CallOK /\ Fitted /\ Settled /\ Pusher \subseteq Thread /\ Popper \subseteq Thread
  BY DEF Simulated, Inv, Thread
<1>2. Fitted'
  <2>1. CASE data' = data
    BY <1>1, <2>1 DEF Fitted, Slot
  <2>2. ASSUME NEW t \in Pusher, PushStore(t) PROVE Fitted'
    <3>1. arg[t] \in Text /\ data' = [data EXCEPT ![tail] = Fit[arg[t]]]
      BY <1>1, <2>2 DEF PushStore, CallOK
    <3>2. data \in [Slot -> Text]
      BY <1>1 DEF TypeOK
    <3> QED BY <1>1, <3>1, <3>2, FitAssumption DEF Fitted, Slot
  <2>3. data' = data \/ \E t \in Pusher : PushStore(t)
    BY DEF Next, vars, PushCall, PopCall, EmptyCall, Call, Lock, Unlock, PushFull, PopWait,
           SpuriousWakeup, PopTake, EmptyTest
  <2> QED BY <2>1, <2>2, <2>3
<1>3. Settled'
  <2>0. pc \in [Thread -> {"idle", "pop_wait"} \cup AtLock \cup Locked]
        /\ arg \in [Thread -> Text \cup {"none"}]
    BY <1>1 DEF TypeOK
  <2>1. ASSUME NEW t \in Thread, NEW at, pc' = [pc EXCEPT ![t] = at], arg' = arg, at # "unlock"
        PROVE  Settled'
    BY <1>1, <2>0, <2>1 DEF Settled
  <2>2. ASSUME NEW t \in Thread, NEW at, NEW a, pc' = [pc EXCEPT ![t] = at],
               arg' = [arg EXCEPT ![t] = a], at = "unlock" => a = "none"
        PROVE  Settled'
    BY <1>1, <2>0, <2>2 DEF Settled
  <2>3. ASSUME NEW t \in Pusher, PushStore(t) PROVE Settled'
    <3>1. pc' \in Signalled([pc EXCEPT ![t] = "unlock"]) /\ arg' = [arg EXCEPT ![t] = "none"]
      BY <2>3 DEF PushStore, Leave
    <3>2. CASE pc' = [pc EXCEPT ![t] = "unlock"]
      BY <1>1, <2>2, <3>1, <3>2
    <3>3. ASSUME NEW w \in Waiting, pc' = [[pc EXCEPT ![t] = "unlock"] EXCEPT ![w] = "pop_lock"]
          PROVE  Settled'
      BY <1>1, <2>0, <3>1, <3>3 DEF Settled, Waiting
    <3> QED BY <3>1, <3>2, <3>3 DEF Signalled
  <2>4. ASSUME NEW t \in Thread, Lock(t) PROVE Settled'
    <3>1. Body[pc[t]] # "unlock"
      BY <2>4 DEF Lock, AtLock, Body
    <3> QED BY <2>1, <2>4, <3>1 DEF Lock
  <2>5. CASE UNCHANGED vars
    BY <1>1, <2>5 DEF vars, Settled
  <2>6. ASSUME NEW t \in Pusher, PushFull(t) \/ \E m \in Text : PushCall(t, m) PROVE Settled'
    BY <1>1, <2>2, <2>6 DEF PushFull, PushCall, Call, Leave
  <2>7. ASSUME NEW t \in Popper, PopCall(t) \/ EmptyCall(t) PROVE Settled'
    BY <1>1, <2>2, <2>7 DEF PopCall, EmptyCall, Call
  <2>8. ASSUME NEW t \in Popper, PopWait(t) \/ SpuriousWakeup(t) PROVE Settled'
    BY <1>1, <2>1, <2>8 DEF PopWait, SpuriousWakeup
  <2>9. ASSUME NEW t \in Popper, PopTake(t) \/ EmptyTest(t) PROVE Settled'
    BY <1>1, <2>2, <2>9 DEF PopTake, EmptyTest, Leave
  <2>10. ASSUME NEW t \in Thread, Unlock(t) PROVE Settled'
    BY <2>1, <2>10 DEF Unlock
  <2> QED BY <2>3, <2>4, <2>5, <2>6, <2>7, <2>8, <2>9, <2>10 DEF Next
<1> QED BY <1>2, <1>3

(* A step of thread t in which it asks for, or is answered, something, and the *)
(* others at most wake up.                                                     *)
LEMMA CallsAfter ==
  ASSUME NEW t \in Thread, TypeOK,
         NEW a, NEW r, arg' = [arg EXCEPT ![t] = a], res' = [res EXCEPT ![t] = r],
         \A u \in Thread \ {t} : Asked[pc'[u]] = Asked[pc[u]]
  PROVE  Calls' = [Calls EXCEPT ![t] = [op |-> Asked[pc'[t]], arg |-> a, res |-> r]]
<1>1. arg \in [Thread -> Text \cup {"none"}]
      /\ res \in [Thread -> Text \cup {"none", "ok", "full", "empty", "nonempty"}]
  BY DEF TypeOK
<1>2. \A u \in Thread : arg'[u] = (IF u = t THEN a ELSE arg[u]) /\ res'[u] = IF u = t THEN r ELSE res[u]
  BY <1>1
<1> QED BY <1>2 DEF Calls

(* The answer to a call in BoundedFifo. *)
LEMMA AnswerOf ==
  ASSUME NEW t \in Thread, NEW r
  PROVE  [Calls EXCEPT ![t].op = "done", ![t].arg = "none", ![t].res = r]
         = [Calls EXCEPT ![t] = [op |-> "done", arg |-> "none", res |-> r]]
<1> DEFINE g == [Calls EXCEPT ![t].op = "done", ![t].arg = "none", ![t].res = r]
           h == [Calls EXCEPT ![t] = [op |-> "done", arg |-> "none", res |-> r]]
<1>1. DOMAIN Calls = Thread /\ Calls[t] = [op |-> Asked[pc[t]], arg |-> arg[t], res |-> res[t]]
  BY DEF Calls
<1>2. g[t] = [op |-> "done", arg |-> "none", res |-> r]
  <2>1. g[t] = [[[Calls[t] EXCEPT !.op = "done"] EXCEPT !.arg = "none"] EXCEPT !.res = r]
    BY <1>1
  <2> QED BY <1>1, <2>1
<1>3. \A u \in Thread \ {t} : g[u] = Calls[u]
  BY <1>1
<1>4. DOMAIN g = Thread /\ DOMAIN h = Thread
  BY <1>1
<1> QED BY <1>1, <1>2, <1>3, <1>4

(* The place k places after place h, and the c strings from there on.          *)
Place(h, k)   == (h + k) % Size
Ring(h, c, d) == [i \in 1 .. c |-> d[Place(h, i - 1)]]

(* A place is a slot of the ring: past its end it goes on at its start. *)
LEMMA PlaceInRing ==
  ASSUME NEW h \in 0 .. Size - 1, NEW k \in 0 .. Size
  PROVE  /\ Place(h, k) = IF h + k < Size THEN h + k ELSE h + k - Size
         /\ Place(h, k) \in 0 .. Size - 1
<1>1. (h + k) % Size = IF h + k < Size THEN h + k ELSE h + k - Size
  BY SizeAssumption
<1> QED BY <1>1, SizeAssumption DEF Place

(* Different places from the head on are different slots. *)
LEMMA PlacesDiffer ==
  ASSUME NEW h \in 0 .. Size - 1, NEW c \in 0 .. Size - 1, NEW i \in 1 .. c
  PROVE  Place(h, i - 1) # Place(h, c)
<1>1. i - 1 \in 0 .. Size /\ c \in 0 .. Size
  BY SizeAssumption
<1>2. Place(h, i - 1) = IF h + (i - 1) < Size THEN h + (i - 1) ELSE h + (i - 1) - Size
  BY <1>1, PlaceInRing
<1>3. Place(h, c) = IF h + c < Size THEN h + c ELSE h + c - Size
  BY <1>1, PlaceInRing
<1> QED BY <1>2, <1>3, SizeAssumption

(* The messages of a ring are a sequence of strings. *)
LEMMA RingIsSeq ==
  ASSUME NEW h \in 0 .. Size - 1, NEW c \in 0 .. Size, NEW d \in [0 .. Size - 1 -> Text]
  PROVE  /\ Ring(h, c, d) \in Seq(Text) /\ Len(Ring(h, c, d)) = c
         /\ \A i \in 1 .. c : Ring(h, c, d)[i] = d[Place(h, i - 1)]
<1>1. ASSUME NEW i \in 1 .. c PROVE Place(h, i - 1) \in 0 .. Size - 1
  <2>1. i - 1 \in 0 .. Size
    BY SizeAssumption
  <2> QED BY <2>1, PlaceInRing
<1>2. Ring(h, c, d) \in [1 .. c -> Text]
  BY <1>1 DEF Ring
<1>3. c \in Nat
  BY SizeAssumption
<1> QED BY <1>2, <1>3 DEF Ring

(* A string stored behind the last one is appended. *)
LEMMA RingAppends ==
  ASSUME NEW h \in 0 .. Size - 1, NEW c \in 0 .. Size - 1, NEW d \in [0 .. Size - 1 -> Text],
         NEW m \in Text
  PROVE  Ring(h, c + 1, [d EXCEPT ![Place(h, c)] = m]) = Append(Ring(h, c, d), m)
<1> DEFINE e == [d EXCEPT ![Place(h, c)] = m]
           longer == Append(Ring(h, c, d), m)
<1>1. c \in 0 .. Size /\ c + 1 \in 0 .. Size /\ c \in Nat
  BY SizeAssumption
<1>2. Place(h, c) \in 0 .. Size - 1
  BY <1>1, PlaceInRing
<1>3. e \in [0 .. Size - 1 -> Text] /\ e[Place(h, c)] = m
  BY <1>2
<1>4. /\ Ring(h, c + 1, e) \in Seq(Text) /\ Len(Ring(h, c + 1, e)) = c + 1
      /\ \A i \in 1 .. c + 1 : Ring(h, c + 1, e)[i] = e[Place(h, i - 1)]
  BY <1>1, <1>3, RingIsSeq
<1>5. /\ Ring(h, c, d) \in Seq(Text) /\ Len(Ring(h, c, d)) = c
      /\ \A i \in 1 .. c : Ring(h, c, d)[i] = d[Place(h, i - 1)]
  BY <1>1, RingIsSeq
<1>6. /\ longer \in Seq(Text) /\ Len(longer) = c + 1 /\ longer[c + 1] = m
      /\ \A i \in 1 .. c : longer[i] = Ring(h, c, d)[i]
  BY <1>5, AppendProperties
<1>7. ASSUME NEW i \in 1 .. c PROVE e[Place(h, i - 1)] = d[Place(h, i - 1)]
  <2>1. i - 1 \in 0 .. Size
    BY SizeAssumption
  <2>2. Place(h, i - 1) \in 0 .. Size - 1
    BY <2>1, PlaceInRing
  <2>3. Place(h, i - 1) # Place(h, c)
    BY PlacesDiffer
  <2> QED BY <1>2, <2>2, <2>3
<1> HIDE DEF e, longer
<1>8. ASSUME NEW i \in 1 .. c + 1 PROVE Ring(h, c + 1, e)[i] = longer[i]
  <2>1. CASE i = c + 1
    <3>1. i - 1 = c
      BY <1>1, <2>1
    <3>2. Ring(h, c + 1, e)[i] = e[Place(h, i - 1)]
      BY <1>4
    <3>3. e[Place(h, i - 1)] = m
      BY <1>3, <3>1, Zenon
    <3>4. longer[i] = m
      BY <1>6, <2>1
    <3> QED BY <3>2, <3>3, <3>4
  <2>2. CASE i # c + 1
    <3>1. i \in 1 .. c
      BY <1>1, <2>2
    <3> QED BY <1>4, <1>5, <1>6, <1>7, <3>1
  <2> QED BY <2>1, <2>2
<1>9. Ring(h, c + 1, e) = longer
  BY <1>1, <1>4, <1>6, <1>8, SeqEqual
<1> QED BY <1>9 DEF e, longer

(* Without the string at the head the others are left. *)
LEMMA RingTail ==
  ASSUME NEW h \in 0 .. Size - 1, NEW c \in 1 .. Size, NEW d \in [0 .. Size - 1 -> Text]
  PROVE  /\ Ring(h, c, d) # <<>> /\ Head(Ring(h, c, d)) = d[h]
         /\ Ring(Place(h, 1), c - 1, d) = Tail(Ring(h, c, d))
<1> DEFINE old == Ring(h, c, d)
           new == Ring(Place(h, 1), c - 1, d)
<1>1. c \in 0 .. Size /\ c - 1 \in 0 .. Size /\ 0 \in 0 .. Size /\ 1 \in 0 .. Size
      /\ 1 \in 1 .. c /\ c \in Nat /\ h \in Int
  BY SizeAssumption
<1>2. Place(h, 1) \in 0 .. Size - 1 /\ Place(h, 1) = IF h + 1 < Size THEN h + 1 ELSE h + 1 - Size
  BY <1>1, PlaceInRing
<1>3. /\ old \in Seq(Text) /\ Len(old) = c
      /\ \A i \in 1 .. c : old[i] = d[Place(h, i - 1)]
  BY <1>1, RingIsSeq
<1>4. /\ new \in Seq(Text) /\ Len(new) = c - 1
      /\ \A i \in 1 .. c - 1 : new[i] = d[Place(Place(h, 1), i - 1)]
  BY <1>1, <1>2, RingIsSeq
<1> HIDE DEF old, new
<1>5. old # <<>> /\ Head(old) = old[1]
  BY <1>1, <1>3
<1>6. old[1] = d[h]
  <2>1. Place(h, 0) = IF h + 0 < Size THEN h + 0 ELSE h + 0 - Size
    BY <1>1, PlaceInRing
  <2>2. Place(h, 0) = h
    BY <2>1, SizeAssumption
  <2>3. 1 - 1 = 0
    OBVIOUS
  <2> QED BY <1>1, <1>3, <2>2, <2>3
<1>7. /\ Tail(old) \in Seq(Text) /\ Len(Tail(old)) = c - 1
      /\ \A i \in 1 .. c - 1 : Tail(old)[i] = old[i + 1]
  BY <1>1, <1>3, <1>5, HeadTailProperties
<1>8. ASSUME NEW i \in 1 .. c - 1 PROVE new[i] = Tail(old)[i]
  <2>1. i - 1 \in 0 .. Size /\ i \in 0 .. Size /\ i + 1 \in 1 .. c /\ (i + 1) - 1 = i
    BY <1>1, SizeAssumption
  <2>2. Place(Place(h, 1), i - 1) = IF Place(h, 1) + (i - 1) < Size THEN Place(h, 1) + (i - 1)
                                    ELSE Place(h, 1) + (i - 1) - Size
    BY <1>2, <2>1, PlaceInRing
  <2>3. Place(h, i) = IF h + i < Size THEN h + i ELSE h + i - Size
    BY <2>1, PlaceInRing
  <2>4. Place(Place(h, 1), i - 1) = Place(h, i)
    BY <1>2, <2>1, <2>2, <2>3, SizeAssumption
  <2>5. old[i + 1] = d[Place(h, i)]
    BY <1>3, <2>1
  <2> QED BY <1>4, <1>7, <2>4, <2>5
<1>9. new = Tail(old)
  BY <1>1, <1>4, <1>7, <1>8, SeqEqual
<1> QED BY <1>5, <1>6, <1>9 DEF old, new

(* The contents of the ring are those of Ring. *)
LEMMA ContentsIsRing ==
  ASSUME NEW h \in 0 .. Size - 1, NEW c \in 0 .. Size, NEW d
  PROVE  [i \in 1 .. c |-> d[(h + i - 1) % Size]] = Ring(h, c, d)
<1>1. \A i \in 1 .. c : h + i - 1 = h + (i - 1)
  BY SizeAssumption
<1> QED BY <1>1 DEF Ring, Place

(* Contents holds the strings between head and tail, count of them. *)
LEMMA ContentsAre ==
  ASSUME Inv, Inv'
  PROVE  /\ Contents = Ring(head, count, data) /\ Contents' = Ring(head', count', data')
         /\ Contents \in Seq(Text) /\ Len(Contents) = count /\ Len(Contents') = count'
<1>1. /\ head \in 0 .. Size - 1 /\ count \in 0 .. Size /\ data \in [0 .. Size - 1 -> Text]
      /\ head' \in 0 .. Size - 1 /\ count' \in 0 .. Size /\ data' \in [0 .. Size - 1 -> Text]
  BY DEF Inv, TypeOK, Slot
<1>2. Contents = Ring(head, count, data) /\ Contents' = Ring(head', count', data')
  BY <1>1, ContentsIsRing DEF Contents
<1> QED BY <1>1, <1>2, RingIsSeq

-----------------------------------------------------------------------------
(* A push appends the string, as far as it fits; a pop takes the oldest one.   *)
LEMMA StoreAppends ==
  ASSUME Inv, Inv', NEW t \in Pusher, PushStore(t)
  PROVE  Contents' = Append(Contents, Fit[arg[t]])
<1>1. /\ count \in 0 .. Size - 1 /\ count' = count + 1 /\ head' = head
      /\ head \in 0 .. Size - 1 /\ tail = Place(head, count)
      /\ data \in [0 .. Size - 1 -> Text] /\ data' = [data EXCEPT ![tail] = Fit[arg[t]]]
      /\ Fit[arg[t]] \in Text
  BY SizeAssumption, FitAssumption
     DEF Inv, TypeOK, CallOK, RingConsistent, PushStore, Full, Slot, Thread, Place
<1>2. Contents = Ring(head, count, data)
      /\ Contents' = Ring(head, count + 1, [data EXCEPT ![Place(head, count)] = Fit[arg[t]]])
  BY <1>1, ContentsAre
<1>3. Contents' = Append(Ring(head, count, data), Fit[arg[t]])
  BY <1>1, <1>2, RingAppends
<1> QED BY <1>2, <1>3

(* Taking the oldest string leaves the others in their order. *)
LEMMA TakeRemoves ==
  ASSUME Inv, Inv', NEW t \in Popper, PopTake(t)
  PROVE  /\ Contents # <<>> /\ Head(Contents) = data[head]
         /\ Contents' = Tail(Contents)
<1>1. /\ count \in 1 .. Size /\ count' = count - 1 /\ head' = Place(head, 1)
      /\ head \in 0 .. Size - 1 /\ data \in [0 .. Size - 1 -> Text] /\ data' = data
  BY SizeAssumption DEF Inv, TypeOK, PopTake, After, Slot, Place
<1> QED BY <1>1, ContentsAre, RingTail

(* A step of thread t that its callers do not see. *)
LEMMA Unseen ==
  ASSUME Contents' = Contents, TypeOK, NEW t \in Thread, NEW at, pc' = [pc EXCEPT ![t] = at],
         Asked[at] = Asked[pc[t]], UNCHANGED <<arg, res>>
  PROVE  UNCHANGED <<Contents, Calls>>
BY DEF Calls, TypeOK

(* A step of thread t in which it invokes an operation. *)
LEMMA Invokes ==
  ASSUME Contents' = Contents, TypeOK, NEW t \in Thread, NEW at \in AtLock, NEW m, Call(t, at, m)
  PROVE  Fifo!Invoke(t, Asked[at], m)
<1>1. pc \in [Thread -> {"idle", "pop_wait"} \cup AtLock \cup Locked] /\ pc[t] = "idle"
      /\ pc' = [pc EXCEPT ![t] = at]
      /\ arg' = [arg EXCEPT ![t] = m] /\ res' = [res EXCEPT ![t] = "none"]
  BY DEF TypeOK, Call
<1>2. \A u \in Thread \ {t} : Asked[pc'[u]] = Asked[pc[u]]
  BY <1>1
<1>3. pc'[t] = at
  BY <1>1
<1>4. Calls' = [Calls EXCEPT ![t] = [op |-> Asked[at], arg |-> m, res |-> "none"]]
  BY <1>1, <1>2, <1>3, CallsAfter
<1>5. Calls[t].op = "idle"
  BY <1>1 DEF Calls, Asked
<1> QED BY <1>4, <1>5 DEF Fifo!Invoke, Fifo!Pending, Calls

(* A step of thread t that takes effect: it is answered r, and at most one     *)
(* other thread is woken.                                                      *)
LEMMA Answers ==
  ASSUME TypeOK, NEW t \in Thread, NEW r, Leave(t, r), pc'[t] = "unlock",
         \A u \in Thread \ {t} : Asked[pc'[u]] = Asked[pc[u]]
  PROVE  Calls' = Fifo!Answered(t, r)
<1>1. \A u \in Thread : arg'[u] = (IF u = t THEN "none" ELSE arg[u]) /\ res'[u] = IF u = t THEN r ELSE res[u]
  BY DEF Leave, TypeOK
<1>2. Asked[pc'[t]] = "done"
  BY DEF Asked
<1>3. Calls' = [Calls EXCEPT ![t] = [op |-> "done", arg |-> "none", res |-> r]]
  BY <1>1, <1>2 DEF Calls
<1>4. Fifo!Answered(t, r) = [Calls EXCEPT ![t] = [op |-> "done", arg |-> "none", res |-> r]]
  BY AnswerOf DEF Fifo!Answered, Calls
<1> QED BY <1>3, <1>4

(* A signal wakes at most one sleeping popper, as BoundedFifo lets it. *)
LEMMA OthersWoken ==
  ASSUME TypeOK, NEW t \in Thread, pc[t] # "pop_wait",
         \/ pc' = [pc EXCEPT ![t] = "unlock"]
         \/ \E w \in Waiting : pc' = [[pc EXCEPT ![t] = "unlock"] EXCEPT ![w] = "pop_lock"]
  PROVE  pc'[t] = "unlock" /\ \A u \in Thread \ {t} : Asked[pc'[u]] = Asked[pc[u]]
<1>1. pc \in [Thread -> {"idle", "pop_wait"} \cup AtLock \cup Locked]
  BY DEF TypeOK
<1>2. CASE pc' = [pc EXCEPT ![t] = "unlock"]
  BY <1>1, <1>2
<1>3. ASSUME NEW w \in Waiting, pc' = [[pc EXCEPT ![t] = "unlock"] EXCEPT ![w] = "pop_lock"]
      PROVE  pc'[t] = "unlock" /\ \A u \in Thread \ {t} : Asked[pc'[u]] = Asked[pc[u]]
  <2>1. w \in Thread /\ pc[w] = "pop_wait" /\ w # t
    BY <1>3 DEF Waiting
  <2>2. pc'[w] = "pop_lock" /\ \A u \in Thread \ {t, w} : pc'[u] = pc[u]
    BY <1>1, <1>3, <2>1
  <2>3. Asked["pop_lock"] = Asked["pop_wait"]
    BY DEF Asked
  <2> QED BY <1>1, <1>3, <2>1, <2>2, <2>3
<1> QED BY <1>2, <1>3

(* Every step of the ring is a step of the queue it promises, or none at all. *)
LEMMA StepSimulation ==
  ASSUME Simulated, Inv', [Next]_vars
  PROVE  [Fifo!FifoNext]_<<Contents, Calls>>
<1>1. /\ Inv /\ TypeOK /\ CallOK /\ Fitted /\ Settled
      /\ pc \in [Thread -> {"idle", "pop_wait"} \cup AtLock \cup Locked]
      /\ Pusher \subseteq Thread /\ Popper \subseteq Thread
      /\ Thread = Fifo!Thread
  BY DEF Simulated, Inv, TypeOK, Thread, Fifo!Thread
<1>2. UNCHANGED <<head, count, data>> => Contents' = Contents
  BY DEF Contents
<1>3. /\ \A t \in Thread : Calls[t].op = Asked[pc[t]] /\ Calls[t].arg = arg[t]
      /\ Len(Contents) = count /\ Contents \in Seq(Text) /\ count \in 0 .. Size
  BY <1>1, ContentsAre DEF Calls, TypeOK
<1>4. ASSUME NEW t \in Pusher, NEW m \in Text, PushCall(t, m) PROVE Fifo!FifoNext
  <2>1. Fifo!Invoke(t, Asked["push_lock"], m)
    BY <1>1, <1>2, <1>4, Invokes DEF PushCall, Call, AtLock
  <2> QED BY <2>1 DEF Fifo!FifoNext, Asked
<1>5. ASSUME NEW t \in Popper, PopCall(t) \/ EmptyCall(t) PROVE Fifo!FifoNext
  <2>1. Fifo!Invoke(t, Asked["pop_lock"], "none") \/ Fifo!Invoke(t, Asked["empty_lock"], "none")
    BY <1>1, <1>2, <1>5, Invokes DEF PopCall, EmptyCall, Call, AtLock
  <2> QED BY <2>1 DEF Fifo!FifoNext, Asked
<1>6. ASSUME NEW t \in Pusher, PushFull(t) PROVE Fifo!FifoNext
  <2>1. Calls[t].op = "push" /\ Len(Contents) = Size /\ Contents' = Contents
    BY <1>1, <1>2, <1>3, <1>6, SizeAssumption DEF PushFull, Full, Asked
  <2>2. Calls' = Fifo!Answered(t, "full")
    BY <1>1, <1>6, OthersWoken, Answers DEF PushFull
  <2>3. Fifo!Reject(t)
    BY <2>1, <2>2 DEF Fifo!Reject, Calls
  <2> QED BY <2>3 DEF Fifo!FifoNext
<1>7. ASSUME NEW t \in Pusher, PushStore(t) PROVE Fifo!FifoNext
  <2>1. Calls[t].op = "push" /\ Calls[t].arg = arg[t] /\ Len(Contents) < Size
    BY <1>1, <1>3, <1>7, SizeAssumption DEF PushStore, Full, Asked
  <2>2. Contents' = Append(Contents, Fit[arg[t]])
    BY <1>1, <1>7, StoreAppends
  <2>3. Calls' = Fifo!Answered(t, "ok")
    BY <1>1, <1>7, OthersWoken, Answers DEF PushStore, Signalled
  <2>4. Fifo!Push(t)
    BY <2>1, <2>2, <2>3 DEF Fifo!Push, Calls
  <2> QED BY <2>4 DEF Fifo!FifoNext
<1>8. ASSUME NEW t \in Popper, PopTake(t) PROVE Fifo!FifoNext
  <2>1. Calls[t].op = "pop" /\ Fit[data[head]] = data[head]
    BY <1>1, <1>3, <1>8 DEF PopTake, Asked, Fitted, TypeOK
  <2>2. Contents # <<>> /\ Head(Contents) = data[head] /\ Contents' = Tail(Contents)
    BY <1>1, <1>8, TakeRemoves
  <2>3. Calls' = Fifo!Answered(t, data[head])
    BY <1>1, <1>8, <2>1, OthersWoken, Answers DEF PopTake
  <2>4. Fifo!Pop(t)
    BY <2>1, <2>2, <2>3 DEF Fifo!Pop, Calls
  <2> QED BY <2>4 DEF Fifo!FifoNext
<1>9. ASSUME NEW t \in Popper, EmptyTest(t) PROVE Fifo!FifoNext
  <2>1. Calls[t].op = "is_empty" /\ Contents' = Contents
    BY <1>1, <1>2, <1>3, <1>9 DEF EmptyTest, Asked
  <2>2. Contents = <<>> <=> count = 0
    BY <1>3
  <2>3. Calls' = Fifo!Answered(t, IF Contents = <<>> THEN "empty" ELSE "nonempty")
    BY <1>1, <1>9, <2>2, OthersWoken, Answers DEF EmptyTest
  <2>4. Fifo!Probe(t)
    BY <2>1, <2>3 DEF Fifo!Probe, Calls
  <2> QED BY <2>4 DEF Fifo!FifoNext
<1>10. ASSUME NEW t \in Thread, Lock(t) PROVE UNCHANGED <<Contents, Calls>>
  <2>1. Asked[Body[pc[t]]] = Asked[pc[t]]
    BY <1>10 DEF Lock, AtLock, Body, Asked
  <2> QED BY <1>1, <1>2, <1>10, <2>1, Unseen DEF Lock
<1>11. ASSUME NEW t \in Popper, PopWait(t) \/ SpuriousWakeup(t) PROVE UNCHANGED <<Contents, Calls>>
  <2>1. Asked["pop_wait"] = Asked["pop_body"] /\ Asked["pop_lock"] = Asked["pop_wait"]
    BY DEF Asked
  <2> QED BY <1>1, <1>2, <1>11, <2>1, Unseen DEF PopWait, SpuriousWakeup
<1>12. ASSUME NEW t \in Thread, Unlock(t) PROVE Fifo!FifoNext
  <2>1. /\ pc[t] = "unlock" /\ pc' = [pc EXCEPT ![t] = "idle"] /\ Contents' = Contents
        /\ arg' = arg /\ res' = res /\ arg[t] = "none"
    BY <1>1, <1>2, <1>12 DEF Unlock, Settled
  <2>2. Calls' = [Calls EXCEPT ![t] = [op |-> "idle", arg |-> "none", res |-> Calls[t].res]]
    <3>1. arg' = [arg EXCEPT ![t] = "none"] /\ res' = [res EXCEPT ![t] = Calls[t].res]
      BY <1>1, <2>1 DEF TypeOK, Calls
    <3>2. \A u \in Thread \ {t} : Asked[pc'[u]] = Asked[pc[u]]
      BY <1>1, <2>1
    <3>3. Asked[pc'[t]] = "idle"
      BY <1>1, <2>1 DEF Asked
    <3> HIDE DEF Calls
    <3> QED BY <1>1, <3>1, <3>2, <3>3, CallsAfter
  <2>3. Calls[t].op = "done"
    BY <1>3, <2>1 DEF Asked
  <2>4. Fifo!Return(t)
    BY <2>1, <2>2, <2>3 DEF Fifo!Return, Fifo!Idle, Calls
  <2> QED BY <1>1, <2>4 DEF Fifo!FifoNext
<1>13. CASE UNCHANGED vars
  <2>1. UNCHANGED <<Contents, Calls>>
    BY <1>13 DEF vars, Contents, Calls
  <2> QED BY <2>1
<1> QED BY <1>4, <1>5, <1>6, <1>7, <1>8, <1>9, <1>10, <1>11, <1>12, <1>13 DEF Next

(* uart_queue.c implements a linearizable bounded queue: whatever the threads  *)
(* do, each call takes effect at one instant, its body under the mutex.        *)
THEOREM RingIsFifo == Spec => ImplementsFifo
<1>1. Init => Fifo!FifoInit
  BY ContentsIsRing DEF Init, Fifo!FifoInit, Fifo!Idle, Fifo!Thread, Thread, Contents, Asked
<1>2. Simulated => Inv
  BY DEF Simulated
<1>3. Simulated /\ Inv' /\ [Next]_vars => [Fifo!FifoNext]_Fifo!fifoVars
  BY StepSimulation DEF Fifo!fifoVars, Calls
<1> QED BY InitSimulated, NextSimulated, <1>1, <1>2, <1>3, PTL
        DEF Spec, ImplementsFifo, Fifo!FifoSpec
=============================================================================

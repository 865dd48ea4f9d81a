----------------------------- MODULE BoundedFifo -----------------------------
(* What uart_queue.c promises its callers: a bounded first-in first-out queue  *)
(* shared by several threads.  Every call takes effect at one instant between  *)
(* its invocation and its return: a push of a full queue fails and changes     *)
(* nothing, a pop takes effect only once there is a message.                   *)
EXTENDS Naturals, Sequences

CONSTANTS Pusher,   \* threads that call queue_push
          Popper,   \* threads that call queue_pop and queue_is_empty
          Text,     \* the strings that are pushed
          Fit,      \* what is left of a string in a slot of UART_DATA_MAX bytes
          Capacity  \* UART_QUEUE_SIZE

VARIABLES q,        \* the messages, oldest first
          call      \* call[t]: what thread t asked for and what it was answered

fifoVars == <<q, call>>

Thread == Pusher \cup Popper

Idle(res)  == [op |-> "idle", arg |-> "none", res |-> res]
Pending(op, arg) == [op |-> op, arg |-> arg, res |-> "none"]
Answered(t, res) == [call EXCEPT ![t].op = "done", ![t].arg = "none", ![t].res = res]

FifoInit == /\ q = <<>>
            /\ call = [t \in Thread |-> Idle("none")]

Invoke(t, op, arg) == /\ call[t].op = "idle"
                      /\ call' = [call EXCEPT ![t] = Pending(op, arg)]
                      /\ UNCHANGED q

Push(t) == /\ call[t].op = "push"
           /\ Len(q) < Capacity
           /\ q' = Append(q, Fit[call[t].arg])
           /\ call' = Answered(t, "ok")

Reject(t) == /\ call[t].op = "push"
             /\ Len(q) = Capacity
             /\ call' = Answered(t, "full")
             /\ UNCHANGED q

Pop(t) == /\ call[t].op = "pop"
          /\ q # <<>>
          /\ q' = Tail(q)
          /\ call' = Answered(t, Head(q))

Probe(t) == /\ call[t].op = "is_empty"
            /\ call' = Answered(t, IF q = <<>> THEN "empty" ELSE "nonempty")
            /\ UNCHANGED q

Return(t) == /\ call[t].op = "done"
             /\ call' = [call EXCEPT ![t] = Idle(call[t].res)]
             /\ UNCHANGED q

FifoNext == \/ \E t \in Pusher : (\E m \in Text : Invoke(t, "push", m)) \/ Push(t) \/ Reject(t)
            \/ \E t \in Popper : \/ Invoke(t, "pop", "none") \/ Pop(t)
                                 \/ Invoke(t, "is_empty", "none") \/ Probe(t)
            \/ \E t \in Thread : Return(t)

FifoSpec == FifoInit /\ [][FifoNext]_fifoVars
=============================================================================

----------------------------- MODULE RouteProofs ------------------------------
(* The way back of a route, for routes of every length.                        *)
EXTENDS Route, TLAPS

(* A number that stands for no action is a stop, so whatever a message carries *)
(* becomes a route of actions.                                                 *)
LEMMA Decoding ==
  ASSUME NEW raw \in Seq(Int)
  PROVE  /\ create_route(raw).steps \in Seq(Action)
         /\ Len(create_route(raw).steps) = Len(raw)
<1>1. DOMAIN raw = 1 .. Len(raw) /\ Len(raw) \in Nat
  OBVIOUS
<1>2. \A n : Decode(n) \in Action
  BY DEF Decode, Action
<1>3. create_route(raw).steps = [i \in 1 .. Len(raw) |-> Decode(raw[i])]
  BY <1>1 DEF create_route
<1> QED
  BY <1>1, <1>2, <1>3

LEMMA ReverseSteps ==
  ASSUME NEW steps \in Seq(Action)
  PROVE  /\ reverse_route(steps) \in Seq(Action)
         /\ Len(reverse_route(steps)) = Len(steps)
         /\ \A i \in 1 .. Len(steps) :
              reverse_route(steps)[i] = reverse_action(steps[Len(steps) + 1 - i])
<1>1. Len(steps) \in Nat
  OBVIOUS
<1>2. \A a \in Action : reverse_action(a) \in Action
  BY DEF reverse_action, Action
<1>3. \A i \in 1 .. Len(steps) : steps[Len(steps) + 1 - i] \in Action
  <2> SUFFICES ASSUME NEW i \in 1 .. Len(steps)
               PROVE  steps[Len(steps) + 1 - i] \in Action
    OBVIOUS
  <2>1. Len(steps) + 1 - i \in 1 .. Len(steps)
    BY <1>1
  <2> QED
    BY <2>1
<1>4. reverse_route(steps) \in [1 .. Len(steps) -> Action]
  BY <1>2, <1>3 DEF reverse_route
<1> QED
  BY <1>1, <1>4 DEF reverse_route

(* route.c: reverse_route gives the way back.  The way back of the way back is *)
(* the route itself: no step is lost, and each turn is turned round twice.     *)
THEOREM WayBackTwice ==
  ASSUME NEW steps \in Seq(Action)
  PROVE  reverse_route(reverse_route(steps)) = steps
<1> DEFINE n == Len(steps)  back == reverse_route(steps)
<1>1. n \in Nat /\ back \in Seq(Action) /\ Len(back) = n
  BY ReverseSteps
<1>2. \A a \in Action : reverse_action(reverse_action(a)) = a
  BY DEF reverse_action, Action, LEFT, RIGHT, STRAIGHT, STOP
<1>3. ASSUME NEW i \in 1 .. n
      PROVE  reverse_action(back[n + 1 - i]) = steps[i]
  <2>1. n + 1 - i \in 1 .. n /\ n + 1 - (n + 1 - i) = i
    BY <1>1
  <2>2. back[n + 1 - i] = reverse_action(steps[i])
    BY <2>1, ReverseSteps
  <2> QED
    BY <1>2, <2>2
<1>4. reverse_route(back) = [i \in 1 .. n |-> reverse_action(back[n + 1 - i])]
  BY <1>1 DEF reverse_route
<1>5. steps = [i \in 1 .. n |-> steps[i]]
  OBVIOUS
<1> QED
  BY <1>3, <1>4, <1>5
=============================================================================

-------------------------------- MODULE Route ---------------------------------
(* user_space/route/route.c: the steps the dispatcher orders, and the position *)
(* of the vehicle among them.  Pointers, and the memory behind them, are left  *)
(* to the modules that share a route between threads.                          *)
EXTENDS Integers, Sequences

STRAIGHT == 1
RIGHT    == 2
LEFT     == 3
STOP     == 4
Action   == {STRAIGHT, RIGHT, LEFT, STOP}

(* A number that stands for no action makes the vehicle stop. *)
Decode(n) == IF n \in Action THEN n ELSE STOP

create_route(raw) == [steps |-> [i \in DOMAIN raw |-> Decode(raw[i])], current |-> 0]

(* current counts the steps that were taken. *)
has_next(r)    == r.current < Len(r.steps)
next_step(r)   == IF has_next(r) THEN r.steps[r.current + 1] ELSE STOP
reset_route(r) == [r EXCEPT !.current = 0]

reverse_action(a) == IF a = LEFT THEN RIGHT ELSE IF a = RIGHT THEN LEFT ELSE a

(* The way back: the steps in reverse order, each the other way round. *)
reverse_route(steps) ==
  [i \in 1 .. Len(steps) |-> reverse_action(steps[Len(steps) + 1 - i])]
=============================================================================

------------------------------ MODULE MotorCtrl ------------------------------
(* user_space/sensors/motor/motor.c on top of the driver, under the programs   *)
(* that use it, which run one after the other: the line following program a04, *)
(* whose threads call apply_motor_speed and stop_all_motors, which hold        *)
(* motor_mutex, while its main thread starts the wheels without the mutex; the *)
(* keyboard program (test_motor.c, and motorgpt/user.c), in its interactive and*)
(* in its command mode; and programs that issue the commands of the driver for *)
(* both wheels, of which the repository has none.  A program may end at any    *)
(* point, and the driver keeps its state until the next one.                   *)
EXTENDS MotorDriver

CONSTANTS Main,           \* the main thread of the program that runs
          Speeds,         \* the speeds the line following program asks for, in percent
          Arguments,      \* the speeds on the command line of test_motor: any number
          InitSpeed,      \* the speeds in motor_state when the keyboard program starts
          Increment       \* what one key adds to the speeds: 10

ASSUME MainAssumption == Main \in Client /\ "free" \notin Client
ASSUME SpeedsAssumption == Speeds \subseteq 0 .. Percent /\ Arguments \subseteq Int
ASSUME KeysAssumption == InitSpeed \in 0 .. Percent /\ Increment \in Nat \ {0}

VARIABLES body,           \* body[c]: what is left of the library call of c
          motor_mutex,    \* its owner, or "free"
          motor_state,    \* of the keyboard program: what each wheel was last set to
          process,        \* what runs: "none", "line_start" until the main thread of a04
                          \* has started the wheels, then "line"; "hand_start" until the
                          \* keyboard program has set the period, then "keys" or
                          \* "command" and "commanded", and "ending"; "direct"
          asked           \* history: what the last call asked of each wheel, if that is sure

library == <<body, motor_mutex, motor_state, process>>
vars == <<driver, library, asked>>

Hand == {"hand_start", "keys", "command", "commanded"}

-----------------------------------------------------------------------------
(* The library calls, as sequences of statements *)

St(st, side, a, b) == [st |-> st, side |-> side, a |-> a, b |-> b]
set_motor(s, v, dir) == <<St("speed", s, v, dir), St("direction", s, dir, 0)>>
set_motors(l, dl, r, dr) == set_motor("left", l, dl) \o set_motor("right", r, dr)

LockedMutNoLock(stmts) == stmts
Locked(stmts) == <<St("lock", "", 0, 0)>> \o stmts \o <<St("unlock", "", 0, 0)>>
apply_motor_speed(l, r) == Locked(set_motors(l, 1, r, 1))
stop_all_motors == Locked(<<St("stop", "", 0, 0)>>)

Within(v, low, high) == IF v < low THEN low ELSE IF v > high THEN high ELSE v
Clamped(percent) == Within(percent, 0, Percent)
speed_to_duty_ns(percent) == Mul(DefaultPeriod, Clamped(percent)) \div Percent

(* The ioctl of a statement; "both" stands for the four commands of the driver *)
(* that turn both wheels, the left one in direction a and the right one in b.  *)
Command(st) ==
  CASE st.st = "speed" -> SET_SPEED(st.side, speed_to_duty_ns(st.a))
    [] st.st = "direction" /\ st.a > 0 -> FORWARD(st.side)
    [] st.st = "direction" /\ st.a < 0 -> BACKWARD(st.side)
    [] st.st = "direction" /\ st.a = 0 -> STOP(st.side)
    [] st.st = "stop" -> BOTH_STOP
    [] st.st = "both" -> (IF st.a = 1 THEN IF st.b = 1 THEN BOTH_FORWARD ELSE TURN_RIGHT
                          ELSE IF st.b = 1 THEN TURN_LEFT ELSE BOTH_BACKWARD)
    [] st.st = "period" -> SET_PERIOD(st.a)
Ioctls   == {"speed", "direction", "stop", "both", "period"}
Unlocked == Ioctls \cup {"wait"}

(* What a sequence of statements asks of the wheels: nothing is sure when it   *)
(* runs at the same time as another one.  A change of the period asks nothing. *)
Unsure == [sure |-> FALSE, dir |-> 0, pct |-> 0]
Find(stmts, S) == {i \in DOMAIN stmts : stmts[i].st \in S}
Request(stmts) ==
  [s \in Side |->
     LET own    == {i \in DOMAIN stmts : stmts[i].side = s}
         speeds == own \cap Find(stmts, {"speed"})
         dirs   == own \cap Find(stmts, {"direction"})
         both   == Find(stmts, {"stop", "both"})
     IN IF Find(stmts, {"period"}) # {} THEN asked[s]
        ELSE [sure |-> TRUE,
              dir  |-> IF dirs # {} THEN stmts[CHOOSE i \in dirs : TRUE].a
                       ELSE LET st == stmts[CHOOSE i \in both : TRUE] IN
                            IF s = "left" THEN st.a ELSE st.b,
              pct  |-> IF speeds = {} THEN asked[s].pct
                       ELSE Clamped(stmts[CHOOSE i \in speeds : TRUE].a)]]

-----------------------------------------------------------------------------
Start(c, stmts) ==
  /\ body[c] = <<>>
  /\ body' = [body EXCEPT ![c] = stmts]
  /\ asked' = IF stmts[1].st = "lock" THEN asked
              ELSE IF motor_mutex # "free" THEN [s \in Side |-> Unsure]
              ELSE Request(stmts)
  /\ UNCHANGED <<driver, motor_mutex>>

Line == process \in {"line_start", "line"}

(* The threads of a04 run before its main thread has started the wheels. *)
Apply(c) == /\ Line /\ c # Main
            /\ \E l, r \in Speeds : Start(c, apply_motor_speed(l, r))
            /\ UNCHANGED <<process, motor_state>>
Stop(c)  == /\ IF c = Main THEN process \in {"line", "keys"} ELSE Line
            /\ Start(c, stop_all_motors)
            /\ UNCHANGED <<process, motor_state>>
Begin    == /\ process = "line_start" /\ process' = "line"
            /\ \E v \in Speeds : Start(Main, set_motors(v, 1, v, 1))
            /\ UNCHANGED motor_state

(* The keyboard program sets the period it computes duty cycles with, then     *)
(* reads keys, or executes the command of its command line.                    *)
SetPwmPeriod == /\ process = "hand_start" /\ process' \in {"keys", "command"}
                /\ Start(Main, <<St("period", "", DefaultPeriod, 0)>>)
                /\ UNCHANGED motor_state

(* move_forward, move_backward, turn_left and turn_right: the speeds stay.     *)
Move(dl, dr) ==
  set_motors(motor_state.left.speed, dl, motor_state.right.speed, dr)
MoveKey == /\ process = "keys" /\ UNCHANGED <<process, motor_state>>
           /\ \E dl, dr \in {-1, 1} : Start(Main, Move(dl, dr))

(* The keys + and -: both wheels get the speed of the left one, changed, and   *)
(* keep their directions.                                                      *)
SpeedKey ==
  /\ process = "keys" /\ UNCHANGED process
  /\ \E by \in {Increment, -Increment} :
       LET v == Clamped(motor_state.left.speed + by) IN
       /\ motor_state' = [s \in Side |-> [motor_state[s] EXCEPT !.speed = v]]
       /\ Start(Main, set_motors(v, motor_state.left.dir, v, motor_state.right.dir))

(* The key 0 sets the speeds for the next movement. *)
FullSpeedKey ==
  /\ process = "keys" /\ body[Main] = <<>>
  /\ motor_state' = [s \in Side |-> [motor_state[s] EXCEPT !.speed = Percent]]
  /\ UNCHANGED <<driver, body, motor_mutex, process, asked>>

(* A command line has one movement, or a stop, and then the program ends. *)
CommandMode ==
  /\ process = "command" /\ process' = "commanded"
  /\ \/ \E v \in Arguments \cup {InitSpeed}, dl, dr \in {-1, 1} :
          /\ motor_state' = [s \in Side |-> [motor_state[s] EXCEPT !.speed = v]]
          /\ Start(Main, set_motors(v, dl, v, dr))
     \/ Start(Main, stop_all_motors) /\ UNCHANGED motor_state

(* cleanup_and_exit, at the key q, after a command, or on a signal in the      *)
(* middle of a call: the motors are stopped without the mutex, and the program *)
(* is about to end.                                                            *)
cleanup_and_exit ==
  /\ process \in Hand /\ process' = "ending"
  /\ todo[Main] = <<>>
  /\ body' = [body EXCEPT ![Main] = <<St("stop", "", 0, 0)>>]
  /\ asked' = Request(body'[Main])
  /\ UNCHANGED <<driver, motor_mutex, motor_state>>

Direct == /\ process = "direct" /\ UNCHANGED <<process, motor_state>>
          /\ \E a, b \in {-1, 1} : Start(Main, <<St("both", "", a, b)>>)

Lock(c) ==
  /\ body[c] # <<>> /\ body[c][1].st = "lock"
  /\ motor_mutex = "free"
  /\ motor_mutex' = c
  /\ asked' = IF Line /\ c # Main /\ body[Main] # <<>> /\ body[Main][1].st \in Unlocked
              THEN [s \in Side |-> Unsure] ELSE Request(body[c])
  /\ body' = [body EXCEPT ![c] = Tail(@)]
  /\ UNCHANGED <<driver, motor_state, process>>

Unlock(c) ==
  /\ body[c] # <<>> /\ body[c][1].st = "unlock"
  /\ motor_mutex' = "free"
  /\ body' = [body EXCEPT ![c] = Tail(@)]
  /\ UNCHANGED <<driver, motor_state, process, asked>>

(* set_left_motor and set_right_motor note the speed and the direction before  *)
(* the first ioctl, stop_all_motors the directions after its ioctl.  Only the  *)
(* keyboard program reads them again.                                          *)
NotedAtStopMutKeepsDir == motor_state
NotedAtStop == [s \in Side |-> [motor_state[s] EXCEPT !.dir = 0]]
Issue(c) ==
  /\ body[c] # <<>> /\ body[c][1].st \in Ioctls
  /\ Ioctl(c, Command(body[c][1]))
  /\ LET st == body[c][1] IN
     /\ motor_state' = IF ~Line /\ st.st = "speed"
                       THEN [motor_state EXCEPT ![st.side] = [speed |-> st.a, dir |-> st.b]]
                       ELSE motor_state
     /\ body' = [body EXCEPT ![c][1] = St("wait", st.side, 0, IF st.st = "stop" THEN 1 ELSE 0)]
  /\ UNCHANGED <<motor_mutex, process, asked>>

(* The ioctl returns.  If it failed, apply_motor_speed gives up and unlocks    *)
(* the mutex; a movement goes on with the other wheel.                         *)
AfterFailure(c) ==
  SelectSeq(Tail(body[c]), LAMBDA st : IF Line THEN st.st = "unlock"
                                       ELSE st.side # body[c][1].side)
Return(c) ==
  /\ body[c] # <<>> /\ body[c][1].st = "wait" /\ todo[c] = <<>>
  /\ body' = [body EXCEPT ![c] = IF ret[c] = 0 THEN Tail(@) ELSE AfterFailure(c)]
  /\ motor_state' = IF ~Line /\ body[c][1].b = 1 /\ ret[c] = 0 THEN NotedAtStop ELSE motor_state
  /\ UNCHANGED <<driver, motor_mutex, process, asked>>

StartState == [s \in Side |-> [speed |-> InitSpeed, dir |-> 0]]

(* The process ends, in the middle of whatever its threads do. *)
Exit ==
  /\ process # "none" /\ process' = "none"
  /\ motor_release
  /\ body' = [c \in Client |-> <<>>] /\ motor_mutex' = "free" /\ motor_state' = StartState
  /\ asked' = [s \in Side |-> [sure |-> TRUE, dir |-> 0, pct |-> speed[s]]]

Restart == /\ process = "none" /\ process' \in {"hand_start", "line_start", "direct"}
           /\ UNCHANGED <<driver, body, motor_mutex, motor_state, asked>>

Init == /\ DriverInit
        /\ body = [c \in Client |-> <<>>]
        /\ motor_mutex = "free" /\ motor_state = StartState
        /\ process = "none"
        /\ asked = [s \in Side |-> [sure |-> TRUE, dir |-> 0, pct |-> 0]]

Step(c) == \/ Apply(c) \/ Stop(c) \/ Lock(c) \/ Unlock(c) \/ Issue(c) \/ Return(c)
           \/ Operation(c) /\ UNCHANGED <<library, asked>>
Next == (\E c \in Client : Step(c)) \/ Begin \/ SetPwmPeriod \/ MoveKey \/ SpeedKey
        \/ FullSpeedKey \/ CommandMode \/ cleanup_and_exit \/ Direct \/ Exit \/ Restart
Spec == Init /\ [][Next]_vars

-----------------------------------------------------------------------------
TypeOK ==
  /\ pin \in [{"in1", "in2", "in3", "in4"} -> 0 .. 1]
  /\ \A ch \in DOMAIN pwm : pwm[ch].duty \in 0 .. pwm[ch].period /\ pwm[ch].on \in BOOLEAN
  /\ \A s \in Side : speed[s] \in 0 .. Percent
  /\ \A c \in Client : ret[c] \in {0, -1} /\ Len(todo[c]) <= 8 /\ Len(body[c]) <= 6
  /\ motor_mutex \in Client \cup {"free"}
  /\ motor_state \in [Side -> [speed : 0 .. Percent \cup Arguments, dir : {-1, 0, 1}]]
  /\ process \in Hand \cup {"none", "line_start", "line", "ending", "direct"}

Settled == \A c \in Client : body[c] = <<>> /\ todo[c] = <<>>

(* Whatever calls of several threads ran at the same time, once all have       *)
(* returned each wheel does what the last of them asked, although percentages  *)
(* are turned into duty cycles and back into percentages, and a duty cycle     *)
(* again.  (Only the first start of the wheels in a04, which does not take the *)
(* mutex, may mix with another call, until the next call.)                     *)
WheelsAsAsked ==
  Settled => \A s \in Side : asked[s].sure =>
    /\ Turning(s) = (IF asked[s].pct = 0 THEN 0 ELSE asked[s].dir)
    /\ Turning(s) # 0 => Power(s) = asked[s].pct

(* However a process ends, in the middle of a call or not, the wheels stop.    *)
NoProcessNoTurning == process = "none" => \A s \in Side : Turning(s) = 0

(* What display_status shows is what the wheels do, at every key and whatever  *)
(* speeds an earlier program left in the driver; only the key 0 shows a speed  *)
(* that the wheels get with the next movement.                                 *)
StatusIsTrue ==
  process = "keys" /\ Settled => \A s \in Side : LET m == motor_state[s] IN
    /\ Turning(s) \in {0, m.dir}
    /\ Turning(s) # 0 => m.speed \in {Power(s), Percent}
    /\ m.speed \in 1 .. Percent - 1 => Turning(s) = m.dir
=============================================================================

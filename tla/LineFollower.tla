---------------------------- MODULE LineFollower -----------------------------
(* user_space/test/a04/a04_test.c: the line following program.  The main       *)
(* thread starts and ends it; the tcrt thread reads the three infrared sensors *)
(* and calls logic, which steers; the hcsr thread measures the distance ahead  *)
(* and calls my_distance_cb, which stops the car before an obstacle.  a05 has  *)
(* the same handlers and the UART and MQTT calls on top, but never opens the   *)
(* motor device.  Motor calls are those of sensors/motor/motor.c.              *)
EXTENDS Integers, Sequences, FiniteSets

CONSTANTS HistoryLen,     \* STATE_HISTORY
          CheckN,         \* LINEAR_CHECK_N
          Threshold,      \* LINEAR_THRESHOLD
          DerailCount,    \* DERAIL_SET_COUNT
          DerailTime,     \* DERAIL_SET_TIME, in ticks of the clock
          ObstacleDelay,  \* OBSTACLE_DELAY, in ticks of the clock
          Codes,          \* the sensor codes that occur
          MotorOpens      \* whether main opens /dev/motor: a04 does, a05 does not

ASSUME HistoryAssumption == /\ HistoryLen \in Nat \ {0}
                            /\ CheckN \in 1 .. HistoryLen
                            /\ Threshold \in 1 .. CheckN
ASSUME CodesAssumption   == Codes \subseteq 0 .. 7
ASSUME DerailAssumption  == DerailCount \in Nat \ {0} /\ DerailTime \in Nat
ASSUME ObstacleAssumption == ObstacleDelay \in Nat

SPEED_INIT == 40
SPEED_MIN == 40
SPEED_MAX == 100
SPEED_MINOR == 5
SPEED_MAJOR == 10
SPEED_RECOVER == 15

VARIABLES at,               \* at[t]: the next statement of thread t
          call,             \* call[t]: the motor operations t is in the middle of
          motor_mutex,      \* its owner, or "free"
          wheels,           \* the speed of each wheel, 0 when stopped
          stop_flag, node_active,
          recent,           \* last_codes: recent[i] is the i-th latest code
          derail_count,     \* of the left and of the right counter
          derail_age,       \* the time since derail_time; since 0 it is DerailTime or more
          obstacle_detected, obstacle_age,
          buzzer,           \* whether it sounds
          devices,          \* whether the sensors and the buzzer are open
          tcrt,             \* locals of the tcrt thread
          front,            \* the distance ahead, as the hcsr thread measured it
          track             \* environment: "lost" once there is no line any more

vars == <<at, call, motor_mutex, wheels, stop_flag, node_active, recent, derail_count,
          derail_age, obstacle_detected, obstacle_age, buzzer, devices, tcrt, front, track>>
motor    == <<call, motor_mutex, wheels>>
derail   == <<derail_count, derail_age>>
obstacle == <<obstacle_detected, obstacle_age, buzzer>>

Thread == {"tcrt", "hcsr", "main"}
Side   == {"left", "right"}
Place  == {"none", "loop", "check", "logic", "count", "after", "done", "callback", "halt",
           "resume", "create_tcrt", "create_hcsr", "drive", "wait", "close", "join_tcrt",
           "join_hcsr", "exit"}
Ended  == {"none", "done"}
Running == at["main"] # "exit"    \* the end of main ends the process
Stopped == wheels.left = 0 /\ wheels.right = 0
NoLocals == [code |-> 2, side |-> "left", seen |-> 0, late |-> FALSE, after |-> "none"]

-----------------------------------------------------------------------------
(* motor.c: apply_motor_speed and stop_all_motors as sequences of operations.  *)
(* An operator named ...Mut... is a variant, with a bug in it, of the          *)
(* definition that follows.                                                    *)

clamp_speedMutNoMin(s) == IF s > SPEED_MAX THEN SPEED_MAX ELSE s
clamp_speed(s) == IF s < SPEED_MIN THEN SPEED_MIN ELSE IF s > SPEED_MAX THEN SPEED_MAX ELSE s

Op(op, v) == [op |-> op, v |-> v]
set_motors(l, r) == <<Op("left", l), Op("right", r)>>
apply_motor_speed(l, r) ==
  <<Op("lock", 0)>> \o set_motors(clamp_speed(l), clamp_speed(r)) \o <<Op("unlock", 0)>>
stop_all_motorsMutNoUnlock == <<Op("lock", 0), Op("stop", 0)>>
stop_all_motors == <<Op("lock", 0), Op("stop", 0), Op("unlock", 0)>>

(* Without an open device every ioctl fails; then the wheels stay as they are, *)
(* and stop_all_motors returns before its unlock.                              *)
MotorStep(t) ==
  /\ Running /\ call[t] # <<>>
  /\ LET o == Head(call[t]) IN
     \/ /\ o.op = "lock" /\ motor_mutex = "free"
        /\ motor_mutex' = t
        /\ call' = [call EXCEPT ![t] = Tail(@)]
        /\ UNCHANGED wheels
     \/ /\ o.op \in Side
        /\ wheels' = IF MotorOpens THEN [wheels EXCEPT ![o.op] = o.v] ELSE wheels
        /\ call' = [call EXCEPT ![t] = Tail(@)]
        /\ UNCHANGED motor_mutex
     \/ /\ o.op = "stop" /\ MotorOpens
        /\ wheels' = [s \in Side |-> 0]
        /\ call' = [call EXCEPT ![t] = Tail(@)]
        /\ UNCHANGED motor_mutex
     \/ /\ o.op = "stop" /\ ~MotorOpens
        /\ call' = [call EXCEPT ![t] = <<>>]
        /\ UNCHANGED <<wheels, motor_mutex>>
     \/ /\ o.op = "unlock"
        /\ motor_mutex' = "free"
        /\ call' = [call EXCEPT ![t] = Tail(@)]
        /\ UNCHANGED wheels
  /\ UNCHANGED <<at, stop_flag, node_active, recent, derail, obstacle, devices, tcrt, front, track>>

(* Thread t is at statement a, not inside a motor call, and goes to b. *)
Goto(t, a, b) == Running /\ at[t] = a /\ call[t] = <<>> /\ at' = [at EXCEPT ![t] = b]
Calls(t, ops) == call' = [call EXCEPT ![t] = ops]

-----------------------------------------------------------------------------
(* The history of codes *)

Remember(code) == [i \in 1 .. HistoryLen |-> IF i = 1 THEN code ELSE recent[i - 1]]

find_last_validMutDefaultLeft(h) ==
  IF \A i \in 1 .. HistoryLen : h[i] = 0 THEN 1
  ELSE h[CHOOSE i \in 1 .. HistoryLen : h[i] # 0 /\ \A j \in 1 .. i - 1 : h[j] = 0]
find_last_valid(h) ==
  IF \A i \in 1 .. HistoryLen : h[i] = 0 THEN 2
  ELSE h[CHOOSE i \in 1 .. HistoryLen : h[i] # 0 /\ \A j \in 1 .. i - 1 : h[j] = 0]

LeftCodes  == {1, 3}
RightCodes == {4, 6}

Trend(h, S) == Cardinality({i \in 1 .. CheckN : h[i] \in S}) >= Threshold
is_left_shift(h)  == Trend(h, LeftCodes)
is_right_shift(h) == Trend(h, RightCodes)

-----------------------------------------------------------------------------
(* tcrt5000_thread_func and logic *)

(* The speeds of handle_state for a code that is on the line. *)
Steer(code) ==
  CASE code = 1 -> apply_motor_speed(SPEED_INIT + SPEED_MAJOR, SPEED_INIT - SPEED_MINOR)
    [] code = 3 -> apply_motor_speed(SPEED_INIT + SPEED_MINOR, SPEED_INIT - SPEED_MINOR)
    [] code = 4 -> apply_motor_speed(SPEED_INIT - SPEED_MINOR, SPEED_INIT + SPEED_MAJOR)
    [] code = 6 -> apply_motor_speed(SPEED_INIT - SPEED_MINOR, SPEED_INIT + SPEED_MINOR)
    [] OTHER    -> apply_motor_speed(SPEED_INIT, SPEED_INIT)

(* Turning back to the line after it was last seen with code last. *)
Recover(last) ==
  CASE last = 1 -> apply_motor_speed(SPEED_INIT + SPEED_RECOVER, SPEED_INIT - SPEED_RECOVER)
    [] last = 3 -> apply_motor_speed(SPEED_INIT + SPEED_MAJOR, SPEED_INIT - SPEED_MAJOR)
    [] last = 4 -> apply_motor_speed(SPEED_INIT - SPEED_RECOVER, SPEED_INIT + SPEED_RECOVER)
    [] last = 6 -> apply_motor_speed(SPEED_INIT - SPEED_MAJOR, SPEED_INIT + SPEED_MAJOR)
    [] OTHER    -> apply_motor_speed(SPEED_INIT, SPEED_INIT)

Sweep(side) == Recover(IF side = "left" THEN 1 ELSE 4)

(* The sensors are read; a read that fails changes nothing. *)
TcrtRead == /\ stop_flag = 0 /\ devices
            /\ Goto("tcrt", "loop", "check")
            /\ \E c \in Codes : /\ track = "lost" => c = 0
                                /\ tcrt' = [NoLocals EXCEPT !.code = c]
            /\ UNCHANGED <<motor, stop_flag, node_active, recent, derail, obstacle, devices, front, track>>

TcrtEnd == /\ stop_flag = 1
           /\ Goto("tcrt", "loop", "done")
           /\ UNCHANGED <<motor, stop_flag, node_active, recent, derail, obstacle, devices, tcrt, front, track>>

TcrtCheckMutIgnores ==
  /\ Goto("tcrt", "check", "logic")
  /\ UNCHANGED <<motor, stop_flag, node_active, recent, derail, obstacle, devices, tcrt, front, track>>
TcrtCheck == /\ Goto("tcrt", "check", IF node_active THEN "loop" ELSE "logic")
             /\ UNCHANGED <<motor, stop_flag, node_active, recent, derail, obstacle, devices, tcrt, front, track>>

(* logic: the code enters the history, then handle_state.  On the line, or     *)
(* with a trend to one side, the motors are set and the counters reset.        *)
TcrtLogic ==
  LET c == tcrt.code
      h == Remember(c)
      last == find_last_valid(h)
      trend == is_left_shift(h) \/ is_right_shift(h)
  IN /\ recent' = h
     /\ \/ /\ c = 5
           /\ Goto("tcrt", "logic", "after") /\ Calls("tcrt", stop_all_motors)
           /\ tcrt' = [tcrt EXCEPT !.after = "stop"] /\ UNCHANGED derail_age
        \/ /\ c \notin {0, 5}
           /\ Goto("tcrt", "logic", "after") /\ Calls("tcrt", Steer(c))
           /\ tcrt' = [tcrt EXCEPT !.after = "reset"] /\ UNCHANGED derail_age
        \/ /\ c = 0 /\ trend
           /\ Goto("tcrt", "logic", "after")
           /\ Calls("tcrt", IF last \in (IF is_left_shift(h) THEN LeftCodes ELSE RightCodes)
                            THEN Recover(last) ELSE Recover(2))
           /\ tcrt' = [tcrt EXCEPT !.after = "reset"] /\ UNCHANGED derail_age
        \/ /\ c = 0 /\ ~trend /\ last \in LeftCodes \cup RightCodes
           /\ Goto("tcrt", "logic", "count") /\ UNCHANGED call
           /\ LET s == IF last \in LeftCodes THEN "left" ELSE "right" IN
              /\ tcrt' = [tcrt EXCEPT !.side = s, !.seen = derail_count[s]]
              /\ derail_age' = [derail_age EXCEPT ![s] = IF derail_count[s] = 0 THEN 0 ELSE @]
        \/ /\ c = 0 /\ ~trend /\ last \notin LeftCodes \cup RightCodes
           /\ Goto("tcrt", "logic", "loop") /\ UNCHANGED <<call, tcrt, derail_age>>
     /\ UNCHANGED <<motor_mutex, wheels, stop_flag, node_active, derail_count, obstacle, devices, front, track>>

(* The counter is incremented from the value of the test or from the one it    *)
(* has now: the hcsr thread may have reset it in between, and with it the time *)
(* of its start, which is then ages ago.  Above DerailCount it is only         *)
(* compared.                                                                   *)
TcrtCount ==
  LET s == tcrt.side
  IN /\ Goto("tcrt", "count", "after")
     /\ \E n \in {tcrt.seen, derail_count[s]} :
          derail_count' = [derail_count EXCEPT ![s] = IF n < DerailCount THEN n + 1 ELSE DerailCount]
     /\ tcrt' = [tcrt EXCEPT !.late = derail_age[s] >= DerailTime, !.after = "judge"]
     /\ Calls("tcrt", Sweep(s))
     /\ UNCHANGED <<motor_mutex, wheels, stop_flag, node_active, recent, derail_age, obstacle,
                    devices, front, track>>

reset_derail_countersMutLeftOnly == /\ derail_count' = [derail_count EXCEPT !.left = 0]
                                    /\ derail_age' = [derail_age EXCEPT !.left = DerailTime]
reset_derail_counters == /\ derail_count' = [s \in Side |-> 0]
                         /\ derail_age' = [s \in Side |-> DerailTime]

TcrtReset == /\ tcrt.after = "reset"
             /\ Goto("tcrt", "after", "loop")
             /\ reset_derail_counters
             /\ UNCHANGED <<motor, stop_flag, node_active, recent, obstacle, devices, tcrt, front, track>>

TcrtJudge ==
  /\ tcrt.after = "judge"
  /\ IF derail_count[tcrt.side] >= DerailCount /\ tcrt.late
     THEN /\ Goto("tcrt", "after", "after") /\ Calls("tcrt", stop_all_motors)
          /\ tcrt' = [tcrt EXCEPT !.after = "stop"]
     ELSE Goto("tcrt", "after", "loop") /\ UNCHANGED <<call, tcrt>>
  /\ UNCHANGED <<motor_mutex, wheels, stop_flag, node_active, recent, derail, obstacle, devices, front, track>>

TcrtStop == /\ tcrt.after = "stop"
            /\ Goto("tcrt", "after", "loop")
            /\ stop_flag' = 1
            /\ UNCHANGED <<motor, node_active, recent, derail, obstacle, devices, tcrt, front, track>>

-----------------------------------------------------------------------------
(* hcsr04_thread_func and my_distance_cb; a measurement that fails is -1 and   *)
(* so below OBSTACLE_DIST.                                                     *)
Reading  == {"clear", "near", "failed"}
Obstacle == front \in {"near", "failed"}

(* The measurement takes a while: stop_flag and the devices may have changed   *)
(* when the callback acts on it.                                               *)
HcsrRead == /\ stop_flag = 0
            /\ Goto("hcsr", "loop", "callback")
            /\ \E d \in Reading : (devices \/ d = "failed") /\ front' = d
            /\ UNCHANGED <<motor, stop_flag, node_active, recent, derail, obstacle, devices, tcrt, track>>

HcsrNear ==
  /\ Obstacle
  /\ \/ /\ ~obstacle_detected
        /\ Goto("hcsr", "callback", "loop")
        /\ obstacle_detected' = TRUE /\ obstacle_age' = 0
        /\ UNCHANGED call
     \/ /\ obstacle_detected /\ obstacle_age < ObstacleDelay
        /\ Goto("hcsr", "callback", "loop")
        /\ UNCHANGED <<obstacle_detected, obstacle_age, call>>
     \/ /\ obstacle_detected /\ obstacle_age >= ObstacleDelay
        /\ Goto("hcsr", "callback", "halt") /\ Calls("hcsr", stop_all_motors)
        /\ UNCHANGED <<obstacle_detected, obstacle_age>>
  /\ UNCHANGED <<motor_mutex, wheels, stop_flag, node_active, recent, derail, buzzer, devices,
                 tcrt, front, track>>

(* node_active is set only after the motors were stopped. *)
HcsrHalt == /\ Goto("hcsr", "halt", "loop")
            /\ node_active' = TRUE
            /\ buzzer' = (devices \/ buzzer)
            /\ UNCHANGED <<motor, stop_flag, recent, derail, obstacle_detected, obstacle_age,
                           devices, tcrt, front, track>>

HcsrClear ==
  /\ ~Obstacle
  /\ IF obstacle_detected
     THEN /\ Goto("hcsr", "callback", "resume")
          /\ buzzer' = (buzzer /\ ~devices)
          /\ node_active' = FALSE
          /\ Calls("hcsr", apply_motor_speed(SPEED_INIT, SPEED_INIT))
     ELSE Goto("hcsr", "callback", "loop") /\ UNCHANGED <<buzzer, node_active, call>>
  /\ UNCHANGED <<motor_mutex, wheels, stop_flag, recent, derail, obstacle_detected, obstacle_age,
                 devices, tcrt, front, track>>

HcsrResume == /\ Goto("hcsr", "resume", "loop")
              /\ reset_derail_counters
              /\ obstacle_detected' = FALSE
              /\ UNCHANGED <<motor, stop_flag, node_active, recent, obstacle_age, buzzer, devices, tcrt, front, track>>

HcsrEnd == /\ stop_flag = 1
           /\ Goto("hcsr", "loop", "done")
           /\ UNCHANGED <<motor, stop_flag, node_active, recent, derail, obstacle, devices, tcrt, front, track>>

-----------------------------------------------------------------------------
(* main *)

MainCreateTcrt ==
  /\ at["main"] = "create_tcrt"
  /\ \/ at' = [at EXCEPT !["main"] = "create_hcsr", !["tcrt"] = "loop"] /\ UNCHANGED devices
     \/ at' = [at EXCEPT !["main"] = "exit"] /\ devices' = FALSE
  /\ UNCHANGED <<motor, stop_flag, node_active, recent, derail, obstacle, tcrt, front, track>>

(* If the hcsr thread cannot be created the program goes on without it, and    *)
(* with the sensors of the line only.                                          *)
MainCreateHcsr ==
  /\ at["main"] = "create_hcsr"
  /\ \E a \in {"loop", "none"} : at' = [at EXCEPT !["main"] = "drive", !["hcsr"] = a]
  /\ UNCHANGED <<motor, stop_flag, node_active, recent, derail, obstacle, devices, tcrt, front, track>>

(* The motors are started without the mutex. *)
MainDrive ==
  /\ Goto("main", "drive", "wait")
  /\ Calls("main", set_motors(SPEED_INIT, SPEED_INIT))
  /\ UNCHANGED <<motor_mutex, wheels, stop_flag, node_active, recent, derail, obstacle, devices, tcrt, front, track>>

MainStop ==
  /\ stop_flag = 1
  /\ Goto("main", "wait", "close")
  /\ Calls("main", stop_all_motors)
  /\ UNCHANGED <<motor_mutex, wheels, stop_flag, node_active, recent, derail, obstacle, devices, tcrt, front, track>>

MainClose ==
  /\ Goto("main", "close", "join_tcrt")
  /\ devices' = FALSE
  /\ UNCHANGED <<motor, stop_flag, node_active, recent, derail, obstacle, tcrt, front, track>>

MainJoinTcrt ==
  /\ at["tcrt"] \in Ended
  /\ Goto("main", "join_tcrt", "join_hcsr")
  /\ UNCHANGED <<motor, stop_flag, node_active, recent, derail, obstacle, devices, tcrt, front, track>>

(* The process ends: the kernel closes /dev/motor, and motor_release stops the *)
(* wheels.  A thread that was never created is joined all the same.            *)
MainJoinHcsr ==
  /\ at["hcsr"] \in Ended
  /\ Goto("main", "join_hcsr", "exit")
  /\ wheels' = [s \in Side |-> 0]
  /\ UNCHANGED <<call, motor_mutex, stop_flag, node_active, recent, derail, obstacle, devices, tcrt, front, track>>

-----------------------------------------------------------------------------
(* The clock, and the line *)

Older(age, bound) == IF age < bound THEN age + 1 ELSE bound

Tick == /\ Running
        /\ derail_age' = [s \in Side |-> Older(derail_age[s], DerailTime)]
        /\ obstacle_age' = IF obstacle_detected THEN Older(obstacle_age, ObstacleDelay)
                           ELSE obstacle_age
        /\ UNCHANGED <<at, motor, stop_flag, node_active, recent, derail_count,
                       obstacle_detected, buzzer, devices, tcrt, front, track>>

LoseLine == /\ track = "on"
            /\ track' = "lost"
            /\ UNCHANGED <<at, motor, stop_flag, node_active, recent, derail, obstacle, devices, tcrt, front>>

-----------------------------------------------------------------------------
Init == /\ at = [t \in Thread |-> IF t = "main" THEN "create_tcrt" ELSE "none"]
        /\ call = [t \in Thread |-> <<>>]
        /\ motor_mutex = "free"
        /\ wheels = [s \in Side |-> 0]
        /\ stop_flag = 0 /\ node_active = FALSE
        /\ recent = [i \in 1 .. HistoryLen |-> 2]
        /\ derail_count = [s \in Side |-> 0] /\ derail_age = [s \in Side |-> DerailTime]
        /\ obstacle_detected = FALSE /\ obstacle_age = 0 /\ buzzer = FALSE
        /\ devices = TRUE
        /\ tcrt = NoLocals /\ front = "clear"
        /\ track = "on"

TcrtStep == TcrtRead \/ TcrtEnd \/ TcrtCheck \/ TcrtLogic \/ TcrtCount
            \/ TcrtReset \/ TcrtJudge \/ TcrtStop
HcsrStep == HcsrRead \/ HcsrNear \/ HcsrClear \/ HcsrHalt \/ HcsrResume \/ HcsrEnd
MainStep == MainCreateTcrt \/ MainCreateHcsr \/ MainDrive \/ MainStop \/ MainClose
            \/ MainJoinTcrt \/ MainJoinHcsr

Next == TcrtStep \/ HcsrStep \/ MainStep \/ (\E t \in Thread : MotorStep(t)) \/ Tick \/ LoseLine

Spec == Init /\ [][Next]_vars

(* Every thread of the program keeps running, and a thread that finds the      *)
(* motor mutex free again and again gets it: the others sleep 20 to 100 ms     *)
(* between their calls.  The clock advances.                                   *)
Fairness == /\ WF_vars(TcrtStep) /\ WF_vars(HcsrStep)
            /\ WF_vars(MainStep) /\ WF_vars(Tick)
            /\ \A t \in Thread : SF_vars(MotorStep(t))
FairSpec == Spec /\ Fairness

-----------------------------------------------------------------------------
TypeOK ==
  /\ at \in [Thread -> Place]
  /\ \A t \in Thread : Len(call[t]) <= 4
  /\ motor_mutex \in Thread \cup {"free"}
  /\ wheels \in [Side -> {0} \cup SPEED_MIN .. SPEED_MAX]
  /\ stop_flag \in 0 .. 1 /\ node_active \in BOOLEAN
  /\ recent \in [1 .. HistoryLen -> Codes \cup {2}]
  /\ derail_count \in [Side -> 0 .. DerailCount] /\ derail_age \in [Side -> 0 .. DerailTime]
  /\ obstacle_detected \in BOOLEAN /\ obstacle_age \in 0 .. ObstacleDelay
  /\ buzzer \in BOOLEAN /\ devices \in BOOLEAN
  /\ tcrt \in [code : 0 .. 7, side : Side, seen : 0 .. DerailCount, late : BOOLEAN,
               after : {"none", "reset", "judge", "stop"}]
  /\ front \in Reading /\ track \in {"on", "lost"}

(* The motor mutex is held only inside a motor call: motor.c takes it to       *)
(* protect the operation and gives it back.                                    *)
MutexReleased == \A t \in Thread : motor_mutex = t => call[t] # <<>>

(* A derail counter counts consecutive readings without a line, the latest     *)
(* ones: whatever the other thread resets, none of them is older than the last *)
(* code that saw the line.  (A counter is stale between the reading of such a  *)
(* code and the reset that follows.)                                           *)
DerailEvidence ==
  recent[1] = 0 => \A s \in Side : \A i \in 1 .. derail_count[s] : recent[i] = 0

(* The counters never reach the length of the history: once all of it is zeros *)
(* find_last_valid answers 2 and handle_state counts no more.                  *)
DerailCountBounded == \A s \in Side : derail_count[s] < HistoryLen

(* While an obstacle keeps node_active set the car ends up standing, although  *)
(* the tcrt thread may still be finishing a call of logic when it is set.      *)
ObstacleHoldsCar == <>[]node_active => <>[]Stopped

(* Once stop_flag is set the program ends with the wheels stopped. *)
ShutdownStops == stop_flag = 1 ~> (at["main"] = "exit" /\ Stopped)

-----------------------------------------------------------------------------
(* What the comments of the program say, and its code does not do *)

(* a04_test.c: the car stops when the line stays lost for long enough. *)
LostLineStops == track = "lost" ~> (stop_flag = 1 \/ obstacle_detected \/ at["main"] = "exit")
=============================================================================

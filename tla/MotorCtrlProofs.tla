--------------------------- MODULE MotorCtrlProofs ----------------------------
(* Proofs about MotorCtrl for every set of threads, every set of speeds and    *)
(* every period.                                                               *)
EXTENDS MotorCtrl, SequenceTheorems, TLAPS

(* While no process runs, none of its threads is in the middle of a call and   *)
(* motor_release has cleared the inputs of the bridge.                         *)
AtRest == process = "none" =>
            /\ \A c \in Client : body[c] = <<>> /\ todo[c] = <<>>
            /\ pin = [p \in {"in1", "in2", "in3", "in4"} |-> 0]

(* Before the first program runs everything is at rest.                        *)
LEMMA InitAtRest == Init => AtRest
BY DEF Init, DriverInit, AtRest

(* Without a process no step of a call, and no start of one, is possible.      *)
LEMMA NothingRuns ==
  ASSUME process = "none", AtRest, [Next]_vars
  PROVE  AtRest'
<1>1. ASSUME NEW c \in Client, Step(c)
      PROVE  FALSE
  <2>1. body[c] = <<>> /\ todo[c] = <<>>
    BY DEF AtRest
  <2>2. ~Apply(c) /\ ~Stop(c)
    BY DEF Apply, Stop, Line
  <2>3. ~Lock(c) /\ ~Unlock(c) /\ ~Issue(c) /\ ~Return(c) /\ ~Operation(c)
    BY <2>1 DEF Lock, Unlock, Issue, Return, Operation
  <2> QED
    BY <1>1, <2>2, <2>3 DEF Step
<1>2. ~Begin /\ ~SetPwmPeriod /\ ~MoveKey /\ ~SpeedKey /\ ~FullSpeedKey /\ ~CommandMode
      /\ ~cleanup_and_exit /\ ~Direct /\ ~Exit
  BY DEF Begin, SetPwmPeriod, MoveKey, SpeedKey, FullSpeedKey, CommandMode,
         cleanup_and_exit, Direct, Exit, Hand
<1>3. CASE Restart
  BY <1>3 DEF Restart, AtRest
<1>4. CASE UNCHANGED vars
  BY <1>4 DEF vars, driver, library, AtRest
<1> QED
  BY <1>1, <1>2, <1>3, <1>4 DEF Next

(* A process ends by Exit only, once no ioctl is in progress. *)
LEMMA ProcessEnds ==
  ASSUME process # "none", [Next]_vars
  PROVE  AtRest'
<1>1. ASSUME NEW c \in Client, Step(c)
      PROVE  process' = process
  BY <1>1 DEF Step, Apply, Stop, Start, Lock, Unlock, Issue, Return, Operation, library
<1>2. ASSUME \/ Begin \/ SetPwmPeriod \/ MoveKey \/ SpeedKey \/ FullSpeedKey
             \/ CommandMode \/ cleanup_and_exit \/ Direct
      PROVE  process' # "none"
  BY <1>2 DEF Begin, SetPwmPeriod, MoveKey, SpeedKey, FullSpeedKey, CommandMode,
              cleanup_and_exit, Direct
<1>3. CASE Exit
  BY <1>3 DEF Exit, motor_release, AtRest
<1>4. ~Restart
  BY DEF Restart
<1>5. CASE UNCHANGED vars
  BY <1>5 DEF vars, library, AtRest
<1> QED
  BY <1>1, <1>2, <1>3, <1>4, <1>5 DEF Next, AtRest

(* However a process ends, in the middle of a call or not, the wheels stop:    *)
(* motor_release clears the bridge after the ioctls in progress, and nothing   *)
(* sets it again before the next process.                                      *)
THEOREM WheelsStopWithProcess == Spec => []NoProcessNoTurning
<1>1. AtRest => NoProcessNoTurning
  BY DEF AtRest, NoProcessNoTurning, Turning, Bridge, Side
<1>2. AtRest /\ [Next]_vars => AtRest'
  BY NothingRuns, ProcessEnds
<1> QED
  BY InitAtRest, <1>1, <1>2, PTL DEF Spec

-----------------------------------------------------------------------------
(* Types.  No ioctl of these programs fails, and so the branches of the        *)
(* library that follow a failure are never taken.                              *)

Pins == {"in1", "in2", "in3", "in4"}
Channels == {"pwm0", "pwm1"}
Short(S, n) == {q \in Seq(S) : Len(q) <= n}

(* The operations of the driver, with the values each can have. *)
DriverOp == [op : {"pin"}, at : Pins, of : Side, v : 0 .. 1]
            \cup [op : {"config", "enable", "disable", "zero"}, at : Channels, of : Side, v : {0}]
            \cup [op : {"speed"}, at : Channels, of : Side, v : 0 .. DefaultPeriod]
            \cup [op : {"percent"}, at : Channels, of : Side, v : 0 .. Percent]
            \cup [op : {"period", "reconfig"}, at : Channels, of : Side, v : {DefaultPeriod}]

(* The statements of the library. *)
Percentages == 0 .. Percent \cup Arguments
Stmt == [st : {"lock", "unlock", "stop"}, side : {""}, a : {0}, b : {0}]
        \cup [st : {"speed"}, side : Side, a : Percentages, b : {-1, 0, 1}]
        \cup [st : {"direction"}, side : Side, a : {-1, 0, 1}, b : {0}]
        \cup [st : {"both"}, side : {""}, a : {-1, 1}, b : {-1, 1}]
        \cup [st : {"period"}, side : {""}, a : {DefaultPeriod}, b : {0}]
        \cup [st : {"wait"}, side : Side \cup {""}, a : {0}, b : 0 .. 1]

DriverTypes ==
  /\ pin \in [Pins -> 0 .. 1]
  /\ pwm \in [Channels -> [duty : 0 .. DefaultPeriod, period : {DefaultPeriod}, on : BOOLEAN]]
  /\ period_ns = DefaultPeriod
  /\ speed \in [Side -> 0 .. Percent]
  /\ ret = [c \in Client |-> 0]
  /\ todo \in [Client -> Short(DriverOp, 8)]

LibraryTypes ==
  /\ body \in [Client -> Short(Stmt, 6)]
  /\ motor_mutex \in Client \cup {"free"}
  /\ motor_state \in [Side -> [speed : Percentages, dir : {-1, 0, 1}]]
  /\ process \in Hand \cup {"none", "line_start", "line", "ending", "direct"}

Types == DriverTypes /\ LibraryTypes

(* Sequences, without what they hold. *)
LEMMA ShortPair ==
  ASSUME NEW S, NEW a \in S, NEW b \in S
  PROVE  <<a>> \in Short(S, 1) /\ <<a, b>> \in Short(S, 2)
BY DEF Short

LEMMA ShortConcat ==
  ASSUME NEW S, NEW m \in Nat, NEW n \in Nat, NEW p \in Short(S, m), NEW q \in Short(S, n)
  PROVE  p \o q \in Short(S, m + n)
BY DEF Short

LEMMA ShortWeaken ==
  ASSUME NEW S, NEW m \in Nat, NEW n \in Nat, m <= n, NEW q \in Short(S, m)
  PROVE  q \in Short(S, n)
BY DEF Short

LEMMA ShortTail ==
  ASSUME NEW S, NEW n \in Nat, NEW q \in Short(S, n), q # <<>>
  PROVE  Head(q) \in S /\ q[1] = Head(q) /\ Tail(q) \in Short(S, n)
BY DEF Short

LEMMA ShortUpdate ==
  ASSUME NEW S, NEW n \in Nat, NEW q \in Short(S, n), q # <<>>, NEW x \in S
  PROVE  [q EXCEPT ![1] = x] \in Short(S, n)
<1>1. q \in Seq(S) /\ Len(q) <= n /\ 1 \in 1 .. Len(q)
  BY DEF Short
<1>2. [q EXCEPT ![1] = x] \in Seq(S) /\ Len([q EXCEPT ![1] = x]) = Len(q)
  BY <1>1, ExceptSeq
<1> QED BY <1>1, <1>2 DEF Short

LEMMA ShortEmpty ==
  ASSUME NEW S, NEW n \in Nat
  PROVE  <<>> \in Short(S, n)
<1>1. <<>> \in Seq(S) /\ Len(<<>>) = 0
  OBVIOUS
<1> QED BY <1>1 DEF Short

(* The arithmetic of the driver: with a duty cycle within the period nothing   *)
(* overflows, and the channel accepts it.                                      *)
LEMMA Fitting ==
  /\ \A d \in 0 .. DefaultPeriod : Valid(d, DefaultPeriod)
  /\ \A p \in 0 .. Percent : /\ DutyOf(p, DefaultPeriod) \in 0 .. DefaultPeriod
                             /\ Mul(p, DefaultPeriod) = p * DefaultPeriod
                             /\ Mul(DefaultPeriod, p) = p * DefaultPeriod
  /\ \A d \in 0 .. DefaultPeriod : /\ Mul(d, Percent) = d * Percent
                                   /\ (d * Percent) \div DefaultPeriod \in 0 .. Percent
<1> USE WordAssumption
<1>n. /\ DefaultPeriod \in Nat /\ DefaultPeriod > 0 /\ Percent \in Nat /\ Percent > 1
      /\ Word \in Nat /\ DefaultPeriod * Percent < Word
  OBVIOUS
<1> DEFINE N == DefaultPeriod * Percent
<1>m. N \in Nat /\ N < Word /\ \A x \in 0 .. N : x % Word = x
  BY <1>n
<1>le. ASSUME NEW a \in Nat, NEW b \in Nat, NEW c \in Nat, a <= b PROVE a * c <= b * c
  BY <1>le
<1>div. ASSUME NEW a \in Nat, NEW n \in Nat, NEW p \in Nat \ {0}, a <= n * p
        PROVE  a \div p \in 0 .. n
  BY <1>div
<1>1. 2 * DefaultPeriod < Word
  <2>1. 2 * DefaultPeriod <= Percent * DefaultPeriod
    BY <1>n, <1>le
  <2> QED BY <1>n, <2>1
<1>2. ASSUME NEW d \in 0 .. DefaultPeriod PROVE Valid(d, DefaultPeriod)
  BY <1>n, <1>1, <1>2 DEF Valid, AsInt
<1>3. ASSUME NEW p \in 0 .. Percent
      PROVE  /\ Mul(p, DefaultPeriod) = p * DefaultPeriod
             /\ Mul(DefaultPeriod, p) = p * DefaultPeriod
             /\ DutyOf(p, DefaultPeriod) \in 0 .. DefaultPeriod
  <2>1. p \in Nat /\ p <= Percent
    BY <1>n, <1>3
  <2>2. p * DefaultPeriod <= Percent * DefaultPeriod
    BY <1>n, <1>le, <2>1
  <2>3. /\ p * DefaultPeriod \in 0 .. N
        /\ DefaultPeriod * p = p * DefaultPeriod /\ N = Percent * DefaultPeriod
    BY <1>n, <2>1, <2>2
  <2>4. (p * DefaultPeriod) \div Percent \in 0 .. DefaultPeriod
    BY <1>n, <1>div, <2>3
  <2> HIDE DEF N
  <2>5. (p * DefaultPeriod) % Word = p * DefaultPeriod
    BY <1>m, <2>3
  <2> QED BY <2>3, <2>4, <2>5 DEF Mul, DutyOf
<1>4. ASSUME NEW d \in 0 .. DefaultPeriod
      PROVE  /\ Mul(d, Percent) = d * Percent
             /\ (d * Percent) \div DefaultPeriod \in 0 .. Percent
  <2>1. d \in Nat /\ d <= DefaultPeriod
    BY <1>n, <1>4
  <2>2. d * Percent <= DefaultPeriod * Percent
    BY <1>n, <1>le, <2>1
  <2>3. d * Percent \in 0 .. N /\ d * Percent <= Percent * DefaultPeriod
    BY <1>n, <2>1, <2>2
  <2>4. (d * Percent) \div DefaultPeriod \in 0 .. Percent
    BY <1>n, <1>div, <2>3
  <2> HIDE DEF N
  <2> QED BY <1>m, <2>3, <2>4 DEF Mul
<1> QED BY <1>2, <1>3, <1>4

(* The operations of one channel. *)
LEMMA DriverOps ==
  ASSUME NEW s \in Side
  PROVE  /\ \A f, b \in 0 .. 1 : Direction(s, f, b) \in Short(DriverOp, 2)
         /\ Drive(s) \in Short(DriverOp, 2)
         /\ \A last \in {"enable", "disable"} : Zero(s, last) \in Short(DriverOp, 2)
         /\ \A d \in 0 .. DefaultPeriod : SET_SPEED(s, d) \in Short(DriverOp, 2)
<1>1. /\ Bridge[s][1] \in Pins /\ Bridge[s][2] \in Pins /\ Channel[s] \in Channels
  BY DEF Bridge, Channel, Side, Pins, Channels
<1>2. ASSUME NEW a \in Pins, NEW v \in 0 .. 1 PROVE Op("pin", a, s, v) \in DriverOp
  BY <1>2 DEF Op, DriverOp
<1>3. ASSUME NEW o \in {"config", "enable", "disable", "zero"} PROVE Op(o, Channel[s], s, 0) \in DriverOp
  BY <1>1, <1>3 DEF Op, DriverOp
<1>4. ASSUME NEW d \in 0 .. DefaultPeriod PROVE Op("speed", Channel[s], s, d) \in DriverOp
  BY <1>1, <1>4 DEF Op, DriverOp
<1>5. ASSUME NEW f \in 0 .. 1, NEW b \in 0 .. 1 PROVE Direction(s, f, b) \in Short(DriverOp, 2)
  BY <1>1, <1>2, <1>5, ShortPair DEF Direction
<1>6. Drive(s) \in Short(DriverOp, 2)
  BY <1>3, ShortPair DEF Drive
<1>7. ASSUME NEW last \in {"enable", "disable"} PROVE Zero(s, last) \in Short(DriverOp, 2)
  BY <1>3, <1>7, ShortPair DEF Zero
<1>8. ASSUME NEW d \in 0 .. DefaultPeriod PROVE SET_SPEED(s, d) \in Short(DriverOp, 2)
  <2>1. SET_SPEED(s, d) \in Short(DriverOp, 1)
    BY <1>4, <1>8, ShortPair DEF SET_SPEED
  <2>2. 1 \in Nat /\ 2 \in Nat /\ 1 <= 2
    OBVIOUS
  <2> QED BY <2>1, <2>2, ShortWeaken
<1> QED BY <1>5, <1>6, <1>7, <1>8

(* The duty cycle of a percentage, however wrong the percentage. *)
LEMMA DutyFits == \A v \in Int : speed_to_duty_ns(v) \in 0 .. DefaultPeriod
<1> TAKE v \in Int
<1>1. Clamped(v) \in 0 .. Percent
  BY WordAssumption DEF Clamped, Within
<1>2. speed_to_duty_ns(v) = (Clamped(v) * DefaultPeriod) \div Percent
  BY <1>1, Fitting DEF speed_to_duty_ns
<1>3. DutyOf(Clamped(v), DefaultPeriod) = (Clamped(v) * DefaultPeriod) \div Percent
  BY <1>1, Fitting DEF DutyOf
<1> QED BY <1>1, <1>2, <1>3, Fitting

LEMMA PercentagesInt == Percentages \subseteq Int
BY SpeedsAssumption, WordAssumption DEF Percentages

(* Every command the library issues is a short sequence of such operations. *)
LEMMA CommandOps ==
  ASSUME NEW st \in Stmt, st.st \in Ioctls
  PROVE  Command(st) \in Short(DriverOp, 8)
<1>s. "left" \in Side /\ "right" \in Side
  BY DEF Side
<1>n. /\ 0 \in 0 .. 1 /\ 1 \in 0 .. 1
      /\ 2 \in Nat /\ 4 \in Nat /\ 6 \in Nat /\ 8 \in Nat
      /\ 2 + 2 = 4 /\ 4 + 2 = 6 /\ 6 + 2 = 8 /\ 2 <= 8 /\ 4 <= 8
  OBVIOUS
<1>2. ASSUME NEW p \in Short(DriverOp, 2), NEW q \in Short(DriverOp, 2)
      PROVE  p \o q \in Short(DriverOp, 4) /\ p \o q \in Short(DriverOp, 8)
  <2>1. p \o q \in Short(DriverOp, 2 + 2)
    BY <1>n, <1>2, ShortConcat
  <2> QED BY <1>n, <2>1, ShortWeaken
<1>3. ASSUME NEW p \in Short(DriverOp, 2), NEW q \in Short(DriverOp, 2),
             NEW r \in Short(DriverOp, 2), NEW t \in Short(DriverOp, 2)
      PROVE  p \o q \o r \o t \in Short(DriverOp, 8)
  <2>1. p \o q \in Short(DriverOp, 4)
    BY <1>2, <1>3
  <2>2. p \o q \o r \in Short(DriverOp, 4 + 2)
    BY <1>n, <1>3, <2>1, ShortConcat
  <2>3. p \o q \o r \o t \in Short(DriverOp, 6 + 2)
    BY <1>n, <1>3, <2>2, ShortConcat
  <2> QED BY <1>n, <2>3
<1>4. ASSUME NEW s \in Side
      PROVE  /\ FORWARD(s) \in Short(DriverOp, 8) /\ BACKWARD(s) \in Short(DriverOp, 8)
             /\ STOP(s) \in Short(DriverOp, 8)
  <2>1. /\ Direction(s, 1, 0) \in Short(DriverOp, 2) /\ Direction(s, 0, 1) \in Short(DriverOp, 2)
        /\ Direction(s, 0, 0) \in Short(DriverOp, 2) /\ Drive(s) \in Short(DriverOp, 2)
        /\ Zero(s, "enable") \in Short(DriverOp, 2) /\ Zero(s, "disable") \in Short(DriverOp, 2)
    BY <1>n, <1>4, DriverOps
  <2> QED BY <1>2, <2>1 DEF FORWARD, BACKWARD, STOP
<1>5. ASSUME NEW a \in 0 .. 1, NEW b \in 0 .. 1, NEW c \in 0 .. 1, NEW d \in 0 .. 1
      PROVE  Both(a, b, c, d) \in Short(DriverOp, 8)
  <2>1. /\ Direction("right", a, b) \in Short(DriverOp, 2)
        /\ Direction("left", c, d) \in Short(DriverOp, 2)
        /\ Drive("right") \in Short(DriverOp, 2) /\ Drive("left") \in Short(DriverOp, 2)
    BY <1>s, <1>5, DriverOps
  <2> QED BY <1>3, <2>1 DEF Both
<1>6. BOTH_STOP \in Short(DriverOp, 8)
  <2>1. /\ Direction("right", 0, 0) \in Short(DriverOp, 2)
        /\ Direction("left", 0, 0) \in Short(DriverOp, 2)
        /\ Zero("right", "disable") \in Short(DriverOp, 2)
        /\ Zero("left", "disable") \in Short(DriverOp, 2)
    BY <1>s, <1>n, DriverOps
  <2> QED BY <1>3, <2>1 DEF BOTH_STOP
<1>7. SET_PERIOD(DefaultPeriod) \in Short(DriverOp, 8)
  <2> DEFINE a == Op("period", "pwm0", "left", DefaultPeriod)
             b == Op("reconfig", "pwm0", "left", DefaultPeriod)
             c == Op("reconfig", "pwm1", "right", DefaultPeriod)
  <2>1. a \in DriverOp /\ b \in DriverOp /\ c \in DriverOp
    BY <1>s DEF Op, DriverOp, Channels
  <2>2. SET_PERIOD(DefaultPeriod) = <<a, b, c>>
    BY DEF SET_PERIOD
  <2> HIDE DEF a, b, c
  <2>3. <<a, b, c>> \in Short(DriverOp, 8)
    BY <2>1 DEF Short
  <2> QED BY <2>2, <2>3
<1>8. CASE st.st = "speed"
  <2>0. st.side \in Side /\ st.a \in Percentages
    BY <1>8 DEF Stmt
  <2>1. st.side \in Side /\ st.a \in Int
    BY <2>0, PercentagesInt
  <2>2. SET_SPEED(st.side, speed_to_duty_ns(st.a)) \in Short(DriverOp, 2)
    BY <2>1, DutyFits, DriverOps
  <2>3. SET_SPEED(st.side, speed_to_duty_ns(st.a)) \in Short(DriverOp, 8)
    BY <1>n, <2>2, ShortWeaken
  <2> QED BY <1>8, <2>3 DEF Command
<1>9. CASE st.st = "direction"
  <2>1. st.side \in Side /\ st.a \in {-1, 0, 1}
    BY <1>9 DEF Stmt
  <2> QED BY <1>4, <1>9, <2>1 DEF Command
<1>10. CASE st.st = "stop"
  BY <1>6, <1>10 DEF Command
<1>11. CASE st.st = "both"
  <2>1. /\ BOTH_FORWARD \in Short(DriverOp, 8) /\ BOTH_BACKWARD \in Short(DriverOp, 8)
        /\ TURN_LEFT \in Short(DriverOp, 8) /\ TURN_RIGHT \in Short(DriverOp, 8)
    BY <1>n, <1>5 DEF BOTH_FORWARD, BOTH_BACKWARD, TURN_LEFT, TURN_RIGHT
  <2> QED BY <1>11, <2>1 DEF Command
<1>12. CASE st.st = "period"
  <2>1. st.a = DefaultPeriod
    BY <1>12 DEF Stmt
  <2> QED BY <1>7, <1>12, <2>1 DEF Command
<1> QED BY <1>8, <1>9, <1>10, <1>11, <1>12 DEF Ioctls

(* A duty cycle within the period goes to the channel. *)
LEMMA ConfigTypes ==
  ASSUME DriverTypes, NEW ch \in Channels, NEW d \in 0 .. DefaultPeriod,
         pwm_config(ch, d, DefaultPeriod)
  PROVE  /\ pwm' = [pwm EXCEPT ![ch].duty = d, ![ch].period = DefaultPeriod]
         /\ pwm' \in [Channels -> [duty : 0 .. DefaultPeriod, period : {DefaultPeriod}, on : BOOLEAN]]
<1>1. pwm \in [Channels -> [duty : 0 .. DefaultPeriod, period : {DefaultPeriod}, on : BOOLEAN]]
  BY DEF DriverTypes
<1>2. pwm' = [pwm EXCEPT ![ch].duty = d, ![ch].period = DefaultPeriod]
  BY Fitting DEF pwm_config
<1> QED BY <1>1, <1>2

(* Every operation keeps the driver in its types, and none of them fails.      *)
LEMMA OperationTypes ==
  ASSUME DriverTypes, NEW c \in Client, Operation(c)
  PROVE  DriverTypes'
<1> DEFINE o == Head(todo[c])
           P == [duty : 0 .. DefaultPeriod, period : {DefaultPeriod}, on : BOOLEAN]
<1>0. /\ pin \in [Pins -> 0 .. 1] /\ pwm \in [Channels -> P]
      /\ period_ns = DefaultPeriod /\ speed \in [Side -> 0 .. Percent]
      /\ ret = [d \in Client |-> 0]
      /\ todo \in [Client -> Short(DriverOp, 8)]
  BY DEF DriverTypes
<1>n. 8 \in Nat /\ DefaultPeriod \in Nat /\ Percent \in Nat
  BY WordAssumption
<1>1. todo[c] # <<>> /\ todo[c] \in Short(DriverOp, 8)
  BY <1>0 DEF Operation
<1>2. o \in DriverOp /\ Tail(todo[c]) \in Short(DriverOp, 8)
  BY <1>n, <1>1, ShortTail
<1>a. ASSUME Advance(c) PROVE todo' \in [Client -> Short(DriverOp, 8)]
  <2>1. todo' = [todo EXCEPT ![c] = Tail(todo[c])]
    BY <1>a DEF Advance
  <2> QED BY <1>0, <1>2, <2>1
<1>c. ASSUME NEW p \in 0 .. Percent, Configure(c, o, p), o.at \in Channels PROVE DriverTypes'
  <2>1. DutyOf(p, period_ns) \in 0 .. DefaultPeriod /\ Valid(DutyOf(p, period_ns), period_ns)
    BY <1>0, <1>c, Fitting
  <2>2. /\ pwm_config(o.at, DutyOf(p, period_ns), DefaultPeriod)
        /\ ret' = [ret EXCEPT ![c] = 0]
        /\ todo' = [todo EXCEPT ![c] = Tail(todo[c])]
        /\ UNCHANGED <<pin, period_ns, speed>>
    BY <1>0, <1>c, <2>1 DEF Configure
  <2>3. pwm' \in [Channels -> P]
    BY <1>c, <2>1, <2>2, ConfigTypes
  <2>4. ret' = [d \in Client |-> 0] /\ todo' \in [Client -> Short(DriverOp, 8)]
    BY <1>0, <1>2, <2>2
  <2> QED BY <1>0, <2>2, <2>3, <2>4 DEF DriverTypes
<1>3. CASE SetSpeed(c, o)
  <2>1. o.op = "speed" /\ o.at \in Channels /\ o.of \in Side /\ o.v \in 0 .. DefaultPeriod
    BY <1>2, <1>3 DEF SetSpeed, DriverOp
  <2> DEFINE percent == PercentOf(o.v)
  <2>2. percent \in 0 .. Percent
    BY <1>0, <2>1, Fitting DEF PercentOf
  <2>3. ~(o.v > period_ns)
    BY <1>0, <1>n, <2>1
  <2>4. /\ speed' = [speed EXCEPT ![o.of] = percent]
        /\ todo' = [todo EXCEPT ![c] = <<Op("percent", o.at, o.of, percent),
                                         Op("enable", o.at, o.of, 0)>>]
        /\ UNCHANGED <<pin, pwm, period_ns, ret>>
    BY <1>3, <2>3 DEF SetSpeed
  <2>5. /\ Op("percent", o.at, o.of, percent) \in DriverOp
        /\ Op("enable", o.at, o.of, 0) \in DriverOp
    BY <2>1, <2>2 DEF Op, DriverOp
  <2> HIDE DEF percent
  <2>6. <<Op("percent", o.at, o.of, percent), Op("enable", o.at, o.of, 0)>> \in Short(DriverOp, 8)
    <3>1. 2 \in Nat /\ 2 <= 8
      OBVIOUS
    <3>2. <<Op("percent", o.at, o.of, percent), Op("enable", o.at, o.of, 0)>> \in Short(DriverOp, 2)
      BY <2>5, ShortPair
    <3> QED BY <1>n, <3>1, <3>2, ShortWeaken
  <2>7. todo' \in [Client -> Short(DriverOp, 8)]
    BY <1>0, <2>4, <2>6
  <2>8. speed' \in [Side -> 0 .. Percent]
    BY <1>0, <2>1, <2>2, <2>4
  <2> QED BY <1>0, <2>4, <2>7, <2>8 DEF DriverTypes
<1>4. CASE SetPin(c, o)
  <2>1. o.at \in Pins /\ o.v \in 0 .. 1
    BY <1>2, <1>4 DEF SetPin, DriverOp
  <2>2. /\ pin' = [pin EXCEPT ![o.at] = o.v] /\ Advance(c)
        /\ UNCHANGED <<pwm, period_ns, speed, ret>>
    BY <1>4 DEF SetPin
  <2>3. pin' \in [Pins -> 0 .. 1]
    BY <1>0, <2>1, <2>2
  <2> QED BY <1>0, <1>a, <2>2, <2>3 DEF DriverTypes
<1>5. CASE ConfigField(c, o)
  <2>1. o.at \in Channels /\ o.of \in Side /\ Configure(c, o, speed[o.of])
    BY <1>2, <1>5 DEF ConfigField, DriverOp
  <2>2. speed[o.of] \in 0 .. Percent
    BY <1>0, <2>1
  <2> QED BY <1>c, <2>1, <2>2
<1>6. CASE ConfigLocal(c, o)
  <2>1. o.at \in Channels /\ o.v \in 0 .. Percent /\ Configure(c, o, o.v)
    BY <1>2, <1>6 DEF ConfigLocal, DriverOp
  <2> QED BY <1>c, <2>1
<1>7. CASE ConfigZero(c, o)
  <2>1. o.at \in Channels /\ 0 \in 0 .. DefaultPeriod
    BY <1>2, <1>7, <1>n DEF ConfigZero, DriverOp
  <2>2. /\ pwm_config(o.at, 0, DefaultPeriod) /\ Advance(c)
        /\ UNCHANGED <<pin, period_ns, speed, ret>>
    BY <1>0, <1>7 DEF ConfigZero
  <2>3. pwm' \in [Channels -> P]
    BY <2>1, <2>2, ConfigTypes
  <2> QED BY <1>0, <1>a, <2>2, <2>3 DEF DriverTypes
<1>8. CASE ConfigPeriod(c, o)
  <2>1. o.at \in Channels /\ o.of \in Side /\ o.v = DefaultPeriod
    BY <1>2, <1>8 DEF ConfigPeriod, DriverOp
  <2>2. DutyOf(speed[o.of], DefaultPeriod) \in 0 .. DefaultPeriod
    BY <1>0, <2>1, Fitting
  <2>3. /\ pwm_config(o.at, DutyOf(speed[o.of], DefaultPeriod), DefaultPeriod) /\ Advance(c)
        /\ UNCHANGED <<pin, period_ns, speed, ret>>
    BY <1>8, <2>1 DEF ConfigPeriod
  <2>4. pwm' \in [Channels -> P]
    BY <2>1, <2>2, <2>3, ConfigTypes
  <2> QED BY <1>0, <1>a, <2>3, <2>4 DEF DriverTypes
<1>9. CASE SetPeriod(c, o)
  <2>1. o.v = DefaultPeriod
    BY <1>2, <1>9 DEF SetPeriod, DriverOp
  <2>2. period_ns' = o.v /\ Advance(c) /\ UNCHANGED <<pin, pwm, speed, ret>>
    BY <1>9 DEF SetPeriod
  <2> QED BY <1>0, <1>a, <2>1, <2>2 DEF DriverTypes
<1>10. CASE Enable(c, o)
  <2>1. o.at \in Channels
    BY <1>2, <1>10 DEF Enable, DriverOp
  <2> DEFINE on == o.op = "enable"
  <2>2. /\ pwm' = [pwm EXCEPT ![o.at].on = on] /\ Advance(c)
        /\ UNCHANGED <<pin, period_ns, speed, ret>>
    BY <1>10 DEF Enable
  <2>3. on \in BOOLEAN
    OBVIOUS
  <2> HIDE DEF on
  <2>4. pwm' \in [Channels -> P]
    BY <1>0, <2>1, <2>2, <2>3
  <2> QED BY <1>0, <1>a, <2>2, <2>4 DEF DriverTypes
<1> QED BY <1>3, <1>4, <1>5, <1>6, <1>7, <1>8, <1>9, <1>10 DEF Operation

(* The statements, and the sequences of them that calls are. *)
LEMMA Stmts ==
  /\ \A k \in {"lock", "unlock", "stop"} : St(k, "", 0, 0) \in Stmt
  /\ \A s \in Side, v \in Percentages, d \in {-1, 0, 1} :
       St("speed", s, v, d) \in Stmt /\ St("direction", s, d, 0) \in Stmt
  /\ \A a, b \in {-1, 1} : St("both", "", a, b) \in Stmt
  /\ St("period", "", DefaultPeriod, 0) \in Stmt
  /\ \A s \in Side \cup {""}, b \in 0 .. 1 : St("wait", s, 0, b) \in Stmt
<1>1. \A k \in {"lock", "unlock", "stop"} : St(k, "", 0, 0) \in Stmt
  BY DEF St, Stmt
<1>2. ASSUME NEW s \in Side, NEW v \in Percentages, NEW d \in {-1, 0, 1}
      PROVE  St("speed", s, v, d) \in Stmt /\ St("direction", s, d, 0) \in Stmt
  BY DEF St, Stmt
<1>3. \A a, b \in {-1, 1} : St("both", "", a, b) \in Stmt
  BY DEF St, Stmt
<1>4. St("period", "", DefaultPeriod, 0) \in Stmt
  BY DEF St, Stmt
<1>5. \A s \in Side \cup {""}, b \in 0 .. 1 : St("wait", s, 0, b) \in Stmt
  BY DEF St, Stmt
<1> QED BY <1>1, <1>2, <1>3, <1>4, <1>5

LEMMA SetMotorsCall ==
  ASSUME NEW l \in Percentages, NEW r \in Percentages, NEW dl \in {-1, 0, 1}, NEW dr \in {-1, 0, 1}
  PROVE  set_motors(l, dl, r, dr) \in Short(Stmt, 4)
<1>1. set_motor("left", l, dl) \in Short(Stmt, 2) /\ set_motor("right", r, dr) \in Short(Stmt, 2)
  BY Stmts, ShortPair DEF set_motor, Side
<1>2. 2 \in Nat /\ 2 + 2 = 4
  OBVIOUS
<1>3. set_motors(l, dl, r, dr) \in Short(Stmt, 2 + 2)
  BY <1>1, <1>2, ShortConcat DEF set_motors
<1> QED BY <1>2, <1>3

LEMMA LockedCall ==
  ASSUME NEW q \in Short(Stmt, 4)
  PROVE  Locked(q) \in Short(Stmt, 6)
<1>1. <<St("lock", "", 0, 0)>> \in Short(Stmt, 1) /\ <<St("unlock", "", 0, 0)>> \in Short(Stmt, 1)
  BY Stmts, ShortPair
<1>2. 1 \in Nat /\ 4 \in Nat /\ 5 \in Nat /\ 1 + 4 = 5 /\ 5 + 1 = 6
  OBVIOUS
<1>3. <<St("lock", "", 0, 0)>> \o q \in Short(Stmt, 1 + 4)
  BY <1>1, <1>2, ShortConcat
<1>4. <<St("lock", "", 0, 0)>> \o q \o <<St("unlock", "", 0, 0)>> \in Short(Stmt, 5 + 1)
  BY <1>1, <1>2, <1>3, ShortConcat
<1> QED BY <1>2, <1>4 DEF Locked

(* A call of one statement, and the two calls of a04. *)
LEMMA Calls ==
  /\ \A x \in Stmt : <<x>> \in Short(Stmt, 6)
  /\ \A q \in Short(Stmt, 4) : q \in Short(Stmt, 6)
  /\ stop_all_motors \in Short(Stmt, 6)
  /\ \A l, r \in Percentages : apply_motor_speed(l, r) \in Short(Stmt, 6)
<1>n. 1 \in Nat /\ 4 \in Nat /\ 6 \in Nat /\ 1 <= 4 /\ 4 <= 6 /\ 1 <= 6
  OBVIOUS
<1>1. \A x \in Stmt : <<x>> \in Short(Stmt, 1)
  BY ShortPair
<1>2. \A x \in Stmt : <<x>> \in Short(Stmt, 4) /\ <<x>> \in Short(Stmt, 6)
  BY <1>n, <1>1, ShortWeaken
<1>3. \A q \in Short(Stmt, 4) : q \in Short(Stmt, 6)
  BY <1>n, ShortWeaken
<1>4. stop_all_motors \in Short(Stmt, 6)
  <2>1. <<St("stop", "", 0, 0)>> \in Short(Stmt, 4)
    BY <1>2, Stmts
  <2> QED BY <2>1, LockedCall DEF stop_all_motors
<1>5. ASSUME NEW l \in Percentages, NEW r \in Percentages
      PROVE  apply_motor_speed(l, r) \in Short(Stmt, 6)
  <2>1. 1 \in {-1, 0, 1}
    OBVIOUS
  <2>2. set_motors(l, 1, r, 1) \in Short(Stmt, 4)
    BY <2>1, SetMotorsCall
  <2> QED BY <2>2, LockedCall DEF apply_motor_speed
<1> QED BY <1>2, <1>3, <1>4, <1>5

(* A thread begins a call, with the rest of the library and the driver as they *)
(* are.                                                                        *)
LEMMA StartTypes ==
  ASSUME Types, NEW c \in Client, NEW q \in Short(Stmt, 6), Start(c, q),
         motor_state' \in [Side -> [speed : Percentages, dir : {-1, 0, 1}]],
         process' \in Hand \cup {"none", "line_start", "line", "ending", "direct"}
  PROVE  Types'
<1>1. /\ body' = [body EXCEPT ![c] = q] /\ UNCHANGED <<driver, motor_mutex>>
  BY DEF Start
<1>2. DriverTypes'
  BY <1>1 DEF Types, DriverTypes, driver
<1>3. body' \in [Client -> Short(Stmt, 6)]
  BY <1>1 DEF Types, LibraryTypes
<1> QED BY <1>1, <1>2, <1>3 DEF Types, LibraryTypes

LEMMA InitMotorTypes == Init => Types
<1> SUFFICES ASSUME Init PROVE Types
  OBVIOUS
<1>n. /\ 0 \in 0 .. DefaultPeriod /\ 0 \in 0 .. Percent /\ 0 \in 0 .. 1 /\ 6 \in Nat /\ 8 \in Nat
      /\ InitSpeed \in Percentages
  BY WordAssumption, KeysAssumption DEF Percentages
<1>e. <<>> \in Short(DriverOp, 8) /\ <<>> \in Short(Stmt, 6)
  BY <1>n, ShortEmpty
<1>1. DriverTypes
  BY <1>n, <1>e DEF Init, DriverInit, DriverTypes, Pins, Channels
<1>2. motor_state \in [Side -> [speed : Percentages, dir : {-1, 0, 1}]]
  BY <1>n DEF Init, StartState
<1>3. LibraryTypes
  BY <1>e, <1>2 DEF Init, LibraryTypes
<1> QED BY <1>1, <1>3 DEF Types

(* The steps of a thread. *)
LEMMA ThreadTypes ==
  ASSUME Types, NEW c \in Client, Step(c)
  PROVE  Types'
<1>0. /\ DriverTypes /\ LibraryTypes
      /\ body \in [Client -> Short(Stmt, 6)] /\ todo \in [Client -> Short(DriverOp, 8)]
      /\ motor_state \in [Side -> [speed : Percentages, dir : {-1, 0, 1}]]
      /\ ret = [d \in Client |-> 0]
      /\ process \in Hand \cup {"none", "line_start", "line", "ending", "direct"}
      /\ motor_mutex \in Client \cup {"free"}
  BY DEF Types, DriverTypes, LibraryTypes
<1>n. 6 \in Nat /\ 8 \in Nat
  OBVIOUS
<1>h. ASSUME body[c] # <<>>
      PROVE  /\ body[c][1] \in Stmt /\ Tail(body[c]) \in Short(Stmt, 6)
             /\ \A x \in Stmt : [body[c] EXCEPT ![1] = x] \in Short(Stmt, 6)
  <2>1. body[c] \in Short(Stmt, 6)
    BY <1>0
  <2> QED BY <1>h, <1>n, <2>1, ShortTail, ShortUpdate
<1>d. driver' = driver => DriverTypes'
  BY <1>0 DEF DriverTypes, driver
<1>1. CASE Apply(c)
  <2>1. PICK l \in Speeds, r \in Speeds : Start(c, apply_motor_speed(l, r))
    BY <1>1 DEF Apply
  <2>2. l \in Percentages /\ r \in Percentages
    BY SpeedsAssumption DEF Percentages
  <2>3. apply_motor_speed(l, r) \in Short(Stmt, 6)
    BY <2>2, Calls
  <2>4. UNCHANGED <<process, motor_state>>
    BY <1>1 DEF Apply
  <2> QED BY <1>0, <2>1, <2>3, <2>4, StartTypes
<1>2. CASE Stop(c)
  <2>1. Start(c, stop_all_motors) /\ UNCHANGED <<process, motor_state>>
    BY <1>2 DEF Stop
  <2> QED BY <1>0, <2>1, Calls, StartTypes
<1>3. CASE Lock(c) \/ Unlock(c)
  <2>1. /\ body[c] # <<>> /\ body' = [body EXCEPT ![c] = Tail(body[c])]
        /\ motor_mutex' \in {c, "free"} /\ UNCHANGED <<driver, motor_state, process>>
    BY <1>3 DEF Lock, Unlock
  <2>2. body' \in [Client -> Short(Stmt, 6)]
    BY <1>0, <1>h, <2>1
  <2> QED BY <1>0, <1>d, <2>1, <2>2 DEF Types, LibraryTypes
<1>4. CASE Issue(c)
  <2> DEFINE st == body[c][1]
             mark == IF st.st = "stop" THEN 1 ELSE 0
  <2>1. /\ body[c] # <<>> /\ st.st \in Ioctls /\ Ioctl(c, Command(st))
        /\ body' = [body EXCEPT ![c] = [body[c] EXCEPT ![1] = St("wait", st.side, 0, mark)]]
        /\ motor_state' = (IF ~Line /\ st.st = "speed"
                           THEN [motor_state EXCEPT ![st.side] = [speed |-> st.a, dir |-> st.b]]
                           ELSE motor_state)
        /\ UNCHANGED <<motor_mutex, process>>
    BY <1>4 DEF Issue
  <2>2. st \in Stmt
    BY <1>h, <2>1
  <2>3. Command(st) \in Short(DriverOp, 8)
    BY <2>1, <2>2, CommandOps
  <2>4. st.side \in Side \cup {""} /\ mark \in 0 .. 1
    <3>1. \A x \in Stmt : x.side \in Side \cup {""}
      BY DEF Stmt
    <3>2. mark \in 0 .. 1
      OBVIOUS
    <3> QED BY <2>2, <3>1, <3>2
  <2>5. st.st = "speed" => st.side \in Side /\ st.a \in Percentages /\ st.b \in {-1, 0, 1}
    BY <2>2 DEF Stmt
  <2>6. St("wait", st.side, 0, mark) \in Stmt
    BY <2>4, Stmts
  <2> HIDE DEF st, mark
  <2>7. body' \in [Client -> Short(Stmt, 6)]
    <3>1. [body[c] EXCEPT ![1] = St("wait", st.side, 0, mark)] \in Short(Stmt, 6)
      BY <1>h, <2>1, <2>6
    <3> QED BY <1>0, <2>1, <3>1
  <2>8. motor_state' \in [Side -> [speed : Percentages, dir : {-1, 0, 1}]]
    BY <1>0, <2>1, <2>5
  <2>9. DriverTypes'
    <3>1. /\ todo' = [todo EXCEPT ![c] = Command(st)] /\ ret' = [ret EXCEPT ![c] = 0]
          /\ UNCHANGED <<pin, pwm, period_ns, speed>>
      BY <2>1 DEF Ioctl
    <3>2. todo' \in [Client -> Short(DriverOp, 8)] /\ ret' = [d \in Client |-> 0]
      BY <1>0, <2>3, <3>1
    <3> QED BY <1>0, <3>1, <3>2 DEF DriverTypes
  <2> QED BY <1>0, <2>1, <2>7, <2>8, <2>9 DEF Types, LibraryTypes
<1>5. CASE Return(c)
  <2>1. ret[c] = 0
    BY <1>0
  <2>2. /\ body[c] # <<>> /\ body' = [body EXCEPT ![c] = Tail(body[c])]
        /\ motor_state' = motor_state \/ motor_state' = NotedAtStop
        /\ UNCHANGED <<driver, motor_mutex, process>>
    BY <1>5, <2>1 DEF Return
  <2>3. body' \in [Client -> Short(Stmt, 6)]
    BY <1>0, <1>h, <2>2
  <2>4. motor_state' \in [Side -> [speed : Percentages, dir : {-1, 0, 1}]]
    BY <1>0, <2>2 DEF NotedAtStop
  <2> QED BY <1>0, <1>d, <2>2, <2>3, <2>4 DEF Types, LibraryTypes
<1>6. CASE Operation(c) /\ UNCHANGED <<library, asked>>
  <2>1. DriverTypes'
    BY <1>0, <1>6, OperationTypes
  <2> QED BY <1>0, <1>6, <2>1 DEF Types, LibraryTypes, library
<1> QED BY <1>1, <1>2, <1>3, <1>4, <1>5, <1>6 DEF Step

LEMMA NextMotorTypes == Types /\ [Next]_vars => Types'
<1> SUFFICES ASSUME Types, [Next]_vars PROVE Types'
  OBVIOUS
<1> DEFINE MS == [Side -> [speed : Percentages, dir : {-1, 0, 1}]]
<1>0. /\ DriverTypes /\ LibraryTypes /\ Main \in Client
      /\ body \in [Client -> Short(Stmt, 6)]
      /\ motor_state \in MS
      /\ process \in Hand \cup {"none", "line_start", "line", "ending", "direct"}
      /\ motor_mutex \in Client \cup {"free"}
  BY MainAssumption DEF Types, LibraryTypes
<1>d. driver' = driver => DriverTypes'
  BY <1>0 DEF DriverTypes, driver
<1>p. /\ \A v \in Int : Clamped(v) \in Percentages
      /\ Percent \in Percentages /\ InitSpeed \in Percentages
      /\ Arguments \subseteq Percentages /\ Speeds \subseteq Percentages
  BY WordAssumption, SpeedsAssumption, KeysAssumption DEF Clamped, Within, Percentages
<1>s. /\ motor_state.left.speed \in Percentages /\ motor_state.right.speed \in Percentages
      /\ motor_state.left.dir \in {-1, 0, 1} /\ motor_state.right.dir \in {-1, 0, 1}
  BY <1>0 DEF Side
<1>v. ASSUME NEW v \in Percentages
      PROVE  [s \in Side |-> [motor_state[s] EXCEPT !.speed = v]] \in MS
  BY <1>0, <1>v
<1>m. ASSUME NEW l \in Percentages, NEW r \in Percentages,
             NEW dl \in {-1, 0, 1}, NEW dr \in {-1, 0, 1}
      PROVE  set_motors(l, dl, r, dr) \in Short(Stmt, 6)
  BY <1>m, SetMotorsCall, Calls
<1>1. ASSUME NEW c \in Client, Step(c) PROVE Types'
  BY <1>1, ThreadTypes
<1>2. CASE Begin
  <2>1. PICK v \in Speeds : Start(Main, set_motors(v, 1, v, 1))
    BY <1>2 DEF Begin
  <2>2. v \in Percentages /\ 1 \in {-1, 0, 1}
    BY <1>p
  <2>3. set_motors(v, 1, v, 1) \in Short(Stmt, 6)
    BY <1>m, <2>2
  <2>4. process' = "line" /\ motor_state' = motor_state
    BY <1>2 DEF Begin
  <2> QED BY <1>0, <2>1, <2>3, <2>4, StartTypes
<1>3. CASE SetPwmPeriod
  <2>1. /\ Start(Main, <<St("period", "", DefaultPeriod, 0)>>)
        /\ process' \in Hand /\ motor_state' = motor_state
    BY <1>3 DEF SetPwmPeriod, Hand
  <2>2. <<St("period", "", DefaultPeriod, 0)>> \in Short(Stmt, 6)
    BY Stmts, Calls
  <2> QED BY <1>0, <2>1, <2>2, StartTypes
<1>4. CASE MoveKey
  <2>1. PICK dl \in {-1, 1}, dr \in {-1, 1} : Start(Main, Move(dl, dr))
    BY <1>4 DEF MoveKey
  <2>2. Move(dl, dr) \in Short(Stmt, 6)
    BY <1>m, <1>s DEF Move
  <2>3. process' = process /\ motor_state' = motor_state
    BY <1>4 DEF MoveKey
  <2> QED BY <1>0, <2>1, <2>2, <2>3, StartTypes
<1>5. CASE SpeedKey
  <2>1. PICK by \in {Increment, -Increment} :
          LET v == Clamped(motor_state.left.speed + by) IN
          /\ motor_state' = [s \in Side |-> [motor_state[s] EXCEPT !.speed = v]]
          /\ Start(Main, set_motors(v, motor_state.left.dir, v, motor_state.right.dir))
    BY <1>5 DEF SpeedKey
  <2> DEFINE v == Clamped(motor_state.left.speed + by)
  <2>2. motor_state.left.speed + by \in Int
    <3>1. motor_state.left.speed \in Int
      BY <1>s, PercentagesInt
    <3>2. \A i \in Nat : i \in Int /\ -i \in Int
      OBVIOUS
    <3>3. Increment \in Nat
      BY KeysAssumption
    <3>4. by \in Int
      BY <3>2, <3>3
    <3>5. \A x, y \in Int : x + y \in Int
      OBVIOUS
    <3> QED BY <3>1, <3>4, <3>5
  <2>3. v \in Percentages
    BY <1>p, <2>2
  <2>4. /\ motor_state' = [s \in Side |-> [motor_state[s] EXCEPT !.speed = v]]
        /\ Start(Main, set_motors(v, motor_state.left.dir, v, motor_state.right.dir))
    BY <2>1
  <2> HIDE DEF v
  <2>5. set_motors(v, motor_state.left.dir, v, motor_state.right.dir) \in Short(Stmt, 6)
    BY <1>m, <1>s, <2>3
  <2>6. motor_state' \in MS /\ process' = process
    BY <1>5, <1>v, <2>3, <2>4 DEF SpeedKey
  <2> QED BY <1>0, <2>4, <2>5, <2>6, StartTypes
<1>6. CASE FullSpeedKey
  <2>1. /\ motor_state' = [s \in Side |-> [motor_state[s] EXCEPT !.speed = Percent]]
        /\ UNCHANGED <<driver, body, motor_mutex, process>>
    BY <1>6 DEF FullSpeedKey
  <2>2. motor_state' \in MS
    BY <1>p, <1>v, <2>1
  <2> QED BY <1>0, <1>d, <2>1, <2>2 DEF Types, LibraryTypes
<1>7. CASE CommandMode
  <2>1. process' = "commanded" /\ "commanded" \in Hand
    BY <1>7 DEF CommandMode, Hand
  <2>2. CASE Start(Main, stop_all_motors) /\ UNCHANGED motor_state
    BY <1>0, <2>1, <2>2, Calls, StartTypes
  <2>3. CASE \E v \in Arguments \cup {InitSpeed}, dl, dr \in {-1, 1} :
               /\ motor_state' = [s \in Side |-> [motor_state[s] EXCEPT !.speed = v]]
               /\ Start(Main, set_motors(v, dl, v, dr))
    <3>1. PICK v \in Arguments \cup {InitSpeed}, dl \in {-1, 1}, dr \in {-1, 1} :
               /\ motor_state' = [s \in Side |-> [motor_state[s] EXCEPT !.speed = v]]
               /\ Start(Main, set_motors(v, dl, v, dr))
      BY <2>3
    <3>2. v \in Percentages
      BY <1>p
    <3>3. motor_state' \in MS
      BY <1>v, <3>1, <3>2
    <3>4. set_motors(v, dl, v, dr) \in Short(Stmt, 6)
      BY <1>m, <3>2
    <3> QED BY <1>0, <2>1, <3>1, <3>3, <3>4, StartTypes
  <2> QED BY <1>7, <2>2, <2>3 DEF CommandMode
<1>8. CASE cleanup_and_exit
  <2>1. /\ body' = [body EXCEPT ![Main] = <<St("stop", "", 0, 0)>>] /\ process' = "ending"
        /\ UNCHANGED <<driver, motor_mutex, motor_state>>
    BY <1>8 DEF cleanup_and_exit
  <2>2. <<St("stop", "", 0, 0)>> \in Short(Stmt, 6)
    BY Stmts, Calls
  <2>3. body' \in [Client -> Short(Stmt, 6)]
    BY <1>0, <2>1, <2>2
  <2> QED BY <1>0, <1>d, <2>1, <2>3 DEF Types, LibraryTypes
<1>9. CASE Direct
  <2>1. PICK a \in {-1, 1}, b \in {-1, 1} : Start(Main, <<St("both", "", a, b)>>)
    BY <1>9 DEF Direct
  <2>2. <<St("both", "", a, b)>> \in Short(Stmt, 6)
    BY Stmts, Calls
  <2>3. process' = process /\ motor_state' = motor_state
    BY <1>9 DEF Direct
  <2> QED BY <1>0, <2>1, <2>2, <2>3, StartTypes
<1>10. CASE Exit
  <2>1. /\ process' = "none" /\ body' = [c \in Client |-> <<>>] /\ motor_mutex' = "free"
        /\ motor_state' = StartState /\ motor_release
    BY <1>10 DEF Exit
  <2>2. motor_state' \in MS
    BY <1>p, <2>1 DEF StartState
  <2>3. body' \in [Client -> Short(Stmt, 6)]
    <3>1. 6 \in Nat
      OBVIOUS
    <3>2. <<>> \in Short(Stmt, 6)
      BY <3>1, ShortEmpty
    <3> QED BY <2>1, <3>2
  <2>4. DriverTypes'
    <3>1. /\ pwm' = [[pwm EXCEPT !["pwm0"].on = FALSE] EXCEPT !["pwm1"].on = FALSE]
          /\ pin' = [p \in Pins |-> 0] /\ UNCHANGED <<period_ns, speed, todo, ret>>
      BY <2>1 DEF motor_release, Pins
    <3>2. pwm' \in [Channels -> [duty : 0 .. DefaultPeriod, period : {DefaultPeriod}, on : BOOLEAN]]
      <4> DEFINE P == [duty : 0 .. DefaultPeriod, period : {DefaultPeriod}, on : BOOLEAN]
      <4>1. pwm \in [Channels -> P] /\ "pwm0" \in Channels /\ "pwm1" \in Channels
        BY <1>0 DEF DriverTypes, Channels
      <4>2. \A ch \in P : [ch EXCEPT !.on = FALSE] \in P
        OBVIOUS
      <4>3. \A c \in Channels, w \in [Channels -> P] : [w EXCEPT ![c].on = FALSE] \in [Channels -> P]
        <5> HIDE DEF P
        <5> QED BY <4>2
      <4> QED BY <3>1, <4>1, <4>3
    <3>3. pin' \in [Pins -> 0 .. 1]
      BY <3>1
    <3>4. /\ period_ns = DefaultPeriod /\ speed \in [Side -> 0 .. Percent]
          /\ ret = [c \in Client |-> 0] /\ todo \in [Client -> Short(DriverOp, 8)]
      BY <1>0 DEF DriverTypes
    <3>5. /\ period_ns' = DefaultPeriod /\ speed' \in [Side -> 0 .. Percent]
          /\ ret' = [c \in Client |-> 0] /\ todo' \in [Client -> Short(DriverOp, 8)]
      BY <3>1, <3>4
    <3> QED BY <3>2, <3>3, <3>5 DEF DriverTypes
  <2> QED BY <2>1, <2>2, <2>3, <2>4 DEF Types, LibraryTypes
<1>11. CASE Restart
  <2>1. /\ process' \in {"hand_start", "line_start", "direct"}
        /\ UNCHANGED <<driver, body, motor_mutex, motor_state>>
    BY <1>11 DEF Restart
  <2> QED BY <1>0, <1>d, <2>1 DEF Types, LibraryTypes, Hand
<1>12. CASE UNCHANGED vars
  BY <1>0, <1>d, <1>12 DEF vars, library, Types, LibraryTypes
<1> QED
  BY <1>1, <1>2, <1>3, <1>4, <1>5, <1>6, <1>7, <1>8, <1>9, <1>10, <1>11, <1>12 DEF Next

(* The duty cycle of a channel stays within its period, the driver stores      *)
(* percentages only and every call keeps its length, whatever the numbers on   *)
(* the command line of the keyboard program.                                   *)
THEOREM MotorTypes == Spec => []TypeOK
<1>1. ASSUME Types PROVE TypeOK
  <2>0. DriverTypes /\ LibraryTypes
    BY <1>1 DEF Types
  <2>1. /\ pin \in [{"in1", "in2", "in3", "in4"} -> 0 .. 1]
        /\ \A s \in Side : speed[s] \in 0 .. Percent
        /\ motor_mutex \in Client \cup {"free"}
        /\ motor_state \in [Side -> [speed : 0 .. Percent \cup Arguments, dir : {-1, 0, 1}]]
        /\ process \in Hand \cup {"none", "line_start", "line", "ending", "direct"}
    BY <2>0 DEF DriverTypes, LibraryTypes, Pins, Percentages
  <2>2. \A ch \in DOMAIN pwm : pwm[ch].duty \in 0 .. pwm[ch].period /\ pwm[ch].on \in BOOLEAN
    BY <2>0 DEF DriverTypes
  <2>3. \A c \in Client : ret[c] \in {0, -1} /\ Len(todo[c]) <= 8 /\ Len(body[c]) <= 6
    BY <2>0 DEF DriverTypes, LibraryTypes, Short
  <2> QED BY <2>1, <2>2, <2>3 DEF TypeOK
<1> QED BY InitMotorTypes, NextMotorTypes, <1>1, PTL DEF Spec

(* No ioctl of the programs of the repository fails: with the period of the    *)
(* device tree no product of the driver overflows, the library clamps every    *)
(* percentage, and so each duty cycle is within the period and accepted by the *)
(* kernel.                                                                     *)
THEOREM NoIoctlFails == Spec => [](\A c \in Client : ret[c] = 0)
<1>1. Types => \A c \in Client : ret[c] = 0
  BY DEF Types, DriverTypes
<1> QED BY InitMotorTypes, NextMotorTypes, <1>1, PTL DEF Spec
=============================================================================

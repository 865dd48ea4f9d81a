----------------------------- MODULE MotorDriver -----------------------------
(* kernel_space/motor/motorv1.c after a successful motor_init: the ioctls that *)
(* drive the two wheels through an L298N bridge.  An ioctl is a sequence of    *)
(* operations on the pins and on the two PWM channels; nothing in the driver   *)
(* keeps two ioctls apart.  The duty cycle arithmetic is that of unsigned int. *)
EXTENDS Integers, Sequences

CONSTANTS Client,         \* the threads that issue ioctls
          Percent,        \* 100
          Word,           \* 2^32
          DefaultPeriod   \* period-ns of the device tree, and motor_state.period_ns

Side == {"left", "right"}

ASSUME WordAssumption == /\ Percent \in Nat \ {0, 1} /\ Word \in Nat
                         /\ DefaultPeriod \in Nat \ {0}
                         /\ DefaultPeriod % Percent = 0
                         /\ DefaultPeriod * Percent < Word

VARIABLES pin,            \* the inputs of the bridge
          pwm,            \* the channels: duty cycle, period, and whether enabled
          period_ns,
          speed,          \* left_speed and right_speed
          todo,           \* todo[c]: what is left of the ioctl of c
          ret             \* ret[c]: the result of the last ioctl of c, so far

driver == <<pin, pwm, period_ns, speed, todo, ret>>

Bridge  == [left |-> <<"in3", "in4">>, right |-> <<"in1", "in2">>]
Channel == [left |-> "pwm1", right |-> "pwm0"]

-----------------------------------------------------------------------------
(* The commands, as sequences of operations.  An operator named ...Mut... is   *)
(* a variant, with a bug in it, of the definition that follows.                *)

Op(op, at, of, v) == [op |-> op, at |-> at, of |-> of, v |-> v]

Direction(s, f, b) == <<Op("pin", Bridge[s][1], s, f), Op("pin", Bridge[s][2], s, b)>>
Drive(s) == <<Op("config", Channel[s], s, 0), Op("enable", Channel[s], s, 0)>>
Zero(s, last) == <<Op("zero", Channel[s], s, 0), Op(last, Channel[s], s, 0)>>

SET_SPEED(s, duty) == <<Op("speed", Channel[s], s, duty)>>
FORWARD(s)  == Direction(s, 1, 0) \o Drive(s)
BACKWARD(s) == Direction(s, 0, 1) \o Drive(s)
STOP(s)     == Direction(s, 0, 0) \o Zero(s, IF s = "left" THEN "enable" ELSE "disable")

Both(rf, rb, lf, lb) ==
  Direction("right", rf, rb) \o Direction("left", lf, lb) \o Drive("right") \o Drive("left")
BOTH_FORWARD  == Both(1, 0, 1, 0)
BOTH_BACKWARD == Both(0, 1, 0, 1)
TURN_LEFT     == Both(1, 0, 0, 1)
TURN_RIGHT    == Both(0, 1, 1, 0)
BOTH_STOP     == Direction("right", 0, 0) \o Direction("left", 0, 0)
                 \o Zero("right", "disable") \o Zero("left", "disable")

(* Each channel is set for the new period, but with the speed of the other     *)
(* wheel: pwm0, the right wheel elsewhere, with left_speed.                    *)
SET_PERIOD(p) == <<Op("period", "pwm0", "left", p), Op("reconfig", "pwm0", "left", p),
                   Op("reconfig", "pwm1", "right", p)>>

-----------------------------------------------------------------------------
(* The operations *)

Mul(a, b) == (a * b) % Word
AsInt(x)  == IF 2 * x < Word THEN x ELSE x - Word

(* pwm_config of the kernel: ints, and a duty cycle within the period. *)
Valid(duty, period) == AsInt(duty) >= 0 /\ AsInt(period) > 0 /\ duty <= period
pwm_config(ch, duty, period) ==
  pwm' = IF Valid(duty, period) THEN [pwm EXCEPT ![ch].duty = duty, ![ch].period = period]
         ELSE pwm
DutyOf(percent, period) == Mul(percent, period) \div Percent

(* A configuration of channel o.at for that percentage; if it fails the next   *)
(* operation, which would enable the channel, is left out.                     *)
Configure(c, o, percent) ==
  LET duty == DutyOf(percent, period_ns)
      ok   == Valid(duty, period_ns)
  IN /\ pwm_config(o.at, duty, period_ns)
     /\ ret' = [ret EXCEPT ![c] = IF ok THEN 0 ELSE -1]
     /\ todo' = [todo EXCEPT ![c] = IF ok THEN Tail(@) ELSE Tail(Tail(@))]
     /\ UNCHANGED <<pin, period_ns, speed>>

Advance(c) == todo' = [todo EXCEPT ![c] = Tail(@)]

(* IOCTL_SET_SPEED_*: the percentage that the duty cycle is of the period is   *)
(* stored, and the channel then configured for it, whatever is stored by then. *)
PercentOfMutDuty(duty) == duty
PercentOf(duty) == Mul(duty, Percent) \div period_ns

SetSpeed(c, o) ==
  /\ o.op = "speed"
  /\ IF o.v > period_ns
     THEN /\ ret' = [ret EXCEPT ![c] = -1]
          /\ Advance(c)
          /\ UNCHANGED speed
     ELSE LET percent == PercentOf(o.v) IN
          /\ speed' = [speed EXCEPT ![o.of] = percent]
          /\ todo' = [todo EXCEPT ![c] = <<Op("percent", o.at, o.of, percent),
                                           Op("enable", o.at, o.of, 0)>>]
          /\ UNCHANGED ret
  /\ UNCHANGED <<pin, pwm, period_ns>>

SetPin(c, o) ==
  /\ o.op = "pin"
  /\ pin' = [pin EXCEPT ![o.at] = o.v]
  /\ Advance(c)
  /\ UNCHANGED <<pwm, period_ns, speed, ret>>

ConfigField(c, o) == o.op = "config" /\ Configure(c, o, speed[o.of])
ConfigLocal(c, o) == o.op = "percent" /\ Configure(c, o, o.v)

(* The results of these configurations are ignored. *)
ConfigZero(c, o) ==
  /\ o.op = "zero"
  /\ pwm_config(o.at, 0, period_ns)
  /\ Advance(c)
  /\ UNCHANGED <<pin, period_ns, speed, ret>>

ConfigPeriod(c, o) ==
  /\ o.op = "reconfig"
  /\ pwm_config(o.at, DutyOf(speed[o.of], o.v), o.v)
  /\ Advance(c)
  /\ UNCHANGED <<pin, period_ns, speed, ret>>

SetPeriod(c, o) ==
  /\ o.op = "period"
  /\ period_ns' = o.v
  /\ Advance(c)
  /\ UNCHANGED <<pin, pwm, speed, ret>>

Enable(c, o) ==
  /\ o.op \in {"enable", "disable"}
  /\ pwm' = [pwm EXCEPT ![o.at].on = (o.op = "enable")]
  /\ Advance(c)
  /\ UNCHANGED <<pin, period_ns, speed, ret>>

Operation(c) ==
  /\ todo[c] # <<>>
  /\ LET o == Head(todo[c]) IN
     \/ SetSpeed(c, o) \/ SetPin(c, o) \/ ConfigField(c, o) \/ ConfigLocal(c, o)
     \/ ConfigZero(c, o) \/ ConfigPeriod(c, o) \/ SetPeriod(c, o) \/ Enable(c, o)

(* Client c issues an ioctl; none of its own is in progress. *)
Ioctl(c, ops) ==
  /\ todo[c] = <<>>
  /\ todo' = [todo EXCEPT ![c] = ops]
  /\ ret' = [ret EXCEPT ![c] = 0]
  /\ UNCHANGED <<pin, pwm, period_ns, speed>>

(* The last close: the kernel waits for the ioctls in progress.                *)
motor_releaseMutPwm0Only ==
  /\ \A c \in Client : todo[c] = <<>>
  /\ pwm' = [pwm EXCEPT !["pwm0"].on = FALSE]
  /\ pin' = [pin EXCEPT !["in1"] = 0, !["in2"] = 0]
  /\ UNCHANGED <<period_ns, speed, todo, ret>>
motor_release ==
  /\ \A c \in Client : todo[c] = <<>>
  /\ pwm' = [pwm EXCEPT !["pwm0"].on = FALSE, !["pwm1"].on = FALSE]
  /\ pin' = [p \in {"in1", "in2", "in3", "in4"} |-> 0]
  /\ UNCHANGED <<period_ns, speed, todo, ret>>

(* After probe: both channels enabled, with a duty cycle of zero. *)
DriverInit ==
  /\ pin = [p \in {"in1", "in2", "in3", "in4"} |-> 0]
  /\ pwm = [ch \in {"pwm0", "pwm1"} |-> [duty |-> 0, period |-> DefaultPeriod, on |-> TRUE]]
  /\ period_ns = DefaultPeriod
  /\ speed = [s \in Side |-> 0]
  /\ todo = [c \in Client |-> <<>>] /\ ret = [c \in Client |-> 0]

-----------------------------------------------------------------------------
(* What a wheel does: its direction, and the percentage of full power. *)
Turning(s) == LET f == pin[Bridge[s][1]]  b == pin[Bridge[s][2]] IN
              IF pwm[Channel[s]].on /\ pwm[Channel[s]].duty > 0 THEN f - b ELSE 0
Power(s) == LET ch == pwm[Channel[s]] IN (ch.duty * Percent) \div ch.period
=============================================================================

---------------------------- MODULE KernelModules ----------------------------
(* The five kernel modules of kernel_space and the two scripts that load and   *)
(* unload them, device_load.sh and device_unload.sh.  A module's init takes    *)
(* its resources one after the other and gives some of them back when one      *)
(* cannot be had; programs may open a device as soon as its node is there.     *)
(* The motor module also has a platform device, which a device tree overlay    *)
(* adds and removes: its memory goes when the driver is unbound from it, which *)
(* waits neither for open files nor for a call that is in the driver.          *)
EXTENDS Naturals, Sequences

CONSTANTS Busy,           \* the modules whose devices programs open
          Told            \* the sensor pins that programs name to hc_sr04

SensorPins == {9, 10, 11}
Module == {"buzzer_k", "tcrt5000_hal", "tcrt5000_driver", "hc_sr04", "motorv1"}

ASSUME BusyAssumption == Busy \subseteq Module \ {"tcrt5000_hal"}
ASSUME ToldAssumption == Told \subseteq SensorPins

VARIABLES stage,          \* stage[m]: "out", "init" or "in"
          held,           \* held[m]: the resources m has
          step,           \* the resource the init that runs is about to take
          script, line,   \* the script that runs, and its next command
          overlay,        \* whether the overlay of the motor is there
          global_motor_dev,
          inputs,         \* the pins of the line sensors that are inputs
          open,           \* the modules with an open file, one each
          inside,         \* whether a call of motor_ioctl is past its test
          refused,        \* history: a line sensor module could not be removed
          pulled,         \* history: the overlay went while motorv1 was loaded
          commanded,      \* history: hc_sr04 was told to make an output of a sensor pin
          fault           \* the first misuse of memory; it stops everything

files   == <<open, inside>>
history == <<refused, pulled, commanded>>
vars    == <<stage, held, step, script, line, overlay, global_motor_dev, inputs, files, history, fault>>

NoFault == <<"none", "none">>
Up == fault = NoFault
Fault(m, at) == fault' = <<m, at>>

-----------------------------------------------------------------------------
(* What each module takes in its init, in order; the failures it ignores; and  *)
(* what it gives back when it cannot have r.  An operator named ...Mut... is a *)
(* variant, with a bug in it, of the definition that follows.                  *)
init_module          == <<"region", "cdev", "class", "node", "map">>
tcrt5000_init        == <<"map">>
tcrt5000_driver_init == <<"region", "cdev", "class", "node">>
hc_sr04_init         == <<"region", "class", "map", "cdev", "node">>
motor_init           == <<"driver", "map", "pins", "region", "cdev", "class", "node">>

Order == [buzzer_k |-> init_module, tcrt5000_hal |-> tcrt5000_init,
          tcrt5000_driver |-> tcrt5000_driver_init, hc_sr04 |-> hc_sr04_init,
          motorv1 |-> motor_init]

Ignored == [buzzer_k |-> {"node"}, tcrt5000_hal |-> {}, tcrt5000_driver |-> {"node"},
            hc_sr04 |-> {"region", "class", "map", "cdev", "node"}, motorv1 |-> {"map"}]

(* The error paths that unregister a character device, in motorv1 and in       *)
(* tcrt5000_driver; motorv1 goes on to unmap and to unregister its driver,     *)
(* which frees the pins; buzzer_k forgets its region and its cdev.             *)
UndoneCharMutKeepsRegion(r) == CASE r = "cdev"  -> {"region"}
                                 [] r = "class" -> {"cdev"}
                                 [] r = "node"  -> {"class", "cdev", "region"}
                                 [] OTHER       -> {}
UndoneChar(r) == CASE r = "cdev"  -> {"region"}
                   [] r = "class" -> {"cdev", "region"}
                   [] r = "node"  -> {"class", "cdev", "region"}
                   [] OTHER       -> {}

Undone(m, r) == CASE m = "motorv1"             -> UndoneChar(r) \cup {"map", "pins", "driver"}
                  [] m = "tcrt5000_driver"     -> UndoneChar(r)
                  [] m = "buzzer_k" /\ r = "map" -> {"node", "class"}
                  [] OTHER                     -> {}

(* What its exit gives back. *)
cleanup_module       == {"map", "node", "class", "cdev", "region"}
tcrt5000_exit        == {"map"}
tcrt5000_driver_exit == {"node", "class", "cdev", "region"}
hc_sr04_exit         == {"node", "cdev", "class", "region", "map"}
motor_exit           == {"node", "class", "cdev", "region", "map", "pins", "driver"}

GivenBack == [buzzer_k |-> cleanup_module, tcrt5000_hal |-> tcrt5000_exit,
              tcrt5000_driver |-> tcrt5000_driver_exit, hc_sr04 |-> hc_sr04_exit,
              motorv1 |-> motor_exit]

(* buzzer_k sets bits of the function registers without clearing the others,   *)
(* which makes outputs of pins 9 and 10 if they were inputs; the HAL of the    *)
(* line sensors makes inputs of its three pins.                                *)
SensorInputsMutOneShort == {9, 11}
SensorInputsMutWrongPin == {9, 10, 12}
SensorInputs == {9, 10, 11}
Configured(m) == CASE m = "buzzer_k" -> inputs \ {9, 10}
                   [] m = "tcrt5000_hal" -> SensorInputs
                   [] OTHER -> inputs

-----------------------------------------------------------------------------
(* The commands of the scripts *)
Load   == <<"buzzer_k", "tcrt5000_hal", "tcrt5000_driver", "hc_sr04", "overlay", "motorv1">>
Unload == <<"buzzer_k", "tcrt5000_driver", "tcrt5000_hal", "hc_sr04", "overlay", "motorv1">>

(* tcrt_load.sh and tcrt_unload.sh skip what is done and go on after failures. *)
Tolerant == {"tcrt5000_hal", "tcrt5000_driver"}

Commands == [load |-> Load, unload |-> Unload, none |-> <<>>]
At(s, c) == script = s /\ Commands[s][line] = c

EndScript == script' = "none" /\ line' = 1
GoOn      == IF line = Len(Commands[script]) THEN EndScript ELSE line' = line + 1 /\ UNCHANGED script
Failed(m) == IF m \in Tolerant THEN GoOn ELSE EndScript

Begin(s) == /\ script = "none" /\ script' = s
            /\ UNCHANGED <<stage, held, step, line, overlay, global_motor_dev, inputs, files, history, fault>>

(* insmod and rmmod of a module that is there, or not there, already. *)
Already(s, m) == /\ At(s, m)
                 /\ stage[m] = (IF s = "load" THEN "in" ELSE "out")
                 /\ Failed(m)
                 /\ UNCHANGED <<stage, held, step, overlay, global_motor_dev, inputs, files, history, fault>>

(* A dtoverlay that fails is ignored.  With motorv1 still loaded a new device  *)
(* is probed: its driver data has no pins, no mapping and no character device. *)
AddOverlay ==
  /\ At("load", "overlay")
  /\ overlay' \in {overlay, TRUE}
  /\ \/ UNCHANGED global_motor_dev
     \/ /\ ~overlay /\ overlay' /\ stage["motorv1"] = "in"
        /\ global_motor_dev' \in {"again", "freed"}
  /\ GoOn
  /\ UNCHANGED <<stage, held, step, inputs, files, history, fault>>

(* The platform device goes: motor_remove clears the pointer, and the memory   *)
(* of the driver, with the cdev in it, and its pins are freed.                 *)
Bound == global_motor_dev \in {"live", "again"}
motor_remove == global_motor_dev' = "null"

RemoveOverlay ==
  /\ At("unload", "overlay")
  /\ overlay' \in {overlay, FALSE}
  /\ IF overlay /\ ~overlay' /\ Bound
     THEN motor_remove /\ held' = [held EXCEPT !["motorv1"] = @ \ {"pins"}]
     ELSE UNCHANGED <<global_motor_dev, held>>
  /\ pulled' = (pulled \/ (~overlay' /\ stage["motorv1"] = "in"))
  /\ GoOn
  /\ UNCHANGED <<stage, step, inputs, files, refused, commanded, fault>>

-----------------------------------------------------------------------------
(* insmod.  tcrt5000_driver needs a symbol of the HAL. *)
Insmod(m) ==
  /\ At("load", m) /\ stage[m] = "out"
  /\ IF m = "tcrt5000_driver" => stage["tcrt5000_hal"] = "in"
     THEN stage' = [stage EXCEPT ![m] = "init"] /\ step' = 1 /\ UNCHANGED <<script, line>>
     ELSE Failed(m) /\ UNCHANGED <<stage, step>>
  /\ UNCHANGED <<held, overlay, global_motor_dev, inputs, files, history, fault>>

Taking(m, r) == stage[m] = "init" /\ Order[m][step] = r

Advance(m) == IF step < Len(Order[m]) THEN step' = step + 1 /\ UNCHANGED <<stage, script, line>>
              ELSE /\ stage' = [stage EXCEPT ![m] = "in"] /\ step' = 1
                   /\ GoOn

(* init returns an error. *)
GiveUp(m) == stage' = [stage EXCEPT ![m] = "out"] /\ step' = 1 /\ Failed(m)

(* platform_driver_register, and within it motor_probe: the pointer is set at  *)
(* once, and a probe that fails frees what it points to.  Without the overlay  *)
(* there is no probe, and init unregisters the driver and fails.               *)
RegisterDriver ==
  /\ Taking("motorv1", "driver")
  /\ \/ GiveUp("motorv1") /\ UNCHANGED <<held, global_motor_dev>>
     \/ /\ overlay
        /\ global_motor_dev' \in {"live", "freed"}
        /\ held' = [held EXCEPT !["motorv1"] = {"driver"}]
        /\ Advance("motorv1")
  /\ UNCHANGED <<overlay, inputs, files, history, fault>>

Take(m, r) ==
  /\ Taking(m, r) /\ r # "driver"
  /\ m = "motorv1" => global_motor_dev = "live"
  /\ held' = [held EXCEPT ![m] = @ \cup {r}]
  /\ Advance(m)
  /\ inputs' = IF r = "map" THEN Configured(m) ELSE inputs
  /\ IF m = "tcrt5000_hal" THEN refused' = FALSE /\ commanded' = FALSE ELSE UNCHANGED <<refused, commanded>>
  /\ UNCHANGED <<overlay, global_motor_dev, files, pulled, fault>>

GoWithout(m, r) ==
  /\ Taking(m, r) /\ r \in Ignored[m]
  /\ m = "motorv1" => global_motor_dev = "live"
  /\ Advance(m)
  /\ UNCHANGED <<held, overlay, global_motor_dev, inputs, files, history, fault>>

TakeFails(m, r) ==
  /\ Taking(m, r) /\ r \notin Ignored[m] \cup {"driver"} /\ m \notin open
  /\ m = "motorv1" => global_motor_dev = "live"
  /\ held' = [held EXCEPT ![m] = @ \ Undone(m, r)]
  /\ IF m = "motorv1" THEN motor_remove ELSE UNCHANGED global_motor_dev
  /\ GiveUp(m)
  /\ UNCHANGED <<overlay, inputs, files, history, fault>>

(* An init that fails frees the code that an open file refers to.              *)
FailsInUse(m) ==
  /\ stage[m] = "init" /\ Order[m][step] \notin Ignored[m] /\ m \in open
  /\ Fault(m, "init")
  /\ UNCHANGED <<stage, held, step, script, line, overlay, global_motor_dev, inputs, files, history>>

(* motor_init stores the mapping through the pointer of a probe that failed.   *)
InitAfterProbe ==
  /\ Taking("motorv1", "map") /\ global_motor_dev = "freed"
  /\ Fault("motorv1", "probe")
  /\ UNCHANGED <<stage, held, step, script, line, overlay, global_motor_dev, inputs, files, history>>

-----------------------------------------------------------------------------
(* rmmod; it is refused while the module is in use. *)
InUse(m) == m \in open \/ (m = "tcrt5000_hal" /\ stage["tcrt5000_driver"] # "out")

Refused(m) ==
  /\ At("unload", m) /\ stage[m] = "in" /\ InUse(m)
  /\ refused' = (refused \/ m \in Tolerant)
  /\ Failed(m)
  /\ UNCHANGED <<stage, held, step, overlay, global_motor_dev, inputs, files, pulled, commanded, fault>>

(* motor_exit stops the wheels, without testing the pointer, and deletes the   *)
(* cdev, which a device probed again does not have, before it unregisters the  *)
(* driver.                                                                     *)
DevAtStopMutUnregistered == "null"
DevAtStop == global_motor_dev

Rmmod(m) ==
  /\ At("unload", m) /\ stage[m] = "in" /\ ~InUse(m)
  /\ IF m = "motorv1" /\ DevAtStop # "live"
     THEN /\ Fault(m, "exit")
          /\ UNCHANGED <<stage, held, script, line, global_motor_dev>>
     ELSE /\ stage' = [stage EXCEPT ![m] = "out"]
          /\ held' = [held EXCEPT ![m] = @ \ GivenBack[m]]
          /\ IF m = "motorv1" THEN motor_remove ELSE UNCHANGED global_motor_dev
          /\ GoOn /\ UNCHANGED fault
  /\ UNCHANGED <<step, overlay, inputs, files, history>>

-----------------------------------------------------------------------------
(* Programs.  /dev/motor0 is made by motor_load.sh, after insmod.  An open     *)
(* goes through the cdev, which is in the memory of the first device.          *)
Visible(m) == IF m = "motorv1" THEN stage[m] = "in" ELSE stage[m] # "out" /\ {"cdev", "node"} \subseteq held[m]

Open(m) == /\ m \in Busy \ open /\ Visible(m)
           /\ IF m = "motorv1" /\ global_motor_dev # "live" THEN Fault(m, "open") /\ UNCHANGED open
              ELSE open' = open \cup {m} /\ UNCHANGED fault
           /\ UNCHANGED <<stage, held, step, script, line, overlay, global_motor_dev, inputs, inside, history>>

(* A read, write or ioctl that follows a mapping that is not there.            *)
Mapped(m) == "map" \in held[IF m = "tcrt5000_driver" THEN "tcrt5000_hal" ELSE m]
Use(m) == /\ m \in open \ {"motorv1"} /\ ~Mapped(m)
          /\ Fault(m, "use")
          /\ UNCHANGED <<stage, held, step, script, line, overlay, global_motor_dev, inputs, files, history>>

(* An ioctl of hc_sr04 makes an output or an input of any pin it is given.     *)
hc_sr04_ioctl(p) ==
  /\ "hc_sr04" \in open /\ Mapped("hc_sr04")
  /\ \/ inputs' = inputs \ {p} /\ commanded' = TRUE
     \/ inputs' = inputs \cup {p} /\ UNCHANGED commanded
  /\ UNCHANGED <<stage, held, step, script, line, overlay, global_motor_dev, files, refused, pulled, fault>>

(* motor_ioctl tests the pointer once, and follows it many times after that,   *)
(* at the latest in the message at the end of every command.                   *)
IoctlTest == /\ "motorv1" \in open /\ ~inside /\ global_motor_dev # "null"
             /\ inside' = TRUE
             /\ UNCHANGED <<stage, held, step, script, line, overlay, global_motor_dev, inputs, open, history, fault>>

IoctlUse == /\ inside
            /\ IF Bound THEN inside' = FALSE /\ UNCHANGED fault
               ELSE Fault("motorv1", "use") /\ UNCHANGED inside
            /\ UNCHANGED <<stage, held, step, script, line, overlay, global_motor_dev, inputs, open, history>>

(* motor_release stops the wheels, without testing the pointer, and the file   *)
(* gives back the cdev it was opened through.                                  *)
Close(m) == /\ m \in open /\ ~(m = "motorv1" /\ inside)
            /\ IF m = "motorv1" /\ global_motor_dev # "live"
               THEN Fault(m, "release") /\ UNCHANGED open
               ELSE open' = open \ {m} /\ UNCHANGED fault
            /\ UNCHANGED <<stage, held, step, script, line, overlay, global_motor_dev, inputs, inside, history>>

-----------------------------------------------------------------------------
Init == /\ stage = [m \in Module |-> "out"] /\ held = [m \in Module |-> {}] /\ step = 1
        /\ script = "none" /\ line = 1
        /\ overlay = FALSE /\ global_motor_dev = "null"
        /\ inputs = SensorPins /\ open = {} /\ inside = FALSE
        /\ refused = FALSE /\ pulled = FALSE /\ commanded = FALSE /\ fault = NoFault

Resource == {"region", "cdev", "class", "node", "map", "driver", "pins"}

Script == \/ AddOverlay \/ RemoveOverlay \/ RegisterDriver \/ InitAfterProbe
          \/ \E s \in {"load", "unload"} : Begin(s) \/ \E m \in Module : Already(s, m)
          \/ \E m \in Module : \/ Insmod(m) \/ Rmmod(m) \/ Refused(m) \/ FailsInUse(m)
                               \/ \E r \in Resource : Take(m, r) \/ GoWithout(m, r) \/ TakeFails(m, r)
Program == \/ \E m \in Module : Open(m) \/ Use(m) \/ Close(m)
           \/ IoctlTest \/ IoctlUse \/ \E p \in Told : hc_sr04_ioctl(p)

Next == Up /\ (Script \/ Program)
Spec == Init /\ [][Next]_vars

-----------------------------------------------------------------------------
TypeOK == /\ stage \in [Module -> {"out", "init", "in"}]
          /\ held \in [Module -> SUBSET Resource]
          /\ step \in 1 .. 7 /\ line \in 1 .. 6 /\ script \in {"none", "load", "unload"}
          /\ overlay \in BOOLEAN /\ inside \in BOOLEAN
          /\ refused \in BOOLEAN /\ pulled \in BOOLEAN /\ commanded \in BOOLEAN
          /\ global_motor_dev \in {"null", "live", "again", "freed"}
          /\ inputs \subseteq SensorPins /\ open \subseteq Busy
          /\ fault \in {NoFault} \cup Module \X {"open", "use", "release", "exit", "probe", "init"}

(* A module that is not loaded holds nothing, wherever its init failed and     *)
(* however often it was loaded: all but buzzer_k, whose init forgets its       *)
(* region and its cdev.                                                        *)
NothingLeftBehind == Up => \A m \in Module \ {"buzzer_k"} : stage[m] = "out" => held[m] = {}

(* Which misuses of memory there are, and what leads to them: the line sensors *)
(* are never read without a mapping; buzzer_k is misused only while its init   *)
(* runs, not once it is loaded; and the motor driver only after its overlay    *)
(* was removed under it, or in an init that took a failed probe for a device.  *)
MisuseHasCause ==
  /\ fault[1] # "tcrt5000_driver"
  /\ fault[1] = "buzzer_k" => stage["buzzer_k"] = "init"
  /\ fault[1] = "motorv1" => pulled \/ (stage["motorv1"] = "init" /\ global_motor_dev = "freed")

(* A pin of the line sensors is an output, while the module that reads it is   *)
(* loaded, only after a program told hc_sr04 to make it one, or after the      *)
(* removal of a line sensor module was refused; buzzer_k, which makes outputs  *)
(* of two of the pins, otherwise comes before them.                            *)
PinLossHasCause == stage["tcrt5000_hal"] = "in" /\ inputs # SensorPins => refused \/ commanded

-----------------------------------------------------------------------------
(* What the comments of the source say, and its code does not do *)

(* motorv1.c, motor_exit: unloading stops the motors; device_unload.sh unloads *)
(* all modules.                                                                *)
ExitSafe == fault # <<"motorv1", "exit">>
=============================================================================

------------------------- MODULE KernelModulesProofs --------------------------
(* Proofs about KernelModules, whatever devices programs open and whatever     *)
(* pins they give to hc_sr04.                                                  *)
EXTENDS KernelModules, TLAPS

Types == /\ stage \in [Module -> {"out", "init", "in"}]
         /\ held \in [Module -> SUBSET Resource]
         /\ step \in Nat \ {0} /\ open \subseteq Module

(* Only the module that the load script is inserting is in its init. *)
OneInit == \A m \in Module : stage[m] = "init" => At("load", m) /\ step <= Len(Order[m])

(* What a module holds is what its exit gives back; in its init it holds only  *)
(* what the steps behind it took, and outside of its life nothing.             *)
Accounted == \A m \in Module : held[m] \subseteq GivenBack[m]
SoFar     == \A m \in Module \ {"buzzer_k"} : stage[m] = "init" =>
               held[m] \subseteq {Order[m][i] : i \in 1 .. step - 1}
Emptied   == \A m \in Module \ {"buzzer_k"} : stage[m] = "out" => held[m] = {}

Inv == Types /\ OneInit /\ Accounted /\ SoFar /\ Emptied

(* Before the first insmod nothing is loaded or held.                          *)
LEMMA InitInv == Init => Inv
BY DEF Init, Inv, Types, OneInit, Accounted, SoFar, Emptied, Module, Resource

(* The inits take what the exits give back; the motor module begins with its   *)
(* driver.                                                                     *)
LEMMA Orders ==
  /\ \A m \in Module : /\ Len(Order[m]) \in Nat \ {0}
                       /\ \A i \in 1 .. Len(Order[m]) : Order[m][i] \in GivenBack[m]
  /\ \A i \in 1 .. Len(Order["motorv1"]) : Order["motorv1"][i] = "driver" <=> i = 1
<1>1. \A m \in Module : /\ Len(Order[m]) \in Nat \ {0}
                        /\ \A i \in 1 .. Len(Order[m]) : Order[m][i] \in GivenBack[m]
  <2> SUFFICES ASSUME NEW m \in Module
               PROVE  /\ Len(Order[m]) \in Nat \ {0}
                      /\ \A i \in 1 .. Len(Order[m]) : Order[m][i] \in GivenBack[m]
    OBVIOUS
  <2>1. CASE m = "buzzer_k"
    BY <2>1 DEF Order, GivenBack, init_module, cleanup_module
  <2>2. CASE m = "tcrt5000_hal"
    BY <2>2 DEF Order, GivenBack, tcrt5000_init, tcrt5000_exit
  <2>3. CASE m = "tcrt5000_driver"
    BY <2>3 DEF Order, GivenBack, tcrt5000_driver_init, tcrt5000_driver_exit
  <2>4. CASE m = "hc_sr04"
    BY <2>4 DEF Order, GivenBack, hc_sr04_init, hc_sr04_exit
  <2>5. CASE m = "motorv1"
    BY <2>5 DEF Order, GivenBack, motor_init, motor_exit
  <2> QED
    BY <2>1, <2>2, <2>3, <2>4, <2>5 DEF Module
<1>2. \A i \in 1 .. Len(Order["motorv1"]) : Order["motorv1"][i] = "driver" <=> i = 1
  BY DEF Order, motor_init
<1> QED
  BY <1>1, <1>2

(* The error path of a step of an init, except in buzzer_k, gives back what    *)
(* every step before it may have taken.                                        *)
LEMMA ErrorPaths ==
  ASSUME NEW m \in Module \ {"buzzer_k"}, NEW k \in 1 .. Len(Order[m]),
         Order[m][k] \notin Ignored[m] \cup {"driver"}, NEW i \in 1 .. k - 1
  PROVE  Order[m][i] \in Undone(m, Order[m][k])
<1>1. CASE m = "tcrt5000_hal"
  BY <1>1 DEF Order, tcrt5000_init
<1>2. CASE m = "hc_sr04"
  <2>1. k \in 1 .. 5
    BY <1>2 DEF Order, hc_sr04_init
  <2> QED
    BY <1>2, <2>1 DEF Order, hc_sr04_init, Ignored
<1>3. CASE m = "tcrt5000_driver"
  <2>1. k \in 1 .. 4 /\ Order[m] = <<"region", "cdev", "class", "node">> /\ Ignored[m] = {"node"}
    BY <1>3 DEF Order, tcrt5000_driver_init, Ignored
  <2>2. k = 1 \/ k = 2 \/ k = 3
    BY <2>1
  <2>3. CASE k = 1
    BY <2>3
  <2>4. CASE k = 2
    BY <1>3, <2>1, <2>4 DEF Undone, UndoneChar
  <2>5. CASE k = 3
    BY <1>3, <2>1, <2>5 DEF Undone, UndoneChar
  <2> QED
    BY <2>2, <2>3, <2>4, <2>5
<1>4. CASE m = "motorv1"
  <2>1. /\ k \in 1 .. 7 /\ Ignored[m] = {"map"}
        /\ Order[m] = <<"driver", "map", "pins", "region", "cdev", "class", "node">>
    BY <1>4 DEF Order, motor_init, Ignored
  <2>2. k = 3 \/ k = 4 \/ k = 5 \/ k = 6 \/ k = 7
    BY <2>1
  <2>3. CASE k = 3 \/ k = 4
    BY <1>4, <2>1, <2>3 DEF Undone, UndoneChar
  <2>4. CASE k = 5
    BY <1>4, <2>1, <2>4 DEF Undone, UndoneChar
  <2>5. CASE k = 6
    BY <1>4, <2>1, <2>5 DEF Undone, UndoneChar
  <2>6. CASE k = 7
    BY <1>4, <2>1, <2>6 DEF Undone, UndoneChar
  <2> QED
    BY <2>2, <2>3, <2>4, <2>5, <2>6
<1> QED
  BY <1>1, <1>2, <1>3, <1>4 DEF Module

(* While the script is at the command for m no other module is in its init. *)
LEMMA Alone ==
  ASSUME OneInit, NEW s, NEW c, At(s, c), NEW m \in Module, stage[m] = "init"
  PROVE  s = "load" /\ c = m
BY DEF OneInit, At

(* The end of an init, and a step of it that takes at most its resource. *)
LEMMA AdvanceInv ==
  ASSUME Inv, NEW m \in Module, stage[m] = "init", Advance(m),
         held' \in [Module -> SUBSET Resource], Accounted',
         held'[m] \subseteq held[m] \cup {Order[m][step]},
         \A n \in Module \ {m} : held'[n] = held[n],
         open' = open
  PROVE  Inv'
<1>1. step \in Nat \ {0} /\ m \in Module /\ stage \in [Module -> {"out", "init", "in"}]
  BY DEF Inv, Types
<1>2. Types'
  BY <1>1 DEF Advance, Inv, Types
<1>3. \A n \in Module \ {m} : stage[n] # "init"
  BY Alone DEF Inv, OneInit
<1>4. OneInit'
  BY <1>1, <1>3, Orders DEF Advance, Inv, OneInit, At
<1>5. Emptied'
  BY <1>1 DEF Advance, Inv, Emptied
<1>6. SoFar'
  <2> SUFFICES ASSUME NEW n \in Module \ {"buzzer_k"}, stage'[n] = "init",
                      NEW x \in held'[n]
               PROVE  \E i \in 1 .. step' - 1 : Order[n][i] = x
    BY DEF SoFar
  <2>1. n = m /\ step' = step + 1
    BY <1>1, <1>3 DEF Advance
  <2>2. x \in held[m] \/ x = Order[m][step]
    BY <2>1
  <2>3. x \in held[m] => \E i \in 1 .. step - 1 : Order[m][i] = x
    BY <2>1 DEF Inv, SoFar
  <2> QED
    BY <1>1, <2>1, <2>2, <2>3
<1> QED
  BY <1>2, <1>4, <1>5, <1>6 DEF Inv

(* A step after which no module is in its init. *)
LEMMA NoInitInv ==
  ASSUME Inv, Types', Accounted', Emptied', \A n \in Module : stage'[n] # "init"
  PROVE  Inv'
BY DEF Inv, OneInit, SoFar

(* The failure of an init: the module is out again. *)
LEMMA GiveUpInv ==
  ASSUME Inv, NEW m \in Module, stage[m] = "init", GiveUp(m),
         held' \in [Module -> SUBSET Resource], Accounted',
         m # "buzzer_k" => held'[m] = {},
         \A n \in Module \ {m} : held'[n] = held[n],
         open' = open
  PROVE  Inv'
<1>1. stage \in [Module -> {"out", "init", "in"}] /\ stage' = [stage EXCEPT ![m] = "out"] /\ step' = 1
  BY DEF Inv, Types, GiveUp
<1>2. Types'
  BY <1>1 DEF Inv, Types
<1>3. \A n \in Module : stage'[n] # "init"
  BY <1>1, Alone DEF Inv, OneInit
<1>4. Emptied'
  BY <1>1 DEF Inv, Emptied
<1> QED
  BY <1>2, <1>3, <1>4, NoInitInv

(* What an init takes next is something that its exit gives back.              *)
LEMMA TakingResource ==
  ASSUME Inv, NEW m \in Module, NEW r, Taking(m, r)
  PROVE  /\ stage[m] = "init" /\ r = Order[m][step] /\ step \in 1 .. Len(Order[m])
         /\ r \in GivenBack[m]
         /\ m = "motorv1" => (r = "driver" <=> step = 1)
<1>1. stage[m] = "init" /\ Order[m][step] = r /\ step \in Nat \ {0} /\ step <= Len(Order[m])
  BY DEF Taking, Inv, OneInit, Types
<1>2. step \in 1 .. Len(Order[m])
  BY <1>1, Orders
<1> QED
  BY <1>1, <1>2, Orders

(* A step of an init that succeeds: it holds one thing more.                   *)
LEMMA TakeInv ==
  ASSUME Inv, NEW m \in Module, NEW r \in Resource, Take(m, r)
  PROVE  Inv'
<1>1. Types /\ Accounted
  BY DEF Inv
<1>2. stage[m] = "init" /\ r \in GivenBack[m] /\ r = Order[m][step]
  BY TakingResource DEF Take
<1>3. held' = [held EXCEPT ![m] = @ \cup {r}] /\ open' = open
  BY DEF Take, files
<1>4. /\ held' \in [Module -> SUBSET Resource]
      /\ held'[m] = held[m] \cup {r}
      /\ \A n \in Module \ {m} : held'[n] = held[n]
  BY <1>1, <1>3 DEF Types
<1>5. Accounted'
  BY <1>1, <1>2, <1>3 DEF Accounted, Types
<1> QED
  BY <1>2, <1>3, <1>4, <1>5, AdvanceInv DEF Take

(* A failure that an init does not test: it goes on without the resource.      *)
LEMMA GoWithoutInv ==
  ASSUME Inv, NEW m \in Module, NEW r \in Resource, GoWithout(m, r)
  PROVE  Inv'
<1>1. stage[m] = "init" /\ Advance(m)
  BY DEF GoWithout, Taking
<1>2. held' = held /\ open' = open
  BY DEF GoWithout, files
<1>3. held' \in [Module -> SUBSET Resource] /\ Accounted'
  BY <1>2 DEF Inv, Types, Accounted
<1> QED
  BY <1>1, <1>2, <1>3, AdvanceInv

(* A failure that an init tests: its error path gives back what it undoes.     *)
LEMMA TakeFailsInv ==
  ASSUME Inv, NEW m \in Module, NEW r \in Resource, TakeFails(m, r)
  PROVE  Inv'
<1>1. Types /\ Accounted /\ SoFar /\ stage[m] = "init"
  BY DEF Inv, TakeFails, Taking
<1>2. held' = [held EXCEPT ![m] = @ \ Undone(m, r)] /\ open' = open
  BY DEF TakeFails, files
<1>3. /\ held' \in [Module -> SUBSET Resource] /\ Accounted'
      /\ \A n \in Module \ {m} : held'[n] = held[n]
  BY <1>1, <1>2 DEF Types, Accounted
<1>4. ASSUME m # "buzzer_k"
      PROVE  held'[m] = {}
  <2>1. r = Order[m][step] /\ step \in 1 .. Len(Order[m]) /\ r \notin Ignored[m] \cup {"driver"}
    BY TakingResource DEF TakeFails
  <2>2. \A i \in 1 .. step - 1 : Order[m][i] \in Undone(m, r)
    BY <1>4, <2>1, ErrorPaths
  <2>3. held[m] \subseteq Undone(m, r)
    BY <1>1, <1>4, <2>2 DEF SoFar
  <2> QED
    BY <1>1, <1>2, <2>3 DEF Types
<1> QED
  BY <1>1, <1>2, <1>3, <1>4, GiveUpInv DEF TakeFails

(* motor_probe: nothing is held before it.                                     *)
LEMMA RegisterDriverInv ==
  ASSUME Inv, RegisterDriver
  PROVE  Inv'
<1> DEFINE m == "motorv1"
<1>1. m \in Module /\ Types /\ Accounted /\ stage[m] = "init" /\ step = 1
      /\ Order[m][step] = "driver" /\ "driver" \in GivenBack[m] /\ open' = open
  BY TakingResource DEF RegisterDriver, Module, Inv, files
<1>2. held[m] = {}
  BY <1>1 DEF Inv, SoFar
<1>3. CASE GiveUp(m) /\ UNCHANGED held
  <2>1. held' \in [Module -> SUBSET Resource] /\ Accounted'
    BY <1>1, <1>3 DEF Types, Accounted
  <2> QED
    BY <1>1, <1>2, <1>3, <2>1, GiveUpInv
<1>4. CASE held' = [held EXCEPT ![m] = {"driver"}] /\ Advance(m)
  <2>1. /\ held' \in [Module -> SUBSET Resource] /\ Accounted' /\ held'[m] = {"driver"}
        /\ \A n \in Module \ {m} : held'[n] = held[n]
    BY <1>1, <1>4 DEF Types, Accounted, Resource
  <2> QED
    BY <1>1, <1>4, <2>1, AdvanceInv
<1> QED
  BY <1>3, <1>4 DEF RegisterDriver

(* Steps that touch no module: the script goes on while no init runs, or a     *)
(* program opens, uses or closes a device.                                     *)
LEMMA QuietInv ==
  ASSUME Inv, stage' = stage, held' = held, step' = step, open' \subseteq Module,
         (script' = script /\ line' = line) \/ \A m \in Module : stage[m] # "init"
  PROVE  Inv'
<1>1. Types' /\ Accounted' /\ SoFar' /\ Emptied'
  BY DEF Inv, Types, Accounted, SoFar, Emptied
<1>2. OneInit'
  BY DEF Inv, OneInit, At
<1> QED
  BY <1>1, <1>2 DEF Inv

(* insmod: the init of a module that holds nothing begins.                     *)
LEMMA InsmodInv ==
  ASSUME Inv, NEW m \in Module, Insmod(m)
  PROVE  Inv'
<1>1. \A n \in Module : stage[n] # "init"
  BY Alone DEF Inv, Insmod
<1>2. held' = held /\ open' = open
  BY DEF Insmod, files
<1>3. Types /\ stage[m] = "out" /\ At("load", m)
  BY DEF Inv, Insmod
<1>4. CASE stage' = stage /\ step' = step
  BY <1>1, <1>2, <1>4, <1>3, QuietInv DEF Types
<1>5. CASE stage' = [stage EXCEPT ![m] = "init"] /\ step' = 1 /\ script' = script /\ line' = line
  <2>1. Types' /\ Accounted'
    BY <1>2, <1>3, <1>5 DEF Inv, Types, Accounted
  <2>2. OneInit'
    BY <1>1, <1>3, <1>5, Orders DEF OneInit, At, Types
  <2>3. Emptied'
    BY <1>2, <1>3, <1>5 DEF Inv, Emptied, Types
  <2>4. SoFar'
    BY <1>1, <1>2, <1>3, <1>5 DEF Inv, Emptied, SoFar, Types
  <2> QED
    BY <2>1, <2>2, <2>3, <2>4 DEF Inv
<1> QED
  BY <1>4, <1>5 DEF Insmod

(* rmmod, refused or not: an exit gives back all that is held.                 *)
LEMMA RmmodInv ==
  ASSUME Inv, NEW m \in Module, Rmmod(m)
  PROVE  Inv'
<1>1. \A n \in Module : stage[n] # "init"
  BY Alone DEF Inv, Rmmod
<1>2. Types /\ Accounted /\ Emptied /\ open' = open /\ step' = step
  BY DEF Inv, Rmmod, files
<1>3. CASE UNCHANGED <<stage, held, script, line>>
  BY <1>1, <1>2, <1>3, QuietInv DEF Types
<1>4. CASE /\ stage' = [stage EXCEPT ![m] = "out"]
           /\ held' = [held EXCEPT ![m] = @ \ GivenBack[m]]
  <2>1. held' = [held EXCEPT ![m] = {}]
    BY <1>2, <1>4 DEF Types, Accounted
  <2>2. Types' /\ Accounted' /\ Emptied'
    BY <1>2, <1>4, <2>1 DEF Types, Accounted, Emptied
  <2>3. \A n \in Module : stage'[n] # "init"
    BY <1>1, <1>2, <1>4 DEF Types
  <2> QED
    BY <2>2, <2>3, NoInitInv
<1> QED
  BY <1>3, <1>4 DEF Rmmod

(* dtoverlay -r: at most the pins of the motor module go.                      *)
LEMMA RemoveOverlayInv ==
  ASSUME Inv, RemoveOverlay
  PROVE  Inv'
<1>1. \A n \in Module : stage[n] # "init"
  BY Alone DEF Inv, RemoveOverlay
<1>2. /\ stage' = stage /\ open' = open /\ step' = step
      /\ held' = held \/ held' = [held EXCEPT !["motorv1"] = @ \ {"pins"}]
  BY DEF RemoveOverlay, files
<1>3. Types' /\ Accounted' /\ Emptied'
  BY <1>2 DEF Inv, Types, Accounted, Emptied
<1> QED
  BY <1>1, <1>2, <1>3, NoInitInv

(* Every action preserves Inv.                                                 *)
LEMMA StepInv == Inv /\ [Next]_vars => Inv'
<1> SUFFICES ASSUME Inv, [Next]_vars PROVE Inv'
  OBVIOUS
<1> USE DEF files
<1>0. open \subseteq Module /\ OneInit
  BY DEF Inv, Types
<1>1. CASE UNCHANGED vars
  BY <1>0, <1>1, QuietInv DEF vars
<1>2. CASE AddOverlay
  BY <1>0, <1>2, Alone, QuietInv DEF AddOverlay, Module
<1>3. CASE RemoveOverlay
  BY <1>3, RemoveOverlayInv
<1>4. CASE RegisterDriver
  BY <1>4, RegisterDriverInv
<1>5. CASE InitAfterProbe
  BY <1>0, <1>5, QuietInv DEF InitAfterProbe
<1>6. ASSUME NEW s \in {"load", "unload"}, Begin(s)
      PROVE  Inv'
  <2>1. \A m \in Module : stage[m] # "init"
    BY <1>0, <1>6 DEF Begin, OneInit, At
  <2> QED
    BY <1>0, <1>6, <2>1, QuietInv DEF Begin
<1>7. ASSUME NEW s \in {"load", "unload"}, NEW m \in Module, Already(s, m)
      PROVE  Inv'
  <2>1. \A n \in Module : stage[n] # "init"
    BY <1>0, <1>7, Alone DEF Already
  <2> QED
    BY <1>0, <1>7, <2>1, QuietInv DEF Already
<1>8. ASSUME NEW m \in Module, Refused(m)
      PROVE  Inv'
  <2>1. \A n \in Module : stage[n] # "init"
    BY <1>0, <1>8, Alone DEF Refused
  <2> QED
    BY <1>0, <1>8, <2>1, QuietInv DEF Refused
<1>9. ASSUME NEW m \in Module, Insmod(m) \/ Rmmod(m)
      PROVE  Inv'
  BY <1>9, InsmodInv, RmmodInv
<1>10. ASSUME NEW m \in Module, NEW r \in Resource, Take(m, r) \/ GoWithout(m, r) \/ TakeFails(m, r)
       PROVE  Inv'
  BY <1>10, TakeInv, GoWithoutInv, TakeFailsInv
<1>11. ASSUME NEW m \in Module, FailsInUse(m)
       PROVE  Inv'
  BY <1>0, <1>11, QuietInv DEF FailsInUse
<1>12. ASSUME NEW m \in Module, Open(m) \/ Use(m) \/ Close(m)
       PROVE  Inv'
  <2>1. CASE Open(m)
    BY <1>0, <2>1, QuietInv DEF Open
  <2>2. CASE Use(m)
    BY <1>0, <2>2, QuietInv DEF Use
  <2>3. CASE Close(m)
    BY <1>0, <2>3, QuietInv DEF Close
  <2> QED
    BY <1>12, <2>1, <2>2, <2>3
<1>13. CASE IoctlTest \/ IoctlUse
  BY <1>0, <1>13, QuietInv DEF IoctlTest, IoctlUse
<1>14. ASSUME NEW p \in Told, hc_sr04_ioctl(p)
       PROVE  Inv'
  BY <1>0, <1>14, QuietInv DEF hc_sr04_ioctl
<1> QED
  BY <1>1, <1>2, <1>3, <1>4, <1>5, <1>6, <1>7, <1>8, <1>9, <1>10, <1>11, <1>12, <1>13, <1>14
  DEF Next, Script, Program

(* Wherever the init of a module fails and however often it is loaded and      *)
(* unloaded, in the middle of programs that open its device, a module other    *)
(* than buzzer_k that is not loaded holds nothing.                             *)
THEOREM ModulesClean == Spec => []NothingLeftBehind
<1>1. Inv => NothingLeftBehind
  BY DEF Inv, Emptied, NothingLeftBehind
<1> QED
  BY InitInv, StepInv, <1>1, PTL DEF Spec

-----------------------------------------------------------------------------
(* What leads to a misuse of memory *)

hal == "tcrt5000_hal"
drv == "tcrt5000_driver"
mot == "motorv1"
bzk == "buzzer_k"

(* The driver of the line sensors is loaded only over its HAL, whose init maps *)
(* the registers, as that of buzzer_k does; the driver's node is the last      *)
(* thing it takes.                                                             *)
HalBelow  == stage[drv] # "out" => stage[hal] = "in"
MapsFirst == \A m \in {hal, bzk} : stage[m] = "in" => "map" \in held[m]
NodeLast  == stage[drv] = "init" => "node" \notin held[drv]

(* A file is open only on a module that is there, and but for buzzer_k's and   *)
(* hc_sr04's on a complete one; a call is in the driver through an open file.  *)
OpenIsLoaded == \A m \in Module : m \in open => stage[m] # "out"
OpenIsIn     == \A m \in {drv, mot} : m \in open => stage[m] = "in"
InsideIsOpen == inside => mot \in open

(* Until its overlay is removed under it, a complete motorv1 has its device.   *)
OverlayThere == stage[mot] = "init" /\ step > 1 => overlay
MotorLive    == stage[mot] = "in" /\ ~pulled => global_motor_dev = "live" /\ overlay

Life == HalBelow /\ MapsFirst /\ NodeLast /\ OpenIsLoaded /\ OpenIsIn /\ InsideIsOpen /\ OverlayThere /\ MotorLive
CauseInv == Inv /\ Life /\ MisuseHasCause

LEMMA InitCause == Init => CauseInv
BY InitInv DEF Init, CauseInv, Life, HalBelow, MapsFirst, NodeLast, OpenIsLoaded, OpenIsIn, InsideIsOpen,
   OverlayThere, MotorLive, MisuseHasCause, NoFault, hal, drv, mot, bzk, Module

(* The names of the modules are those of modules, and different. *)
LEMMA Names ==
  /\ hal \in Module /\ drv \in Module /\ mot \in Module /\ bzk \in Module
  /\ hal # drv /\ hal # mot /\ hal # bzk /\ drv # mot /\ drv # bzk /\ mot # bzk
BY DEF hal, drv, mot, bzk, Module

(* A step that loads, takes and binds nothing leaves Life as it is.            *)
LEMMA LifeQuiet ==
  ASSUME Life, UNCHANGED <<stage, held, step, overlay, global_motor_dev, pulled>>,
         \A m \in Module : m \in open' => stage[m] # "out",
         \A m \in {drv, mot} : m \in open' => stage[m] = "in",
         inside' => mot \in open'
  PROVE  Life'
BY DEF Life, HalBelow, MapsFirst, NodeLast, OpenIsLoaded, OpenIsIn, InsideIsOpen, OverlayThere, MotorLive

(* The same when the files stay as they are. *)
LEMMA LifeSame ==
  ASSUME Life, UNCHANGED <<stage, held, step, overlay, global_motor_dev, pulled, open, inside>>
  PROVE  Life'
<1>1. OpenIsLoaded /\ OpenIsIn /\ InsideIsOpen
  BY DEF Life
<1> QED
  BY <1>1, LifeQuiet DEF OpenIsLoaded, OpenIsIn, InsideIsOpen

(* A step of an init that succeeds completes a module only with all it needs.  *)
LEMMA LifeTake ==
  ASSUME Inv, Life, NEW m \in Module, NEW r \in Resource, Take(m, r)
  PROVE  Life'
<1>1. /\ stage[m] = "init" /\ stage \in [Module -> {"out", "init", "in"}]
      /\ held \in [Module -> SUBSET Resource]
      /\ held' = [held EXCEPT ![m] = @ \cup {r}]
      /\ r = Order[m][step] /\ step \in 1 .. Len(Order[m])
      /\ UNCHANGED <<open, inside, overlay, global_motor_dev, pulled>>
      /\ m = mot => global_motor_dev = "live" /\ step # 1
  BY TakingResource DEF Take, Inv, Types, files, mot
<1>2. \/ stage' = stage /\ step' = step + 1 /\ step < Len(Order[m])
      \/ stage' = [stage EXCEPT ![m] = "in"] /\ step' = 1 /\ step = Len(Order[m])
  BY <1>1 DEF Take, Advance
<1>3. HalBelow'
  BY <1>1, <1>2, Names DEF Life, HalBelow
<1>4. MapsFirst'
  <2>1. m = hal => r = "map"
    BY <1>1 DEF Order, tcrt5000_init, hal
  <2>2. m = bzk /\ step = Len(Order[m]) => r = "map"
    BY <1>1 DEF Order, init_module, bzk
  <2> QED
    BY <1>1, <1>2, <2>1, <2>2, Names DEF Life, MapsFirst
<1>5. NodeLast'
  <2>1. CASE m = drv
    <3>1. step \in 1 .. 4 /\ Len(Order[m]) = 4 /\ r = <<"region", "cdev", "class", "node">>[step]
      BY <1>1, <2>1 DEF Order, tcrt5000_driver_init, drv
    <3>2. stage'[drv] = "init" => step # 4
      BY <1>1, <1>2, <2>1, <3>1
    <3>3. step # 4 => r # "node"
      BY <3>1
    <3> QED
      BY <1>1, <2>1, <3>2, <3>3 DEF Life, NodeLast
  <2>2. CASE m # drv
    BY <1>1, <1>2, <2>2, Names DEF Life, NodeLast
  <2> QED
    BY <2>1, <2>2
<1>6. OpenIsLoaded' /\ OpenIsIn' /\ InsideIsOpen'
  BY <1>1, <1>2, Names DEF Life, OpenIsLoaded, OpenIsIn, InsideIsOpen
<1>7. OverlayThere' /\ MotorLive'
  <2>1. CASE m = mot
    BY <1>1, <1>2, <2>1 DEF Life, OverlayThere, MotorLive
  <2>2. CASE m # mot
    <3>1. stage'[mot] = stage[mot]
      BY <1>1, <1>2, <2>2, Names
    <3>2. stage[mot] # "init"
      BY <1>1, <2>2, Names, Alone DEF Inv, OneInit
    <3> QED
      BY <1>1, <3>1, <3>2 DEF Life, OverlayThere, MotorLive
  <2> QED
    BY <2>1, <2>2
<1> QED
  BY <1>3, <1>4, <1>5, <1>6, <1>7 DEF Life

(* A step of an init that goes on without its resource.                        *)
LEMMA LifeGoWithout ==
  ASSUME Inv, Life, NEW m \in Module, NEW r \in Resource, GoWithout(m, r)
  PROVE  Life'
<1>1. /\ stage[m] = "init" /\ stage \in [Module -> {"out", "init", "in"}] /\ held' = held
      /\ r = Order[m][step] /\ step \in 1 .. Len(Order[m]) /\ r \in Ignored[m]
      /\ UNCHANGED <<open, inside, overlay, global_motor_dev, pulled>>
      /\ m = mot => global_motor_dev = "live" /\ step # 1
  <2>1. m = mot => "driver" \notin Ignored[m] /\ (Order[m][step] = "driver" <=> step = 1)
    BY TakingResource DEF GoWithout, Ignored, mot
  <2> QED
    BY <2>1, TakingResource DEF GoWithout, Inv, Types, files, history, mot
<1>2. \/ stage' = stage /\ step' = step + 1
      \/ stage' = [stage EXCEPT ![m] = "in"] /\ step' = 1 /\ step = Len(Order[m])
  BY <1>1 DEF GoWithout, Advance
<1>3. m # hal
  BY <1>1 DEF Ignored, hal
<1>4. m = bzk => stage' = stage
  BY <1>1, <1>2 DEF Ignored, Order, init_module, bzk
<1>5. HalBelow' /\ MapsFirst' /\ NodeLast' /\ OpenIsLoaded' /\ OpenIsIn' /\ InsideIsOpen'
  BY <1>1, <1>2, <1>3, <1>4, Names DEF Life, HalBelow, MapsFirst, NodeLast, OpenIsLoaded, OpenIsIn, InsideIsOpen
<1>6. OverlayThere' /\ MotorLive'
  <2>1. CASE m = mot
    BY <1>1, <1>2, <2>1 DEF Life, OverlayThere, MotorLive
  <2>2. CASE m # mot
    <3>1. stage'[mot] = stage[mot]
      BY <1>1, <1>2, <2>2, Names
    <3>2. stage[mot] # "init"
      BY <1>1, <2>2, Names, Alone DEF Inv, OneInit
    <3> QED
      BY <1>1, <3>1, <3>2 DEF Life, OverlayThere, MotorLive
  <2> QED
    BY <2>1, <2>2
<1> QED
  BY <1>5, <1>6 DEF Life

(* A module whose init failed is out, and no file is open on it.               *)
LEMMA LifeTakeFails ==
  ASSUME Inv, Life, NEW m \in Module, NEW r \in Resource, TakeFails(m, r)
  PROVE  Life'
<1>1. /\ stage[m] = "init" /\ stage \in [Module -> {"out", "init", "in"}] /\ m \notin open
      /\ stage' = [stage EXCEPT ![m] = "out"] /\ step' = 1
      /\ held \in [Module -> SUBSET Resource] /\ held' = [held EXCEPT ![m] = @ \ Undone(m, r)]
      /\ UNCHANGED <<open, inside, overlay, pulled>>
      /\ m # mot => global_motor_dev' = global_motor_dev
  BY DEF TakeFails, Taking, GiveUp, Inv, Types, files, history, mot
<1>2. HalBelow' /\ MapsFirst' /\ NodeLast' /\ OpenIsLoaded' /\ OpenIsIn' /\ InsideIsOpen'
  BY <1>1, Names DEF Life, HalBelow, MapsFirst, NodeLast, OpenIsLoaded, OpenIsIn, InsideIsOpen
<1>3. OverlayThere' /\ MotorLive'
  BY <1>1, Names DEF Life, OverlayThere, MotorLive
<1> QED
  BY <1>2, <1>3 DEF Life

(* insmod.                                                                     *)
LEMMA LifeInsmod ==
  ASSUME Inv, Life, NEW m \in Module, Insmod(m)
  PROVE  Life'
<1>1. /\ stage \in [Module -> {"out", "init", "in"}] /\ stage[m] = "out" /\ held' = held
      /\ UNCHANGED <<open, inside, overlay, global_motor_dev, pulled>>
      /\ m = drv => held[m] = {}
  BY Names DEF Insmod, Inv, Types, Emptied, files, history, bzk
<1>2. \/ UNCHANGED <<stage, step>>
      \/ stage' = [stage EXCEPT ![m] = "init"] /\ step' = 1 /\ (m = drv => stage[hal] = "in")
  BY DEF Insmod, drv, hal
<1>3. CASE UNCHANGED <<stage, step>>
  BY <1>1, <1>3, LifeSame
<1>4. CASE stage' = [stage EXCEPT ![m] = "init"] /\ step' = 1 /\ (m = drv => stage[hal] = "in")
  <2>1. HalBelow' /\ MapsFirst' /\ NodeLast'
    BY <1>1, <1>4, Names DEF Life, HalBelow, MapsFirst, NodeLast
  <2>2. OpenIsLoaded' /\ OpenIsIn' /\ InsideIsOpen' /\ OverlayThere' /\ MotorLive'
    BY <1>1, <1>4, Names DEF Life, OpenIsLoaded, OpenIsIn, InsideIsOpen, OverlayThere, MotorLive
  <2> QED
    BY <2>1, <2>2 DEF Life
<1> QED
  BY <1>2, <1>3, <1>4

(* rmmod: it is refused while a file is open, and for the HAL while the driver *)
(* above it is there.                                                          *)
LEMMA LifeRmmod ==
  ASSUME Inv, Life, NEW m \in Module, Rmmod(m)
  PROVE  Life'
<1>1. /\ stage \in [Module -> {"out", "init", "in"}] /\ held \in [Module -> SUBSET Resource]
      /\ m \notin open /\ (m = hal => stage[drv] = "out")
      /\ UNCHANGED <<open, inside, overlay, pulled, step>>
      /\ m # mot => global_motor_dev' = global_motor_dev
  BY DEF Rmmod, InUse, Inv, Types, files, history, hal, drv, mot
<1>2. CASE UNCHANGED <<stage, held, script, line, global_motor_dev>>
  BY <1>1, <1>2, LifeSame
<1>3. CASE /\ stage' = [stage EXCEPT ![m] = "out"]
           /\ held' = [held EXCEPT ![m] = @ \ GivenBack[m]]
  <2>1. HalBelow' /\ MapsFirst' /\ NodeLast'
    BY <1>1, <1>3, Names DEF Life, HalBelow, MapsFirst, NodeLast
  <2>2. OpenIsLoaded' /\ OpenIsIn' /\ InsideIsOpen' /\ OverlayThere' /\ MotorLive'
    BY <1>1, <1>3, Names DEF Life, OpenIsLoaded, OpenIsIn, InsideIsOpen, OverlayThere, MotorLive
  <2> QED
    BY <2>1, <2>2 DEF Life
<1> QED
  BY <1>2, <1>3 DEF Rmmod

(* The registration of the driver, which is never the last step of the init.   *)
LEMMA LifeRegister ==
  ASSUME Inv, Life, RegisterDriver
  PROVE  Life'
<1>1. /\ stage \in [Module -> {"out", "init", "in"}] /\ held \in [Module -> SUBSET Resource]
      /\ stage[mot] = "init" /\ step = 1
      /\ UNCHANGED <<open, inside, overlay, pulled>>
  BY TakingResource, Names DEF Inv, Types, RegisterDriver, files, history, mot
<1>2. Len(Order[mot]) = 7
  BY DEF Order, motor_init, mot
<1>3. /\ \/ stage' = [stage EXCEPT ![mot] = "out"] /\ step' = 1
         \/ stage' = stage /\ step' = 2 /\ overlay
      /\ held' = held \/ held' = [held EXCEPT ![mot] = {"driver"}]
  BY <1>1, <1>2 DEF RegisterDriver, GiveUp, Advance, mot
<1>4. mot \notin open
  BY <1>1 DEF Life, OpenIsIn
<1>5. HalBelow' /\ MapsFirst' /\ NodeLast' /\ OpenIsLoaded' /\ OpenIsIn' /\ InsideIsOpen'
  BY <1>1, <1>3, <1>4, Names DEF Life, HalBelow, MapsFirst, NodeLast, OpenIsLoaded, OpenIsIn, InsideIsOpen
<1>6. OverlayThere' /\ MotorLive'
  BY <1>1, <1>3, Names DEF Life, OverlayThere, MotorLive
<1> QED
  BY <1>5, <1>6 DEF Life

(* dtoverlay: adding an overlay that is there binds nothing, and removing it   *)
(* while motorv1 is loaded is on record.                                       *)
LEMMA LifeOverlay ==
  ASSUME Inv, Life, AddOverlay \/ RemoveOverlay
  PROVE  Life'
<1>1. stage[mot] # "init"
  <2>1. OneInit /\ (At("load", "overlay") \/ At("unload", "overlay")) /\ mot # "overlay"
    BY DEF Inv, AddOverlay, RemoveOverlay, mot
  <2> QED
    BY <2>1, Names, Alone
<1>2. CASE AddOverlay
  <2>1. /\ UNCHANGED <<stage, held, step, open, inside, pulled>> /\ overlay' \in {overlay, TRUE}
        /\ global_motor_dev' = global_motor_dev \/ (~overlay /\ stage[mot] = "in")
    BY <1>2 DEF AddOverlay, files, history, mot
  <2>2. HalBelow' /\ MapsFirst' /\ NodeLast' /\ OpenIsLoaded' /\ OpenIsIn' /\ InsideIsOpen'
    BY <2>1 DEF Life, HalBelow, MapsFirst, NodeLast, OpenIsLoaded, OpenIsIn, InsideIsOpen
  <2>3. OverlayThere' /\ MotorLive'
    <3>1. stage[mot] = "in" /\ ~pulled => global_motor_dev' = "live" /\ overlay'
      <4>1. overlay => overlay'
        BY <2>1, Zenon
      <4>2. stage[mot] = "in" /\ ~pulled => global_motor_dev = "live" /\ overlay
        BY DEF Life, MotorLive
      <4> QED
        BY <2>1, <4>1, <4>2, Zenon
    <3> QED
      BY <1>1, <2>1, <3>1 DEF OverlayThere, MotorLive
  <2> QED
    BY <2>2, <2>3 DEF Life
<1>3. CASE RemoveOverlay
  <2>1. /\ UNCHANGED <<stage, step, open, inside>> /\ overlay' \in {overlay, FALSE}
        /\ pulled' = (pulled \/ (~overlay' /\ stage[mot] = "in"))
        /\ overlay' => UNCHANGED <<global_motor_dev, held>>
        /\ held' = held \/ held' = [held EXCEPT ![mot] = @ \ {"pins"}]
    BY <1>3 DEF RemoveOverlay, files, mot
  <2>2. \A m \in Module \ {mot} : held'[m] = held[m]
    BY <2>1 DEF Inv, Types
  <2>3. HalBelow' /\ MapsFirst' /\ NodeLast' /\ OpenIsLoaded' /\ OpenIsIn' /\ InsideIsOpen'
    BY <2>1, <2>2, Names DEF Life, HalBelow, MapsFirst, NodeLast, OpenIsLoaded, OpenIsIn, InsideIsOpen
  <2>4. OverlayThere' /\ MotorLive'
    BY <1>1, <2>1 DEF Life, OverlayThere, MotorLive
  <2> QED
    BY <2>3, <2>4 DEF Life
<1> QED
  BY <1>2, <1>3

(* Nothing was misused yet, so a misuse is that of the step. *)
LEMMA NoMisuse == fault' = NoFault => MisuseHasCause'
BY DEF NoFault, MisuseHasCause

(* The steps of programs.                                                      *)
LEMMA ProgramCause ==
  ASSUME CauseInv, Up, Program
  PROVE  Life' /\ MisuseHasCause'
<1>1. /\ Inv /\ Life /\ fault = NoFault
      /\ HalBelow /\ MapsFirst /\ NodeLast /\ OpenIsLoaded /\ OpenIsIn /\ InsideIsOpen /\ MotorLive
      /\ stage \in [Module -> {"out", "init", "in"}]
  BY DEF CauseInv, Life, Inv, Types, Up
<1>2. ASSUME NEW m \in Module, Open(m)
      PROVE  Life' /\ MisuseHasCause'
  <2>1. stage[m] # "out" /\ (m \in {drv, mot} => stage[m] = "in")
    <3>1. m = drv => "node" \in held[drv] /\ stage[drv] # "out"
      BY <1>2 DEF Open, Visible, drv
    <3>2. m = mot => stage[m] = "in"
      BY <1>2 DEF Open, Visible, mot
    <3>3. m # mot => stage[m] # "out"
      BY <1>2 DEF Open, Visible, mot
    <3> QED
      BY <1>1, <3>1, <3>2, <3>3, Names DEF NodeLast
  <2>2. UNCHANGED <<stage, held, step, overlay, global_motor_dev, pulled, inside>>
    BY <1>2 DEF Open, history
  <2>3. open' = open \/ open' = open \cup {m}
    BY <1>2 DEF Open
  <2>4. Life'
    BY <1>1, <2>1, <2>2, <2>3, LifeQuiet DEF OpenIsLoaded, OpenIsIn, InsideIsOpen
  <2>5. MisuseHasCause'
    <3>1. CASE UNCHANGED fault
      BY <1>1, <3>1, NoMisuse
    <3>2. CASE m = mot /\ global_motor_dev # "live" /\ fault' = <<mot, "open">>
      BY <1>1, <2>1, <2>2, <3>2 DEF MotorLive, MisuseHasCause, mot
    <3> QED
      BY <1>2, <3>1, <3>2 DEF Open, Fault, mot
  <2> QED
    BY <2>4, <2>5
<1>3. ASSUME NEW m \in Module, Use(m)
      PROVE  Life' /\ MisuseHasCause'
  <2>1. /\ UNCHANGED <<stage, held, step, overlay, global_motor_dev, pulled, open, inside>>
        /\ m \in open /\ m # mot /\ ~Mapped(m) /\ fault' = <<m, "use">>
    BY <1>3 DEF Use, Fault, files, history, mot
  <2>2. Life'
    BY <1>1, <2>1, LifeSame
  <2>3. m # drv
    <3>1. m = drv => stage[hal] = "in"
      BY <1>1, <2>1 DEF OpenIsIn, HalBelow
    <3>2. m = drv => "map" \in held[hal]
      BY <1>1, <3>1 DEF MapsFirst
    <3> QED
      BY <2>1, <3>2 DEF Mapped, drv, hal
  <2>4. m = bzk => stage[bzk] = "init"
    <3>1. m = bzk => "map" \notin held[bzk]
      BY <2>1 DEF Mapped, bzk
    <3> QED
      BY <1>1, <2>1, <3>1, Names DEF MapsFirst, OpenIsLoaded
  <2>5. MisuseHasCause'
    BY <2>1, <2>3, <2>4 DEF MisuseHasCause, drv, bzk, mot
  <2> QED
    BY <2>2, <2>5
<1>4. ASSUME NEW m \in Module, Close(m)
      PROVE  Life' /\ MisuseHasCause'
  <2>1. /\ UNCHANGED <<stage, held, step, overlay, global_motor_dev, pulled, inside>>
        /\ m \in open /\ ~(m = mot /\ inside)
        /\ open' = open \/ open' = open \ {m}
    BY <1>4 DEF Close, history, mot
  <2>2. Life'
    BY <1>1, <2>1, LifeQuiet DEF OpenIsLoaded, OpenIsIn, InsideIsOpen
  <2>3. MisuseHasCause'
    <3>1. CASE UNCHANGED fault
      BY <1>1, <3>1, NoMisuse
    <3>2. CASE m = mot /\ global_motor_dev # "live" /\ fault' = <<mot, "release">>
      BY <1>1, <2>1, <3>2 DEF OpenIsIn, MotorLive, MisuseHasCause, mot
    <3> QED
      BY <1>4, <3>1, <3>2 DEF Close, Fault, mot
  <2> QED
    BY <2>2, <2>3
<1>5. CASE IoctlTest
  <2>1. /\ UNCHANGED <<stage, held, step, overlay, global_motor_dev, pulled, open, fault>> /\ mot \in open
    BY <1>5 DEF IoctlTest, history, mot
  <2> QED
    BY <1>1, <2>1, LifeQuiet, NoMisuse DEF OpenIsLoaded, OpenIsIn
<1>6. CASE IoctlUse
  <2>1. /\ UNCHANGED <<stage, held, step, overlay, global_motor_dev, pulled, open>> /\ inside
    BY <1>6 DEF IoctlUse, history
  <2>2. Life'
    BY <1>1, <2>1, LifeQuiet DEF OpenIsLoaded, OpenIsIn, InsideIsOpen
  <2>3. MisuseHasCause'
    <3>1. CASE UNCHANGED fault
      BY <1>1, <3>1, NoMisuse
    <3>2. CASE ~Bound /\ fault' = <<mot, "use">>
      BY <1>1, <2>1, <3>2 DEF OpenIsIn, InsideIsOpen, MotorLive, Bound, MisuseHasCause, mot
    <3> QED
      BY <1>6, <3>1, <3>2 DEF IoctlUse, Fault, mot
  <2> QED
    BY <2>2, <2>3
<1>7. ASSUME NEW p \in Told, hc_sr04_ioctl(p)
      PROVE  Life' /\ MisuseHasCause'
  <2>1. UNCHANGED <<stage, held, step, overlay, global_motor_dev, pulled, open, inside, fault>>
    BY <1>7 DEF hc_sr04_ioctl, files
  <2> QED
    BY <1>1, <2>1, LifeSame, NoMisuse
<1> QED
  BY <1>2, <1>3, <1>4, <1>5, <1>6, <1>7 DEF Program

(* The commands of the scripts, and the inits and exits they run.              *)
LEMMA ScriptCause ==
  ASSUME CauseInv, Up, Script
  PROVE  Life' /\ MisuseHasCause'
<1> USE DEF files, history
<1>1. Inv /\ Life /\ fault = NoFault
  BY DEF CauseInv, Up
<1>2. CASE AddOverlay \/ RemoveOverlay
  <2>1. fault' = fault
    BY <1>2 DEF AddOverlay, RemoveOverlay
  <2> QED
    BY <1>1, <1>2, <2>1, LifeOverlay, NoMisuse
<1>3. CASE RegisterDriver
  <2>1. fault' = fault
    BY <1>3 DEF RegisterDriver
  <2> QED
    BY <1>1, <1>3, <2>1, LifeRegister, NoMisuse
<1>4. CASE InitAfterProbe
  <2>1. /\ UNCHANGED <<stage, held, step, overlay, global_motor_dev, pulled, open, inside>>
        /\ stage[mot] = "init" /\ global_motor_dev = "freed" /\ fault' = <<mot, "probe">>
    BY <1>4 DEF InitAfterProbe, Taking, Fault, mot
  <2> QED
    BY <1>1, <2>1, LifeSame DEF MisuseHasCause, mot
<1>5. ASSUME NEW s \in {"load", "unload"}, Begin(s)
      PROVE  Life' /\ MisuseHasCause'
  <2>1. UNCHANGED <<stage, held, step, overlay, global_motor_dev, pulled, open, inside, fault>>
    BY <1>5 DEF Begin
  <2> QED
    BY <1>1, <2>1, LifeSame, NoMisuse
<1>6. ASSUME NEW s \in {"load", "unload"}, NEW m \in Module, Already(s, m) \/ Refused(m)
      PROVE  Life' /\ MisuseHasCause'
  <2>1. UNCHANGED <<stage, held, step, overlay, global_motor_dev, pulled, open, inside, fault>>
    BY <1>6 DEF Already, Refused
  <2> QED
    BY <1>1, <2>1, LifeSame, NoMisuse
<1>7. ASSUME NEW m \in Module, Insmod(m)
      PROVE  Life' /\ MisuseHasCause'
  <2>1. fault' = fault
    BY <1>7 DEF Insmod
  <2> QED
    BY <1>1, <1>7, <2>1, LifeInsmod, NoMisuse
<1>8. ASSUME NEW m \in Module, Rmmod(m)
      PROVE  Life' /\ MisuseHasCause'
  <2>1. MisuseHasCause'
    <3>1. CASE UNCHANGED fault
      BY <1>1, <3>1, NoMisuse
    <3>2. CASE m = mot /\ global_motor_dev # "live" /\ fault' = <<mot, "exit">>
      <4>1. stage[mot] = "in" /\ pulled' = pulled
        BY <1>8, <3>2 DEF Rmmod
      <4> QED
        BY <1>1, <3>2, <4>1 DEF Life, MotorLive, MisuseHasCause, mot
    <3> QED
      BY <1>8, <3>1, <3>2 DEF Rmmod, DevAtStop, Fault, mot
  <2> QED
    BY <1>1, <1>8, <2>1, LifeRmmod
<1>9. ASSUME NEW m \in Module, NEW r \in Resource, Take(m, r) \/ GoWithout(m, r) \/ TakeFails(m, r)
      PROVE  Life' /\ MisuseHasCause'
  <2>1. fault' = fault
    BY <1>9 DEF Take, GoWithout, TakeFails
  <2>2. Life'
    BY <1>1, <1>9, LifeTake, LifeGoWithout, LifeTakeFails
  <2> QED
    BY <1>1, <2>1, <2>2, NoMisuse
<1>10. ASSUME NEW m \in Module, FailsInUse(m)
       PROVE  Life' /\ MisuseHasCause'
  <2>1. /\ UNCHANGED <<stage, held, step, overlay, global_motor_dev, pulled, open, inside>>
        /\ stage[m] = "init" /\ m \in open /\ fault' = <<m, "init">>
    BY <1>10 DEF FailsInUse, Fault
  <2>2. m # drv /\ m # mot
    BY <1>1, <2>1 DEF Life, OpenIsIn
  <2> QED
    BY <1>1, <2>1, <2>2, LifeSame DEF MisuseHasCause, drv, mot
<1> QED
  BY <1>2, <1>3, <1>4, <1>5, <1>6, <1>7, <1>8, <1>9, <1>10 DEF Script

(* Every action preserves the causes.                                          *)
LEMMA StepCause == CauseInv /\ [Next]_vars => CauseInv'
<1> SUFFICES ASSUME CauseInv, [Next]_vars PROVE CauseInv'
  OBVIOUS
<1>1. Inv'
  BY StepInv DEF CauseInv
<1>2. CASE UNCHANGED vars
  <2>1. Life'
    BY <1>2, LifeSame DEF CauseInv, vars, files, history
  <2>2. MisuseHasCause'
    BY <1>2 DEF CauseInv, vars, history, MisuseHasCause
  <2> QED
    BY <1>1, <2>1, <2>2 DEF CauseInv
<1>3. CASE Next
  BY <1>1, <1>3, ProgramCause, ScriptCause DEF Next, CauseInv
<1> QED
  BY <1>2, <1>3

(* Whatever programs do while the scripts run, and whatever fails: the line    *)
(* sensors are never read without a mapping, buzzer_k is misused only during   *)
(* its init, and the motor driver only after its overlay was removed under it  *)
(* or in an init that goes on after a failed probe.                            *)
THEOREM MisuseExplained == Spec => []MisuseHasCause
<1>1. CauseInv => MisuseHasCause
  BY DEF CauseInv
<1> QED
  BY InitCause, StepCause, <1>1, PTL DEF Spec

-----------------------------------------------------------------------------
(* The pins of the line sensors *)

ScriptTypes == /\ line \in 1 .. 6 /\ script \in {"none", "load", "unload"}
               /\ script = "none" => line = 1

(* The load script gets past its first command only with buzzer_k loaded.      *)
BuzzerFirst == script = "load" /\ line > 1 => stage[bzk] = "in"

(* The HAL of the line sensors is loaded over buzzer_k, except while the       *)
(* unload script is between the two, or after a refusal.                       *)
HalOver == stage[hal] # "out" /\ ~refused =>
             stage[bzk] = "in" \/ (script = "unload" /\ line \in 2 .. 3)

PinInv == ScriptTypes /\ BuzzerFirst /\ HalOver /\ PinLossHasCause

LEMMA InitPins == Init => PinInv
BY DEF Init, PinInv, ScriptTypes, BuzzerFirst, HalOver, PinLossHasCause, hal, bzk, Module

(* Where the commands of the line sensors are in the two scripts. *)
LEMMA Lines ==
  /\ Len(Load) = 6 /\ Len(Unload) = 6
  /\ Load[1] = bzk /\ Load[2] = hal /\ Load[3] = drv
  /\ Unload[1] = bzk /\ Unload[2] = drv /\ Unload[3] = hal
  /\ \A k \in 4 .. 6 : Load[k] \notin Tolerant \cup {bzk} /\ Unload[k] \notin Tolerant \cup {bzk}
BY DEF Load, Unload, bzk, hal, drv, Tolerant

(* The same, from the command to its line. *)
LEMMA LineOf ==
  ASSUME ScriptTypes, NEW s \in {"load", "unload"}, NEW c, At(s, c)
  PROVE  /\ script = s /\ line \in 1 .. 6
         /\ c = bzk <=> line = 1
         /\ c = hal <=> line = (IF s = "load" THEN 2 ELSE 3)
         /\ c = drv <=> line = (IF s = "load" THEN 3 ELSE 2)
         /\ c \in Tolerant <=> line \in 2 .. 3
<1>1. script = s /\ line \in 1 .. 6 /\ c = (IF s = "load" THEN Load ELSE Unload)[line]
  BY DEF At, ScriptTypes, Commands
<1>2. line = 1 \/ line = 2 \/ line = 3 \/ line \in 4 .. 6
  BY <1>1
<1>3. bzk # hal /\ bzk # drv /\ hal # drv /\ Tolerant = {hal, drv}
  BY DEF bzk, hal, drv, Tolerant
<1>4. CASE s = "load"
  BY <1>1, <1>2, <1>3, <1>4, Lines
<1>5. CASE s = "unload"
  BY <1>1, <1>2, <1>3, <1>5, Lines
<1> QED BY <1>4, <1>5

(* A script goes on to its next command, or ends. *)
Proceeds(s) == \/ script' = "none" /\ line' = 1
               \/ script' = s /\ line' = line + 1 /\ line < 6

LEMMA GoOnProceeds ==
  ASSUME ScriptTypes, NEW s \in {"load", "unload"}, script = s, GoOn
  PROVE  Proceeds(s) /\ (line < 6 => script' = s /\ line' = line + 1)
<1>1. Len(Commands[s]) = 6
  BY Lines DEF Commands
<1>2. line \in 1 .. 6
  BY DEF ScriptTypes
<1> QED BY <1>1, <1>2 DEF GoOn, EndScript, Proceeds

LEMMA FailedProceeds ==
  ASSUME ScriptTypes, NEW s \in {"load", "unload"}, NEW m, At(s, m), Failed(m)
  PROVE  /\ Proceeds(s)
         /\ line \in 2 .. 3 => script' = s /\ line' = line + 1
         /\ line \notin 2 .. 3 => script' = "none" /\ line' = 1
<1>1. /\ script = s /\ line \in 1 .. 6
      /\ m \in Tolerant <=> line \in 2 .. 3
  BY LineOf
<1>2. CASE m \in Tolerant
  <2>1. GoOn
    BY <1>2 DEF Failed
  <2> QED BY <1>1, <1>2, <2>1, GoOnProceeds
<1>3. CASE m \notin Tolerant
  <2>1. EndScript
    BY <1>3 DEF Failed
  <2> QED BY <1>1, <1>3, <2>1 DEF EndScript, Proceeds
<1> QED BY <1>2, <1>3

LEMMA ProceedsTypes ==
  ASSUME ScriptTypes, NEW s \in {"load", "unload"}, Proceeds(s)
  PROVE  ScriptTypes'
BY DEF ScriptTypes, Proceeds

(* Steps that move no module and no script. *)
LEMMA PinsQuiet ==
  ASSUME PinInv, UNCHANGED <<stage, script, line, inputs, refused, commanded>>
  PROVE  PinInv'
BY DEF PinInv, ScriptTypes, BuzzerFirst, HalOver, PinLossHasCause

(* Commands that leave the modules as they are. *)
LEMMA PinsCommand ==
  ASSUME PinInv, NEW s \in {"load", "unload"}, NEW c, At(s, c), UNCHANGED <<stage, inputs, commanded>>,
         refused => refused',
         \/ GoOn /\ c \notin Tolerant \cup {bzk}
         \/ Failed(c),
         c = hal /\ s = "unload" => stage[hal] = "out" \/ refused'
  PROVE  PinInv'
<1>0. ScriptTypes /\ BuzzerFirst /\ HalOver /\ PinLossHasCause
  BY DEF PinInv
<1>1. /\ script = s /\ line \in 1 .. 6
      /\ c = bzk <=> line = 1
      /\ c = hal <=> line = (IF s = "load" THEN 2 ELSE 3)
      /\ c \in Tolerant <=> line \in 2 .. 3
  BY <1>0, LineOf
<1>2. /\ Proceeds(s)
      /\ line = 1 => script' = "none"
      /\ line \in 2 .. 3 => script' = s /\ line' = line + 1
  <2>1. CASE Failed(c)
    BY <1>0, <1>1, <2>1, FailedProceeds
  <2>2. CASE GoOn /\ c \notin Tolerant \cup {bzk}
    BY <1>0, <1>1, <2>2, GoOnProceeds
  <2> QED BY <2>1, <2>2
<1>3. ScriptTypes'
  BY <1>0, <1>2, ProceedsTypes
<1>4. BuzzerFirst'
  BY <1>0, <1>1, <1>2 DEF BuzzerFirst, Proceeds
<1>5. HalOver'
  <2> SUFFICES ASSUME stage[hal] # "out", ~refused', stage[bzk] # "in"
               PROVE  script' = "unload" /\ line' \in 2 .. 3
    BY DEF HalOver
  <2>1. ~refused /\ script = "unload" /\ line \in 2 .. 3
    BY <1>0 DEF HalOver
  <2>2. line # 3
    BY <1>1, <2>1
  <2> QED BY <1>1, <1>2, <2>1, <2>2
<1>6. PinLossHasCause'
  BY <1>0 DEF PinLossHasCause
<1> QED BY <1>3, <1>4, <1>5, <1>6 DEF PinInv

(* The init of a module goes on, or ends with the module loaded. *)
LEMMA PinsAdvance ==
  ASSUME Inv, PinInv, NEW m \in Module, stage[m] = "init", Advance(m),
         m \notin {hal, bzk} => inputs' = inputs, m # hal => UNCHANGED <<refused, commanded>>,
         m = hal => inputs' = SensorPins
  PROVE  PinInv'
<1>0. /\ ScriptTypes /\ BuzzerFirst /\ HalOver /\ PinLossHasCause
      /\ stage \in [Module -> {"out", "init", "in"}] /\ bzk \in Module /\ hal \in Module
      /\ bzk # hal /\ "load" \in {"load", "unload"}
  BY DEF PinInv, Inv, Types, Module, bzk, hal
<1>1. At("load", m)
  BY DEF Inv, OneInit
<1>2. /\ script = "load" /\ line \in 1 .. 6
      /\ m = bzk <=> line = 1
      /\ m = hal <=> line = 2
  BY <1>0, <1>1, LineOf
<1>3. /\ \/ stage' = stage /\ script' = script /\ line' = line
         \/ stage' = [stage EXCEPT ![m] = "in"] /\ GoOn
  BY DEF Advance
<1>4. \/ stage' = stage /\ script' = script /\ line' = line
      \/ stage' = [stage EXCEPT ![m] = "in"] /\ Proceeds("load")
  BY <1>0, <1>2, <1>3, GoOnProceeds
<1>5. ScriptTypes'
  <2>1. CASE script' = script /\ line' = line
    BY <1>0, <2>1 DEF ScriptTypes
  <2>2. CASE Proceeds("load")
    BY <1>0, <2>2, ProceedsTypes
  <2> QED BY <1>4, <2>1, <2>2
<1>6. line > 1 => stage'[bzk] = "in"
  BY <1>0, <1>2, <1>4 DEF BuzzerFirst
<1>7. BuzzerFirst'
  <2> SUFFICES ASSUME script' = "load", line' > 1 PROVE stage'[bzk] = "in"
    BY DEF BuzzerFirst
  <2>1. CASE line > 1
    BY <1>6, <2>1
  <2>2. CASE line = 1
    BY <1>0, <1>2, <1>4, <2>2
  <2> QED BY <1>2, <2>1, <2>2
<1>8. CASE m = bzk
  <2>1. stage[hal] = "out" \/ refused
    BY <1>0, <1>2, <1>8 DEF HalOver
  <2>2. stage'[hal] = stage[hal] /\ UNCHANGED <<refused, commanded>>
    BY <1>0, <1>4, <1>8
  <2>3. HalOver' /\ PinLossHasCause'
    BY <2>1, <2>2 DEF HalOver, PinLossHasCause, hal
  <2> QED BY <1>5, <1>7, <2>3 DEF PinInv
<1>9. CASE m # bzk
  <2>1. line > 1 /\ stage'[bzk] = "in"
    BY <1>2, <1>6, <1>9
  <2>2. HalOver'
    BY <2>1 DEF HalOver
  <2>3. CASE m = hal
    BY <1>5, <1>7, <2>2, <2>3 DEF PinInv, PinLossHasCause
  <2>4. CASE m # hal
    <3>1. stage'[hal] = stage[hal] /\ UNCHANGED <<refused, commanded, inputs>>
      BY <1>0, <1>4, <1>9, <2>4
    <3>2. PinLossHasCause'
      BY <1>0, <3>1 DEF PinLossHasCause, hal
    <3> QED BY <1>5, <1>7, <2>2, <3>2 DEF PinInv
  <2> QED BY <2>3, <2>4
<1> QED BY <1>8, <1>9

(* The init of a module fails. *)
LEMMA PinsGiveUp ==
  ASSUME Inv, PinInv, NEW m \in Module, stage[m] = "init", GiveUp(m), UNCHANGED <<inputs, refused, commanded>>
  PROVE  PinInv'
<1>0. /\ ScriptTypes /\ BuzzerFirst /\ HalOver /\ PinLossHasCause
      /\ stage \in [Module -> {"out", "init", "in"}] /\ bzk \in Module /\ hal \in Module
      /\ bzk # hal /\ "load" \in {"load", "unload"}
  BY DEF PinInv, Inv, Types, Module, bzk, hal
<1>1. At("load", m)
  BY DEF Inv, OneInit
<1>2. /\ script = "load" /\ line \in 1 .. 6
      /\ m = bzk <=> line = 1
  BY <1>0, <1>1, LineOf
<1>3. stage' = [stage EXCEPT ![m] = "out"] /\ Failed(m)
  BY DEF GiveUp
<1>4. Proceeds("load") /\ (line = 1 => script' = "none")
  BY <1>0, <1>1, <1>2, <1>3, FailedProceeds
<1>5. ScriptTypes'
  BY <1>0, <1>4, ProceedsTypes
<1>6. BuzzerFirst'
  BY <1>0, <1>2, <1>3, <1>4 DEF BuzzerFirst, Proceeds
<1>7. stage[hal] # "out" /\ ~refused => stage[bzk] = "in"
  BY <1>0, <1>2 DEF HalOver
<1>8. (stage'[hal] = stage[hal] \/ stage'[hal] = "out") /\ (stage[bzk] = "in" => m # bzk)
  BY <1>0, <1>3
<1>9. HalOver'
  BY <1>0, <1>3, <1>7, <1>8 DEF HalOver
<1>10. PinLossHasCause'
  BY <1>0, <1>8 DEF PinLossHasCause, hal
<1> QED BY <1>5, <1>6, <1>9, <1>10 DEF PinInv

(* insmod and rmmod. *)
LEMMA PinsInsmod ==
  ASSUME Inv, PinInv, NEW m \in Module, Insmod(m)
  PROVE  PinInv'
<1>0. /\ ScriptTypes /\ BuzzerFirst /\ HalOver /\ PinLossHasCause
      /\ stage \in [Module -> {"out", "init", "in"}] /\ bzk \in Module /\ hal \in Module
      /\ bzk # hal /\ "load" \in {"load", "unload"}
  BY DEF PinInv, Inv, Types, Module, bzk, hal
<1>1. At("load", m) /\ stage[m] = "out" /\ UNCHANGED <<inputs, refused, commanded>>
  BY DEF Insmod, history
<1>2. /\ script = "load" /\ line \in 1 .. 6
      /\ m = bzk <=> line = 1
      /\ m = hal <=> line = 2
  BY <1>0, <1>1, LineOf
<1>3. CASE stage' = stage /\ Failed(m)
  <2>1. UNCHANGED <<stage, inputs, commanded>> /\ (refused => refused')
    BY <1>1, <1>3
  <2>2. ~(m = hal /\ "load" = "unload")
    OBVIOUS
  <2> QED BY <1>0, <1>1, <1>3, <2>1, <2>2, PinsCommand
<1>4. CASE stage' = [stage EXCEPT ![m] = "init"] /\ UNCHANGED <<script, line>>
  <2>1. ScriptTypes'
    BY <1>0, <1>4 DEF ScriptTypes
  <2>2. BuzzerFirst'
    BY <1>0, <1>2, <1>4 DEF BuzzerFirst
  <2>3. stage[bzk] = "in" => m # bzk /\ stage'[bzk] = "in"
    BY <1>0, <1>1, <1>4
  <2>4. HalOver'
    <3>1. CASE m = hal
      BY <1>0, <1>2, <2>3, <3>1 DEF HalOver, BuzzerFirst
    <3>2. CASE m # hal
      BY <1>0, <1>1, <1>2, <1>4, <2>3, <3>2 DEF HalOver
    <3> QED BY <3>1, <3>2
  <2>5. stage'[hal] = "in" => stage[hal] = "in"
    BY <1>0, <1>4
  <2>6. PinLossHasCause'
    BY <1>0, <1>1, <2>5 DEF PinLossHasCause, hal
  <2> QED BY <2>1, <2>2, <2>4, <2>6 DEF PinInv
<1> QED BY <1>3, <1>4 DEF Insmod

LEMMA PinsRmmod ==
  ASSUME Inv, PinInv, NEW m \in Module, Rmmod(m)
  PROVE  PinInv'
<1>0. /\ ScriptTypes /\ BuzzerFirst /\ HalOver /\ PinLossHasCause
      /\ stage \in [Module -> {"out", "init", "in"}] /\ bzk \in Module /\ hal \in Module
      /\ bzk # hal /\ "unload" \in {"load", "unload"}
  BY DEF PinInv, Inv, Types, Module, bzk, hal
<1>1. At("unload", m) /\ UNCHANGED <<inputs, refused, commanded>>
  BY DEF Rmmod, history
<1>2. /\ script = "unload" /\ line \in 1 .. 6
      /\ m = bzk <=> line = 1
      /\ m = hal <=> line = 3
  BY <1>0, <1>1, LineOf
<1>3. CASE UNCHANGED <<stage, script, line>>
  BY <1>1, <1>3, PinsQuiet
<1>4. CASE stage' = [stage EXCEPT ![m] = "out"] /\ GoOn
  <2>1. Proceeds("unload") /\ (line < 6 => script' = "unload" /\ line' = line + 1)
    BY <1>0, <1>2, <1>4, GoOnProceeds
  <2>2. ScriptTypes'
    BY <1>0, <2>1, ProceedsTypes
  <2>3. BuzzerFirst'
    BY <2>1 DEF BuzzerFirst, Proceeds
  <2>4. stage'[hal] # "out" => m # hal /\ stage'[hal] = stage[hal]
    BY <1>0, <1>4
  <2>5. m # bzk => stage'[bzk] = stage[bzk]
    BY <1>0, <1>4
  <2>6. HalOver'
    <3> SUFFICES ASSUME stage'[hal] # "out", ~refused', stage'[bzk] # "in"
                 PROVE  script' = "unload" /\ line' \in 2 .. 3
      BY DEF HalOver
    <3>1. m # hal /\ stage[hal] # "out" /\ ~refused
      BY <1>1, <2>4
    <3>2. line = 1 \/ line \in 2 .. 3
      BY <1>0, <1>2, <2>5, <3>1 DEF HalOver
    <3> QED BY <1>2, <2>1, <3>1, <3>2
  <2>7. PinLossHasCause'
    BY <1>0, <1>1, <2>4 DEF PinLossHasCause, hal
  <2> QED BY <2>2, <2>3, <2>6, <2>7 DEF PinInv
<1> QED BY <1>3, <1>4 DEF Rmmod

LEMMA StepPins ==
  ASSUME Inv, PinInv, [Next]_vars
  PROVE  PinInv'
<1> USE DEF history
<1>0. /\ ScriptTypes /\ BuzzerFirst /\ HalOver /\ PinLossHasCause
      /\ "load" \in {"load", "unload"} /\ "unload" \in {"load", "unload"}
  BY DEF PinInv
<1>t. "overlay" \notin Tolerant \cup {bzk} /\ "overlay" # hal
  BY DEF Tolerant, bzk, hal
<1>1. CASE UNCHANGED vars
  BY <1>1, PinsQuiet DEF vars, history
<1>2. CASE AddOverlay
  <2>1. At("load", "overlay") /\ GoOn /\ UNCHANGED <<stage, inputs, refused, commanded>>
    BY <1>2 DEF AddOverlay
  <2> QED BY <1>0, <1>t, <2>1, PinsCommand
<1>3. CASE RemoveOverlay
  <2>1. At("unload", "overlay") /\ GoOn /\ UNCHANGED <<stage, inputs, refused, commanded>>
    BY <1>3 DEF RemoveOverlay
  <2> QED BY <1>0, <1>t, <2>1, PinsCommand
<1>4. CASE RegisterDriver
  <2>1. "motorv1" \in Module /\ "motorv1" \notin {hal, bzk} /\ stage["motorv1"] = "init"
    BY <1>4 DEF RegisterDriver, Taking, Module, hal, bzk
  <2>2. UNCHANGED <<inputs, refused, commanded>> /\ (GiveUp("motorv1") \/ Advance("motorv1"))
    BY <1>4 DEF RegisterDriver
  <2>3. CASE GiveUp("motorv1")
    BY <2>1, <2>2, <2>3, PinsGiveUp
  <2>4. CASE Advance("motorv1")
    BY <2>1, <2>2, <2>4, PinsAdvance
  <2> QED BY <2>2, <2>3, <2>4
<1>5. CASE InitAfterProbe
  BY <1>5, PinsQuiet DEF InitAfterProbe
<1>6. ASSUME NEW s \in {"load", "unload"}, Begin(s) PROVE PinInv'
  <2>1. /\ script = "none" /\ script' = s /\ line = 1 /\ UNCHANGED <<line, stage, inputs, refused, commanded>>
    BY <1>0, <1>6 DEF Begin, ScriptTypes
  <2>2. ScriptTypes' /\ BuzzerFirst'
    BY <1>6, <2>1 DEF ScriptTypes, BuzzerFirst
  <2>3. HalOver' /\ PinLossHasCause'
    BY <1>0, <2>1 DEF HalOver, PinLossHasCause
  <2> QED BY <2>2, <2>3 DEF PinInv
<1>7. ASSUME NEW s \in {"load", "unload"}, NEW m \in Module, Already(s, m) PROVE PinInv'
  <2>1. At(s, m) /\ Failed(m) /\ UNCHANGED <<stage, inputs, refused, commanded>>
    BY <1>7 DEF Already
  <2>2. m = hal /\ s = "unload" => stage[hal] = "out"
    BY <1>7 DEF Already
  <2> QED BY <2>1, <2>2, PinsCommand
<1>8. ASSUME NEW m \in Module, Refused(m) PROVE PinInv'
  <2>1. /\ At("unload", m) /\ Failed(m) /\ UNCHANGED <<stage, inputs, commanded>>
        /\ refused' = (refused \/ m \in Tolerant)
    BY <1>8 DEF Refused
  <2>2. hal \in Tolerant
    BY DEF hal, Tolerant
  <2>3. /\ refused => refused'
        /\ m \in Tolerant => refused'
    BY <2>1
  <2>4. m = hal => refused'
    BY <2>2, <2>3
  <2> QED BY <1>0, <2>1, <2>3, <2>4, PinsCommand
<1>9. ASSUME NEW m \in Module, Insmod(m) \/ Rmmod(m) PROVE PinInv'
  BY <1>9, PinsInsmod, PinsRmmod
<1>10. ASSUME NEW m \in Module, NEW r \in Resource, Take(m, r) PROVE PinInv'
  <2>1. /\ stage[m] = "init" /\ Advance(m) /\ Order[m][step] = r
        /\ inputs' = (IF r = "map" THEN Configured(m) ELSE inputs)
        /\ m # hal => UNCHANGED <<refused, commanded>>
    BY <1>10 DEF Take, Taking, hal
  <2>2. m \notin {hal, bzk} => inputs' = inputs
    BY <2>1 DEF Configured, hal, bzk
  <2>3. m = hal => inputs' = SensorPins
    <3> SUFFICES ASSUME m = hal PROVE inputs' = SensorPins
      OBVIOUS
    <3>1. step \in 1 .. Len(Order[m])
      BY <1>10, <2>1 DEF Inv, Types, OneInit
    <3>2. r = "map"
      BY <2>1, <3>1 DEF Order, tcrt5000_init, hal
    <3> QED BY <2>1, <3>2 DEF Configured, SensorInputs, SensorPins, hal
  <2> QED BY <1>10, <2>1, <2>2, <2>3, PinsAdvance
<1>11. ASSUME NEW m \in Module, NEW r \in Resource, GoWithout(m, r) PROVE PinInv'
  <2>1. /\ stage[m] = "init" /\ Advance(m) /\ UNCHANGED <<inputs, refused, commanded>> /\ m # hal
    BY <1>11 DEF GoWithout, Taking, Ignored, hal
  <2> QED BY <1>11, <2>1, PinsAdvance
<1>12. ASSUME NEW m \in Module, NEW r \in Resource, TakeFails(m, r) PROVE PinInv'
  <2>1. stage[m] = "init" /\ GiveUp(m) /\ UNCHANGED <<inputs, refused, commanded>>
    BY <1>12 DEF TakeFails, Taking
  <2> QED BY <1>12, <2>1, PinsGiveUp
<1>13. ASSUME NEW m \in Module, Open(m) \/ Use(m) \/ Close(m) PROVE PinInv'
  <2>1. UNCHANGED <<stage, script, line, inputs, refused, commanded>>
    BY <1>13 DEF Open, Use, Close
  <2> QED BY <2>1, PinsQuiet
<1>14. CASE IoctlTest \/ IoctlUse
  BY <1>14, PinsQuiet DEF IoctlTest, IoctlUse
<1>15. ASSUME NEW m \in Module, FailsInUse(m) PROVE PinInv'
  BY <1>15, PinsQuiet DEF FailsInUse
<1>16. ASSUME NEW p \in Told, hc_sr04_ioctl(p) PROVE PinInv'
  <2>1. /\ UNCHANGED <<stage, script, line, refused>>
        /\ commanded' \/ (inputs' = inputs \cup {p} /\ commanded' = commanded)
    BY <1>16 DEF hc_sr04_ioctl
  <2>2. ScriptTypes' /\ BuzzerFirst' /\ HalOver'
    BY <1>0, <2>1 DEF ScriptTypes, BuzzerFirst, HalOver
  <2>3. inputs = SensorPins => inputs \cup {p} = SensorPins
    BY <1>16, ToldAssumption
  <2>4. PinLossHasCause'
    BY <1>0, <2>1, <2>3 DEF PinLossHasCause
  <2> QED BY <2>2, <2>4 DEF PinInv
<1> QED
  BY <1>1, <1>2, <1>3, <1>4, <1>5, <1>6, <1>7, <1>8, <1>9, <1>10, <1>11, <1>12, <1>13,
     <1>14, <1>15, <1>16
  DEF Next, Script, Program

(* A pin of the line sensors is an output, while the module that reads it is   *)
(* loaded, only if a program told hc_sr04 to make it one or a module of the    *)
(* line sensors could not be removed: whichever loads fail and however often   *)
(* the scripts run, buzzer_k, which makes outputs of two of the pins, is       *)
(* loaded before the HAL, and removed before it only to be followed by it.     *)
THEOREM PinLossExplained == Spec => []PinLossHasCause
<1>1. Inv /\ PinInv => PinLossHasCause
  BY DEF PinInv
<1>2. (Inv /\ PinInv) /\ [Next]_vars => (Inv /\ PinInv)'
  BY StepInv, StepPins
<1> QED
  BY InitInv, InitPins, <1>1, <1>2, PTL DEF Spec

-----------------------------------------------------------------------------
(* Types *)

Misuse == {NoFault} \cup Module \X {"open", "use", "release", "exit", "probe", "init"}

Device == global_motor_dev \in {"null", "live", "again", "freed"}
Record == refused \in BOOLEAN /\ pulled \in BOOLEAN /\ commanded \in BOOLEAN
Values == /\ overlay \in BOOLEAN /\ inside \in BOOLEAN /\ Record
          /\ Device /\ inputs \subseteq SensorPins
          /\ open \subseteq Busy /\ fault \in Misuse /\ step \in 1 .. 7

TypeInv == Inv /\ PinInv /\ Values

(* No init takes more than seven resources. *)
LEMMA Sevens == \A m \in Module : Len(Order[m]) \in 1 .. 7
<1> SUFFICES ASSUME NEW m \in Module PROVE Len(Order[m]) \in 1 .. 7
  OBVIOUS
<1>1. CASE m = "buzzer_k"
  BY <1>1 DEF Order, init_module
<1>2. CASE m = "tcrt5000_hal"
  BY <1>2 DEF Order, tcrt5000_init
<1>3. CASE m = "tcrt5000_driver"
  BY <1>3 DEF Order, tcrt5000_driver_init
<1>4. CASE m = "hc_sr04"
  BY <1>4 DEF Order, hc_sr04_init
<1>5. CASE m = "motorv1"
  BY <1>5 DEF Order, motor_init
<1> QED BY <1>1, <1>2, <1>3, <1>4, <1>5 DEF Module

LEMMA InitValues == Init => Values
<1> SUFFICES ASSUME Init PROVE Values
  OBVIOUS
<1>1. overlay \in BOOLEAN /\ inside \in BOOLEAN /\ Record
  BY Zenon DEF Init, Record
<1>2. Device /\ inputs \subseteq SensorPins /\ open \subseteq Busy /\ step \in 1 .. 7
  BY DEF Init, Device
<1>3. fault \in Misuse
  BY DEF Init, Misuse
<1> QED BY <1>1, <1>2, <1>3 DEF Values

(* A step of an init, whether it goes on, ends or fails. *)
LEMMA InitSteps ==
  ASSUME Values, NEW m \in Module, Advance(m) \/ GiveUp(m)
  PROVE  step' \in 1 .. 7
<1>1. step \in 1 .. 7 /\ Len(Order[m]) \in 1 .. 7
  BY Sevens DEF Values
<1>2. step' = 1 \/ (step < Len(Order[m]) /\ step' = step + 1)
  BY DEF Advance, GiveUp
<1>3. \A k, n \in 1 .. 7 : k < n => k + 1 \in 1 .. 7
  OBVIOUS
<1>4. step < Len(Order[m]) => step + 1 \in 1 .. 7
  BY <1>1, <1>3
<1> QED BY <1>2, <1>4

(* Every misuse of memory is one of a module, at one of six points. *)
LEMMA Faults ==
  ASSUME NEW m \in Module, NEW p \in {"open", "use", "release", "exit", "probe", "init"}, Fault(m, p)
  PROVE  fault' \in Misuse
BY DEF Fault, Misuse

(* A step that only misuses memory, or not even that. *)
LEMMA ValuesQuiet ==
  ASSUME Values, fault' \in Misuse, UNCHANGED <<overlay, inside, global_motor_dev, history, inputs, open>>,
         step' \in 1 .. 7
  PROVE  Values'
BY DEF Values, Device, Record, history

(* Without its device motorv1 has no pointer to it. *)
LEMMA RemoveDevice == motor_remove => Device'
BY DEF motor_remove, Device

LEMMA StepValues ==
  ASSUME Values, [Next]_vars
  PROVE  Values'
<1> USE DEF files
<1>0. /\ overlay \in BOOLEAN /\ inside \in BOOLEAN /\ Record
      /\ Device /\ inputs \subseteq SensorPins
      /\ open \subseteq Busy /\ fault \in Misuse /\ step \in 1 .. 7
  BY DEF Values
<1>k. ASSUME UNCHANGED global_motor_dev PROVE Device'
  BY <1>0, <1>k DEF Device
<1>h. ASSUME UNCHANGED history PROVE Record'
  BY <1>0, <1>h DEF Record, history
<1>1. CASE UNCHANGED vars
  BY <1>0, <1>1, ValuesQuiet DEF vars
<1>2. CASE AddOverlay
  <2>1. overlay' \in {overlay, TRUE} /\ UNCHANGED <<files, history, inputs, fault, step>>
    BY <1>2 DEF AddOverlay
  <2>2. overlay' \in BOOLEAN
    BY <1>0, <2>1, Zenon
  <2>3. Device'
    BY <1>0, <1>2 DEF AddOverlay, Device
  <2> QED BY <1>0, <1>h, <2>1, <2>2, <2>3 DEF Values
<1>3. CASE RemoveOverlay
  <2>1. /\ overlay' \in {overlay, FALSE} /\ UNCHANGED <<files, inputs, fault, step, refused, commanded>>
        /\ pulled' = (pulled \/ (~overlay' /\ stage["motorv1"] = "in"))
        /\ motor_remove \/ UNCHANGED global_motor_dev
    BY <1>3 DEF RemoveOverlay
  <2>2. overlay' \in BOOLEAN
    BY <1>0, <2>1, Zenon
  <2>3. pulled' \in BOOLEAN
    BY <2>1, Zenon
  <2>4. Record'
    BY <1>0, <2>1, <2>3 DEF Record
  <2>5. Device'
    BY <1>k, <2>1, RemoveDevice
  <2> QED BY <1>0, <2>1, <2>2, <2>4, <2>5 DEF Values
<1>4. CASE RegisterDriver
  <2>1. UNCHANGED <<overlay, files, history, inputs, fault>> /\ (Advance("motorv1") \/ GiveUp("motorv1"))
    BY <1>4 DEF RegisterDriver
  <2>2. Device'
    BY <1>0, <1>4 DEF RegisterDriver, Device
  <2>3. step' \in 1 .. 7
    BY <2>1, InitSteps DEF Module
  <2> QED BY <1>0, <1>h, <2>1, <2>2, <2>3 DEF Values
<1>5. CASE InitAfterProbe
  <2>1. fault' \in Misuse
    BY <1>5, Faults DEF InitAfterProbe, Module
  <2> QED BY <1>0, <1>5, <2>1, ValuesQuiet DEF InitAfterProbe
<1>6. ASSUME NEW s \in {"load", "unload"}, Begin(s) PROVE Values'
  BY <1>0, <1>6, ValuesQuiet DEF Begin
<1>7. ASSUME NEW s \in {"load", "unload"}, NEW m \in Module, Already(s, m) PROVE Values'
  BY <1>0, <1>7, ValuesQuiet DEF Already
<1>8. ASSUME NEW m \in Module, Refused(m) PROVE Values'
  <2>1. /\ UNCHANGED <<overlay, files, global_motor_dev, inputs, fault, step, pulled, commanded>>
        /\ refused' = (refused \/ m \in Tolerant)
    BY <1>8 DEF Refused
  <2>2. refused' \in BOOLEAN
    BY <2>1, Zenon
  <2>3. Record'
    BY <1>0, <2>1, <2>2 DEF Record
  <2> QED BY <1>0, <1>k, <2>1, <2>3 DEF Values
<1>9. ASSUME NEW m \in Module, Insmod(m) PROVE Values'
  <2>1. UNCHANGED <<overlay, files, global_motor_dev, history, inputs, fault>> /\ (step' = 1 \/ step' = step)
    BY <1>9 DEF Insmod
  <2> QED BY <1>0, <2>1, ValuesQuiet
<1>10. ASSUME NEW m \in Module, Rmmod(m) PROVE Values'
  <2>1. /\ UNCHANGED <<overlay, files, history, inputs, step>>
        /\ motor_remove \/ UNCHANGED global_motor_dev
        /\ fault' = fault \/ Fault(m, "exit")
    BY <1>10 DEF Rmmod
  <2>2. Device'
    BY <1>k, <2>1, RemoveDevice
  <2>3. fault' \in Misuse
    BY <1>0, <1>10, <2>1, Faults
  <2> QED BY <1>0, <1>h, <2>1, <2>2, <2>3 DEF Values
<1>11. ASSUME NEW m \in Module, NEW r \in Resource, Take(m, r) PROVE Values'
  <2>1. UNCHANGED <<overlay, global_motor_dev, files, pulled, fault>> /\ Advance(m)
    BY <1>11 DEF Take
  <2>2. \/ UNCHANGED <<refused, commanded>>
        \/ refused' = FALSE /\ commanded' = FALSE
    BY <1>11 DEF Take
  <2>3. refused' \in BOOLEAN /\ commanded' \in BOOLEAN
    BY <1>0, <2>2, Zenon DEF Record
  <2>4. Record'
    BY <1>0, <2>1, <2>3 DEF Record
  <2>5. inputs' = inputs \/ inputs' = Configured(m)
    BY <1>11 DEF Take
  <2>6. inputs' \subseteq SensorPins
    BY <1>0, <2>5 DEF Configured, SensorInputs, SensorPins
  <2>7. step' \in 1 .. 7
    BY <2>1, InitSteps
  <2> QED BY <1>0, <1>k, <2>1, <2>4, <2>6, <2>7 DEF Values
<1>12. ASSUME NEW m \in Module, NEW r \in Resource, GoWithout(m, r) PROVE Values'
  <2>1. UNCHANGED <<overlay, global_motor_dev, files, history, inputs, fault>> /\ Advance(m)
    BY <1>12 DEF GoWithout
  <2>2. step' \in 1 .. 7
    BY <2>1, InitSteps
  <2> QED BY <1>0, <2>1, <2>2, ValuesQuiet
<1>13. ASSUME NEW m \in Module, NEW r \in Resource, TakeFails(m, r) PROVE Values'
  <2>1. /\ UNCHANGED <<overlay, files, history, inputs, fault>> /\ GiveUp(m)
        /\ motor_remove \/ UNCHANGED global_motor_dev
    BY <1>13 DEF TakeFails
  <2>2. Device'
    BY <1>k, <2>1, RemoveDevice
  <2>3. step' \in 1 .. 7
    BY <2>1, InitSteps
  <2> QED BY <1>0, <1>h, <2>1, <2>2, <2>3 DEF Values
<1>14. ASSUME NEW m \in Module, FailsInUse(m) PROVE Values'
  <2>1. fault' \in Misuse
    BY <1>14, Faults DEF FailsInUse
  <2> QED BY <1>0, <1>14, <2>1, ValuesQuiet DEF FailsInUse
<1>15. ASSUME NEW m \in Module, Open(m) PROVE Values'
  <2>1. /\ UNCHANGED <<overlay, global_motor_dev, inputs, inside, history, step>> /\ m \in Busy
        /\ open' = open \/ open' = open \cup {m}
        /\ fault' = fault \/ Fault(m, "open")
    BY <1>15 DEF Open
  <2>2. fault' \in Misuse
    BY <1>0, <1>15, <2>1, Faults
  <2> QED BY <1>0, <1>h, <1>k, <2>1, <2>2 DEF Values
<1>16. ASSUME NEW m \in Module, Use(m) PROVE Values'
  <2>1. fault' \in Misuse
    BY <1>16, Faults DEF Use
  <2> QED BY <1>0, <1>16, <2>1, ValuesQuiet DEF Use
<1>17. ASSUME NEW m \in Module, Close(m) PROVE Values'
  <2>1. /\ UNCHANGED <<overlay, global_motor_dev, inputs, inside, history, step>>
        /\ open' = open \/ open' = open \ {m}
        /\ fault' = fault \/ Fault(m, "release")
    BY <1>17 DEF Close
  <2>2. fault' \in Misuse
    BY <1>0, <1>17, <2>1, Faults
  <2> QED BY <1>0, <1>h, <1>k, <2>1, <2>2 DEF Values
<1>18. CASE IoctlTest
  <2>1. UNCHANGED <<overlay, global_motor_dev, inputs, open, history, step, fault>> /\ inside' = TRUE
    BY <1>18 DEF IoctlTest
  <2>2. inside' \in BOOLEAN
    BY <2>1, Zenon
  <2> QED BY <1>0, <1>h, <1>k, <2>1, <2>2 DEF Values
<1>19. CASE IoctlUse
  <2>1. UNCHANGED <<overlay, global_motor_dev, inputs, open, history, step>>
    BY <1>19 DEF IoctlUse
  <2>2. inside' = inside \/ inside' = FALSE
    BY <1>19 DEF IoctlUse
  <2>3. inside' \in BOOLEAN
    BY <1>0, <2>2, Zenon
  <2>4. fault' = fault \/ Fault("motorv1", "use")
    BY <1>19 DEF IoctlUse
  <2>5. fault' \in Misuse
    BY <1>0, <2>4, Faults DEF Module
  <2> QED BY <1>0, <1>h, <1>k, <2>1, <2>3, <2>5 DEF Values
<1>20. ASSUME NEW p \in Told, hc_sr04_ioctl(p) PROVE Values'
  <2>1. /\ UNCHANGED <<overlay, global_motor_dev, files, refused, pulled, step, fault>>
        /\ commanded' = TRUE \/ commanded' = commanded
        /\ inputs' = inputs \ {p} \/ inputs' = inputs \cup {p}
    BY <1>20 DEF hc_sr04_ioctl
  <2>2. commanded' \in BOOLEAN
    BY <1>0, <2>1, Zenon DEF Record
  <2>3. inputs' \subseteq SensorPins
    BY <1>0, <1>20, <2>1, ToldAssumption
  <2>4. Record'
    BY <1>0, <2>1, <2>2 DEF Record
  <2> QED BY <1>0, <1>k, <2>1, <2>3, <2>4 DEF Values
<1> QED
  BY <1>1, <1>2, <1>3, <1>4, <1>5, <1>6, <1>7, <1>8, <1>9, <1>10, <1>11, <1>12, <1>13, <1>14, <1>15,
     <1>16, <1>17, <1>18, <1>19, <1>20
  DEF Next, Script, Program

(* Every variable keeps its type: the scripts stay within their commands and   *)
(* the inits within their steps, and files are open only on modules that       *)
(* programs open.                                                              *)
THEOREM ModuleTypes == Spec => []TypeOK
<1>1. ASSUME TypeInv PROVE TypeOK
  <2>1. /\ stage \in [Module -> {"out", "init", "in"}]
        /\ held \in [Module -> SUBSET Resource]
    BY <1>1 DEF TypeInv, Inv, Types
  <2>2. line \in 1 .. 6 /\ script \in {"none", "load", "unload"}
    BY <1>1 DEF TypeInv, PinInv, ScriptTypes
  <2> QED BY <1>1, <2>1, <2>2 DEF TypeInv, Values, Device, Record, Misuse, TypeOK
<1>2. Init => TypeInv
  BY InitInv, InitPins, InitValues DEF TypeInv
<1>3. TypeInv /\ [Next]_vars => TypeInv'
  BY StepInv, StepPins, StepValues DEF TypeInv
<1> QED
  BY <1>1, <1>2, <1>3, PTL DEF Spec
=============================================================================

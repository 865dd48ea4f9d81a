------------------------------ MODULE VehicleApp -------------------------------
(* user_space/main.c and logic.c, the vehicle application, with the loops of   *)
(* its sensor threads and mqtt_client.c below them.  Four threads share the    *)
(* route, stop_flag and node_active without a lock: main reads commands from   *)
(* the console, the thread of libmosquitto handles the dispatcher's messages,  *)
(* tcrt reads the line and steers, hcsr looks for obstacles.                   *)
(*   A thread is a sequence of statements, todo[t], and between two of them    *)
(* any other thread may run; my_route is read and followed in one statement,   *)
(* except by handle_node, which keeps the pointer it was called with.  Misuse  *)
(* of memory is recorded in fault and ends everything, since what happens then *)
(* is undefined.  The name "route" in logic, which logic.c does not declare,   *)
(* is taken for my_route.                                                      *)
EXTENDS Route, FiniteSets

CONSTANTS Opened,     \* whether the motor and ultrasonic devices are open: {FALSE} for
                      \* main.c, which opens only the line sensor; TRUE is the program with
                      \* open_motor_device and hcsr04_open_all in initialize_system
          Codes,      \* the sensor codes that occur
          Orders,     \* the steps, as numbers, that a route message may carry
          MaxRoutes,  \* bound: routes ever created
          MaxNear     \* 3: near readings in a row that make an emergency

ASSUME OpenedAssumption  == Opened \subseteq BOOLEAN
ASSUME CodesAssumption   == Codes \subseteq 0 .. 7
ASSUME OrdersAssumption  == \A o \in Orders : o \in Seq(Nat) /\ Len(o) <= 15
ASSUME BoundAssumption   == MaxRoutes \in Nat /\ MaxNear \in Nat \ {0}

VARIABLES opened,
          todo,         \* todo[t]: the statements t still has to execute
          life,         \* what main does: "start", "loop", "shutdown", then "exited"
          alive,        \* of each sensor thread: "none", "on", "done"
          stop_flag, node_active,
          motor_mutex,  \* its owner, or "free"
          turning,      \* whether the wheels turn
          cnt,          \* near readings in a row
          my_route,     \* the current route, 0 for NULL
          heap,         \* the routes that were allocated, freed ones included
          route,        \* the route that handle_node was called with, 0 outside of it
          got,          \* the position next_step has read and not yet written back
          client,       \* mosq: "null", "live", or destroyed: "init", "close"
          subscribed,   \* whether the handler is called for messages
          fault         \* the first misuse of memory

control == <<opened, life, alive>>
flags   == <<stop_flag, node_active>>
motors  == <<motor_mutex, turning>>
routes  == <<my_route, heap, route, got>>
mqtt    == <<client, subscribed>>
vars    == <<control, todo, flags, motors, cnt, routes, mqtt, fault>>

Sensor  == {"tcrt", "hcsr"}
Thread  == {"main", "mqtt"} \cup Sensor
NoFault == [by |-> "nobody", cause |-> "none"]
Unused  == [mem |-> "unused", steps |-> <<>>, current |-> 0, last |-> -1]
Running == life # "exited" /\ fault = NoFault
Idle(t) == Running /\ todo[t] = <<>>

-----------------------------------------------------------------------------
(* The functions of the program as sequences of statements.  The lamps of the  *)
(* Pico, the buzzer and all printing are left out, and calls in a row that     *)
(* publish, or that set the motors, are one statement.  An operator named      *)
(* ...Mut... is a variant, with a bug in it, of the definition that follows.   *)

St(st, v) == [st |-> st, v |-> v]
stop_all_motors == <<St("stop", 0)>>
drive   == <<St("drive", 0)>>      \* set_left_motor and set_right_motor take no mutex
publish == <<St("publish", 0)>>
Flag(v) == <<St("stop_flag", v)>>
Node(b) == <<St("node_active", b)>>

initialize_system ==
  stop_all_motors
  \o <<St("open", 0), St("create", "tcrt"), St("create", "hcsr"),
       St("mqtt_init", 0), St("mqtt_subscribe", 0)>>

mqtt_closeMutDestroysFirst == <<St("destroy", 0), St("loop_stop", 0), St("null", 0)>>
mqtt_close == <<St("loop_stop", 0), St("destroy", 0), St("null", 0)>>

Join == <<St("join", "tcrt"), St("join", "hcsr")>>
Free == <<St("free", 0)>>
shutdown_systemMutFreesFirst ==
  Flag(1) \o Free \o Join \o stop_all_motors \o mqtt_close \o <<St("return", 0)>>
shutdown_systemMutStopsFirst ==
  Flag(1) \o stop_all_motors \o Join \o Free \o mqtt_close \o <<St("return", 0)>>
shutdown_systemMutKeepsRunning ==
  Join \o stop_all_motors \o Free \o mqtt_close \o <<St("return", 0)>>
shutdown_system ==
  Flag(1) \o Join \o stop_all_motors \o Free \o mqtt_close \o <<St("return", 0)>>

(* The commands of the console, and the same ones as messages. *)
StopNow == Flag(1) \o stop_all_motors
Restart == <<St("reset", 0)>> \o Flag(0) \o Node(FALSE)
emergency_stop  == stop_all_motors \o Node(FALSE) \o publish
emergency_clear == Node(FALSE) \o publish
Scan == <<St("scan", 0)>>          \* of a route message without the bracket
NewRoute(order) == Free \o <<St("create_route", order), St("node_type", 0)>>

handle_node == <<St("call", 0), St("has_next", 0), St("next_step", 0)>>
Perform(a) ==
  <<St("advance", 0), St("announce", 0)>> \o publish \o drive
  \o (IF a = STOP THEN stop_all_motors ELSE drive)

logic(code) ==
  CASE code = 0 -> stop_all_motors \o publish
    [] code \in {1, 2, 3, 4, 6} -> drive
    [] code = 5 -> stop_all_motors \o publish \o <<St("type", 0)>> \o publish
    [] code = 7 -> Node(TRUE) \o handle_node \o Node(FALSE)

-----------------------------------------------------------------------------
(* Statements.  Thread t is at statement st and goes on to the next one.       *)

At(t, st) == Running /\ todo[t] # <<>> /\ Head(todo[t]).st = st
Value(t)  == Head(todo[t]).v
Advance(t) == todo' = [todo EXCEPT ![t] = Tail(@)]

(* What the next statement of t would misuse: a route that is freed or not     *)
(* there, or a client that is gone.                                            *)
InNode     == {"has_next", "next_step", "advance", "announce"}
RouteUses  == InNode \cup {"reset", "free", "type", "node_type"}
TestsNull  == {"reset", "free", "has_next"}
ClientUses == {"mqtt_subscribe", "publish", "loop_stop"}
Invalid(t) ==
  LET st == Head(todo[t]).st
      r  == IF st \in InNode THEN route ELSE my_route
  IN IF st \in ClientUses THEN {client} \cap {"init", "close"}
     ELSE IF st \notin RouteUses \/ (r = 0 /\ st \in TestsNull) THEN {}
     ELSE IF r = 0 THEN {"null"}
     ELSE {heap[r].mem} \ {"live"}
Valid(t) == todo[t] # <<>> /\ Invalid(t) = {}

(* Two pointers are never valid: the node_type array, which nobody allocates   *)
(* (a write through it may do no harm), and the start of the steps in a        *)
(* payload that has "route": but no bracket after it, which is strstr's null   *)
(* pointer plus 9.                                                             *)
Wild == {"node_type", "scan"}
Misuse(t) ==
  /\ Running /\ todo[t] # <<>>
  /\ \E c \in Invalid(t) \cup ({Head(todo[t]).st} \cap Wild) : fault' = [by |-> t, cause |-> c]
  /\ UNCHANGED <<control, todo, flags, motors, cnt, routes, mqtt>>

(* stop_all_motors: when the ioctl fails the mutex is not given back. *)
Stop(t) ==
  /\ At(t, "stop") /\ motor_mutex = "free"
  /\ IF opened THEN turning' = FALSE /\ UNCHANGED motor_mutex
     ELSE motor_mutex' = t /\ UNCHANGED turning
  /\ Advance(t)
  /\ UNCHANGED <<control, flags, cnt, routes, mqtt, fault>>

Drive(t) ==
  /\ At(t, "drive")
  /\ turning' = (turning \/ opened)
  /\ Advance(t)
  /\ UNCHANGED <<control, flags, motor_mutex, cnt, routes, mqtt, fault>>

Assign(t) ==
  /\ \/ At(t, "stop_flag") /\ stop_flag' = Value(t) /\ UNCHANGED node_active
     \/ At(t, "node_active") /\ node_active' = Value(t) /\ UNCHANGED stop_flag
  /\ Advance(t)
  /\ UNCHANGED <<control, motors, cnt, routes, mqtt, fault>>

mqtt_publish(t) ==
  /\ At(t, "publish") /\ Valid(t)
  /\ Advance(t)
  /\ UNCHANGED <<control, flags, motors, cnt, routes, mqtt, fault>>

-----------------------------------------------------------------------------
(* The statements on a route that another thread may free or reset *)

Reset(t) ==
  /\ At(t, "reset") /\ Valid(t)
  /\ heap' = IF my_route = 0 THEN heap ELSE [heap EXCEPT ![my_route] = reset_route(@)]
  /\ Advance(t)
  /\ UNCHANGED <<control, flags, motors, cnt, my_route, route, got, mqtt, fault>>

(* The pointer keeps its value. *)
free_route(t) ==
  /\ At(t, "free") /\ Valid(t)
  /\ heap' = IF my_route = 0 THEN heap
             ELSE [heap EXCEPT ![my_route] =
                     [Unused EXCEPT !.mem = IF t = "main" THEN "shutdown" ELSE "replaced"]]
  /\ Advance(t)
  /\ UNCHANGED <<control, flags, motors, cnt, my_route, route, got, mqtt, fault>>

(* The memory may be exhausted. *)
CreateRoute ==
  /\ At("mqtt", "create_route")
  /\ \/ my_route' = 0 /\ UNCHANGED heap
     \/ \E i \in DOMAIN heap :
          /\ heap[i].mem = "unused" /\ \A j \in 1 .. i - 1 : heap[j].mem # "unused"
          /\ my_route' = i
          /\ heap' = [heap EXCEPT ![i].mem = "live", ![i].steps = create_route(Value("mqtt")).steps]
  /\ Advance("mqtt")
  /\ UNCHANGED <<control, flags, motors, cnt, route, got, mqtt, fault>>

CallHandleNode ==
  /\ At("tcrt", "call")
  /\ route' = my_route
  /\ Advance("tcrt")
  /\ UNCHANGED <<control, flags, motors, cnt, my_route, heap, got, mqtt, fault>>

(* has_next fails: handle_node returns, and logic resets node_active. *)
HasNext ==
  /\ At("tcrt", "has_next") /\ Valid("tcrt")
  /\ IF route # 0 /\ has_next(heap[route])
     THEN Advance("tcrt") /\ UNCHANGED route
     ELSE todo' = [todo EXCEPT !["tcrt"] = Node(FALSE)] /\ route' = 0
  /\ UNCHANGED <<control, flags, motors, cnt, my_route, heap, got, mqtt, fault>>

(* next_step reads current and writes current + 1; last, a history, is the     *)
(* step of this route that was taken last.                                     *)
NextStep ==
  /\ At("tcrt", "next_step") /\ Valid("tcrt")
  /\ got' = heap[route].current
  /\ heap' = [heap EXCEPT ![route].last = heap[route].current]
  /\ todo' = [todo EXCEPT !["tcrt"] = Perform(next_step(heap[route])) \o Tail(@)]
  /\ UNCHANGED <<control, flags, motors, cnt, my_route, route, mqtt, fault>>

AdvancedMutReadsAgain(r) == r.current + 1
Advanced(r) == got + 1
AdvanceRoute ==
  /\ At("tcrt", "advance") /\ Valid("tcrt")
  /\ heap' = [heap EXCEPT ![route].current = Advanced(heap[route])]
  /\ got' = 0
  /\ Advance("tcrt")
  /\ UNCHANGED <<control, flags, motors, cnt, my_route, route, mqtt, fault>>

(* handle_node reads the position again to announce it, and uses the route no  *)
(* more; at the end of the line the type of the last node is read, and a new   *)
(* route has its type written.                                                 *)
Look(t) ==
  /\ \/ At(t, "announce") /\ route' = 0
     \/ (At(t, "type") \/ At(t, "node_type")) /\ UNCHANGED route
  /\ Valid(t)
  /\ Advance(t)
  /\ UNCHANGED <<control, flags, motors, cnt, my_route, heap, got, mqtt, fault>>

-----------------------------------------------------------------------------
(* main *)

Exits == life' = "exited" /\ turning' = FALSE   \* the kernel closes the motor device

Open ==
  /\ At("main", "open")
  /\ \/ UNCHANGED <<life, turning>>
     \/ Exits
  /\ Advance("main")
  /\ UNCHANGED <<opened, alive, flags, motor_mutex, cnt, routes, mqtt, fault>>

CreateThread ==
  /\ At("main", "create")
  /\ \/ alive' = [alive EXCEPT ![Value("main")] = "on"] /\ UNCHANGED <<life, turning>>
     \/ Exits /\ UNCHANGED alive
  /\ Advance("main")
  /\ UNCHANGED <<opened, flags, motor_mutex, cnt, routes, mqtt, fault>>

(* The result of mqtt_init is ignored, and so is that of mqtt_subscribe. *)
MqttInit ==
  /\ At("main", "mqtt_init")
  /\ client' \in {"null", "init", "live"}
  /\ Advance("main")
  /\ UNCHANGED <<control, flags, motors, cnt, routes, subscribed, fault>>

MqttSubscribe ==
  /\ At("main", "mqtt_subscribe") /\ Valid("main")
  /\ subscribed' \in (IF client = "live" THEN BOOLEAN ELSE {FALSE})
  /\ life' = "loop"
  /\ Advance("main")
  /\ UNCHANGED <<opened, alive, flags, motors, cnt, routes, client, fault>>

Command ==
  /\ Idle("main") /\ life = "loop"
  /\ \/ /\ \/ todo' = [todo EXCEPT !["main"] = StopNow]
           \/ my_route # 0 /\ todo' = [todo EXCEPT !["main"] = Restart]
           \/ todo' = [todo EXCEPT !["main"] = emergency_clear]
        /\ UNCHANGED life
     \/ /\ todo' = [todo EXCEPT !["main"] = shutdown_system]
        /\ life' = "shutdown"
  /\ UNCHANGED <<opened, alive, flags, motors, cnt, routes, mqtt, fault>>

JoinThread ==
  /\ At("main", "join") /\ alive[Value("main")] # "on"
  /\ Advance("main")
  /\ UNCHANGED <<control, flags, motors, cnt, routes, mqtt, fault>>

(* mosquitto_loop_stop cancels its thread, wherever the handler is, unless it  *)
(* waits for a mutex, and joins it.                                            *)
LoopStop ==
  /\ At("main", "loop_stop") /\ Valid("main")
  /\ ~(At("mqtt", "stop") /\ motor_mutex # "free")
  /\ subscribed' = FALSE
  /\ todo' = [todo EXCEPT !["mqtt"] = <<>>, !["main"] = Tail(@)]
  /\ UNCHANGED <<control, flags, motors, cnt, routes, client, fault>>

Destroy ==
  /\ \/ At("main", "destroy") /\ client' = (IF client = "live" THEN "close" ELSE client)
     \/ At("main", "null") /\ client' = "null"
  /\ Advance("main")
  /\ UNCHANGED <<control, flags, motors, cnt, routes, subscribed, fault>>

Return ==
  /\ At("main", "return")
  /\ Exits
  /\ Advance("main")
  /\ UNCHANGED <<opened, alive, flags, motor_mutex, cnt, routes, mqtt, fault>>

-----------------------------------------------------------------------------
(* mqtt_message_callback, on the thread of libmosquitto.  A message that is    *)
(* none of these, or a route with no valid step in it, does nothing.           *)
Message ==
  /\ Idle("mqtt") /\ subscribed
  /\ \/ my_route # 0 /\ todo' = [todo EXCEPT !["mqtt"] = Restart]
     \/ todo' = [todo EXCEPT !["mqtt"] = StopNow]
     \/ /\ \E i \in DOMAIN heap : heap[i].mem = "unused"
        /\ \/ \E o \in Orders \ {<<>>} : todo' = [todo EXCEPT !["mqtt"] = NewRoute(o)]
           \/ todo' = [todo EXCEPT !["mqtt"] = Scan]
     \/ todo' = [todo EXCEPT !["mqtt"] = emergency_clear]
  /\ UNCHANGED <<control, flags, motors, cnt, routes, mqtt, fault>>

-----------------------------------------------------------------------------
(* The sensor threads *)

ThreadEnds(t) ==
  /\ Idle(t) /\ alive[t] = "on" /\ stop_flag = 1
  /\ alive' = [alive EXCEPT ![t] = "done"]
  /\ UNCHANGED <<opened, life, todo, flags, motors, cnt, routes, mqtt, fault>>

TcrtReads ==
  /\ Idle("tcrt") /\ alive["tcrt"] = "on" /\ stop_flag = 0 /\ ~node_active
  /\ \E c \in Codes : todo' = [todo EXCEPT !["tcrt"] = logic(c)]
  /\ UNCHANGED <<control, flags, motors, cnt, routes, mqtt, fault>>

(* hcsr04_callback; without open devices every distance is -1, and so not near. *)
CountedMutNoReset(n) == n + 1
Counted(n) == IF n + 1 >= MaxNear THEN 0 ELSE n + 1
HcsrReads ==
  /\ Idle("hcsr") /\ alive["hcsr"] = "on" /\ stop_flag = 0
  /\ \/ /\ opened
        /\ cnt' = Counted(cnt)
        /\ todo' = [todo EXCEPT !["hcsr"] = IF cnt + 1 >= MaxNear THEN emergency_stop ELSE <<>>]
     \/ cnt' = 0 /\ UNCHANGED todo
  /\ UNCHANGED <<control, flags, motors, routes, mqtt, fault>>

-----------------------------------------------------------------------------
Init == /\ opened \in Opened
        /\ todo = [t \in Thread |-> IF t = "main" THEN initialize_system ELSE <<>>]
        /\ life = "start" /\ alive = [t \in Sensor |-> "none"]
        /\ stop_flag = 1 /\ node_active = FALSE
        /\ motor_mutex = "free" /\ turning = FALSE /\ cnt = 0
        /\ my_route = 0 /\ heap = [i \in 1 .. MaxRoutes |-> Unused]
        /\ route = 0 /\ got = 0
        /\ client = "null" /\ subscribed = FALSE
        /\ fault = NoFault

Shared(t) == \/ Stop(t) \/ Drive(t) \/ Assign(t) \/ mqtt_publish(t)
             \/ Reset(t) \/ free_route(t) \/ Look(t) \/ Misuse(t)
MainStep  == \/ Shared("main") \/ Open \/ CreateThread \/ MqttInit \/ MqttSubscribe
             \/ JoinThread \/ LoopStop \/ Destroy \/ Return
MqttStep  == Shared("mqtt") \/ CreateRoute
TcrtStep  == \/ Shared("tcrt") \/ CallHandleNode \/ HasNext \/ NextStep \/ AdvanceRoute
             \/ ThreadEnds("tcrt") \/ TcrtReads
HcsrStep  == Shared("hcsr") \/ ThreadEnds("hcsr") \/ HcsrReads
Next == MainStep \/ MqttStep \/ TcrtStep \/ HcsrStep \/ Command \/ Message

Spec == Init /\ [][Next]_vars

(* The threads of the program go on when they can.  Nothing is assumed of the  *)
(* one of libmosquitto, and nobody is obliged to give a command.               *)
FairSpec == Spec /\ WF_vars(MainStep) /\ WF_vars(TcrtStep) /\ WF_vars(HcsrStep)

-----------------------------------------------------------------------------
TypeOK ==
  /\ opened \in Opened
  /\ \A t \in Thread : Len(todo[t]) <= 10
  /\ life \in {"start", "loop", "shutdown", "exited"} /\ alive \in [Sensor -> {"none", "on", "done"}]
  /\ stop_flag \in 0 .. 1 /\ node_active \in BOOLEAN
  /\ motor_mutex \in Thread \cup {"free"} /\ turning \in BOOLEAN /\ cnt \in 0 .. MaxNear - 1
  /\ my_route \in 0 .. MaxRoutes /\ route \in 0 .. MaxRoutes /\ got \in 0 .. 14
  /\ \A i \in DOMAIN heap :
       /\ heap[i].mem \in {"unused", "live", "replaced", "shutdown"}
       /\ heap[i].current \in 0 .. Len(heap[i].steps) /\ heap[i].last < Len(heap[i].steps)
       /\ \A j \in DOMAIN heap[i].steps : heap[i].steps[j] \in Action
  /\ client \in {"null", "live", "init", "close"} /\ subscribed \in BOOLEAN

(* Whenever another thread resets the route, between the reading of current    *)
(* and its writing too, the vehicle takes the steps of a route in their order: *)
(* the next one is the first or follows the last one.                          *)
NoStepSkipped ==
  At("tcrt", "next_step") /\ heap[route].mem = "live" =>
    heap[route].current \in {0, heap[route].last + 1}

(* shutdown_system frees the route and closes the client only after the sensor *)
(* threads are joined: neither of them finds its route or its client gone      *)
(* because of it.  (The thread of libmosquitto may: it still runs.)            *)
SensorsOutlived == fault.by \in Sensor => fault.cause \notin {"shutdown", "close"}

(* mqtt_close destroys the client when nobody is left who uses it.             *)
ClientOutlivesUsers == fault.cause # "close"

(* Once shutdown_system has stopped the motors nothing starts them again,      *)
(* whatever a sensor thread was in the middle of and whatever messages come.   *)
StandsAfterShutdown ==
  (life = "shutdown" /\ \A i \in DOMAIN todo["main"] : todo["main"][i].st \notin {"join", "stop"})
     => ~turning

(* The command to end the program ends it, unless a start message comes, which *)
(* keeps the sensor threads that main waits for running.  (Without an open     *)
(* motor device main waits for ever for the mutex it has kept itself.)         *)
Starting == \E i \in DOMAIN todo["mqtt"] : todo["mqtt"][i].st = "stop_flag" /\ todo["mqtt"][i].v = 0
ShutdownEnds == (opened /\ todo["main"] = shutdown_system) ~> (~Running \/ Starting)

-----------------------------------------------------------------------------
(* What the comments of the program say, and its code does not do *)

(* main.c: stop_flag is 0 while the vehicle runs; so somebody reads the line.  *)
SomebodyDrives == stop_flag = 0 => alive["tcrt"] # "done"
=============================================================================

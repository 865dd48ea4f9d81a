-------------------------- MODULE VehicleAppProofs ----------------------------
(* Proofs about VehicleApp for every set of sensor codes, routes and orders.   *)
EXTENDS VehicleApp, RouteProofs, SequenceTheorems

(* The statements each thread may come to. *)
Stmts(plain) == [st : plain, v : {0}] \cup [st : {"stop_flag"}, v : 0 .. 1]
                  \cup [st : {"node_active"}, v : BOOLEAN]
EarlyStmt == Stmts({"stop", "open", "mqtt_init", "mqtt_subscribe", "publish", "reset"})
               \cup [st : {"create"}, v : Sensor]
MainStmt  == EarlyStmt \cup Stmts({"free", "loop_stop", "destroy", "null", "return"})
               \cup [st : {"join"}, v : Sensor]
MqttStmt  == Stmts({"stop", "free", "scan", "node_type", "reset", "publish"})
               \cup [st : {"create_route"}, v : Orders]
TcrtStmt  == Stmts({"stop", "publish", "drive", "type", "call", "has_next", "next_step",
                    "advance", "announce"})
HcsrStmt  == Stmts({"stop", "publish"})

(* shutdown_system, statement by statement. *)
LEMMA ShutdownIs ==
  /\ shutdown_system \in Seq(MainStmt) /\ Len(shutdown_system) = 9
  /\ shutdown_system[1] = St("stop_flag", 1)
  /\ shutdown_system[2] = St("join", "tcrt") /\ shutdown_system[3] = St("join", "hcsr")
  /\ shutdown_system[4] = St("stop", 0) /\ shutdown_system[5] = St("free", 0)
  /\ shutdown_system[6] = St("loop_stop", 0) /\ shutdown_system[7] = St("destroy", 0)
  /\ shutdown_system[8] = St("null", 0) /\ shutdown_system[9] = St("return", 0)
<1> DEFINE a == St("stop_flag", 1)  b == St("join", "tcrt")  c == St("join", "hcsr")
           d == St("stop", 0)  e == St("free", 0)  f == St("loop_stop", 0)
           g == St("destroy", 0)  h == St("null", 0)  i == St("return", 0)
<1>1. /\ a \in MainStmt /\ b \in MainStmt /\ c \in MainStmt /\ d \in MainStmt /\ e \in MainStmt
      /\ f \in MainStmt /\ g \in MainStmt /\ h \in MainStmt /\ i \in MainStmt
  BY DEF St, MainStmt, EarlyStmt, Stmts, Sensor
<1>2. shutdown_system = ((((<<a>> \o <<b, c>>) \o <<d>>) \o <<e>>) \o <<f, g, h>>) \o <<i>>
  BY DEF shutdown_system, Flag, Join, stop_all_motors, Free, mqtt_close
<1> HIDE DEF a, b, c, d, e, f, g, h, i
<1>3. shutdown_system \in Seq(MainStmt)
  BY <1>1, <1>2
<1>4. Len(shutdown_system) = 9
  BY <1>1, <1>2
<1>5. /\ shutdown_system[1] = a /\ shutdown_system[2] = b /\ shutdown_system[3] = c
  BY <1>1, <1>2
<1>6. shutdown_system[4] = d
  <2> DEFINE x == (<<a>> \o <<b, c>>) \o <<d>>  y == (x \o <<e>>) \o <<f, g, h>>
  <2>1. x \in Seq(MainStmt) /\ Len(x) = 4 /\ x[4] = d
    BY <1>1
  <2>2. y \in Seq(MainStmt) /\ Len(y) = 8
    BY <1>1
  <2>3. x \o <<e>> \in Seq(MainStmt) /\ Len(x \o <<e>>) = 5
    BY <1>1
  <2>4. <<e>> \in Seq(MainStmt) /\ <<f, g, h>> \in Seq(MainStmt) /\ <<i>> \in Seq(MainStmt)
    BY <1>1
  <2> HIDE DEF x
  <2>5. (x \o <<e>>)[4] = d
    <3> DEFINE r == <<e>>
    <3>1. x \in Seq(MainStmt) /\ r \in Seq(MainStmt) /\ 4 \in 1 .. Len(x)
      BY <2>1, <2>4
    <3> HIDE DEF r
    <3>2. (x \o r)[4] = x[4]
      BY <3>1
    <3> QED BY <2>1, <3>2 DEF r
  <2>6. y[4] = d
    BY <2>3, <2>4, <2>5, ConcatProperties
  <2>7. shutdown_system = y \o <<i>>
    BY <1>2 DEF x
  <2> HIDE DEF y
  <2> QED BY <2>2, <2>4, <2>6, <2>7, ConcatProperties
<1>8. shutdown_system[5] = e
  BY <1>1, <1>2
<1>9. shutdown_system[6] = f
  BY <1>1, <1>2
<1>7. /\ shutdown_system[7] = g /\ shutdown_system[8] = h /\ shutdown_system[9] = i
  BY <1>1, <1>2
<1> QED BY <1>3, <1>4, <1>5, <1>6, <1>7, <1>8, <1>9 DEF a, b, c, d, e, f, g, h, i

-----------------------------------------------------------------------------
(* What a thread may still have to do: q, when main is at l.                   *)
MainFits(q, l) ==
  /\ q \in Seq(MainStmt) /\ Len(q) <= 10
  /\ l \in {"start", "loop"} => q \in Seq(EarlyStmt)
  /\ l = "shutdown" => Len(q) <= 9 /\ \A i \in 1 .. Len(q) : q[i] = shutdown_system[9 - Len(q) + i]
MqttFits(q) == q \in Seq(MqttStmt) /\ Len(q) <= 10
HcsrFits(q) == q \in Seq(HcsrStmt) /\ Len(q) <= 10
(* next_step is the last but one statement, behind has_next, and advance comes *)
(* at once.                                                                    *)
TcrtFits(q) ==
  /\ q \in Seq(TcrtStmt) /\ Len(q) <= 6
  /\ \A i \in 2 .. Len(q) : q[i].st # "advance"
  /\ \A i \in 1 .. Len(q) : q[i].st = "next_step" =>
       i = Len(q) - 1 /\ (i > 1 => q[i - 1].st = "has_next")
AnyStmt  == MainStmt \cup MqttStmt \cup TcrtStmt \cup HcsrStmt
Programs == /\ todo \in [Thread -> Seq(AnyStmt)]
            /\ life \in {"start", "loop", "shutdown", "exited"}
            /\ MainFits(todo["main"], life) /\ MqttFits(todo["mqtt"])
            /\ TcrtFits(todo["tcrt"]) /\ HcsrFits(todo["hcsr"])

(* Who may still run while main ends the program. *)
Left     == Len(todo["main"])
Quiet    == \A t \in Sensor : alive[t] # "on" => todo[t] = <<>>
Powered  == turning => opened
Ending   == life = "shutdown" =>
              /\ Left <= 7 => alive["tcrt"] # "on"
              /\ Left <= 6 => alive["hcsr"] # "on"
              /\ Left <= 5 => ~turning
              /\ Left <= 3 => ~subscribed /\ todo["mqtt"] = <<>>
Freed    == \A i \in 1 .. MaxRoutes : heap[i].mem = "shutdown" =>
              life \in {"shutdown", "exited"} /\ (life = "shutdown" => Left <= 4)
Closed   == client = "close" => life \in {"shutdown", "exited"} /\ (life = "shutdown" => Left <= 2)
Shutdown == Quiet /\ Powered /\ Ending /\ Freed /\ Closed

(* The variables that are no programs and no routes. *)
Simple   == /\ opened \in Opened /\ alive \in [Sensor -> {"none", "on", "done"}]
            /\ stop_flag \in 0 .. 1 /\ cnt \in 0 .. MaxNear - 1
            /\ motor_mutex \in Thread \cup {"free"}
            /\ client \in {"null", "live", "init", "close"}
Flags    == node_active \in BOOLEAN /\ turning \in BOOLEAN /\ subscribed \in BOOLEAN

(* The routes, and what the tcrt thread knows of its own. *)
Comes(st) == todo["tcrt"] # <<>> /\ Head(todo["tcrt"]).st = st
Mem       == {"unused", "live", "replaced", "shutdown"}
RouteRec  == [mem : Mem, steps : Seq(Action), current : Nat, last : Int]
Size(r)    == Len(r.steps)
RouteOK(r) == /\ r \in RouteRec
              /\ Size(r) <= 15 /\ r.current <= Size(r)
              /\ -1 <= r.last /\ r.last < Size(r)
              /\ r.mem # "live" => r.steps = <<>>
Routes    == /\ heap \in [1 .. MaxRoutes -> RouteRec]
             /\ \A i \in 1 .. MaxRoutes : RouteOK(heap[i])
             /\ my_route \in 0 .. MaxRoutes /\ route \in 0 .. MaxRoutes /\ got \in 0 .. 14
             /\ my_route # 0 => heap[my_route].mem # "unused"
             /\ route # 0 => heap[route].mem # "unused"
Position  == /\ Comes("next_step") \/ Comes("advance") => route # 0
             /\ Comes("next_step") /\ heap[route].mem = "live" =>
                  heap[route].current < Size(heap[route])
             /\ Comes("advance") /\ heap[route].mem = "live" => got = heap[route].last
             /\ \A i \in 1 .. MaxRoutes :
                  heap[i].mem = "live" =>
                    \/ heap[i].current \in {0, heap[i].last + 1}
                    \/ Comes("advance") /\ route = i /\ heap[i].current = heap[i].last

-----------------------------------------------------------------------------
(* One statement more, and a call of three, in explicit programs. *)
LEMMA Snoc1 ==
  ASSUME NEW a, NEW b
  PROVE  <<a>> \o <<b>> = <<a, b>>
<1> DEFINE S == {a, b}  p == <<a>> \o <<b>>
<1>s. a \in S /\ b \in S
  OBVIOUS
<1> HIDE DEF S
<1>0. p \in Seq(S) /\ Len(p) = 2
  BY <1>s
<1>1. p[1] = a
  BY <1>s
<1>2. p[2] = b
  BY <1>s
<1> HIDE DEF p
<1>3. p = <<p[1], p[2]>>
  BY <1>0
<1> QED BY <1>1, <1>2, <1>3 DEF p

(* The same for programs of two to five statements. *)
LEMMA Snoc2 ==
  ASSUME NEW a, NEW b, NEW c
  PROVE  <<a, b>> \o <<c>> = <<a, b, c>>
<1> DEFINE S == {a, b, c}  p == <<a, b>> \o <<c>>
<1>s. a \in S /\ b \in S /\ c \in S
  OBVIOUS
<1> HIDE DEF S
<1>0. p \in Seq(S) /\ Len(p) = 3
  BY <1>s
<1>1. p[1] = a
  BY <1>s
<1>2. p[2] = b
  BY <1>s
<1>3. p[3] = c
  BY <1>s
<1> HIDE DEF p
<1>4. p = <<p[1], p[2], p[3]>>
  BY <1>0
<1> QED BY <1>1, <1>2, <1>3, <1>4 DEF p

(* A fourth statement. *)
LEMMA Snoc3 ==
  ASSUME NEW a, NEW b, NEW c, NEW d
  PROVE  <<a, b, c>> \o <<d>> = <<a, b, c, d>>
<1> DEFINE S == {a, b, c, d}  p == <<a, b, c>> \o <<d>>
<1>s. a \in S /\ b \in S /\ c \in S /\ d \in S
  OBVIOUS
<1> HIDE DEF S
<1>0. p \in Seq(S) /\ Len(p) = 4
  BY <1>s
<1>1. p[1] = a
  BY <1>s
<1>2. p[2] = b
  BY <1>s
<1>3. p[3] = c
  BY <1>s
<1>4. p[4] = d
  BY <1>s
<1> HIDE DEF p
<1>5. p = <<p[1], p[2], p[3], p[4]>>
  BY <1>0
<1> QED BY <1>1, <1>2, <1>3, <1>4, <1>5 DEF p

(* A fifth statement. *)
LEMMA Snoc4 ==
  ASSUME NEW a, NEW b, NEW c, NEW d, NEW e
  PROVE  <<a, b, c, d>> \o <<e>> = <<a, b, c, d, e>>
<1> DEFINE S == {a, b, c, d, e}  p == <<a, b, c, d>> \o <<e>>
<1>s. a \in S /\ b \in S /\ c \in S /\ d \in S /\ e \in S
  OBVIOUS
<1> HIDE DEF S
<1>0. p \in Seq(S) /\ Len(p) = 5
  BY <1>s
<1>1. p[1] = a
  BY <1>s
<1>2. p[2] = b
  BY <1>s
<1>3. p[3] = c
  BY <1>s
<1>4. p[4] = d
  BY <1>s
<1>5. p[5] = e
  BY <1>s
<1> HIDE DEF p
<1>6. p = <<p[1], p[2], p[3], p[4], p[5]>>
  BY <1>0
<1> QED BY <1>1, <1>2, <1>3, <1>4, <1>5, <1>6 DEF p

(* A sixth statement. *)
LEMMA Snoc5 ==
  ASSUME NEW a, NEW b, NEW c, NEW d, NEW e, NEW f
  PROVE  <<a, b, c, d, e>> \o <<f>> = <<a, b, c, d, e, f>>
<1> DEFINE S == {a, b, c, d, e, f}  p == <<a, b, c, d, e>> \o <<f>>
<1>s. a \in S /\ b \in S /\ c \in S /\ d \in S /\ e \in S /\ f \in S
  OBVIOUS
<1> HIDE DEF S
<1>0. p \in Seq(S) /\ Len(p) = 6
  BY <1>s
<1>1. p[1] = a
  BY <1>s
<1>2. p[2] = b
  BY <1>s
<1>3. p[3] = c
  BY <1>s
<1>4. p[4] = d
  BY <1>s
<1>5. p[5] = e
  BY <1>s
<1>6. p[6] = f
  BY <1>s
<1> HIDE DEF p
<1>7. p = <<p[1], p[2], p[3], p[4], p[5], p[6]>>
  BY <1>0
<1> QED BY <1>1, <1>2, <1>3, <1>4, <1>5, <1>6, <1>7 DEF p

(* A call of three statements behind one. *)
LEMMA Call3 ==
  ASSUME NEW a, NEW b, NEW c, NEW d
  PROVE  <<a>> \o <<b, c, d>> = <<a, b, c, d>>
<1> DEFINE S == {a, b, c, d}  p == <<a>> \o <<b, c, d>>
<1>s. a \in S /\ b \in S /\ c \in S /\ d \in S
  OBVIOUS
<1> HIDE DEF S
<1>0. p \in Seq(S) /\ Len(p) = 4
  BY <1>s
<1>1. p[1] = a
  BY <1>s
<1>2. p[2] = b
  BY <1>s
<1>3. p[3] = c
  BY <1>s
<1>4. p[4] = d
  BY <1>s
<1> HIDE DEF p
<1>5. p = <<p[1], p[2], p[3], p[4]>>
  BY <1>0
<1> QED BY <1>1, <1>2, <1>3, <1>4, <1>5 DEF p

(* initialize_system and the commands of the console. *)
LEMMA MainPrograms ==
  /\ MainFits(initialize_system, "start") /\ MainFits(shutdown_system, "shutdown")
  /\ MainFits(StopNow, "loop") /\ MainFits(Restart, "loop") /\ MainFits(emergency_clear, "loop")
<1> DEFINE a == St("stop", 0)  b == St("open", 0)  c == St("create", "tcrt")  d == St("create", "hcsr")
           e == St("mqtt_init", 0)  f == St("mqtt_subscribe", 0)  g == St("reset", 0)
           h == St("stop_flag", 0)  i == St("node_active", FALSE)  j == St("publish", 0)
           k == St("stop_flag", 1)
<1>1. /\ a \in EarlyStmt /\ b \in EarlyStmt /\ c \in EarlyStmt /\ d \in EarlyStmt /\ e \in EarlyStmt
      /\ f \in EarlyStmt /\ g \in EarlyStmt /\ h \in EarlyStmt /\ i \in EarlyStmt /\ j \in EarlyStmt
      /\ k \in EarlyStmt
  BY DEF St, EarlyStmt, Stmts, Sensor
<1>2. /\ initialize_system = <<a>> \o <<b, c, d, e, f>>
      /\ StopNow = <<k>> \o <<a>>
      /\ Restart = (<<g>> \o <<h>>) \o <<i>>
      /\ emergency_clear = <<i>> \o <<j>>
  BY DEF initialize_system, stop_all_motors, StopNow, Flag, Restart, Node, emergency_clear, publish
<1> HIDE DEF a, b, c, d, e, f, g, h, i, j, k
<1>3. \A q \in Seq(EarlyStmt) : q \in Seq(MainStmt)
  BY DEF MainStmt
<1>4. initialize_system \in Seq(EarlyStmt) /\ Len(initialize_system) = 6
  BY <1>1, <1>2
<1>5. StopNow \in Seq(EarlyStmt) /\ Len(StopNow) = 2
  BY <1>1, <1>2
<1>6. Restart \in Seq(EarlyStmt) /\ Len(Restart) = 3
  <2>0. <<g>> \o <<h>> = <<g, h>> BY Snoc1
  <2>1. Restart = <<g, h, i>> BY <1>2, <2>0, Snoc2
  <2> QED BY <1>1, <2>1
<1>7. emergency_clear \in Seq(EarlyStmt) /\ Len(emergency_clear) = 2
  BY <1>1, <1>2
<1>8. MainFits(shutdown_system, "shutdown")
  BY ShutdownIs DEF MainFits
<1>9. MainFits(initialize_system, "start") BY <1>3, <1>4 DEF MainFits
<1>10. MainFits(StopNow, "loop") BY <1>3, <1>5 DEF MainFits
<1>11. MainFits(Restart, "loop") BY <1>3, <1>6 DEF MainFits
<1>12. MainFits(emergency_clear, "loop") BY <1>3, <1>7 DEF MainFits
<1> QED BY <1>8, <1>9, <1>10, <1>11, <1>12

(* What the messages of the dispatcher make the thread of libmosquitto do. *)
LEMMA MqttPrograms ==
  /\ MqttFits(StopNow) /\ MqttFits(Restart) /\ MqttFits(emergency_clear) /\ MqttFits(Scan)
  /\ \A o \in Orders : MqttFits(NewRoute(o))
<1> DEFINE a == St("stop", 0)  b == St("free", 0)  d == St("node_type", 0)
           g == St("reset", 0)  h == St("stop_flag", 0)  i == St("node_active", FALSE)
           j == St("publish", 0)  k == St("stop_flag", 1)
<1>1. /\ a \in MqttStmt /\ b \in MqttStmt /\ d \in MqttStmt /\ g \in MqttStmt /\ h \in MqttStmt
      /\ i \in MqttStmt /\ j \in MqttStmt /\ k \in MqttStmt
  BY DEF St, MqttStmt, Stmts
<1>2. /\ StopNow = <<k>> \o <<a>>
      /\ Restart = (<<g>> \o <<h>>) \o <<i>>
      /\ emergency_clear = <<i>> \o <<j>>
  BY DEF stop_all_motors, StopNow, Flag, Restart, Node, emergency_clear, publish
<1>3. ASSUME NEW o \in Orders PROVE MqttFits(NewRoute(o))
  <2> DEFINE c == St("create_route", o)
  <2>1. c \in MqttStmt
    BY DEF St, MqttStmt, Stmts
  <2>2. NewRoute(o) = <<b>> \o <<c, d>>
    BY DEF NewRoute, Free
  <2> HIDE DEF b, c, d
  <2>3. NewRoute(o) \in Seq(MqttStmt) /\ Len(NewRoute(o)) = 3
    BY <1>1, <2>1, <2>2
  <2> QED BY <2>3 DEF MqttFits
<1>4. MqttFits(Scan)
  <2> DEFINE s == St("scan", 0)
  <2>1. s \in MqttStmt
    BY DEF St, MqttStmt, Stmts
  <2>2. Scan = <<s>>
    BY DEF Scan
  <2> HIDE DEF s
  <2>3. Scan \in Seq(MqttStmt) /\ Len(Scan) = 1
    BY <2>1, <2>2
  <2> QED BY <2>3 DEF MqttFits
<1> HIDE DEF a, b, d, g, h, i, j, k
<1>5. StopNow \in Seq(MqttStmt) /\ Len(StopNow) = 2
  BY <1>1, <1>2
<1>6. Restart \in Seq(MqttStmt) /\ Len(Restart) = 3
  <2>0. <<g>> \o <<h>> = <<g, h>> BY Snoc1
  <2>1. Restart = <<g, h, i>> BY <1>2, <2>0, Snoc2
  <2> QED BY <1>1, <2>1
<1>7. emergency_clear \in Seq(MqttStmt) /\ Len(emergency_clear) = 2
  BY <1>1, <1>2
<1>8. MqttFits(StopNow) BY <1>5 DEF MqttFits
<1>9. MqttFits(Restart) BY <1>6 DEF MqttFits
<1>10. MqttFits(emergency_clear) BY <1>7 DEF MqttFits
<1> QED BY <1>3, <1>4, <1>8, <1>9, <1>10

(* hcsr04_callback. *)
LEMMA HcsrPrograms == HcsrFits(emergency_stop) /\ HcsrFits(<<>>)
<1> DEFINE a == St("stop", 0)  i == St("node_active", FALSE)  j == St("publish", 0)
<1>1. a \in HcsrStmt /\ i \in HcsrStmt /\ j \in HcsrStmt
  BY DEF St, HcsrStmt, Stmts
<1>2. emergency_stop = (<<a>> \o <<i>>) \o <<j>>
  BY DEF stop_all_motors, emergency_stop, Node, publish
<1> HIDE DEF a, i, j
<1>3. emergency_stop \in Seq(HcsrStmt) /\ Len(emergency_stop) = 3
  <2>0. <<a>> \o <<i>> = <<a, i>> BY Snoc1
  <2>1. emergency_stop = <<a, i, j>> BY <1>2, <2>0, Snoc2
  <2> QED BY <1>1, <2>1
<1> QED BY <1>3 DEF HcsrFits

(* Programs that take no step of a route. *)
Plain == {x \in TcrtStmt : x.st \notin {"advance", "next_step"}}
(* They fit, for the lengths that occur. *)
LEMMA TcrtPlain ==
  /\ \A a \in Plain : TcrtFits(<<a>>)
  /\ \A a, b \in Plain : TcrtFits(<<a, b>>)
  /\ \A a, b, c, d \in Plain : TcrtFits(<<a, b, c, d>>)
<1>1. ASSUME NEW q \in Seq(Plain), Len(q) <= 6 PROVE TcrtFits(q)
  <2>1. q \in Seq(TcrtStmt) /\ \A i \in 1 .. Len(q) : q[i].st \notin {"advance", "next_step"}
    BY <1>1 DEF Plain
  <2> QED BY <1>1, <2>1 DEF TcrtFits
<1>2. ASSUME NEW a \in Plain PROVE TcrtFits(<<a>>)
  <2>1. <<a>> \in Seq(Plain) /\ Len(<<a>>) <= 6 OBVIOUS
  <2> QED BY <1>1, <2>1
<1>3. ASSUME NEW a \in Plain, NEW b \in Plain PROVE TcrtFits(<<a, b>>)
  <2>1. <<a, b>> \in Seq(Plain) /\ Len(<<a, b>>) <= 6 OBVIOUS
  <2> QED BY <1>1, <2>1
<1>4. ASSUME NEW a \in Plain, NEW b \in Plain, NEW c \in Plain, NEW d \in Plain PROVE TcrtFits(<<a, b, c, d>>)
  <2>1. <<a, b, c, d>> \in Seq(Plain) /\ Len(<<a, b, c, d>>) <= 6 OBVIOUS
  <2> QED BY <1>1, <2>1
<1> QED BY <1>2, <1>3, <1>4

(* logic, for every code of the line sensor. *)
LEMMA TcrtPrograms == TcrtFits(Node(FALSE)) /\ \A c \in 0 .. 7 : TcrtFits(logic(c))
<1> DEFINE a == St("stop", 0)  b == St("publish", 0)  d == St("drive", 0)  t == St("type", 0)
           n == St("node_active", TRUE)  m == St("node_active", FALSE)
           x == St("call", 0)  y == St("has_next", 0)  z == St("next_step", 0)
<1>1. /\ a \in TcrtStmt /\ b \in TcrtStmt /\ d \in TcrtStmt /\ t \in TcrtStmt /\ n \in TcrtStmt
      /\ m \in TcrtStmt /\ x \in TcrtStmt /\ y \in TcrtStmt /\ z \in TcrtStmt
  BY DEF St, TcrtStmt, Stmts
<1>2. /\ a.st = "stop" /\ b.st = "publish" /\ d.st = "drive" /\ t.st = "type"
      /\ n.st = "node_active" /\ m.st = "node_active"
      /\ x.st = "call" /\ y.st = "has_next" /\ z.st = "next_step"
  BY DEF St
<1>3. /\ Node(FALSE) = <<m>> /\ drive = <<d>>
      /\ logic(0) = <<a>> \o <<b>>
      /\ \A c \in {1, 2, 3, 4, 6} : logic(c) = <<d>>
      /\ logic(5) = ((<<a>> \o <<b>>) \o <<t>>) \o <<b>>
      /\ logic(7) = (<<n>> \o <<x, y, z>>) \o <<m>>
  BY DEF logic, stop_all_motors, publish, drive, Node, handle_node
<1> HIDE DEF a, b, d, t, n, m, x, y, z
<1>p. a \in Plain /\ b \in Plain /\ d \in Plain /\ t \in Plain /\ m \in Plain
  BY <1>1, <1>2 DEF Plain
<1>4. TcrtFits(<<m>>) /\ TcrtFits(<<d>>)
  BY <1>p, TcrtPlain
<1>5. TcrtFits(logic(0))
  <2>1. logic(0) = <<a, b>> BY <1>3, Snoc1
  <2> QED BY <1>p, <2>1, TcrtPlain
<1>6. TcrtFits(logic(5))
  <2>0. <<a>> \o <<b>> = <<a, b>> BY Snoc1
  <2>1. (<<a>> \o <<b>>) \o <<t>> = <<a, b, t>> BY <2>0, Snoc2
  <2>2. logic(5) = <<a, b, t, b>> BY <1>3, <2>1, Snoc3
  <2> QED BY <1>p, <2>2, TcrtPlain
<1>7. TcrtFits(logic(7))
  <2>0. <<n>> \o <<x, y, z>> = <<n, x, y, z>> BY Call3
  <2>9. <<n, x, y, z>> \o <<m>> = <<n, x, y, z, m>> BY Snoc4
  <2>1. logic(7) = <<n, x, y, z, m>> BY <1>3, <2>0, <2>9
  <2> DEFINE p == <<n, x, y, z, m>>
  <2>2. p \in Seq(TcrtStmt) /\ Len(p) = 5 BY <1>1
  <2>3. p[1] = n /\ p[2] = x /\ p[3] = y /\ p[4] = z /\ p[5] = m OBVIOUS
  <2>4. logic(7) = p BY <2>1
  <2> HIDE DEF p
  <2>5. \A i \in 2 .. 5 : p[i].st # "advance" BY <1>2, <2>3
  <2>6. \A i \in 1 .. 5 : p[i].st = "next_step" => i = 4 BY <1>2, <2>3
  <2>7. p[3].st = "has_next" BY <1>2, <2>3
  <2>8. TcrtFits(p) BY <2>2, <2>5, <2>6, <2>7 DEF TcrtFits
  <2> QED BY <2>4, <2>8
<1>8. \A c \in 0 .. 7 : c \in {0, 1, 2, 3, 4, 5, 6, 7}
  OBVIOUS
<1> QED BY <1>3, <1>4, <1>5, <1>6, <1>7, <1>8

(* What handle_node does with the step it is given, before the rest q. *)
LEMMA PerformFits ==
  ASSUME NEW act, NEW q \in Seq(TcrtStmt), Len(q) = 1, q[1].st \notin {"advance", "next_step"}
  PROVE  TcrtFits(Perform(act) \o q) /\ Perform(act) \o q # <<>> /\ Head(Perform(act) \o q).st = "advance"
<1> DEFINE a == St("stop", 0)  b == St("publish", 0)  d == St("drive", 0)
           x == St("advance", 0)  y == St("announce", 0)  m == q[1]
           s == IF act = STOP THEN a ELSE d
<1>0. a \in TcrtStmt /\ b \in TcrtStmt /\ d \in TcrtStmt /\ x \in TcrtStmt /\ y \in TcrtStmt
  BY DEF St, TcrtStmt, Stmts
<1>m. m \in TcrtStmt
  OBVIOUS
<1>1. /\ b \in TcrtStmt /\ d \in TcrtStmt /\ x \in TcrtStmt /\ y \in TcrtStmt
      /\ s \in TcrtStmt /\ m \in TcrtStmt
  <2>1. s = a \/ s = d OBVIOUS
  <2> QED BY <1>0, <1>m, <2>1
<1>2. /\ b.st = "publish" /\ d.st = "drive" /\ x.st = "advance" /\ y.st = "announce"
      /\ s.st \in {"stop", "drive"} /\ m.st \notin {"advance", "next_step"}
  BY DEF St
<1>3. Perform(act) = ((<<x, y>> \o <<b>>) \o <<d>>) \o <<s>>
  BY DEF Perform, publish, drive, stop_all_motors
<1>4. q = <<m>>
  OBVIOUS
<1> HIDE DEF a, b, d, x, y, s, m
<1>5. Perform(act) = <<x, y, b, d, s>>
  <2>0. <<x, y>> \o <<b>> = <<x, y, b>> BY Snoc2
  <2>1. (<<x, y>> \o <<b>>) \o <<d>> = <<x, y, b, d>> BY <2>0, Snoc3
  <2> QED BY <1>3, <2>1, Snoc4
<1> DEFINE p == <<x, y, b, d, s, m>>
<1>6. Perform(act) \o q = p
  BY <1>4, <1>5, Snoc5
<1>7. p \in Seq(TcrtStmt) /\ Len(p) = 6
  BY <1>1
<1>11. TcrtFits(p)
  BY <1>2, <1>7 DEF TcrtFits
<1>12. p # <<>> /\ Head(p) = x
  OBVIOUS
<1> QED BY <1>2, <1>6, <1>11, <1>12

-----------------------------------------------------------------------------
(* What is left of a program after a statement of it fits as the whole did. *)
LEMMA TailOf ==
  ASSUME NEW S, NEW q \in Seq(S), q # <<>>
  PROVE  /\ Head(q) = q[1] /\ Head(q) \in S /\ Tail(q) \in Seq(S)
         /\ Len(q) \in Nat \ {0} /\ Len(Tail(q)) = Len(q) - 1
         /\ \A i \in 1 .. Len(q) - 1 : Tail(q)[i] = q[i + 1]
OBVIOUS

(* The same for the threads' own kinds of programs. *)
LEMMA TailFits ==
  ASSUME NEW q, q # <<>>
  PROVE  /\ \A l : MainFits(q, l) => MainFits(Tail(q), l)
         /\ MqttFits(q) => MqttFits(Tail(q))
         /\ HcsrFits(q) => HcsrFits(Tail(q))
         /\ TcrtFits(q) => TcrtFits(Tail(q))
<1>1. ASSUME NEW l, MainFits(q, l) PROVE MainFits(Tail(q), l)
  <2>1. /\ q \in Seq(MainStmt) /\ Len(q) <= 10
        /\ l \in {"start", "loop"} => q \in Seq(EarlyStmt)
        /\ l = "shutdown" => Len(q) <= 9 /\ \A i \in 1 .. Len(q) : q[i] = shutdown_system[9 - Len(q) + i]
    BY <1>1 DEF MainFits
  <2>2. /\ Tail(q) \in Seq(MainStmt) /\ Len(q) \in Nat \ {0} /\ Len(Tail(q)) = Len(q) - 1
        /\ \A i \in 1 .. Len(q) - 1 : Tail(q)[i] = q[i + 1]
    BY <2>1, TailOf
  <2>3. l \in {"start", "loop"} => Tail(q) \in Seq(EarlyStmt)
    BY <2>1, TailOf
  <2>4. ASSUME l = "shutdown", NEW i \in 1 .. Len(Tail(q))
        PROVE  Tail(q)[i] = shutdown_system[9 - Len(Tail(q)) + i]
    <3>1. i \in 1 .. Len(q) - 1 /\ i + 1 \in 1 .. Len(q) BY <2>2
    <3>2. Tail(q)[i] = shutdown_system[9 - Len(q) + (i + 1)] BY <2>1, <2>2, <2>4, <3>1
    <3>3. 9 - Len(q) + (i + 1) = 9 - Len(Tail(q)) + i BY <2>2, <3>1
    <3> QED BY <3>2, <3>3
  <2>5. Len(Tail(q)) <= 10 /\ (l = "shutdown" => Len(Tail(q)) <= 9)
    BY <2>1, <2>2
  <2> QED BY <2>2, <2>3, <2>4, <2>5 DEF MainFits
<1>2. ASSUME MqttFits(q) PROVE MqttFits(Tail(q))
  <2>1. q \in Seq(MqttStmt) /\ Len(q) <= 10 BY <1>2 DEF MqttFits
  <2>2. Tail(q) \in Seq(MqttStmt) /\ Len(q) \in Nat /\ Len(Tail(q)) = Len(q) - 1 BY <2>1, TailOf
  <2>3. Len(Tail(q)) <= 10 BY <2>1, <2>2
  <2> QED BY <2>2, <2>3 DEF MqttFits
<1>3. ASSUME HcsrFits(q) PROVE HcsrFits(Tail(q))
  <2>1. q \in Seq(HcsrStmt) /\ Len(q) <= 10 BY <1>3 DEF HcsrFits
  <2>2. Tail(q) \in Seq(HcsrStmt) /\ Len(q) \in Nat /\ Len(Tail(q)) = Len(q) - 1 BY <2>1, TailOf
  <2>3. Len(Tail(q)) <= 10 BY <2>1, <2>2
  <2> QED BY <2>2, <2>3 DEF HcsrFits
<1>4. ASSUME TcrtFits(q) PROVE TcrtFits(Tail(q))
  <2>1. /\ q \in Seq(TcrtStmt) /\ Len(q) <= 6
        /\ \A i \in 2 .. Len(q) : q[i].st # "advance"
        /\ \A i \in 1 .. Len(q) : q[i].st = "next_step" =>
             i = Len(q) - 1 /\ (i > 1 => q[i - 1].st = "has_next")
    BY <1>4 DEF TcrtFits
  <2>2. /\ Tail(q) \in Seq(TcrtStmt) /\ Len(q) \in Nat \ {0} /\ Len(Tail(q)) = Len(q) - 1
        /\ \A i \in 1 .. Len(q) - 1 : Tail(q)[i] = q[i + 1]
    BY <2>1, TailOf
  <2>3. ASSUME NEW i \in 2 .. Len(Tail(q)) PROVE Tail(q)[i].st # "advance"
    <3>1. i \in 1 .. Len(q) - 1 /\ i + 1 \in 2 .. Len(q) BY <2>2
    <3> QED BY <2>1, <2>2, <3>1
  <2>4. ASSUME NEW i \in 1 .. Len(Tail(q)), Tail(q)[i].st = "next_step"
        PROVE  i = Len(Tail(q)) - 1 /\ (i > 1 => Tail(q)[i - 1].st = "has_next")
    <3>1. i \in 1 .. Len(q) - 1 /\ i + 1 \in 1 .. Len(q) /\ i + 1 > 1 /\ (i + 1) - 1 = i BY <2>2
    <3>2. q[i + 1].st = "next_step" BY <2>2, <2>4, <3>1
    <3>3. i + 1 = Len(q) - 1 /\ q[i].st = "has_next" BY <2>1, <3>1, <3>2
    <3>4. i = Len(Tail(q)) - 1 BY <2>2, <3>1, <3>3
    <3>5. i > 1 => i - 1 \in 1 .. Len(q) - 1 /\ (i - 1) + 1 = i BY <2>2, <3>1
    <3> QED BY <2>2, <3>3, <3>4, <3>5
  <2>5. Len(Tail(q)) <= 6
    <3>1. Len(q) \in Nat \ {0} /\ Len(Tail(q)) = Len(q) - 1 /\ Len(q) <= 6 BY <2>1, <2>2
    <3> QED BY <3>1
  <2> QED BY <2>2, <2>3, <2>4, <2>5 DEF TcrtFits
<1> QED BY <1>1, <1>2, <1>3, <1>4

(* The next statement of a thread is one of its own. *)
LEMMA HeadFits ==
  ASSUME NEW q, q # <<>>
  PROVE  /\ \A l : MainFits(q, l) =>
               /\ Head(q) \in MainStmt
               /\ l \in {"start", "loop"} => Head(q) \in EarlyStmt
               /\ l = "shutdown" => Len(q) \in 1 .. 9 /\ Head(q) = shutdown_system[10 - Len(q)]
         /\ MqttFits(q) => Head(q) \in MqttStmt
         /\ HcsrFits(q) => Head(q) \in HcsrStmt
         /\ TcrtFits(q) => Head(q) \in TcrtStmt
<1>1. ASSUME NEW l, MainFits(q, l)
      PROVE  /\ Head(q) \in MainStmt
             /\ l \in {"start", "loop"} => Head(q) \in EarlyStmt
             /\ l = "shutdown" => Len(q) \in 1 .. 9 /\ Head(q) = shutdown_system[10 - Len(q)]
  <2>1. /\ q \in Seq(MainStmt) /\ (l \in {"start", "loop"} => q \in Seq(EarlyStmt))
        /\ l = "shutdown" => Len(q) <= 9 /\ \A i \in 1 .. Len(q) : q[i] = shutdown_system[9 - Len(q) + i]
    BY <1>1 DEF MainFits
  <2>2. Head(q) = q[1] /\ Head(q) \in MainStmt /\ Len(q) \in Nat \ {0}
    BY <2>1, TailOf
  <2>3. l \in {"start", "loop"} => Head(q) \in EarlyStmt
    BY <2>1, TailOf
  <2>4. l = "shutdown" => Len(q) \in 1 .. 9 /\ Head(q) = shutdown_system[10 - Len(q)]
    <3> SUFFICES ASSUME l = "shutdown" PROVE Len(q) \in 1 .. 9 /\ Head(q) = shutdown_system[10 - Len(q)]
      OBVIOUS
    <3>1. Len(q) <= 9 /\ \A i \in 1 .. Len(q) : q[i] = shutdown_system[9 - Len(q) + i] BY <2>1
    <3>2. 1 \in 1 .. Len(q) /\ 9 - Len(q) + 1 = 10 - Len(q) /\ Len(q) \in 1 .. 9
      <4>1. Len(q) <= 9 BY <3>1
      <4>2. Len(q) \in Nat \ {0} BY <2>2
      <4>3. \A n \in Nat \ {0} : n <= 9 => 1 \in 1 .. n /\ (9 - n) + 1 = 10 - n /\ n \in 1 .. 9
        OBVIOUS
      <4> QED BY <4>1, <4>2, <4>3
    <3>3. q[1] = shutdown_system[9 - Len(q) + 1] BY <3>1, <3>2
    <3> QED BY <2>2, <3>2, <3>3
  <2> QED BY <2>2, <2>3, <2>4
<1>2. MqttFits(q) => Head(q) \in MqttStmt BY TailOf DEF MqttFits
<1>3. HcsrFits(q) => Head(q) \in HcsrStmt BY TailOf DEF HcsrFits
<1>4. TcrtFits(q) => Head(q) \in TcrtStmt BY TailOf DEF TcrtFits
<1> QED BY <1>1, <1>2, <1>3, <1>4

(* Thread t goes on with q. *)
LEMMA GoesOn ==
  ASSUME Programs, NEW t \in Thread, NEW q, todo' = [todo EXCEPT ![t] = q],
         life' \in {"start", "loop", "shutdown", "exited"},
         IF t = "main" THEN MainFits(q, life') ELSE life' = life,
         t = "mqtt" => MqttFits(q), t = "tcrt" => TcrtFits(q), t = "hcsr" => HcsrFits(q)
  PROVE  Programs'
<1>1. q \in Seq(AnyStmt)
  BY DEF MainFits, MqttFits, TcrtFits, HcsrFits, AnyStmt, Thread, Sensor
<1>2. todo' \in [Thread -> Seq(AnyStmt)]
  BY <1>1 DEF Programs
<1>3. /\ todo'["main"] = IF t = "main" THEN q ELSE todo["main"]
      /\ todo'["mqtt"] = IF t = "mqtt" THEN q ELSE todo["mqtt"]
      /\ todo'["tcrt"] = IF t = "tcrt" THEN q ELSE todo["tcrt"]
      /\ todo'["hcsr"] = IF t = "hcsr" THEN q ELSE todo["hcsr"]
  BY DEF Programs, Thread, Sensor
<1> QED BY <1>2, <1>3 DEF Programs

(* Thread t goes on to its next statement. *)
LEMMA Advances ==
  ASSUME Programs, NEW t \in Thread, todo[t] # <<>>, Advance(t),
         \/ life' = life
         \/ t = "main" /\ life' = "exited"
         \/ t = "main" /\ life \in {"start", "loop"} /\ life' = "loop"
  PROVE  Programs'
<1>1. todo' = [todo EXCEPT ![t] = Tail(todo[t])]
  BY DEF Advance
<1>2. /\ t = "main" => MainFits(todo[t], life) /\ MainFits(Tail(todo[t]), life)
  BY TailFits DEF Programs
<1>3. t = "main" => MainFits(Tail(todo[t]), life')
  BY <1>2 DEF MainFits
<1>4. life' \in {"start", "loop", "shutdown", "exited"} /\ (t # "main" => life' = life)
  BY DEF Programs
<1>5. /\ t = "mqtt" => MqttFits(Tail(todo[t]))
      /\ t = "tcrt" => TcrtFits(Tail(todo[t]))
      /\ t = "hcsr" => HcsrFits(Tail(todo[t]))
  BY TailFits DEF Programs
<1> QED BY <1>1, <1>3, <1>4, <1>5, GoesOn

(* Where main is when its next statement is st. *)
LEMMA MainAt ==
  ASSUME Programs, NEW st, At("main", st)
  PROVE  /\ todo["main"] # <<>> /\ life \in {"start", "loop", "shutdown"} /\ Left \in Nat \ {0}
         /\ life \in {"start", "loop"} => st \in {"stop_flag", "node_active", "stop", "open", "mqtt_init",
                                                 "mqtt_subscribe", "publish", "reset", "create"}
         /\ life = "shutdown" =>
              /\ Left \in 1 .. 9
              /\ st = CASE Left = 9 -> "stop_flag" [] Left = 8 -> "join" [] Left = 7 -> "join"
                        [] Left = 6 -> "stop" [] Left = 5 -> "free" [] Left = 4 -> "loop_stop"
                        [] Left = 3 -> "destroy" [] Left = 2 -> "null" [] Left = 1 -> "return"
              /\ Left = 8 => Value("main") = "tcrt"
              /\ Left = 7 => Value("main") = "hcsr"
<1>1. todo["main"] # <<>> /\ life # "exited" /\ Head(todo["main"]).st = st
  BY DEF At, Running
<1>2. MainFits(todo["main"], life) /\ life \in {"start", "loop", "shutdown"}
  BY <1>1 DEF Programs
<1>3. todo["main"] \in Seq(MainStmt) BY <1>2 DEF MainFits
<1>4. Left \in Nat \ {0} BY <1>1, <1>3, TailOf DEF Left
<1>5. ASSUME life \in {"start", "loop"}
      PROVE  st \in {"stop_flag", "node_active", "stop", "open", "mqtt_init", "mqtt_subscribe",
                     "publish", "reset", "create"}
  <2>1. Head(todo["main"]) \in EarlyStmt BY <1>1, <1>2, <1>5, HeadFits
  <2>2. \A x \in EarlyStmt : x.st \in {"stop_flag", "node_active", "stop", "open", "mqtt_init",
                                      "mqtt_subscribe", "publish", "reset", "create"}
    BY DEF EarlyStmt, Stmts
  <2> QED BY <1>1, <2>1, <2>2
<1>6. ASSUME life = "shutdown"
      PROVE  /\ Left \in 1 .. 9
             /\ st = CASE Left = 9 -> "stop_flag" [] Left = 8 -> "join" [] Left = 7 -> "join"
                       [] Left = 6 -> "stop" [] Left = 5 -> "free" [] Left = 4 -> "loop_stop"
                       [] Left = 3 -> "destroy" [] Left = 2 -> "null" [] Left = 1 -> "return"
             /\ Left = 8 => Value("main") = "tcrt"
             /\ Left = 7 => Value("main") = "hcsr"
  <2>1. Left \in 1 .. 9 /\ Head(todo["main"]) = shutdown_system[10 - Left]
    BY <1>1, <1>2, <1>6, HeadFits DEF Left
  <2>2. Left \in {1, 2, 3, 4, 5, 6, 7, 8, 9} BY <2>1
  <2>3. st = shutdown_system[10 - Left].st /\ Value("main") = shutdown_system[10 - Left].v
    BY <1>1, <2>1 DEF Value
  <2> QED BY <2>1, <2>2, <2>3, ShutdownIs DEF St
<1> QED BY <1>1, <1>2, <1>4, <1>5, <1>6

(* handle_node goes on with the step it has read. *)
LEMMA NextStepFits ==
  ASSUME NEW q, TcrtFits(q), q # <<>>, Head(q).st = "next_step", NEW act
  PROVE  /\ TcrtFits(Perform(act) \o Tail(q)) /\ Perform(act) \o Tail(q) # <<>>
         /\ Head(Perform(act) \o Tail(q)).st = "advance"
<1>1. q \in Seq(TcrtStmt)
  BY DEF TcrtFits
<1>2. /\ Head(q) = q[1] /\ Tail(q) \in Seq(TcrtStmt) /\ Len(q) \in Nat \ {0} /\ Len(Tail(q)) = Len(q) - 1
      /\ \A i \in 1 .. Len(q) - 1 : Tail(q)[i] = q[i + 1]
  BY <1>1, TailOf
<1>3. 1 = Len(q) - 1
  <2>1. 1 \in 1 .. Len(q) /\ q[1].st = "next_step" BY <1>2
  <2> QED BY <2>1 DEF TcrtFits
<1>4. Len(q) = 2 /\ Len(Tail(q)) = 1 /\ Tail(q)[1] = q[2]
  <2>1. \A n \in Nat : 1 = n - 1 => n = 2 OBVIOUS
  <2>2. Len(q) = 2 BY <1>2, <1>3, <2>1
  <2>3. Len(Tail(q)) = 1 BY <1>2, <1>3
  <2>4. 1 \in 1 .. Len(q) - 1 BY <2>2
  <2>5. Tail(q)[1] = q[1 + 1] BY <1>2, <2>4
  <2> QED BY <2>2, <2>3, <2>5
<1>5. q[2].st # "advance" /\ q[2].st # "next_step"
  <2>1. /\ \A i \in 2 .. Len(q) : q[i].st # "advance"
        /\ \A i \in 1 .. Len(q) : q[i].st = "next_step" => i = Len(q) - 1
    BY DEF TcrtFits
  <2>2. 2 \in 2 .. Len(q) /\ 2 \in 1 .. Len(q) /\ 2 # Len(q) - 1
    BY <1>4
  <2> QED BY <2>1, <2>2
<1> QED BY <1>2, <1>4, <1>5, PerformFits

(* main begins with initialize_system, the other threads with nothing. *)
LEMMA InitPrograms == Init => Programs
<1> SUFFICES ASSUME Init PROVE Programs
  OBVIOUS
<1>1. /\ todo = [t \in Thread |-> IF t = "main" THEN initialize_system ELSE <<>>]
      /\ life = "start"
  BY DEF Init
<1>2. MainFits(initialize_system, "start")
  BY MainPrograms
<1>3. initialize_system \in Seq(AnyStmt)
  BY <1>2 DEF MainFits, AnyStmt
<1>4. MqttFits(<<>>) /\ HcsrFits(<<>>) /\ TcrtFits(<<>>)
  BY DEF MqttFits, HcsrFits, TcrtFits
<1> QED BY <1>1, <1>2, <1>3, <1>4 DEF Programs, Thread, Sensor

(* Every step, of any thread, leaves each of them a program of its own kind. *)
LEMMA StepPrograms == Programs /\ [Next]_vars => Programs'
<1> SUFFICES ASSUME Programs, [Next]_vars PROVE Programs'
  OBVIOUS
<1> USE DEF control, flags, motors, routes, mqtt
<1>t. "main" \in Thread /\ "mqtt" \in Thread /\ "tcrt" \in Thread /\ "hcsr" \in Thread
  BY DEF Thread, Sensor
<1>l. life \in {"start", "loop", "shutdown", "exited"}
  BY DEF Programs
<1>1. ASSUME NEW t \in Thread, Shared(t) PROVE Programs'
  <2>1. CASE Misuse(t)
    BY <2>1 DEF Misuse, Programs
  <2>2. CASE Stop(t) \/ Drive(t) \/ Assign(t) \/ mqtt_publish(t) \/ Reset(t) \/ free_route(t) \/ Look(t)
    <3>1. todo[t] # <<>> /\ Advance(t) /\ life' = life
      BY <2>2 DEF Stop, Drive, Assign, mqtt_publish, Reset, free_route, Look, At
    <3> QED BY <3>1, Advances
  <2> QED BY <1>1, <2>1, <2>2 DEF Shared
<1>2. CASE CreateRoute \/ CallHandleNode \/ AdvanceRoute
  <2>1. \E t \in Thread : todo[t] # <<>> /\ Advance(t) /\ life' = life
    BY <1>t, <1>2 DEF CreateRoute, CallHandleNode, AdvanceRoute, At
  <2> QED BY <2>1, Advances
<1>3. CASE Open \/ CreateThread \/ MqttInit \/ JoinThread \/ Destroy \/ Return
  <2>1. todo["main"] # <<>> /\ Advance("main") /\ (life' = life \/ life' = "exited")
    BY <1>3 DEF Open, CreateThread, MqttInit, JoinThread, Destroy, Return, At, Exits
  <2> QED BY <1>t, <2>1, Advances
<1>4. CASE MqttSubscribe
  <2>1. At("main", "mqtt_subscribe") /\ todo["main"] # <<>> /\ Advance("main") /\ life' = "loop"
    BY <1>4 DEF MqttSubscribe, At
  <2>2. life \in {"start", "loop"}
    BY <2>1, MainAt
  <2> QED BY <1>t, <2>1, <2>2, Advances
<1>5. CASE LoopStop
  <2>1. /\ todo["main"] # <<>> /\ life' = life
        /\ todo' = [todo EXCEPT !["mqtt"] = <<>>, !["main"] = Tail(todo["main"])]
    BY <1>5 DEF LoopStop, At
  <2>2. MainFits(Tail(todo["main"]), life) /\ MqttFits(<<>>)
    BY <2>1, TailFits DEF Programs, MqttFits
  <2>3. Tail(todo["main"]) \in Seq(AnyStmt)
    BY <2>2 DEF MainFits, AnyStmt
  <2>4. todo' \in [Thread -> Seq(AnyStmt)]
    <3>1. <<>> \in Seq(AnyStmt) /\ todo \in [Thread -> Seq(AnyStmt)] BY DEF Programs
    <3>2. todo' = [[todo EXCEPT !["mqtt"] = <<>>] EXCEPT !["main"] = Tail(todo["main"])] BY <2>1
    <3> QED BY <2>3, <3>1, <3>2
  <2>5. /\ todo'["main"] = Tail(todo["main"]) /\ todo'["mqtt"] = <<>>
        /\ todo'["tcrt"] = todo["tcrt"] /\ todo'["hcsr"] = todo["hcsr"]
    BY <1>t, <2>1 DEF Programs
  <2> QED BY <2>1, <2>2, <2>4, <2>5 DEF Programs
<1>6. CASE HasNext
  <2>1. CASE Advance("tcrt")
    BY <1>t, <1>6, <2>1, Advances DEF HasNext, At
  <2>2. CASE todo' = [todo EXCEPT !["tcrt"] = Node(FALSE)]
    <3>1. life' = life BY <1>6 DEF HasNext
    <3> QED BY <1>t, <1>l, <2>2, <3>1, TcrtPrograms, GoesOn
  <2> QED BY <1>6, <2>1, <2>2 DEF HasNext
<1>7. CASE NextStep
  <2> DEFINE q == Perform(next_step(heap[route])) \o Tail(todo["tcrt"])
  <2>1. /\ todo["tcrt"] # <<>> /\ Head(todo["tcrt"]).st = "next_step" /\ life' = life
        /\ todo' = [todo EXCEPT !["tcrt"] = q]
    BY <1>7 DEF NextStep, At
  <2>2. TcrtFits(q)
    BY <2>1, NextStepFits DEF Programs
  <2> HIDE DEF q
  <2> QED BY <1>t, <1>l, <2>1, <2>2, GoesOn
<1>8. CASE TcrtReads
  <2>1. life' = life /\ \E c \in 0 .. 7 : todo' = [todo EXCEPT !["tcrt"] = logic(c)]
    BY <1>8, CodesAssumption DEF TcrtReads
  <2> QED BY <1>t, <1>l, <2>1, TcrtPrograms, GoesOn
<1>9. CASE HcsrReads
  <2>1. life' = life
    BY <1>9 DEF HcsrReads
  <2>2. CASE \E q \in {emergency_stop, <<>>} : todo' = [todo EXCEPT !["hcsr"] = q]
    BY <1>t, <1>l, <2>1, <2>2, HcsrPrograms, GoesOn
  <2>3. CASE UNCHANGED todo
    BY <2>1, <2>3 DEF Programs
  <2> QED BY <1>9, <2>2, <2>3 DEF HcsrReads
<1>10. CASE Message
  <2>1. /\ life' = life
        /\ \E q \in {Restart, StopNow, Scan, emergency_clear} \cup {NewRoute(o) : o \in Orders} :
             todo' = [todo EXCEPT !["mqtt"] = q]
    BY <1>10 DEF Message
  <2> QED BY <1>t, <1>l, <2>1, MqttPrograms, GoesOn
<1>11. CASE Command
  <2>1. \/ life' = "loop" /\ \E q \in {StopNow, Restart, emergency_clear} : todo' = [todo EXCEPT !["main"] = q]
        \/ life' = "shutdown" /\ todo' = [todo EXCEPT !["main"] = shutdown_system]
    BY <1>11 DEF Command
  <2>2. ASSUME NEW q, MainFits(q, life'), life' \in {"loop", "shutdown"}, todo' = [todo EXCEPT !["main"] = q]
        PROVE  Programs'
    BY <1>t, <2>2, GoesOn
  <2> QED BY <2>1, <2>2, MainPrograms
<1>12. CASE (\E t \in Sensor : ThreadEnds(t)) \/ UNCHANGED vars
  BY <1>12 DEF ThreadEnds, vars, Programs
<1> QED BY <1>t, <1>1, <1>2, <1>3, <1>4, <1>5, <1>6, <1>7, <1>8, <1>9, <1>10, <1>11, <1>12
        DEF Next, MainStep, MqttStep, TcrtStep, HcsrStep, Sensor

-----------------------------------------------------------------------------
(* The values that variables of a single value take. *)
LEMMA InitSimple == Init => Simple /\ Flags
<1>1. Init => Simple
  BY BoundAssumption DEF Init, Simple
<1>2. Init => Flags
  BY Zenon DEF Init, Flags
<1> QED BY <1>1, <1>2

(* Which steps change which variable. *)
LEMMA Changes ==
  ASSUME [Next]_vars
  PROVE  /\ opened' = opened
         /\ alive' = alive \/ CreateThread \/ \E t \in Sensor : ThreadEnds(t)
         /\ (stop_flag' = stop_flag /\ node_active' = node_active) \/ \E t \in Thread : Assign(t)
         /\ motor_mutex' = motor_mutex \/ \E t \in Thread : Stop(t)
         /\ \/ turning' = turning \/ turning' = FALSE
            \/ \E t \in Thread : Drive(t)
         /\ cnt' = cnt \/ HcsrReads
         /\ client' = client \/ MqttInit \/ Destroy
         /\ subscribed' = subscribed \/ MqttSubscribe \/ LoopStop
         /\ life' = life \/ life' = "exited" \/ MqttSubscribe \/ Command
<1> USE DEF control, flags, motors, routes, mqtt
<1>1. opened' = opened
    BY DEF Next, MainStep, MqttStep, TcrtStep, HcsrStep, Shared, Stop, Drive, Assign, mqtt_publish,
     Reset, free_route, Look, Misuse, Open, CreateThread, MqttInit, MqttSubscribe, JoinThread,
     LoopStop, Destroy, Return, CreateRoute, CallHandleNode, HasNext, NextStep, AdvanceRoute,
     ThreadEnds, TcrtReads, HcsrReads, Command, Message, vars, Thread, Sensor, Exits
<1>2. alive' = alive \/ CreateThread \/ \E t \in Sensor : ThreadEnds(t)
    BY DEF Next, MainStep, MqttStep, TcrtStep, HcsrStep, Shared, Stop, Drive, Assign, mqtt_publish,
     Reset, free_route, Look, Misuse, Open, MqttInit, MqttSubscribe, JoinThread, LoopStop, Destroy,
     Return, CreateRoute, CallHandleNode, HasNext, NextStep, AdvanceRoute, TcrtReads, HcsrReads,
     Command, Message, vars, Thread, Sensor, Exits
<1>3. (stop_flag' = stop_flag /\ node_active' = node_active) \/ \E t \in Thread : Assign(t)
    BY DEF Next, MainStep, MqttStep, TcrtStep, HcsrStep, Shared, Stop, Drive, mqtt_publish, Reset,
     free_route, Look, Misuse, Open, CreateThread, MqttInit, MqttSubscribe, JoinThread, LoopStop,
     Destroy, Return, CreateRoute, CallHandleNode, HasNext, NextStep, AdvanceRoute, ThreadEnds,
     TcrtReads, HcsrReads, Command, Message, vars, Thread, Sensor, Exits
<1>4. motor_mutex' = motor_mutex \/ \E t \in Thread : Stop(t)
    BY DEF Next, MainStep, MqttStep, TcrtStep, HcsrStep, Shared, Drive, Assign, mqtt_publish, Reset,
     free_route, Look, Misuse, Open, CreateThread, MqttInit, MqttSubscribe, JoinThread, LoopStop,
     Destroy, Return, CreateRoute, CallHandleNode, HasNext, NextStep, AdvanceRoute, ThreadEnds,
     TcrtReads, HcsrReads, Command, Message, vars, Thread, Sensor, Exits
<1>5. turning' = turning \/ turning' = FALSE \/ \E t \in Thread : Drive(t)
    BY DEF Next, MainStep, MqttStep, TcrtStep, HcsrStep, Shared, Stop, Assign, mqtt_publish, Reset,
     free_route, Look, Misuse, Open, CreateThread, MqttInit, MqttSubscribe, JoinThread, LoopStop,
     Destroy, Return, CreateRoute, CallHandleNode, HasNext, NextStep, AdvanceRoute, ThreadEnds,
     TcrtReads, HcsrReads, Command, Message, vars, Thread, Sensor, Exits
<1>6. cnt' = cnt \/ HcsrReads
    BY DEF Next, MainStep, MqttStep, TcrtStep, HcsrStep, Shared, Stop, Drive, Assign, mqtt_publish,
     Reset, free_route, Look, Misuse, Open, CreateThread, MqttInit, MqttSubscribe, JoinThread,
     LoopStop, Destroy, Return, CreateRoute, CallHandleNode, HasNext, NextStep, AdvanceRoute,
     ThreadEnds, TcrtReads, Command, Message, vars, Thread, Sensor, Exits
<1>7. client' = client \/ MqttInit \/ Destroy
    BY DEF Next, MainStep, MqttStep, TcrtStep, HcsrStep, Shared, Stop, Drive, Assign, mqtt_publish,
     Reset, free_route, Look, Misuse, Open, CreateThread, MqttSubscribe, JoinThread, LoopStop,
     Return, CreateRoute, CallHandleNode, HasNext, NextStep, AdvanceRoute, ThreadEnds, TcrtReads,
     HcsrReads, Command, Message, vars, Thread, Sensor, Exits
<1>8. subscribed' = subscribed \/ MqttSubscribe \/ LoopStop
    BY DEF Next, MainStep, MqttStep, TcrtStep, HcsrStep, Shared, Stop, Drive, Assign, mqtt_publish,
     Reset, free_route, Look, Misuse, Open, CreateThread, MqttInit, JoinThread, Destroy, Return,
     CreateRoute, CallHandleNode, HasNext, NextStep, AdvanceRoute, ThreadEnds, TcrtReads, HcsrReads,
     Command, Message, vars, Thread, Sensor, Exits
<1>9. life' = life \/ life' = "exited" \/ MqttSubscribe \/ Command
    BY DEF Next, MainStep, MqttStep, TcrtStep, HcsrStep, Shared, Stop, Drive, Assign, mqtt_publish,
     Reset, free_route, Look, Misuse, Open, CreateThread, MqttInit, JoinThread, LoopStop, Destroy,
     Return, CreateRoute, CallHandleNode, HasNext, NextStep, AdvanceRoute, ThreadEnds, TcrtReads,
     HcsrReads, Message, vars, Thread, Sensor, Exits
<1> QED BY <1>1, <1>2, <1>3, <1>4, <1>5, <1>6, <1>7, <1>8, <1>9

(* The statements that assign a flag carry a value of it. *)
LEMMA Assigned ==
  ASSUME Programs, NEW t \in Thread, Assign(t)
  PROVE  stop_flag' \in {stop_flag, 0, 1} /\ (node_active' = node_active \/ node_active' \in BOOLEAN)
<1>1. todo[t] # <<>>
  BY DEF Assign, At
<1>2. Head(todo[t]) \in AnyStmt
  BY <1>1, HeadFits DEF Programs, AnyStmt, Thread, Sensor
<1>3. \A x \in AnyStmt : x.st = "stop_flag" => x.v \in {0, 1}
  BY DEF AnyStmt, MainStmt, EarlyStmt, MqttStmt, TcrtStmt, HcsrStmt, Stmts
<1>4. \A x \in AnyStmt : x.st = "node_active" => x.v \in BOOLEAN
  BY DEF AnyStmt, MainStmt, EarlyStmt, MqttStmt, TcrtStmt, HcsrStmt, Stmts
<1>5. stop_flag' \in {stop_flag, 0, 1}
  BY <1>2, <1>3 DEF Assign, At, Value
<1>6. node_active' = node_active \/ node_active' \in BOOLEAN
  BY <1>2, <1>4, Zenon DEF Assign, At, Value
<1> QED BY <1>5, <1>6

(* Every step keeps the simple variables among their values. *)
LEMMA StepSimple == Programs /\ Simple /\ [Next]_vars => Simple'
<1> SUFFICES ASSUME Programs, Simple, [Next]_vars PROVE Simple'
  OBVIOUS
<1>1. opened' \in Opened
  BY Changes DEF Simple
<1>2. alive' \in [Sensor -> {"none", "on", "done"}]
  <2>1. CASE CreateThread
    <3>1. At("main", "create") /\ Head(todo["main"]) \in MainStmt
      BY <2>1, HeadFits DEF CreateThread, At, Programs
    <3>2. \A x \in MainStmt : x.st = "create" => x.v \in Sensor
      BY DEF MainStmt, EarlyStmt, Stmts
    <3>3. Value("main") \in Sensor
      BY <3>1, <3>2 DEF At, Value
    <3> QED BY <2>1, <3>3 DEF CreateThread, Simple
  <2>2. CASE \E t \in Sensor : ThreadEnds(t)
    BY <2>2 DEF ThreadEnds, Simple
  <2> QED BY <2>1, <2>2, Changes DEF Simple
<1>3. stop_flag' \in 0 .. 1
  <2>1. stop_flag' = stop_flag \/ \E t \in Thread : Assign(t)
    BY Changes
  <2>2. stop_flag' \in {stop_flag, 0, 1}
    BY <2>1, Assigned
  <2> QED BY <2>2 DEF Simple
<1>4. cnt' \in 0 .. MaxNear - 1
  <2>1. cnt' \in {cnt, 0, Counted(cnt)}
    BY Changes DEF HcsrReads
  <2>2. cnt \in Nat /\ cnt < MaxNear /\ MaxNear \in Nat \ {0}
    BY BoundAssumption DEF Simple
  <2>3. Counted(cnt) \in 0 .. MaxNear - 1
    BY <2>2 DEF Counted
  <2> QED BY <2>1, <2>2, <2>3
<1>5. motor_mutex' \in Thread \cup {"free"}
  BY Changes DEF Stop, motors, Simple
<1>6. client' \in {"null", "live", "init", "close"}
  BY Changes DEF MqttInit, Destroy, Simple
<1> QED BY <1>1, <1>2, <1>3, <1>4, <1>5, <1>6 DEF Simple

(* The Boolean ones apart, for the provers. *)
LEMMA StepFlags == Programs /\ Flags /\ Simple /\ [Next]_vars => Flags'
<1> SUFFICES ASSUME Programs, Flags, Simple, [Next]_vars PROVE Flags'
  OBVIOUS
<1>1. node_active' \in BOOLEAN
  <2>1. node_active' = node_active \/ \E t \in Thread : Assign(t)
    BY Changes
  <2> QED BY <2>1, Assigned, Zenon DEF Flags
<1>2. turning' \in BOOLEAN
  <2>1. turning' = turning \/ turning' = FALSE \/ turning' = (turning \/ opened)
    <3>1. \A t \in Thread : Drive(t) => turning' = (turning \/ opened)
      BY Zenon DEF Drive
    <3>2. turning' = turning \/ turning' = FALSE \/ \E t \in Thread : Drive(t)
      BY Changes
    <3> QED BY <3>1, <3>2, Zenon
  <2> QED BY <2>1, Zenon DEF Flags
<1>3. subscribed' \in BOOLEAN
  <2>1. subscribed' = subscribed \/ MqttSubscribe \/ LoopStop
    BY Changes
  <2>2. MqttSubscribe => subscribed' \in BOOLEAN
    BY Zenon DEF MqttSubscribe
  <2>3. LoopStop => subscribed' = FALSE
    BY Zenon DEF LoopStop
  <2> QED BY <2>1, <2>2, <2>3, Zenon DEF Flags
<1> QED BY <1>1, <1>2, <1>3 DEF Flags

-----------------------------------------------------------------------------
(* Everything but taking a step turns the record r of a route into s so. *)
Reworks(r, s) ==
  \/ s = r
  \/ s = [r EXCEPT !.current = 0]
  \/ \E m \in {"replaced", "shutdown"} : s = [Unused EXCEPT !.mem = m]
  \/ /\ r.mem = "unused"
     /\ \E p \in Seq(Action) : Len(p) <= 15 /\ s = [r EXCEPT !.mem = "live", !.steps = p]

(* A record reworked is still one of a route, and what tcrt knows of a live *)
(* route stays true, but for a reset to its first step.                    *)
LEMMA Reworked ==
  ASSUME NEW r, NEW s, RouteOK(r), Reworks(r, s)
  PROVE  /\ RouteOK(s)
         /\ r.mem # "unused" => s.mem # "unused"
         /\ s.mem = "live" /\ r.mem # "unused" =>
              r.mem = "live" /\ s.steps = r.steps /\ s.last = r.last /\ s.current \in {0, r.current}
         /\ s.mem = "live" /\ r.mem = "unused" => s.current = 0
<1>1. /\ r \in RouteRec /\ Len(r.steps) <= 15 /\ r.current <= Len(r.steps) /\ r.current \in Nat
      /\ r.last \in Int /\ -1 <= r.last /\ r.last < Len(r.steps) /\ r.steps \in Seq(Action)
      /\ r.mem \in Mem /\ (r.mem # "live" => r.steps = <<>>)
  BY DEF RouteOK, Size, RouteRec
<1>2. Len(r.steps) \in Nat
  BY <1>1
<1>3. CASE s = r
  BY <1>1, <1>3
<1>4. CASE s = [r EXCEPT !.current = 0]
  <2>1. s \in RouteRec /\ s.mem = r.mem /\ s.steps = r.steps /\ s.current = 0 /\ s.last = r.last
    BY <1>1, <1>4 DEF RouteRec
  <2> QED BY <1>1, <1>2, <2>1 DEF RouteOK, Size
<1>5. ASSUME NEW m \in {"replaced", "shutdown"}, s = [Unused EXCEPT !.mem = m]
      PROVE  RouteOK(s) /\ s.mem \notin {"live", "unused"}
  <2>0. <<>> \in Seq(Action) /\ Len(<<>>) = 0
    OBVIOUS
  <2>1. s = [mem |-> m, steps |-> <<>>, current |-> 0, last |-> -1]
    BY <1>5 DEF Unused
  <2>2. s \in RouteRec /\ s.steps = <<>> /\ s.current = 0 /\ s.last = -1 /\ s.mem = m
    BY <2>0, <2>1 DEF RouteRec, Mem
  <2> QED BY <1>5, <2>0, <2>2 DEF RouteOK, Size
<1>6. ASSUME r.mem = "unused", NEW p \in Seq(Action), Len(p) <= 15,
             s = [r EXCEPT !.mem = "live", !.steps = p]
      PROVE  RouteOK(s) /\ s.mem = "live" /\ s.current = 0
  <2>1. Len(r.steps) = 0 /\ r.current = 0 /\ r.last = -1
    BY <1>1, <1>6
  <2>2. s.current = 0 /\ s.last = -1 /\ s \in RouteRec /\ s.steps = p /\ s.mem = "live"
    BY <1>1, <1>6, <2>1 DEF RouteRec, Mem
  <2>3. Len(p) \in Nat
    BY <1>6
  <2> QED BY <1>6, <2>2, <2>3 DEF RouteOK, Size
<1> QED BY <1>3, <1>4, <1>5, <1>6 DEF Reworks

(* What comes after a statement of tcrt. *)
LEMMA TcrtTail ==
  ASSUME NEW q, TcrtFits(q), q # <<>>, Tail(q) # <<>>
  PROVE  Head(Tail(q)).st # "advance" /\ (Head(Tail(q)).st = "next_step" => Head(q).st = "has_next")
<1>1. /\ q \in Seq(TcrtStmt)
      /\ \A i \in 2 .. Len(q) : q[i].st # "advance"
      /\ \A i \in 1 .. Len(q) : q[i].st = "next_step" => (i > 1 => q[i - 1].st = "has_next")
  BY DEF TcrtFits
<1>2. /\ Head(q) = q[1] /\ Tail(q) \in Seq(TcrtStmt) /\ Len(q) \in Nat \ {0} /\ Len(Tail(q)) = Len(q) - 1
      /\ \A i \in 1 .. Len(q) - 1 : Tail(q)[i] = q[i + 1]
  BY <1>1, TailOf
<1>3. Head(Tail(q)) = Tail(q)[1] /\ Len(Tail(q)) \in Nat \ {0}
  BY <1>2, TailOf
<1>4. 1 \in 1 .. Len(q) - 1 /\ 2 \in 2 .. Len(q) /\ 2 \in 1 .. Len(q)
  BY <1>2, <1>3
<1>5. Tail(q)[1] = q[2]
  BY <1>2, <1>4
<1>6. q[2].st # "advance"
  BY <1>1, <1>4
<1>7. q[2].st = "next_step" => q[1].st = "has_next"
  BY <1>1, <1>4
<1> QED BY <1>2, <1>3, <1>5, <1>6, <1>7

(* No program of logic begins with a step of the route. *)
LEMMA TcrtHeads ==
  /\ Node(FALSE) # <<>> /\ Head(Node(FALSE)).st = "node_active"
  /\ \A c \in 0 .. 7 : logic(c) # <<>> /\ Head(logic(c)).st \notin {"advance", "next_step"}
<1> DEFINE a == St("stop", 0)  b == St("publish", 0)  d == St("drive", 0)  t == St("type", 0)
           n == St("node_active", TRUE)  m == St("node_active", FALSE)
           x == St("call", 0)  y == St("has_next", 0)  z == St("next_step", 0)
<1>2. a.st = "stop" /\ d.st = "drive" /\ n.st = "node_active" /\ m.st = "node_active"
  BY DEF St
<1>3. /\ Node(FALSE) = <<m>>
      /\ logic(0) = <<a>> \o <<b>>
      /\ \A c \in {1, 2, 3, 4, 6} : logic(c) = <<d>>
      /\ logic(5) = ((<<a>> \o <<b>>) \o <<t>>) \o <<b>>
      /\ logic(7) = (<<n>> \o <<x, y, z>>) \o <<m>>
  BY DEF logic, stop_all_motors, publish, drive, Node, handle_node
<1> HIDE DEF a, b, d, t, n, m, x, y, z
<1> DEFINE Begins(q) == q # <<>> /\ Head(q).st \notin {"advance", "next_step"}
<1>4. Begins(<<d>>) /\ Begins(<<a, b>>) /\ Begins(<<a, b, t, b>>) /\ Begins(<<n, x, y, z, m>>)
  BY <1>2
<1>m. Node(FALSE) # <<>> /\ Head(Node(FALSE)).st = "node_active"
  <2>1. Node(FALSE) = <<m>> /\ m.st = "node_active" BY <1>2, <1>3
  <2>2. <<m>> # <<>> /\ Head(<<m>>) = m OBVIOUS
  <2> QED BY <2>1, <2>2
<1> HIDE DEF Begins
<1>5. Begins(logic(0))
  BY <1>3, <1>4, Snoc1
<1>6. Begins(logic(5))
  <2>0. <<a>> \o <<b>> = <<a, b>> BY Snoc1
  <2>1. (<<a>> \o <<b>>) \o <<t>> = <<a, b, t>> BY <2>0, Snoc2
  <2>2. logic(5) = <<a, b, t, b>> BY <1>3, <2>1, Snoc3
  <2> QED BY <1>4, <2>2
<1>7. Begins(logic(7))
  <2>0. <<n>> \o <<x, y, z>> = <<n, x, y, z>> BY Call3
  <2>9. <<n, x, y, z>> \o <<m>> = <<n, x, y, z, m>> BY Snoc4
  <2>1. logic(7) = <<n, x, y, z, m>> BY <1>3, <2>0, <2>9
  <2> QED BY <1>4, <2>1
<1>8. \A c \in 0 .. 7 : c \in {0, 1, 2, 3, 4, 5, 6, 7}
  OBVIOUS
<1>9. \A c \in 0 .. 7 : Begins(logic(c))
  BY <1>3, <1>4, <1>5, <1>6, <1>7, <1>8
<1> QED BY <1>m, <1>9 DEF Begins

(* Every step but the two of next_step reworks the routes. *)
LEMMA HeapStep ==
  ASSUME Programs, Routes, [Next]_vars
  PROVE  \/ NextStep \/ AdvanceRoute
         \/ /\ got' = got
            /\ heap' = [i \in 1 .. MaxRoutes |-> heap'[i]]
            /\ \A i \in 1 .. MaxRoutes : Reworks(heap[i], heap'[i])
            /\ my_route' \in 0 .. MaxRoutes
            /\ my_route' = my_route \/ my_route' = 0 \/ heap'[my_route'].mem # "unused"
<1> USE DEF control, flags, motors, routes, mqtt
<1>1. \/ got' = got /\ heap' = heap /\ my_route' = my_route
      \/ (\E t \in Thread : Reset(t) \/ free_route(t)) \/ CreateRoute \/ NextStep \/ AdvanceRoute
  BY DEF Next, MainStep, MqttStep, TcrtStep, HcsrStep, Shared, Stop, Drive, Assign, mqtt_publish, Look,
     Misuse, Open, CreateThread, MqttInit, MqttSubscribe, JoinThread, LoopStop, Destroy, Return,
     CallHandleNode, HasNext, ThreadEnds, TcrtReads, HcsrReads, Command, Message, vars, Thread, Sensor
<1>2. /\ heap \in [1 .. MaxRoutes -> RouteRec] /\ my_route \in 0 .. MaxRoutes
      /\ heap = [i \in 1 .. MaxRoutes |-> heap[i]]
  BY DEF Routes
<1>3. CASE got' = got /\ heap' = heap /\ my_route' = my_route
  BY <1>2, <1>3 DEF Reworks
<1>4. ASSUME NEW t \in Thread, Reset(t)
      PROVE  /\ got' = got /\ heap' = [i \in 1 .. MaxRoutes |-> heap'[i]] /\ my_route' = my_route
             /\ \A i \in 1 .. MaxRoutes : Reworks(heap[i], heap'[i])
  <2>1. /\ got' = got /\ my_route' = my_route
        /\ heap' = IF my_route = 0 THEN heap ELSE [heap EXCEPT ![my_route] = [@ EXCEPT !.current = 0]]
    BY <1>4 DEF Reset, reset_route
  <2> QED BY <1>2, <2>1 DEF Reworks
<1>5. ASSUME NEW t \in Thread, free_route(t)
      PROVE  /\ got' = got /\ heap' = [i \in 1 .. MaxRoutes |-> heap'[i]] /\ my_route' = my_route
             /\ \A i \in 1 .. MaxRoutes : Reworks(heap[i], heap'[i])
  <2>1. got' = got /\ my_route' = my_route
    BY <1>5 DEF free_route
  <2>2. \/ heap' = heap
        \/ \E m \in {"replaced", "shutdown"} :
             heap' = [heap EXCEPT ![my_route] = [Unused EXCEPT !.mem = m]]
    BY <1>5 DEF free_route
  <2>3. CASE heap' = heap
    BY <1>2, <2>1, <2>3 DEF Reworks
  <2>4. ASSUME NEW m \in {"replaced", "shutdown"}, heap' = [heap EXCEPT ![my_route] = [Unused EXCEPT !.mem = m]]
        PROVE  /\ heap' = [i \in 1 .. MaxRoutes |-> heap'[i]]
               /\ \A i \in 1 .. MaxRoutes : Reworks(heap[i], heap'[i])
    <3>1. \A i \in 1 .. MaxRoutes : heap'[i] = heap[i] \/ heap'[i] = [Unused EXCEPT !.mem = m]
      BY <1>2, <2>4
    <3> QED BY <1>2, <2>4, <3>1 DEF Reworks
  <2> QED BY <2>1, <2>2, <2>3, <2>4
<1>6. CASE CreateRoute
  <2>1. At("mqtt", "create_route") /\ got' = got
    BY <1>6 DEF CreateRoute
  <2>2. CASE my_route' = 0 /\ UNCHANGED heap
    <3>1. my_route' \in 0 .. MaxRoutes BY <2>2, BoundAssumption
    <3>2. \A i \in 1 .. MaxRoutes : Reworks(heap[i], heap'[i]) BY <2>2 DEF Reworks
    <3> QED BY <1>2, <2>1, <2>2, <3>1, <3>2
  <2>3. ASSUME NEW k \in DOMAIN heap, heap[k].mem = "unused", my_route' = k,
               heap' = [heap EXCEPT ![k].mem = "live", ![k].steps = create_route(Value("mqtt")).steps]
        PROVE  /\ heap' = [i \in 1 .. MaxRoutes |-> heap'[i]] /\ my_route' \in 0 .. MaxRoutes
               /\ \A i \in 1 .. MaxRoutes : Reworks(heap[i], heap'[i])
               /\ heap'[my_route'].mem # "unused"
    <3> DEFINE p == create_route(Value("mqtt")).steps
    <3>1. Value("mqtt") \in Orders
      <4>1. Head(todo["mqtt"]) \in MqttStmt /\ Head(todo["mqtt"]).st = "create_route"
        BY <2>1, HeadFits DEF At, Programs
      <4>2. \A x \in MqttStmt : x.st = "create_route" => x.v \in Orders
        BY DEF MqttStmt, Stmts
      <4> QED BY <4>1, <4>2 DEF Value
    <3>2. Value("mqtt") \in Seq(Int) /\ Len(Value("mqtt")) <= 15
      <4>1. Value("mqtt") \in Seq(Nat) /\ Len(Value("mqtt")) <= 15
        BY <3>1, OrdersAssumption
      <4> QED BY <4>1
    <3>3. p \in Seq(Action) /\ Len(p) <= 15
      BY <3>2, Decoding
    <3>4. k \in 1 .. MaxRoutes /\ heap[k] \in RouteRec
      BY <1>2
    <3> HIDE DEF p
    <3>5. heap' = [heap EXCEPT ![k] = [heap[k] EXCEPT !.mem = "live", !.steps = p]]
      BY <1>2, <2>3, <3>4 DEF p, RouteRec
    <3>6. /\ heap' = [i \in 1 .. MaxRoutes |-> heap'[i]]
          /\ heap'[k] = [heap[k] EXCEPT !.mem = "live", !.steps = p]
          /\ \A i \in 1 .. MaxRoutes : i # k => heap'[i] = heap[i]
      BY <1>2, <3>4, <3>5
    <3>7. heap'[k].mem = "live"
      BY <3>4, <3>6 DEF RouteRec
    <3>8. Reworks(heap[k], heap'[k])
      BY <2>3, <3>3, <3>6 DEF Reworks
    <3>9. \A i \in 1 .. MaxRoutes : i # k => Reworks(heap[i], heap'[i])
      BY <3>6 DEF Reworks
    <3>10. my_route' \in 0 .. MaxRoutes /\ heap'[my_route'].mem # "unused"
      BY <2>3, <3>4, <3>7, BoundAssumption
    <3>11. \A i \in 1 .. MaxRoutes : Reworks(heap[i], heap'[i])
      BY <3>8, <3>9
    <3>12. heap' = [i \in 1 .. MaxRoutes |-> heap'[i]]
      BY <3>6
    <3> QED BY <3>10, <3>11, <3>12
  <2> QED BY <1>6, <2>1, <2>2, <2>3 DEF CreateRoute
<1> QED BY <1>1, <1>2, <1>3, <1>4, <1>5, <1>6

(* The steps that leave tcrt where it is, those that keep away from the steps *)
(* of the route, and the one that comes to them.                              *)
LEMMA TcrtStepKinds ==
  ASSUME Programs, [Next]_vars
  PROVE  \/ NextStep \/ AdvanceRoute
         \/ todo'["tcrt"] = todo["tcrt"] /\ route' = route
         \/ /\ ~Comes("advance") /\ ~Comes("advance")' /\ ~Comes("next_step")'
            /\ route' \in {route, my_route, 0}
         \/ /\ ~Comes("advance") /\ ~Comes("advance")'
            /\ route' = route /\ route # 0 /\ has_next(heap[route]) /\ heap' = heap
<1> USE DEF control, flags, motors, routes, mqtt
<1>t. /\ "main" \in Thread /\ "mqtt" \in Thread /\ "tcrt" \in Thread /\ "hcsr" \in Thread
      /\ todo \in [Thread -> Seq(AnyStmt)]
  BY DEF Thread, Sensor, Programs
<1>a. ASSUME todo["tcrt"] # <<>>, Advance("tcrt"),
             Head(todo["tcrt"]).st \notin {"has_next", "next_step", "advance"}
      PROVE  ~Comes("advance") /\ ~Comes("advance")' /\ ~Comes("next_step")'
  <2>1. todo'["tcrt"] = Tail(todo["tcrt"])
    BY <1>t, <1>a DEF Advance
  <2>2. TcrtFits(todo["tcrt"])
    BY DEF Programs
  <2>3. Tail(todo["tcrt"]) # <<>> => Head(Tail(todo["tcrt"])).st \notin {"advance", "next_step"}
    BY <1>a, <2>2, TcrtTail
  <2> QED BY <1>a, <2>1, <2>3 DEF Comes
<1>b. ASSUME NEW t \in Thread, Shared(t), ~Misuse(t)
      PROVE  /\ todo[t] # <<>> /\ Advance(t)
             /\ Head(todo[t]).st \notin {"has_next", "next_step", "advance"}
             /\ route' = route \/ (route' = 0 /\ Head(todo[t]).st = "announce")
  <2>1. todo[t] # <<>> /\ Advance(t)
    BY <1>b DEF Shared, Stop, Drive, Assign, mqtt_publish, Reset, free_route, Look, At
  <2>4. route' = route \/ (route' = 0 /\ Head(todo[t]).st = "announce")
    <3>1. CASE Look(t)
      <4>1. (At(t, "announce") /\ route' = 0) \/ UNCHANGED route BY <3>1 DEF Look
      <4> QED BY <4>1 DEF At
    <3>2. CASE ~Look(t)
      BY <1>b, <3>2 DEF Shared, Stop, Drive, Assign, mqtt_publish, Reset, free_route
    <3> QED BY <3>1, <3>2
  <2>2. Head(todo[t]).st \in {"stop", "drive", "stop_flag", "node_active", "publish", "reset", "free",
                             "announce", "type", "node_type"}
    <3>1. \E st \in {"stop", "drive", "stop_flag", "node_active", "publish", "reset", "free",
                     "announce", "type", "node_type"} : At(t, st)
      BY <1>b DEF Shared, Stop, Drive, Assign, mqtt_publish, Reset, free_route, Look
    <3> QED BY <3>1 DEF At
  <2>3. Head(todo[t]).st \notin {"has_next", "next_step", "advance"}
    BY <2>2
  <2> QED BY <2>1, <2>3, <2>4
<1>1. ASSUME NEW t \in Thread, Shared(t), t # "tcrt" PROVE todo'["tcrt"] = todo["tcrt"] /\ route' = route
  <2>1. CASE Misuse(t)
    BY <2>1 DEF Misuse
  <2>2. CASE ~Misuse(t)
    <3>1. /\ todo[t] # <<>> /\ Advance(t)
          /\ route' = route \/ (route' = 0 /\ Head(todo[t]).st = "announce")
      BY <1>1, <1>b, <2>2
    <3>2. Head(todo[t]) \in MainStmt \cup MqttStmt \cup HcsrStmt
      BY <1>1, <3>1, HeadFits DEF Programs, Thread, Sensor
    <3>3. \A x \in MainStmt \cup MqttStmt \cup HcsrStmt : x.st # "announce"
      BY DEF MainStmt, EarlyStmt, MqttStmt, HcsrStmt, Stmts
    <3>4. route' = route
      BY <3>1, <3>2, <3>3
    <3>5. todo'["tcrt"] = todo["tcrt"]
      BY <1>t, <1>1, <3>1 DEF Advance
    <3> QED BY <3>4, <3>5
  <2> QED BY <2>1, <2>2
<1>2. CASE Shared("tcrt") \/ CallHandleNode
  <2>1. CASE Misuse("tcrt")
    BY <2>1 DEF Misuse
  <2>2. CASE Shared("tcrt") /\ ~Misuse("tcrt")
    BY <1>t, <1>a, <1>b, <2>2
  <2>3. CASE CallHandleNode
    <3>1. todo["tcrt"] # <<>> /\ Advance("tcrt") /\ Head(todo["tcrt"]).st = "call" /\ route' = my_route
      BY <2>3 DEF CallHandleNode, At
    <3> QED BY <1>a, <3>1
  <2> QED BY <1>2, <2>1, <2>2, <2>3
<1>3. CASE HasNext
  <2>1. todo["tcrt"] # <<>> /\ Head(todo["tcrt"]).st = "has_next" /\ ~Comes("advance")
    BY <1>3 DEF HasNext, At, Comes
  <2>2. CASE route # 0 /\ has_next(heap[route])
    <3>1. Advance("tcrt") /\ route' = route /\ heap' = heap
      BY <1>3, <2>2 DEF HasNext
    <3>2. todo'["tcrt"] = Tail(todo["tcrt"]) /\ TcrtFits(todo["tcrt"])
      BY <1>t, <3>1 DEF Advance, Programs
    <3>3. Tail(todo["tcrt"]) # <<>> => Head(Tail(todo["tcrt"])).st # "advance"
      BY <2>1, <3>2, TcrtTail
    <3>4. ~Comes("advance")'
      BY <3>2, <3>3 DEF Comes
    <3> QED BY <2>1, <2>2, <3>1, <3>4
  <2>3. CASE ~(route # 0 /\ has_next(heap[route]))
    <3>1. todo'["tcrt"] = Node(FALSE) /\ route' = 0
      BY <1>t, <1>3, <2>3 DEF HasNext
    <3>2. Head(Node(FALSE)).st = "node_active"
      BY TcrtHeads
    <3> QED BY <2>1, <3>1, <3>2 DEF Comes
  <2> QED BY <2>2, <2>3
<1>4. CASE TcrtReads
  <2>1. /\ todo["tcrt"] = <<>> /\ route' = route
        /\ \E c \in 0 .. 7 : todo'["tcrt"] = logic(c)
    BY <1>t, <1>4, CodesAssumption DEF TcrtReads, Idle
  <2> QED BY <2>1, TcrtHeads DEF Comes
<1>5. CASE \/ MainStep /\ ~Shared("main")
           \/ MqttStep /\ ~Shared("mqtt")
           \/ HcsrStep /\ ~Shared("hcsr")
           \/ Command \/ Message \/ ThreadEnds("tcrt") \/ UNCHANGED vars
  BY <1>t, <1>5 DEF MainStep, MqttStep, HcsrStep, Open, CreateThread, MqttInit, MqttSubscribe, JoinThread,
     LoopStop, Destroy, Return, CreateRoute, ThreadEnds, HcsrReads, Command, Message, vars, Advance
<1> QED BY <1>t, <1>1, <1>2, <1>3, <1>4, <1>5 DEF Next, MainStep, MqttStep, TcrtStep, HcsrStep

(* A statement of handle_node that gets on has a route that is there. *)
LEMMA Live ==
  ASSUME NEW st \in {"next_step", "advance"}, At("tcrt", st), Valid("tcrt")
  PROVE  Comes(st) /\ route # 0 /\ heap[route].mem = "live"
<1>1. Head(todo["tcrt"]).st = st /\ todo["tcrt"] # <<>> /\ Invalid("tcrt") = {}
  BY DEF At, Valid
<1>2. Comes(st)
  BY <1>1 DEF Comes
<1>3. st \notin ClientUses /\ st \in InNode /\ st \in RouteUses /\ st \notin TestsNull
  BY DEF ClientUses, InNode, RouteUses, TestsNull
<1>4. Invalid("tcrt") = IF route = 0 THEN {"null"} ELSE {heap[route].mem} \ {"live"}
  BY <1>1, <1>3 DEF Invalid
<1> QED BY <1>1, <1>2, <1>4

(* Between the two halves of next_step the other threads may reset, free or  *)
(* replace the route: the copy of the position stays the number of the step  *)
(* taken last, and current is that number, the next one, or 0.               *)
LEMMA StepRoutes == Programs /\ Routes /\ Position /\ [Next]_vars => Routes' /\ Position'
<1> SUFFICES ASSUME Programs, Routes, Position, [Next]_vars PROVE Routes' /\ Position'
  OBVIOUS
<1> USE DEF control, flags, motors, routes, mqtt
<1>r. /\ heap \in [1 .. MaxRoutes -> RouteRec] /\ MaxRoutes \in Nat
      /\ \A i \in 1 .. MaxRoutes : RouteOK(heap[i])
      /\ my_route \in 0 .. MaxRoutes /\ route \in 0 .. MaxRoutes /\ got \in 0 .. 14
      /\ my_route # 0 => heap[my_route].mem # "unused"
      /\ route # 0 => heap[route].mem # "unused"
  BY BoundAssumption DEF Routes
<1>o. \A i \in 1 .. MaxRoutes :
        /\ heap[i].current \in Nat /\ heap[i].last \in Int /\ heap[i].steps \in Seq(Action)
        /\ Size(heap[i]) \in 0 .. 15 /\ heap[i].current <= Size(heap[i])
        /\ -1 <= heap[i].last /\ heap[i].last < Size(heap[i])
  <2> SUFFICES ASSUME NEW i \in 1 .. MaxRoutes
               PROVE  /\ heap[i].current \in Nat /\ heap[i].last \in Int /\ heap[i].steps \in Seq(Action)
                      /\ Size(heap[i]) \in 0 .. 15 /\ heap[i].current <= Size(heap[i])
                      /\ -1 <= heap[i].last /\ heap[i].last < Size(heap[i])
    OBVIOUS
  <2>1. RouteOK(heap[i]) BY <1>r
  <2>2. heap[i].steps \in Seq(Action) BY <2>1 DEF RouteOK, RouteRec
  <2>3. Size(heap[i]) \in Nat BY <2>2 DEF Size
  <2>4. /\ heap[i].current \in Nat /\ heap[i].last \in Int /\ heap[i].current <= Size(heap[i])
        /\ -1 <= heap[i].last /\ heap[i].last < Size(heap[i]) /\ Size(heap[i]) <= 15
    BY <2>1 DEF RouteOK, RouteRec
  <2>5. Size(heap[i]) \in 0 .. 15 BY <2>3, <2>4
  <2> QED BY <2>2, <2>4, <2>5
<1>1. CASE NextStep
  <2>1. At("tcrt", "next_step") /\ Valid("tcrt")
    BY <1>1 DEF NextStep
  <2>2. Comes("next_step") /\ route # 0 /\ heap[route].mem = "live"
    BY <2>1, Live
  <2>3. ~Comes("advance")
    BY <2>2 DEF Comes
  <2>4. /\ got' = heap[route].current /\ my_route' = my_route /\ route' = route
        /\ heap' = [heap EXCEPT ![route] = [heap[route] EXCEPT !.last = heap[route].current]]
    BY <1>1 DEF NextStep
  <2>5. heap[route].current < Size(heap[route]) /\ route \in 1 .. MaxRoutes
    BY <1>r, <2>2 DEF Position
  <2>n. /\ heap[route].current \in Nat /\ Size(heap[route]) \in 0 .. 15
        /\ heap[route].last \in Int /\ -1 <= heap[route].last /\ heap[route].last < Size(heap[route])
    BY <1>o, <2>5
  <2>6. Comes("advance")' /\ ~Comes("next_step")'
    <3>1. TcrtFits(todo["tcrt"]) /\ todo["tcrt"] # <<>> /\ Head(todo["tcrt"]).st = "next_step"
          /\ todo \in [Thread -> Seq(AnyStmt)] /\ "tcrt" \in Thread
      BY <2>2 DEF Programs, Comes, Thread, Sensor
    <3>2. todo'["tcrt"] = Perform(next_step(heap[route])) \o Tail(todo["tcrt"])
      BY <1>1, <3>1 DEF NextStep
    <3>3. todo'["tcrt"] # <<>> /\ Head(todo'["tcrt"]).st = "advance"
      BY <3>1, <3>2, NextStepFits
    <3> QED BY <3>3 DEF Comes
  <2>7. /\ heap' \in [1 .. MaxRoutes -> RouteRec]
        /\ heap'[route] = [heap[route] EXCEPT !.last = heap[route].current]
        /\ \A i \in 1 .. MaxRoutes : i # route => heap'[i] = heap[i]
    <3>1. [heap[route] EXCEPT !.last = heap[route].current] \in RouteRec
      BY <1>r, <1>o, <2>5 DEF RouteRec
    <3> QED BY <1>r, <2>4, <2>5, <3>1
  <2>8. /\ heap'[route].mem = "live" /\ heap'[route].steps = heap[route].steps
        /\ heap'[route].current = heap[route].current /\ heap'[route].last = heap[route].current
        /\ Size(heap'[route]) = Size(heap[route])
    BY <1>r, <2>2, <2>5, <2>7 DEF RouteRec, Size
  <2>9. \A i \in 1 .. MaxRoutes : RouteOK(heap[i])'
    <3>1. heap'[route] \in RouteRec BY <2>5, <2>7
    <3>2. /\ heap[route].current <= Size(heap[route]) /\ -1 <= heap[route].current
          /\ heap[route].current < Size(heap[route]) /\ Size(heap[route]) <= 15
      BY <2>n, <2>5
    <3>3. RouteOK(heap'[route])
      BY <2>8, <3>1, <3>2 DEF RouteOK
    <3> QED BY <1>r, <2>7, <3>3
  <2>10. got' \in 0 .. 14
    BY <2>n, <2>4, <2>5
  <2>11. Routes'
    <3>1. my_route' # 0 => heap'[my_route'].mem # "unused"
      BY <1>r, <2>4, <2>7, <2>8
    <3>2. route' # 0 => heap'[route'].mem # "unused"
      BY <2>4, <2>8
    <3>3. \A i \in 1 .. MaxRoutes : RouteOK(heap'[i])
      BY <2>9
    <3> QED BY <1>r, <2>4, <2>7, <2>10, <3>1, <3>2, <3>3 DEF Routes
  <2>12. \A i \in 1 .. MaxRoutes :
           heap'[i].mem = "live" =>
             \/ heap'[i].current \in {0, heap'[i].last + 1}
             \/ Comes("advance")' /\ route' = i /\ heap'[i].current = heap'[i].last
    BY <2>3, <2>4, <2>6, <2>7, <2>8 DEF Position
  <2> QED BY <2>2, <2>4, <2>6, <2>8, <2>11, <2>12 DEF Position
<1>2. CASE AdvanceRoute
  <2>1. At("tcrt", "advance") /\ Valid("tcrt")
    BY <1>2 DEF AdvanceRoute
  <2>2. Comes("advance") /\ route # 0 /\ heap[route].mem = "live"
    BY <2>1, Live
  <2>3. got = heap[route].last /\ route \in 1 .. MaxRoutes
    BY <1>r, <2>2 DEF Position
  <2>4. /\ got' = 0 /\ my_route' = my_route /\ route' = route
        /\ heap' = [heap EXCEPT ![route] = [heap[route] EXCEPT !.current = got + 1]]
    BY <1>2 DEF AdvanceRoute, Advanced
  <2>n. /\ heap[route].current \in Nat /\ Size(heap[route]) \in 0 .. 15
        /\ heap[route].last \in Int /\ -1 <= heap[route].last /\ heap[route].last < Size(heap[route])
    BY <1>o, <2>3
  <2>5. ~Comes("advance")' /\ ~Comes("next_step")'
    <3>1. TcrtFits(todo["tcrt"]) /\ todo["tcrt"] # <<>> /\ Head(todo["tcrt"]).st = "advance"
          /\ todo \in [Thread -> Seq(AnyStmt)] /\ "tcrt" \in Thread
      BY <2>2 DEF Programs, Comes, Thread, Sensor
    <3>2. todo'["tcrt"] = Tail(todo["tcrt"])
      BY <1>2, <3>1 DEF AdvanceRoute, Advance
    <3>3. Tail(todo["tcrt"]) # <<>> => Head(Tail(todo["tcrt"])).st \notin {"advance", "next_step"}
      BY <3>1, TcrtTail
    <3> QED BY <3>2, <3>3 DEF Comes
  <2>7. /\ heap' \in [1 .. MaxRoutes -> RouteRec]
        /\ heap'[route] = [heap[route] EXCEPT !.current = got + 1]
        /\ \A i \in 1 .. MaxRoutes : i # route => heap'[i] = heap[i]
    <3>1. [heap[route] EXCEPT !.current = got + 1] \in RouteRec
      <4>1. heap[route] \in RouteRec /\ got + 1 \in Nat
        BY <1>r, <1>o, <2>3
      <4>2. \A r \in RouteRec, n \in Nat : [r EXCEPT !.current = n] \in RouteRec
        BY DEF RouteRec
      <4> QED BY <4>1, <4>2
    <3> QED BY <1>r, <2>3, <2>4, <3>1
  <2>8. /\ heap'[route].mem = "live" /\ heap'[route].steps = heap[route].steps
        /\ heap'[route].current = got + 1 /\ heap'[route].last = heap[route].last
        /\ Size(heap'[route]) = Size(heap[route])
    BY <1>r, <2>2, <2>3, <2>7 DEF RouteRec, Size
  <2>9. \A i \in 1 .. MaxRoutes : RouteOK(heap[i])'
    <3>1. heap'[route] \in RouteRec BY <2>3, <2>7
    <3>2. got + 1 <= Size(heap[route]) /\ Size(heap[route]) <= 15
      <4>1. /\ heap[route].last + 1 <= Size(heap[route]) /\ Size(heap[route]) <= 15
        BY <2>n
      <4> QED BY <2>3, <4>1
    <3>3. RouteOK(heap'[route])
      BY <2>n, <2>8, <3>1, <3>2 DEF RouteOK
    <3> QED BY <1>r, <2>7, <3>3
  <2>11. Routes'
    <3>1. my_route' # 0 => heap'[my_route'].mem # "unused"
      BY <1>r, <2>4, <2>7, <2>8
    <3>2. route' # 0 => heap'[route'].mem # "unused"
      BY <2>4, <2>8
    <3>3. \A i \in 1 .. MaxRoutes : RouteOK(heap'[i])
      BY <2>9
    <3> QED BY <1>r, <2>4, <2>7, <3>1, <3>2, <3>3 DEF Routes
  <2>12. \A i \in 1 .. MaxRoutes :
           heap'[i].mem = "live" =>
             \/ heap'[i].current \in {0, heap'[i].last + 1}
             \/ Comes("advance")' /\ route' = i /\ heap'[i].current = heap'[i].last
    BY <2>3, <2>7, <2>8 DEF Position
  <2> QED BY <2>5, <2>11, <2>12 DEF Position
<1>3. CASE ~NextStep /\ ~AdvanceRoute
  <2>1. /\ got' = got
        /\ heap' = [i \in 1 .. MaxRoutes |-> heap'[i]]
        /\ \A i \in 1 .. MaxRoutes : Reworks(heap[i], heap'[i])
        /\ my_route' \in 0 .. MaxRoutes
        /\ my_route' = my_route \/ my_route' = 0 \/ heap'[my_route'].mem # "unused"
    BY <1>3, HeapStep
  <2>2. \A i \in 1 .. MaxRoutes :
          /\ RouteOK(heap'[i])
          /\ heap[i].mem # "unused" => heap'[i].mem # "unused"
          /\ heap'[i].mem = "live" /\ heap[i].mem # "unused" =>
               /\ heap[i].mem = "live" /\ Size(heap'[i]) = Size(heap[i])
               /\ heap'[i].last = heap[i].last /\ heap'[i].current \in {0, heap[i].current}
          /\ heap'[i].mem = "live" /\ heap[i].mem = "unused" => heap'[i].current = 0
    BY <1>r, <2>1, Reworked DEF Size
  <2>3. \/ todo'["tcrt"] = todo["tcrt"] /\ route' = route
        \/ /\ ~Comes("advance") /\ ~Comes("advance")' /\ ~Comes("next_step")'
           /\ route' \in {route, my_route, 0}
        \/ /\ ~Comes("advance") /\ ~Comes("advance")'
           /\ route' = route /\ route # 0 /\ has_next(heap[route]) /\ heap' = heap
    BY <1>3, TcrtStepKinds
  <2>4. Routes'
    <3>1. heap' \in [1 .. MaxRoutes -> RouteRec]
      BY <2>1, <2>2 DEF RouteOK
    <3>2. route' \in {route, my_route, 0}
      BY <2>3
    <3>3. route' \in 0 .. MaxRoutes /\ (route' # 0 => heap'[route'].mem # "unused")
      BY <1>r, <2>2, <3>2
    <3>4. my_route' # 0 => heap'[my_route'].mem # "unused"
      BY <1>r, <2>1, <2>2
    <3> QED BY <1>r, <2>1, <2>2, <3>1, <3>3, <3>4 DEF Routes
  <2>5. CASE todo'["tcrt"] = todo["tcrt"] /\ route' = route
    <3>1. (Comes("advance")' <=> Comes("advance")) /\ (Comes("next_step")' <=> Comes("next_step"))
      BY <2>5 DEF Comes
    <3>2. Comes("next_step") \/ Comes("advance") => route \in 1 .. MaxRoutes /\ heap[route].mem # "unused"
      BY <1>r DEF Position
    <3>3. Comes("next_step") /\ heap'[route].mem = "live" => heap'[route].current < Size(heap'[route])
      <4>1. SUFFICES ASSUME Comes("next_step"), heap'[route].mem = "live"
            PROVE  heap'[route].current < Size(heap'[route])
        OBVIOUS
      <4>2. /\ heap[route].mem = "live" /\ Size(heap'[route]) = Size(heap[route])
            /\ heap'[route].current \in {0, heap[route].current} /\ route \in 1 .. MaxRoutes
        BY <2>2, <3>2, <4>1
      <4>3. heap[route].current < Size(heap[route])
        BY <4>1, <4>2 DEF Position
      <4>4. heap[route].current \in Nat
        BY <1>o, <4>2
      <4>5. Size(heap[route]) \in Int
        <5>1. Size(heap[route]) \in 0 .. 15 BY <1>o, <4>2
        <5> QED BY <5>1
      <4>6. \A c \in Nat, n \in Int : c < n => 0 < n
        OBVIOUS
      <4>7. 0 < Size(heap[route])
        BY <4>3, <4>4, <4>5, <4>6
      <4> QED BY <4>2, <4>3, <4>7
    <3>4. Comes("advance") /\ heap'[route].mem = "live" => got = heap'[route].last
      BY <2>2, <3>2 DEF Position
    <3>5. ASSUME NEW i \in 1 .. MaxRoutes, heap'[i].mem = "live"
          PROVE  \/ heap'[i].current \in {0, heap'[i].last + 1}
                 \/ Comes("advance") /\ route = i /\ heap'[i].current = heap'[i].last
      BY <2>2, <3>5 DEF Position
    <3> QED BY <2>1, <2>5, <3>1, <3>2, <3>3, <3>4, <3>5, <2>4 DEF Position
  <2>6. CASE ~Comes("advance") /\ ~Comes("advance")' /\ ~Comes("next_step")'
    <3>1. ASSUME NEW i \in 1 .. MaxRoutes, heap'[i].mem = "live"
          PROVE  heap'[i].current \in {0, heap'[i].last + 1}
      BY <2>2, <2>6, <3>1 DEF Position
    <3> QED BY <2>4, <2>6, <3>1 DEF Position
  <2>7. CASE /\ ~Comes("advance") /\ ~Comes("advance")'
             /\ route' = route /\ route # 0 /\ has_next(heap[route]) /\ heap' = heap
    <3>1. ASSUME NEW i \in 1 .. MaxRoutes, heap'[i].mem = "live"
          PROVE  heap'[i].current \in {0, heap'[i].last + 1}
      BY <2>2, <2>7, <3>1 DEF Position
    <3> QED BY <2>4, <2>7, <3>1 DEF Position, has_next, Size
  <2> QED BY <2>3, <2>4, <2>5, <2>6, <2>7
<1> QED BY <1>1, <1>2, <1>3

(* At the beginning there is no route. *)
LEMMA InitRoutes == Init => Routes /\ Position
<1> SUFFICES ASSUME Init PROVE Routes /\ Position
  OBVIOUS
<1>1. /\ heap = [i \in 1 .. MaxRoutes |-> Unused] /\ my_route = 0 /\ route = 0 /\ got = 0
      /\ todo["tcrt"] = <<>> /\ MaxRoutes \in Nat
  BY BoundAssumption DEF Init, Thread, Sensor
<1>2. RouteOK(Unused) /\ Unused \in RouteRec
  <2>1. <<>> \in Seq(Action) /\ Len(<<>>) = 0
    OBVIOUS
  <2> QED BY <2>1 DEF RouteOK, RouteRec, Size, Unused, Mem
<1>3. \A i \in 1 .. MaxRoutes : heap[i] = Unused
  BY <1>1
<1>4. Routes
  BY <1>1, <1>2, <1>3 DEF Routes
<1>5. ~Comes("next_step") /\ ~Comes("advance")
  BY <1>1 DEF Comes
<1>6. Unused.mem # "live"
  BY DEF Unused
<1> QED BY <1>3, <1>4, <1>5, <1>6 DEF Position

-----------------------------------------------------------------------------
(* While main is in shutdown_system, its next statement says how far it is. *)
LEMMA MainIs ==
  ASSUME Programs, life = "shutdown", NEW st, At("main", st)
  PROVE  /\ Left \in 1 .. 9
         /\ st \in {"stop_flag", "join", "stop", "free", "loop_stop", "destroy", "null", "return"}
         /\ st = "stop" <=> Left = 6
         /\ st = "free" <=> Left = 5
         /\ st = "loop_stop" <=> Left = 4
         /\ st = "destroy" <=> Left = 3
         /\ st = "return" <=> Left = 1
         /\ Left = 8 => st = "join" /\ Value("main") = "tcrt"
         /\ Left = 7 => st = "join" /\ Value("main") = "hcsr"
<1>1. /\ Left \in 1 .. 9
      /\ st = CASE Left = 9 -> "stop_flag" [] Left = 8 -> "join" [] Left = 7 -> "join"
                [] Left = 6 -> "stop" [] Left = 5 -> "free" [] Left = 4 -> "loop_stop"
                [] Left = 3 -> "destroy" [] Left = 2 -> "null" [] Left = 1 -> "return"
      /\ Left = 8 => Value("main") = "tcrt"
      /\ Left = 7 => Value("main") = "hcsr"
  BY MainAt
<1>2. Left \in {1, 2, 3, 4, 5, 6, 7, 8, 9}
  BY <1>1
<1>3. <<st, Left>> \in {<<"stop_flag", 9>>, <<"join", 8>>, <<"join", 7>>, <<"stop", 6>>, <<"free", 5>>,
                      <<"loop_stop", 4>>, <<"destroy", 3>>, <<"null", 2>>, <<"return", 1>>}
  BY <1>1, <1>2
<1> HIDE DEF Left
<1>4. st \in {"stop_flag", "join", "stop", "free", "loop_stop", "destroy", "null", "return"}
  BY <1>3
<1>5. /\ st = "stop" <=> Left = 6
      /\ st = "free" <=> Left = 5
      /\ st = "loop_stop" <=> Left = 4
      /\ st = "destroy" <=> Left = 3
      /\ st = "return" <=> Left = 1
  BY <1>3
<1>6. (Left = 8 => st = "join") /\ (Left = 7 => st = "join")
  BY <1>3
<1> QED BY <1>1, <1>4, <1>5, <1>6

(* What a step does to the end of the program. *)
LEMMA EndSteps ==
  ASSUME Programs, Simple, life = "shutdown", [Next]_vars
  PROVE  \/ /\ todo'["main"] = todo["main"] /\ life' = life /\ subscribed' = subscribed
            /\ client' = client /\ ~free_route("main")
            /\ \A t \in Sensor : alive'[t] = alive[t] \/ alive'[t] # "on"
            /\ ~subscribed /\ todo["mqtt"] = <<>> => todo'["mqtt"] = <<>>
         \/ /\ Left \in 1 .. 9 /\ todo'["main"] = Tail(todo["main"]) /\ alive' = alive
            /\ life' = life \/ life' = "exited"
            /\ turning' = turning \/ turning' = FALSE
            /\ Left = 8 => alive["tcrt"] # "on"
            /\ Left = 7 => alive["hcsr"] # "on"
            /\ Left = 6 => turning' = FALSE \/ ~opened
            /\ Left = 4 => subscribed' = FALSE /\ todo'["mqtt"] = <<>>
            /\ Left # 4 => subscribed' = subscribed /\ todo'["mqtt"] = todo["mqtt"]
            /\ client' = client \/ client' # "close" \/ Left = 3
            /\ free_route("main") => Left = 5
<1> USE DEF control, flags, motors, routes, mqtt
<1>t. /\ "main" \in Thread /\ "mqtt" \in Thread /\ "tcrt" \in Thread /\ "hcsr" \in Thread
      /\ todo \in [Thread -> Seq(AnyStmt)] /\ alive \in [Sensor -> {"none", "on", "done"}]
      /\ "tcrt" \in Sensor /\ "hcsr" \in Sensor
  BY DEF Thread, Sensor, Programs, Simple
<1>0. life # "loop" /\ life # "exited"
  OBVIOUS
<1> DEFINE Away == /\ todo'["main"] = todo["main"] /\ life' = life /\ subscribed' = subscribed
                   /\ client' = client /\ ~free_route("main")
                   /\ \A t \in Sensor : alive'[t] = alive[t] \/ alive'[t] # "on"
                   /\ ~subscribed /\ todo["mqtt"] = <<>> => todo'["mqtt"] = <<>>
<1>a. ASSUME todo'["main"] = todo["main"], NEW u, At("main", "free") PROVE ~free_route("main")
  <2>1. todo["main"] # <<>> /\ todo["main"] \in Seq(AnyStmt)
    BY <1>t, <1>a DEF At
  <2>2. Tail(todo["main"]) # todo["main"]
    <3>1. Len(Tail(todo["main"])) = Len(todo["main"]) - 1 /\ Len(todo["main"]) \in Nat
      BY <2>1, TailOf
    <3>2. \A n \in Nat : n - 1 # n OBVIOUS
    <3> QED BY <3>1, <3>2
  <2> QED BY <1>t, <1>a, <2>2 DEF free_route, Advance
<1>f. todo'["main"] = todo["main"] => ~free_route("main")
  BY <1>a DEF free_route
<1>1. ASSUME NEW t \in {"mqtt", "tcrt", "hcsr"}, Shared(t) PROVE Away
  <2>1. CASE Misuse(t)
    BY <1>f, <2>1 DEF Misuse
  <2>2. CASE ~Misuse(t)
    <3>1. todo[t] # <<>> /\ Advance(t)
      BY <1>1, <2>2 DEF Shared, Stop, Drive, Assign, mqtt_publish, Reset, free_route, Look, At
    <3>2. life' = life /\ subscribed' = subscribed /\ client' = client /\ alive' = alive
      BY <1>1, <2>2 DEF Shared, Stop, Drive, Assign, mqtt_publish, Reset, free_route, Look
    <3>3. todo'["main"] = todo["main"] /\ (todo["mqtt"] = <<>> => todo'["mqtt"] = <<>>)
      BY <1>t, <1>1, <3>1 DEF Advance
    <3> QED BY <1>f, <3>2, <3>3
  <2> QED BY <2>1, <2>2
<1>2. ASSUME CreateRoute \/ CallHandleNode \/ AdvanceRoute PROVE Away
  <2>1. todo'["main"] = todo["main"] /\ (todo["mqtt"] = <<>> => todo'["mqtt"] = <<>>)
    BY <1>t, <1>2 DEF CreateRoute, CallHandleNode, AdvanceRoute, At, Advance
  <2>2. life' = life /\ subscribed' = subscribed /\ client' = client /\ alive' = alive
    BY <1>2 DEF CreateRoute, CallHandleNode, AdvanceRoute
  <2> QED BY <1>f, <2>1, <2>2
<1>3. ASSUME \/ HasNext \/ NextStep \/ TcrtReads \/ HcsrReads
             \/ (\E t \in Sensor : ThreadEnds(t)) \/ UNCHANGED vars
      PROVE  Away
  <2>1. todo'["main"] = todo["main"] /\ (todo["mqtt"] = <<>> => todo'["mqtt"] = <<>>)
    BY <1>t, <1>3 DEF HasNext, NextStep, TcrtReads, HcsrReads, ThreadEnds, vars, Advance
  <2>2. life' = life /\ subscribed' = subscribed /\ client' = client
    BY <1>3 DEF HasNext, NextStep, TcrtReads, HcsrReads, ThreadEnds, vars
  <2>3. alive' = alive \/ \E t \in Sensor : alive' = [alive EXCEPT ![t] = "done"]
    BY <1>3 DEF HasNext, NextStep, TcrtReads, HcsrReads, ThreadEnds, vars
  <2>4. \A t \in Sensor : alive'[t] = alive[t] \/ alive'[t] # "on"
    BY <1>t, <2>3
  <2> QED BY <1>f, <2>1, <2>2, <2>4
<1>4. ASSUME Message PROVE Away
  <2>1. subscribed /\ todo'["main"] = todo["main"]
    BY <1>t, <1>4 DEF Message
  <2>2. life' = life /\ subscribed' = subscribed /\ client' = client /\ alive' = alive
    BY <1>4 DEF Message
  <2> QED BY <1>f, <2>1, <2>2
<1>5. ~Command
  BY <1>0 DEF Command
<1>6. ~Open /\ ~CreateThread /\ ~MqttInit /\ ~MqttSubscribe
  <2>1. \A st : At("main", st) =>
          st \in {"stop_flag", "join", "stop", "free", "loop_stop", "destroy", "null", "return"}
    BY MainIs
  <2>2. /\ ~At("main", "open") /\ ~At("main", "create") /\ ~At("main", "mqtt_init")
        /\ ~At("main", "mqtt_subscribe")
    BY <2>1
  <2> QED BY <2>2 DEF Open, CreateThread, MqttInit, MqttSubscribe
<1>g. ASSUME todo["main"] # <<>>, Advance("main")
      PROVE  todo'["main"] = Tail(todo["main"]) /\ todo'["mqtt"] = todo["mqtt"]
  BY <1>t, <1>g DEF Advance
<1>7. ASSUME Shared("main"), ~Misuse("main")
      PROVE  /\ Left \in 1 .. 9 /\ todo'["main"] = Tail(todo["main"]) /\ alive' = alive
             /\ life' = life /\ (turning' = turning \/ turning' = FALSE)
             /\ Left \in {9, 6, 5}
             /\ Left = 6 => turning' = FALSE \/ ~opened
             /\ subscribed' = subscribed /\ todo'["mqtt"] = todo["mqtt"]
             /\ client' = client
             /\ free_route("main") => Left = 5
  <2>1. Stop("main") \/ Assign("main") \/ free_route("main")
    BY <1>7, MainIs DEF Shared, Drive, mqtt_publish, Reset, Look
  <2>2. todo'["main"] = Tail(todo["main"]) /\ todo'["mqtt"] = todo["mqtt"]
    BY <1>g, <2>1 DEF Stop, Assign, free_route, At
  <2>3. alive' = alive /\ life' = life /\ subscribed' = subscribed /\ client' = client
    BY <2>1 DEF Stop, Assign, free_route
  <2>4. turning' = turning \/ turning' = FALSE
    BY <2>1 DEF Stop, Assign, free_route
  <2>5. free_route("main") => Left = 5
    BY MainIs DEF free_route
  <2>6. Stop("main") => Left = 6 /\ (turning' = FALSE \/ ~opened)
    BY MainIs DEF Stop
  <2>7. Assign("main") => Left = 9
    <3>1. Assign("main") => At("main", "stop_flag")
      BY MainIs DEF Assign
    <3>2. At("main", "stop_flag") => Left = 9
      <4> SUFFICES ASSUME At("main", "stop_flag") PROVE Left = 9
        OBVIOUS
      <4>1. /\ Left \in 1 .. 9
            /\ "stop_flag" = CASE Left = 9 -> "stop_flag" [] Left = 8 -> "join" [] Left = 7 -> "join"
                      [] Left = 6 -> "stop" [] Left = 5 -> "free" [] Left = 4 -> "loop_stop"
                      [] Left = 3 -> "destroy" [] Left = 2 -> "null" [] Left = 1 -> "return"
        BY MainAt
      <4>2. Left \in {1, 2, 3, 4, 5, 6, 7, 8, 9}
        BY <4>1
      <4> QED BY <4>1, <4>2
    <3> QED BY <3>1, <3>2
  <2>8. Left \in {9, 6, 5}
    BY <2>1, <2>5, <2>6, <2>7
  <2>9. Left = 6 => turning' = FALSE \/ ~opened
    BY <2>1, <2>5, <2>6, <2>7
  <2> QED BY <2>2, <2>3, <2>4, <2>5, <2>8, <2>9
<1>8. ASSUME Misuse("main") PROVE Away
  BY <1>f, <1>8 DEF Misuse
<1>9. ASSUME JoinThread \/ Destroy \/ Return \/ LoopStop
      PROVE  /\ Left \in 1 .. 9 /\ todo'["main"] = Tail(todo["main"]) /\ alive' = alive
             /\ life' = life \/ life' = "exited"
             /\ turning' = turning \/ turning' = FALSE
             /\ Left = 8 => alive["tcrt"] # "on"
             /\ Left = 7 => alive["hcsr"] # "on"
             /\ Left \notin {6, 5}
             /\ Left = 4 => subscribed' = FALSE /\ todo'["mqtt"] = <<>>
             /\ Left # 4 => subscribed' = subscribed /\ todo'["mqtt"] = todo["mqtt"]
             /\ client' = client \/ client' # "close" \/ Left = 3
             /\ ~free_route("main")
  <2>1. \E st \in {"join", "destroy", "null", "return", "loop_stop"} : At("main", st)
    BY <1>9 DEF JoinThread, Destroy, Return, LoopStop
  <2>2. Left \in 1 .. 9 /\ Left \notin {6, 5} /\ ~At("main", "free")
    BY <2>1, MainIs
  <2>3. alive' = alive /\ (life' = life \/ life' = "exited") /\ (turning' = turning \/ turning' = FALSE)
    BY <1>9 DEF JoinThread, Destroy, Return, LoopStop, Exits
  <2>4. LoopStop <=> Left = 4
    BY <1>9, MainIs DEF JoinThread, Destroy, Return, LoopStop
  <2>5. (Left = 8 => alive["tcrt"] # "on") /\ (Left = 7 => alive["hcsr"] # "on")
    BY <1>9, MainIs DEF JoinThread, Destroy, Return, LoopStop
  <2>6. client' = client \/ client' # "close" \/ Left = 3
    BY <1>9, MainIs DEF JoinThread, Destroy, Return, LoopStop
  <2>7. CASE LoopStop
    BY <1>t, <2>2, <2>3, <2>4, <2>5, <2>6, <2>7 DEF LoopStop, free_route
  <2>8. CASE ~LoopStop
    <3>1. todo["main"] # <<>> /\ Advance("main") /\ subscribed' = subscribed
      BY <1>9, <2>8 DEF JoinThread, Destroy, Return, At
    <3> QED BY <1>g, <2>2, <2>3, <2>4, <2>5, <2>6, <2>8, <3>1 DEF free_route
  <2> QED BY <2>7, <2>8
<1> DEFINE Moves == /\ Left \in 1 .. 9 /\ todo'["main"] = Tail(todo["main"]) /\ alive' = alive
                    /\ life' = life \/ life' = "exited"
                    /\ turning' = turning \/ turning' = FALSE
                    /\ Left = 8 => alive["tcrt"] # "on"
                    /\ Left = 7 => alive["hcsr"] # "on"
                    /\ Left = 6 => turning' = FALSE \/ ~opened
                    /\ Left = 4 => subscribed' = FALSE /\ todo'["mqtt"] = <<>>
                    /\ Left # 4 => subscribed' = subscribed /\ todo'["mqtt"] = todo["mqtt"]
                    /\ client' = client \/ client' # "close" \/ Left = 3
                    /\ free_route("main") => Left = 5
<1>10. Shared("main") => Away \/ Moves
  <2>1. ASSUME Shared("main"), ~Misuse("main") PROVE Moves
    <3>1. Left \in {9, 6, 5} BY <1>7, <2>1
    <3>2. Left # 8 /\ Left # 7 /\ Left # 4 BY <3>1
    <3> QED BY <1>7, <2>1, <3>2
  <2> QED BY <1>8, <2>1
<1>11. JoinThread \/ Destroy \/ Return \/ LoopStop => Moves
  BY <1>9
<1>12. CreateRoute \/ CallHandleNode \/ AdvanceRoute => Away
  BY <1>2
<1>13. /\ HasNext \/ NextStep \/ TcrtReads \/ HcsrReads => Away
       /\ (\E t \in Sensor : ThreadEnds(t)) \/ UNCHANGED vars => Away
  BY <1>3
<1>14. Message => Away
  BY <1>4
<1> HIDE DEF Away, Moves
<1>15. Away \/ Moves
  BY <1>1, <1>5, <1>6, <1>10, <1>11, <1>12, <1>13, <1>14
     DEF Next, MainStep, MqttStep, TcrtStep, HcsrStep, Sensor
<1> QED BY <1>15 DEF Away, Moves

(* A sensor thread that has ended, or has not begun, does nothing. *)
LEMMA StepQuiet == Programs /\ Simple /\ Quiet /\ [Next]_vars => Quiet'
<1> SUFFICES ASSUME Programs, Simple, Quiet, [Next]_vars, NEW s \in Sensor, alive'[s] # "on"
             PROVE  todo'[s] = <<>>
  BY DEF Quiet
<1> USE DEF control, flags, motors, routes, mqtt
<1>t. /\ "main" \in Thread /\ "mqtt" \in Thread /\ "tcrt" \in Thread /\ "hcsr" \in Thread
      /\ todo \in [Thread -> Seq(AnyStmt)] /\ alive \in [Sensor -> {"none", "on", "done"}]
      /\ s \in Thread /\ s # "main" /\ s # "mqtt"
  BY DEF Thread, Sensor, Programs, Simple
<1>q. alive[s] # "on" => todo[s] = <<>>
  BY DEF Quiet
<1>1. ASSUME NEW t \in Thread, Shared(t) PROVE todo'[s] = <<>>
  <2>1. CASE Misuse(t)
    BY <1>q, <2>1 DEF Misuse
  <2>2. CASE ~Misuse(t)
    <3>1. todo[t] # <<>> /\ Advance(t)
      BY <1>1, <2>2 DEF Shared, Stop, Drive, Assign, mqtt_publish, Reset, free_route, Look, At
    <3>2. alive' = alive
      BY <1>1, <2>2 DEF Shared, Stop, Drive, Assign, mqtt_publish, Reset, free_route, Look
    <3> QED BY <1>t, <1>q, <3>1, <3>2 DEF Advance
  <2> QED BY <2>1, <2>2
<1>2. CASE CreateRoute \/ CallHandleNode \/ AdvanceRoute \/ HasNext \/ NextStep \/ TcrtReads \/ HcsrReads
  <2>1. alive' = alive
    BY <1>2 DEF CreateRoute, CallHandleNode, AdvanceRoute, HasNext, NextStep, TcrtReads, HcsrReads
  <2>2. todo[s] = <<>>
    BY <1>q, <2>1
  <2>3. s = "tcrt" => ~CallHandleNode /\ ~AdvanceRoute /\ ~HasNext /\ ~NextStep /\ ~TcrtReads
    BY <2>1, <2>2 DEF CallHandleNode, AdvanceRoute, HasNext, NextStep, TcrtReads, At
  <2>4. s = "hcsr" => ~HcsrReads
    BY <2>1 DEF HcsrReads
  <2>5. s = "tcrt" \/ s = "hcsr"
    BY DEF Sensor
  <2>6. CASE CreateRoute
    BY <1>t, <2>2, <2>6 DEF CreateRoute, Advance
  <2>7. CASE s = "hcsr" /\ (CallHandleNode \/ AdvanceRoute \/ HasNext \/ NextStep \/ TcrtReads)
    BY <1>t, <2>2, <2>7 DEF CallHandleNode, AdvanceRoute, HasNext, NextStep, TcrtReads, Advance
  <2>8. CASE s = "tcrt" /\ HcsrReads
    BY <1>t, <2>2, <2>8 DEF HcsrReads
  <2> QED BY <1>2, <2>3, <2>4, <2>5, <2>6, <2>7, <2>8
<1>3. ASSUME NEW t \in Sensor, ThreadEnds(t) PROVE todo'[s] = <<>>
  <2>1. todo[t] = <<>> /\ todo' = todo /\ alive' = [alive EXCEPT ![t] = "done"]
    BY <1>3 DEF ThreadEnds, Idle
  <2> QED BY <1>t, <1>q, <2>1
<1>4. CASE CreateThread
  <2>1. alive[s] # "on"
    BY <1>t, <1>4 DEF CreateThread
  <2>2. todo'[s] = todo[s]
    BY <1>t, <1>4 DEF CreateThread, Advance
  <2> QED BY <1>q, <2>1, <2>2
<1>5. CASE \/ Open \/ MqttInit \/ MqttSubscribe \/ JoinThread \/ LoopStop \/ Destroy \/ Return
           \/ Command \/ Message \/ UNCHANGED vars
  <2>1. alive' = alive
    BY <1>5 DEF Open, MqttInit, MqttSubscribe, JoinThread, LoopStop, Destroy, Return, Command, Message, vars
  <2>2. todo'[s] = todo[s]
    BY <1>t, <1>5 DEF Open, MqttInit, MqttSubscribe, JoinThread, LoopStop, Destroy, Return, Command, Message,
       vars, Advance
  <2> QED BY <1>q, <2>1, <2>2
<1> QED BY <1>t, <1>1, <1>2, <1>3, <1>4, <1>5 DEF Next, MainStep, MqttStep, TcrtStep, HcsrStep, Sensor

(* Only the tcrt thread sets the motors going. *)
LEMMA OnlyTcrtDrives ==
  ASSUME Programs, NEW t \in Thread, Drive(t)
  PROVE  t = "tcrt"
<1>1. todo[t] # <<>> /\ Head(todo[t]).st = "drive"
  BY DEF Drive, At
<1>2. t # "tcrt" => Head(todo[t]) \in MainStmt \cup MqttStmt \cup HcsrStmt
  BY <1>1, HeadFits DEF Programs, Thread, Sensor
<1>3. \A x \in MainStmt \cup MqttStmt \cup HcsrStmt : x.st # "drive"
  BY DEF MainStmt, EarlyStmt, MqttStmt, HcsrStmt, Stmts
<1> QED BY <1>1, <1>2, <1>3

(* Where main is on its way out, before and after a step. *)
LEMMA LeftMoves ==
  ASSUME Programs, todo["main"] # <<>>, todo'["main"] = Tail(todo["main"])
  PROVE  Left \in Nat \ {0} /\ Left' = Left - 1
<1>1. todo["main"] \in Seq(AnyStmt)
  BY DEF Programs, Thread, Sensor
<1> QED BY <1>1, TailOf DEF Left

(* Each statement of shutdown_system finds the threads as the one before it *)
(* has left them, whatever the remaining ones do meanwhile.                 *)
LEMMA StepShutdown == Programs /\ Simple /\ Routes /\ Shutdown /\ [Next]_vars => Shutdown'
<1> SUFFICES ASSUME Programs, Simple, Routes, Shutdown, [Next]_vars PROVE Shutdown'
  OBVIOUS
<1> USE DEF control, flags, motors, routes, mqtt
<1>s. Quiet /\ Powered /\ Ending /\ Freed /\ Closed
  BY DEF Shutdown
<1>t. "main" \in Thread /\ "tcrt" \in Thread /\ todo \in [Thread -> Seq(AnyStmt)]
      /\ "tcrt" \in Sensor /\ "hcsr" \in Sensor /\ alive \in [Sensor -> {"none", "on", "done"}]
  BY DEF Thread, Sensor, Programs, Simple
<1>q. Quiet'
  BY <1>s, StepQuiet
<1>p. Powered'
  <2>1. opened' = opened
    BY Changes
  <2>2. turning' = turning \/ turning' = FALSE \/ \E t \in Thread : Drive(t)
    BY Changes
  <2>3. \A t \in Thread : Drive(t) => turning' = (turning \/ opened)
    BY DEF Drive
  <2> QED BY <1>s, <2>1, <2>2, <2>3, Zenon DEF Powered
<1>m. \A i \in 1 .. MaxRoutes : heap'[i].mem = "shutdown" => heap[i].mem = "shutdown" \/ free_route("main")
  <2> SUFFICES ASSUME NEW i \in 1 .. MaxRoutes, heap'[i].mem = "shutdown", ~free_route("main")
               PROVE  heap[i].mem = "shutdown"
    OBVIOUS
  <2>1. heap \in [1 .. MaxRoutes -> RouteRec] /\ heap[i] \in RouteRec
    BY DEF Routes
  <2>2. \/ heap' = heap
        \/ (\E t \in Thread : Reset(t) \/ free_route(t)) \/ CreateRoute \/ NextStep \/ AdvanceRoute
    BY DEF Next, MainStep, MqttStep, TcrtStep, HcsrStep, Shared, Stop, Drive, Assign, mqtt_publish, Look,
       Misuse, Open, CreateThread, MqttInit, MqttSubscribe, JoinThread, LoopStop, Destroy, Return,
       CallHandleNode, HasNext, ThreadEnds, TcrtReads, HcsrReads, Command, Message, vars, Thread, Sensor
  <2>3. ASSUME NEW t \in Thread, Reset(t) PROVE heap[i].mem = "shutdown"
    BY <2>1, <2>3 DEF Reset, reset_route, RouteRec
  <2>4. ASSUME NEW t \in Thread, free_route(t) PROVE heap[i].mem = "shutdown"
    <3>1. t # "main" BY <2>4
    <3>2. heap' = heap \/ heap' = [heap EXCEPT ![my_route] = [Unused EXCEPT !.mem = "replaced"]]
      BY <2>4, <3>1 DEF free_route
    <3> QED BY <2>1, <3>2 DEF Unused
  <2>5. CASE CreateRoute
    BY <2>1, <2>5 DEF CreateRoute, RouteRec
  <2>6. CASE NextStep \/ AdvanceRoute
    <3>1. \E x : \/ heap' = [heap EXCEPT ![route] = [heap[route] EXCEPT !.last = x]]
                 \/ heap' = [heap EXCEPT ![route] = [heap[route] EXCEPT !.current = x]]
      BY <2>1, <2>6 DEF NextStep, AdvanceRoute
    <3>2. \E x : \/ heap'[i] = heap[i] \/ heap'[i] = [heap[i] EXCEPT !.last = x]
                 \/ heap'[i] = [heap[i] EXCEPT !.current = x]
      BY <2>1, <3>1
    <3> QED BY <2>1, <3>2 DEF RouteRec
  <2> QED BY <2>2, <2>3, <2>4, <2>5, <2>6
<1>1. CASE life = "shutdown"
  <2> DEFINE Away == /\ todo'["main"] = todo["main"] /\ life' = life /\ subscribed' = subscribed
                     /\ client' = client /\ ~free_route("main")
                     /\ \A t \in Sensor : alive'[t] = alive[t] \/ alive'[t] # "on"
                     /\ ~subscribed /\ todo["mqtt"] = <<>> => todo'["mqtt"] = <<>>
             Moves == /\ Left \in 1 .. 9 /\ todo'["main"] = Tail(todo["main"]) /\ alive' = alive
                      /\ life' = life \/ life' = "exited"
                      /\ turning' = turning \/ turning' = FALSE
                      /\ Left = 8 => alive["tcrt"] # "on"
                      /\ Left = 7 => alive["hcsr"] # "on"
                      /\ Left = 6 => turning' = FALSE \/ ~opened
                      /\ Left = 4 => subscribed' = FALSE /\ todo'["mqtt"] = <<>>
                      /\ Left # 4 => subscribed' = subscribed /\ todo'["mqtt"] = todo["mqtt"]
                      /\ client' = client \/ client' # "close" \/ Left = 3
                      /\ free_route("main") => Left = 5
  <2>1. Away \/ Moves
    BY <1>1, EndSteps
  <2>2. CASE Away
    <3>1. Left' = Left /\ life' = life
      BY <2>2 DEF Left
    <3>2. Left <= 5 => ~turning'
      <4>1. SUFFICES ASSUME Left <= 5 PROVE ~turning'
        OBVIOUS
      <4>2. Left <= 7 /\ ~turning /\ alive["tcrt"] # "on"
        <5>1. Left \in Nat BY <1>t DEF Left
        <5>2. Left <= 7 BY <4>1, <5>1
        <5> QED BY <1>s, <1>1, <4>1, <5>2 DEF Ending
      <4>3. todo["tcrt"] = <<>>
        BY <1>s, <1>t, <4>2 DEF Quiet
      <4>4. ~\E t \in Thread : Drive(t)
        BY <4>3, OnlyTcrtDrives DEF Drive, At
      <4> QED BY <4>2, <4>4, Changes
    <3>3. Ending'
      <4>1. Left <= 7 => alive'["tcrt"] # "on"
        BY <1>s, <1>t, <1>1, <2>2 DEF Ending
      <4>2. Left <= 6 => alive'["hcsr"] # "on"
        BY <1>s, <1>t, <1>1, <2>2 DEF Ending
      <4>3. Left <= 3 => ~subscribed' /\ todo'["mqtt"] = <<>>
        BY <1>s, <1>1, <2>2 DEF Ending
      <4> QED BY <3>1, <3>2, <4>1, <4>2, <4>3 DEF Ending
    <3>4. Freed'
      BY <1>s, <1>m, <2>2, <3>1 DEF Freed
    <3>5. Closed'
      BY <1>s, <2>2, <3>1 DEF Closed
    <3> QED BY <1>q, <1>p, <3>3, <3>4, <3>5 DEF Shutdown
  <2>3. CASE Moves
    <3>0. todo["main"] # <<>>
      <4>1. Len(<<>>) = 0 /\ Left # 0 BY <2>3
      <4> QED BY <4>1 DEF Left
    <3>1. Left \in 1 .. 9 /\ Left' = Left - 1
      BY <2>3, <3>0, LeftMoves
    <3>2. Left' <= 7 => alive'["tcrt"] # "on"
      <4>1. Left' <= 7 => Left = 8 \/ Left <= 7 BY <3>1
      <4> QED BY <1>s, <1>1, <2>3, <4>1 DEF Ending
    <3>3. Left' <= 6 => alive'["hcsr"] # "on"
      <4>1. Left' <= 6 => Left = 7 \/ Left <= 6 BY <3>1
      <4> QED BY <1>s, <1>1, <2>3, <4>1 DEF Ending
    <3>4. Left' <= 5 => ~turning'
      <4>1. Left' <= 5 => Left = 6 \/ Left <= 5 BY <3>1
      <4>2. Left = 6 => ~turning'
        BY <1>s, <2>3 DEF Powered
      <4> QED BY <1>s, <1>1, <2>3, <4>1, <4>2 DEF Ending
    <3>5. Left' <= 3 => ~subscribed' /\ todo'["mqtt"] = <<>>
      <4>1. Left' <= 3 => Left = 4 \/ (Left <= 3 /\ Left # 4) BY <3>1
      <4> QED BY <1>s, <1>1, <2>3, <4>1 DEF Ending
    <3>6. Ending'
      BY <3>2, <3>3, <3>4, <3>5 DEF Ending
    <3>7. Freed'
      <4>1. (Left <= 4 => Left' <= 4) /\ (Left = 5 => Left' <= 4) BY <3>1
      <4>2. life' \in {"shutdown", "exited"} BY <1>1, <2>3
      <4> QED BY <1>s, <1>m, <1>1, <2>3, <4>1, <4>2 DEF Freed
    <3>8. Closed'
      <4>1. (Left <= 2 => Left' <= 2) /\ (Left = 3 => Left' <= 2) BY <3>1
      <4>2. life' \in {"shutdown", "exited"} BY <1>1, <2>3
      <4> QED BY <1>s, <1>1, <2>3, <4>1, <4>2 DEF Closed
    <3> QED BY <1>q, <1>p, <3>6, <3>7, <3>8 DEF Shutdown
  <2> QED BY <2>1, <2>2, <2>3
<1>2. CASE life # "shutdown"
  <2>1. life' = "shutdown" => Left' = 9
    <3>1. SUFFICES ASSUME life' = "shutdown" PROVE Left' = 9
      OBVIOUS
    <3>2. Command
      BY <1>2, <3>1, Changes DEF MqttSubscribe
    <3>3. todo'["main"] = shutdown_system
      BY <1>t, <1>2, <3>1, <3>2 DEF Command
    <3> QED BY <3>3, ShutdownIs DEF Left
  <2>2. Ending'
    BY <2>1 DEF Ending
  <2>3. ~free_route("main") /\ (client' = client \/ client' # "close")
    <3>1. ASSUME free_route("main") \/ Destroy PROVE FALSE
      <4>1. \E st \in {"free", "destroy", "null"} : At("main", st)
        BY <3>1 DEF free_route, Destroy
      <4> QED BY <1>2, <4>1, MainAt
    <3>2. MqttInit => client' # "close"
      BY DEF MqttInit
    <3> QED BY <3>1, <3>2, Changes
  <2>4. CASE life = "exited"
    <3>1. UNCHANGED vars
      BY <2>4 DEF Next, MainStep, MqttStep, TcrtStep, HcsrStep, Shared, Stop, Drive, Assign, mqtt_publish, Reset,
         free_route, Look, Misuse, Open, CreateThread, MqttInit, MqttSubscribe, JoinThread, LoopStop, Destroy,
         Return, CreateRoute, CallHandleNode, HasNext, NextStep, AdvanceRoute, ThreadEnds, TcrtReads,
         HcsrReads, Command, Message, At, Idle, Running
    <3>2. Freed' /\ Closed'
      BY <1>s, <2>4, <3>1 DEF Freed, Closed, vars
    <3> QED BY <1>q, <1>p, <2>2, <3>2 DEF Shutdown
  <2>5. CASE life # "exited"
    <3>1. Freed' /\ Closed'
      BY <1>s, <1>m, <1>2, <2>3, <2>5 DEF Freed, Closed
    <3> QED BY <1>q, <1>p, <2>2, <3>1 DEF Shutdown
  <2> QED BY <2>4, <2>5
<1> QED BY <1>1, <1>2

-----------------------------------------------------------------------------
(* The inductive invariant.  Programs says which statements a thread may come  *)
(* to, and that main in shutdown_system is at the end of it; Shutdown which    *)
(* threads are left at each of its statements, and what they have left behind; *)
(* Routes and Position what the routes and the tcrt thread's copy of the       *)
(* position are between the two halves of next_step.                           *)
IInv == /\ Programs /\ Simple /\ Flags /\ Routes /\ Position /\ Shutdown
        /\ SensorsOutlived /\ ClientOutlivesUsers

(* What is misused is not what shutdown_system has taken away. *)
LEMMA StepFault ==
  Programs /\ Simple /\ Routes /\ Shutdown /\ SensorsOutlived /\ ClientOutlivesUsers /\ [Next]_vars
    => SensorsOutlived' /\ ClientOutlivesUsers'
<1> SUFFICES ASSUME Programs, Simple, Routes, Shutdown, SensorsOutlived, ClientOutlivesUsers, [Next]_vars
             PROVE  SensorsOutlived' /\ ClientOutlivesUsers'
  OBVIOUS
<1> USE DEF control, flags, motors, routes, mqtt
<1>s. Quiet /\ Ending /\ Freed /\ Closed
  BY DEF Shutdown
<1>1. fault' = fault \/ \E t \in Thread : Misuse(t)
  BY DEF Next, MainStep, MqttStep, TcrtStep, HcsrStep, Shared, Stop, Drive, Assign, mqtt_publish, Reset,
     free_route, Look, Open, CreateThread, MqttInit, MqttSubscribe, JoinThread, LoopStop, Destroy, Return,
     CreateRoute, CallHandleNode, HasNext, NextStep, AdvanceRoute, ThreadEnds, TcrtReads, HcsrReads,
     Command, Message, vars, Thread, Sensor
<1>2. ASSUME NEW t \in Thread, Misuse(t)
      PROVE  /\ fault'.cause # "close"
             /\ fault'.by \in Sensor => fault'.cause # "shutdown"
  <2> DEFINE st == Head(todo[t]).st
             r  == IF st \in InNode THEN route ELSE my_route
  <2>1. todo[t] # <<>> /\ life # "exited" /\ Running
    BY <1>2 DEF Misuse, Running
  <2>2. fault'.by = t /\ fault'.cause \in Invalid(t) \cup Wild
    BY <1>2 DEF Misuse
  <2>3. r \in 0 .. MaxRoutes /\ (r # 0 => r \in 1 .. MaxRoutes /\ heap[r].mem \in Mem)
    <3>1. r \in 0 .. MaxRoutes BY DEF Routes
    <3>2. r # 0 => r \in 1 .. MaxRoutes BY <3>1, BoundAssumption
    <3> QED BY <3>1, <3>2 DEF Routes, RouteRec
  <2>4. Invalid(t) = IF st \in ClientUses THEN {client} \cap {"init", "close"}
                     ELSE IF st \notin RouteUses \/ (r = 0 /\ st \in TestsNull) THEN {}
                     ELSE IF r = 0 THEN {"null"}
                     ELSE {heap[r].mem} \ {"live"}
    BY DEF Invalid
  <2> HIDE DEF r
  <2>5. ASSUME fault'.cause = "close" PROVE client = "close" /\ st \in ClientUses
    BY <2>2, <2>3, <2>4, <2>5 DEF Mem, Wild
  <2>6. ASSUME fault'.cause = "shutdown" PROVE \E i \in 1 .. MaxRoutes : heap[i].mem = "shutdown"
    BY <2>2, <2>3, <2>4, <2>6 DEF Wild
  <2>7. ASSUME life = "shutdown", Left <= 4, t \in Sensor PROVE FALSE
    <3>1. Left \in Nat BY DEF Left, Programs, Thread
    <3>2. Left <= 7 /\ Left <= 6 BY <2>7, <3>1
    <3>3. alive[t] # "on" BY <1>s, <2>7, <3>2 DEF Ending, Sensor
    <3> QED BY <1>s, <2>1, <2>7, <3>3 DEF Quiet
  <2>8. ASSUME t \in Sensor, fault'.cause = "shutdown" PROVE FALSE
    <3>1. life = "shutdown" /\ Left <= 4
      BY <1>s, <2>1, <2>6, <2>8 DEF Freed
    <3> QED BY <2>7, <2>8, <3>1
  <2>9. ASSUME fault'.cause = "close" PROVE FALSE
    <3>1. life = "shutdown" /\ Left <= 2 /\ st \in ClientUses
      BY <1>s, <2>1, <2>5, <2>9 DEF Closed
    <3>2. Left \in Nat BY DEF Left, Programs, Thread
    <3>3. Left <= 3 /\ Left <= 4 /\ Left # 4 BY <3>1, <3>2
    <3>4. t \notin Sensor BY <2>7, <3>1, <3>3
    <3>5. t # "mqtt" BY <1>s, <2>1, <3>1, <3>3 DEF Ending
    <3>6. t = "main" BY <3>4, <3>5 DEF Thread
    <3>7. At("main", st) BY <2>1, <3>6 DEF At
    <3>8. /\ st \in {"stop_flag", "join", "stop", "free", "loop_stop", "destroy", "null", "return"}
          /\ st # "loop_stop"
      BY <3>1, <3>3, <3>7, MainIs
    <3> QED BY <3>1, <3>8 DEF ClientUses
  <2> QED BY <2>2, <2>8, <2>9
<1>3. CASE fault' = fault
  BY <1>3 DEF SensorsOutlived, ClientOutlivesUsers
<1>4. CASE \E t \in Thread : Misuse(t)
  BY <1>2, <1>4 DEF SensorsOutlived, ClientOutlivesUsers
<1> QED BY <1>1, <1>3, <1>4

(* It holds at the beginning. *)
LEMMA InitInv == Init => IInv
<1> SUFFICES ASSUME Init PROVE IInv
  OBVIOUS
<1>1. Programs /\ Simple /\ Flags /\ Routes /\ Position
  BY InitPrograms, InitSimple, InitRoutes
<1>2. fault = NoFault /\ life = "start" /\ client = "null"
      /\ todo = [t \in Thread |-> IF t = "main" THEN initialize_system ELSE <<>>]
      /\ heap = [i \in 1 .. MaxRoutes |-> Unused] /\ turning = FALSE
  BY DEF Init
<1>3. SensorsOutlived /\ ClientOutlivesUsers
  BY <1>2 DEF SensorsOutlived, ClientOutlivesUsers, NoFault, Sensor
<1>4. Quiet /\ Powered /\ Ending /\ Freed /\ Closed
  BY <1>2 DEF Quiet, Powered, Ending, Freed, Closed, Unused, Thread, Sensor
<1> QED BY <1>1, <1>3, <1>4 DEF IInv, Shutdown

(* Every step keeps it. *)
LEMMA StepInv == IInv /\ [Next]_vars => IInv'
BY StepPrograms, StepSimple, StepFlags, StepRoutes, StepShutdown, StepFault DEF IInv

(* So it holds always. *)
LEMMA Invariant == Spec => []IInv
<1>1. Init => IInv
  BY InitInv
<1>2. IInv /\ [Next]_vars => IInv'
  BY StepInv
<1> QED BY <1>1, <1>2, PTL DEF Spec

-----------------------------------------------------------------------------
(* The types, for every set of codes and orders: no thread ever has more than  *)
(* ten statements to go, the position is within the route, and the number of   *)
(* near readings stays below the one that makes an emergency.                  *)
THEOREM VehicleTypes == Spec => []TypeOK
<1>1. IInv => TypeOK
  <2> SUFFICES ASSUME IInv PROVE TypeOK
    OBVIOUS
  <2>1. \A t \in Thread : Len(todo[t]) <= 10
    <3>1. Len(todo["main"]) <= 10 /\ Len(todo["mqtt"]) <= 10 /\ Len(todo["hcsr"]) <= 10
      BY DEF IInv, Programs, MainFits, MqttFits, HcsrFits
    <3>2. Len(todo["tcrt"]) <= 10
      <4>1. Len(todo["tcrt"]) <= 6 /\ todo["tcrt"] \in Seq(AnyStmt)
        BY DEF IInv, Programs, TcrtFits, Thread, Sensor
      <4>2. Len(todo["tcrt"]) \in Nat
        BY <4>1
      <4>3. \A n \in Nat : n <= 6 => n <= 10
        OBVIOUS
      <4> QED BY <4>1, <4>2, <4>3
    <3> QED BY <3>1, <3>2 DEF Thread, Sensor
  <2>2. \A i \in DOMAIN heap :
          /\ heap[i].mem \in {"unused", "live", "replaced", "shutdown"}
          /\ heap[i].current \in 0 .. Len(heap[i].steps) /\ heap[i].last < Len(heap[i].steps)
          /\ \A j \in DOMAIN heap[i].steps : heap[i].steps[j] \in Action
    <3> SUFFICES ASSUME NEW i \in DOMAIN heap
                 PROVE  /\ heap[i].mem \in {"unused", "live", "replaced", "shutdown"}
                        /\ heap[i].current \in 0 .. Len(heap[i].steps) /\ heap[i].last < Len(heap[i].steps)
                        /\ \A j \in DOMAIN heap[i].steps : heap[i].steps[j] \in Action
      OBVIOUS
    <3>1. RouteOK(heap[i])
      BY DEF IInv, Routes
    <3>2. heap[i].mem \in Mem /\ heap[i].steps \in Seq(Action) /\ heap[i].current \in Nat
      BY <3>1 DEF RouteOK, RouteRec
    <3>3. heap[i].current <= Size(heap[i]) /\ heap[i].last < Size(heap[i]) /\ Size(heap[i]) \in Nat
      BY <3>1, <3>2 DEF RouteOK, Size
    <3>4. heap[i].current \in 0 .. Size(heap[i])
      BY <3>2, <3>3
    <3>5. \A j \in DOMAIN heap[i].steps : heap[i].steps[j] \in Action
      BY <3>2
    <3> QED BY <3>2, <3>3, <3>4, <3>5 DEF Mem, Size
  <2>3. /\ opened \in Opened /\ alive \in [Sensor -> {"none", "on", "done"}]
        /\ stop_flag \in 0 .. 1 /\ motor_mutex \in Thread \cup {"free"} /\ cnt \in 0 .. MaxNear - 1
        /\ client \in {"null", "live", "init", "close"}
    BY DEF IInv, Simple
  <2>4. /\ life \in {"start", "loop", "shutdown", "exited"}
        /\ my_route \in 0 .. MaxRoutes /\ route \in 0 .. MaxRoutes /\ got \in 0 .. 14
    BY DEF IInv, Programs, Routes
  <2>5. node_active \in BOOLEAN /\ turning \in BOOLEAN /\ subscribed \in BOOLEAN
    BY Zenon DEF IInv, Flags
  <2> QED BY <2>1, <2>2, <2>3, <2>4, <2>5, Zenon DEF TypeOK
<1> QED BY <1>1, Invariant, PTL

(* tcrt reads current in one half of next_step and writes it back in the other *)
(* while console and dispatcher reset or replace the route: for every route    *)
(* and every order of the threads the next step is the first of the route or   *)
(* the one after the step taken last.                                          *)
THEOREM StepsInOrder == Spec => []NoStepSkipped
<1>1. IInv => NoStepSkipped
  <2> SUFFICES ASSUME IInv, At("tcrt", "next_step"), heap[route].mem = "live"
               PROVE  heap[route].current \in {0, heap[route].last + 1}
    BY DEF NoStepSkipped
  <2>1. Comes("next_step") /\ ~Comes("advance")
    BY DEF At, Comes
  <2>2. route \in 1 .. MaxRoutes
    <3>1. route # 0 /\ route \in 0 .. MaxRoutes BY <2>1 DEF IInv, Position, Routes
    <3> QED BY <3>1, BoundAssumption
  <2> QED BY <2>1, <2>2 DEF IInv, Position
<1> QED BY <1>1, Invariant, PTL

(* shutdown_system takes the route and the client away only when both sensor   *)
(* threads are joined, so neither of them meets what it has freed.             *)
THEOREM JoinedBeforeFreed == Spec => []SensorsOutlived
<1>1. IInv => SensorsOutlived
  BY DEF IInv
<1> QED BY <1>1, Invariant, PTL

(* mqtt_close destroys the client when main itself is the only thread left.    *)
THEOREM ClosedLast == Spec => []ClientOutlivesUsers
<1>1. IInv => ClientOutlivesUsers
  BY DEF IInv
<1> QED BY <1>1, Invariant, PTL

(* With the last stop_all_motors behind it the vehicle stands: the only thread *)
(* that could start a motor has been joined before.                            *)
THEOREM StandsStill == Spec => []StandsAfterShutdown
<1>1. IInv => StandsAfterShutdown
  <2> SUFFICES ASSUME IInv, life = "shutdown",
                      \A i \in DOMAIN todo["main"] : todo["main"][i].st \notin {"join", "stop"}
               PROVE  ~turning
    BY DEF StandsAfterShutdown
  <2>1. /\ Left \in Nat /\ Left <= 9 /\ DOMAIN todo["main"] = 1 .. Left
        /\ \A i \in 1 .. Left : todo["main"][i] = shutdown_system[9 - Left + i]
    BY DEF IInv, Programs, MainFits, Left, Thread
  <2>2. Left <= 5
    <3> SUFFICES ASSUME Left > 5 PROVE FALSE
      BY <2>1
    <3>1. Left \in {6, 7, 8, 9}
      BY <2>1
    <3>2. Left - 5 \in 1 .. Left /\ 9 - Left + (Left - 5) = 4
      BY <3>1
    <3>3. todo["main"][Left - 5] = shutdown_system[9 - Left + (Left - 5)]
      BY <2>1, <3>2
    <3>4. todo["main"][Left - 5].st = "stop"
      BY <3>2, <3>3, ShutdownIs DEF St
    <3> QED BY <2>1, <3>2, <3>4
  <2> QED BY <2>2 DEF IInv, Shutdown, Ending
<1> QED BY <1>1, Invariant, PTL
=============================================================================

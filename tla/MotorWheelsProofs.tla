-------------------------- MODULE MotorWheelsProofs ---------------------------
(* Proofs about what the wheels of MotorCtrl do in the end, and about what the *)
(* keyboard program shows, for every set of threads, every set of speeds and   *)
(* every period that is a multiple of Percent.                                 *)
(*                                                                             *)
(* The argument follows a call from its start to its last operation: with as,  *)
(* what was asked of the wheels, Q, the statements left of the call, and T,    *)
(* the operations left of its ioctl, Fits(pin, pwm, speed, as, Q, T) says that *)
(* what is already set or still to come adds up to what was asked.             *)
EXTENDS MotorCtrlProofs

-----------------------------------------------------------------------------
(* Sequences of statements and of operations *)

(* The elements of a sequence: after its head, after its first element has     *)
(* been replaced, and of a concatenation.                                      *)
LEMMA RangeTail ==
  ASSUME NEW S, NEW q \in Seq(S), q # <<>>
  PROVE  /\ Range(q) = {Head(q)} \cup Range(Tail(q))
         /\ q[1] = Head(q) /\ Range(Tail(q)) \subseteq S
<1>1. /\ Len(q) \in Nat \ {0} /\ Tail(q) \in Seq(S) /\ Len(Tail(q)) = Len(q) - 1
      /\ \A i \in 1 .. Len(Tail(q)) : Tail(q)[i] = q[i + 1]
      /\ Head(q) = q[1] /\ DOMAIN q = 1 .. Len(q) /\ DOMAIN Tail(q) = 1 .. Len(Tail(q))
  OBVIOUS
<1>2. Range(q) \subseteq {Head(q)} \cup Range(Tail(q))
  <2> SUFFICES ASSUME NEW i \in 1 .. Len(q), i # 1 PROVE q[i] \in Range(Tail(q))
    BY <1>1 DEF Range
  <2>1. i - 1 \in 1 .. Len(Tail(q)) /\ (i - 1) + 1 = i
    BY <1>1
  <2> QED BY <1>1, <2>1 DEF Range
<1>3. {Head(q)} \cup Range(Tail(q)) \subseteq Range(q)
  <2>1. Head(q) \in Range(q)
    BY <1>1 DEF Range
  <2>2. ASSUME NEW i \in 1 .. Len(Tail(q)) PROVE Tail(q)[i] \in Range(q)
    <3>1. i + 1 \in 1 .. Len(q)
      BY <1>1
    <3> QED BY <1>1, <3>1 DEF Range
  <2> QED BY <1>1, <2>1, <2>2 DEF Range
<1>4. Range(Tail(q)) \subseteq S
  <2>1. \A i \in 1 .. Len(Tail(q)) : Tail(q)[i] \in S
    BY <1>1, ElementOfSeq
  <2> QED BY <1>1, <2>1 DEF Range
<1> QED BY <1>1, <1>2, <1>3, <1>4

LEMMA RangeUpdate ==
  ASSUME NEW S, NEW q \in Seq(S), q # <<>>, NEW x \in S
  PROVE  /\ [q EXCEPT ![1] = x][1] = x /\ [q EXCEPT ![1] = x] # <<>>
         /\ Range([q EXCEPT ![1] = x]) = {x} \cup Range(Tail(q))
         /\ Tail([q EXCEPT ![1] = x]) = Tail(q)
<1> DEFINE p == [q EXCEPT ![1] = x]
<1>1. p \in Seq(S) /\ Len(p) = Len(q) /\ 1 \in 1 .. Len(q) /\ p[1] = x /\ \A i \in 2 .. Len(q) : p[i] = q[i]
  BY ExceptSeq
<1>2. p # <<>> /\ Head(p) = x
  BY <1>1
<1>3. Tail(p) = Tail(q)
  <2>1. /\ Tail(p) \in Seq(S) /\ Tail(q) \in Seq(S) /\ Len(Tail(p)) = Len(Tail(q))
        /\ \A i \in 1 .. Len(Tail(p)) : Tail(p)[i] = p[i + 1]
        /\ \A i \in 1 .. Len(Tail(q)) : Tail(q)[i] = q[i + 1]
        /\ Len(Tail(p)) = Len(q) - 1 /\ Len(q) \in Nat
    BY <1>1, <1>2
  <2>2. \A i \in 1 .. Len(Tail(p)) : Tail(p)[i] = Tail(q)[i]
    BY <1>1, <2>1
  <2> QED BY <2>1, <2>2, SeqEqual
<1> QED BY <1>1, <1>2, <1>3, RangeTail

LEMMA RangeConcat ==
  ASSUME NEW S, NEW p \in Seq(S), NEW q \in Seq(S)
  PROVE  Range(p \o q) = Range(p) \cup Range(q)
<1>1. /\ p \o q \in Seq(S) /\ Len(p \o q) = Len(p) + Len(q) /\ Len(p) \in Nat /\ Len(q) \in Nat
      /\ \A i \in 1 .. Len(p) : (p \o q)[i] = p[i]
      /\ \A i \in 1 .. Len(q) : (p \o q)[Len(p) + i] = q[i]
  OBVIOUS
<1>2. Range(p \o q) \subseteq Range(p) \cup Range(q)
  <2> SUFFICES ASSUME NEW i \in 1 .. Len(p \o q) PROVE (p \o q)[i] \in Range(p) \cup Range(q)
    BY <1>1 DEF Range
  <2>1. CASE i <= Len(p)
    BY <1>1, <2>1 DEF Range
  <2>2. CASE ~(i <= Len(p))
    <3>1. i - Len(p) \in 1 .. Len(q) /\ Len(p) + (i - Len(p)) = i
      BY <1>1, <2>2
    <3> QED BY <1>1, <3>1 DEF Range
  <2> QED BY <2>1, <2>2
<1>3. Range(p) \subseteq Range(p \o q)
  BY <1>1 DEF Range
<1>4. Range(q) \subseteq Range(p \o q)
  <2>0. DOMAIN q = 1 .. Len(q)
    OBVIOUS
  <2> SUFFICES ASSUME NEW i \in 1 .. Len(q) PROVE q[i] \in Range(p \o q)
    BY <2>0 DEF Range
  <2> DEFINE j == Len(p) + i
  <2>1. j \in 1 .. Len(p \o q) /\ (p \o q)[j] = q[i]
    BY <1>1
  <2> HIDE DEF j
  <2>2. j \in DOMAIN (p \o q)
    BY <1>1, <2>1
  <2> QED BY <2>1, <2>2 DEF Range
<1> QED BY <1>2, <1>3, <1>4

(* Short sequences.                                                            *)
LEMMA RangePair ==
  ASSUME NEW a, NEW b
  PROVE  Range(<<a>>) = {a} /\ Range(<<a, b>>) = {a, b} /\ Range(<<>>) = {}
BY DEF Range

LEMMA RangeTriple ==
  ASSUME NEW a, NEW b, NEW c
  PROVE  Range(<<a, b, c>>) = {a, b, c} /\ Tail(<<a, b, c>>) = <<b, c>>
BY DEF Range

LEMMA RangeFour ==
  ASSUME NEW a, NEW b, NEW c, NEW d
  PROVE  Range(<<a, b, c, d>>) = {a, b, c, d}
BY DEF Range

LEMMA RangeFive ==
  ASSUME NEW a, NEW b, NEW c, NEW d, NEW e, NEW f
  PROVE  /\ Tail(<<a, b, c, d, e, f>>) = <<b, c, d, e, f>>
         /\ Range(<<b, c, d, e, f>>) = {b, c, d, e, f}
BY DEF Range

(* The concatenations that make up the calls.                                  *)
LEMMA FourStmts ==
  ASSUME NEW a, NEW b, NEW c, NEW d
  PROVE  <<a, b>> \o <<c, d>> = <<a, b, c, d>>
<1> DEFINE S == {a, b, c, d}  p == <<a, b>> \o <<c, d>>
<1>s. a \in S /\ b \in S /\ c \in S /\ d \in S
  OBVIOUS
<1> HIDE DEF S
<1>0. p \in Seq(S) /\ Len(p) = 4
  BY <1>s
<1>1. p[1] = a /\ p[2] = b /\ p[3] = c /\ p[4] = d
  BY <1>s
<1> HIDE DEF p
<1>2. p = <<p[1], p[2], p[3], p[4]>>
  BY <1>0
<1> QED BY <1>1, <1>2 DEF p

LEMMA Between ==
  ASSUME NEW a, NEW b, NEW c, NEW d, NEW e, NEW f
  PROVE  <<e>> \o <<a, b, c, d>> \o <<f>> = <<e, a, b, c, d, f>>
<1> DEFINE S == {a, b, c, d, e, f}
           p == <<e>> \o <<a, b, c, d>>  r == p \o <<f>>
<1>s. a \in S /\ b \in S /\ c \in S /\ d \in S /\ e \in S /\ f \in S
  OBVIOUS
<1> HIDE DEF S
<1>0. p \in Seq(S) /\ Len(p) = 5
  BY <1>s
<1>1. p[1] = e /\ p[2] = a /\ p[3] = b /\ p[4] = c /\ p[5] = d
  BY <1>s
<1> HIDE DEF p, r
<1>5. p = <<e, a, b, c, d>>
  <2>1. p = <<p[1], p[2], p[3], p[4], p[5]>>
    BY <1>0
  <2> QED BY <1>1, <2>1
<1>2. r \in Seq(S) /\ Len(r) = 6 /\ r[1] = e /\ r[2] = a /\ r[3] = b /\ r[4] = c /\ r[5] = d /\ r[6] = f
  <2>1. r = <<e, a, b, c, d>> \o <<f>>
    BY <1>5 DEF r
  <2>2. r \in Seq(S) /\ Len(r) = 6
    <3>1. <<f>> \in Seq(S) /\ Len(<<f>>) = 1
      BY <1>s
    <3>2. r \in Seq(S) /\ Len(r) = Len(p) + Len(<<f>>)
      BY <1>0, <3>1, ConcatProperties DEF r
    <3> QED BY <1>0, <3>1, <3>2
  <2>3. r[1] = e /\ r[2] = a /\ r[3] = b
    BY <1>s, <2>1
  <2>4. r[4] = c /\ r[5] = d /\ r[6] = f
    BY <1>s, <2>1
  <2> QED BY <2>2, <2>3, <2>4
<1> HIDE DEF r
<1>3. r = <<r[1], r[2], r[3], r[4], r[5], r[6]>>
  BY <1>2
<1> QED BY <1>2, <1>3 DEF p, r

LEMMA BetweenOne ==
  ASSUME NEW a, NEW e, NEW f
  PROVE  <<e>> \o <<a>> \o <<f>> = <<e, a, f>>
<1> DEFINE S == {a, e, f}  t == <<e>> \o <<a>> \o <<f>>
<1>s. a \in S /\ e \in S /\ f \in S
  OBVIOUS
<1> HIDE DEF S
<1>0. t \in Seq(S) /\ Len(t) = 3
  BY <1>s
<1>1. t[1] = e /\ t[2] = a /\ t[3] = f
  BY <1>s
<1> HIDE DEF t
<1>2. t = <<t[1], t[2], t[3]>>
  BY <1>0
<1> QED BY <1>1, <1>2 DEF t

-----------------------------------------------------------------------------
(* The calls: their statements, in order, and what they ask *)

(* A statement that sets the direction of wheel s, and one that sets its speed. *)
Turns(x, s)  == x.st \in {"stop", "both"} \/ (x.st = "direction" /\ x.side = s)
Paces(x, s)  == x.st = "speed" /\ x.side = s

(* What may come later in a call: nothing takes the mutex late or follows its  *)
(* release, and no wheel is turned before its speed is set.                    *)
MayFollow(y, x) == /\ y.st # "lock" /\ x.st # "unlock"
                   /\ \A s \in Side : ~(Turns(x, s) /\ Paces(y, s))
InOrder(q) == \A i, j \in 1 .. Len(q) : i < j => MayFollow(q[j], q[i])

(* A call stays in order while it is carried out.                              *)
LEMMA OrderedTail ==
  ASSUME NEW S, NEW q \in Seq(S), q # <<>>, InOrder(q)
  PROVE  InOrder(Tail(q)) /\ \A x \in Range(Tail(q)) : MayFollow(x, Head(q))
<1>1. /\ Len(q) \in Nat \ {0} /\ Len(Tail(q)) = Len(q) - 1
      /\ \A i \in 1 .. Len(Tail(q)) : Tail(q)[i] = q[i + 1]
      /\ Head(q) = q[1] /\ DOMAIN Tail(q) = 1 .. Len(Tail(q))
  OBVIOUS
<1>2. InOrder(Tail(q))
  <2> SUFFICES ASSUME NEW i \in 1 .. Len(Tail(q)), NEW j \in 1 .. Len(Tail(q)), i < j
               PROVE  MayFollow(Tail(q)[j], Tail(q)[i])
    BY DEF InOrder
  <2>1. i + 1 \in 1 .. Len(q) /\ j + 1 \in 1 .. Len(q) /\ i + 1 < j + 1
    BY <1>1
  <2> QED BY <1>1, <2>1 DEF InOrder
<1>3. ASSUME NEW i \in 1 .. Len(Tail(q)) PROVE MayFollow(Tail(q)[i], Head(q))
  <2>1. i + 1 \in 1 .. Len(q) /\ 1 \in 1 .. Len(q) /\ 1 < i + 1
    BY <1>1
  <2> QED BY <1>1, <2>1 DEF InOrder
<1> QED BY <1>1, <1>2, <1>3 DEF Range

LEMMA OrderedCons ==
  ASSUME NEW S, NEW q \in Seq(S), q # <<>>, InOrder(Tail(q)),
         \A x \in Range(Tail(q)) : MayFollow(x, Head(q))
  PROVE  InOrder(q)
<1>1. /\ Len(q) \in Nat \ {0} /\ Len(Tail(q)) = Len(q) - 1
      /\ \A i \in 1 .. Len(Tail(q)) : Tail(q)[i] = q[i + 1]
      /\ Head(q) = q[1] /\ DOMAIN Tail(q) = 1 .. Len(Tail(q))
  OBVIOUS
<1> SUFFICES ASSUME NEW i \in 1 .. Len(q), NEW j \in 1 .. Len(q), i < j
             PROVE  MayFollow(q[j], q[i])
  BY DEF InOrder
<1> DEFINE k == j - 1
<1>2. k \in 1 .. Len(Tail(q)) /\ q[j] = Tail(q)[k]
  BY <1>1
<1>3. CASE i = 1
  <2> HIDE DEF k
  <2>1. q[j] \in Range(Tail(q))
    BY <1>1, <1>2 DEF Range
  <2> QED BY <1>1, <1>3, <2>1
<1>4. CASE i # 1
  <2> DEFINE h == i - 1
  <2>1. h \in 1 .. Len(Tail(q)) /\ q[i] = Tail(q)[h] /\ h < k
    BY <1>1, <1>4
  <2> HIDE DEF h, k
  <2> QED BY <1>2, <2>1 DEF InOrder
<1> QED BY <1>3, <1>4

LEMMA OrderedWait ==
  ASSUME NEW S, NEW q \in Seq(S), q # <<>>, InOrder(q), NEW x \in S, x.st = "wait"
  PROVE  InOrder([q EXCEPT ![1] = x])
<1> DEFINE p == [q EXCEPT ![1] = x]
<1>1. p \in Seq(S) /\ p # <<>> /\ Head(p) = x /\ Tail(p) = Tail(q)
  BY RangeUpdate, ExceptSeq
<1>2. \A y : MayFollow(y, Head(q)) => MayFollow(y, x)
  BY DEF MayFollow, Turns
<1> QED BY <1>1, <1>2, OrderedTail, OrderedCons

LEMMA OrderedPair ==
  ASSUME NEW a, NEW b, MayFollow(b, a)
  PROVE  InOrder(<<a>>) /\ InOrder(<<a, b>>)
BY DEF InOrder

(* The calls, statement by statement. *)
LEMMA CallsAre ==
  /\ \A l, dl, r, dr :
       set_motors(l, dl, r, dr) =
         <<St("speed", "left", l, dl), St("direction", "left", dl, 0),
           St("speed", "right", r, dr), St("direction", "right", dr, 0)>>
  /\ \A l, r :
       apply_motor_speed(l, r) =
         <<St("lock", "", 0, 0), St("speed", "left", l, 1), St("direction", "left", 1, 0),
           St("speed", "right", r, 1), St("direction", "right", 1, 0), St("unlock", "", 0, 0)>>
  /\ stop_all_motors = <<St("lock", "", 0, 0), St("stop", "", 0, 0), St("unlock", "", 0, 0)>>
<1>1. ASSUME NEW l, NEW dl, NEW r, NEW dr
      PROVE  set_motors(l, dl, r, dr) =
         <<St("speed", "left", l, dl), St("direction", "left", dl, 0),
           St("speed", "right", r, dr), St("direction", "right", dr, 0)>>
  BY FourStmts DEF set_motors, set_motor
<1>2. ASSUME NEW l, NEW r
      PROVE  apply_motor_speed(l, r) =
         <<St("lock", "", 0, 0), St("speed", "left", l, 1), St("direction", "left", 1, 0),
           St("speed", "right", r, 1), St("direction", "right", 1, 0), St("unlock", "", 0, 0)>>
  <2>1. apply_motor_speed(l, r) = <<St("lock", "", 0, 0)>> \o set_motors(l, 1, r, 1) \o <<St("unlock", "", 0, 0)>>
    BY DEF apply_motor_speed, Locked
  <2>2. set_motors(l, 1, r, 1) =
         <<St("speed", "left", l, 1), St("direction", "left", 1, 0),
           St("speed", "right", r, 1), St("direction", "right", 1, 0)>>
    BY <1>1
  <2> DEFINE a == St("speed", "left", l, 1)  b == St("direction", "left", 1, 0)
             c == St("speed", "right", r, 1)  d == St("direction", "right", 1, 0)
             e == St("lock", "", 0, 0)  f == St("unlock", "", 0, 0)
  <2>3. apply_motor_speed(l, r) = <<e>> \o <<a, b, c, d>> \o <<f>>
    BY <2>1, <2>2
  <2>4. <<e>> \o <<a, b, c, d>> \o <<f>> = <<e, a, b, c, d, f>>
    <3> HIDE DEF a, b, c, d, e, f
    <3> QED BY Between
  <2> QED BY <2>3, <2>4
<1>3. stop_all_motors = <<St("lock", "", 0, 0), St("stop", "", 0, 0), St("unlock", "", 0, 0)>>
  BY BetweenOne DEF stop_all_motors, Locked
<1> QED BY <1>1, <1>2, <1>3

(* In every call the speed of a wheel precedes its direction, and nothing      *)
(* follows the unlock.                                                         *)
LEMMA CallsInOrder ==
  /\ \A l, dl, r, dr : InOrder(set_motors(l, dl, r, dr))
  /\ \A l, r : InOrder(apply_motor_speed(l, r))
  /\ InOrder(stop_all_motors)
  /\ \A x : InOrder(<<x>>)
<1>4. ASSUME NEW x PROVE InOrder(<<x>>)
  BY DEF InOrder
<1>1. ASSUME NEW l, NEW dl, NEW r, NEW dr PROVE InOrder(set_motors(l, dl, r, dr))
  <2> DEFINE a == St("speed", "left", l, dl)  b == St("direction", "left", dl, 0)
             c == St("speed", "right", r, dr)  d == St("direction", "right", dr, 0)
  <2>1. /\ MayFollow(b, a) /\ MayFollow(c, a) /\ MayFollow(d, a)
        /\ MayFollow(c, b) /\ MayFollow(d, b) /\ MayFollow(d, c)
    BY DEF MayFollow, St, Turns, Paces
  <2>2. set_motors(l, dl, r, dr) = <<a, b, c, d>>
    BY CallsAre
  <2> HIDE DEF a, b, c, d
  <2> QED BY <2>1, <2>2 DEF InOrder
<1>2. ASSUME NEW l, NEW r PROVE InOrder(apply_motor_speed(l, r))
  <2> DEFINE a == St("speed", "left", l, 1)  b == St("direction", "left", 1, 0)
             c == St("speed", "right", r, 1)  d == St("direction", "right", 1, 0)
             e == St("lock", "", 0, 0)  f == St("unlock", "", 0, 0)
  <2>1. /\ MayFollow(b, a) /\ MayFollow(c, a) /\ MayFollow(d, a)
        /\ MayFollow(c, b) /\ MayFollow(d, b) /\ MayFollow(d, c)
    BY DEF MayFollow, St, Turns, Paces
  <2>3. /\ MayFollow(a, e) /\ MayFollow(b, e) /\ MayFollow(c, e) /\ MayFollow(d, e) /\ MayFollow(f, e)
        /\ MayFollow(f, a) /\ MayFollow(f, b) /\ MayFollow(f, c) /\ MayFollow(f, d)
    BY DEF MayFollow, St, Turns, Paces
  <2>2. apply_motor_speed(l, r) = <<e, a, b, c, d, f>>
    BY CallsAre
  <2> HIDE DEF a, b, c, d, e, f
  <2> QED BY <2>1, <2>2, <2>3 DEF InOrder
<1>3. InOrder(stop_all_motors)
  <2> DEFINE a == St("stop", "", 0, 0) e == St("lock", "", 0, 0)  f == St("unlock", "", 0, 0)
  <2>1. MayFollow(a, e) /\ MayFollow(f, e) /\ MayFollow(f, a)
    BY DEF MayFollow, St, Turns, Paces
  <2>2. stop_all_motors = <<e, a, f>>
    BY CallsAre
  <2> HIDE DEF a, e, f
  <2> QED BY <2>1, <2>2 DEF InOrder
<1> QED BY <1>1, <1>2, <1>3, <1>4

(* What a call asks of a wheel, statement by statement.                        *)
LEMMA Chosen ==
  ASSUME NEW n, NEW D, D = {n}
  PROVE  D # {} /\ (CHOOSE i \in D : TRUE) = n
<1>1. \E i \in D : TRUE
  OBVIOUS
<1>2. (CHOOSE i \in D : TRUE) \in D
  BY <1>1
<1> QED BY <1>2

LEMMA RequestIs ==
  ASSUME NEW q, NEW s \in Side, Find(q, {"period"}) = {}
  PROVE  LET own == {i \in DOMAIN q : q[i].side = s}
             S   == own \cap Find(q, {"speed"})
             D   == own \cap Find(q, {"direction"})
             B   == Find(q, {"stop", "both"})
         IN /\ \A n, m : S = {n} /\ D = {m} =>
                 Request(q)[s] = [sure |-> TRUE, dir |-> q[m].a, pct |-> Clamped(q[n].a)]
            /\ \A n : S = {} /\ D = {} /\ B = {n} =>
                 Request(q)[s] = [sure |-> TRUE, dir |-> IF s = "left" THEN q[n].a ELSE q[n].b,
                                  pct |-> asked[s].pct]
<1> DEFINE own == {i \in DOMAIN q : q[i].side = s}
           S   == own \cap Find(q, {"speed"})
           D   == own \cap Find(q, {"direction"})
           B   == Find(q, {"stop", "both"})
           i1  == CHOOSE i \in S : TRUE
           i2  == CHOOSE i \in D : TRUE
           i3  == CHOOSE i \in B : TRUE
<1>1. Request(q)[s] = [sure |-> TRUE,
                       dir  |-> IF D # {} THEN q[i2].a
                                ELSE IF s = "left" THEN q[i3].a ELSE q[i3].b,
                       pct  |-> IF S = {} THEN asked[s].pct ELSE Clamped(q[i1].a)]
  BY DEF Request
<1>2. /\ \A n : S = {n} => S # {} /\ i1 = n
      /\ \A n : D = {n} => D # {} /\ i2 = n
      /\ \A n : B = {n} => B # {} /\ i3 = n
  BY Chosen
<1> HIDE DEF S, D, B, i1, i2, i3
<1>3. /\ \A n, m : S = {n} /\ D = {m} =>
            Request(q)[s] = [sure |-> TRUE, dir |-> q[m].a, pct |-> Clamped(q[n].a)]
      /\ \A n : S = {} /\ D = {} /\ B = {n} =>
            Request(q)[s] = [sure |-> TRUE, dir |-> IF s = "left" THEN q[n].a ELSE q[n].b,
                             pct |-> asked[s].pct]
  BY <1>1, <1>2
<1> QED BY <1>3 DEF S, D, B, own

(* What it asks of wheel s when only statements n and m of it are about s. *)
LEMMA RequestMoves ==
  ASSUME NEW q, NEW s \in Side, NEW n \in DOMAIN q, NEW m \in DOMAIN q,
         q[n].st = "speed", q[n].side = s, q[m].st = "direction", q[m].side = s,
         \A x \in DOMAIN q : x # n /\ x # m =>
            q[x].st # "period" /\ (q[x].side = s => q[x].st \notin {"speed", "direction"})
  PROVE  Request(q)[s] = [sure |-> TRUE, dir |-> q[m].a, pct |-> Clamped(q[n].a)]
<1> DEFINE own == {x \in DOMAIN q : q[x].side = s}
<1>1. Find(q, {"period"}) = {} /\ own \cap Find(q, {"speed"}) = {n} /\ own \cap Find(q, {"direction"}) = {m}
  BY DEF Find
<1> QED BY <1>1, RequestIs

(* Where a statement is in a call. *)
LEMMA Places ==
  ASSUME NEW a, NEW b, NEW c, NEW d, NEW e, NEW f
  PROVE  /\ DOMAIN <<a>> = 1 .. 1 /\ <<a>>[1] = a
         /\ DOMAIN <<a, b, c>> = 1 .. 3 /\ <<a, b, c>>[1] = a /\ <<a, b, c>>[2] = b /\ <<a, b, c>>[3] = c
         /\ DOMAIN <<a, b, c, d>> = 1 .. 4
         /\ <<a, b, c, d>>[1] = a /\ <<a, b, c, d>>[2] = b /\ <<a, b, c, d>>[3] = c /\ <<a, b, c, d>>[4] = d
         /\ DOMAIN <<a, b, c, d, e, f>> = 1 .. 6
         /\ <<a, b, c, d, e, f>>[1] = a /\ <<a, b, c, d, e, f>>[2] = b /\ <<a, b, c, d, e, f>>[3] = c
         /\ <<a, b, c, d, e, f>>[4] = d /\ <<a, b, c, d, e, f>>[5] = e /\ <<a, b, c, d, e, f>>[6] = f
OBVIOUS

(* What the calls ask: a movement, and then all of them.                       *)
LEMMA RequestOfMoves ==
  ASSUME NEW l, NEW dl, NEW r, NEW dr
  PROVE  /\ Request(set_motors(l, dl, r, dr))["left"] = [sure |-> TRUE, dir |-> dl, pct |-> Clamped(l)]
         /\ Request(set_motors(l, dl, r, dr))["right"] = [sure |-> TRUE, dir |-> dr, pct |-> Clamped(r)]
<1> DEFINE q == set_motors(l, dl, r, dr)
           a == St("speed", "left", l, dl)  b == St("direction", "left", dl, 0)
           c == St("speed", "right", r, dr)  d == St("direction", "right", dr, 0)
<1>1. q = <<a, b, c, d>>
  BY CallsAre
<1>0. /\ a.st = "speed" /\ a.side = "left" /\ a.a = l
      /\ b.st = "direction" /\ b.side = "left" /\ b.a = dl
      /\ c.st = "speed" /\ c.side = "right" /\ c.a = r
      /\ d.st = "direction" /\ d.side = "right" /\ d.a = dr
  BY DEF St
<1> HIDE DEF q, a, b, c, d
<1>2. DOMAIN q = 1 .. 4 /\ q[1] = a /\ q[2] = b /\ q[3] = c /\ q[4] = d
  BY <1>1, Places
<1>3. 1 \in DOMAIN q /\ 2 \in DOMAIN q /\ 3 \in DOMAIN q /\ 4 \in DOMAIN q
  BY <1>2
<1>4. ASSUME NEW x \in DOMAIN q
      PROVE  x \in {1, 2, 3, 4} \/ q[x].st \in {"lock", "unlock"}
  BY <1>2
<1>7. /\ q[1].st = "speed" /\ q[1].side = "left" /\ q[1].a = l
      /\ q[2].st = "direction" /\ q[2].side = "left" /\ q[2].a = dl
      /\ q[3].st = "speed" /\ q[3].side = "right" /\ q[3].a = r
      /\ q[4].st = "direction" /\ q[4].side = "right" /\ q[4].a = dr
  BY <1>0, <1>2
<1>8. "left" \in Side /\ "right" \in Side
  BY DEF Side
<1>5. Request(q)["left"] = [sure |-> TRUE, dir |-> q[2].a, pct |-> Clamped(q[1].a)]
  <2>1. \A x \in DOMAIN q : x # 1 /\ x # 2 =>
          q[x].st # "period" /\ (q[x].side = "left" => q[x].st \notin {"speed", "direction"})
    BY <1>4, <1>7
  <2> QED BY <1>3, <1>7, <1>8, <2>1, RequestMoves
<1>6. Request(q)["right"] = [sure |-> TRUE, dir |-> q[4].a, pct |-> Clamped(q[3].a)]
  <2>1. \A x \in DOMAIN q : x # 3 /\ x # 4 =>
          q[x].st # "period" /\ (q[x].side = "right" => q[x].st \notin {"speed", "direction"})
    BY <1>4, <1>7
  <2> QED BY <1>3, <1>7, <1>8, <2>1, RequestMoves
<1> QED BY <1>5, <1>6, <1>7 DEF q

(* What apply_motor_speed asks.                                                *)
LEMMA RequestOfLockedMoves ==
  ASSUME NEW l, NEW r
  PROVE  /\ Request(apply_motor_speed(l, r))["left"] = [sure |-> TRUE, dir |-> 1, pct |-> Clamped(l)]
         /\ Request(apply_motor_speed(l, r))["right"] = [sure |-> TRUE, dir |-> 1, pct |-> Clamped(r)]
<1> DEFINE q == apply_motor_speed(l, r)
           a == St("speed", "left", l, 1)  b == St("direction", "left", 1, 0)
           c == St("speed", "right", r, 1)  d == St("direction", "right", 1, 0)
           e == St("lock", "", 0, 0)  f == St("unlock", "", 0, 0)
<1>1. q = <<e, a, b, c, d, f>>
  BY CallsAre
<1>0. /\ a.st = "speed" /\ a.side = "left" /\ a.a = l
      /\ b.st = "direction" /\ b.side = "left" /\ b.a = 1
      /\ c.st = "speed" /\ c.side = "right" /\ c.a = r
      /\ d.st = "direction" /\ d.side = "right" /\ d.a = 1
  BY DEF St
<1>9. e.st = "lock" /\ f.st = "unlock" /\ e.side = "" /\ f.side = ""
  BY DEF St
<1> HIDE DEF q, a, b, c, d, e, f
<1>2. DOMAIN q = 1 .. 6 /\ q[1] = e /\ q[2] = a /\ q[3] = b /\ q[4] = c /\ q[5] = d /\ q[6] = f
  BY <1>1, Places
<1>3. 2 \in DOMAIN q /\ 3 \in DOMAIN q /\ 4 \in DOMAIN q /\ 5 \in DOMAIN q
  BY <1>2
<1>4. ASSUME NEW x \in DOMAIN q
      PROVE  x \in {2, 3, 4, 5} \/ q[x].st \in {"lock", "unlock"}
  <2>1. x = 1 \/ x = 6 \/ x \in {2, 3, 4, 5}
    BY <1>2
  <2>2. q[1].st = "lock" /\ q[6].st = "unlock"
    BY <1>2, <1>9
  <2> QED BY <2>1, <2>2
<1>7. /\ q[2].st = "speed" /\ q[2].side = "left" /\ q[2].a = l
      /\ q[3].st = "direction" /\ q[3].side = "left" /\ q[3].a = 1
      /\ q[4].st = "speed" /\ q[4].side = "right" /\ q[4].a = r
      /\ q[5].st = "direction" /\ q[5].side = "right" /\ q[5].a = 1
  BY <1>0, <1>2
<1>8. "left" \in Side /\ "right" \in Side
  BY DEF Side
<1>5. Request(q)["left"] = [sure |-> TRUE, dir |-> q[3].a, pct |-> Clamped(q[2].a)]
  <2>1. \A x \in DOMAIN q : x # 2 /\ x # 3 =>
          q[x].st # "period" /\ (q[x].side = "left" => q[x].st \notin {"speed", "direction"})
    BY <1>4, <1>7
  <2> QED BY <1>3, <1>7, <1>8, <2>1, RequestMoves
<1>6. Request(q)["right"] = [sure |-> TRUE, dir |-> q[5].a, pct |-> Clamped(q[4].a)]
  <2>1. \A x \in DOMAIN q : x # 4 /\ x # 5 =>
          q[x].st # "period" /\ (q[x].side = "right" => q[x].st \notin {"speed", "direction"})
    BY <1>4, <1>7
  <2> QED BY <1>3, <1>7, <1>8, <2>1, RequestMoves
<1> QED BY <1>5, <1>6, <1>7 DEF q

(* What every call asks of each wheel.                                         *)
LEMMA Requests ==
  /\ \A l, dl, r, dr :
       /\ Request(set_motors(l, dl, r, dr))["left"] = [sure |-> TRUE, dir |-> dl, pct |-> Clamped(l)]
       /\ Request(set_motors(l, dl, r, dr))["right"] = [sure |-> TRUE, dir |-> dr, pct |-> Clamped(r)]
  /\ \A l, r :
       /\ Request(apply_motor_speed(l, r))["left"] = [sure |-> TRUE, dir |-> 1, pct |-> Clamped(l)]
       /\ Request(apply_motor_speed(l, r))["right"] = [sure |-> TRUE, dir |-> 1, pct |-> Clamped(r)]
  /\ \A s \in Side :
       /\ Request(stop_all_motors)[s] = [sure |-> TRUE, dir |-> 0, pct |-> asked[s].pct]
       /\ Request(<<St("stop", "", 0, 0)>>)[s] = [sure |-> TRUE, dir |-> 0, pct |-> asked[s].pct]
       /\ \A a, b : Request(<<St("both", "", a, b)>>)[s]
                     = [sure |-> TRUE, dir |-> IF s = "left" THEN a ELSE b, pct |-> asked[s].pct]
       /\ \A p : Request(<<St("period", "", p, 0)>>)[s] = asked[s]
<1>1. ASSUME NEW l, NEW dl, NEW r, NEW dr
      PROVE  /\ Request(set_motors(l, dl, r, dr))["left"] = [sure |-> TRUE, dir |-> dl, pct |-> Clamped(l)]
             /\ Request(set_motors(l, dl, r, dr))["right"] = [sure |-> TRUE, dir |-> dr, pct |-> Clamped(r)]
  BY RequestOfMoves
<1>2. ASSUME NEW l, NEW r
      PROVE  /\ Request(apply_motor_speed(l, r))["left"] = [sure |-> TRUE, dir |-> 1, pct |-> Clamped(l)]
             /\ Request(apply_motor_speed(l, r))["right"] = [sure |-> TRUE, dir |-> 1, pct |-> Clamped(r)]
  BY RequestOfLockedMoves
<1>3. ASSUME NEW s \in Side
      PROVE  Request(stop_all_motors)[s] = [sure |-> TRUE, dir |-> 0, pct |-> asked[s].pct]
  <2> DEFINE q == stop_all_motors
             a == St("stop", "", 0, 0)  e == St("lock", "", 0, 0)  f == St("unlock", "", 0, 0)
  <2>1. q = <<e, a, f>>
    BY CallsAre
  <2>9. e.st = "lock" /\ f.st = "unlock" /\ e.side = "" /\ f.side = ""
    BY DEF St
  <2>10. a.st = "stop" /\ a.a = 0 /\ a.b = 0
    BY DEF St
  <2> HIDE DEF q, a, e, f
  <2>2. DOMAIN q = 1 .. 3 /\ q[1] = e /\ q[2] = a /\ q[3] = f
    BY <2>1, Places
  <2>3. q[1].st = "lock" /\ q[3].st = "unlock"
    BY <2>2, <2>9
  <2>6. q[2].st = "stop" /\ q[2].a = 0 /\ q[2].b = 0
    BY <2>2, <2>10
  <2>7. 1 .. 3 = {1, 2, 3}
    OBVIOUS
  <2>8. DOMAIN q = {1, 2, 3}
    BY <2>2, <2>7
  <2>4. /\ Find(q, {"speed"}) = {} /\ Find(q, {"direction"}) = {} /\ Find(q, {"period"}) = {}
        /\ Find(q, {"stop", "both"}) = {2}
    BY <2>3, <2>6, <2>8 DEF Find
  <2>5. Request(q)[s] = [sure |-> TRUE, dir |-> IF s = "left" THEN q[2].a ELSE q[2].b, pct |-> asked[s].pct]
    BY <2>4, RequestIs
  <2> QED BY <2>5, <2>6 DEF q
<1>4. ASSUME NEW s \in Side, NEW k \in {"stop", "both"}, NEW a, NEW b
      PROVE  Request(<<St(k, "", a, b)>>)[s]
                = [sure |-> TRUE, dir |-> IF s = "left" THEN a ELSE b, pct |-> asked[s].pct]
  <2> DEFINE x == St(k, "", a, b)  q == <<x>>
  <2>1. x.st = k /\ x.side = "" /\ x.a = a /\ x.b = b
    BY DEF St
  <2> HIDE DEF x
  <2>2. DOMAIN q = 1 .. 1 /\ q[1] = x
    BY Places
  <2> HIDE DEF q
  <2>3. DOMAIN q = {1}
    BY <2>2
  <2>4. /\ Find(q, {"speed"}) = {} /\ Find(q, {"direction"}) = {} /\ Find(q, {"period"}) = {}
        /\ Find(q, {"stop", "both"}) = {1}
    BY <2>1, <2>2, <2>3 DEF Find
  <2>5. Request(q)[s] = [sure |-> TRUE, dir |-> IF s = "left" THEN q[1].a ELSE q[1].b, pct |-> asked[s].pct]
    BY <2>4, RequestIs
  <2> QED BY <2>1, <2>2, <2>5 DEF q, x
<1>5. ASSUME NEW s \in Side, NEW p
      PROVE  Request(<<St("period", "", p, 0)>>)[s] = asked[s]
  <2> DEFINE x == St("period", "", p, 0)  q == <<x>>
  <2>1. x.st = "period"
    BY DEF St
  <2> HIDE DEF x
  <2>2. DOMAIN q = 1 .. 1 /\ q[1] = x
    BY Places
  <2> HIDE DEF q
  <2>4. Find(q, {"period"}) # {}
    BY <2>1, <2>2 DEF Find
  <2>5. Request(q)[s] = asked[s]
    BY <2>4 DEF Request
  <2> QED BY <2>5 DEF q, x
<1>6. ASSUME NEW s \in Side
      PROVE  /\ Request(<<St("stop", "", 0, 0)>>)[s] = [sure |-> TRUE, dir |-> 0, pct |-> asked[s].pct]
             /\ \A a, b : Request(<<St("both", "", a, b)>>)[s]
                     = [sure |-> TRUE, dir |-> IF s = "left" THEN a ELSE b, pct |-> asked[s].pct]
  BY <1>4
<1> QED BY <1>1, <1>2, <1>3, <1>5, <1>6

(* A call asks something of the two wheels only. *)
LEMMA RequestSides == \A q : Request(q) = [s \in Side |-> Request(q)[s]]
BY DEF Request

-----------------------------------------------------------------------------
(* The inductive invariant *)

(* Who may be in the middle of a call: one that has begun takes no mutex, or   *)
(* has it.                                                                     *)
Rest(c) == Range(body[c])
Ops(c)  == Range(todo[c])
Active(c) == body[c] # <<>> /\ body[c][1].st # "lock"
Locks(c)  == \E x \in Rest(c) : x.st = "unlock"
Sure      == asked["left"].sure

(* What waits for the mutex is a whole call. *)
WholeCall(q) == (q # <<>> /\ q[1].st = "lock") =>
                  (q = stop_all_motors \/ \E l, r \in Speeds : q = apply_motor_speed(l, r))
CallsWhole == \A c \in Client : InOrder(body[c]) /\ WholeCall(body[c])

(* Operations are queued only for the statement that waits for its ioctl; a    *)
(* call that gives the mutex back has it; only the main thread calls without   *)
(* it; and while what is asked is sure, at most one call has begun.            *)
OneAtATime ==
  /\ \A c \in Client : todo[c] # <<>> => Active(c) /\ body[c][1].st = "wait"
  /\ \A c \in Client : Active(c) /\ Locks(c) => motor_mutex = c
  /\ \A c \in Client : Active(c) /\ c # Main => Locks(c)
  /\ \A c \in Client : ~Line /\ c # Main => body[c] = <<>>
  /\ Sure => \A c, d \in Client : Active(c) /\ Active(d) => c = d

(* What is left to do, the statements Q and the operations T, of wheel s.      *)
TurnsIn(Q, s)      == \E x \in Q : Turns(x, s)
PacesIn(Q, T, s)   == (\E x \in Q : Paces(x, s)) \/ \E o \in T : o.op = "speed" /\ o.of = s
Queued(T, op, at)  == \E o \in T : o.op = op /\ o.at = at

(* What was asked, as: of input k of a wheel's half of the bridge, and of its  *)
(* channel, for a percentage.                                                  *)
Want(as, s, k) == IF as[s].dir = (IF k = 1 THEN 1 ELSE -1) THEN 1 ELSE 0
Duty(p) == (p * DefaultPeriod) \div Percent
Still(as) == \A s \in Side : as[s].dir = 0

(* Every statement that is left asks for what was asked, and a wheel whose     *)
(* speed is still to be set is also still to be turned.                        *)
StmtFits(as, Q, x) ==
  /\ x.st = "speed" => /\ Clamped(x.a) = as[x.side].pct /\ x.b = as[x.side].dir
                       /\ TurnsIn(Q, x.side)
  /\ x.st = "direction" => x.a = as[x.side].dir
  /\ x.st = "both" => as["left"].dir = x.a /\ as["right"].dir = x.b
  /\ x.st \in {"stop", "period"} \/ (x.st = "wait" /\ x.b = 1) => Still(as)

(* Every operation that is left asks for what was asked; a duty cycle that the *)
(* driver is about to set from elsewhere is set again when the wheel turns.    *)
OpFits(as, Q, T, o) ==
  /\ o.op = "pin" => \A s \in Side, k \in {1, 2} : o.at = Bridge[s][k] => o.v = Want(as, s, k)
  /\ o.op \in {"config", "speed", "percent"} => o.at = Channel[o.of]
  /\ o.op = "speed" => o.v = Duty(as[o.of].pct) /\ T = {o}
  /\ o.op \in {"speed", "percent"} => TurnsIn(Q, o.of)
  /\ o.op \in {"zero", "disable"} => \A s \in Side : o.at = Channel[s] => as[s].dir = 0
  /\ o.op \in {"period", "reconfig"} => Still(as)

(* A wheel that no statement is going to turn has what was asked, pin by pin   *)
(* and on its channel, or the operation for that is queued; and its speed is   *)
(* stored, or about to be.                                                     *)
WheelFits(pn, pw, as, Q, T, s) ==
  ~TurnsIn(Q, s) =>
     /\ \A k \in {1, 2} : Queued(T, "pin", Bridge[s][k]) \/ pn[Bridge[s][k]] = Want(as, s, k)
     /\ as[s].dir # 0 =>
          /\ Queued(T, "config", Channel[s]) \/ pw[Channel[s]].duty = Duty(as[s].pct)
          /\ Queued(T, "enable", Channel[s]) \/ pw[Channel[s]].on
SpeedFits(sp, as, Q, T, s) == as[s].dir # 0 => PacesIn(Q, T, s) \/ sp[s] = as[s].pct

Fits(pn, pw, sp, as, Q, T) ==
  /\ \A x \in Q : StmtFits(as, Q, x)
  /\ \A o \in T : OpFits(as, Q, T, o)
  /\ \A s \in Side : WheelFits(pn, pw, as, Q, T, s) /\ SpeedFits(sp, as, Q, T, s)

(* All this holds of the call that has begun, and of none if none has.         *)
WheelsFit ==
  Sure => /\ \A c \in Client : Active(c) => Fits(pin, pwm, speed, asked, Rest(c), Ops(c))
          /\ (\A c \in Client : ~Active(c)) => Fits(pin, pwm, speed, asked, {}, {})

Asked ==
  /\ asked \in [Side -> [sure : BOOLEAN, dir : {-1, 0, 1}, pct : 0 .. Percent]]
  /\ asked["left"].sure <=> asked["right"].sure

(* When a program begins its wheels stand, and the speeds stored are what was  *)
(* last asked; a program that commands both wheels at once stores none.        *)
BetweenPrograms ==
  /\ process \in {"none", "hand_start"} =>
       /\ \A c \in Client : body[c] = <<>> /\ todo[c] = <<>>
       /\ Sure /\ Still(asked) /\ motor_state = StartState /\ motor_mutex = "free"
  /\ process \in {"none", "direct"} =>
       /\ Sure /\ motor_mutex = "free"
       /\ \A s \in Side : asked[s].pct = speed[s]
       /\ \A c \in Client : /\ \A x \in Rest(c) : x.st \in {"both", "wait"}
                            /\ \A o \in Ops(c) : o.op # "speed"

WheelsInv == Types /\ Asked /\ CallsWhole /\ OneAtATime /\ BetweenPrograms /\ WheelsFit

(* While keys are read: a statement that is still to note the direction of     *)
(* wheel s, or what is noted of the wheel is what was asked of it.             *)
Noting(x, s) == Paces(x, s) \/ x.st = "stop" \/ (x.st = "wait" /\ x.b = 1)
NotesInv == process = "keys" =>
           /\ Sure
           /\ \A c \in Client : motor_mutex = c => Active(c) /\ Locks(c)
           /\ \A x \in Rest(Main) : x.st = "speed" => x.a \in 0 .. Percent
           /\ \A s \in Side :
                /\ motor_state[s].speed \in 0 .. Percent
                /\ \/ Active(Main) /\ \E x \in Rest(Main) : Noting(x, s)
                   \/ /\ motor_state[s].dir = asked[s].dir
                      /\ asked[s].dir # 0 => motor_state[s].speed \in {asked[s].pct, Percent}

-----------------------------------------------------------------------------
(* One statement or one operation later *)

(* Each wheel has its own pins and its own channel. *)
LEMMA Wiring ==
  /\ \A s \in Side : Channel[s] \in Channels /\ \A k \in {1, 2} : Bridge[s][k] \in Pins
  /\ \A s, t \in Side : Channel[s] = Channel[t] => s = t
  /\ \A s, t \in Side : \A j, k \in {1, 2} : Bridge[s][j] = Bridge[t][k] => s = t /\ j = k
BY DEF Side, Channel, Bridge, Channels, Pins

(* A statement that turns no wheel is done with: what it asked is in Q, T or done. *)
LEMMA FitsAfterStmt ==
  ASSUME NEW pn, NEW pw, NEW sp, NEW as, NEW x, NEW R, x.st \in {"wait", "unlock"},
         Fits(pn, pw, sp, as, {x} \cup R, {})
  PROVE  Fits(pn, pw, sp, as, R, {})
<1> DEFINE Q == {x} \cup R
<1>1. \A s : ~Turns(x, s) /\ ~Paces(x, s)
  BY DEF Turns, Paces
<1>2. \A s : (TurnsIn(R, s) <=> TurnsIn(Q, s)) /\ (PacesIn(R, {}, s) <=> PacesIn(Q, {}, s))
  BY <1>1 DEF TurnsIn, PacesIn
<1>3. /\ \A y \in Q : StmtFits(as, Q, y)
      /\ \A s \in Side : WheelFits(pn, pw, as, Q, {}, s) /\ SpeedFits(sp, as, Q, {}, s)
  BY DEF Fits
<1>4. \A y \in R : StmtFits(as, R, y)
  BY <1>2, <1>3 DEF StmtFits
<1>5. \A s \in Side : WheelFits(pn, pw, as, R, {}, s) /\ SpeedFits(sp, as, R, {}, s)
  BY <1>2, <1>3 DEF WheelFits, SpeedFits
<1> QED BY <1>4, <1>5 DEF Fits

(* The operations T turn the wheels D as they are asked. *)
TurnOp(as, s, o) ==
  \/ o.op = "pin" /\ \E k \in {1, 2} : o.at = Bridge[s][k] /\ o.v = Want(as, s, k)
  \/ o.op = "config" /\ o.of = s /\ o.at = Channel[s]
  \/ o.op = "enable"
  \/ o.op \in {"zero", "disable"} /\ o.at = Channel[s] /\ as[s].dir = 0
Carries(as, D, T) ==
  /\ \A o \in T : \E s \in D : TurnOp(as, s, o)
  /\ \A s \in D : /\ \A k \in {1, 2} : Queued(T, "pin", Bridge[s][k])
                  /\ as[s].dir # 0 => Queued(T, "config", Channel[s]) /\ Queued(T, "enable", Channel[s])

(* A statement that turns the wheels of D issues operations that carry that    *)
(* out.                                                                        *)
LEMMA FitsAfterTurn ==
  ASSUME NEW pn, NEW pw, NEW sp, NEW as, NEW x, NEW w, NEW R \in SUBSET Stmt, NEW T, NEW D \in SUBSET Side,
         x.st # "speed", w.st = "wait", w.b = 1 => Still(as),
         \A s \in Side : s \in D <=> Turns(x, s),
         \A y \in R : MayFollow(y, x),
         Carries(as, D, T),
         Fits(pn, pw, sp, as, {x} \cup R, {})
  PROVE  Fits(pn, pw, sp, as, {w} \cup R, T)
<1> DEFINE Q == {x} \cup R  P == {w} \cup R
<1>w. \A s : ~Turns(w, s) /\ ~Paces(w, s) /\ ~Paces(x, s)
  BY DEF Turns, Paces
<1>1. /\ \A y \in Q : StmtFits(as, Q, y)
      /\ \A s \in Side : WheelFits(pn, pw, as, Q, {}, s) /\ SpeedFits(sp, as, Q, {}, s)
  BY DEF Fits
<1>2. \A s \in Side : s \notin D => (TurnsIn(P, s) <=> TurnsIn(Q, s))
  BY <1>w DEF TurnsIn
<1>3. \A s \in Side, y \in R : Paces(y, s) => s \notin D
  BY DEF MayFollow
<1>4. \A s \in Side : PacesIn(Q, {}, s) => PacesIn(P, T, s)
  BY <1>w DEF PacesIn
<1>5. ASSUME NEW y \in P PROVE StmtFits(as, P, y)
  <2>1. CASE y \in R
    <3>1. StmtFits(as, Q, y)
      BY <1>1, <2>1
    <3>2. y.st = "speed" /\ y.side \in Side => TurnsIn(P, y.side)
      BY <1>2, <1>3, <2>1, <3>1 DEF StmtFits, Paces
    <3>3. y.st = "speed" => y.side \in Side
      BY <2>1 DEF Stmt
    <3> QED BY <3>1, <3>2, <3>3 DEF StmtFits
  <2>2. CASE y = w
    BY <2>2 DEF StmtFits
  <2> QED BY <2>1, <2>2
<1>6. ASSUME NEW o \in T PROVE OpFits(as, P, T, o)
  <2>1. PICK s \in D : TurnOp(as, s, o)
    BY DEF Carries
  <2>2. s \in Side
    OBVIOUS
  <2>3. CASE o.op = "pin"
    <3>1. PICK k \in {1, 2} : o.at = Bridge[s][k] /\ o.v = Want(as, s, k)
      BY <2>1, <2>3 DEF TurnOp
    <3>2. ASSUME NEW t \in Side, NEW j \in {1, 2}, o.at = Bridge[t][j] PROVE t = s /\ j = k
      <4>1. Bridge[s][k] = Bridge[t][j]
        BY <3>1, <3>2
      <4> QED BY <2>2, <4>1, Wiring
    <3> QED BY <2>3, <3>1, <3>2 DEF OpFits
  <2>4. CASE o.op = "config"
    BY <2>1, <2>4 DEF TurnOp, OpFits
  <2>5. CASE o.op = "enable"
    BY <2>5 DEF OpFits
  <2>6. CASE o.op \in {"zero", "disable"}
    <3>1. o.at = Channel[s] /\ as[s].dir = 0
      BY <2>1, <2>6 DEF TurnOp
    <3>2. \A t \in Side : o.at = Channel[t] => t = s
      BY <2>2, <3>1, Wiring
    <3> QED BY <2>6, <3>1, <3>2 DEF OpFits
  <2> QED BY <2>1, <2>3, <2>4, <2>5, <2>6 DEF TurnOp
<1>7. ASSUME NEW s \in Side PROVE WheelFits(pn, pw, as, P, T, s) /\ SpeedFits(sp, as, P, T, s)
  <2>1. SpeedFits(sp, as, P, T, s)
    BY <1>1, <1>4 DEF SpeedFits
  <2>2. CASE s \in D
    BY <2>1, <2>2 DEF Carries, WheelFits
  <2>3. CASE s \notin D
    <3>1. \A op, at : ~Queued({}, op, at)
      BY DEF Queued
    <3> QED BY <1>1, <1>2, <2>1, <2>3, <3>1 DEF WheelFits
  <2> QED BY <2>2, <2>3
<1> QED BY <1>5, <1>6, <1>7 DEF Fits

(* The period is a multiple of Percent, and so the conversions are exact. *)
LEMMA Exact ==
  ASSUME NEW p \in 0 .. Percent
  PROVE  /\ Duty(p) \in 0 .. DefaultPeriod
         /\ DutyOf(p, DefaultPeriod) = Duty(p)
         /\ Mul(Duty(p), Percent) \div DefaultPeriod = p
         /\ (Duty(p) * Percent) \div DefaultPeriod = p
         /\ Duty(p) > 0 <=> p > 0
<1>n. /\ DefaultPeriod \in Nat /\ DefaultPeriod > 0 /\ Percent \in Nat /\ Percent > 1
      /\ DefaultPeriod % Percent = 0 /\ p \in Nat
  BY WordAssumption
<1> DEFINE k == DefaultPeriod \div Percent
<1>1. k \in Nat /\ DefaultPeriod = Percent * k
  <2>1. \A a \in Nat, b \in Nat : b > 0 /\ a % b = 0 => a \div b \in Nat /\ a = b * (a \div b)
    OBVIOUS
  <2> QED BY <1>n, <2>1
<1> HIDE DEF k
<1>2. k > 0
  BY <1>n, <1>1
<1>3. \A a \in Nat, b \in Nat : b > 0 => (a * b) \div b = a
  OBVIOUS
<1>4. p * DefaultPeriod = (p * k) * Percent /\ p * k \in Nat
  BY <1>n, <1>1
<1>5. Duty(p) = p * k
  BY <1>n, <1>3, <1>4 DEF Duty
<1>6. Duty(p) * Percent = p * DefaultPeriod
  BY <1>4, <1>5
<1>7. (Duty(p) * Percent) \div DefaultPeriod = p
  BY <1>n, <1>3, <1>6
<1>8. DutyOf(p, DefaultPeriod) = Duty(p) /\ Duty(p) \in 0 .. DefaultPeriod
  BY Fitting DEF DutyOf, Duty
<1>9. Mul(Duty(p), Percent) = Duty(p) * Percent
  BY <1>8, Fitting
<1>10. Duty(p) > 0 <=> p > 0
  <2>1. \A a, b \in Nat : b > 0 /\ a > 0 => a * b > 0
    OBVIOUS
  <2>2. p > 0 => p * k > 0
    BY <1>n, <1>1, <1>2, <2>1
  <2>3. p = 0 => p * k = 0
    BY <1>1
  <2> QED BY <1>n, <1>5, <2>2, <2>3
<1> QED BY <1>7, <1>8, <1>9, <1>10

(* The library clamps what it is given, and its duty cycle is that of the      *)
(* percentage.                                                                 *)
LEMMA SpeedDuty ==
  ASSUME NEW v \in Int
  PROVE  Clamped(v) \in 0 .. Percent /\ speed_to_duty_ns(v) = Duty(Clamped(v))
<1>1. Clamped(v) \in 0 .. Percent
  BY WordAssumption DEF Clamped, Within
<1> QED BY <1>1, Fitting DEF speed_to_duty_ns, Duty

(* A statement that sets a speed, or the period, issues its operations.        *)
LEMMA FitsAfterSpeed ==
  ASSUME NEW pn, NEW pw, NEW sp, NEW as, NEW x \in Stmt, NEW w, NEW R \in SUBSET Stmt, NEW o,
         x.st = "speed", w.st = "wait", w.b # 1,
         o.op = "speed", o.of = x.side, o.at = Channel[x.side], o.v = Duty(Clamped(x.a)),
         Fits(pn, pw, sp, as, {x} \cup R, {})
  PROVE  Fits(pn, pw, sp, as, {w} \cup R, {o})
<1> DEFINE Q == {x} \cup R  P == {w} \cup R  T == {o}
<1>w. \A s : ~Turns(w, s) /\ ~Paces(w, s) /\ ~Turns(x, s)
  BY DEF Turns, Paces
<1>1. /\ \A y \in Q : StmtFits(as, Q, y)
      /\ \A s \in Side : WheelFits(pn, pw, as, Q, {}, s) /\ SpeedFits(sp, as, Q, {}, s)
  BY DEF Fits
<1>2. \A s : TurnsIn(P, s) <=> TurnsIn(Q, s)
  BY <1>w DEF TurnsIn
<1>3. \A s : PacesIn(Q, {}, s) => PacesIn(P, T, s)
  BY DEF PacesIn, Paces
<1>4. \A y \in P : StmtFits(as, P, y)
  BY <1>1, <1>2 DEF StmtFits
<1>5. StmtFits(as, Q, x)
  BY <1>1
<1>6. OpFits(as, P, T, o)
  BY <1>2, <1>5 DEF OpFits, StmtFits
<1>7. \A op, at : ~Queued({}, op, at)
  BY DEF Queued
<1>8. \A s \in Side : WheelFits(pn, pw, as, P, T, s) /\ SpeedFits(sp, as, P, T, s)
  BY <1>1, <1>2, <1>3, <1>7 DEF WheelFits, SpeedFits
<1> QED BY <1>4, <1>6, <1>8 DEF Fits

LEMMA FitsAfterPeriod ==
  ASSUME NEW pn, NEW pw, NEW sp, NEW as, NEW x, NEW w, NEW R, NEW T,
         x.st = "period", w.st = "wait", w.b # 1,
         \A o \in T : o.op \in {"period", "reconfig"},
         Fits(pn, pw, sp, as, {x} \cup R, {})
  PROVE  Fits(pn, pw, sp, as, {w} \cup R, T)
<1> DEFINE Q == {x} \cup R  P == {w} \cup R
<1>w. \A s : ~Turns(w, s) /\ ~Paces(w, s) /\ ~Turns(x, s) /\ ~Paces(x, s)
  BY DEF Turns, Paces
<1>1. /\ \A y \in Q : StmtFits(as, Q, y)
      /\ \A s \in Side : WheelFits(pn, pw, as, Q, {}, s) /\ SpeedFits(sp, as, Q, {}, s)
  BY DEF Fits
<1>2. \A s : TurnsIn(P, s) <=> TurnsIn(Q, s)
  BY <1>w DEF TurnsIn
<1>3. \A s : PacesIn(Q, {}, s) => PacesIn(P, T, s)
  BY <1>w DEF PacesIn
<1>4. \A y \in P : StmtFits(as, P, y)
  BY <1>1, <1>2 DEF StmtFits
<1>5. Still(as)
  BY <1>1 DEF StmtFits
<1>6. \A o \in T : OpFits(as, P, T, o)
  BY <1>5 DEF OpFits
<1>7. \A op, at : ~Queued({}, op, at)
  BY DEF Queued
<1>8. \A s \in Side : WheelFits(pn, pw, as, P, T, s) /\ SpeedFits(sp, as, P, T, s)
  BY <1>1, <1>2, <1>3, <1>5, <1>7 DEF WheelFits, SpeedFits, Still
<1> QED BY <1>4, <1>6, <1>8 DEF Fits

PwmTypes == [Channels -> [duty : 0 .. DefaultPeriod, period : {DefaultPeriod}, on : BOOLEAN]]

(* What an operation o owes the pins and the channels: it leaves them alone,   *)
(* or sets them as they should be.                                             *)
PinsAfter(pn, pm, as, o) ==
  \A s \in Side, k \in {1, 2} :
     \/ o.op = "pin" /\ o.at = Bridge[s][k] /\ pm[Bridge[s][k]] = Want(as, s, k)
     \/ ~(o.op = "pin" /\ o.at = Bridge[s][k]) /\ pm[Bridge[s][k]] = pn[Bridge[s][k]]
ChannelsAfter(pw, qm, as, Q, o) ==
  \A s \in Side : ~TurnsIn(Q, s) /\ as[s].dir # 0 =>
     /\ \/ qm[Channel[s]].duty = Duty(as[s].pct)
        \/ ~(o.op = "config" /\ o.at = Channel[s]) /\ qm[Channel[s]].duty = pw[Channel[s]].duty
     /\ \/ qm[Channel[s]].on
        \/ ~(o.op = "enable" /\ o.at = Channel[s]) /\ qm[Channel[s]].on = pw[Channel[s]].on

(* An operation that leaves the pins and the channels as they should be keeps  *)
(* the rest in order.                                                          *)
LEMMA FitsAfterOp ==
  ASSUME NEW pn, NEW pw, NEW sp, NEW as, NEW Q, NEW o, NEW U, NEW pm, NEW qm,
         Fits(pn, pw, sp, as, Q, {o} \cup U), o.op # "speed",
         PinsAfter(pn, pm, as, o), ChannelsAfter(pw, qm, as, Q, o)
  PROVE  Fits(pm, qm, sp, as, Q, U)
<1> DEFINE T == {o} \cup U
<1>1. /\ \A x \in Q : StmtFits(as, Q, x)
      /\ \A p \in T : OpFits(as, Q, T, p)
      /\ \A s \in Side : WheelFits(pn, pw, as, Q, T, s) /\ SpeedFits(sp, as, Q, T, s)
  BY DEF Fits
<1>2. ASSUME NEW p \in U PROVE OpFits(as, Q, U, p)
  BY <1>1 DEF OpFits
<1>3. \A op, at : Queued(T, op, at) <=> Queued(U, op, at) \/ (o.op = op /\ o.at = at)
  BY DEF Queued
<1>4. \A s : PacesIn(Q, T, s) <=> PacesIn(Q, U, s)
  BY DEF PacesIn
<1>5. ASSUME NEW s \in Side PROVE WheelFits(pm, qm, as, Q, U, s) /\ SpeedFits(sp, as, Q, U, s)
  <2>1. SpeedFits(sp, as, Q, U, s)
    BY <1>1, <1>4 DEF SpeedFits
  <2>2. ASSUME ~TurnsIn(Q, s), NEW k \in {1, 2}
        PROVE  Queued(U, "pin", Bridge[s][k]) \/ pm[Bridge[s][k]] = Want(as, s, k)
    <3>1. Queued(T, "pin", Bridge[s][k]) \/ pn[Bridge[s][k]] = Want(as, s, k)
      BY <1>1, <2>2 DEF WheelFits
    <3> QED BY <1>3, <2>2, <3>1 DEF PinsAfter
  <2>3. ASSUME ~TurnsIn(Q, s), as[s].dir # 0
        PROVE  /\ Queued(U, "config", Channel[s]) \/ qm[Channel[s]].duty = Duty(as[s].pct)
               /\ Queued(U, "enable", Channel[s]) \/ qm[Channel[s]].on
    <3>1. /\ Queued(T, "config", Channel[s]) \/ pw[Channel[s]].duty = Duty(as[s].pct)
          /\ Queued(T, "enable", Channel[s]) \/ pw[Channel[s]].on
      BY <1>1, <2>3 DEF WheelFits
    <3> QED BY <1>3, <2>3, <3>1 DEF ChannelsAfter
  <2> QED BY <2>1, <2>2, <2>3 DEF WheelFits
<1> QED BY <1>1, <1>2, <1>5 DEF Fits

(* IOCTL_SET_SPEED_* goes on with the percentage it has stored. *)
LEMMA FitsAfterSetSpeed ==
  ASSUME NEW pn, NEW pw, NEW sp \in [Side -> 0 .. Percent], NEW as, NEW Q, NEW o, NEW T, NEW p, NEW e,
         Fits(pn, pw, sp, as, Q, T), o \in T, o.op = "speed", o.of \in Side,
         p.op = "percent", p.at = o.at, p.of = o.of, e.op = "enable", NEW n, n = as[o.of].pct
  PROVE  Fits(pn, pw, [sp EXCEPT ![o.of] = n], as, Q, {p, e})
<1> DEFINE U == {p, e}  sq == [sp EXCEPT ![o.of] = n]
<1>1. /\ \A x \in Q : StmtFits(as, Q, x)
      /\ \A t \in T : OpFits(as, Q, T, t)
      /\ \A s \in Side : WheelFits(pn, pw, as, Q, T, s) /\ SpeedFits(sp, as, Q, T, s)
  BY DEF Fits
<1>2. o.at = Channel[o.of] /\ T = {o} /\ TurnsIn(Q, o.of)
  BY <1>1 DEF OpFits
<1>3. \A t \in U : OpFits(as, Q, U, t)
  BY <1>2 DEF OpFits
<1>4. ASSUME NEW s \in Side PROVE SpeedFits(sq, as, Q, U, s)
  <2>1. CASE s = o.of
    BY <2>1 DEF SpeedFits
  <2>2. CASE s # o.of
    <3>1. sq[s] = sp[s]
      BY <2>2
    <3>2. PacesIn(Q, T, s) => PacesIn(Q, U, s)
      BY <1>2, <2>2 DEF PacesIn
    <3>3. SpeedFits(sp, as, Q, T, s)
      BY <1>1
    <3> HIDE DEF sq, U
    <3> QED BY <3>1, <3>2, <3>3 DEF SpeedFits
  <2> QED BY <2>1, <2>2
<1>5. ASSUME NEW s \in Side PROVE WheelFits(pn, pw, as, Q, U, s)
  <2>1. \A at : ~Queued(T, "pin", at) /\ ~Queued(T, "config", at) /\ ~Queued(T, "enable", at)
    BY <1>2 DEF Queued
  <2>2. WheelFits(pn, pw, as, Q, T, s)
    BY <1>1
  <2> QED BY <2>1, <2>2 DEF WheelFits
<1> QED BY <1>1, <1>3, <1>4, <1>5 DEF Fits

(* Every operation of the driver keeps what is asked of the wheels in order,   *)
(* whatever statements are left.                                               *)
LEMMA OperationFits ==
  ASSUME DriverTypes, Asked, NEW c \in Client, Operation(c), NEW Q,
         Fits(pin, pwm, speed, asked, Q, Ops(c))
  PROVE  Fits(pin', pwm', speed', asked, Q, Ops(c)')
<1> DEFINE o == Head(todo[c])
           U == Range(Tail(todo[c]))
<1>0. /\ pin \in [Pins -> 0 .. 1] /\ pwm \in PwmTypes
      /\ period_ns = DefaultPeriod /\ speed \in [Side -> 0 .. Percent]
      /\ todo \in [Client -> Short(DriverOp, 8)]
  BY DEF DriverTypes, PwmTypes
<1>n. DefaultPeriod \in Nat /\ Percent \in Nat
  BY WordAssumption
<1>a. \A s \in Side : asked[s].dir \in {-1, 0, 1} /\ asked[s].pct \in 0 .. Percent
  BY DEF Asked
<1>1. todo[c] # <<>> /\ todo[c] \in Seq(DriverOp)
  BY <1>0 DEF Operation, Short
<1>2. /\ Ops(c) = {o} \cup U /\ o \in DriverOp
  <2>1. Range(todo[c]) = {Head(todo[c])} \cup Range(Tail(todo[c]))
    BY <1>1, RangeTail
  <2>2. Head(todo[c]) \in DriverOp
    BY <1>1
  <2> QED BY <2>1, <2>2 DEF Ops
<1>3. ASSUME Advance(c) PROVE Ops(c)' = U
  <2>1. todo'[c] = Tail(todo[c])
    BY <1>0, <1>3 DEF Advance
  <2> QED BY <2>1 DEF Ops
<1>4. Fits(pin, pwm, speed, asked, Q, {o} \cup U)
  BY <1>2
<1>5. OpFits(asked, Q, {o} \cup U, o)
  BY <1>4 DEF Fits
<1> HIDE DEF U
(* What an operation that leaves the pins alone, and one that leaves the channels alone, owes. *)
<1>p. ASSUME o.op # "pin", pin' = pin PROVE PinsAfter(pin, pin', asked, o)
  BY <1>p DEF PinsAfter
<1>u. ASSUME o.op \notin {"config", "enable"}, pwm' = pwm PROVE ChannelsAfter(pwm, pwm', asked, Q, o)
  BY <1>u DEF ChannelsAfter
<1>f. ASSUME PinsAfter(pin, pin', asked, o), ChannelsAfter(pwm, pwm', asked, Q, o),
             o.op # "speed", Ops(c)' = U, speed' = speed
      PROVE  Fits(pin', pwm', speed', asked, Q, Ops(c)')
  <2> HIDE DEF o
  <2> QED BY <1>4, <1>f, FitsAfterOp
<1>w. ASSUME NEW ch \in Channels, NEW d \in 0 .. DefaultPeriod,
             pwm' = [pwm EXCEPT ![ch].duty = d, ![ch].period = DefaultPeriod], o.op # "enable",
             \A s \in Side : ~TurnsIn(Q, s) /\ asked[s].dir # 0 =>
                IF ch = Channel[s] THEN d = Duty(asked[s].pct) ELSE ~(o.op = "config" /\ o.at = Channel[s])
      PROVE  ChannelsAfter(pwm, pwm', asked, Q, o)
  <2> SUFFICES ASSUME NEW s \in Side, ~TurnsIn(Q, s), asked[s].dir # 0
               PROVE  /\ \/ pwm'[Channel[s]].duty = Duty(asked[s].pct)
                         \/ pwm'[Channel[s]].duty = pwm[Channel[s]].duty /\ ~(o.op = "config" /\ o.at = Channel[s])
                      /\ pwm'[Channel[s]].on = pwm[Channel[s]].on
    BY <1>w DEF ChannelsAfter
  <2>1. Channel[s] \in Channels
    BY Wiring
  <2>2. /\ pwm'[Channel[s]].on = pwm[Channel[s]].on
        /\ ch = Channel[s] => pwm'[Channel[s]].duty = d
        /\ ch # Channel[s] => pwm'[Channel[s]].duty = pwm[Channel[s]].duty
    BY <1>0, <1>w, <2>1 DEF PwmTypes
  <2> QED BY <1>w, <2>2
<1>6. CASE SetSpeed(c, o)
  <2>1. o.op = "speed" /\ o.of \in Side /\ o.v \in 0 .. DefaultPeriod
    BY <1>2, <1>6 DEF SetSpeed, DriverOp
  <2>2. o.v = Duty(asked[o.of].pct)
    BY <1>5, <2>1 DEF OpFits
  <2> DEFINE n == PercentOf(o.v)
             p == Op("percent", o.at, o.of, n)  e == Op("enable", o.at, o.of, 0)
  <2>3. n = asked[o.of].pct
    BY <1>0, <1>a, <2>1, <2>2, Exact DEF PercentOf
  <2>4. ~(o.v > period_ns)
    BY <1>0, <1>n, <2>1
  <2>5. /\ speed' = [speed EXCEPT ![o.of] = n]
        /\ todo' = [todo EXCEPT ![c] = <<p, e>>]
        /\ pin' = pin /\ pwm' = pwm
    BY <1>6, <2>4 DEF SetSpeed
  <2>6. p.op = "percent" /\ p.at = o.at /\ p.of = o.of /\ e.op = "enable"
    BY DEF Op
  <2> HIDE DEF n, p, e
  <2>7. Ops(c)' = {p, e}
    <3>1. todo'[c] = <<p, e>>
      BY <1>0, <2>5
    <3> QED BY <3>1, RangePair DEF Ops
  <2>8. Fits(pin, pwm, [speed EXCEPT ![o.of] = n], asked, Q, {p, e})
    <3>1. Fits(pin, pwm, speed, asked, Q, Ops(c)) /\ o \in Ops(c)
      BY <1>2
    <3> HIDE DEF o
    <3> QED BY <1>0, <2>1, <2>3, <2>6, <3>1, FitsAfterSetSpeed
  <2> QED BY <2>5, <2>7, <2>8
<1>7. CASE SetPin(c, o)
  <2>1. o.op = "pin" /\ o.at \in Pins /\ o.v \in 0 .. 1
    BY <1>2, <1>7 DEF SetPin, DriverOp
  <2>2. pin' = [pin EXCEPT ![o.at] = o.v] /\ Ops(c)' = U /\ pwm' = pwm /\ speed' = speed
    BY <1>3, <1>7 DEF SetPin
  <2>3. ASSUME NEW s \in Side, NEW k \in {1, 2}
        PROVE  \/ o.op = "pin" /\ o.at = Bridge[s][k] /\ pin'[Bridge[s][k]] = Want(asked, s, k)
               \/ ~(o.op = "pin" /\ o.at = Bridge[s][k]) /\ pin'[Bridge[s][k]] = pin[Bridge[s][k]]
    <3>1. o.at = Bridge[s][k] => o.v = Want(asked, s, k)
      BY <1>5, <2>1, <2>3 DEF OpFits
    <3>2. Bridge[s][k] \in Pins
      BY <2>3, Wiring
    <3> HIDE DEF o
    <3> QED BY <1>0, <2>1, <2>2, <3>1, <3>2
  <2>4. PinsAfter(pin, pin', asked, o)
    BY <2>3 DEF PinsAfter
  <2> QED BY <1>f, <1>u, <2>1, <2>2, <2>4
<1>c. ASSUME NEW q \in 0 .. Percent, Configure(c, o, q), o.at \in Channels
      PROVE  /\ pwm' = [pwm EXCEPT ![o.at].duty = Duty(q), ![o.at].period = DefaultPeriod]
             /\ Ops(c)' = U /\ pin' = pin /\ speed' = speed /\ Duty(q) \in 0 .. DefaultPeriod
  <2>1. DutyOf(q, DefaultPeriod) = Duty(q) /\ Duty(q) \in 0 .. DefaultPeriod /\ Valid(Duty(q), DefaultPeriod)
    BY <1>c, Exact, Fitting
  <2>2. /\ pwm_config(o.at, Duty(q), DefaultPeriod)
        /\ todo' = [todo EXCEPT ![c] = Tail(todo[c])]
        /\ pin' = pin /\ speed' = speed
    BY <1>0, <1>c, <2>1 DEF Configure
  <2>3. Ops(c)' = U
    BY <1>3, <2>2 DEF Advance
  <2> QED BY <1>c, <2>1, <2>2, <2>3, ConfigTypes
<1>8. CASE ConfigField(c, o)
  <2>1. o.op = "config" /\ o.at \in Channels /\ o.of \in Side /\ Configure(c, o, speed[o.of])
    BY <1>2, <1>8 DEF ConfigField, DriverOp
  <2> DEFINE q == speed[o.of]
  <2>2. q \in 0 .. Percent
    BY <1>0, <2>1
  <2>3. /\ pwm' = [pwm EXCEPT ![o.at].duty = Duty(q), ![o.at].period = DefaultPeriod]
        /\ Ops(c)' = U /\ pin' = pin /\ speed' = speed /\ Duty(q) \in 0 .. DefaultPeriod
    BY <1>c, <2>1, <2>2
  <2>4. ASSUME NEW s \in Side, ~TurnsIn(Q, s), asked[s].dir # 0
        PROVE  IF o.at = Channel[s] THEN Duty(q) = Duty(asked[s].pct) ELSE ~(o.op = "config" /\ o.at = Channel[s])
    <3> SUFFICES ASSUME o.at = Channel[s] PROVE q = asked[s].pct
      OBVIOUS
    <3>1. Channel[o.of] = Channel[s]
      BY <1>5, <2>1 DEF OpFits
    <3>2. o.of = s
      BY <2>1, <3>1, Wiring
    <3>3. ~PacesIn(Q, {o} \cup U, s)
      <4>1. \A x \in Q : ~Paces(x, s)
        BY <1>4, <2>4 DEF Fits, StmtFits, Paces
      <4>2. ASSUME NEW p \in {o} \cup U PROVE ~(p.op = "speed" /\ p.of = s)
        BY <1>4, <2>4 DEF Fits, OpFits
      <4> QED BY <4>1, <4>2 DEF PacesIn
    <3> QED BY <1>4, <2>4, <3>2, <3>3 DEF Fits, SpeedFits
  <2>5. ChannelsAfter(pwm, pwm', asked, Q, o)
    <3> HIDE DEF o
    <3> QED BY <1>w, <2>1, <2>3, <2>4
  <2> QED BY <1>f, <1>p, <2>1, <2>3, <2>5
<1>9. CASE ConfigLocal(c, o)
  <2>1. o.op = "percent" /\ o.at \in Channels /\ o.of \in Side /\ o.v \in 0 .. Percent /\ Configure(c, o, o.v)
    BY <1>2, <1>9 DEF ConfigLocal, DriverOp
  <2>2. /\ pwm' = [pwm EXCEPT ![o.at].duty = Duty(o.v), ![o.at].period = DefaultPeriod]
        /\ Ops(c)' = U /\ pin' = pin /\ speed' = speed /\ Duty(o.v) \in 0 .. DefaultPeriod
    BY <1>c, <2>1
  <2>3. ASSUME NEW s \in Side, ~TurnsIn(Q, s) PROVE o.at # Channel[s]
    <3>1. o.at = Channel[o.of] /\ o.of # s
      BY <1>5, <2>1, <2>3 DEF OpFits
    <3> QED BY <2>1, <3>1, Wiring
  <2>4. ChannelsAfter(pwm, pwm', asked, Q, o)
    <3> HIDE DEF o
    <3> QED BY <1>w, <2>1, <2>2, <2>3
  <2> QED BY <1>f, <1>p, <2>1, <2>2, <2>4
<1>10. CASE ConfigZero(c, o)
  <2>1. o.op = "zero" /\ o.at \in Channels /\ 0 \in 0 .. DefaultPeriod
    BY <1>2, <1>10, <1>n DEF ConfigZero, DriverOp
  <2>2. pwm_config(o.at, 0, DefaultPeriod) /\ Ops(c)' = U /\ pin' = pin /\ speed' = speed
    BY <1>0, <1>3, <1>10 DEF ConfigZero
  <2>3. pwm' = [pwm EXCEPT ![o.at].duty = 0, ![o.at].period = DefaultPeriod]
    BY <2>1, <2>2, ConfigTypes
  <2>4. ASSUME NEW s \in Side, asked[s].dir # 0 PROVE o.at # Channel[s]
    BY <1>5, <2>1, <2>4 DEF OpFits
  <2>5. ChannelsAfter(pwm, pwm', asked, Q, o)
    <3> HIDE DEF o
    <3> QED BY <1>w, <2>1, <2>3, <2>4
  <2> QED BY <1>f, <1>p, <2>1, <2>2, <2>5
<1>11. CASE ConfigPeriod(c, o)
  <2>1. o.op = "reconfig" /\ o.at \in Channels /\ o.of \in Side /\ o.v = DefaultPeriod
    BY <1>2, <1>11 DEF ConfigPeriod, DriverOp
  <2> DEFINE d == DutyOf(speed[o.of], DefaultPeriod)
  <2>2. d \in 0 .. DefaultPeriod
    BY <1>0, <2>1, Fitting
  <2>3. pwm_config(o.at, d, DefaultPeriod) /\ Ops(c)' = U /\ pin' = pin /\ speed' = speed
    BY <1>3, <1>11, <2>1 DEF ConfigPeriod
  <2>4. pwm' = [pwm EXCEPT ![o.at].duty = d, ![o.at].period = DefaultPeriod]
    BY <2>1, <2>2, <2>3, ConfigTypes
  <2>5. \A s \in Side : asked[s].dir = 0
    BY <1>5, <2>1 DEF OpFits, Still
  <2>6. ChannelsAfter(pwm, pwm', asked, Q, o)
    <3> HIDE DEF o, d
    <3> QED BY <1>w, <2>1, <2>2, <2>4, <2>5
  <2> QED BY <1>f, <1>p, <2>1, <2>3, <2>6
<1>12. CASE SetPeriod(c, o)
  <2>1. o.op = "period" /\ Ops(c)' = U /\ pin' = pin /\ pwm' = pwm /\ speed' = speed
    BY <1>3, <1>12 DEF SetPeriod
  <2> QED BY <1>f, <1>p, <1>u, <2>1
<1>13. CASE Enable(c, o)
  <2>1. o.op \in {"enable", "disable"} /\ o.at \in Channels
    BY <1>2, <1>13 DEF Enable, DriverOp
  <2> DEFINE on == o.op = "enable"
  <2>2. pwm' = [pwm EXCEPT ![o.at].on = on] /\ Ops(c)' = U /\ pin' = pin /\ speed' = speed
    BY <1>3, <1>13 DEF Enable
  <2>3. on \in BOOLEAN /\ (on => o.op = "enable")
    OBVIOUS
  <2>4. ASSUME NEW s \in Side, asked[s].dir # 0
        PROVE  o.at = Channel[s] => on
    BY <1>5, <2>1, <2>4 DEF OpFits
  <2> HIDE DEF on, o
  <2>5. ASSUME NEW s \in Side, asked[s].dir # 0
        PROVE  /\ pwm'[Channel[s]].duty = pwm[Channel[s]].duty
               /\ o.at = Channel[s] => pwm'[Channel[s]].on
               /\ o.at # Channel[s] => pwm'[Channel[s]].on = pwm[Channel[s]].on
    <3>1. Channel[s] \in Channels
      BY <2>5, Wiring
    <3> QED BY <1>0, <2>1, <2>2, <2>3, <2>4, <2>5, <3>1 DEF PwmTypes
  <2>6. ChannelsAfter(pwm, pwm', asked, Q, o)
    BY <2>1, <2>5 DEF ChannelsAfter
  <2> QED BY <1>f, <1>p, <2>1, <2>2, <2>6
<1> QED BY <1>6, <1>7, <1>8, <1>9, <1>10, <1>11, <1>12, <1>13 DEF Operation

(* The parts of a command. *)
LEMMA PartsAreSeqs ==
  ASSUME NEW s \in Side
  PROVE  /\ \A f, b \in 0 .. 1 : Direction(s, f, b) \in Seq(DriverOp)
         /\ Drive(s) \in Seq(DriverOp)
         /\ \A last \in {"enable", "disable"} : Zero(s, last) \in Seq(DriverOp)
BY DriverOps DEF Short

(* What the parts of a command carry out for one wheel.                        *)
LEMMA PartsCarry ==
  ASSUME NEW s \in Side, NEW as
  PROVE  /\ LET T == Range(Direction(s, Want(as, s, 1), Want(as, s, 2))) IN
            /\ \A o \in T : TurnOp(as, s, o)
            /\ \A k \in {1, 2} : Queued(T, "pin", Bridge[s][k])
         /\ /\ \A o \in Range(Drive(s)) : TurnOp(as, s, o)
            /\ Queued(Range(Drive(s)), "config", Channel[s]) /\ Queued(Range(Drive(s)), "enable", Channel[s])
         /\ as[s].dir = 0 =>
              \A last \in {"enable", "disable"} : \A o \in Range(Zero(s, last)) : TurnOp(as, s, o)
<1>1. ASSUME NEW f, NEW b, f = Want(as, s, 1), b = Want(as, s, 2)
      PROVE  /\ \A o \in Range(Direction(s, f, b)) : TurnOp(as, s, o)
             /\ \A k \in {1, 2} : Queued(Range(Direction(s, f, b)), "pin", Bridge[s][k])
  <2> DEFINE p == Op("pin", Bridge[s][1], s, f)  q == Op("pin", Bridge[s][2], s, b)
  <2>1. /\ p.op = "pin" /\ p.at = Bridge[s][1] /\ p.v = Want(as, s, 1)
        /\ q.op = "pin" /\ q.at = Bridge[s][2] /\ q.v = Want(as, s, 2)
    BY <1>1 DEF Op
  <2>2. Direction(s, f, b) = <<p, q>>
    BY DEF Direction
  <2> HIDE DEF p, q
  <2>3. Range(Direction(s, f, b)) = {p, q}
    BY <2>2, RangePair
  <2>4. TurnOp(as, s, p) /\ TurnOp(as, s, q)
    BY <2>1 DEF TurnOp
  <2>5. Queued({p, q}, "pin", Bridge[s][1]) /\ Queued({p, q}, "pin", Bridge[s][2])
    BY <2>1 DEF Queued
  <2>6. \A k \in {1, 2} : Queued({p, q}, "pin", Bridge[s][k])
    BY <2>5
  <2> QED BY <2>3, <2>4, <2>6
<1>2. /\ \A o \in Range(Drive(s)) : TurnOp(as, s, o)
      /\ Queued(Range(Drive(s)), "config", Channel[s]) /\ Queued(Range(Drive(s)), "enable", Channel[s])
  <2> DEFINE p == Op("config", Channel[s], s, 0)  q == Op("enable", Channel[s], s, 0)
  <2>1. p.op = "config" /\ p.at = Channel[s] /\ p.of = s /\ q.op = "enable" /\ q.at = Channel[s]
    BY DEF Op
  <2>2. Drive(s) = <<p, q>>
    BY DEF Drive
  <2> HIDE DEF p, q
  <2>3. Range(Drive(s)) = {p, q}
    BY <2>2, RangePair
  <2> QED BY <2>1, <2>3 DEF TurnOp, Queued
<1>3. ASSUME as[s].dir = 0, NEW last \in {"enable", "disable"}
      PROVE  \A o \in Range(Zero(s, last)) : TurnOp(as, s, o)
  <2> DEFINE p == Op("zero", Channel[s], s, 0)  q == Op(last, Channel[s], s, 0)
  <2>1. p.op = "zero" /\ p.at = Channel[s] /\ q.op = last /\ q.at = Channel[s]
    BY DEF Op
  <2>2. Zero(s, last) = <<p, q>>
    BY DEF Zero
  <2> HIDE DEF p, q
  <2>3. Range(Zero(s, last)) = {p, q}
    BY <2>2, RangePair
  <2> QED BY <1>3, <2>1, <2>3 DEF TurnOp
<1> QED BY <1>1, <1>2, <1>3

(* A command in two parts.                                                     *)
LEMMA RangeTwo ==
  ASSUME NEW S, NEW p \in Seq(S), NEW q \in Seq(S), NEW r \in Seq(S), NEW t \in Seq(S)
  PROVE  /\ Range(p \o q) = Range(p) \cup Range(q)
         /\ Range(p \o q \o r \o t) = Range(p) \cup Range(q) \cup Range(r) \cup Range(t)
<1> DEFINE pq == p \o q  pqr == pq \o r
<1>1. pq \in Seq(S) /\ Range(pq) = Range(p) \cup Range(q)
  <2>1. pq \in Seq(S)
    OBVIOUS
  <2>2. Range(pq) = Range(p) \cup Range(q)
    BY RangeConcat
  <2> QED BY <2>1, <2>2
<1> HIDE DEF pq
<1>2. pqr \in Seq(S) /\ Range(pqr) = Range(pq) \cup Range(r)
  <2>1. pqr \in Seq(S)
    BY <1>1
  <2>2. Range(pqr) = Range(pq) \cup Range(r)
    BY <1>1, RangeConcat
  <2> QED BY <2>1, <2>2
<1> HIDE DEF pqr
<1>3. Range(pqr \o t) = Range(pqr) \cup Range(t)
  BY <1>2, RangeConcat
<1>4. Range(pqr \o t) = Range(p) \cup Range(q) \cup Range(r) \cup Range(t)
  BY <1>1, <1>2, <1>3
<1> QED BY <1>1, <1>4 DEF pq, pqr

(* The inputs of the bridge for each direction.                                *)
LEMMA Wants ==
  ASSUME NEW s \in Side, NEW as
  PROVE  /\ as[s].dir = 1 => Want(as, s, 1) = 1 /\ Want(as, s, 2) = 0
         /\ as[s].dir = -1 => Want(as, s, 1) = 0 /\ Want(as, s, 2) = 1
         /\ as[s].dir = 0 => Want(as, s, 1) = 0 /\ Want(as, s, 2) = 0
<1> DEFINE d == as[s].dir
<1>1. Want(as, s, 1) = (IF d = 1 THEN 1 ELSE 0) /\ Want(as, s, 2) = (IF d = -1 THEN 1 ELSE 0)
  BY DEF Want
<1> HIDE DEF d
<1>2. /\ d = 1 => Want(as, s, 1) = 1 /\ Want(as, s, 2) = 0
      /\ d = -1 => Want(as, s, 1) = 0 /\ Want(as, s, 2) = 1
      /\ d = 0 => Want(as, s, 1) = 0 /\ Want(as, s, 2) = 0
  <2>1. 1 # 0 /\ 1 # -1 /\ 0 # -1
    OBVIOUS
  <2> QED BY <1>1, <2>1, Zenon
<1> QED BY <1>2 DEF d

(* The commands for one wheel. *)
LEMMA OneWheel ==
  ASSUME NEW s \in Side, NEW as
  PROVE  /\ as[s].dir = 1 => Carries(as, {s}, Range(FORWARD(s)))
         /\ as[s].dir = -1 => Carries(as, {s}, Range(BACKWARD(s)))
         /\ as[s].dir = 0 => Carries(as, {s}, Range(STOP(s)))
<1>1. /\ as[s].dir = 1 => Want(as, s, 1) = 1 /\ Want(as, s, 2) = 0
      /\ as[s].dir = -1 => Want(as, s, 1) = 0 /\ Want(as, s, 2) = 1
      /\ as[s].dir = 0 => Want(as, s, 1) = 0 /\ Want(as, s, 2) = 0
  BY Wants
<1>2. Want(as, s, 1) \in 0 .. 1 /\ Want(as, s, 2) \in 0 .. 1
  BY DEF Want
<1> DEFINE p == Direction(s, Want(as, s, 1), Want(as, s, 2))
           z == Zero(s, IF s = "left" THEN "enable" ELSE "disable")
<1>3. p \in Seq(DriverOp) /\ Drive(s) \in Seq(DriverOp) /\ z \in Seq(DriverOp)
  BY <1>2, PartsAreSeqs
<1>4. /\ as[s].dir = 1 => FORWARD(s) = p \o Drive(s)
      /\ as[s].dir = -1 => BACKWARD(s) = p \o Drive(s)
      /\ as[s].dir = 0 => STOP(s) = p \o z
  BY <1>1 DEF FORWARD, BACKWARD, STOP
<1>5. /\ \A o \in Range(p) : TurnOp(as, s, o)
      /\ \A k \in {1, 2} : Queued(Range(p), "pin", Bridge[s][k])
      /\ \A o \in Range(Drive(s)) : TurnOp(as, s, o)
      /\ Queued(Range(Drive(s)), "config", Channel[s]) /\ Queued(Range(Drive(s)), "enable", Channel[s])
      /\ as[s].dir = 0 => \A o \in Range(z) : TurnOp(as, s, o)
  BY PartsCarry
<1> HIDE DEF p, z
<1>6. Range(p \o Drive(s)) = Range(p) \cup Range(Drive(s)) /\ Range(p \o z) = Range(p) \cup Range(z)
  BY <1>3, RangeConcat
<1>7. Carries(as, {s}, Range(p) \cup Range(Drive(s)))
  <2>1. \A o \in Range(p) \cup Range(Drive(s)) : TurnOp(as, s, o)
    BY <1>5
  <2>2. /\ \A k \in {1, 2} : Queued(Range(p) \cup Range(Drive(s)), "pin", Bridge[s][k])
        /\ Queued(Range(p) \cup Range(Drive(s)), "config", Channel[s])
        /\ Queued(Range(p) \cup Range(Drive(s)), "enable", Channel[s])
    BY <1>5 DEF Queued
  <2> QED BY <2>1, <2>2 DEF Carries
<1>8. as[s].dir = 0 => Carries(as, {s}, Range(p) \cup Range(z))
  <2>1. as[s].dir = 0 => \A o \in Range(p) \cup Range(z) : TurnOp(as, s, o)
    BY <1>5
  <2>2. \A k \in {1, 2} : Queued(Range(p) \cup Range(z), "pin", Bridge[s][k])
    BY <1>5 DEF Queued
  <2> QED BY <2>1, <2>2 DEF Carries
<1> QED BY <1>4, <1>6, <1>7, <1>8

(* The commands for both wheels. *)
LEMMA TwoWheels ==
  ASSUME NEW as
  PROVE  /\ \A rf, rb, lf, lb \in 0 .. 1 :
              /\ rf = Want(as, "right", 1) /\ rb = Want(as, "right", 2)
              /\ lf = Want(as, "left", 1) /\ lb = Want(as, "left", 2)
              => Carries(as, Side, Range(Both(rf, rb, lf, lb)))
         /\ Still(as) => Carries(as, Side, Range(BOTH_STOP))
<1>s. "left" \in Side /\ "right" \in Side /\ Side = {"left", "right"} /\ 0 \in 0 .. 1
  BY DEF Side
<1> DEFINE p == Direction("right", Want(as, "right", 1), Want(as, "right", 2))
           q == Direction("left", Want(as, "left", 1), Want(as, "left", 2))
           r == Drive("right")  t == Drive("left")
           y == Zero("right", "disable")  z == Zero("left", "disable")
<1>1. \A s \in Side, k \in {1, 2} : Want(as, s, k) \in 0 .. 1
  BY DEF Want
<1>2. /\ p \in Seq(DriverOp) /\ q \in Seq(DriverOp) /\ r \in Seq(DriverOp) /\ t \in Seq(DriverOp)
      /\ y \in Seq(DriverOp) /\ z \in Seq(DriverOp)
  BY <1>s, <1>1, PartsAreSeqs
<1>3. /\ \A o \in Range(p) : TurnOp(as, "right", o)
      /\ \A k \in {1, 2} : Queued(Range(p), "pin", Bridge["right"][k])
      /\ \A o \in Range(r) : TurnOp(as, "right", o)
      /\ Queued(Range(r), "config", Channel["right"]) /\ Queued(Range(r), "enable", Channel["right"])
      /\ Still(as) => \A o \in Range(y) : TurnOp(as, "right", o)
  BY <1>s, PartsCarry DEF Still
<1>4. /\ \A o \in Range(q) : TurnOp(as, "left", o)
      /\ \A k \in {1, 2} : Queued(Range(q), "pin", Bridge["left"][k])
      /\ \A o \in Range(t) : TurnOp(as, "left", o)
      /\ Queued(Range(t), "config", Channel["left"]) /\ Queued(Range(t), "enable", Channel["left"])
      /\ Still(as) => \A o \in Range(z) : TurnOp(as, "left", o)
  BY <1>s, PartsCarry DEF Still
<1>5. ASSUME NEW rf \in 0 .. 1, NEW rb \in 0 .. 1, NEW lf \in 0 .. 1, NEW lb \in 0 .. 1,
             rf = Want(as, "right", 1) /\ rb = Want(as, "right", 2)
             /\ lf = Want(as, "left", 1) /\ lb = Want(as, "left", 2)
      PROVE  Carries(as, Side, Range(Both(rf, rb, lf, lb)))
  <2>1. Both(rf, rb, lf, lb) = p \o q \o r \o t
    BY <1>5 DEF Both
  <2> HIDE DEF p, q, r, t
  <2>2. Range(Both(rf, rb, lf, lb)) = Range(p) \cup Range(q) \cup Range(r) \cup Range(t)
    BY <1>2, <2>1, RangeTwo
  <2>3. Carries(as, Side, Range(p) \cup Range(q) \cup Range(r) \cup Range(t))
    <3> DEFINE T == Range(p) \cup Range(q) \cup Range(r) \cup Range(t)
    <3>1. \A o \in T : TurnOp(as, "right", o) \/ TurnOp(as, "left", o)
      BY <1>3, <1>4
    <3>2. /\ \A k \in {1, 2} : Queued(T, "pin", Bridge["right"][k]) /\ Queued(T, "pin", Bridge["left"][k])
          /\ Queued(T, "config", Channel["right"]) /\ Queued(T, "enable", Channel["right"])
          /\ Queued(T, "config", Channel["left"]) /\ Queued(T, "enable", Channel["left"])
      BY <1>3, <1>4 DEF Queued
    <3> HIDE DEF T
    <3>3. Carries(as, Side, T)
      BY <1>s, <3>1, <3>2 DEF Carries
    <3> QED BY <3>3 DEF T
  <2> QED BY <2>2, <2>3
<1>6. ASSUME Still(as) PROVE Carries(as, Side, Range(BOTH_STOP))
  <2>1. \A s \in Side : Want(as, s, 1) = 0 /\ Want(as, s, 2) = 0 /\ as[s].dir = 0
    BY <1>6, Wants DEF Still
  <2>2. BOTH_STOP = p \o q \o y \o z
    BY <1>s, <2>1 DEF BOTH_STOP
  <2> HIDE DEF p, q, y, z
  <2>3. Range(BOTH_STOP) = Range(p) \cup Range(q) \cup Range(y) \cup Range(z)
    BY <1>2, <2>2, RangeTwo
  <2>4. Carries(as, Side, Range(p) \cup Range(q) \cup Range(y) \cup Range(z))
    <3> DEFINE T == Range(p) \cup Range(q) \cup Range(y) \cup Range(z)
    <3>1. \A o \in T : TurnOp(as, "right", o) \/ TurnOp(as, "left", o)
      BY <1>3, <1>4, <1>6
    <3>2. \A k \in {1, 2} : Queued(T, "pin", Bridge["right"][k]) /\ Queued(T, "pin", Bridge["left"][k])
      BY <1>3, <1>4 DEF Queued
    <3> HIDE DEF T
    <3>3. Carries(as, Side, T)
      BY <1>s, <2>1, <3>1, <3>2 DEF Carries
    <3> QED BY <3>3 DEF T
  <2> QED BY <2>3, <2>4
<1> QED BY <1>5, <1>6

(* A statement that fits what was asked issues operations that fit it.         *)
LEMMA IssueFits ==
  ASSUME Asked, NEW x \in Stmt, x.st \in Ioctls, NEW R \in SUBSET Stmt, \A y \in R : MayFollow(y, x),
         Fits(pin, pwm, speed, asked, {x} \cup R, {})
  PROVE  Fits(pin, pwm, speed, asked,
              {St("wait", x.side, 0, IF x.st = "stop" THEN 1 ELSE 0)} \cup R, Range(Command(x)))
<1> DEFINE b == IF x.st = "stop" THEN 1 ELSE 0
           w == St("wait", x.side, 0, b)
<1>w. w.st = "wait" /\ w.b = b
  BY DEF St
<1>b. b = 1 => x.st = "stop"
  OBVIOUS
<1>x. StmtFits(asked, {x} \cup R, x)
  BY DEF Fits
<1>s. "left" \in Side /\ "right" \in Side /\ Side = {"left", "right"}
  BY DEF Side
<1>a. \A s \in Side : asked[s].dir \in {-1, 0, 1}
  BY DEF Asked
<1> HIDE DEF w, b
<1>t. ASSUME NEW D \in SUBSET Side, x.st # "speed", x.st = "stop" => Still(asked),
             \A s \in Side : s \in D <=> Turns(x, s), Carries(asked, D, Range(Command(x)))
      PROVE  Fits(pin, pwm, speed, asked, {w} \cup R, Range(Command(x)))
  <2>1. w.b = 1 => Still(asked)
    BY <1>w, <1>b, <1>t
  <2> QED BY <1>t, <1>w, <2>1, FitsAfterTurn
<1>1. CASE x.st = "speed"
  <2>1. x.side \in Side /\ x.a \in Int
    <3>1. x.side \in Side /\ x.a \in Percentages
      BY <1>1 DEF Stmt
    <3> QED BY <3>1, PercentagesInt
  <2> DEFINE o == Op("speed", Channel[x.side], x.side, speed_to_duty_ns(x.a))
  <2>2. Command(x) = <<o>>
    BY <1>1 DEF Command, SET_SPEED
  <2>3. o.op = "speed" /\ o.of = x.side /\ o.at = Channel[x.side] /\ o.v = speed_to_duty_ns(x.a)
    BY DEF Op
  <2> HIDE DEF o
  <2>4. Range(Command(x)) = {o}
    BY <2>2, RangePair
  <2>5. o.v = Duty(Clamped(x.a)) /\ w.b # 1
    BY <1>1, <1>w, <1>b, <2>1, <2>3, SpeedDuty
  <2>6. Fits(pin, pwm, speed, asked, {w} \cup R, {o})
    BY <1>1, <1>w, <2>3, <2>5, FitsAfterSpeed
  <2> QED BY <2>4, <2>6 DEF w, b
<1>2. CASE x.st = "direction"
  <2>1. x.side \in Side /\ x.a \in {-1, 0, 1}
    BY <1>2 DEF Stmt
  <2>2. asked[x.side].dir = x.a
    BY <1>2, <1>x DEF StmtFits
  <2>3. Carries(asked, {x.side}, Range(Command(x)))
    <3>1. CASE x.a = 1
      BY <1>2, <2>1, <2>2, <3>1, OneWheel DEF Command
    <3>2. CASE x.a = -1
      BY <1>2, <2>1, <2>2, <3>2, OneWheel DEF Command
    <3>3. CASE x.a = 0
      BY <1>2, <2>1, <2>2, <3>3, OneWheel DEF Command
    <3> QED BY <2>1, <3>1, <3>2, <3>3
  <2>4. \A s \in Side : s \in {x.side} <=> Turns(x, s)
    BY <1>2 DEF Turns
  <2> QED BY <1>2, <1>t, <2>1, <2>3, <2>4 DEF w, b
<1>3. CASE x.st = "stop"
  <2>1. Still(asked)
    BY <1>3, <1>x DEF StmtFits
  <2>2. Carries(asked, Side, Range(Command(x)))
    BY <1>3, <2>1, TwoWheels DEF Command
  <2>3. \A s \in Side : s \in Side <=> Turns(x, s)
    BY <1>3 DEF Turns
  <2> QED BY <1>3, <1>t, <2>1, <2>2, <2>3 DEF w, b
<1>4. CASE x.st = "both"
  <2>1. x.a \in {-1, 1} /\ x.b \in {-1, 1}
    BY <1>4 DEF Stmt
  <2>2. asked["left"].dir = x.a /\ asked["right"].dir = x.b
    BY <1>4, <1>x DEF StmtFits
  <2>3. Carries(asked, Side, Range(Command(x)))
    <3>0. 0 \in 0 .. 1 /\ 1 \in 0 .. 1 /\ 1 # -1
      OBVIOUS
    <3>w. /\ x.a = 1 => Want(asked, "left", 1) = 1 /\ Want(asked, "left", 2) = 0
          /\ x.a = -1 => Want(asked, "left", 1) = 0 /\ Want(asked, "left", 2) = 1
          /\ x.b = 1 => Want(asked, "right", 1) = 1 /\ Want(asked, "right", 2) = 0
          /\ x.b = -1 => Want(asked, "right", 1) = 0 /\ Want(asked, "right", 2) = 1
      BY <1>s, <2>2, Wants
    <3>1. CASE x.a = 1 /\ x.b = 1
      <4>1. Command(x) = Both(1, 0, 1, 0)
        BY <1>4, <3>1 DEF Command, BOTH_FORWARD
      <4> QED BY <3>0, <3>1, <3>w, <4>1, TwoWheels
    <3>2. CASE x.a = 1 /\ x.b = -1
      <4>1. Command(x) = Both(0, 1, 1, 0)
        BY <1>4, <3>0, <3>2 DEF Command, TURN_RIGHT
      <4> QED BY <3>0, <3>2, <3>w, <4>1, TwoWheels
    <3>3. CASE x.a = -1 /\ x.b = 1
      <4>1. Command(x) = Both(1, 0, 0, 1)
        BY <1>4, <3>0, <3>3 DEF Command, TURN_LEFT
      <4> QED BY <3>0, <3>3, <3>w, <4>1, TwoWheels
    <3>4. CASE x.a = -1 /\ x.b = -1
      <4>1. Command(x) = Both(0, 1, 0, 1)
        BY <1>4, <3>0, <3>4 DEF Command, BOTH_BACKWARD
      <4> QED BY <3>0, <3>4, <3>w, <4>1, TwoWheels
    <3> QED BY <2>1, <3>1, <3>2, <3>3, <3>4
  <2>4. \A s \in Side : s \in Side <=> Turns(x, s)
    BY <1>4 DEF Turns
  <2> QED BY <1>4, <1>t, <2>3, <2>4 DEF w, b
<1>5. CASE x.st = "period"
  <2> DEFINE a == Op("period", "pwm0", "left", x.a)
             c == Op("reconfig", "pwm0", "left", x.a)
             d == Op("reconfig", "pwm1", "right", x.a)
  <2>1. a.op = "period" /\ c.op = "reconfig" /\ d.op = "reconfig"
    BY DEF Op
  <2>2. Command(x) = <<a, c, d>>
    BY <1>5 DEF Command, SET_PERIOD
  <2> HIDE DEF a, c, d
  <2>3. Range(Command(x)) = {a, c, d}
    BY <2>2, RangeTriple
  <2>4. Fits(pin, pwm, speed, asked, {w} \cup R, {a, c, d})
    BY <1>5, <1>w, <1>b, <2>1, FitsAfterPeriod
  <2> QED BY <2>3, <2>4 DEF w, b
<1> QED BY <1>1, <1>2, <1>3, <1>4, <1>5 DEF Ioctls

-----------------------------------------------------------------------------
(* What is asked of the wheels when a call begins. *)
(* What a movement asks, and its statements. *)
Moved(as, l, dl, r, dr) ==
  /\ as["left"].dir = dl /\ as["left"].pct = Clamped(l)
  /\ as["right"].dir = dr /\ as["right"].pct = Clamped(r)
Movement(l, dl, r, dr) ==
  {St("speed", "left", l, dl), St("direction", "left", dl, 0),
   St("speed", "right", r, dr), St("direction", "right", dr, 0)}
GivesBack(E) == \A x \in E : x.st = "unlock"

LEMMA MovesFit ==
  ASSUME NEW pn, NEW pw, NEW sp, NEW as, NEW E, NEW l, NEW dl, NEW r, NEW dr,
         Moved(as, l, dl, r, dr), GivesBack(E)
  PROVE  Fits(pn, pw, sp, as, Movement(l, dl, r, dr) \cup E, {})
<1> DEFINE a == St("speed", "left", l, dl)  b == St("direction", "left", dl, 0)
           c == St("speed", "right", r, dr)  d == St("direction", "right", dr, 0)
           Q == {a, b, c, d} \cup E
<1>0. /\ as["left"].dir = dl /\ as["left"].pct = Clamped(l)
      /\ as["right"].dir = dr /\ as["right"].pct = Clamped(r)
  BY DEF Moved
<1>1. /\ a.st = "speed" /\ a.side = "left" /\ a.a = l /\ a.b = dl
      /\ b.st = "direction" /\ b.side = "left" /\ b.a = dl
      /\ c.st = "speed" /\ c.side = "right" /\ c.a = r /\ c.b = dr
      /\ d.st = "direction" /\ d.side = "right" /\ d.a = dr
  BY DEF St
<1>q. Movement(l, dl, r, dr) \cup E = Q
  BY DEF Movement
<1> HIDE DEF a, b, c, d
<1>2. TurnsIn(Q, "left") /\ TurnsIn(Q, "right")
  BY <1>1 DEF TurnsIn, Turns
<1>3. PacesIn(Q, {}, "left") /\ PacesIn(Q, {}, "right")
  BY <1>1 DEF PacesIn, Paces
<1>4. \A x \in E : StmtFits(as, Q, x)
  BY DEF StmtFits, GivesBack
<1>5. StmtFits(as, Q, a) /\ StmtFits(as, Q, b) /\ StmtFits(as, Q, c) /\ StmtFits(as, Q, d)
  BY <1>0, <1>1, <1>2 DEF StmtFits
<1>6. \A s \in Side : s = "left" \/ s = "right"
  BY DEF Side
<1>7. Fits(pn, pw, sp, as, Q, {})
  BY <1>2, <1>3, <1>4, <1>5, <1>6 DEF Fits, WheelFits, SpeedFits
<1> QED BY <1>7, <1>q

(* A stop, a command for both wheels, a change of the period, and no call at   *)
(* all.                                                                        *)
LEMMA StopFits ==
  ASSUME NEW pn, NEW pw, NEW sp, NEW as, NEW x, NEW E, x.st = "stop", Still(as), \A y \in E : y.st = "unlock"
  PROVE  Fits(pn, pw, sp, as, {x} \cup E, {})
<1> DEFINE Q == {x} \cup E
<1>1. \A s \in Side : TurnsIn(Q, s)
  BY DEF TurnsIn, Turns
<1>2. \A y \in Q : StmtFits(as, Q, y)
  BY DEF StmtFits
<1> QED BY <1>1, <1>2 DEF Fits, WheelFits, SpeedFits, Still

LEMMA BothFits ==
  ASSUME NEW pn, NEW pw, NEW sp, NEW as, NEW x, x.st = "both",
         as["left"].dir = x.a, as["right"].dir = x.b, \A s \in Side : as[s].pct = sp[s]
  PROVE  Fits(pn, pw, sp, as, {x}, {})
<1>1. \A s \in Side : TurnsIn({x}, s)
  BY DEF TurnsIn, Turns
<1>2. StmtFits(as, {x}, x)
  BY DEF StmtFits
<1> QED BY <1>1, <1>2 DEF Fits, WheelFits, SpeedFits

LEMMA PeriodFits ==
  ASSUME NEW pn, NEW pw, NEW sp, NEW as, NEW x, x.st = "period", Still(as), Fits(pn, pw, sp, as, {}, {})
  PROVE  Fits(pn, pw, sp, as, {x}, {})
<1>1. \A s \in Side : ~TurnsIn({x}, s) /\ ~TurnsIn({}, s)
  BY DEF TurnsIn, Turns
<1>2. StmtFits(as, {x}, x)
  BY DEF StmtFits
<1>3. \A s \in Side : WheelFits(pn, pw, as, {x}, {}, s) /\ SpeedFits(sp, as, {x}, {}, s)
  BY <1>1 DEF Fits, WheelFits, SpeedFits, Still
<1> QED BY <1>2, <1>3 DEF Fits

LEMMA StillFits ==
  ASSUME NEW pn, NEW pw, NEW sp, NEW as, Still(as), \A p \in Pins : pn[p] = 0
  PROVE  Fits(pn, pw, sp, as, {}, {})
<1>1. \A s \in Side, k \in {1, 2} : pn[Bridge[s][k]] = Want(as, s, k)
  <2>1. \A s \in Side, k \in {1, 2} : pn[Bridge[s][k]] = 0
    BY Wiring
  <2>2. \A s \in Side : Want(as, s, 1) = 0 /\ Want(as, s, 2) = 0
    BY Wants DEF Still
  <2> QED BY <2>1, <2>2
<1> QED BY <1>1 DEF Fits, WheelFits, SpeedFits, Still

-----------------------------------------------------------------------------
(* Steps of the threads *)

(* What the types say of the bodies. *)
LEMMA BodySeq ==
  ASSUME LibraryTypes, DriverTypes, NEW c \in Client
  PROVE  /\ body[c] \in Seq(Stmt) /\ todo[c] \in Seq(DriverOp)
         /\ body[c] # <<>> => /\ Head(body[c]) = body[c][1] /\ body[c][1] \in Stmt
                              /\ Rest(c) = {body[c][1]} \cup Range(Tail(body[c]))
                              /\ Range(Tail(body[c])) \subseteq Stmt
<1>1. body \in [Client -> Short(Stmt, 6)] /\ todo \in [Client -> Short(DriverOp, 8)]
  BY DEF LibraryTypes, DriverTypes
<1>2. body[c] \in Seq(Stmt) /\ todo[c] \in Seq(DriverOp)
  BY <1>1 DEF Short
<1>3. ASSUME body[c] # <<>>
      PROVE  /\ Head(body[c]) = body[c][1] /\ body[c][1] \in Stmt
             /\ Rest(c) = {body[c][1]} \cup Range(Tail(body[c]))
             /\ Range(Tail(body[c])) \subseteq Stmt
  <2>1. Head(body[c]) \in Stmt
    BY <1>2, <1>3
  <2> QED BY <1>2, <1>3, <2>1, RangeTail DEF Rest
<1> QED BY <1>2, <1>3

(* Only the main thread calls without the mutex, and only a call that has      *)
(* begun has operations queued.                                                *)
LEMMA NobodyActive ==
  ASSUME OneAtATime, motor_mutex = "free", ~Active(Main)
  PROVE  \A c \in Client : ~Active(c)
BY MainAssumption DEF OneAtATime

LEMMA NothingQueued ==
  ASSUME OneAtATime, NEW c \in Client, ~Active(c) \/ body[c][1].st # "wait"
  PROVE  todo[c] = <<>> /\ Ops(c) = {}
<1>1. todo[c] = <<>>
  BY DEF OneAtATime
<1> QED BY <1>1, RangePair DEF Ops

(* A call that takes the mutex waits for it first. *)
LEMMA StartLocked ==
  ASSUME LibraryTypes, DriverTypes, CallsWhole, OneAtATime, WheelsFit,
         NEW c \in Client, NEW q, Start(c, q), q # <<>>, q[1].st = "lock",
         InOrder(q), WholeCall(q), Line' <=> Line, Line \/ c = Main
  PROVE  CallsWhole' /\ OneAtATime' /\ WheelsFit' /\ asked' = asked
<1>1. /\ body[c] = <<>> /\ body' = [body EXCEPT ![c] = q] /\ asked' = asked
      /\ pin' = pin /\ pwm' = pwm /\ speed' = speed /\ todo' = todo /\ motor_mutex' = motor_mutex
  BY DEF Start, driver
<1>2. body'[c] = q /\ \A d \in Client : d # c => body'[d] = body[d]
  BY <1>1 DEF LibraryTypes
<1>3. ~Active(c) /\ ~Active(c)'
  BY <1>1, <1>2 DEF Active
<1>4. \A d \in Client : /\ Active(d)' <=> Active(d)
                        /\ Ops(d)' = Ops(d)
                        /\ Active(d) => d # c /\ (Locks(d)' <=> Locks(d)) /\ Rest(d)' = Rest(d) /\ body'[d] = body[d]
  BY <1>1, <1>2, <1>3 DEF Active, Ops, Locks, Rest
<1>5. CallsWhole'
  BY <1>2 DEF CallsWhole
<1>6. OneAtATime'
  <2>1. \A d \in Client : todo'[d] # <<>> => Active(d)' /\ body'[d][1].st = "wait"
    BY <1>1, <1>4 DEF OneAtATime
  <2>2. \A d \in Client : ~Line' /\ d # Main => body'[d] = <<>>
    BY <1>2 DEF OneAtATime
  <2>3. Sure' => \A d, e \in Client : Active(d)' /\ Active(e)' => d = e
    BY <1>1, <1>4 DEF OneAtATime, Sure
  <2>4. \A d \in Client : Active(d)' => (Locks(d)' => motor_mutex' = d) /\ (d # Main => Locks(d)')
    BY <1>1, <1>4 DEF OneAtATime
  <2> QED BY <2>1, <2>2, <2>3, <2>4 DEF OneAtATime
<1>7. WheelsFit'
  BY <1>1, <1>4 DEF WheelsFit, Sure
<1> QED BY <1>1, <1>5, <1>6, <1>7

(* A call of the main thread that takes no mutex. *)
LEMMA StartUnlocked ==
  ASSUME LibraryTypes, DriverTypes, CallsWhole, OneAtATime, WheelsFit,
         NEW q, Start(Main, q), q # <<>>, q[1].st # "lock",
         InOrder(q), \A x \in Range(q) : x.st # "unlock", Line' <=> Line,
         motor_mutex = "free" => Fits(pin, pwm, speed, Request(q), Range(q), {}) \/ ~Sure'
  PROVE  CallsWhole' /\ OneAtATime' /\ WheelsFit'
<1>1. /\ body[Main] = <<>> /\ body' = [body EXCEPT ![Main] = q]
      /\ asked' = IF motor_mutex # "free" THEN [s \in Side |-> Unsure] ELSE Request(q)
      /\ pin' = pin /\ pwm' = pwm /\ speed' = speed /\ todo' = todo /\ motor_mutex' = motor_mutex
  BY DEF Start, driver
<1>m. Main \in Client
  BY MainAssumption
<1>2. body'[Main] = q /\ \A d \in Client : d # Main => body'[d] = body[d]
  BY <1>1, <1>m DEF LibraryTypes
<1>3. ~Active(Main) /\ Active(Main)' /\ ~Locks(Main)' /\ Rest(Main)' = Range(q)
  BY <1>1, <1>2 DEF Active, Locks, Rest
<1>4. \A d \in Client : d # Main => /\ Active(d)' <=> Active(d)
                                    /\ Locks(d)' <=> Locks(d)
  BY <1>2 DEF Active, Locks, Rest
<1>5. todo[Main] = <<>> /\ Ops(Main) = {}
  BY <1>m, <1>3, NothingQueued
<1>6. CallsWhole'
  BY <1>2 DEF CallsWhole, WholeCall
<1>7. Sure' => motor_mutex = "free"
  BY <1>1 DEF Sure, Side, Unsure
<1>8. Sure' => \A d \in Client : Active(d)' => d = Main
  BY <1>3, <1>4, <1>7, NobodyActive
<1>9. OneAtATime'
  <2>1. \A d \in Client : todo'[d] # <<>> => Active(d)' /\ body'[d][1].st = "wait"
    BY <1>1, <1>2, <1>4, <1>5 DEF OneAtATime
  <2>2. \A d \in Client : ~Line' /\ d # Main => body'[d] = <<>>
    BY <1>2 DEF OneAtATime
  <2>4. \A d \in Client : Active(d)' => (Locks(d)' => motor_mutex' = d) /\ (d # Main => Locks(d)')
    BY <1>1, <1>3, <1>4 DEF OneAtATime
  <2> QED BY <1>8, <2>1, <2>2, <2>4 DEF OneAtATime
<1>10. ASSUME Sure' PROVE Fits(pin', pwm', speed', asked', Rest(Main)', Ops(Main)')
  <2>1. Ops(Main)' = {} /\ asked' = Request(q)
    BY <1>1, <1>5, <1>7, <1>10 DEF Ops
  <2> QED BY <1>1, <1>3, <1>7, <1>10, <2>1
<1>11. WheelsFit'
  BY <1>m, <1>3, <1>8, <1>10 DEF WheelsFit
<1> QED BY <1>6, <1>9, <1>11

(* A statement that has been carried out: the mutex given back, or the ioctl   *)
(* returned.                                                                   *)
LEMMA StmtDone ==
  ASSUME LibraryTypes, DriverTypes, CallsWhole, OneAtATime, WheelsFit,
         NEW c \in Client, body[c] # <<>>, body[c][1].st \in {"wait", "unlock"}, todo[c] = <<>>,
         body' = [body EXCEPT ![c] = Tail(body[c])],
         pin' = pin, pwm' = pwm, speed' = speed, todo' = todo, asked' = asked, Line' <=> Line,
         IF body[c][1].st = "unlock" THEN motor_mutex' = "free" ELSE motor_mutex' = motor_mutex
  PROVE  CallsWhole' /\ OneAtATime' /\ WheelsFit'
<1> DEFINE t == Tail(body[c])
<1>1. body'[c] = t /\ \A d \in Client : d # c => body'[d] = body[d]
  <2> HIDE DEF t
  <2> QED BY DEF LibraryTypes, t
<1>2. /\ body[c] \in Seq(Stmt) /\ InOrder(body[c]) /\ Rest(c) = {body[c][1]} \cup Range(t)
      /\ t \in Seq(Stmt)
  BY BodySeq DEF CallsWhole
<1>3. InOrder(t) /\ \A x \in Range(t) : MayFollow(x, body[c][1])
  BY <1>2, OrderedTail, BodySeq
<1>4. t # <<>> => t[1] \in Range(t)
  <2> HIDE DEF t
  <2> QED BY <1>2, RangeTail
<1>5. t # <<>> => t[1].st # "lock"
  BY <1>3, <1>4 DEF MayFollow
<1>6. body[c][1].st = "unlock" => t = <<>>
  BY <1>3, <1>4 DEF MayFollow
<1> HIDE DEF t
<1>7. Active(c) /\ Ops(c) = {} /\ (Active(c)' <=> t # <<>>) /\ Rest(c)' = Range(t)
  BY <1>1, <1>5, RangePair DEF Active, Ops, Rest
<1>8. \A d \in Client : /\ Ops(d)' = Ops(d)
                        /\ d # c => /\ Active(d)' <=> Active(d)
                                    /\ Locks(d)' <=> Locks(d)
  BY <1>1 DEF Active, Locks, Rest, Ops
<1>9. CallsWhole'
  <2> SUFFICES ASSUME NEW d \in Client PROVE InOrder(body'[d]) /\ WholeCall(body'[d])
    BY DEF CallsWhole
  <2>1. CASE d = c
    BY <1>1, <1>3, <1>5, <2>1 DEF WholeCall
  <2>2. CASE d # c
    BY <1>1, <2>2 DEF CallsWhole
  <2> QED BY <2>1, <2>2
<1>10. OneAtATime'
  <2>1. \A d \in Client : todo'[d] # <<>> => Active(d)' /\ body'[d][1].st = "wait"
    BY <1>1, <1>8 DEF OneAtATime
  <2>2. \A d \in Client : ~Line' /\ d # Main => body'[d] = <<>>
    <3>1. ASSUME ~Line, c # Main PROVE FALSE
      BY <3>1 DEF OneAtATime
    <3> QED BY <1>1, <3>1 DEF OneAtATime
  <2>3. Sure' => \A d, e \in Client : Active(d)' /\ Active(e)' => d = e
    BY <1>7, <1>8 DEF OneAtATime, Sure
  <2>4. CASE body[c][1].st = "unlock"
    <3>1. Locks(c) /\ motor_mutex = c
      BY <1>2, <1>7, <2>4 DEF Locks, OneAtATime
    <3>2. \A d \in Client : Active(d)' => d # c /\ ~Locks(d)' /\ d = Main
      BY <1>6, <1>7, <1>8, <2>4, <3>1 DEF OneAtATime
    <3> QED BY <2>1, <2>2, <2>3, <3>2 DEF OneAtATime
  <2>5. CASE body[c][1].st = "wait"
    <3>1. Locks(c)' <=> Locks(c)
      BY <1>2, <1>7, <2>5 DEF Locks
    <3>2. \A d \in Client : Active(d)' => (Locks(d)' => motor_mutex' = d) /\ (d # Main => Locks(d)')
      BY <1>7, <1>8, <2>5, <3>1 DEF OneAtATime
    <3> QED BY <2>1, <2>2, <2>3, <3>2 DEF OneAtATime
  <2> QED BY <2>4, <2>5
<1>11. WheelsFit'
  <2> SUFFICES ASSUME Sure
               PROVE  /\ \A d \in Client : Active(d)' => Fits(pin, pwm, speed, asked, Rest(d)', Ops(d)')
                      /\ (\A d \in Client : ~Active(d)') => Fits(pin, pwm, speed, asked, {}, {})
    BY DEF WheelsFit, Sure
  <2>1. \A d \in Client : Active(d) => d = c
    BY <1>7 DEF OneAtATime
  <2>2. Fits(pin, pwm, speed, asked, {body[c][1]} \cup Range(t), {})
    BY <1>2, <1>7 DEF WheelsFit
  <2>3. Fits(pin, pwm, speed, asked, Range(t), {})
    BY <2>2, FitsAfterStmt
  <2>4. t = <<>> => Range(t) = {}
    BY RangePair
  <2> QED BY <1>7, <1>8, <2>1, <2>3, <2>4
<1> QED BY <1>9, <1>10, <1>11

(* The statement issues its ioctl. *)
LEMMA StmtIssued ==
  ASSUME LibraryTypes, DriverTypes, Asked, CallsWhole, OneAtATime, WheelsFit,
         NEW c \in Client, Issue(c)
  PROVE  CallsWhole' /\ OneAtATime' /\ WheelsFit'
<1> DEFINE x == body[c][1]
           t == Tail(body[c])
           w == St("wait", x.side, 0, IF x.st = "stop" THEN 1 ELSE 0)
           p == [body[c] EXCEPT ![1] = w]
<1>1. /\ body[c] # <<>> /\ x.st \in Ioctls /\ todo[c] = <<>>
      /\ body' = [body EXCEPT ![c] = p]
      /\ todo' = [todo EXCEPT ![c] = Command(x)]
      /\ pin' = pin /\ pwm' = pwm /\ speed' = speed /\ asked' = asked
      /\ motor_mutex' = motor_mutex /\ process' = process
  BY DEF Issue, Ioctl
<1>2. body'[c] = p /\ \A d \in Client : d # c => body'[d] = body[d]
  <2> HIDE DEF p
  <2> QED BY <1>1 DEF LibraryTypes
<1>3. todo'[c] = Command(x) /\ \A d \in Client : d # c => todo'[d] = todo[d]
  BY <1>1 DEF DriverTypes
<1>4. /\ body[c] \in Seq(Stmt) /\ x \in Stmt /\ Rest(c) = {x} \cup Range(t) /\ Range(t) \subseteq Stmt
      /\ InOrder(body[c]) /\ Head(body[c]) = x
  BY <1>1, BodySeq DEF CallsWhole
<1>5. w \in Stmt /\ w.st = "wait"
  <2>1. x.side \in Side \cup {""}
    BY <1>4 DEF Stmt
  <2>2. (IF x.st = "stop" THEN 1 ELSE 0) \in 0 .. 1
    OBVIOUS
  <2>3. w \in Stmt
    BY <2>1, <2>2, Stmts
  <2>4. w.st = "wait"
    BY DEF St
  <2> QED BY <2>3, <2>4
<1>6. x.st # "lock" /\ x.st # "unlock" /\ x.st # "wait"
  BY <1>1 DEF Ioctls
<1> HIDE DEF w, x
<1>7. p # <<>> /\ p[1] = w /\ Range(p) = {w} \cup Range(t) /\ InOrder(p)
  BY <1>1, <1>4, <1>5, RangeUpdate, OrderedWait
<1>8. \A y \in Range(t) : MayFollow(y, x)
  BY <1>1, <1>4, OrderedTail
<1> HIDE DEF p, t
<1>9. /\ Active(c) /\ Active(c)' /\ Rest(c)' = {w} \cup Range(t) /\ Ops(c) = {}
      /\ Ops(c)' = Range(Command(x)) /\ (Locks(c)' <=> Locks(c))
  <2>1. Active(c) /\ Active(c)' /\ Rest(c)' = {w} \cup Range(t)
    BY <1>1, <1>2, <1>5, <1>6, <1>7 DEF Active, Rest, x
  <2>2. Ops(c) = {} /\ Ops(c)' = Range(Command(x))
    BY <1>1, <1>3, RangePair DEF Ops
  <2>3. Locks(c)' <=> Locks(c)
    BY <1>4, <1>5, <1>6, <2>1 DEF Locks
  <2> QED BY <2>1, <2>2, <2>3
<1>10. \A d \in Client : d # c => /\ Active(d)' <=> Active(d)
                                  /\ Locks(d)' <=> Locks(d)
                                  /\ Rest(d)' = Rest(d) /\ Ops(d)' = Ops(d)
  BY <1>2, <1>3 DEF Active, Locks, Rest, Ops
<1>11. CallsWhole'
  BY <1>2, <1>5, <1>7 DEF CallsWhole, WholeCall
<1>12. OneAtATime'
  <2>1. \A d \in Client : todo'[d] # <<>> => Active(d)' /\ body'[d][1].st = "wait"
    BY <1>2, <1>3, <1>5, <1>7, <1>9, <1>10 DEF OneAtATime
  <2>2. \A d \in Client : ~Line' /\ d # Main => body'[d] = <<>>
    BY <1>1, <1>2 DEF OneAtATime, Line
  <2>3. Sure' => \A d, e \in Client : Active(d)' /\ Active(e)' => d = e
    BY <1>1, <1>9, <1>10 DEF OneAtATime, Sure
  <2>4. \A d \in Client : Active(d)' => (Locks(d)' => motor_mutex' = d) /\ (d # Main => Locks(d)')
    BY <1>1, <1>9, <1>10 DEF OneAtATime
  <2> QED BY <2>1, <2>2, <2>3, <2>4 DEF OneAtATime
<1>13. WheelsFit'
  <2> SUFFICES ASSUME Sure
               PROVE  /\ \A d \in Client : Active(d)' => Fits(pin, pwm, speed, asked, Rest(d)', Ops(d)')
                      /\ (\A d \in Client : ~Active(d)') => Fits(pin, pwm, speed, asked, {}, {})
    BY <1>1 DEF WheelsFit, Sure
  <2>1. \A d \in Client : Active(d) => d = c
    BY <1>9 DEF OneAtATime
  <2>2. Fits(pin, pwm, speed, asked, {x} \cup Range(t), {})
    BY <1>4, <1>9 DEF WheelsFit
  <2>3. Fits(pin, pwm, speed, asked, {w} \cup Range(t), Range(Command(x)))
    BY <1>1, <1>4, <1>8, <2>2, IssueFits DEF w
  <2> QED BY <1>9, <1>10, <2>1, <2>3
<1> QED BY <1>11, <1>12, <1>13

(* The speeds asked for, and the calls that take the mutex, without their      *)
(* lock.                                                                       *)
LEMMA ClampedRange == \A v \in Speeds \cup Arguments : Clamped(v) \in 0 .. Percent
<1>1. \A v \in Int : Clamped(v) \in 0 .. Percent
  BY SpeedDuty
<1> QED BY <1>1, SpeedsAssumption, WordAssumption

LEMMA PairParts ==
  ASSUME NEW a, NEW b
  PROVE  <<a, b>> # <<>> /\ <<a, b>>[1] = a /\ Range(<<a, b>>) = {a} \cup {b}
<1>1. <<a, b>> # <<>> /\ <<a, b>>[1] = a
  OBVIOUS
<1>2. Range(<<a, b>>) = {a, b}
  BY RangePair
<1> QED BY <1>1, <1>2

LEMMA FiveParts ==
  ASSUME NEW a, NEW b, NEW c, NEW d, NEW e
  PROVE  <<a, b, c, d, e>> # <<>> /\ <<a, b, c, d, e>>[1] = a
         /\ Range(<<a, b, c, d, e>>) = {a, b, c, d} \cup {e}
<1>1. <<a, b, c, d, e>> # <<>> /\ <<a, b, c, d, e>>[1] = a
  OBVIOUS
<1>2. Range(<<a, b, c, d, e>>) = {a, b, c, d, e}
  BY RangeFive
<1> QED BY <1>1, <1>2

LEMMA AskedRecord ==
  ASSUME NEW d \in {0, 1}, NEW p \in 0 .. Percent
  PROVE  [sure |-> TRUE, dir |-> d, pct |-> p] \in [sure : {TRUE}, dir : {0, 1}, pct : 0 .. Percent]
OBVIOUS

(* What taking the mutex asks of the wheels, and what is then left of the call. *)
LEMMA LockedCallFits ==
  ASSUME Asked, NEW q, q = stop_all_motors \/ \E l, r \in Speeds : q = apply_motor_speed(l, r),
         NEW pn, NEW pw, NEW sp
  PROVE  /\ Fits(pn, pw, sp, Request(q), Range(Tail(q)), {})
         /\ Tail(q) # <<>> /\ Tail(q)[1].st # "lock" /\ \E x \in Range(Tail(q)) : x.st = "unlock"
         /\ \A s \in Side : Request(q)[s] \in [sure : {TRUE}, dir : {0, 1}, pct : 0 .. Percent]
<1> DEFINE f == St("unlock", "", 0, 0)  t == Tail(q)  rq == Request(q)
<1>f. f.st = "unlock"
  BY DEF St
<1>s. "left" \in Side /\ "right" \in Side /\ \A s \in Side : s = "left" \/ s = "right"
  BY DEF Side
<1>a. \A s \in Side : asked[s].pct \in 0 .. Percent
  BY DEF Asked
<1> SUFFICES /\ Fits(pn, pw, sp, rq, Range(t), {})
             /\ t # <<>> /\ t[1].st # "lock" /\ \E x \in Range(t) : x.st = "unlock"
             /\ \A s \in Side : rq[s] \in [sure : {TRUE}, dir : {0, 1}, pct : 0 .. Percent]
  OBVIOUS
<1>1. CASE q = stop_all_motors
  <2> DEFINE e == St("lock", "", 0, 0)  a == St("stop", "", 0, 0)
  <2>1. a.st = "stop"
    BY DEF St
  <2>2. q = <<e, a, f>>
    BY <1>1, CallsAre
  <2>3. \A s \in Side : rq[s] = [sure |-> TRUE, dir |-> 0, pct |-> asked[s].pct]
    BY <1>1, Requests
  <2> HIDE DEF e, a, f
  <2>4. t = <<a, f>>
    BY <2>2, RangeTriple
  <2> HIDE DEF t, rq
  <2>5. Range(t) = {a} \cup {f} /\ t # <<>> /\ t[1] = a
    BY <2>4, PairParts
  <2>6. Still(rq)
    <3> SUFFICES ASSUME NEW s \in Side PROVE rq[s].dir = 0
      BY DEF Still
    <3> DEFINE y == rq[s]
    <3>1. y = [sure |-> TRUE, dir |-> 0, pct |-> asked[s].pct]
      BY <2>3
    <3> HIDE DEF y
    <3>2. y.dir = 0
      BY <3>1
    <3> QED BY <3>2 DEF y
  <2>7. Fits(pn, pw, sp, rq, {a} \cup {f}, {})
    BY <1>f, <2>1, <2>6, StopFits
  <2>8. \A s \in Side : rq[s] \in [sure : {TRUE}, dir : {0, 1}, pct : 0 .. Percent]
    <3> SUFFICES ASSUME NEW s \in Side PROVE rq[s] \in [sure : {TRUE}, dir : {0, 1}, pct : 0 .. Percent]
      OBVIOUS
    <3>1. rq[s] = [sure |-> TRUE, dir |-> 0, pct |-> asked[s].pct]
      BY <2>3
    <3>2. asked[s].pct \in 0 .. Percent
      BY <1>a
    <3> QED BY <3>1, <3>2, AskedRecord
  <2> QED BY <1>f, <2>1, <2>5, <2>7, <2>8
<1>2. CASE \E l, r \in Speeds : q = apply_motor_speed(l, r)
  <2>0. PICK l \in Speeds, r \in Speeds : q = apply_motor_speed(l, r)
    BY <1>2
  <2> DEFINE a == St("speed", "left", l, 1)  b == St("direction", "left", 1, 0)
             c == St("speed", "right", r, 1)  d == St("direction", "right", 1, 0)
             e == St("lock", "", 0, 0)
  <2>1. a.st = "speed"
    BY DEF St
  <2>2. q = <<e, a, b, c, d, f>>
    BY <2>0, CallsAre
  <2>3. /\ rq["left"] = [sure |-> TRUE, dir |-> 1, pct |-> Clamped(l)]
        /\ rq["right"] = [sure |-> TRUE, dir |-> 1, pct |-> Clamped(r)]
    <3>1. \A v, w :
            /\ Request(apply_motor_speed(v, w))["left"] = [sure |-> TRUE, dir |-> 1, pct |-> Clamped(v)]
            /\ Request(apply_motor_speed(v, w))["right"] = [sure |-> TRUE, dir |-> 1, pct |-> Clamped(w)]
      BY RequestOfLockedMoves
    <3>2. rq = Request(apply_motor_speed(l, r))
      BY <2>0
    <3> HIDE DEF rq
    <3> QED BY <3>1, <3>2
  <2> HIDE DEF f, rq
  <2>4. Fits(pn, pw, sp, rq, {a, b, c, d} \cup {f}, {})
    <3>1. GivesBack({f})
      BY <1>f DEF GivesBack
    <3>2. Moved(rq, l, 1, r, 1)
      BY <2>3 DEF Moved
    <3> DEFINE E == {f}
    <3> HIDE DEF E
    <3>3. Fits(pn, pw, sp, rq, Movement(l, 1, r, 1) \cup E, {})
      BY <3>1, <3>2, MovesFit DEF E
    <3>4. Movement(l, 1, r, 1) = {a, b, c, d}
      BY DEF Movement
    <3> QED BY <3>3, <3>4 DEF E
  <2> HIDE DEF a, b, c, d, e
  <2>5. t = <<a, b, c, d, f>>
    BY <2>2, RangeFive
  <2> HIDE DEF t
  <2>6. Range(t) = {a, b, c, d} \cup {f} /\ t # <<>> /\ t[1] = a
    BY <2>5, FiveParts
  <2>8. \A s \in Side : rq[s] \in [sure : {TRUE}, dir : {0, 1}, pct : 0 .. Percent]
    <3>1. Clamped(l) \in 0 .. Percent /\ Clamped(r) \in 0 .. Percent
      BY ClampedRange
    <3> SUFFICES ASSUME NEW s \in Side PROVE rq[s] \in [sure : {TRUE}, dir : {0, 1}, pct : 0 .. Percent]
      OBVIOUS
    <3>2. CASE s = "left"
      BY <2>3, <3>1, <3>2, AskedRecord
    <3>3. CASE s = "right"
      BY <2>3, <3>1, <3>3, AskedRecord
    <3> QED BY <1>s, <3>2, <3>3
  <2> QED BY <1>f, <2>1, <2>4, <2>6, <2>8
<1> QED BY <1>1, <1>2

(* A call takes the mutex: it is then the only one, but for one of the main    *)
(* thread without it.                                                          *)
LEMMA LockTaken ==
  ASSUME LibraryTypes, DriverTypes, Asked, CallsWhole, OneAtATime, WheelsFit,
         NEW c \in Client, Lock(c)
  PROVE  CallsWhole' /\ OneAtATime' /\ WheelsFit' /\ Asked'
<1> DEFINE q == body[c]  t == Tail(q)
           mixed == Line /\ c # Main /\ body[Main] # <<>> /\ body[Main][1].st \in Unlocked
<1>1. /\ q # <<>> /\ q[1].st = "lock" /\ motor_mutex = "free" /\ motor_mutex' = c
      /\ asked' = (IF mixed THEN [s \in Side |-> Unsure] ELSE Request(q))
      /\ body' = [body EXCEPT ![c] = t]
      /\ pin' = pin /\ pwm' = pwm /\ speed' = speed /\ todo' = todo /\ process' = process
  BY DEF Lock, driver
<1>2. body'[c] = t /\ \A d \in Client : d # c => body'[d] = body[d]
  <2> HIDE DEF t
  <2> QED BY <1>1 DEF LibraryTypes
<1>3. q = stop_all_motors \/ \E l, r \in Speeds : q = apply_motor_speed(l, r)
  BY <1>1 DEF CallsWhole, WholeCall
<1>4. /\ Fits(pin, pwm, speed, Request(q), Range(t), {})
      /\ t # <<>> /\ t[1].st # "lock" /\ \E x \in Range(t) : x.st = "unlock"
      /\ \A s \in Side : Request(q)[s] \in [sure : {TRUE}, dir : {0, 1}, pct : 0 .. Percent]
  BY <1>3, LockedCallFits
<1>5. q \in Seq(Stmt) /\ InOrder(t)
  BY <1>1, BodySeq, OrderedTail DEF CallsWhole
<1>6. ~Active(c) /\ todo[c] = <<>> /\ Ops(c) = {}
  <2>1. ~Active(c)
    BY <1>1 DEF Active
  <2> QED BY <2>1, NothingQueued
<1>m. Main \in Client /\ "free" \notin Client
  BY MainAssumption
<1> HIDE DEF q, t
<1>7. Active(c)' /\ Locks(c)' /\ Rest(c)' = Range(t) /\ Ops(c)' = {}
  BY <1>1, <1>2, <1>4, <1>6 DEF Active, Locks, Rest, Ops
<1>8. \A d \in Client : d # c => /\ Active(d)' <=> Active(d)
                                 /\ Locks(d)' <=> Locks(d)
  BY <1>2 DEF Active, Locks, Rest
<1>9. \A d \in Client : Active(d) => d = Main /\ ~Locks(d)
  BY <1>1, <1>m DEF OneAtATime
<1>10. ASSUME ~mixed PROVE \A d \in Client : ~Active(d)
  <2> SUFFICES ASSUME Active(Main) PROVE FALSE
    BY <1>9
  <2>1. c # Main /\ body[Main] # <<>> /\ body[Main][1].st # "lock"
    BY <1>6 DEF Active
  <2>2. Line
    BY <1>1, <2>1 DEF OneAtATime, q
  <2>3. body[Main][1] \in Stmt /\ body[Main][1] \in Rest(Main)
    BY <1>m, <2>1, BodySeq
  <2>4. body[Main][1].st # "unlock"
    BY <1>9, <1>m, <2>3 DEF Locks
  <2>5. \A x \in Stmt : x.st \in Unlocked \cup {"lock", "unlock"}
    BY DEF Stmt, Unlocked, Ioctls
  <2> QED BY <1>10, <2>1, <2>2, <2>3, <2>4, <2>5
<1>11. Sure' => ~mixed
  BY <1>1 DEF Sure, Side, Unsure
<1> HIDE DEF mixed
<1>12. CallsWhole'
  BY <1>2, <1>4, <1>5 DEF CallsWhole, WholeCall
<1>13. Sure' => \A d \in Client : Active(d)' => d = c
  BY <1>8, <1>10, <1>11
<1>14. OneAtATime'
  <2>1. \A d \in Client : todo'[d] # <<>> => Active(d)' /\ body'[d][1].st = "wait"
    BY <1>1, <1>2, <1>6, <1>8 DEF OneAtATime
  <2>2. \A d \in Client : ~Line' /\ d # Main => body'[d] = <<>>
    BY <1>1, <1>2 DEF OneAtATime, Line, q
  <2>3. \A d \in Client : Active(d)' => (Locks(d)' => motor_mutex' = d) /\ (d # Main => Locks(d)')
    BY <1>1, <1>7, <1>8, <1>9
  <2> QED BY <1>13, <2>1, <2>2, <2>3 DEF OneAtATime
<1>15. WheelsFit'
  <2>1. Sure' => asked' = Request(q)
    BY <1>1, <1>11
  <2>2. Sure' => Fits(pin', pwm', speed', asked', Rest(c)', Ops(c)')
    BY <1>1, <1>4, <1>7, <2>1
  <2> QED BY <1>7, <1>13, <2>2 DEF WheelsFit
<1>16. Asked'
  <2>n. 0 \in 0 .. Percent
    BY WordAssumption
  <2>1. CASE mixed
    <3>1. asked' = [s \in Side |-> Unsure]
      BY <1>1, <2>1
    <3>2. Unsure \in [sure : BOOLEAN, dir : {-1, 0, 1}, pct : 0 .. Percent] 
      BY <2>n DEF Unsure
    <3> HIDE DEF Unsure
    <3> QED BY <3>1, <3>2 DEF Asked, Side
  <2>2. CASE ~mixed
    <3>1. asked' = Request(q)
      BY <1>1, <2>2
    <3>2. Request(q) = [s \in Side |-> Request(q)[s]]
      BY RequestSides
    <3> QED BY <1>4, <3>1, <3>2 DEF Asked, Side
  <2> QED BY <2>1, <2>2
<1> QED BY <1>12, <1>14, <1>15, <1>16

-----------------------------------------------------------------------------
(* Programs *)

(* An operation of the driver changes what is left of the ioctl of its thread. *)
LEMMA OperationTodo ==
  ASSUME DriverTypes, NEW c \in Client, Operation(c)
  PROVE  todo[c] # <<>> /\ \A d \in Client : d # c => todo'[d] = todo[d]
<1>1. \A q : todo' = [todo EXCEPT ![c] = q] => \A d \in Client : d # c => todo'[d] = todo[d]
  BY DEF DriverTypes
<1>2. \E q : todo' = [todo EXCEPT ![c] = q]
  BY DEF Operation, SetSpeed, SetPin, ConfigField, ConfigLocal, ConfigZero, ConfigPeriod,
         SetPeriod, Enable, Configure, Advance
<1> QED BY <1>1, <1>2 DEF Operation

(* An operation of the driver.                                                 *)
LEMMA OperationDone ==
  ASSUME LibraryTypes, DriverTypes, Asked, CallsWhole, OneAtATime, WheelsFit,
         NEW c \in Client, Operation(c), UNCHANGED <<library, asked>>
  PROVE  CallsWhole' /\ OneAtATime' /\ WheelsFit' /\ Asked'
<1>1. body' = body /\ motor_mutex' = motor_mutex /\ process' = process /\ asked' = asked
  BY DEF library
<1>2. todo[c] # <<>> /\ \A d \in Client : d # c => todo'[d] = todo[d]
  BY OperationTodo
<1>3. Active(c) /\ body[c][1].st = "wait"
  BY <1>2 DEF OneAtATime
<1>4. \A d \in Client : /\ Active(d)' <=> Active(d)
                        /\ Locks(d)' <=> Locks(d)
                        /\ Rest(d)' = Rest(d)
  BY <1>1 DEF Active, Locks, Rest
<1>5. CallsWhole'
  BY <1>1 DEF CallsWhole
<1>6. OneAtATime'
  <2>1. \A d \in Client : todo'[d] # <<>> => Active(d)' /\ body'[d][1].st = "wait"
    BY <1>1, <1>2, <1>3, <1>4 DEF OneAtATime
  <2>2. \A d \in Client : ~Line' /\ d # Main => body'[d] = <<>>
    BY <1>1 DEF OneAtATime, Line
  <2>3. Sure' => \A d, e \in Client : Active(d)' /\ Active(e)' => d = e
    BY <1>1, <1>4 DEF OneAtATime, Sure
  <2>4. \A d \in Client : Active(d)' => (Locks(d)' => motor_mutex' = d) /\ (d # Main => Locks(d)')
    BY <1>1, <1>4 DEF OneAtATime
  <2> QED BY <2>1, <2>2, <2>3, <2>4 DEF OneAtATime
<1>7. WheelsFit'
  <2> SUFFICES ASSUME Sure
               PROVE  /\ \A d \in Client : Active(d)' => Fits(pin', pwm', speed', asked, Rest(d), Ops(d)')
                      /\ ~\A d \in Client : ~Active(d)'
    BY <1>1, <1>4 DEF WheelsFit, Sure
  <2>1. \A d \in Client : Active(d) => d = c
    BY <1>3 DEF OneAtATime
  <2>2. Fits(pin, pwm, speed, asked, Rest(c), Ops(c))
    BY <1>3 DEF WheelsFit
  <2>3. Fits(pin', pwm', speed', asked, Rest(c), Ops(c)')
    BY <2>2, OperationFits
  <2> QED BY <1>3, <1>4, <2>1, <2>3
<1>8. Asked'
  BY <1>1 DEF Asked
<1> QED BY <1>5, <1>6, <1>7, <1>8

(* Nothing is left of any call. *)
LEMMA NothingWhole == InOrder(<<>>) /\ WholeCall(<<>>)
<1>1. Len(<<>>) = 0
  OBVIOUS
<1> QED BY <1>1 DEF InOrder, WholeCall

LEMMA AllAtRest ==
  ASSUME \A c \in Client : body'[c] = <<>> /\ todo'[c] = <<>>,
         Sure' => Fits(pin', pwm', speed', asked', {}, {})
  PROVE  CallsWhole' /\ OneAtATime' /\ WheelsFit'
<1>1. \A c \in Client : ~Active(c)'
  BY DEF Active
<1>2. CallsWhole'
  BY NothingWhole DEF CallsWhole
<1>3. OneAtATime'
  BY <1>1 DEF OneAtATime
<1> QED BY <1>1, <1>2, <1>3 DEF WheelsFit

(* What is asked of the wheels when a process ends, and at first. *)
LEMMA AskedStill ==
  ASSUME NEW sp \in [Side -> 0 .. Percent], NEW as,
         as = [s \in Side |-> [sure |-> TRUE, dir |-> 0, pct |-> sp[s]]]
  PROVE  /\ as \in [Side -> [sure : BOOLEAN, dir : {-1, 0, 1}, pct : 0 .. Percent]]
         /\ as["left"].sure /\ as["right"].sure /\ Still(as)
         /\ \A s \in Side : as[s].pct = sp[s]
<1>1. \A s \in Side : /\ as[s].sure /\ as[s].dir = 0 /\ as[s].pct = sp[s]
                      /\ as[s] \in [sure : BOOLEAN, dir : {-1, 0, 1}, pct : 0 .. Percent]
  <2> SUFFICES ASSUME NEW s \in Side
               PROVE  /\ as[s].sure /\ as[s].dir = 0 /\ as[s].pct = sp[s]
                      /\ as[s] \in [sure : BOOLEAN, dir : {-1, 0, 1}, pct : 0 .. Percent]
    OBVIOUS
  <2> DEFINE p == sp[s]  y == as[s]
  <2>1. p \in 0 .. Percent /\ y = [sure |-> TRUE, dir |-> 0, pct |-> p]
    OBVIOUS
  <2> HIDE DEF p, y
  <2>2. y.sure /\ y.dir = 0 /\ y.pct = p /\ y \in [sure : BOOLEAN, dir : {-1, 0, 1}, pct : 0 .. Percent]
    BY <2>1
  <2> QED BY <2>2 DEF p, y
<1>2. as = [s \in Side |-> as[s]]
  OBVIOUS
<1>3. as \in [Side -> [sure : BOOLEAN, dir : {-1, 0, 1}, pct : 0 .. Percent]]
  BY <1>1, <1>2
<1> QED BY <1>1, <1>3 DEF Still, Side

(* The process ends: the release of the driver stops the wheels.               *)
LEMMA ProgramOver ==
  ASSUME Types, Types', Exit
  PROVE  CallsWhole' /\ OneAtATime' /\ WheelsFit' /\ Asked' /\ BetweenPrograms'
<1>1. /\ process' = "none" /\ motor_state' = StartState /\ motor_mutex' = "free"
      /\ asked' = [s \in Side |-> [sure |-> TRUE, dir |-> 0, pct |-> speed[s]]]
      /\ speed' = speed
  BY DEF Exit, motor_release
<1>2. \A c \in Client : body'[c] = <<>> /\ todo'[c] = <<>>
  BY DEF Exit, motor_release
<1>3. \A p \in Pins : pin'[p] = 0
  BY DEF Exit, motor_release, Pins
<1>4. speed' \in [Side -> 0 .. Percent]
  BY DEF Types, DriverTypes
<1>5. Asked' /\ Sure' /\ Still(asked') /\ \A s \in Side : asked'[s].pct = speed'[s]
  BY <1>1, <1>4, AskedStill DEF Asked, Sure
<1>6. Fits(pin', pwm', speed', asked', {}, {})
  BY <1>3, <1>5, StillFits
<1>7. CallsWhole' /\ OneAtATime' /\ WheelsFit'
  BY <1>2, <1>6, AllAtRest
<1>8. \A c \in Client : Rest(c)' = {} /\ Ops(c)' = {}
  BY <1>2, RangePair DEF Rest, Ops
<1>9. BetweenPrograms'
  BY <1>1, <1>2, <1>5, <1>8 DEF BetweenPrograms, Sure, Rest, Ops, StartState
<1> QED BY <1>5, <1>7, <1>9

(* At first the wheels stand, and nothing has been asked of them.              *)
LEMMA WheelsAtFirst ==
  ASSUME Init
  PROVE  WheelsInv
<1>1. /\ process = "none" /\ motor_state = StartState /\ motor_mutex = "free"
      /\ asked = [s \in Side |-> [sure |-> TRUE, dir |-> 0, pct |-> speed[s]]]
      /\ \A c \in Client : body[c] = <<>> /\ todo[c] = <<>>
      /\ \A p \in Pins : pin[p] = 0
  BY DEF Init, DriverInit, Pins
<1>t. Types
  BY InitMotorTypes
<1>4. speed \in [Side -> 0 .. Percent]
  BY <1>t DEF Types, DriverTypes
<1>5. Asked /\ Sure /\ Still(asked) /\ \A s \in Side : asked[s].pct = speed[s]
  BY <1>1, <1>4, AskedStill DEF Asked, Sure
<1>6. Fits(pin, pwm, speed, asked, {}, {})
  BY <1>1, <1>5, StillFits
<1>7. CallsWhole /\ OneAtATime /\ WheelsFit
  <2>1. \A c \in Client : ~Active(c)
    BY <1>1 DEF Active
  <2>2. CallsWhole
    BY <1>1, NothingWhole DEF CallsWhole
  <2>3. OneAtATime
    BY <1>1, <2>1 DEF OneAtATime
  <2> QED BY <1>6, <2>1, <2>2, <2>3 DEF WheelsFit
<1>8. \A c \in Client : Rest(c) = {} /\ Ops(c) = {}
  BY <1>1, RangePair DEF Rest, Ops
<1>9. BetweenPrograms
  BY <1>1, <1>5, <1>8 DEF BetweenPrograms
<1> QED BY <1>t, <1>5, <1>7, <1>9 DEF WheelsInv

(* A program begins. *)
LEMMA ProgramBegins ==
  ASSUME Asked, CallsWhole, OneAtATime, WheelsFit, BetweenPrograms, Restart
  PROVE  CallsWhole' /\ OneAtATime' /\ WheelsFit' /\ Asked' /\ BetweenPrograms'
<1>1. /\ process = "none" /\ process' # "none" /\ body' = body /\ todo' = todo
      /\ pin' = pin /\ pwm' = pwm /\ speed' = speed /\ asked' = asked
      /\ motor_mutex' = motor_mutex /\ motor_state' = motor_state
  BY DEF Restart, driver
<1>2. \A c \in Client : body[c] = <<>> /\ todo[c] = <<>>
  BY <1>1 DEF BetweenPrograms
<1>3. Sure => Fits(pin, pwm, speed, asked, {}, {})
  BY <1>2 DEF WheelsFit, Active
<1>4. CallsWhole' /\ OneAtATime' /\ WheelsFit'
  BY <1>1, <1>2, <1>3, AllAtRest DEF Sure
<1>5. BetweenPrograms'
  BY <1>1 DEF BetweenPrograms, Sure, Rest, Ops, StartState
<1> QED BY <1>1, <1>4, <1>5 DEF Asked

(* The keyboard program stops the motors when it ends, whatever it was doing. *)
LEMMA CleansUp ==
  ASSUME LibraryTypes, DriverTypes, Asked, CallsWhole, OneAtATime, WheelsFit, cleanup_and_exit
  PROVE  CallsWhole' /\ OneAtATime' /\ WheelsFit' /\ Asked' /\ BetweenPrograms'
<1> DEFINE x == St("stop", "", 0, 0)  q == <<x>>
<1>1. /\ process \in Hand /\ process' = "ending" /\ todo[Main] = <<>>
      /\ body' = [body EXCEPT ![Main] = q] /\ asked' = Request(body'[Main])
      /\ pin' = pin /\ pwm' = pwm /\ speed' = speed /\ todo' = todo
      /\ motor_mutex' = motor_mutex
  BY DEF cleanup_and_exit, driver
<1>m. Main \in Client
  BY MainAssumption
<1>x. x.st = "stop"
  BY DEF St
<1>r. \A s \in Side : Request(q)[s] = [sure |-> TRUE, dir |-> 0, pct |-> asked[s].pct]
  BY Requests
<1>q. q # <<>> /\ q[1] = x /\ Range(q) = {x} \cup {} /\ InOrder(q)
  BY RangePair, CallsInOrder
<1> HIDE DEF x, q
<1>2. body'[Main] = q /\ \A d \in Client : d # Main => body'[d] = body[d]
  BY <1>1, <1>m DEF LibraryTypes
<1>3. ~Line /\ ~Line'
  BY <1>1 DEF Line, Hand
<1>4. \A d \in Client : d # Main => body[d] = <<>> /\ body'[d] = <<>> /\ todo[d] = <<>>
  BY <1>2, <1>3 DEF OneAtATime, Active
<1>5. /\ Active(Main)' /\ ~Locks(Main)' /\ Rest(Main)' = {x} \cup {} /\ Ops(Main)' = {}
      /\ \A d \in Client : d # Main => ~Active(d)'
  BY <1>1, <1>2, <1>4, <1>q, <1>x, RangePair DEF Active, Locks, Rest, Ops
<1>6. CallsWhole'
  BY <1>2, <1>q, <1>x DEF CallsWhole, WholeCall
<1>7. OneAtATime'
  BY <1>1, <1>4, <1>5 DEF OneAtATime
<1>8. asked' = Request(q)
  BY <1>1, <1>2
<1>9. Asked' /\ Still(asked')
  <2>1. ASSUME NEW s \in Side
        PROVE  asked'[s].sure /\ asked'[s].dir = 0
               /\ asked'[s] \in [sure : BOOLEAN, dir : {-1, 0, 1}, pct : 0 .. Percent]
    <3> DEFINE y == asked'[s]  p == asked[s].pct
    <3>1. y = [sure |-> TRUE, dir |-> 0, pct |-> p] /\ p \in 0 .. Percent
      BY <1>8, <1>r, <2>1 DEF Asked
    <3> HIDE DEF y, p
    <3>2. y.sure /\ y.dir = 0 /\ y \in [sure : BOOLEAN, dir : {-1, 0, 1}, pct : 0 .. Percent]
      BY <3>1
    <3> QED BY <3>2 DEF y
  <2>2. asked' = [s \in Side |-> asked'[s]]
    <3>1. Request(q) = [s \in Side |-> Request(q)[s]]
      BY RequestSides
    <3> QED BY <1>8, <3>1
  <2>3. asked' \in [Side -> [sure : BOOLEAN, dir : {-1, 0, 1}, pct : 0 .. Percent]]
    BY <2>1, <2>2
  <2> QED BY <2>1, <2>3 DEF Asked, Still, Side
<1>10. Fits(pin', pwm', speed', asked', {x} \cup {}, {})
  BY <1>9, <1>x, StopFits
<1>11. WheelsFit'
  BY <1>m, <1>5, <1>10 DEF WheelsFit
<1>12. BetweenPrograms'
  BY <1>1 DEF BetweenPrograms
<1> QED BY <1>6, <1>7, <1>9, <1>11, <1>12

(* Steps that no call and no wheel sees. *)
LEMMA NothingAsked ==
  ASSUME Asked, CallsWhole, OneAtATime, WheelsFit,
         UNCHANGED <<driver, body, motor_mutex, asked>>, Line' <=> Line
  PROVE  CallsWhole' /\ OneAtATime' /\ WheelsFit' /\ Asked'
<1>1. /\ body' = body /\ todo' = todo /\ pin' = pin /\ pwm' = pwm /\ speed' = speed
      /\ motor_mutex' = motor_mutex /\ asked' = asked
  BY DEF driver
<1>2. \A d \in Client : /\ Active(d)' <=> Active(d)
                        /\ Locks(d)' <=> Locks(d)
                        /\ Rest(d)' = Rest(d) /\ Ops(d)' = Ops(d)
  BY <1>1 DEF Active, Locks, Rest, Ops
<1>3. CallsWhole'
  BY <1>1 DEF CallsWhole
<1>4. OneAtATime'
  <2>1. \A d \in Client : todo'[d] # <<>> => Active(d)' /\ body'[d][1].st = "wait"
    BY <1>1, <1>2 DEF OneAtATime
  <2>2. \A d \in Client : ~Line' /\ d # Main => body'[d] = <<>>
    BY <1>1 DEF OneAtATime
  <2>3. Sure' => \A d, e \in Client : Active(d)' /\ Active(e)' => d = e
    BY <1>1, <1>2 DEF OneAtATime, Sure
  <2>4. \A d \in Client : Active(d)' => (Locks(d)' => motor_mutex' = d) /\ (d # Main => Locks(d)')
    BY <1>1, <1>2 DEF OneAtATime
  <2> QED BY <2>1, <2>2, <2>3, <2>4 DEF OneAtATime
<1>5. WheelsFit'
  BY <1>1, <1>2 DEF WheelsFit, Sure
<1> QED BY <1>1, <1>3, <1>4, <1>5 DEF Asked

-----------------------------------------------------------------------------
(* Calls begin *)

(* What may be asked of a wheel. *)
AskedOf == [sure : BOOLEAN, dir : {-1, 0, 1}, pct : 0 .. Percent]

(* What a call without the mutex asks, when it begins. *)
LEMMA StartAsked ==
  ASSUME NEW q, q[1].st # "lock", Start(Main, q),
         \A s \in Side : Request(q)[s] \in AskedOf,
         Request(q)["left"].sure <=> Request(q)["right"].sure
  PROVE  Asked'
<1>n. 0 \in 0 .. Percent
  BY WordAssumption
<1>1. CASE motor_mutex # "free"
  <2>1. asked' = [s \in Side |-> Unsure]
    BY <1>1 DEF Start
  <2>2. Unsure \in AskedOf
    BY <1>n DEF Unsure, AskedOf
  <2> HIDE DEF Unsure
  <2> QED BY <2>1, <2>2 DEF Asked, AskedOf, Side
<1>2. CASE motor_mutex = "free"
  <2>1. asked' = Request(q)
    BY <1>2 DEF Start
  <2>2. Request(q) = [s \in Side |-> Request(q)[s]]
    BY RequestSides
  <2>3. Request(q) \in [Side -> AskedOf]
    BY <2>2
  <2> QED BY <2>1, <2>3 DEF Asked, AskedOf
<1> QED BY <1>1, <1>2

(* Records.                                                                    *)
LEMMA RecordAsked ==
  ASSUME NEW d \in {-1, 0, 1}, NEW p \in 0 .. Percent, NEW x, x = [sure |-> TRUE, dir |-> d, pct |-> p]
  PROVE  x \in AskedOf /\ x.sure /\ x.dir = d /\ x.pct = p
BY DEF AskedOf

LEMMA RequestOfBoth ==
  \A s \in Side : \A a, b : Request(<<St("both", "", a, b)>>)[s]
                     = [sure |-> TRUE, dir |-> IF s = "left" THEN a ELSE b, pct |-> asked[s].pct]
BY Requests, Zenon

(* A movement of the wheels, by the main thread. *)
LEMMA MovesStarted ==
  ASSUME LibraryTypes, DriverTypes, Asked, CallsWhole, OneAtATime, WheelsFit,
         NEW l \in Percentages, NEW r \in Percentages, NEW dl \in {-1, 0, 1}, NEW dr \in {-1, 0, 1},
         Start(Main, set_motors(l, dl, r, dr)), Line' <=> Line
  PROVE  CallsWhole' /\ OneAtATime' /\ WheelsFit' /\ Asked'
<1> DEFINE q == set_motors(l, dl, r, dr)
           a == St("speed", "left", l, dl)  b == St("direction", "left", dl, 0)
           c == St("speed", "right", r, dr)  d == St("direction", "right", dr, 0)
<1>1. q = <<a, b, c, d>>
  BY CallsAre
<1>2. InOrder(q)
  BY CallsInOrder
<1>3. /\ Request(q)["left"] = [sure |-> TRUE, dir |-> dl, pct |-> Clamped(l)]
      /\ Request(q)["right"] = [sure |-> TRUE, dir |-> dr, pct |-> Clamped(r)]
  BY RequestOfMoves
<1>4. Clamped(l) \in 0 .. Percent /\ Clamped(r) \in 0 .. Percent
  BY PercentagesInt, SpeedDuty
<1>5. a.st = "speed" /\ b.st = "direction" /\ c.st = "speed" /\ d.st = "direction"
  BY DEF St
<1>6. /\ Request(q)["left"] \in AskedOf /\ Request(q)["left"].sure
      /\ Request(q)["left"].dir = dl /\ Request(q)["left"].pct = Clamped(l)
      /\ Request(q)["right"] \in AskedOf /\ Request(q)["right"].sure
      /\ Request(q)["right"].dir = dr /\ Request(q)["right"].pct = Clamped(r)
  BY <1>3, <1>4, RecordAsked
<1>s. Start(Main, q)
  OBVIOUS
<1> HIDE DEF q
<1>7. Fits(pin, pwm, speed, Request(q), Movement(l, dl, r, dr) \cup {}, {})
  <2>1. GivesBack({})
    BY DEF GivesBack
  <2>2. Moved(Request(q), l, dl, r, dr)
    BY <1>6 DEF Moved
  <2> QED BY <2>1, <2>2, MovesFit
<1>m. Movement(l, dl, r, dr) = {a, b, c, d}
  BY DEF Movement
<1>8. Range(q) = {a, b, c, d} /\ q # <<>> /\ q[1] = a
  <2> HIDE DEF a, b, c, d
  <2>1. Range(q) = {a, b, c, d}
    BY <1>1, RangeFour
  <2>2. q # <<>> /\ q[1] = a
    BY <1>1
  <2> QED BY <2>1, <2>2
<1>9. Fits(pin, pwm, speed, Request(q), Range(q), {})
  <2> HIDE DEF a, b, c, d
  <2>1. Movement(l, dl, r, dr) \cup {} = Range(q)
    BY <1>m, <1>8
  <2> QED BY <1>7, <2>1
<1> HIDE DEF a, b, c, d
<1>10. q[1].st # "lock" /\ \A x \in Range(q) : x.st # "unlock"
  BY <1>5, <1>8
<1>11. CallsWhole' /\ OneAtATime' /\ WheelsFit'
  BY <1>2, <1>8, <1>9, <1>10, <1>s, StartUnlocked
<1>12. Asked'
  <2>1. \A s \in Side : Request(q)[s] \in AskedOf
    BY <1>6 DEF Side
  <2> QED BY <1>6, <1>10, <1>s, <2>1, StartAsked
<1> QED BY <1>11, <1>12

(* A call of one statement that takes no mutex. *)
LEMMA OneStarted ==
  ASSUME LibraryTypes, DriverTypes, Asked, CallsWhole, OneAtATime, WheelsFit,
         NEW x, x.st \in {"both", "period"}, Start(Main, <<x>>), Line' <=> Line,
         Fits(pin, pwm, speed, Request(<<x>>), {x}, {}),
         \A s \in Side : Request(<<x>>)[s] \in AskedOf,
         Request(<<x>>)["left"].sure <=> Request(<<x>>)["right"].sure
  PROVE  CallsWhole' /\ OneAtATime' /\ WheelsFit' /\ Asked'
<1> DEFINE q == <<x>>
<1>1. q # <<>> /\ q[1] = x /\ Range(q) = {x} /\ InOrder(q)
  BY RangePair, CallsInOrder
<1>2. Start(Main, q) /\ Fits(pin, pwm, speed, Request(q), {x}, {})
  OBVIOUS
<1>3. \A s \in Side : Request(q)[s] \in AskedOf
  OBVIOUS
<1>4. Request(q)["left"].sure <=> Request(q)["right"].sure
  OBVIOUS
<1> HIDE DEF q
<1>5. q[1].st # "lock" /\ \A y \in Range(q) : y.st # "unlock"
  BY <1>1
<1>6. Fits(pin, pwm, speed, Request(q), Range(q), {})
  BY <1>1, <1>2
<1>7. CallsWhole' /\ OneAtATime' /\ WheelsFit'
  BY <1>1, <1>2, <1>5, <1>6, StartUnlocked
<1>8. Asked'
  BY <1>2, <1>3, <1>4, <1>5, StartAsked
<1> QED BY <1>7, <1>8

(* The period is set before the first key is read, while the wheels stand. *)
LEMMA PeriodStarted ==
  ASSUME LibraryTypes, DriverTypes, Asked, CallsWhole, OneAtATime, WheelsFit, BetweenPrograms,
         SetPwmPeriod
  PROVE  CallsWhole' /\ OneAtATime' /\ WheelsFit' /\ Asked'
<1> DEFINE x == St("period", "", DefaultPeriod, 0)
<1>1. process = "hand_start" /\ process' \in {"keys", "command"} /\ Start(Main, <<x>>)
  BY DEF SetPwmPeriod
<1>2. /\ \A c \in Client : body[c] = <<>> /\ todo[c] = <<>>
      /\ Sure /\ Still(asked)
  BY <1>1 DEF BetweenPrograms
<1>3. Fits(pin, pwm, speed, asked, {}, {})
  BY <1>2 DEF WheelsFit, Active
<1>4. x.st = "period"
  BY DEF St
<1>5. Request(<<x>>) = asked
  <2>1. \A s \in Side : Request(<<x>>)[s] = asked[s]
    BY Requests
  <2>2. Request(<<x>>) = [s \in Side |-> Request(<<x>>)[s]]
    BY RequestSides
  <2>3. asked = [s \in Side |-> asked[s]]
    BY DEF Asked
  <2> HIDE DEF x
  <2> QED BY <2>1, <2>2, <2>3
<1> HIDE DEF x
<1>6. Fits(pin, pwm, speed, Request(<<x>>), {x}, {})
  BY <1>2, <1>3, <1>4, <1>5, PeriodFits
<1>7. \A s \in Side : Request(<<x>>)[s] \in AskedOf
  BY <1>5 DEF Asked, AskedOf
<1>8. Request(<<x>>)["left"].sure <=> Request(<<x>>)["right"].sure
  BY <1>5 DEF Asked
<1>9. Line' <=> Line
  BY <1>1 DEF Line
<1> QED BY <1>1, <1>4, <1>6, <1>7, <1>8, <1>9, OneStarted

(* A command for both wheels, with the speeds that are stored. *)
LEMMA DirectStarted ==
  ASSUME LibraryTypes, DriverTypes, Asked, CallsWhole, OneAtATime, WheelsFit, BetweenPrograms, Direct
  PROVE  CallsWhole' /\ OneAtATime' /\ WheelsFit' /\ Asked' /\ BetweenPrograms'
<1>1. PICK a \in {-1, 1}, b \in {-1, 1} : Start(Main, <<St("both", "", a, b)>>)
  BY DEF Direct
<1> DEFINE x == St("both", "", a, b)
<1>2. x.st = "both" /\ x.a = a /\ x.b = b
  BY DEF St
<1>3. process = "direct" /\ process' = "direct" /\ Start(Main, <<x>>)
  BY <1>1 DEF Direct
<1>4. Sure /\ motor_mutex = "free" /\ \A s \in Side : asked[s].pct = speed[s]
  BY <1>3 DEF BetweenPrograms
<1> DEFINE rq == Request(<<x>>)
<1>5. \A s \in Side : rq[s] = [sure |-> TRUE, dir |-> IF s = "left" THEN a ELSE b, pct |-> asked[s].pct]
  BY RequestOfBoth
<1> HIDE DEF x
<1>6. \A s \in Side : /\ rq[s] \in AskedOf /\ rq[s].sure
                      /\ rq[s].dir = (IF s = "left" THEN a ELSE b) /\ rq[s].pct = asked[s].pct
  <2> SUFFICES ASSUME NEW s \in Side
               PROVE  /\ rq[s] \in AskedOf /\ rq[s].sure
                      /\ rq[s].dir = (IF s = "left" THEN a ELSE b) /\ rq[s].pct = asked[s].pct
    OBVIOUS
  <2> DEFINE d == IF s = "left" THEN a ELSE b  p == asked[s].pct
  <2>1. p \in 0 .. Percent
    BY DEF Asked
  <2>2. d \in {-1, 0, 1}
    OBVIOUS
  <2>3. rq[s] = [sure |-> TRUE, dir |-> d, pct |-> p]
    BY <1>5
  <2> HIDE DEF d, p, rq
  <2>4. rq[s] \in AskedOf /\ rq[s].sure /\ rq[s].dir = d /\ rq[s].pct = p
    BY <2>1, <2>2, <2>3, RecordAsked
  <2> QED BY <2>4 DEF d, p
<1>s. "left" \in Side /\ "right" \in Side /\ "right" # "left"
  BY DEF Side
<1>7. rq["left"].dir = x.a /\ rq["right"].dir = x.b /\ \A s \in Side : rq[s].pct = speed[s]
  BY <1>2, <1>4, <1>6, <1>s
<1> HIDE DEF rq
<1>8. Fits(pin, pwm, speed, rq, {x}, {})
  BY <1>2, <1>7, BothFits
<1>9. Line' <=> Line
  BY <1>3 DEF Line
<1>10. CallsWhole' /\ OneAtATime' /\ WheelsFit' /\ Asked'
  BY <1>2, <1>3, <1>6, <1>8, <1>9, <1>s, OneStarted DEF rq
<1>11. BetweenPrograms'
  <2>1. /\ asked' = rq /\ body' = [body EXCEPT ![Main] = <<x>>] /\ body[Main] = <<>>
        /\ speed' = speed /\ motor_mutex' = motor_mutex /\ todo' = todo
    BY <1>2, <1>3, <1>4 DEF Start, driver, rq
  <2>m. Main \in Client
    BY MainAssumption
  <2>2. body'[Main] = <<x>> /\ \A c \in Client : c # Main => body'[c] = body[c]
    BY <2>1, <2>m DEF LibraryTypes
  <2>3. Sure' /\ motor_mutex' = "free" /\ \A s \in Side : asked'[s].pct = speed'[s]
    BY <1>4, <1>6, <1>7, <1>s, <2>1 DEF Sure
  <2>4. ASSUME NEW c \in Client
        PROVE  (\A y \in Rest(c)' : y.st \in {"both", "wait"}) /\ \A o \in Ops(c)' : o.op # "speed"
    <3>1. \A o \in Ops(c)' : o.op # "speed"
      BY <1>3, <2>1 DEF BetweenPrograms, Ops
    <3>2. CASE c = Main
      <4>1. Range(<<x>>) = {x}
        BY RangePair
      <4>2. Rest(c)' = {x}
        BY <2>2, <3>2, <4>1 DEF Rest
      <4> QED BY <1>2, <3>1, <4>2
    <3>3. CASE c # Main
      BY <1>3, <2>2, <3>1, <3>3 DEF Rest, BetweenPrograms
    <3> QED BY <3>2, <3>3
  <2> QED BY <1>3, <2>3, <2>4 DEF BetweenPrograms
<1> QED BY <1>10, <1>11

(* Most steps are taken in the middle of a program.                            *)
LEMMA NotBetween ==
  ASSUME process' \notin {"none", "hand_start", "direct"}
  PROVE  BetweenPrograms'
BY DEF BetweenPrograms

(* A command for both wheels stores no speed. *)
LEMMA BothKeepsSpeeds ==
  ASSUME NEW rf, NEW rb, NEW lf, NEW lb
  PROVE  \A o \in Range(Both(rf, rb, lf, lb)) : o.op # "speed"
<1> DEFINE p == Direction("right", rf, rb)  q == Direction("left", lf, lb)
           r == Drive("right")  t == Drive("left")
           S == Range(p) \cup Range(q) \cup Range(r) \cup Range(t)
<1>x. ASSUME NEW a, NEW b, a.op # "speed", b.op # "speed", NEW z, z = <<a, b>>
      PROVE  z \in Seq(Range(z)) /\ \A o \in Range(z) : o.op # "speed"
  <2>1. Range(z) = {a, b}
    BY <1>x, RangePair
  <2>2. z \in Seq({a, b})
    BY <1>x
  <2> QED BY <1>x, <2>1, <2>2
<1>1. ASSUME NEW s, NEW f, NEW b
      PROVE  LET z == Direction(s, f, b) IN z \in Seq(Range(z)) /\ \A o \in Range(z) : o.op # "speed"
  <2> DEFINE z == Direction(s, f, b)  u == Op("pin", Bridge[s][1], s, f)  v == Op("pin", Bridge[s][2], s, b)
  <2>1. z = <<u, v>> /\ u.op # "speed" /\ v.op # "speed"
    BY DEF Direction, Op
  <2> HIDE DEF z, u, v
  <2>2. z \in Seq(Range(z)) /\ \A o \in Range(z) : o.op # "speed"
    BY <1>x, <2>1
  <2> QED BY <2>2 DEF z
<1>2. ASSUME NEW s
      PROVE  LET z == Drive(s) IN z \in Seq(Range(z)) /\ \A o \in Range(z) : o.op # "speed"
  <2> DEFINE z == Drive(s)  u == Op("config", Channel[s], s, 0)  v == Op("enable", Channel[s], s, 0)
  <2>1. z = <<u, v>> /\ u.op # "speed" /\ v.op # "speed"
    BY DEF Drive, Op
  <2> HIDE DEF z, u, v
  <2>2. z \in Seq(Range(z)) /\ \A o \in Range(z) : o.op # "speed"
    BY <1>x, <2>1
  <2> QED BY <2>2 DEF z
<1>3. \A o \in S : o.op # "speed"
  <2>1. \A o \in Range(p) \cup Range(q) : o.op # "speed"
    BY <1>1
  <2>2. \A o \in Range(r) \cup Range(t) : o.op # "speed"
    BY <1>2
  <2> QED BY <2>1, <2>2
<1>4. p \in Seq(S) /\ q \in Seq(S) /\ r \in Seq(S) /\ t \in Seq(S)
  <2>2. p \in Seq(Range(p)) /\ q \in Seq(Range(q)) /\ r \in Seq(Range(r)) /\ t \in Seq(Range(t))
    BY <1>1, <1>2
  <2>3. ASSUME NEW A, NEW B, A \subseteq B, NEW x \in Seq(A) PROVE x \in Seq(B)
    BY <2>3
  <2> HIDE DEF p, q, r, t
  <2>4. Range(p) \subseteq S /\ Range(q) \subseteq S /\ Range(r) \subseteq S /\ Range(t) \subseteq S
    OBVIOUS
  <2> HIDE DEF S
  <2> QED BY <2>2, <2>3, <2>4
<1>5. Both(rf, rb, lf, lb) = p \o q \o r \o t
  BY DEF Both
<1> HIDE DEF p, q, r, t, S
<1>6. Range(p \o q \o r \o t) = Range(p) \cup Range(q) \cup Range(r) \cup Range(t)
  BY <1>4, RangeTwo
<1> QED BY <1>3, <1>5, <1>6 DEF S

(* An ioctl in which no speed is set leaves the speeds alone. *)
LEMMA OperationOps ==
  ASSUME DriverTypes, NEW c \in Client, Operation(c), \A o \in Ops(c) : o.op # "speed"
  PROVE  speed' = speed /\ Ops(c)' \subseteq Ops(c)
<1> DEFINE o == Head(todo[c])
           U == Range(Tail(todo[c]))
<1>0. /\ period_ns = DefaultPeriod /\ speed \in [Side -> 0 .. Percent]
      /\ todo \in [Client -> Short(DriverOp, 8)]
  BY DEF DriverTypes
<1>1. todo[c] # <<>> /\ todo[c] \in Seq(DriverOp)
  BY <1>0 DEF Operation, Short
<1>2. Ops(c) = {o} \cup U /\ o \in DriverOp
  <2>1. Range(todo[c]) = {Head(todo[c])} \cup Range(Tail(todo[c]))
    BY <1>1, RangeTail
  <2>2. Head(todo[c]) \in DriverOp
    BY <1>1
  <2> QED BY <2>1, <2>2 DEF Ops
<1>3. ASSUME Advance(c) PROVE Ops(c)' = U
  <2>1. todo'[c] = Tail(todo[c])
    BY <1>0, <1>3 DEF Advance
  <2> QED BY <2>1 DEF Ops
<1> HIDE DEF U
<1>4. ~SetSpeed(c, o)
  BY <1>2 DEF SetSpeed
<1>5. ASSUME NEW q \in 0 .. Percent, Configure(c, o, q) PROVE speed' = speed /\ Ops(c)' = U
  <2>1. Valid(DutyOf(q, DefaultPeriod), DefaultPeriod)
    BY Fitting
  <2>2. todo' = [todo EXCEPT ![c] = Tail(todo[c])] /\ speed' = speed
    BY <1>0, <1>5, <2>1 DEF Configure
  <2> QED BY <1>3, <2>2 DEF Advance
<1>6. ASSUME ConfigField(c, o) \/ ConfigLocal(c, o)
      PROVE  \E q \in 0 .. Percent : Configure(c, o, q)
  <2>1. CASE ConfigField(c, o)
    <3>1. o.op = "config" /\ o.of \in Side
      BY <1>2, <2>1 DEF ConfigField, DriverOp
    <3>2. speed[o.of] \in 0 .. Percent
      BY <1>0, <3>1
    <3> QED BY <2>1, <3>2 DEF ConfigField
  <2>2. CASE ConfigLocal(c, o)
    <3>1. o.v \in 0 .. Percent
      BY <1>2, <2>2 DEF ConfigLocal, DriverOp
    <3> QED BY <2>2, <3>1 DEF ConfigLocal
  <2> QED BY <1>6, <2>1, <2>2
<1>7. ASSUME SetPin(c, o) \/ ConfigZero(c, o) \/ ConfigPeriod(c, o) \/ SetPeriod(c, o) \/ Enable(c, o)
      PROVE  speed' = speed /\ Advance(c)
  BY <1>7 DEF SetPin, ConfigZero, ConfigPeriod, SetPeriod, Enable
<1> QED BY <1>2, <1>3, <1>4, <1>5, <1>6, <1>7 DEF Operation

(* Between programs, and under a program that commands both wheels, the steps  *)
(* of a thread.                                                                *)
LEMMA ThreadBetween ==
  ASSUME Types, BetweenPrograms, NEW c \in Client,
         Lock(c) \/ Unlock(c) \/ Issue(c) \/ Return(c) \/ (Operation(c) /\ UNCHANGED <<library, asked>>)
  PROVE  BetweenPrograms'
<1>0. DriverTypes /\ LibraryTypes /\ ret = [d \in Client |-> 0]
  BY DEF Types, DriverTypes
<1>1. process' = process
  BY DEF Lock, Unlock, Issue, Return, library
<1>2. CASE process \notin {"none", "hand_start", "direct"}
  BY <1>1, <1>2, NotBetween
<1>3. CASE process \in {"none", "hand_start"}
  <2>1. body[c] = <<>> /\ todo[c] = <<>>
    BY <1>3 DEF BetweenPrograms
  <2> QED BY <2>1 DEF Lock, Unlock, Issue, Return, Operation
<1>4. CASE process = "direct"
  <2>1. /\ Sure /\ motor_mutex = "free"
        /\ \A s \in Side : asked[s].pct = speed[s]
        /\ \A d \in Client : /\ \A x \in Rest(d) : x.st \in {"both", "wait"}
                             /\ \A o \in Ops(d) : o.op # "speed"
    BY <1>4 DEF BetweenPrograms
  <2>s. SUFFICES /\ Sure' /\ motor_mutex' = "free"
                 /\ \A s \in Side : asked'[s].pct = speed'[s]
                 /\ \A d \in Client : /\ \A x \in Rest(d)' : x.st \in {"both", "wait"}
                                      /\ \A o \in Ops(d)' : o.op # "speed"
    BY <1>1, <1>4 DEF BetweenPrograms
  <2>2. body[c] # <<>> => /\ body[c][1] \in Stmt /\ body[c][1] \in Rest(c) /\ body[c] \in Seq(Stmt)
                          /\ Range(Tail(body[c])) \subseteq Rest(c)
    BY <1>0, BodySeq
  <2>3. CASE Lock(c) \/ Unlock(c)
    BY <2>1, <2>2, <2>3 DEF Lock, Unlock
  <2>4. CASE Return(c)
    <3>1. /\ body[c] # <<>> /\ body' = [body EXCEPT ![c] = Tail(body[c])]
          /\ todo' = todo /\ speed' = speed /\ asked' = asked /\ motor_mutex' = motor_mutex
      BY <1>0, <2>4 DEF Return, driver
    <3> DEFINE t == Tail(body[c])
    <3>2. body'[c] = t /\ \A d \in Client : d # c => body'[d] = body[d]
      <4>1. body' = [body EXCEPT ![c] = t]
        BY <3>1
      <4> HIDE DEF t
      <4> QED BY <1>0, <4>1 DEF LibraryTypes
    <3>3. Range(t) \subseteq Rest(c)
      BY <2>2, <3>1
    <3> HIDE DEF t
    <3>4. \A d \in Client : Rest(d)' \subseteq Rest(d) /\ Ops(d)' = Ops(d)
      BY <3>1, <3>2, <3>3 DEF Rest, Ops
    <3> QED BY <2>1, <3>1, <3>4 DEF Sure
  <2>5. CASE Issue(c)
    <3> DEFINE x == body[c][1]
               w == St("wait", x.side, 0, IF x.st = "stop" THEN 1 ELSE 0)
               p == [body[c] EXCEPT ![1] = w]
    <3>1. /\ body[c] # <<>> /\ x.st \in Ioctls
          /\ body' = [body EXCEPT ![c] = p] /\ todo' = [todo EXCEPT ![c] = Command(x)]
          /\ speed' = speed /\ asked' = asked /\ motor_mutex' = motor_mutex
      BY <2>5 DEF Issue, Ioctl
    <3>2. x.st = "both" /\ x \in Stmt
      BY <2>1, <2>2, <3>1 DEF Ioctls
    <3>3. \A o \in Range(Command(x)) : o.op # "speed"
      BY <3>2, BothKeepsSpeeds DEF Command, BOTH_FORWARD, BOTH_BACKWARD, TURN_LEFT, TURN_RIGHT
    <3>4. w \in Stmt /\ w.st = "wait"
      <4>1. x.side \in Side \cup {""} /\ (IF x.st = "stop" THEN 1 ELSE 0) \in 0 .. 1
        <5>1. \A y \in Stmt : y.side \in Side \cup {""}
          BY DEF Stmt
        <5>2. (IF x.st = "stop" THEN 1 ELSE 0) \in 0 .. 1
          OBVIOUS
        <5> QED BY <3>2, <5>1, <5>2
      <4> QED BY <4>1, Stmts DEF St
    <3> HIDE DEF x, w
    <3>5. Range(p) = {w} \cup Range(Tail(body[c]))
      BY <2>2, <3>1, <3>4, RangeUpdate
    <3> HIDE DEF p
    <3>6. /\ body'[c] = p /\ \A d \in Client : d # c => body'[d] = body[d]
          /\ todo'[c] = Command(x) /\ \A d \in Client : d # c => todo'[d] = todo[d]
      BY <1>0, <3>1 DEF LibraryTypes, DriverTypes
    <3>7. \A y \in Rest(c)' : y.st \in {"both", "wait"}
      BY <2>1, <2>2, <3>1, <3>4, <3>5, <3>6 DEF Rest
    <3>8. \A o \in Ops(c)' : o.op # "speed"
      BY <3>3, <3>6 DEF Ops
    <3>9. \A d \in Client : d # c => Rest(d)' = Rest(d) /\ Ops(d)' = Ops(d)
      BY <3>6 DEF Rest, Ops
    <3> QED BY <2>1, <3>1, <3>7, <3>8, <3>9 DEF Sure
  <2>6. CASE Operation(c) /\ UNCHANGED <<library, asked>>
    <3>1. body' = body /\ motor_mutex' = motor_mutex /\ asked' = asked
      BY <2>6 DEF library
    <3>2. speed' = speed /\ Ops(c)' \subseteq Ops(c)
      BY <1>0, <2>1, <2>6, OperationOps
    <3>3. \A d \in Client : d # c => todo'[d] = todo[d]
      BY <1>0, <2>6, OperationTodo
    <3>4. \A d \in Client : Rest(d)' = Rest(d) /\ Ops(d)' \subseteq Ops(d)
      BY <3>1, <3>2, <3>3 DEF Rest, Ops
    <3> QED BY <2>1, <3>1, <3>2, <3>4 DEF Sure
  <2> QED BY <2>3, <2>4, <2>5, <2>6
<1> QED BY <1>2, <1>3, <1>4, <1>0 DEF Types, LibraryTypes

-----------------------------------------------------------------------------
(* Every step *)

(* A step of a thread. *)
LEMMA ThreadWheels ==
  ASSUME WheelsInv, NEW c \in Client, Step(c)
  PROVE  CallsWhole' /\ OneAtATime' /\ WheelsFit' /\ Asked' /\ BetweenPrograms'
<1>0. /\ Types /\ LibraryTypes /\ DriverTypes /\ Asked /\ CallsWhole /\ OneAtATime /\ BetweenPrograms
      /\ WheelsFit /\ ret = [d \in Client |-> 0]
  BY DEF WheelsInv, Types, DriverTypes
<1>l. ASSUME NEW q, Start(c, q), process' = process, Line \/ c = Main,
             process \notin {"none", "hand_start", "direct"},
             q = stop_all_motors \/ \E l, r \in Speeds : q = apply_motor_speed(l, r)
      PROVE  CallsWhole' /\ OneAtATime' /\ WheelsFit' /\ Asked' /\ BetweenPrograms'
  <2>1. InOrder(q)
    BY <1>l, CallsInOrder
  <2>2. q # <<>> /\ q[1].st = "lock"
    <3>1. CASE q = stop_all_motors
      BY <3>1, CallsAre DEF St
    <3>2. ASSUME NEW l, NEW r, q = apply_motor_speed(l, r) PROVE q # <<>> /\ q[1].st = "lock"
      <4> DEFINE e == St("lock", "", 0, 0)
      <4>1. \E a, b, d, f, g : q = <<e, a, b, d, f, g>>
        BY <3>2, CallsAre
      <4>2. e.st = "lock"
        BY DEF St
      <4> HIDE DEF e
      <4> QED BY <4>1, <4>2
    <3> QED BY <1>l, <3>1, <3>2
  <2>3. WholeCall(q)
    BY <1>l DEF WholeCall
  <2>4. Line' <=> Line
    BY <1>l DEF Line
  <2>5. CallsWhole' /\ OneAtATime' /\ WheelsFit' /\ asked' = asked
    BY <1>0, <1>l, <2>1, <2>2, <2>3, <2>4, StartLocked
  <2> QED BY <1>0, <1>l, <2>5, NotBetween DEF Asked
<1>1. CASE Apply(c)
  <2>1. PICK l \in Speeds, r \in Speeds : Start(c, apply_motor_speed(l, r))
    BY <1>1 DEF Apply
  <2>2. Line /\ process' = process /\ process \notin {"none", "hand_start", "direct"}
    BY <1>1 DEF Apply, Line
  <2> QED BY <1>l, <2>1, <2>2
<1>2. CASE Stop(c)
  <2>1. Start(c, stop_all_motors) /\ process' = process
    BY <1>2 DEF Stop
  <2>2. (Line \/ c = Main) /\ process \notin {"none", "hand_start", "direct"}
    BY <1>2 DEF Stop, Line
  <2> QED BY <1>l, <2>1, <2>2
<1>3. CASE Lock(c)
  BY <1>0, <1>3, LockTaken, ThreadBetween
<1>4. CASE Unlock(c) \/ Return(c)
  <2>1. /\ body[c] # <<>> /\ body[c][1].st \in {"wait", "unlock"}
        /\ body' = [body EXCEPT ![c] = Tail(body[c])]
        /\ pin' = pin /\ pwm' = pwm /\ speed' = speed /\ todo' = todo /\ asked' = asked
        /\ process' = process
        /\ IF body[c][1].st = "unlock" THEN motor_mutex' = "free" ELSE motor_mutex' = motor_mutex
    BY <1>0, <1>4 DEF Unlock, Return, driver
  <2>2. todo[c] = <<>>
    <3>1. CASE Unlock(c)
      BY <1>0, <3>1, NothingQueued DEF Unlock
    <3> QED BY <1>4, <3>1 DEF Return
  <2>3. Line' <=> Line
    BY <2>1 DEF Line
  <2>4. CallsWhole' /\ OneAtATime' /\ WheelsFit'
    BY <1>0, <2>1, <2>2, <2>3, StmtDone
  <2> QED BY <1>0, <1>4, <2>1, <2>4, ThreadBetween DEF Asked
<1>5. CASE Issue(c)
  <2>1. asked' = asked
    BY <1>5 DEF Issue
  <2> QED BY <1>0, <1>5, <2>1, StmtIssued, ThreadBetween DEF Asked
<1>6. CASE Operation(c) /\ UNCHANGED <<library, asked>>
  BY <1>0, <1>6, OperationDone, ThreadBetween
<1> QED BY <1>1, <1>2, <1>3, <1>4, <1>5, <1>6 DEF Step

(* Every step keeps the invariant: first those of the threads, then those of   *)
(* the programs.                                                               *)
LEMMA NextWheels == WheelsInv /\ [Next]_vars => WheelsInv'
<1> SUFFICES ASSUME WheelsInv, [Next]_vars PROVE WheelsInv'
  OBVIOUS
<1> DEFINE Goal == CallsWhole' /\ OneAtATime' /\ WheelsFit' /\ Asked' /\ BetweenPrograms'
<1>0. /\ Types /\ LibraryTypes /\ DriverTypes /\ Asked /\ CallsWhole /\ OneAtATime /\ BetweenPrograms
      /\ WheelsFit
  BY DEF WheelsInv, Types
<1>t. Types'
  BY <1>0, NextMotorTypes
<1>g. SUFFICES Goal
  BY <1>t DEF WheelsInv
<1>b. process' \notin {"none", "hand_start", "direct"} => BetweenPrograms'
  BY NotBetween
<1>p. /\ \A v \in Int : Clamped(v) \in Percentages
      /\ InitSpeed \in Percentages /\ Arguments \subseteq Percentages /\ Speeds \subseteq Percentages
  BY WordAssumption, SpeedsAssumption, KeysAssumption DEF Clamped, Within, Percentages
<1>s. /\ motor_state.left.speed \in Percentages /\ motor_state.right.speed \in Percentages
      /\ motor_state.left.dir \in {-1, 0, 1} /\ motor_state.right.dir \in {-1, 0, 1}
  BY <1>0 DEF LibraryTypes, Side
<1>d. 1 \in {-1, 0, 1} /\ {-1, 1} \subseteq {-1, 0, 1}
  OBVIOUS
<1>m. ASSUME NEW l \in Percentages, NEW r \in Percentages, NEW dl \in {-1, 0, 1}, NEW dr \in {-1, 0, 1},
             Start(Main, set_motors(l, dl, r, dr)), Line' <=> Line,
             process' \notin {"none", "hand_start", "direct"}
      PROVE  Goal
  <2>1. CallsWhole' /\ OneAtATime' /\ WheelsFit' /\ Asked'
    BY <1>0, <1>m, MovesStarted
  <2> QED BY <1>b, <1>m, <2>1
<1>1. ASSUME NEW c \in Client, Step(c) PROVE Goal
  BY <1>1, ThreadWheels
<1>2. CASE Begin
  <2>1. PICK v \in Speeds : Start(Main, set_motors(v, 1, v, 1))
    BY <1>2 DEF Begin
  <2>2. (Line' <=> Line) /\ process' \notin {"none", "hand_start", "direct"}
    BY <1>2 DEF Begin, Line
  <2>3. v \in Percentages
    BY <1>p
  <2> QED BY <1>d, <1>m, <2>1, <2>2, <2>3
<1>3. CASE SetPwmPeriod
  <2>1. process' \in {"keys", "command"}
    BY <1>3 DEF SetPwmPeriod
  <2>2. CallsWhole' /\ OneAtATime' /\ WheelsFit' /\ Asked'
    BY <1>0, <1>3, PeriodStarted
  <2> QED BY <1>b, <2>1, <2>2
<1>4. CASE MoveKey
  <2>1. PICK dl \in {-1, 1}, dr \in {-1, 1} : Start(Main, Move(dl, dr))
    BY <1>4 DEF MoveKey
  <2>2. (Line' <=> Line) /\ process' \notin {"none", "hand_start", "direct"}
    BY <1>4 DEF MoveKey, Line
  <2>3. Start(Main, set_motors(motor_state.left.speed, dl, motor_state.right.speed, dr))
    BY <2>1 DEF Move
  <2>4. dl \in {-1, 0, 1} /\ dr \in {-1, 0, 1}
    OBVIOUS
  <2> HIDE DEF Goal
  <2> QED BY <1>m, <1>s, <2>2, <2>3, <2>4
<1>5. CASE SpeedKey
  <2>1. PICK by \in {Increment, -Increment} :
          LET v == Clamped(motor_state.left.speed + by) IN
          Start(Main, set_motors(v, motor_state.left.dir, v, motor_state.right.dir))
    BY <1>5 DEF SpeedKey
  <2> DEFINE v == Clamped(motor_state.left.speed + by)
  <2>2. motor_state.left.speed + by \in Int
    <3>1. motor_state.left.speed \in Int
      BY <1>s, PercentagesInt
    <3>2. \A i \in Nat : i \in Int /\ -i \in Int
      OBVIOUS
    <3>3. Increment \in Nat
      BY KeysAssumption
    <3>4. by \in Int
      BY <3>2, <3>3
    <3>5. \A x, y \in Int : x + y \in Int
      OBVIOUS
    <3> QED BY <3>1, <3>4, <3>5
  <2>3. v \in Percentages
    BY <1>p, <2>2
  <2>4. Start(Main, set_motors(v, motor_state.left.dir, v, motor_state.right.dir))
    BY <2>1
  <2>5. (Line' <=> Line) /\ process' \notin {"none", "hand_start", "direct"}
    BY <1>5 DEF SpeedKey, Line
  <2> HIDE DEF v, Goal
  <2> QED BY <1>m, <1>s, <2>3, <2>4, <2>5
<1>6. CASE FullSpeedKey
  <2>1. UNCHANGED <<driver, body, motor_mutex, asked>> /\ process' = "keys" /\ (Line' <=> Line)
    BY <1>6 DEF FullSpeedKey, Line
  <2>2. CallsWhole' /\ OneAtATime' /\ WheelsFit' /\ Asked'
    BY <1>0, <2>1, NothingAsked
  <2> QED BY <1>b, <2>1, <2>2
<1>7. CASE CommandMode
  <2>1. process = "command" /\ process' = "commanded"
    BY <1>7 DEF CommandMode
  <2>2. (Line' <=> Line) /\ process' \notin {"none", "hand_start", "direct"}
    BY <2>1 DEF Line
  <2>3. CASE Start(Main, stop_all_motors)
    <3>1. stop_all_motors # <<>> /\ stop_all_motors[1].st = "lock" /\ InOrder(stop_all_motors)
          /\ WholeCall(stop_all_motors)
      BY CallsAre, CallsInOrder DEF WholeCall, St
    <3>2. Main \in Client
      BY MainAssumption
    <3>3. CallsWhole' /\ OneAtATime' /\ WheelsFit' /\ asked' = asked
      BY <1>0, <2>2, <2>3, <3>1, <3>2, StartLocked
    <3> QED BY <1>0, <1>b, <2>2, <3>3 DEF Asked
  <2>4. CASE \E v \in Arguments \cup {InitSpeed}, dl, dr \in {-1, 1} : Start(Main, set_motors(v, dl, v, dr))
    <3>1. PICK v \in Arguments \cup {InitSpeed}, dl \in {-1, 1}, dr \in {-1, 1} : Start(Main, set_motors(v, dl, v, dr))
      BY <2>4
    <3>2. v \in Percentages
      BY <1>p
    <3>3. dl \in {-1, 0, 1} /\ dr \in {-1, 0, 1}
      OBVIOUS
    <3> HIDE DEF Goal
    <3> QED BY <1>m, <2>2, <3>1, <3>2, <3>3
  <2> QED BY <1>7, <2>3, <2>4 DEF CommandMode
<1>8. CASE cleanup_and_exit
  BY <1>0, <1>8, CleansUp
<1>9. CASE Direct
  BY <1>0, <1>9, DirectStarted
<1>10. CASE Exit
  BY <1>0, <1>10, <1>t, ProgramOver
<1>11. CASE Restart
  BY <1>0, <1>11, ProgramBegins
<1>12. CASE UNCHANGED vars
  <2>1. UNCHANGED <<driver, body, motor_mutex, asked>> /\ process' = process /\ motor_state' = motor_state
    BY <1>12 DEF vars, library
  <2>2. CallsWhole' /\ OneAtATime' /\ WheelsFit' /\ Asked'
    BY <1>0, <2>1, NothingAsked DEF Line
  <2>3. BetweenPrograms'
    BY <1>0, <2>1 DEF BetweenPrograms, Sure, Rest, Ops, StartState, driver
  <2> QED BY <2>2, <2>3
<1> QED
  BY <1>1, <1>2, <1>3, <1>4, <1>5, <1>6, <1>7, <1>8, <1>9, <1>10, <1>11, <1>12 DEF Next

(* What the wheels do once nothing is left of any call. *)
LEMMA WheelsTell ==
  ASSUME WheelsInv, Settled, NEW s \in Side, asked[s].sure
  PROVE  /\ Turning(s) = (IF asked[s].pct = 0 THEN 0 ELSE asked[s].dir)
         /\ Turning(s) # 0 => Power(s) = asked[s].pct
<1>1. /\ DriverTypes /\ WheelsFit /\ Sure
      /\ asked[s].dir \in {-1, 0, 1} /\ asked[s].pct \in 0 .. Percent
  BY DEF WheelsInv, Types, Asked, Sure, Side
<1>2. Fits(pin, pwm, speed, asked, {}, {})
  BY <1>1 DEF WheelsFit, Settled, Active
<1>3. WheelFits(pin, pwm, asked, {}, {}, s)
  BY <1>2 DEF Fits
<1>4. /\ \A k \in {1, 2} : pin[Bridge[s][k]] = Want(asked, s, k)
      /\ asked[s].dir # 0 => pwm[Channel[s]].duty = Duty(asked[s].pct) /\ pwm[Channel[s]].on
  BY <1>3 DEF WheelFits, TurnsIn, Queued
<1> DEFINE d == asked[s].dir  p == asked[s].pct  ch == pwm[Channel[s]]
           f == pin[Bridge[s][1]]  b == pin[Bridge[s][2]]
<1>5. ch.period = DefaultPeriod /\ ch.duty \in 0 .. DefaultPeriod
  BY <1>1, Wiring DEF DriverTypes
<1>6. f = (IF d = 1 THEN 1 ELSE 0) /\ b = (IF d = -1 THEN 1 ELSE 0)
  BY <1>1, <1>4, Wants
<1>7. Turning(s) = (IF ch.on /\ ch.duty > 0 THEN f - b ELSE 0) /\ Power(s) = (ch.duty * Percent) \div ch.period
  BY DEF Turning, Power
<1>8. d \in {-1, 0, 1} /\ p \in 0 .. Percent /\ (d # 0 => ch.duty = Duty(p) /\ ch.on)
  BY <1>1, <1>4
<1>9. /\ Duty(p) > 0 <=> p > 0
      /\ (Duty(p) * Percent) \div DefaultPeriod = p
  BY <1>8, Exact
<1> HIDE DEF d, p, ch, f, b
<1>10. CASE d = 0
  BY <1>6, <1>7, <1>10 DEF d
<1>11. CASE d # 0
  <2>1. f - b = d
    BY <1>6, <1>8, <1>11
  <2>2. Turning(s) = (IF p = 0 THEN 0 ELSE d)
    BY <1>7, <1>8, <1>9, <1>11, <2>1
  <2>3. Power(s) = p
    BY <1>5, <1>7, <1>8, <1>9, <1>11
  <2> QED BY <2>2, <2>3 DEF d, p
<1> QED BY <1>10, <1>11

(* Whatever calls ran at the same time, once nothing is left of any of them    *)
(* each wheel turns as the last call asked and with the power it asked for,    *)
(* unless that call mixed with the first start of the wheels.                  *)
THEOREM WheelsDoAsAsked == Spec => []WheelsAsAsked
<1>1. WheelsInv => WheelsAsAsked
  BY WheelsTell DEF WheelsAsAsked
<1> QED BY WheelsAtFirst, NextWheels, <1>1, PTL DEF Spec

-----------------------------------------------------------------------------
(* What the keyboard program notes *)

(* While the keyboard program reads keys, it has one thread, which waits for   *)
(* no other.                                                                   *)
LEMMA KeysAlone ==
  ASSUME WheelsInv, NotesInv, process = "keys"
  PROVE  /\ ~Line /\ Main \in Client
         /\ \A c \in Client : c # Main => body[c] = <<>> /\ todo[c] = <<>> /\ ~Active(c)
         /\ body[Main] = <<>> => motor_mutex = "free"
         /\ ~Active(Main) => motor_mutex = "free"
<1>1. ~Line /\ Main \in Client
  BY MainAssumption DEF Line
<1>2. \A c \in Client : c # Main => body[c] = <<>> /\ todo[c] = <<>> /\ ~Active(c)
  BY <1>1 DEF WheelsInv, OneAtATime, Active
<1>3. ~Active(Main) => motor_mutex = "free"
  BY <1>2 DEF WheelsInv, Types, LibraryTypes, NotesInv
<1>4. body[Main] = <<>> => ~Active(Main)
  BY DEF Active
<1> QED BY <1>1, <1>2, <1>3, <1>4

(* What the key 0, and a stop that waits for the mutex, leave to be noted. *)
LEMMA KeyNoted ==
  ASSUME WheelsInv, NotesInv, process = "keys", body[Main] = <<>>,
         FullSpeedKey \/ Stop(Main)
  PROVE  NotesInv'
<1>1. ~Active(Main) /\ Main \in Client /\ motor_mutex = "free" /\ Sure
  BY KeysAlone DEF Active, NotesInv
<1>2. \A s \in Side : /\ motor_state[s].dir = asked[s].dir
                      /\ asked[s].dir # 0 => motor_state[s].speed \in {asked[s].pct, Percent}
                      /\ motor_state[s].speed \in 0 .. Percent
  BY <1>1 DEF NotesInv
<1>3. asked' = asked /\ motor_mutex' = motor_mutex /\ process' = process
  <2>1. CASE FullSpeedKey
    BY <2>1 DEF FullSpeedKey
  <2>2. CASE Stop(Main)
    <3>1. stop_all_motors[1].st = "lock"
      BY CallsAre DEF St
    <3> QED BY <2>2, <3>1 DEF Stop, Start
  <2> QED BY <2>1, <2>2
<1>4. \A s \in Side : /\ motor_state'[s].dir = motor_state[s].dir
                      /\ motor_state'[s].speed \in {motor_state[s].speed, Percent}
  <2>1. CASE FullSpeedKey
    <3> SUFFICES ASSUME NEW s \in Side
                 PROVE  motor_state'[s].dir = motor_state[s].dir /\ motor_state'[s].speed = Percent
      OBVIOUS
    <3>1. motor_state'[s] = [motor_state[s] EXCEPT !.speed = Percent]
      BY <2>1 DEF FullSpeedKey
    <3>2. motor_state[s] \in [speed : Percentages, dir : {-1, 0, 1}]
      BY DEF WheelsInv, Types, LibraryTypes
    <3> QED BY <3>1, <3>2
  <2>2. CASE Stop(Main)
    BY <2>2 DEF Stop
  <2> QED BY <2>1, <2>2
<1>5. \A x \in Rest(Main)' : x.st # "speed"
  <2>1. CASE FullSpeedKey
    BY <2>1, RangePair DEF FullSpeedKey, Rest
  <2>2. CASE Stop(Main)
    <3> DEFINE a == St("lock", "", 0, 0)  b == St("stop", "", 0, 0)  c == St("unlock", "", 0, 0)
    <3>1. body' = [body EXCEPT ![Main] = stop_all_motors]
      BY <2>2 DEF Stop, Start
    <3>2. body'[Main] = stop_all_motors
      BY <1>1, <3>1 DEF WheelsInv, Types, LibraryTypes
    <3>3. stop_all_motors = <<a, b, c>> /\ a.st = "lock" /\ b.st = "stop" /\ c.st = "unlock"
      BY CallsAre DEF St
    <3> HIDE DEF a, b, c
    <3>4. Rest(Main)' = {a, b, c}
      <4>1. Range(<<a, b, c>>) = {a, b, c}
        BY RangeTriple
      <4> QED BY <3>2, <3>3, <4>1 DEF Rest
    <3> QED BY <3>3, <3>4
  <2> QED BY <2>1, <2>2
<1>6. Percent \in 0 .. Percent /\ "free" \notin Client
  BY WordAssumption, MainAssumption
<1>7. \A s \in Side : motor_state'[s].speed \in 0 .. Percent
  BY <1>2, <1>4, <1>6
<1>8. \A s \in Side : /\ motor_state'[s].dir = asked'[s].dir
                      /\ asked'[s].dir # 0 => motor_state'[s].speed \in {asked'[s].pct, Percent}
  BY <1>2, <1>3, <1>4
<1>9. Sure' /\ \A c \in Client : motor_mutex' # c
  BY <1>1, <1>3, <1>6 DEF Sure
<1> QED BY <1>5, <1>7, <1>8, <1>9 DEF NotesInv

(* A movement is noted at its first ioctl. *)
LEMMA MovesNoted ==
  ASSUME WheelsInv, NotesInv, process = "keys", body[Main] = <<>>,
         NEW l \in 0 .. Percent, NEW r \in 0 .. Percent, NEW dl \in {-1, 0, 1}, NEW dr \in {-1, 0, 1},
         Start(Main, set_motors(l, dl, r, dr)), \A s \in Side : motor_state'[s].speed \in 0 .. Percent
  PROVE  NotesInv'
<1> DEFINE q == set_motors(l, dl, r, dr)
           a == St("speed", "left", l, dl)  b == St("direction", "left", dl, 0)
           c == St("speed", "right", r, dr)  d == St("direction", "right", dr, 0)
<1>1. Main \in Client /\ motor_mutex = "free"
  BY KeysAlone
<1>2. q = <<a, b, c, d>>
  BY CallsAre
<1>3. /\ Request(q)["left"] = [sure |-> TRUE, dir |-> dl, pct |-> Clamped(l)]
      /\ Request(q)["right"] = [sure |-> TRUE, dir |-> dr, pct |-> Clamped(r)]
  BY RequestOfMoves
<1>4. /\ a.st = "speed" /\ a.side = "left" /\ a.a = l /\ b.st = "direction"
      /\ c.st = "speed" /\ c.side = "right" /\ c.a = r /\ d.st = "direction"
  BY DEF St
<1>5. Start(Main, q)
  OBVIOUS
<1> HIDE DEF q, a, b, c, d
<1>6. Range(q) = {a, b, c, d} /\ q # <<>> /\ q[1] = a
  <2>1. Range(q) = {a, b, c, d}
    BY <1>2, RangeFour
  <2>2. q # <<>> /\ q[1] = a
    BY <1>2
  <2> QED BY <2>1, <2>2
<1>7. body' = [body EXCEPT ![Main] = q] /\ asked' = Request(q) /\ motor_mutex' = motor_mutex
  BY <1>1, <1>4, <1>5, <1>6 DEF Start
<1>8. body'[Main] = q
  BY <1>1, <1>7 DEF WheelsInv, Types, LibraryTypes
<1>9. Active(Main)' /\ Rest(Main)' = {a, b, c, d}
  BY <1>4, <1>6, <1>8 DEF Active, Rest
<1>10. Sure'
  <2>1. Request(q)["left"].sure
    BY <1>3
  <2> QED BY <1>7, <2>1 DEF Sure
<1>11. \A s \in Side : \E x \in Rest(Main)' : Noting(x, s)
  BY <1>4, <1>9 DEF Noting, Paces, Side
<1>12. \A x \in Rest(Main)' : x.st = "speed" => x.a \in 0 .. Percent
  BY <1>4, <1>9
<1>13. \A k \in Client : motor_mutex' # k
  BY <1>1, <1>7, MainAssumption
<1> QED BY <1>9, <1>10, <1>11, <1>12, <1>13 DEF NotesInv

(* The keyboard program begins to read keys with its wheels and its notes at   *)
(* rest.                                                                       *)
LEMMA PeriodNoted ==
  ASSUME WheelsInv, SetPwmPeriod
  PROVE  NotesInv'
<1> DEFINE x == St("period", "", DefaultPeriod, 0)
<1>1. process = "hand_start" /\ Start(Main, <<x>>) /\ motor_state' = motor_state
  BY DEF SetPwmPeriod
<1>2. Sure /\ Still(asked) /\ motor_state = StartState /\ motor_mutex = "free"
  BY <1>1 DEF WheelsInv, BetweenPrograms
<1>3. x.st = "period" /\ Main \in Client /\ "free" \notin Client
  BY MainAssumption DEF St
<1>4. \A s \in Side : Request(<<x>>)[s] = asked[s]
  BY Requests
<1> HIDE DEF x
<1>5. body' = [body EXCEPT ![Main] = <<x>>] /\ asked' = Request(<<x>>) /\ motor_mutex' = motor_mutex
  BY <1>1, <1>2, <1>3 DEF Start
<1>6. body'[Main] = <<x>>
  BY <1>3, <1>5 DEF WheelsInv, Types, LibraryTypes
<1>7. Rest(Main)' = {x}
  <2>1. Range(<<x>>) = {x}
    BY RangePair
  <2> QED BY <1>6, <2>1 DEF Rest
<1>8. \A s \in Side : asked'[s] = asked[s]
  BY <1>4, <1>5
<1>9. \A s \in Side : motor_state'[s].speed = InitSpeed /\ motor_state'[s].dir = 0
  <2> SUFFICES ASSUME NEW s \in Side
               PROVE  motor_state'[s].speed = InitSpeed /\ motor_state'[s].dir = 0
    OBVIOUS
  <2>1. motor_state'[s] = [speed |-> InitSpeed, dir |-> 0]
    BY <1>1, <1>2 DEF StartState
  <2> QED BY <2>1
<1>10. \A s \in Side : asked'[s].dir = 0
  BY <1>2, <1>8 DEF Still
<1>11. Sure' /\ \A c \in Client : motor_mutex' # c
  BY <1>2, <1>3, <1>5, <1>8 DEF Sure, Side
<1> QED BY <1>3, <1>7, <1>9, <1>10, <1>11, KeysAssumption DEF NotesInv

(* The steps of its main thread.                                               *)
LEMMA LockNoted ==
  ASSUME WheelsInv, NotesInv, process = "keys", NEW c \in Client, Lock(c)
  PROVE  NotesInv'
<1> DEFINE q == body[c]  t == Tail(q)
<1>1. /\ q # <<>> /\ q[1].st = "lock" /\ motor_mutex' = c /\ body' = [body EXCEPT ![c] = t]
      /\ motor_state' = motor_state
  BY DEF Lock
<1>2. c = Main /\ ~Line
  BY <1>1, KeysAlone
<1>3. asked' = Request(q)
  BY <1>2 DEF Lock
<1>4. body'[c] = t
  <2> HIDE DEF t
  <2> QED BY <1>1 DEF WheelsInv, Types, LibraryTypes
<1>5. q = stop_all_motors \/ \E l, r \in Speeds : q = apply_motor_speed(l, r)
  BY <1>1 DEF WheelsInv, CallsWhole, WholeCall
<1>6. /\ t # <<>> /\ t[1].st # "lock" /\ \E x \in Range(t) : x.st = "unlock"
      /\ \A s \in Side : Request(q)[s] \in [sure : {TRUE}, dir : {0, 1}, pct : 0 .. Percent]
  BY <1>5, LockedCallFits DEF WheelsInv
<1>7. Rest(c) = {q[1]} \cup Range(t)
  BY <1>1, BodySeq DEF WheelsInv, Types
<1>8. \A s \in Side : \E x \in Range(t) : Noting(x, s)
  <2>1. CASE q = stop_all_motors
    <3> DEFINE e == St("lock", "", 0, 0)  a == St("stop", "", 0, 0)  f == St("unlock", "", 0, 0)
    <3>1. q = <<e, a, f>> /\ a.st = "stop"
      BY <2>1, CallsAre DEF St
    <3> HIDE DEF e, a, f, q
    <3>2. t = <<a, f>>
      BY <3>1, RangeTriple
    <3> HIDE DEF t
    <3>3. Range(t) = {a, f}
      BY <3>2, RangePair
    <3> QED BY <3>1, <3>3 DEF Noting
  <2>2. ASSUME NEW l, NEW r, q = apply_motor_speed(l, r)
        PROVE  \A s \in Side : \E x \in Range(t) : Noting(x, s)
    <3> DEFINE e == St("lock", "", 0, 0)  f == St("unlock", "", 0, 0)
               a == St("speed", "left", l, 1)  b == St("direction", "left", 1, 0)
               g == St("speed", "right", r, 1)  d == St("direction", "right", 1, 0)
    <3>1. q = <<e, a, b, g, d, f>>
      BY <2>2, CallsAre
    <3>2. a.st = "speed" /\ a.side = "left" /\ g.st = "speed" /\ g.side = "right"
      BY DEF St
    <3> HIDE DEF e, a, b, g, d, f, q
    <3>3. t = <<a, b, g, d, f>>
      BY <3>1, RangeFive
    <3> HIDE DEF t
    <3>4. Range(t) = {a, b, g, d, f}
      BY <3>3, RangeFive
    <3> QED BY <3>2, <3>4 DEF Noting, Paces, Side
  <2> QED BY <1>5, <2>1, <2>2
<1> HIDE DEF q, t
<1>9. Active(c)' /\ Locks(c)' /\ Rest(c)' = Range(t)
  BY <1>4, <1>6 DEF Active, Locks, Rest
<1>10. Sure'
  <2>1. \A x : x \in [sure : {TRUE}, dir : {0, 1}, pct : 0 .. Percent] => x.sure
    OBVIOUS
  <2> QED BY <1>3, <1>6, <2>1 DEF Sure, Side
<1> QED BY <1>1, <1>2, <1>7, <1>8, <1>9, <1>10 DEF NotesInv

LEMMA UnlockNoted ==
  ASSUME WheelsInv, NotesInv, process = "keys", NEW c \in Client, Unlock(c)
  PROVE  NotesInv'
<1> DEFINE x == body[c][1]  t == Tail(body[c])
<1>1. /\ body[c] # <<>> /\ x.st = "unlock" /\ motor_mutex' = "free" /\ body' = [body EXCEPT ![c] = t]
      /\ motor_state' = motor_state /\ asked' = asked
  BY DEF Unlock
<1>2. c = Main /\ "free" \notin Client
  BY <1>1, KeysAlone, MainAssumption
<1>3. /\ body[c] \in Seq(Stmt) /\ InOrder(body[c]) /\ Rest(c) = {x} \cup Range(t)
      /\ Head(body[c]) = x /\ \A y \in Range(t) : MayFollow(y, x)
  BY <1>1, BodySeq, OrderedTail DEF WheelsInv, Types, CallsWhole
<1>4. body'[c] = t
  <2> HIDE DEF t
  <2> QED BY <1>1 DEF WheelsInv, Types, LibraryTypes
<1> HIDE DEF x, t
<1>5. Range(t) = {} /\ Rest(c)' = {}
  BY <1>1, <1>3, <1>4 DEF MayFollow, Rest
<1>6. \A s \in Side : \A y \in Rest(Main) : ~Noting(y, s)
  BY <1>1, <1>2, <1>3, <1>5 DEF Noting, Paces
<1> QED BY <1>1, <1>2, <1>5, <1>6 DEF NotesInv, Sure

LEMMA ReturnNoted ==
  ASSUME WheelsInv, NotesInv, process = "keys", NEW c \in Client, Return(c)
  PROVE  NotesInv'
<1> DEFINE x == body[c][1]  t == Tail(body[c])
<1>0. ret = [d \in Client |-> 0]
  BY DEF WheelsInv, Types, DriverTypes
<1>k. c = Main /\ ~Line
  BY KeysAlone DEF Return
<1>1. /\ body[c] # <<>> /\ x.st = "wait" /\ todo[c] = <<>> /\ body' = [body EXCEPT ![c] = t]
      /\ motor_state' = (IF x.b = 1 THEN NotedAtStop ELSE motor_state)
      /\ asked' = asked /\ motor_mutex' = motor_mutex /\ process' = process
  BY <1>0, <1>k DEF Return
<1>3. /\ body[c] \in Seq(Stmt) /\ t \in Seq(Stmt) /\ InOrder(body[c]) /\ Rest(c) = {x} \cup Range(t)
      /\ Head(body[c]) = x /\ \A y \in Range(t) : MayFollow(y, x)
  BY <1>1, BodySeq, OrderedTail DEF WheelsInv, Types, CallsWhole
<1>4. body'[c] = t
  <2> HIDE DEF t
  <2> QED BY <1>1 DEF WheelsInv, Types, LibraryTypes
<1>5. t # <<>> => t[1] \in Range(t)
  <2> HIDE DEF t
  <2> QED BY <1>3, RangeTail
<1>6. Active(c)
  BY <1>1 DEF Active
<1>7. x.b = 1 => Still(asked)
  <2>1. Fits(pin, pwm, speed, asked, Rest(c), Ops(c))
    BY <1>6, <1>k DEF WheelsInv, WheelsFit, NotesInv
  <2> QED BY <1>1, <1>3, <2>1 DEF Fits, StmtFits
<1> HIDE DEF x, t
<1>8. Rest(c)' = Range(t) /\ (Active(c)' <=> t # <<>>) /\ (t = <<>> => Range(t) = {})
  BY <1>3, <1>4, <1>5, RangePair DEF MayFollow, Rest, Active
<1>9. Locks(c) => Active(c)' /\ Locks(c)'
  BY <1>1, <1>3, <1>8 DEF Locks
<1>10. Sure' /\ \A d \in Client : motor_mutex' = d => Active(d)' /\ Locks(d)'
  <2>1. \A d \in Client : motor_mutex = d => d = c /\ Locks(d)
    BY <1>k, KeysAlone DEF NotesInv
  <2> QED BY <1>1, <1>9, <2>1 DEF Sure, NotesInv
<1>11. \A y \in Rest(Main)' : y.st = "speed" => y.a \in 0 .. Percent
  BY <1>3, <1>8, <1>k DEF NotesInv
<1>12. ASSUME NEW s \in Side
       PROVE  /\ motor_state'[s].speed \in 0 .. Percent
              /\ \/ Active(Main)' /\ \E y \in Rest(Main)' : Noting(y, s)
                 \/ /\ motor_state'[s].dir = asked'[s].dir
                    /\ asked'[s].dir # 0 => motor_state'[s].speed \in {asked'[s].pct, Percent}
  <2>1. CASE x.b = 1
    <3>1. motor_state'[s] = [motor_state[s] EXCEPT !.dir = 0]
      BY <1>1, <2>1 DEF NotedAtStop
    <3>2. motor_state[s] \in [speed : Percentages, dir : {-1, 0, 1}]
      BY DEF WheelsInv, Types, LibraryTypes
    <3>3. motor_state'[s].dir = 0 /\ motor_state'[s].speed = motor_state[s].speed
      BY <3>1, <3>2
    <3>4. asked'[s].dir = 0
      BY <1>1, <1>7, <2>1 DEF Still
    <3> QED BY <3>3, <3>4 DEF NotesInv
  <2>2. CASE x.b # 1
    <3>1. ~Noting(x, s)
      BY <1>1, <2>2 DEF Noting, Paces
    <3>2. motor_state' = motor_state /\ asked' = asked
      BY <1>1, <2>2
    <3>3. (\E y \in Rest(Main) : Noting(y, s)) => Active(Main)' /\ \E y \in Rest(Main)' : Noting(y, s)
      BY <1>3, <1>8, <1>k, <3>1
    <3> QED BY <3>2, <3>3 DEF NotesInv
  <2> QED BY <2>1, <2>2
<1> QED BY <1>10, <1>11, <1>12 DEF NotesInv

LEMMA IssueNoted ==
  ASSUME WheelsInv, NotesInv, process = "keys", NEW c \in Client, Issue(c)
  PROVE  NotesInv'
<1> DEFINE x == body[c][1]  t == Tail(body[c])
           w == St("wait", x.side, 0, IF x.st = "stop" THEN 1 ELSE 0)
           p == [body[c] EXCEPT ![1] = w]
<1>k. c = Main /\ ~Line
  BY KeysAlone DEF Issue
<1>1. /\ body[c] # <<>> /\ x.st \in Ioctls /\ body' = [body EXCEPT ![c] = p]
      /\ motor_state' = (IF x.st = "speed" THEN [motor_state EXCEPT ![x.side] = [speed |-> x.a, dir |-> x.b]]
                         ELSE motor_state)
      /\ asked' = asked /\ motor_mutex' = motor_mutex
  BY <1>k DEF Issue
<1>2. /\ body[c] \in Seq(Stmt) /\ x \in Stmt /\ Rest(c) = {x} \cup Range(t)
  BY <1>1, BodySeq DEF WheelsInv, Types
<1>3. w \in Stmt /\ w.st = "wait" /\ (x.st = "stop" => w.b = 1)
  <2>1. \A y \in Stmt : y.side \in Side \cup {""}
    BY DEF Stmt
  <2>2. (IF x.st = "stop" THEN 1 ELSE 0) \in 0 .. 1
    OBVIOUS
  <2>3. w \in Stmt
    BY <1>2, <2>1, <2>2, Stmts
  <2>4. w.st = "wait" /\ (x.st = "stop" => w.b = 1)
    BY DEF St
  <2> QED BY <2>3, <2>4
<1>4. Active(c) /\ Fits(pin, pwm, speed, asked, Rest(c), Ops(c))
  <2>1. Active(c)
    BY <1>1 DEF Active, Ioctls
  <2> QED BY <2>1, <1>k DEF WheelsInv, WheelsFit, NotesInv
<1>5. StmtFits(asked, Rest(c), x)
  BY <1>2, <1>4 DEF Fits
<1> HIDE DEF w, x
<1>6. p # <<>> /\ p[1] = w /\ Range(p) = {w} \cup Range(t)
  BY <1>1, <1>2, <1>3, RangeUpdate
<1> HIDE DEF p, t
<1>7. body'[c] = p
  BY <1>1 DEF WheelsInv, Types, LibraryTypes
<1>8. Active(c)' /\ Rest(c)' = {w} \cup Range(t)
  BY <1>3, <1>6, <1>7 DEF Active, Rest
<1>9. x.st # "unlock" /\ x.st # "wait"
  BY <1>1 DEF Ioctls
<1>10. Locks(c) => Locks(c)'
  BY <1>2, <1>8, <1>9 DEF Locks
<1>11. Sure' /\ \A d \in Client : motor_mutex' = d => Active(d)' /\ Locks(d)'
  <2>1. \A d \in Client : motor_mutex = d => d = c /\ Locks(d)
    BY <1>k, KeysAlone DEF NotesInv
  <2> QED BY <1>1, <1>8, <1>10, <2>1 DEF Sure, NotesInv
<1>12. \A y \in Rest(Main)' : y.st = "speed" => y.a \in 0 .. Percent
  BY <1>2, <1>3, <1>8, <1>k DEF NotesInv
<1>13. ASSUME NEW s \in Side
       PROVE  /\ motor_state'[s].speed \in 0 .. Percent
              /\ \/ Active(Main)' /\ \E y \in Rest(Main)' : Noting(y, s)
                 \/ /\ motor_state'[s].dir = asked'[s].dir
                    /\ asked'[s].dir # 0 => motor_state'[s].speed \in {asked'[s].pct, Percent}
  <2>1. CASE x.st = "speed" /\ x.side = s
    <3>1. motor_state' = [motor_state EXCEPT ![s] = [speed |-> x.a, dir |-> x.b]]
      BY <1>1, <2>1
    <3>2. motor_state'[s] = [speed |-> x.a, dir |-> x.b]
      BY <3>1 DEF WheelsInv, Types, LibraryTypes
    <3>3. motor_state'[s].speed = x.a /\ motor_state'[s].dir = x.b
      BY <3>2
    <3>4. x.a \in 0 .. Percent
      BY <1>2, <1>k, <2>1 DEF NotesInv
    <3>5. Clamped(x.a) = x.a
      BY <3>4, WordAssumption DEF Clamped, Within
    <3>6. asked[s].pct = x.a /\ asked[s].dir = x.b
      BY <1>5, <2>1, <3>5 DEF StmtFits
    <3> QED BY <1>1, <3>3, <3>4, <3>6
  <2>2. CASE ~(x.st = "speed" /\ x.side = s)
    <3>1. motor_state'[s] = motor_state[s]
      BY <1>1, <2>2 DEF WheelsInv, Types, LibraryTypes
    <3>2. Noting(x, s) => Noting(w, s)
      BY <1>3, <1>9, <2>2 DEF Noting, Paces
    <3>3. (\E y \in Rest(Main) : Noting(y, s)) => \E y \in Rest(Main)' : Noting(y, s)
      BY <1>2, <1>8, <1>k, <3>2
    <3> QED BY <1>1, <1>8, <1>k, <3>1, <3>3 DEF NotesInv
  <2> QED BY <2>1, <2>2
<1> QED BY <1>11, <1>12, <1>13 DEF NotesInv

(* Every step keeps what is noted true.                                        *)
LEMMA NextNoted == WheelsInv /\ NotesInv /\ [Next]_vars => NotesInv'
<1> SUFFICES ASSUME WheelsInv, NotesInv, [Next]_vars, process' = "keys" PROVE NotesInv'
  BY DEF NotesInv
<1>s. ASSUME process = "keys"
      PROVE  /\ motor_state.left.speed \in 0 .. Percent /\ motor_state.right.speed \in 0 .. Percent
             /\ motor_state.left.dir \in {-1, 0, 1} /\ motor_state.right.dir \in {-1, 0, 1}
             /\ \A s \in Side : motor_state[s].speed \in 0 .. Percent
             /\ motor_state \in [Side -> [speed : Percentages, dir : {-1, 0, 1}]]
  <2>1. motor_state \in [Side -> [speed : Percentages, dir : {-1, 0, 1}]]
    BY DEF WheelsInv, Types, LibraryTypes
  <2>2. \A s \in Side : motor_state[s].speed \in 0 .. Percent
    BY <1>s DEF NotesInv
  <2> QED BY <2>1, <2>2 DEF Side
<1>u. ASSUME UNCHANGED <<body, motor_mutex, motor_state, process, asked>> PROVE NotesInv'
  BY <1>u DEF NotesInv, Active, Locks, Rest, Sure
<1>1. ASSUME NEW c \in Client, Step(c) PROVE NotesInv'
  <2>1. process = "keys"
    BY <1>1 DEF Step, Apply, Stop, Lock, Unlock, Issue, Return, library
  <2>2. CASE Apply(c)
    BY <2>1, <2>2 DEF Apply, Line
  <2>3. CASE Stop(c)
    <3>1. c = Main /\ body[Main] = <<>>
      BY <2>1, <2>3 DEF Stop, Line, Start
    <3> QED BY <2>1, <2>3, <3>1, KeyNoted
  <2>4. CASE Operation(c) /\ UNCHANGED <<library, asked>>
    BY <1>u, <2>4 DEF library
  <2> QED BY <1>1, <2>1, <2>2, <2>3, <2>4, LockNoted, UnlockNoted, IssueNoted, ReturnNoted DEF Step
<1>2. CASE SetPwmPeriod
  BY <1>2, PeriodNoted
<1>3. CASE MoveKey
  <2>1. process = "keys" /\ motor_state' = motor_state
    BY <1>3 DEF MoveKey
  <2>2. PICK dl \in {-1, 1}, dr \in {-1, 1} : Start(Main, Move(dl, dr))
    BY <1>3 DEF MoveKey
  <2>3. Start(Main, set_motors(motor_state.left.speed, dl, motor_state.right.speed, dr))
    BY <2>2 DEF Move
  <2>4. dl \in {-1, 0, 1} /\ dr \in {-1, 0, 1} /\ body[Main] = <<>>
    BY <2>2 DEF Start
  <2>5. \A s \in Side : motor_state'[s].speed \in 0 .. Percent
    BY <1>s, <2>1
  <2> QED BY <1>s, <2>1, <2>3, <2>4, <2>5, MovesNoted
<1>4. CASE SpeedKey
  <2>0. process = "keys"
    BY <1>4 DEF SpeedKey
  <2>1. PICK by \in {Increment, -Increment} :
          LET v == Clamped(motor_state.left.speed + by) IN
          /\ motor_state' = [s \in Side |-> [motor_state[s] EXCEPT !.speed = v]]
          /\ Start(Main, set_motors(v, motor_state.left.dir, v, motor_state.right.dir))
    BY <1>4 DEF SpeedKey
  <2> DEFINE v == Clamped(motor_state.left.speed + by)
  <2>2. motor_state.left.speed + by \in Int
    <3>1. motor_state.left.speed \in Int
      BY <1>s, <2>0, WordAssumption
    <3>2. \A i \in Nat : i \in Int /\ -i \in Int
      OBVIOUS
    <3>3. Increment \in Nat
      BY KeysAssumption
    <3>4. by \in Int
      BY <3>2, <3>3
    <3>5. \A x, y \in Int : x + y \in Int
      OBVIOUS
    <3> QED BY <3>1, <3>4, <3>5
  <2>3. v \in 0 .. Percent
    BY <2>2, SpeedDuty
  <2>4. /\ motor_state' = [s \in Side |-> [motor_state[s] EXCEPT !.speed = v]]
        /\ Start(Main, set_motors(v, motor_state.left.dir, v, motor_state.right.dir))
    BY <2>1
  <2> HIDE DEF v
  <2>5. body[Main] = <<>>
    BY <2>4 DEF Start
  <2>6. \A s \in Side : motor_state'[s].speed \in 0 .. Percent
    <3> SUFFICES ASSUME NEW s \in Side PROVE motor_state'[s].speed = v
      BY <2>3
    <3>1. motor_state'[s] = [motor_state[s] EXCEPT !.speed = v]
      BY <2>4
    <3>2. motor_state[s] \in [speed : Percentages, dir : {-1, 0, 1}]
      BY <1>s, <2>0
    <3> QED BY <3>1, <3>2
  <2> QED BY <1>s, <2>0, <2>3, <2>4, <2>5, <2>6, MovesNoted
<1>5. CASE FullSpeedKey
  BY <1>5, KeyNoted DEF FullSpeedKey
<1>6. CASE Begin \/ CommandMode \/ cleanup_and_exit \/ Direct \/ Exit \/ Restart
  BY <1>6 DEF Begin, CommandMode, cleanup_and_exit, Direct, Exit, Restart
<1>7. CASE UNCHANGED vars
  BY <1>u, <1>7 DEF vars, library
<1> QED BY <1>1, <1>2, <1>3, <1>4, <1>5, <1>6, <1>7 DEF Next

(* What the keyboard program shows is true of the wheels between any two keys, *)
(* whatever the programs before it left in the driver.                         *)
THEOREM DisplayedStatus == Spec => []StatusIsTrue
<1>1. Init => WheelsInv /\ NotesInv
  BY WheelsAtFirst DEF Init, NotesInv
<1>2. WheelsInv /\ NotesInv /\ [Next]_vars => (WheelsInv /\ NotesInv)'
  BY NextWheels, NextNoted
<1>3. ASSUME WheelsInv, NotesInv PROVE StatusIsTrue
  <2> SUFFICES ASSUME process = "keys", Settled, NEW s \in Side
               PROVE  LET m == motor_state[s] IN
                      /\ Turning(s) \in {0, m.dir}
                      /\ Turning(s) # 0 => m.speed \in {Power(s), Percent}
                      /\ m.speed \in 1 .. Percent - 1 => Turning(s) = m.dir
    BY DEF StatusIsTrue
  <2>1. asked[s].sure /\ ~Active(Main)
    BY <1>3, MainAssumption DEF NotesInv, Sure, WheelsInv, Asked, Side, Settled, Active
  <2>2. /\ Turning(s) = (IF asked[s].pct = 0 THEN 0 ELSE asked[s].dir)
        /\ Turning(s) # 0 => Power(s) = asked[s].pct
    BY <1>3, <2>1, WheelsTell
  <2>3. /\ motor_state[s].dir = asked[s].dir
        /\ asked[s].dir # 0 => motor_state[s].speed \in {asked[s].pct, Percent}
    BY <1>3, <2>1 DEF NotesInv
  <2>4. motor_state[s].speed \in 1 .. Percent - 1 => motor_state[s].speed # 0 /\ motor_state[s].speed # Percent
    BY WordAssumption
  <2> QED BY <2>2, <2>3, <2>4
<1> QED BY <1>1, <1>2, <1>3, PTL DEF Spec
=============================================================================

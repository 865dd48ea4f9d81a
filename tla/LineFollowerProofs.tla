-------------------------- MODULE LineFollowerProofs --------------------------
(* Proofs about LineFollower for every history length, every threshold, every  *)
(* set of codes, and whether or not the motor device is open.                  *)
EXTENDS LineFollower, TLAPS

(* What the derail counters need of the types. *)
Locals == [code : 0 .. 7, side : Side, seen : Nat, late : BOOLEAN,
           after : {"none", "reset", "judge", "stop"}]
DerailTypes == /\ at \in [Thread -> Place]
               /\ derail_count \in [Side -> Nat]
               /\ tcrt \in Locals
               /\ at["main"] = "create_tcrt" => at["tcrt"] = "none"

(* A counter that is about to be written counts the latest readings too, and   *)
(* there is still a code in the history that saw the line.  Since it was read  *)
(* it was reset or left alone.                                                 *)
CountPending == at["tcrt"] = "count" => /\ \A i \in 1 .. tcrt.seen + 1 : recent[i] = 0
                                        /\ tcrt.seen + 1 < HistoryLen
                                        /\ derail_count[tcrt.side] <= tcrt.seen

(* After a code that saw the line either the counters are zero or no other     *)
(* code is read before they are reset.                                         *)
ResetPending == \/ recent[1] = 0
                \/ \A s \in Side : derail_count[s] = 0
                \/ at["tcrt"] = "after" /\ tcrt.after \in {"reset", "stop"}
                \/ at["tcrt"] \in {"loop", "done"} /\ stop_flag = 1

Inv == /\ DerailTypes /\ CountPending /\ ResetPending
       /\ DerailEvidence /\ DerailCountBounded

LEMMA InitInv == Init => Inv
<1> SUFFICES ASSUME Init PROVE Inv
  OBVIOUS
<1> USE HistoryAssumption
<1>1. /\ at \in [Thread -> Place] /\ at["tcrt"] = "none"
      /\ derail_count = [s \in Side |-> 0] /\ recent[1] = 2
  BY DEF Init, Thread, Place
<1>2. tcrt \in Locals
  BY DEF Init, NoLocals, Locals, Side
<1>3. DerailTypes /\ CountPending /\ ResetPending
  BY <1>1, <1>2 DEF DerailTypes, CountPending, ResetPending
<1>4. DerailEvidence /\ DerailCountBounded
  BY <1>1 DEF DerailEvidence, DerailCountBounded
<1> QED BY <1>3, <1>4 DEF Inv

(* find_last_valid answers a code to one side only if one is in the history. *)
LEMMA LastValidSeen ==
  ASSUME NEW h, find_last_valid(h) \in LeftCodes \cup RightCodes
  PROVE  \E i \in 1 .. HistoryLen : h[i] # 0
BY DEF find_last_valid, LeftCodes, RightCodes

(* A step of the tcrt thread from a statement to the next. *)
LEMMA TcrtMove ==
  ASSUME DerailTypes, NEW b \in Place, at["tcrt"] # "none", at' = [at EXCEPT !["tcrt"] = b],
         derail_count' \in [Side -> Nat], tcrt' \in Locals
  PROVE  DerailTypes' /\ at'["tcrt"] = b
<1>1. "tcrt" \in Thread /\ "main" \in Thread /\ at \in [Thread -> Place]
  BY DEF Thread, DerailTypes
<1>2. at' \in [Thread -> Place] /\ at'["tcrt"] = b /\ at'["main"] = at["main"]
  BY <1>1
<1> QED BY <1>2 DEF DerailTypes

(* A step that leaves the history, the counters and the tcrt thread alone. *)
LEMMA Untouched ==
  ASSUME Inv, UNCHANGED <<recent, derail_count, tcrt, stop_flag>>,
         at' \in [Thread -> Place], at'["tcrt"] = at["tcrt"],
         at'["main"] = "create_tcrt" => at["main"] = "create_tcrt"
  PROVE  Inv'
<1>1. DerailTypes' /\ CountPending'
  BY DEF Inv, DerailTypes, CountPending
<1>2. ResetPending' /\ DerailEvidence' /\ DerailCountBounded'
  BY DEF Inv, ResetPending, DerailEvidence, DerailCountBounded
<1> QED BY <1>1, <1>2 DEF Inv

LEMMA OtherMove ==
  ASSUME Inv, UNCHANGED <<recent, derail_count, tcrt, stop_flag>>, NEW t \in {"hcsr", "main"},
         NEW b \in Place \ {"create_tcrt"}, at' = [at EXCEPT ![t] = b]
  PROVE  Inv'
<1>1. /\ at \in [Thread -> Place] /\ Thread = {"tcrt", "hcsr", "main"}
  BY DEF Inv, DerailTypes, Thread
<1>2. /\ at' \in [Thread -> Place] /\ at'["tcrt"] = at["tcrt"]
      /\ at'["main"] = "create_tcrt" => at["main"] = "create_tcrt"
  BY <1>1
<1> QED BY <1>2, Untouched

(* Resetting both counters, at whatever statement of the tcrt or hcsr thread.  *)
LEMMA ResetMove ==
  ASSUME Inv, reset_derail_counters, UNCHANGED <<recent, tcrt>>, NEW t \in {"tcrt", "hcsr"},
         at[t] # "none", at' = [at EXCEPT ![t] = "loop"]
  PROVE  Inv'
<1>1. /\ at \in [Thread -> Place] /\ Thread = {"tcrt", "hcsr", "main"} /\ "loop" \in Place
  BY DEF Inv, DerailTypes, Thread, Place
<1>2. /\ at' \in [Thread -> Place] /\ at'["main"] = at["main"]
      /\ at'["tcrt"] = at["tcrt"] \/ (at["tcrt"] # "none" /\ at'["tcrt"] = "loop")
  <2>1. CASE t = "tcrt"
    BY <1>1, <2>1
  <2>2. CASE t = "hcsr"
    BY <1>1, <2>2
  <2> QED BY <2>1, <2>2
<1>3. derail_count' = [s \in Side |-> 0]
  BY DEF reset_derail_counters
<1>4. DerailTypes' /\ CountPending'
  <2>1. tcrt.side \in Side /\ tcrt.seen \in Nat
    BY DEF Inv, DerailTypes, Locals
  <2>2. CountPending'
    BY <1>2, <1>3, <2>1 DEF Inv, CountPending
  <2> QED BY <1>2, <1>3, <2>2 DEF Inv, DerailTypes
<1>5. ResetPending' /\ DerailEvidence' /\ DerailCountBounded'
  BY <1>3, HistoryAssumption DEF ResetPending, DerailEvidence, DerailCountBounded
<1> QED BY <1>4, <1>5 DEF Inv

(* The counting of derailed readings survives every step of the three threads. *)
LEMMA NextInv == Inv /\ [Next]_vars => Inv'
<1> SUFFICES ASSUME Inv, [Next]_vars PROVE Inv'
  OBVIOUS
<1> USE HistoryAssumption, CodesAssumption
<1>0. /\ DerailTypes /\ at \in [Thread -> Place] /\ derail_count \in [Side -> Nat] /\ tcrt \in Locals
      /\ Thread = {"tcrt", "hcsr", "main"} /\ Side = {"left", "right"}
  BY DEF Inv, DerailTypes, Thread, Side
(* The tcrt thread. *)
<1>1. CASE TcrtRead
  <2>1. /\ at["tcrt"] = "loop" /\ at' = [at EXCEPT !["tcrt"] = "check"] /\ stop_flag = 0
        /\ UNCHANGED <<recent, derail_count, stop_flag>>
    BY <1>1 DEF TcrtRead, Goto, derail
  <2>2. PICK c \in 0 .. 7 : tcrt' = [NoLocals EXCEPT !.code = c]
    BY <1>1 DEF TcrtRead
  <2>3. tcrt' \in Locals
    BY <2>2 DEF NoLocals, Locals, Side
  <2>4. DerailTypes' /\ at'["tcrt"] = "check"
    BY <1>0, <2>1, <2>3, TcrtMove DEF Place
  <2>5. CountPending' /\ ResetPending'
    BY <2>1, <2>4 DEF Inv, CountPending, ResetPending
  <2> QED BY <2>1, <2>4, <2>5 DEF Inv, DerailEvidence, DerailCountBounded
<1>2. CASE TcrtEnd
  <2>1. /\ at["tcrt"] = "loop" /\ at' = [at EXCEPT !["tcrt"] = "done"] /\ stop_flag = 1
        /\ UNCHANGED <<recent, derail_count, stop_flag, tcrt>>
    BY <1>2 DEF TcrtEnd, Goto, derail
  <2>2. DerailTypes' /\ at'["tcrt"] = "done"
    BY <1>0, <2>1, TcrtMove DEF Place
  <2>3. CountPending' /\ ResetPending'
    BY <2>1, <2>2 DEF Inv, CountPending, ResetPending
  <2> QED BY <2>1, <2>2, <2>3 DEF Inv, DerailEvidence, DerailCountBounded
<1>3. CASE TcrtCheck
  <2>1. /\ at["tcrt"] = "check" /\ UNCHANGED <<recent, derail_count, stop_flag, tcrt>>
    BY <1>3 DEF TcrtCheck, Goto, derail
  <2>2. PICK b \in {"loop", "logic"} : at' = [at EXCEPT !["tcrt"] = b]
    BY <1>3 DEF TcrtCheck, Goto
  <2>3. DerailTypes' /\ at'["tcrt"] = b
    BY <1>0, <2>1, <2>2, TcrtMove DEF Place
  <2>4. CountPending' /\ ResetPending'
    BY <2>1, <2>2, <2>3 DEF Inv, CountPending, ResetPending
  <2> QED BY <2>1, <2>3, <2>4 DEF Inv, DerailEvidence, DerailCountBounded
<1>4. CASE TcrtLogic
  <2> DEFINE h == Remember(tcrt.code)
  <2>1. /\ at["tcrt"] = "logic" /\ recent' = h
        /\ UNCHANGED <<derail_count, stop_flag>>
        /\ \/ /\ at' = [at EXCEPT !["tcrt"] = "after"]
              /\ \/ tcrt' = [tcrt EXCEPT !.after = "stop"]
                 \/ tcrt' = [tcrt EXCEPT !.after = "reset"]
           \/ /\ tcrt.code = 0 /\ find_last_valid(h) \in LeftCodes \cup RightCodes
              /\ at' = [at EXCEPT !["tcrt"] = "count"]
              /\ \E s \in Side : tcrt' = [tcrt EXCEPT !.side = s, !.seen = derail_count[s]]
           \/ /\ tcrt.code = 0
              /\ at' = [at EXCEPT !["tcrt"] = "loop"]
              /\ tcrt' = tcrt
    BY <1>0, <1>4 DEF TcrtLogic, Goto, derail
  <2>2. h[1] = tcrt.code /\ \A i \in 2 .. HistoryLen : h[i] = recent[i - 1]
    BY DEF Remember
  <2> HIDE DEF h
  <2>3. recent[1] = 0 \/ \A s \in Side : derail_count[s] = 0
    BY <2>1 DEF Inv, ResetPending
  <2>4. \A s \in Side : derail_count[s] \in Nat /\ derail_count[s] < HistoryLen
    BY DEF Inv, DerailTypes, DerailCountBounded
  <2>5. ASSUME tcrt.code = 0, NEW s \in Side, NEW i \in 1 .. derail_count[s] + 1, i <= HistoryLen
        PROVE  h[i] = 0
    <3>1. CASE i = 1
      BY <2>2, <2>5, <3>1
    <3>2. CASE i # 1
      <4>1. i - 1 \in 1 .. derail_count[s] /\ i \in 2 .. HistoryLen
        BY <2>4, <2>5, <3>2
      <4>2. recent[1] = 0
        BY <2>3, <4>1
      <4>3. recent[i - 1] = 0
        BY <4>1, <4>2 DEF Inv, DerailEvidence
      <4> QED BY <2>2, <4>1, <4>3
    <3> QED BY <3>1, <3>2
  <2>6. DerailEvidence' /\ DerailCountBounded'
    <3>1. ASSUME recent'[1] = 0, NEW s \in Side, NEW i \in 1 .. derail_count[s] PROVE recent'[i] = 0
      <4>1. i \in 1 .. derail_count[s] + 1 /\ i <= HistoryLen
        BY <2>4, <3>1
      <4>2. tcrt.code = 0
        BY <2>1, <2>2, <3>1
      <4> QED BY <2>1, <2>5, <4>1, <4>2
    <3> QED BY <2>1, <2>4, <3>1 DEF DerailEvidence, DerailCountBounded
  <2>7. tcrt' \in Locals
    BY <1>0, <2>1, <2>4 DEF Locals
  <2>8. DerailTypes' /\ ResetPending'
    <3>1. PICK b \in {"after", "count", "loop"} : at' = [at EXCEPT !["tcrt"] = b]
      BY <2>1
    <3>2. DerailTypes' /\ at'["tcrt"] = b
      BY <1>0, <2>1, <2>7, <3>1, TcrtMove DEF Place
    <3>3. (b = "after" /\ tcrt'.after \in {"reset", "stop"}) \/ tcrt.code = 0
      BY <1>0, <2>1, <3>2 DEF Locals
    <3> QED BY <2>1, <2>2, <3>2, <3>3 DEF ResetPending
  <2>9. CountPending'
    <3> SUFFICES ASSUME at'["tcrt"] = "count" PROVE CountPending'
      BY DEF CountPending
    <3>1. tcrt.code = 0 /\ find_last_valid(h) \in LeftCodes \cup RightCodes
      BY <1>0, <2>1
    <3>2. PICK s \in Side : tcrt' = [tcrt EXCEPT !.side = s, !.seen = derail_count[s]]
      BY <1>0, <2>1
    <3>3. tcrt'.seen = derail_count[s] /\ derail_count'[tcrt'.side] = derail_count[s]
      BY <1>0, <2>1, <3>2 DEF Locals
    <3>4. PICK k \in 1 .. HistoryLen : h[k] # 0
      BY <3>1, LastValidSeen
    <3>5. derail_count[s] + 1 < HistoryLen
      BY <2>4, <2>5, <3>1, <3>4
    <3>6. ASSUME NEW i \in 1 .. tcrt'.seen + 1 PROVE recent'[i] = 0
      <4>1. i \in 1 .. derail_count[s] + 1 /\ i <= HistoryLen
        BY <2>4, <3>3, <3>5, <3>6
      <4> QED BY <2>1, <2>5, <3>1, <4>1
    <3> QED BY <2>4, <3>3, <3>5, <3>6 DEF CountPending
  <2> QED BY <2>6, <2>7, <2>8, <2>9 DEF Inv
<1>5. CASE TcrtCount
  <2> DEFINE s == tcrt.side
  <2>1. /\ at["tcrt"] = "count" /\ at' = [at EXCEPT !["tcrt"] = "after"]
        /\ UNCHANGED <<recent, stop_flag>>
    BY <1>5 DEF TcrtCount, Goto
  <2>n. PICK n \in {tcrt.seen, derail_count[s]} :
          derail_count' = [derail_count EXCEPT ![s] = IF n < DerailCount THEN n + 1 ELSE DerailCount]
    BY <1>5 DEF TcrtCount
  <2>2. tcrt' \in Locals
    <3> DEFINE late == derail_age[s] >= DerailTime
    <3>1. late \in BOOLEAN
      OBVIOUS
    <3>2. tcrt' = [tcrt EXCEPT !.late = late, !.after = "judge"]
      BY <1>5 DEF TcrtCount
    <3> HIDE DEF late
    <3> QED BY <1>0, <3>1, <3>2 DEF Locals
  <2>3. /\ s \in Side /\ tcrt.seen \in Nat /\ derail_count[s] \in Nat
        /\ \A i \in 1 .. tcrt.seen + 1 : recent[i] = 0
        /\ tcrt.seen + 1 < HistoryLen
        /\ derail_count[s] <= tcrt.seen
    BY <1>0, <2>1 DEF Inv, Locals, CountPending
  <2>4. /\ derail_count'[s] \in 0 .. tcrt.seen + 1
        /\ \A r \in Side \ {s} : derail_count'[r] = derail_count[r]
        /\ derail_count' \in [Side -> Nat]
    <3> DEFINE m == IF n < DerailCount THEN n + 1 ELSE DerailCount
    <3>1. n \in 0 .. tcrt.seen
      BY <2>3
    <3>2. m \in 0 .. tcrt.seen + 1 /\ m \in Nat
      BY <2>3, <3>1, DerailAssumption
    <3>3. derail_count' = [derail_count EXCEPT ![s] = m]
      BY <2>n
    <3> HIDE DEF m
    <3> QED BY <1>0, <2>3, <3>2, <3>3
  <2>5. recent[1] = 0
    BY <2>3
  <2>6. DerailCountBounded'
    BY <2>3, <2>4 DEF Inv, DerailCountBounded
  <2>7. DerailEvidence'
    <3> SUFFICES ASSUME NEW r \in Side, NEW i \in 1 .. derail_count'[r] PROVE recent[i] = 0
      BY <2>1 DEF DerailEvidence
    <3>1. CASE r = s
      BY <2>3, <2>4, <3>1
    <3>2. CASE r # s
      BY <2>4, <2>5, <3>2 DEF Inv, DerailEvidence
    <3> QED BY <3>1, <3>2
  <2>8. DerailTypes' /\ at'["tcrt"] = "after"
    BY <1>0, <2>1, <2>2, <2>4, TcrtMove DEF Place
  <2> QED BY <2>1, <2>5, <2>6, <2>7, <2>8 DEF Inv, CountPending, ResetPending
<1>7. CASE TcrtReset
  BY <1>7, ResetMove DEF TcrtReset, Goto
<1>8. CASE TcrtJudge
  <2>1. /\ at["tcrt"] = "after" /\ tcrt.after = "judge"
        /\ UNCHANGED <<recent, derail_count, stop_flag>>
    BY <1>8 DEF TcrtJudge, Goto, derail
  <2>2. tcrt' \in Locals
    BY <1>0, <1>8 DEF TcrtJudge, Locals
  <2>3. PICK b \in {"after", "loop"} : at' = [at EXCEPT !["tcrt"] = b]
    BY <1>8 DEF TcrtJudge, Goto
  <2>4. DerailTypes' /\ at'["tcrt"] = b
    BY <1>0, <2>1, <2>2, <2>3, TcrtMove DEF Place
  <2>5. recent[1] = 0 \/ \A s \in Side : derail_count[s] = 0
    BY <2>1 DEF Inv, ResetPending
  <2>6. CountPending' /\ ResetPending'
    BY <2>1, <2>3, <2>4, <2>5 DEF CountPending, ResetPending
  <2> QED BY <2>1, <2>4, <2>6 DEF Inv, DerailEvidence, DerailCountBounded
<1>9. CASE TcrtStop
  <2>1. /\ at["tcrt"] = "after" /\ at' = [at EXCEPT !["tcrt"] = "loop"] /\ stop_flag' = 1
        /\ UNCHANGED <<recent, derail_count, tcrt>>
    BY <1>9 DEF TcrtStop, Goto, derail
  <2>2. DerailTypes' /\ at'["tcrt"] = "loop"
    BY <1>0, <2>1, TcrtMove DEF Place
  <2>3. CountPending' /\ ResetPending'
    BY <2>1, <2>2 DEF CountPending, ResetPending
  <2> QED BY <2>1, <2>2, <2>3 DEF Inv, DerailEvidence, DerailCountBounded
(* The hcsr thread. *)
<1>10. CASE HcsrRead \/ HcsrNear \/ HcsrClear
  <2>1. /\ \E b \in {"callback", "loop", "halt", "resume"} : at' = [at EXCEPT !["hcsr"] = b]
        /\ UNCHANGED <<recent, derail_count, stop_flag, tcrt>>
    BY <1>10 DEF HcsrRead, HcsrNear, HcsrClear, Goto, derail
  <2> QED BY <2>1, OtherMove DEF Place
<1>11. CASE HcsrHalt \/ HcsrEnd
  <2>1. /\ \E b \in {"loop", "done"} : at' = [at EXCEPT !["hcsr"] = b]
        /\ UNCHANGED <<recent, derail_count, stop_flag, tcrt>>
    BY <1>11 DEF HcsrHalt, HcsrEnd, Goto, derail, obstacle
  <2> QED BY <2>1, OtherMove DEF Place
<1>12. CASE HcsrResume
  BY <1>12, ResetMove DEF HcsrResume, Goto
(* The main thread, the motor calls, the clock and the line. *)
<1>13. CASE MainCreateTcrt
  <2>1. /\ at["main"] = "create_tcrt" /\ UNCHANGED <<recent, derail_count, stop_flag, tcrt>>
        /\ \/ at' = [at EXCEPT !["main"] = "create_hcsr", !["tcrt"] = "loop"]
           \/ at' = [at EXCEPT !["main"] = "exit"]
    BY <1>13 DEF MainCreateTcrt, derail
  <2>2. CASE at' = [at EXCEPT !["main"] = "exit"]
    BY <2>1, <2>2, OtherMove DEF Place
  <2>3. CASE at' = [at EXCEPT !["main"] = "create_hcsr", !["tcrt"] = "loop"]
    <3>1. /\ at' \in [Thread -> Place] /\ at'["main"] = "create_hcsr" /\ at'["tcrt"] = "loop"
          /\ at["tcrt"] = "none"
      BY <1>0, <2>1, <2>3 DEF DerailTypes, Place
    <3>2. DerailTypes' /\ CountPending' /\ ResetPending'
      BY <2>1, <3>1 DEF Inv, DerailTypes, CountPending, ResetPending
    <3> QED BY <2>1, <3>2 DEF Inv, DerailEvidence, DerailCountBounded
  <2> QED BY <2>1, <2>2, <2>3
<1>14. CASE MainCreateHcsr
  <2>1. /\ \E a \in {"loop", "none"} : at' = [at EXCEPT !["main"] = "drive", !["hcsr"] = a]
        /\ UNCHANGED <<recent, derail_count, stop_flag, tcrt>>
    BY <1>14 DEF MainCreateHcsr, derail
  <2>2. at' \in [Thread -> Place] /\ at'["main"] = "drive" /\ at'["tcrt"] = at["tcrt"]
    BY <1>0, <2>1 DEF Place
  <2> QED BY <2>1, <2>2, Untouched
<1>15. CASE MainDrive \/ MainStop \/ MainClose \/ MainJoinTcrt \/ MainJoinHcsr
  <2>1. /\ \E b \in {"wait", "close", "join_tcrt", "join_hcsr", "exit"} :
              at' = [at EXCEPT !["main"] = b]
        /\ UNCHANGED <<recent, derail_count, stop_flag, tcrt>>
    BY <1>15 DEF MainDrive, MainStop, MainClose, MainJoinTcrt, MainJoinHcsr, Goto, derail
  <2> QED BY <2>1, OtherMove DEF Place
<1>16. ASSUME NEW t \in Thread, MotorStep(t) PROVE Inv'
  <2>1. UNCHANGED <<at, recent, derail_count, stop_flag, tcrt>>
    BY <1>16 DEF MotorStep, derail
  <2> QED BY <1>0, <2>1, Untouched
<1>17. CASE Tick \/ LoseLine \/ UNCHANGED vars
  <2>1. UNCHANGED <<at, recent, derail_count, stop_flag, tcrt>>
    BY <1>17 DEF Tick, LoseLine, vars, derail
  <2> QED BY <1>0, <2>1, Untouched
<1> QED BY <1>1, <1>2, <1>3, <1>4, <1>5, <1>7, <1>8, <1>9, <1>10, <1>11, <1>12, <1>13, <1>14,
           <1>15, <1>16, <1>17 DEF Next, TcrtStep, HcsrStep, MainStep

(* No derail counter of a04 and a05 ever reaches the length of the history,    *)
(* and each counts the latest readings without a line.                         *)
THEOREM DerailCounting == Spec => [](DerailEvidence /\ DerailCountBounded)
<1>1. Inv => DerailEvidence /\ DerailCountBounded
  BY DEF Inv
<1> QED BY InitInv, NextInv, <1>1, PTL DEF Spec

(* With DERAIL_SET_COUNT at least STATE_HISTORY, as in a04 and a05 (10 and     *)
(* 10), the derail stop of handle_state is never taken.                        *)
THEOREM DerailNeverStops ==
  ASSUME HistoryLen <= DerailCount
  PROVE  Spec => [](\A s \in Side : ~(derail_count[s] >= DerailCount))
<1>1. Inv => \A s \in Side : ~(derail_count[s] >= DerailCount)
  BY HistoryAssumption, DerailAssumption DEF Inv, DerailTypes, DerailCountBounded
<1> QED BY InitInv, NextInv, <1>1, PTL DEF Spec

-----------------------------------------------------------------------------
(* The motor calls of the threads *)

(* The operations motor.c makes, with the speeds it gives the wheels. *)
MotorOp == [op : {"lock", "stop", "unlock"}, v : {0}] \cup [op : Side, v : SPEED_MIN .. SPEED_MAX]

(* What is left of a call: it locks the mutex first or not at all, and ends    *)
(* with the unlock if it locks.                                                *)
Releasing(q) == Len(q) > 0 /\ q[Len(q)].op = "unlock"
CallOK(q) == /\ q \in Seq(MotorOp) /\ Len(q) <= 4
             /\ \A i \in 1 .. Len(q) : q[i].op = "lock" => i = 1 /\ Releasing(q)

(* The owner of the mutex is past its lock and will come to its unlock. *)
Holding(q) == Releasing(q) /\ q[1].op # "lock"

MotorTypes == /\ motor_mutex \in Thread \cup {"free"}
              /\ wheels \in [Side -> {0} \cup SPEED_MIN .. SPEED_MAX]
CallTypes  == call \in [Thread -> {q \in Seq(MotorOp) : CallOK(q)}]
Owner      == MotorOpens => \A t \in Thread : motor_mutex = t => Holding(call[t])
MotorInv   == MotorTypes /\ CallTypes /\ Owner

(* The operations themselves. *)
LEMMA MotorOps == /\ Op("lock", 0) \in MotorOp /\ Op("stop", 0) \in MotorOp
                  /\ Op("unlock", 0) \in MotorOp
                  /\ \A s \in Side, v \in SPEED_MIN .. SPEED_MAX : Op(s, v) \in MotorOp
BY DEF Op, MotorOp

(* clamp_speed keeps every speed between SPEED_MIN and SPEED_MAX. *)
LEMMA Clamped == \A s \in Int : clamp_speed(s) \in SPEED_MIN .. SPEED_MAX
BY DEF clamp_speed, SPEED_MIN, SPEED_MAX

(* Every sequence of operations of motor.c has the shape of a call. *)
LEMMA NoCall == CallOK(<<>>) /\ <<>> \in Seq(MotorOp)
<1>1. <<>> \in Seq(MotorOp) /\ Len(<<>>) = 0
  OBVIOUS
<1> QED BY <1>1 DEF CallOK

LEMMA StopCall == CallOK(stop_all_motors)
<1> DEFINE a == Op("lock", 0)
           b == Op("stop", 0)
           c == Op("unlock", 0)
<1>1. a \in MotorOp /\ b \in MotorOp /\ c \in MotorOp
  BY MotorOps
<1>2. a.op = "lock" /\ b.op = "stop" /\ c.op = "unlock"
  BY DEF Op
<1> HIDE DEF a, b, c
<1>3. stop_all_motors = <<a, b, c>>
  BY DEF stop_all_motors, a, b, c
<1>4. CallOK(<<a, b, c>>)
  <2>1. <<a, b, c>> \in Seq(MotorOp) /\ Len(<<a, b, c>>) = 3
    BY <1>1
  <2>2. Releasing(<<a, b, c>>)
    BY <1>2, <2>1 DEF Releasing
  <2>3. \A i \in 1 .. 3 : <<a, b, c>>[i].op = "lock" => i = 1
    BY <1>2
  <2> QED BY <2>1, <2>2, <2>3 DEF CallOK
<1> QED BY <1>3, <1>4

LEMMA DriveCall ==
  ASSUME NEW l \in SPEED_MIN .. SPEED_MAX, NEW r \in SPEED_MIN .. SPEED_MAX
  PROVE  CallOK(set_motors(l, r))
<1> DEFINE a == Op("left", l)
           b == Op("right", r)
<1>1. a \in MotorOp /\ b \in MotorOp
  BY MotorOps DEF Side
<1>2. a.op = "left" /\ b.op = "right"
  BY DEF Op
<1> HIDE DEF a, b
<1>3. set_motors(l, r) = <<a, b>>
  BY DEF set_motors, a, b
<1>4. <<a, b>> \in Seq(MotorOp) /\ Len(<<a, b>>) = 2
  BY <1>1
<1>5. \A i \in 1 .. 2 : <<a, b>>[i].op # "lock"
  BY <1>2
<1>6. CallOK(<<a, b>>)
  BY <1>4, <1>5 DEF CallOK
<1> QED BY <1>3, <1>6

LEMMA FourOps ==
  ASSUME NEW a \in MotorOp, NEW b \in MotorOp, NEW c \in MotorOp, NEW d \in MotorOp
  PROVE  (<<a>> \o <<b, c>>) \o <<d>> = <<a, b, c, d>>
<1> HIDE DEF MotorOp
<1>1. <<a>> \o <<b, c>> = <<a, b, c>>
  <2> DEFINE q == <<a>> \o <<b, c>>
  <2>1. q \in Seq(MotorOp) /\ Len(q) = 3
    OBVIOUS
  <2>2. q[1] = a /\ q[2] = b /\ q[3] = c
    OBVIOUS
  <2> HIDE DEF q
  <2>3. q = <<q[1], q[2], q[3]>>
    BY <2>1
  <2> QED BY <2>2, <2>3 DEF q
<1>2. <<a, b, c>> \o <<d>> = <<a, b, c, d>>
  <2> DEFINE q == <<a, b, c>> \o <<d>>
  <2>1. q \in Seq(MotorOp) /\ Len(q) = 4
    OBVIOUS
  <2>2. q[1] = a /\ q[2] = b /\ q[3] = c /\ q[4] = d
    OBVIOUS
  <2> HIDE DEF q
  <2>3. q = <<q[1], q[2], q[3], q[4]>>
    BY <2>1
  <2> QED BY <2>2, <2>3 DEF q
<1> QED BY <1>1, <1>2

LEMMA ApplyCall ==
  ASSUME NEW x \in Int, NEW y \in Int
  PROVE  CallOK(apply_motor_speed(x, y))
<1> DEFINE a == Op("lock", 0)
           b == Op("left", clamp_speed(x))
           c == Op("right", clamp_speed(y))
           d == Op("unlock", 0)
<1>1. a \in MotorOp /\ b \in MotorOp /\ c \in MotorOp /\ d \in MotorOp
  BY MotorOps, Clamped DEF Side
<1>2. a.op = "lock" /\ b.op = "left" /\ c.op = "right" /\ d.op = "unlock"
  BY DEF Op
<1> HIDE DEF a, b, c, d
<1>3. apply_motor_speed(x, y) = <<a, b, c, d>>
  <2>1. apply_motor_speed(x, y) = (<<a>> \o <<b, c>>) \o <<d>>
    BY DEF apply_motor_speed, set_motors, a, b, c, d
  <2> QED BY <1>1, <2>1, FourOps
<1>4. CallOK(<<a, b, c, d>>)
  <2>1. <<a, b, c, d>> \in Seq(MotorOp) /\ Len(<<a, b, c, d>>) = 4
    BY <1>1
  <2>2. Releasing(<<a, b, c, d>>)
    BY <1>2, <2>1 DEF Releasing
  <2>3. \A i \in 1 .. 4 : <<a, b, c, d>>[i].op = "lock" => i = 1
    BY <1>2
  <2> QED BY <2>1, <2>2, <2>3 DEF CallOK
<1> QED BY <1>3, <1>4

LEMMA SteerCalls == \A c : CallOK(Steer(c)) /\ CallOK(Recover(c))
<1>1. /\ {SPEED_INIT, SPEED_INIT + SPEED_MAJOR, SPEED_INIT + SPEED_MINOR, SPEED_INIT - SPEED_MINOR,
          SPEED_INIT + SPEED_RECOVER, SPEED_INIT - SPEED_RECOVER, SPEED_INIT - SPEED_MAJOR}
         \subseteq Int
  BY DEF SPEED_INIT, SPEED_MAJOR, SPEED_MINOR, SPEED_RECOVER
<1>2. TAKE c
<1>3. CallOK(Steer(c))
  BY <1>1, ApplyCall DEF Steer
<1>4. CallOK(Recover(c))
  BY <1>1, ApplyCall DEF Recover
<1> QED BY <1>3, <1>4

(* The first operation of a call, and what is left after it. *)
LEMMA Popped ==
  ASSUME NEW q \in Seq(MotorOp), CallOK(q), q # <<>>
  PROVE  /\ Head(q) \in MotorOp /\ CallOK(Tail(q)) /\ Tail(q) \in Seq(MotorOp)
         /\ Head(q).op = "lock" => Holding(Tail(q))
         /\ Holding(q) /\ Head(q).op # "unlock" => Holding(Tail(q))
<1> DEFINE p == Tail(q)
           n == Len(q)
<1>1. n \in Nat /\ n > 0 /\ n <= 4 /\ Head(q) = q[1]
  BY DEF CallOK
<1>2. p \in Seq(MotorOp) /\ Len(p) = n - 1 /\ \A i \in 1 .. n - 1 : p[i] = q[i + 1]
  BY <1>1
<1>3. Head(q) \in MotorOp
  BY <1>1
<1>4. \A i \in 1 .. n : q[i].op = "lock" => i = 1 /\ Releasing(q)
  BY DEF CallOK
<1> HIDE DEF p
<1>5. \A i \in 1 .. Len(p) : p[i].op # "lock"
  <2> TAKE i \in 1 .. Len(p)
  <2>1. i \in 1 .. n - 1 /\ i + 1 \in 1 .. n /\ i + 1 # 1
    BY <1>1, <1>2
  <2> QED BY <1>2, <1>4, <2>1
<1>6. CallOK(p)
  BY <1>1, <1>2, <1>5 DEF CallOK
<1>7. ASSUME Releasing(q), q[1].op # "unlock" PROVE Holding(p)
  <2>1. n > 1
    BY <1>1, <1>7 DEF Releasing
  <2>2. Len(p) \in 1 .. n - 1 /\ Len(p) + 1 = n /\ 1 \in 1 .. Len(p)
    BY <1>1, <1>2, <2>1
  <2>3. p[Len(p)] = q[n]
    BY <1>2, <2>2
  <2>4. Releasing(p)
    BY <1>7, <2>2, <2>3 DEF Releasing
  <2> QED BY <1>5, <2>2, <2>4 DEF Holding
<1>8. q[1].op = "lock" => Releasing(q)
  BY <1>1, <1>4
<1>9. "lock" # "unlock"
  OBVIOUS
<1> QED BY <1>1, <1>2, <1>3, <1>6, <1>7, <1>8, <1>9 DEF p, Holding

(* A thread makes a call only when it is in none. *)
MakesCall == \E t \in Thread : \E q \in Seq(MotorOp) :
               CallOK(q) /\ call[t] = <<>> /\ call' = [call EXCEPT ![t] = q]

OtherStep == TcrtStep \/ HcsrStep \/ MainStep \/ Tick \/ LoseLine \/ UNCHANGED vars

(* What a step outside the motor calls does to the mutex, calls and wheels. *)
LEMMA OtherMotor ==
  ASSUME OtherStep
  PROVE  /\ motor_mutex' = motor_mutex
         /\ wheels' = wheels \/ wheels' = [s \in Side |-> 0]
         /\ call' = call \/ MakesCall
<1> USE DEF motor
<1>t. Thread = {"tcrt", "hcsr", "main"}
  BY DEF Thread
<1>c. \A q : CallOK(q) => q \in Seq(MotorOp)
  BY DEF CallOK
<1>m. ASSUME NEW t \in Thread, NEW q, CallOK(q), call[t] = <<>>, call' = [call EXCEPT ![t] = q]
      PROVE  MakesCall
  <2>1. q \in Seq(MotorOp)
    BY <1>c, <1>m
  <2> QED BY <1>m, <2>1 DEF MakesCall
<1>1. CASE TcrtRead \/ TcrtEnd \/ TcrtCheck \/ TcrtReset \/ TcrtStop
  BY <1>1 DEF TcrtRead, TcrtEnd, TcrtCheck, TcrtReset, TcrtStop
<1>2. CASE TcrtLogic
  <2> DEFINE h == Remember(tcrt.code)
             last == find_last_valid(h)
             side == IF is_left_shift(h) THEN LeftCodes ELSE RightCodes
             q == IF last \in side THEN Recover(last) ELSE Recover(2)
  <2>1. /\ motor_mutex' = motor_mutex /\ wheels' = wheels
        /\ \/ call' = call
           \/ call["tcrt"] = <<>> /\ call' = [call EXCEPT !["tcrt"] = stop_all_motors]
           \/ call["tcrt"] = <<>> /\ call' = [call EXCEPT !["tcrt"] = Steer(tcrt.code)]
           \/ call["tcrt"] = <<>> /\ call' = [call EXCEPT !["tcrt"] = q]
    BY <1>2 DEF TcrtLogic, Goto, Calls
  <2>2. CallOK(stop_all_motors) /\ CallOK(Steer(tcrt.code)) /\ CallOK(q)
    <3>1. CallOK(Recover(last)) /\ CallOK(Recover(2)) /\ CallOK(Steer(tcrt.code))
      BY SteerCalls
    <3> QED BY <3>1, StopCall
  <2> HIDE DEF q
  <2> QED BY <1>t, <1>m, <2>1, <2>2
<1>3. CASE TcrtCount
  <2>1. /\ motor_mutex' = motor_mutex /\ wheels' = wheels /\ call["tcrt"] = <<>>
        /\ call' = [call EXCEPT !["tcrt"] = Sweep(tcrt.side)]
    BY <1>3 DEF TcrtCount, Goto, Calls
  <2>2. CallOK(Sweep(tcrt.side))
    BY SteerCalls DEF Sweep
  <2> QED BY <1>t, <1>m, <2>1, <2>2
<1>4. CASE TcrtJudge
  <2>1. /\ motor_mutex' = motor_mutex /\ wheels' = wheels
        /\ \/ call' = call
           \/ call["tcrt"] = <<>> /\ call' = [call EXCEPT !["tcrt"] = stop_all_motors]
    BY <1>4 DEF TcrtJudge, Goto, Calls
  <2> QED BY <1>t, <1>m, <2>1, StopCall
<1>5. CASE HcsrRead \/ HcsrHalt \/ HcsrResume \/ HcsrEnd
  BY <1>5 DEF HcsrRead, HcsrHalt, HcsrResume, HcsrEnd
<1>6. CASE HcsrNear
  <2>1. /\ motor_mutex' = motor_mutex /\ wheels' = wheels
        /\ \/ call' = call
           \/ call["hcsr"] = <<>> /\ call' = [call EXCEPT !["hcsr"] = stop_all_motors]
    BY <1>6 DEF HcsrNear, Goto, Calls
  <2> QED BY <1>t, <1>m, <2>1, StopCall
<1>7. CASE HcsrClear
  <2> DEFINE q == apply_motor_speed(SPEED_INIT, SPEED_INIT)
  <2>1. /\ motor_mutex' = motor_mutex /\ wheels' = wheels
        /\ \/ call' = call
           \/ call["hcsr"] = <<>> /\ call' = [call EXCEPT !["hcsr"] = q]
    BY <1>7 DEF HcsrClear, Goto, Calls
  <2>2. CallOK(q)
    BY ApplyCall DEF SPEED_INIT
  <2> HIDE DEF q
  <2> QED BY <1>t, <1>m, <2>1, <2>2
<1>8. CASE MainCreateTcrt \/ MainCreateHcsr \/ MainClose \/ MainJoinTcrt \/ MainJoinHcsr
  BY <1>8 DEF MainCreateTcrt, MainCreateHcsr, MainClose, MainJoinTcrt, MainJoinHcsr
<1>9. CASE MainDrive
  <2>1. /\ motor_mutex' = motor_mutex /\ wheels' = wheels /\ call["main"] = <<>>
        /\ call' = [call EXCEPT !["main"] = set_motors(SPEED_INIT, SPEED_INIT)]
    BY <1>9 DEF MainDrive, Goto, Calls
  <2>2. CallOK(set_motors(SPEED_INIT, SPEED_INIT))
    <3>1. SPEED_INIT \in SPEED_MIN .. SPEED_MAX
      BY DEF SPEED_INIT, SPEED_MIN, SPEED_MAX
    <3> QED BY <3>1, DriveCall
  <2> QED BY <1>t, <1>m, <2>1, <2>2
<1>10. CASE MainStop
  <2>1. /\ motor_mutex' = motor_mutex /\ wheels' = wheels /\ call["main"] = <<>>
        /\ call' = [call EXCEPT !["main"] = stop_all_motors]
    BY <1>10 DEF MainStop, Goto, Calls
  <2> QED BY <1>t, <1>m, <2>1, StopCall
<1>11. CASE Tick \/ LoseLine \/ UNCHANGED vars
  BY <1>11 DEF Tick, LoseLine, vars
<1> QED BY <1>1, <1>2, <1>3, <1>4, <1>5, <1>6, <1>7, <1>8, <1>9, <1>10, <1>11
        DEF OtherStep, TcrtStep, HcsrStep, MainStep

LEMMA InitMotor == Init => MotorInv
<1> SUFFICES ASSUME Init PROVE MotorInv
  OBVIOUS
<1>1. MotorTypes
  BY DEF Init, MotorTypes, SPEED_MIN, SPEED_MAX
<1>2. CallTypes
  BY NoCall DEF Init, CallTypes
<1>3. Owner
  BY DEF Init, Owner, Thread
<1> QED BY <1>1, <1>2, <1>3 DEF MotorInv

(* The calls keep their shape, and the mutex its owner, whatever the threads   *)
(* do between their operations.                                                *)
LEMMA NextMotor == MotorInv /\ [Next]_vars => MotorInv'
<1> SUFFICES ASSUME MotorInv, [Next]_vars PROVE MotorInv'
  OBVIOUS
<1>0. /\ MotorTypes /\ CallTypes /\ Owner
      /\ "free" \notin Thread
  BY DEF MotorInv, Thread
<1>c. ASSUME NEW t \in Thread PROVE call[t] \in Seq(MotorOp) /\ CallOK(call[t])
  BY <1>0 DEF CallTypes
<1>z. [s \in Side |-> 0] \in [Side -> {0} \cup SPEED_MIN .. SPEED_MAX]
  OBVIOUS
<1>1. CASE OtherStep
  <2>1. /\ motor_mutex' = motor_mutex
        /\ wheels' = wheels \/ wheels' = [s \in Side |-> 0]
        /\ call' = call \/ MakesCall
    BY <1>1, OtherMotor
  <2>2. MotorTypes'
    BY <1>0, <1>z, <2>1 DEF MotorTypes
  <2>3. CASE call' = call
    BY <1>0, <2>1, <2>2, <2>3 DEF MotorInv, CallTypes, Owner
  <2>4. CASE MakesCall
    <3>1. PICK t \in Thread, q \in Seq(MotorOp) :
            CallOK(q) /\ call[t] = <<>> /\ call' = [call EXCEPT ![t] = q]
      BY <2>4 DEF MakesCall
    <3>2. CallTypes'
      BY <1>0, <3>1 DEF CallTypes
    <3>3. ~Holding(<<>>)
      BY DEF Holding, Releasing
    <3>4. MotorOpens => motor_mutex # t
      BY <1>0, <3>1, <3>3 DEF Owner
    <3>5. Owner'
      BY <1>0, <2>1, <3>1, <3>4 DEF Owner, CallTypes
    <3> QED BY <2>2, <3>2, <3>5 DEF MotorInv
  <2> QED BY <2>1, <2>3, <2>4
<1>2. ASSUME NEW t \in Thread, MotorStep(t) PROVE MotorInv'
  <2> DEFINE q == call[t]
             o == Head(q)
             Takes(r) == call' = [call EXCEPT ![t] = r]
  <2>1. q # <<>> /\ q \in Seq(MotorOp) /\ CallOK(q)
    BY <1>2, <1>c DEF MotorStep
  <2>2. /\ o \in MotorOp /\ CallOK(Tail(q)) /\ Tail(q) \in Seq(MotorOp)
        /\ o.op = "lock" => Holding(Tail(q))
        /\ Holding(q) /\ o.op # "unlock" => Holding(Tail(q))
    BY <2>1, Popped
  <2>3. \/ /\ o.op = "lock" /\ motor_mutex = "free" /\ motor_mutex' = t
           /\ Takes(Tail(q)) /\ wheels' = wheels
        \/ /\ o.op \in Side /\ Takes(Tail(q)) /\ motor_mutex' = motor_mutex
           /\ wheels' = wheels \/ wheels' = [wheels EXCEPT ![o.op] = o.v]
        \/ /\ o.op = "stop" /\ Takes(Tail(q)) /\ motor_mutex' = motor_mutex
           /\ wheels' = [s \in Side |-> 0]
        \/ /\ o.op = "stop" /\ ~MotorOpens /\ Takes(<<>>) /\ motor_mutex' = motor_mutex
           /\ wheels' = wheels
        \/ o.op = "unlock" /\ Takes(Tail(q)) /\ motor_mutex' = "free" /\ wheels' = wheels
    BY <1>2 DEF MotorStep
  <2>4. o.op \in Side => o.v \in SPEED_MIN .. SPEED_MAX
    BY <2>2 DEF MotorOp, Side
  <2>5. call \in [Thread -> {r \in Seq(MotorOp) : CallOK(r)}]
    BY <1>0 DEF CallTypes
  <2>6. CallOK(<<>>) /\ <<>> \in Seq(MotorOp)
    BY NoCall
  <2>7. "lock" \notin Side /\ "stop" \notin Side /\ "unlock" \notin Side
    BY DEF Side
  <2> HIDE DEF q, o
  <2>8. MotorTypes'
    <3>1. wheels' \in [Side -> {0} \cup SPEED_MIN .. SPEED_MAX]
      BY <1>0, <1>z, <2>3, <2>4 DEF MotorTypes
    <3>2. motor_mutex' \in Thread \cup {"free"}
      BY <1>0, <2>3 DEF MotorTypes
    <3> QED BY <3>1, <3>2 DEF MotorTypes
  <2>9. PICK r \in {<<>>, Tail(q)} : call' = [call EXCEPT ![t] = r]
    BY <2>3
  <2>10. CallTypes'
    BY <2>2, <2>5, <2>6, <2>9 DEF CallTypes
  <2>11. ASSUME MotorOpens, NEW u \in Thread, motor_mutex' = u PROVE Holding(call'[u])
    <3>1. call[u] = (IF u = t THEN q ELSE call[u]) /\ (motor_mutex = u => Holding(call[u]))
      BY <1>0, <2>11 DEF Owner, q
    <3>2. /\ call' = [call EXCEPT ![t] = Tail(q)] /\ o.op # "unlock"
          /\ motor_mutex' = motor_mutex \/ (u = t /\ o.op = "lock")
      BY <1>0, <2>3, <2>7, <2>11
    <3>3. CASE u = t
      <4>1. call'[u] = Tail(q)
        BY <2>5, <3>2, <3>3
      <4>2. Holding(Tail(q))
        BY <2>2, <2>11, <3>1, <3>2, <3>3
      <4> QED BY <4>1, <4>2
    <3>4. CASE u # t
      BY <2>5, <2>11, <3>1, <3>2, <3>4
    <3> QED BY <3>3, <3>4
  <2> QED BY <2>8, <2>10, <2>11 DEF MotorInv, Owner
<1> QED BY <1>1, <1>2 DEF Next, OtherStep

(* With the motor device open, as in a04, the motor mutex is held only inside  *)
(* a motor call, which will give it back.  (In a05 it is not: the run          *)
(* follower_no_motor shows a call that leaves it locked.)                      *)
THEOREM MutexGivenBack == ASSUME MotorOpens PROVE Spec => []MutexReleased
<1>1. MotorInv => MutexReleased
  <2>1. ~Holding(<<>>)
    BY DEF Holding, Releasing
  <2> QED BY <2>1 DEF MotorInv, Owner, MutexReleased
<1> QED BY InitMotor, NextMotor, <1>1, PTL DEF Spec

-----------------------------------------------------------------------------
(* Types *)

Flags == /\ stop_flag \in 0 .. 1 /\ node_active \in BOOLEAN
         /\ obstacle_detected \in BOOLEAN /\ buzzer \in BOOLEAN /\ devices \in BOOLEAN
         /\ front \in Reading /\ track \in {"on", "lost"}

Ages == derail_age \in [Side -> 0 .. DerailTime] /\ obstacle_age \in 0 .. ObstacleDelay

(* The codes are those that occur and the one the program starts with; what    *)
(* the tcrt thread has seen of a counter is within the bound of the counter.   *)
BoundedLocals == [code : Codes \cup {2}, side : Side, seen : 0 .. DerailCount, late : BOOLEAN,
                  after : {"none", "reset", "judge", "stop"}]
Bounds == /\ recent \in [1 .. HistoryLen -> Codes \cup {2}]
          /\ derail_count \in [Side -> 0 .. DerailCount]
          /\ tcrt \in BoundedLocals

Types == Inv /\ MotorInv /\ Flags /\ Ages /\ Bounds

LEMMA InitTypes == Init => Types
<1> SUFFICES ASSUME Init PROVE Types
  OBVIOUS
<1>1. Inv /\ MotorInv
  BY InitInv, InitMotor
<1>2. Flags
  <2>1. stop_flag = 0 /\ front = "clear" /\ track = "on"
    BY DEF Init
  <2>2. /\ node_active \in BOOLEAN /\ obstacle_detected \in BOOLEAN
        /\ buzzer \in BOOLEAN /\ devices \in BOOLEAN
    BY Zenon DEF Init
  <2> QED BY <2>1, <2>2 DEF Flags, Reading
<1>3. Ages /\ Bounds
  <2>1. DerailTime \in 0 .. DerailTime /\ 0 \in 0 .. ObstacleDelay /\ 0 \in 0 .. DerailCount
    BY DerailAssumption, ObstacleAssumption
  <2>2. NoLocals \in BoundedLocals
    BY <2>1 DEF NoLocals, BoundedLocals, Side
  <2> QED BY <2>1, <2>2 DEF Init, Ages, Bounds
<1> QED BY <1>1, <1>2, <1>3 DEF Types

LEMMA FlagsStep ==
  ASSUME Flags, OtherStep \/ \E t \in Thread : MotorStep(t)
  PROVE  Flags'
<1> USE DEF derail, obstacle
<1>0. /\ stop_flag \in 0 .. 1 /\ node_active \in BOOLEAN
      /\ obstacle_detected \in BOOLEAN /\ buzzer \in BOOLEAN /\ devices \in BOOLEAN
      /\ front \in Reading /\ track \in {"on", "lost"}
  BY DEF Flags
<1>1. CASE TcrtRead \/ TcrtEnd \/ TcrtCheck \/ TcrtLogic \/ TcrtCount \/ TcrtReset \/ TcrtJudge
  <2>1. UNCHANGED <<stop_flag, node_active, obstacle_detected, buzzer, devices, front, track>>
    BY <1>1 DEF TcrtRead, TcrtEnd, TcrtCheck, TcrtLogic, TcrtCount, TcrtReset, TcrtJudge
  <2> QED BY <2>1 DEF Flags
<1>2. CASE TcrtStop
  BY <1>2 DEF TcrtStop, Flags
<1>3. CASE HcsrRead
  BY <1>3 DEF HcsrRead, Flags
<1>4. CASE HcsrNear
  <2>1. /\ UNCHANGED <<stop_flag, node_active, buzzer, devices, front, track>>
        /\ obstacle_detected' = obstacle_detected \/ obstacle_detected' = TRUE
    BY <1>4 DEF HcsrNear
  <2> QED BY <2>1 DEF Flags
<1>5. CASE HcsrHalt
  <2>1. /\ UNCHANGED <<stop_flag, obstacle_detected, devices, front, track>>
        /\ node_active' = TRUE /\ buzzer' = (devices \/ buzzer)
    BY <1>5 DEF HcsrHalt
  <2>2. buzzer' \in BOOLEAN
    BY <2>1, Zenon
  <2> QED BY <2>1, <2>2 DEF Flags
<1>6. CASE HcsrClear
  <2>1. /\ UNCHANGED <<stop_flag, obstacle_detected, devices, front, track>>
        /\ node_active' = FALSE \/ node_active' = node_active
        /\ buzzer' = (buzzer /\ ~devices) \/ buzzer' = buzzer
    BY <1>6 DEF HcsrClear
  <2>2. (buzzer /\ ~devices) \in BOOLEAN
    BY Zenon
  <2>3. buzzer' \in BOOLEAN
    BY <1>0, <2>1, <2>2, Zenon
  <2> QED BY <2>1, <2>3 DEF Flags
<1>7. CASE HcsrResume
  BY <1>7 DEF HcsrResume, Flags
<1>8. CASE HcsrEnd
  BY <1>8 DEF HcsrEnd, Flags
<1>9. CASE MainCreateTcrt \/ MainCreateHcsr \/ MainClose
  <2>1. /\ UNCHANGED <<stop_flag, node_active, obstacle_detected, buzzer, front, track>>
        /\ devices' = FALSE \/ devices' = devices
    BY <1>9 DEF MainCreateTcrt, MainCreateHcsr, MainClose
  <2> QED BY <2>1 DEF Flags
<1>10. CASE MainDrive \/ MainStop \/ MainJoinTcrt \/ MainJoinHcsr
  <2>1. UNCHANGED <<stop_flag, node_active, obstacle_detected, buzzer, devices, front, track>>
    BY <1>10 DEF MainDrive, MainStop, MainJoinTcrt, MainJoinHcsr
  <2> QED BY <2>1 DEF Flags
<1>11. CASE Tick \/ LoseLine
  <2>1. /\ UNCHANGED <<stop_flag, node_active, obstacle_detected, buzzer, devices, front>>
        /\ track' \in {"on", "lost"}
    BY <1>11 DEF Tick, LoseLine, Flags
  <2> QED BY <2>1 DEF Flags
<1>12. CASE UNCHANGED vars
  BY <1>12 DEF vars, Flags
<1>13. CASE \E t \in Thread : MotorStep(t)
  BY <1>13 DEF MotorStep, Flags
<1> QED BY <1>1, <1>2, <1>3, <1>4, <1>5, <1>6, <1>7, <1>8, <1>9, <1>10, <1>11, <1>12, <1>13
        DEF OtherStep, TcrtStep, HcsrStep, MainStep

(* The ages grow with the clock up to their bounds. *)
LEMMA AgesStep ==
  ASSUME Ages, Bounds, OtherStep \/ \E t \in Thread : MotorStep(t)
  PROVE  Ages'
<1> USE DEF derail, obstacle
<1>0. /\ derail_age \in [Side -> 0 .. DerailTime] /\ obstacle_age \in 0 .. ObstacleDelay
      /\ {0, DerailTime} \subseteq 0 .. DerailTime /\ 0 \in 0 .. ObstacleDelay
      /\ DerailTime \in Nat /\ ObstacleDelay \in Nat
  BY DerailAssumption, ObstacleAssumption DEF Ages
<1>r. ASSUME reset_derail_counters PROVE derail_age' \in [Side -> 0 .. DerailTime]
  BY <1>0, <1>r DEF reset_derail_counters
<1>1. CASE \/ TcrtRead \/ TcrtEnd \/ TcrtCheck \/ TcrtCount \/ TcrtJudge \/ TcrtStop
           \/ HcsrRead \/ HcsrHalt \/ HcsrClear \/ HcsrEnd \/ MainStep \/ LoseLine
           \/ UNCHANGED vars \/ \E t \in Thread : MotorStep(t)
  <2>1. UNCHANGED <<derail_age, obstacle_age>>
    BY <1>1 DEF TcrtRead, TcrtEnd, TcrtCheck, TcrtCount, TcrtJudge, TcrtStop, HcsrRead, HcsrHalt,
                HcsrClear, HcsrEnd, MainStep, MainCreateTcrt, MainCreateHcsr, MainDrive, MainStop,
                MainClose, MainJoinTcrt, MainJoinHcsr, LoseLine, vars, MotorStep
  <2> QED BY <2>1 DEF Ages
<1>2. CASE TcrtLogic
  <2>1. /\ obstacle_age' = obstacle_age
        /\ \/ derail_age' = derail_age
           \/ \E s \in Side : \E a \in {0, derail_age[s]} : derail_age' = [derail_age EXCEPT ![s] = a]
    BY <1>2 DEF TcrtLogic, Side
  <2> QED BY <1>0, <2>1 DEF Ages
<1>3. CASE TcrtReset
  BY <1>0, <1>3, <1>r DEF TcrtReset, Ages
<1>4. CASE HcsrResume
  BY <1>0, <1>4, <1>r DEF HcsrResume, Ages
<1>5. CASE HcsrNear
  <2>1. derail_age' = derail_age /\ (obstacle_age' = 0 \/ obstacle_age' = obstacle_age)
    BY <1>5 DEF HcsrNear
  <2> QED BY <1>0, <2>1 DEF Ages
<1>6. CASE Tick
  <2>1. ASSUME NEW b \in Nat, NEW a \in 0 .. b PROVE Older(a, b) \in 0 .. b
    BY <2>1 DEF Older
  <2>2. /\ derail_age' = [s \in Side |-> Older(derail_age[s], DerailTime)]
        /\ obstacle_age' = IF obstacle_detected THEN Older(obstacle_age, ObstacleDelay)
                           ELSE obstacle_age
    BY <1>6 DEF Tick
  <2>3. obstacle_age' \in 0 .. ObstacleDelay
    BY <1>0, <2>1, <2>2
  <2>4. \A s \in Side : derail_age[s] \in 0 .. DerailTime
    BY <1>0
  <2>5. \A s \in Side : Older(derail_age[s], DerailTime) \in 0 .. DerailTime
    BY <1>0, <2>1, <2>4
  <2>6. derail_age' \in [Side -> 0 .. DerailTime]
    BY <2>2, <2>5
  <2> QED BY <2>3, <2>6 DEF Ages
<1> QED BY <1>1, <1>2, <1>3, <1>4, <1>5, <1>6 DEF OtherStep, TcrtStep, HcsrStep

(* The history, the counters and the locals of the tcrt thread. *)
LEMMA BoundsStep ==
  ASSUME Bounds, OtherStep \/ \E t \in Thread : MotorStep(t)
  PROVE  Bounds'
<1> USE DEF derail
<1>0. /\ recent \in [1 .. HistoryLen -> Codes \cup {2}]
      /\ derail_count \in [Side -> 0 .. DerailCount] /\ tcrt \in BoundedLocals
      /\ DerailCount \in Nat /\ 0 \in 0 .. DerailCount
  BY DerailAssumption DEF Bounds
<1>1. CASE \/ TcrtEnd \/ TcrtCheck \/ TcrtStop \/ HcsrRead \/ HcsrNear \/ HcsrHalt \/ HcsrClear
           \/ HcsrEnd \/ MainStep \/ Tick \/ LoseLine
           \/ UNCHANGED vars \/ \E t \in Thread : MotorStep(t)
  <2>1. UNCHANGED <<recent, derail_count, tcrt>>
    BY <1>1 DEF TcrtEnd, TcrtCheck, TcrtStop, HcsrRead, HcsrNear, HcsrHalt, HcsrClear,
                HcsrEnd, MainStep, MainCreateTcrt, MainCreateHcsr, MainDrive, MainStop,
                MainClose, MainJoinTcrt, MainJoinHcsr, Tick, LoseLine, vars, MotorStep
  <2> QED BY <2>1 DEF Bounds
<1>2. CASE TcrtRead
  <2>1. PICK c \in Codes : tcrt' = [NoLocals EXCEPT !.code = c]
    BY <1>2 DEF TcrtRead
  <2>2. tcrt' = [code |-> c, side |-> "left", seen |-> 0, late |-> FALSE, after |-> "none"]
    BY <2>1 DEF NoLocals
  <2>3. tcrt' \in BoundedLocals
    BY <1>0, <2>2 DEF BoundedLocals, Side
  <2>4. UNCHANGED <<recent, derail_count>>
    BY <1>2 DEF TcrtRead
  <2> QED BY <1>0, <2>3, <2>4 DEF Bounds
<1>3. CASE TcrtLogic
  <2>1. /\ recent' = Remember(tcrt.code) /\ derail_count' = derail_count
        /\ \/ tcrt' = tcrt
           \/ \E a \in {"stop", "reset"} : tcrt' = [tcrt EXCEPT !.after = a]
           \/ \E s \in Side : tcrt' = [tcrt EXCEPT !.side = s, !.seen = derail_count[s]]
    BY <1>3 DEF TcrtLogic, Side
  <2>2. tcrt.code \in Codes \cup {2}
    BY <1>0 DEF BoundedLocals
  <2>3. recent' \in [1 .. HistoryLen -> Codes \cup {2}]
    <3>1. ASSUME NEW i \in 1 .. HistoryLen
          PROVE  (IF i = 1 THEN tcrt.code ELSE recent[i - 1]) \in Codes \cup {2}
      <4>1. i # 1 => i - 1 \in 1 .. HistoryLen
        BY HistoryAssumption, <3>1
      <4> QED BY <1>0, <2>2, <4>1
    <3> QED BY <2>1, <3>1 DEF Remember
  <2>4. tcrt' \in BoundedLocals
    <3>1. ASSUME NEW a \in {"stop", "reset"}, tcrt' = [tcrt EXCEPT !.after = a]
          PROVE  tcrt' \in BoundedLocals
      BY <1>0, <3>1 DEF BoundedLocals
    <3>2. ASSUME NEW s \in Side, tcrt' = [tcrt EXCEPT !.side = s, !.seen = derail_count[s]]
          PROVE  tcrt' \in BoundedLocals
      <4>1. derail_count[s] \in 0 .. DerailCount
        BY <1>0, <3>2
      <4> QED BY <1>0, <3>2, <4>1 DEF BoundedLocals
    <3> QED BY <1>0, <2>1, <3>1, <3>2
  <2> QED BY <1>0, <2>1, <2>3, <2>4 DEF Bounds
<1>4. CASE TcrtCount
  <2> DEFINE s == tcrt.side
             More(m) == IF m < DerailCount THEN m + 1 ELSE DerailCount
             late == derail_age[s] >= DerailTime
  <2>1. /\ recent' = recent
        /\ \E m \in {tcrt.seen, derail_count[s]} : derail_count' = [derail_count EXCEPT ![s] = More(m)]
        /\ tcrt' = [tcrt EXCEPT !.late = late, !.after = "judge"]
    BY <1>4 DEF TcrtCount
  <2>2. s \in Side /\ {tcrt.seen, derail_count[s]} \subseteq 0 .. DerailCount
    BY <1>0 DEF BoundedLocals
  <2>7. \A m \in 0 .. DerailCount : More(m) \in 0 .. DerailCount
    BY <1>0
  <2>8. PICK n \in 0 .. DerailCount : derail_count' = [derail_count EXCEPT ![s] = n]
    BY <2>1, <2>2, <2>7
  <2>4. late \in BOOLEAN
    OBVIOUS
  <2> HIDE DEF late
  <2>5. tcrt' \in BoundedLocals
    BY <1>0, <2>1, <2>4 DEF BoundedLocals
  <2>6. derail_count' \in [Side -> 0 .. DerailCount]
    BY <1>0, <2>2, <2>8
  <2> QED BY <1>0, <2>1, <2>5, <2>6 DEF Bounds
<1>5. CASE TcrtReset \/ HcsrResume
  <2>1. UNCHANGED <<recent, tcrt>> /\ derail_count' = [s \in Side |-> 0]
    BY <1>5 DEF TcrtReset, HcsrResume, reset_derail_counters
  <2>2. derail_count' \in [Side -> 0 .. DerailCount]
    BY <1>0, <2>1
  <2> QED BY <1>0, <2>1, <2>2 DEF Bounds
<1>6. CASE TcrtJudge
  <2>1. /\ UNCHANGED <<recent, derail_count>>
        /\ tcrt' = tcrt \/ tcrt' = [tcrt EXCEPT !.after = "stop"]
    BY <1>6 DEF TcrtJudge
  <2>2. tcrt' \in BoundedLocals
    BY <1>0, <2>1 DEF BoundedLocals
  <2> QED BY <1>0, <2>1, <2>2 DEF Bounds
<1> QED BY <1>1, <1>2, <1>3, <1>4, <1>5, <1>6 DEF OtherStep, TcrtStep, HcsrStep

LEMMA NextTypes == Types /\ [Next]_vars => Types'
<1> SUFFICES ASSUME Types, [Next]_vars PROVE Types'
  OBVIOUS
<1>1. OtherStep \/ \E t \in Thread : MotorStep(t)
  BY DEF Next, OtherStep
<1>2. Inv' /\ MotorInv'
  BY NextInv, NextMotor DEF Types
<1>3. Flags' /\ Ages' /\ Bounds'
  BY <1>1, FlagsStep, AgesStep, BoundsStep DEF Types
<1> QED BY <1>2, <1>3 DEF Types

(* Every variable of a04 keeps its type: the speeds of the wheels are those    *)
(* clamp_speed allows, a motor call has at most four operations, and the       *)
(* history, the counters and the ages keep within their bounds.                *)
THEOREM FollowerTypes == Spec => []TypeOK
<1>1. ASSUME Types PROVE TypeOK
  <2>1. at \in [Thread -> Place]
    BY <1>1 DEF Types, Inv, DerailTypes
  <2>2. /\ motor_mutex \in Thread \cup {"free"}
        /\ wheels \in [Side -> {0} \cup SPEED_MIN .. SPEED_MAX]
    BY <1>1 DEF Types, MotorInv, MotorTypes
  <2>3. \A t \in Thread : Len(call[t]) <= 4
    BY <1>1 DEF Types, MotorInv, CallTypes, CallOK
  <2>4. /\ stop_flag \in 0 .. 1 /\ node_active \in BOOLEAN
        /\ obstacle_detected \in BOOLEAN /\ buzzer \in BOOLEAN /\ devices \in BOOLEAN
        /\ front \in Reading /\ track \in {"on", "lost"}
    BY <1>1 DEF Types, Flags
  <2>5. derail_age \in [Side -> 0 .. DerailTime] /\ obstacle_age \in 0 .. ObstacleDelay
    BY <1>1 DEF Types, Ages
  <2>6. /\ recent \in [1 .. HistoryLen -> Codes \cup {2}]
        /\ derail_count \in [Side -> 0 .. DerailCount] /\ tcrt \in BoundedLocals
    BY <1>1 DEF Types, Bounds
  <2>7. tcrt \in [code : 0 .. 7, side : Side, seen : 0 .. DerailCount, late : BOOLEAN,
                  after : {"none", "reset", "judge", "stop"}]
    <3>1. Codes \cup {2} \subseteq 0 .. 7
      BY CodesAssumption
    <3> QED BY <2>6, <3>1 DEF BoundedLocals
  <2> QED BY <2>1, <2>2, <2>3, <2>4, <2>5, <2>6, <2>7 DEF TypeOK
<1> QED BY InitTypes, NextTypes, <1>1, PTL DEF Spec

(* No derail counter ever reaches the length of the history.                   *)
THEOREM CountersBelowHistory == Spec => []DerailCountBounded
<1>1. Inv => DerailCountBounded
  BY DEF Inv
<1> QED BY InitInv, NextInv, <1>1, PTL DEF Spec
=============================================================================

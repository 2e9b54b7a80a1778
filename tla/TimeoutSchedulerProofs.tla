----------------------- MODULE TimeoutSchedulerProofs -----------------------
(***************************************************************************)
(* The scan ends overdue phases only, for any number of rooms, crashes and *)
(* rooms in trouble.                                                       *)
(***************************************************************************)
EXTENDS TimeoutScheduler, TLAPS

(* The scan applies a timeout only while it holds the lock of its room. *)
ScanHoldsItsRoom ==
  /\ scan = "INSIDE" => at # None /\ holder[at] = "SCAN"
  /\ scan = "IDLE" => at = None

SchedulerInv == TypeOK /\ ScanHoldsItsRoom

USE BoundsAssumption

LEMMA ChangePhaseTypes ==
  ASSUME TypeOK, NEW r \in Room, ChangePhase(r)
  PROVE  /\ state' \in [Room -> {"IN_GAME", "CLOSED", "DELETED"}]
         /\ phase' \in [Room -> {0, 1}]
         /\ deadline' \in [Room -> {"NONE", "RUNNING", "OVERDUE"}]
<1>1. 1 - phase[r] \in {0, 1}
  BY DEF TypeOK
<1>2. phase' \in [Room -> {0, 1}]
  BY <1>1 DEF TypeOK, ChangePhase
<1>. QED  BY <1>2 DEF TypeOK, ChangePhase

LEMMA SchedulerInit == Init => SchedulerInv
BY DEF Init, SchedulerInv, TypeOK, ScanHoldsItsRoom

(* The steps of the scan. *)
LEMMA ScanKeepsInv ==
  ASSUME SchedulerInv, ScanStep
  PROVE  SchedulerInv'
<1>. USE DEF SchedulerInv
<1>1. CASE List
  BY <1>1 DEF List, TypeOK, ScanHoldsItsRoom, InGame, roomVars
<1>2. CASE Pick
  BY <1>2 DEF Pick, TypeOK, ScanHoldsItsRoom, roomVars
<1>3. CASE LockRoom
  <2>1. at \in Room
    BY <1>3 DEF LockRoom, TypeOK
  <2>. QED  BY <1>3, <2>1 DEF LockRoom, TypeOK, ScanHoldsItsRoom, roomVars
<1>4. CASE Skip
  BY <1>4 DEF Skip, Unlock, TypeOK, ScanHoldsItsRoom, roomVars
<1>5. CASE Apply
  <2>1. at \in Room
    BY <1>5 DEF Apply, ScanHoldsItsRoom, TypeOK
  <2>2. /\ state' \in [Room -> {"IN_GAME", "CLOSED", "DELETED"}]
        /\ phase' \in [Room -> {0, 1}]
        /\ deadline' \in [Room -> {"NONE", "RUNNING", "OVERDUE"}]
    BY <1>5, <2>1, ChangePhaseTypes DEF Apply
  <2>. QED  BY <1>5, <2>1, <2>2 DEF Apply, Unlock, TypeOK, ScanHoldsItsRoom
<1>6. CASE Abort
  BY <1>6 DEF Abort, Unlock, TypeOK, ScanHoldsItsRoom, roomVars
<1>7. CASE Finish
  BY <1>7 DEF Finish, TypeOK, ScanHoldsItsRoom, roomVars
<1>. QED  BY <1>1, <1>2, <1>3, <1>4, <1>5, <1>6, <1>7 DEF ScanStep

(* The steps of the players, of the administrator and of time. *)
LEMMA RoomKeepsInv ==
  ASSUME SchedulerInv, NEW r \in Room, RoomStep(r)
  PROVE  SchedulerInv'
<1>. USE DEF SchedulerInv
<1>1. CASE ClientLock(r)
  BY <1>1 DEF ClientLock, TypeOK, ScanHoldsItsRoom, roomVars, scanVars
<1>2. CASE ClientActs(r)
  <2>1. /\ state' \in [Room -> {"IN_GAME", "CLOSED", "DELETED"}]
        /\ phase' \in [Room -> {0, 1}]
        /\ deadline' \in [Room -> {"NONE", "RUNNING", "OVERDUE"}]
    BY <1>2, ChangePhaseTypes DEF ClientActs, TypeOK, roomVars
  <2>2. TypeOK'
    BY <1>2, <2>1 DEF ClientActs, TypeOK, scanVars
  <2>. QED  BY <1>2, <2>2 DEF ClientActs, TypeOK, ScanHoldsItsRoom, scanVars
<1>3. CASE Expire(r)
  BY <1>3 DEF Expire, TypeOK, ScanHoldsItsRoom, scanVars
<1>4. CASE Impede(r)
  BY <1>4 DEF Impede, TypeOK, ScanHoldsItsRoom, roomVars, scanVars
<1>5. CASE Relieve(r)
  BY <1>5 DEF Relieve, TypeOK, ScanHoldsItsRoom, roomVars, scanVars
<1>. QED  BY <1>1, <1>2, <1>3, <1>4, <1>5 DEF RoomStep

LEMMA SchedulerStep == SchedulerInv /\ [Next]_vars => SchedulerInv'
<1>. SUFFICES ASSUME SchedulerInv, [Next]_vars  PROVE SchedulerInv'
  OBVIOUS
<1>1. CASE Crash
  BY <1>1 DEF Crash, SchedulerInv, TypeOK, ScanHoldsItsRoom, roomVars
<1>2. CASE Start
  BY <1>2 DEF Start, SchedulerInv, TypeOK, ScanHoldsItsRoom, roomVars, scanVars
<1>3. CASE UNCHANGED vars
  BY <1>3 DEF SchedulerInv, TypeOK, ScanHoldsItsRoom, vars, roomVars, scanVars
<1>. QED  BY <1>1, <1>2, <1>3, ScanKeepsInv, RoomKeepsInv DEF Next

LEMMA SchedulerInvariant == Spec => []SchedulerInv
BY SchedulerInit, SchedulerStep, PTL DEF Spec

(* The rooms, their locks and the scan keep their types. *)
THEOREM SchedulerTypeCorrect == Spec => []TypeOK
<1>1. SchedulerInv => TypeOK
  BY DEF SchedulerInv
<1>. QED  BY <1>1, SchedulerInvariant, PTL

(* No timeout ends a phase that is not overdue, however old the scan's list *)
(* of rooms is.                                                             *)
THEOREM SchedulerTimeoutsAreDue == Spec => TimeoutsAreDue
<1>1. ASSUME SchedulerInv, [Next]_vars, NEW r \in Room, phase'[r] # phase[r]
      PROVE  holder[r] = "CLIENT" \/ (holder[r] = "SCAN" /\ deadline[r] = "OVERDUE")
  <2>1. CASE Apply
    <3>1. at \in Room /\ holder[at] = "SCAN" /\ deadline[at] = "OVERDUE"
      BY <1>1, <2>1 DEF Apply, Due, SchedulerInv, ScanHoldsItsRoom, TypeOK
    <3>2. r = at
      BY <1>1, <2>1, <3>1 DEF Apply, ChangePhase, SchedulerInv, TypeOK
    <3>. QED  BY <3>1, <3>2
  <2>2. ASSUME NEW q \in Room, ClientActs(q)
        PROVE  holder[r] = "CLIENT"
    <3>1. r = q
      BY <1>1, <2>2 DEF ClientActs, ChangePhase, SchedulerInv, TypeOK, roomVars
    <3>. QED  BY <2>2, <3>1 DEF ClientActs
  <2>3. CASE \/ List \/ Pick \/ LockRoom \/ Skip \/ Abort \/ Finish \/ Crash \/ Start
             \/ UNCHANGED vars
             \/ \E q \in Room : ClientLock(q) \/ Expire(q) \/ Impede(q) \/ Relieve(q)
    BY <1>1, <2>3 DEF List, Pick, LockRoom, Skip, Abort, Finish, Crash, Start, vars, roomVars,
                      ClientLock, Expire, Impede, Relieve
  <2>. QED  BY <1>1, <2>1, <2>2, <2>3 DEF Next, ScanStep, RoomStep
<1>2. SchedulerInv /\ [Next]_vars =>
        [\A r \in Room : phase'[r] # phase[r] =>
           holder[r] = "CLIENT" \/ (holder[r] = "SCAN" /\ deadline[r] = "OVERDUE")]_vars
  BY <1>1
<1>. QED  BY <1>2, SchedulerInvariant, PTL DEF Spec, TimeoutsAreDue
=============================================================================

--------------------------- MODULE GameFlowProofs ---------------------------
(***************************************************************************)
(* The promises of GameFlow hold for any number of players.                *)
(***************************************************************************)
EXTENDS GameFlow, TurnOrderLemmas

(* Beside its promises the abstract game keeps two facts they rest on: a   *)
(* player whose round was cancelled no longer takes part, and no turns are *)
(* recorded before the first round of a cycle.                             *)
CancelledAreOut == \A p \in Player : turn[p] = "CANCELLED" => p \notin playing
NothingYet == stage \in {"LOBBY", "PREPARING"} => turn = NoTurns
CycleIsPlayed ==
  stage \in {"CYCLE_OVER", "GAME_OVER"} => \A p \in playing : turn[p] # "NONE"

FlowInv ==
  /\ TypeOK
  /\ TurnsInOrder
  /\ OneRoundAtATime
  /\ CancelledAreOut
  /\ NothingYet
  /\ CycleIsPlayed

(* All that is asked of the number of players.                             *)
Numbered == NumPlayers \in Nat

-----------------------------------------------------------------------------
(* The next player in turn order: a player without a turn, with no such    *)
(* player before them.                                                     *)
LEMMA NextInOrder ==
  ASSUME Numbered, NEW pl \in SUBSET Player, NEW tn, Waiting(pl, tn) # {}
  PROVE  /\ Min(Waiting(pl, tn)) \in pl
         /\ tn[Min(Waiting(pl, tn))] = "NONE"
         /\ \A q \in pl : tn[q] = "NONE" => Min(Waiting(pl, tn)) <= q
<1>1. Waiting(pl, tn) \subseteq Nat
  <2>1. Player \subseteq Nat
    BY DEF Player, Numbered
  <2>. QED  BY <2>1 DEF Waiting
<1>2. /\ Min(Waiting(pl, tn)) \in Waiting(pl, tn)
      /\ \A q \in Waiting(pl, tn) : Min(Waiting(pl, tn)) <= q
  BY <1>1, MinIsFirst
<1>. QED  BY <1>2 DEF Waiting

(* MoveOn keeps the invariant whenever no round is open and everyone who   *)
(* was passed over has left.                                               *)
LEMMA MoveOnKeepsInv ==
  ASSUME Numbered, NEW pl \in SUBSET Player,
         NEW tn \in [Player -> {"NONE", "CANCELLED", "FINISHED"}],
         \A p, q \in Player : p < q /\ p \in pl /\ tn[q] # "NONE" => tn[p] # "NONE",
         \A p \in Player : tn[p] = "CANCELLED" => p \notin pl,
         MoveOn(pl, tn)
  PROVE  FlowInv'
<1>1. CASE /\ Waiting(pl, tn) # {}
           /\ playing' = pl /\ stage' = "PLAYING" /\ turn' = Open(pl, tn)
  <2> DEFINE m == Min(Waiting(pl, tn))
  <2>1. m \in pl /\ m \in Player /\ tn[m] = "NONE"
    BY <1>1, NextInOrder
  <2>2. \A q \in pl : tn[q] = "NONE" => m <= q
    BY <1>1, NextInOrder
  <2>3. turn' = [tn EXCEPT ![m] = "ACTIVE"]
    BY <1>1 DEF Open
  <2>. HIDE DEF m
  <2>4. TypeOK'
    BY <1>1, <2>1, <2>3 DEF TypeOK, Stages
  <2>5. TurnsInOrder'
    <3>. SUFFICES ASSUME NEW p \in Player, NEW q \in Player,
                         p < q, p \in pl, turn'[q] # "NONE", turn'[p] = "NONE"
                  PROVE  FALSE
      BY <1>1 DEF TurnsInOrder
    <3>1. p # m /\ tn[p] = "NONE"
      BY <2>1, <2>3
    <3>2. q # m
      <4>1. m <= p
        BY <2>2, <3>1
      <4>. QED  BY <4>1 DEF Player, Numbered
    <3>3. tn[q] # "NONE"
      BY <2>3, <3>2
    <3>. QED  BY <3>1, <3>3
  <2>6. OneRoundAtATime'
    BY <1>1, <2>1, <2>3 DEF OneRoundAtATime
  <2>7. CancelledAreOut'
    BY <1>1, <2>1, <2>3 DEF CancelledAreOut
  <2>. QED  BY <1>1, <2>4, <2>5, <2>6, <2>7 DEF FlowInv, NothingYet, CycleIsPlayed
<1>2. CASE /\ Waiting(pl, tn) = {}
           /\ playing' = pl /\ stage' \in {"CYCLE_OVER", "GAME_OVER"} /\ turn' = tn
  <2>1. \A p \in pl : tn[p] # "NONE"
    BY <1>2 DEF Waiting
  <2>. QED
    BY <1>2, <2>1 DEF FlowInv, TypeOK, Stages, TurnsInOrder, OneRoundAtATime,
                      CancelledAreOut, NothingYet, CycleIsPlayed
<1>. QED  BY <1>1, <1>2 DEF MoveOn

-----------------------------------------------------------------------------
LEMMA FlowInit == Init => FlowInv
BY DEF Init, FlowInv, TypeOK, Stages, NoTurns, TurnsInOrder, OneRoundAtATime,
       CancelledAreOut, NothingYet, CycleIsPlayed

LEMMA FlowStep == Numbered /\ FlowInv /\ [Next]_vars => FlowInv'
<1>. SUFFICES ASSUME Numbered, FlowInv, [Next]_vars  PROVE FlowInv'
  OBVIOUS
<1>. USE DEF FlowInv
<1>1. CASE Begin
  BY <1>1 DEF Begin, TypeOK, Stages, NoTurns, TurnsInOrder, OneRoundAtATime,
              CancelledAreOut, NothingYet, CycleIsPlayed
<1>2. CASE FirstRound
  <2>1. PICK pl \in Remaining : MoveOn(pl, turn)
    BY <1>2 DEF FirstRound
  <2>2. turn = NoTurns
    BY <1>2 DEF FirstRound, NothingYet
  <2>3. pl \in SUBSET Player
    BY DEF Remaining, TypeOK
  <2>. QED  BY <2>1, <2>2, <2>3, MoveOnKeepsInv DEF NoTurns
<1>3. ASSUME NEW p \in Player, Finish(p)  PROVE FlowInv'
  <2>1. playing' \subseteq playing
    BY <1>3 DEF Finish, Remaining
  <2>2. turn[p] = "ACTIVE" /\ turn' = [turn EXCEPT ![p] = "FINISHED"] /\ stage' = "SHOWING"
    BY <1>3 DEF Finish
  <2>3. TypeOK'
    BY <2>1, <2>2 DEF TypeOK, Stages
  <2>4. OneRoundAtATime'
    BY <2>2 DEF OneRoundAtATime, TypeOK
  <2>5. TurnsInOrder'
    BY <2>1, <2>2 DEF TurnsInOrder, TypeOK
  <2>. QED
    BY <2>1, <2>2, <2>3, <2>4, <2>5 DEF TypeOK, CancelledAreOut, NothingYet, CycleIsPlayed
<1>4. ASSUME NEW p \in Player, Cancel(p)  PROVE FlowInv'
  <2> DEFINE tn == [turn EXCEPT ![p] = "CANCELLED"]
  <2>1. tn \in [Player -> {"NONE", "CANCELLED", "FINISHED"}]
    BY <1>4 DEF Cancel, OneRoundAtATime, TypeOK
  <2>2. \A a, b \in Player : a < b /\ a \in playing \ {p} /\ tn[b] # "NONE" => tn[a] # "NONE"
    BY <1>4 DEF Cancel, TurnsInOrder, TypeOK
  <2>3. \A a \in Player : tn[a] = "CANCELLED" => a \notin playing \ {p}
    BY DEF CancelledAreOut, TypeOK
  <2>4. MoveOn(playing \ {p}, tn)
    BY <1>4 DEF Cancel
  <2>. HIDE DEF tn
  <2>5. playing \ {p} \in SUBSET Player
    BY DEF TypeOK
  <2>. QED  BY <2>1, <2>2, <2>3, <2>4, <2>5, MoveOnKeepsInv
<1>5. CASE GoOn
  <2>1. turn \in [Player -> {"NONE", "CANCELLED", "FINISHED"}]
    BY <1>5 DEF GoOn, OneRoundAtATime, TypeOK
  <2>2. playing \in SUBSET Player /\ MoveOn(playing, turn)
    BY <1>5 DEF GoOn, TypeOK
  <2>. QED  BY <2>1, <2>2, MoveOnKeepsInv DEF TurnsInOrder, CancelledAreOut
<1>6. ASSUME NEW p \in Player, DropOut(p)  PROVE FlowInv'
  BY <1>6 DEF DropOut, TypeOK, TurnsInOrder, OneRoundAtATime,
              CancelledAreOut, NothingYet, CycleIsPlayed
<1>7. CASE NextCycle
  BY <1>7 DEF NextCycle, TypeOK, Stages, NoTurns, TurnsInOrder, OneRoundAtATime,
              CancelledAreOut, NothingYet, CycleIsPlayed
<1>8. CASE Reset
  BY <1>8 DEF Reset, TypeOK, Stages, NoTurns, TurnsInOrder, OneRoundAtATime,
              CancelledAreOut, NothingYet, CycleIsPlayed
<1>9. CASE UNCHANGED vars
  BY <1>9 DEF vars, TypeOK, TurnsInOrder, OneRoundAtATime,
              CancelledAreOut, NothingYet, CycleIsPlayed
<1>. QED
  BY <1>1, <1>2, <1>3, <1>4, <1>5, <1>6, <1>7, <1>8, <1>9 DEF Next

(* The invariant holds in every state of the abstract game. *)
THEOREM FlowInvariant == Numbered => (Spec => []FlowInv)
<1>. SUFFICES ASSUME Numbered  PROVE Spec => []FlowInv
  OBVIOUS
<1>1. FlowInv /\ [Next]_vars => FlowInv'
  BY FlowStep
<1>. QED  BY <1>1, FlowInit, PTL DEF Spec

(* Turn order is respected: nobody who still takes part is passed over. *)
THEOREM FlowTurnsInOrder == Numbered => (Spec => []TurnsInOrder)
<1>1. FlowInv => TurnsInOrder
  BY DEF FlowInv
<1>. QED  BY <1>1, FlowInvariant, PTL

(* Rounds do not overlap. *)
THEOREM FlowOneRoundAtATime == Numbered => (Spec => []OneRoundAtATime)
<1>1. FlowInv => OneRoundAtATime
  BY DEF FlowInv
<1>. QED  BY <1>1, FlowInvariant, PTL

(* A cycle ends only when everyone who stayed has played a full turn. *)
THEOREM FlowCycleIsComplete == Numbered => (Spec => []CycleIsComplete)
<1>1. FlowInv => CycleIsComplete
  <2>. SUFFICES ASSUME FlowInv, stage \in {"CYCLE_OVER", "GAME_OVER"}, NEW p \in playing
                PROVE  turn[p] = "FINISHED"
    BY DEF CycleIsComplete
  <2>1. p \in Player /\ turn[p] \in {"NONE", "ACTIVE", "CANCELLED", "FINISHED"}
    BY DEF FlowInv, TypeOK
  <2>2. turn[p] # "NONE" /\ turn[p] # "ACTIVE" /\ turn[p] # "CANCELLED"
    BY <2>1 DEF FlowInv, CycleIsPlayed, OneRoundAtATime, CancelledAreOut
  <2>. QED  BY <2>1, <2>2
<1>. QED  BY <1>1, FlowInvariant, PTL

(* No step takes a turn back or gives a second one, cycle changes apart. *)
THEOREM FlowTurnsAreFinal == Numbered => (Spec => TurnsAreFinal)
<1>. SUFFICES ASSUME Numbered  PROVE Spec => TurnsAreFinal
  OBVIOUS
<1>1. ASSUME NEW pl \in SUBSET Player, MoveOn(pl, turn), FlowInv  PROVE KeepsTurns
  <2>1. CASE Waiting(pl, turn) # {} /\ turn' = Open(pl, turn)
    <3> DEFINE m == Min(Waiting(pl, turn))
    <3>1. m \in Player /\ turn[m] = "NONE"
      BY <1>1, <2>1, NextInOrder
    <3>2. turn' = [turn EXCEPT ![m] = "ACTIVE"]
      BY <2>1 DEF Open
    <3>. HIDE DEF m
    <3>. QED  BY <1>1, <3>1, <3>2 DEF KeepsTurns, FlowInv, TypeOK
  <2>2. CASE turn' = turn
    BY <2>2 DEF KeepsTurns
  <2>. QED  BY <1>1, <2>1, <2>2 DEF MoveOn
<1>2. ASSUME FlowInv, Next  PROVE KeepsTurns
  <2>. USE <1>2 DEF FlowInv
  <2>1. CASE FirstRound
    <3>1. PICK pl \in SUBSET Player : MoveOn(pl, turn)
      BY <2>1 DEF FirstRound, Remaining, TypeOK
    <3>. QED  BY <1>1, <3>1
  <2>2. ASSUME NEW p \in Player, Finish(p)  PROVE KeepsTurns
    BY <2>2 DEF Finish, KeepsTurns, TypeOK
  <2>3. ASSUME NEW p \in Player, Cancel(p)  PROVE KeepsTurns
    <3> DEFINE tn == [turn EXCEPT ![p] = "CANCELLED"]
    <3>1. turn[p] = "ACTIVE" /\ MoveOn(playing \ {p}, tn)
      BY <2>3 DEF Cancel
    <3>2. playing \ {p} \in SUBSET Player /\ tn[p] = "CANCELLED"
          /\ \A q \in Player : q # p => tn[q] = turn[q]
      BY DEF TypeOK
    <3>. HIDE DEF tn
    <3>3. CASE Waiting(playing \ {p}, tn) # {} /\ turn' = Open(playing \ {p}, tn)
      <4> DEFINE m == Min(Waiting(playing \ {p}, tn))
      <4>1. m \in Player /\ tn[m] = "NONE"
        BY <3>2, <3>3, NextInOrder
      <4>2. turn' = [tn EXCEPT ![m] = "ACTIVE"]
        BY <3>3 DEF Open
      <4>. HIDE DEF m
      <4>3. \A q \in Player : q # m => turn'[q] = tn[q]
        BY <4>2
      <4>. QED  BY <3>1, <3>2, <4>1, <4>2, <4>3 DEF KeepsTurns, TypeOK, tn
    <3>4. CASE turn' = tn
      BY <3>1, <3>2, <3>4 DEF KeepsTurns
    <3>. QED  BY <3>1, <3>3, <3>4 DEF MoveOn
  <2>4. CASE GoOn
    BY <1>1, <2>4 DEF GoOn, TypeOK
  <2>5. CASE Begin \/ NextCycle \/ Reset
    BY <2>5 DEF Begin, NextCycle, Reset, KeepsTurns
  <2>6. ASSUME NEW p \in Player, DropOut(p)  PROVE KeepsTurns
    BY <2>6 DEF DropOut, KeepsTurns
  <2>. QED  BY <2>1, <2>2, <2>3, <2>4, <2>5, <2>6 DEF Next
<1>3. FlowInv /\ [Next]_vars => [KeepsTurns]_vars
  BY <1>2
<1>. QED  BY <1>3, FlowInvariant, PTL DEF Spec, TurnsAreFinal
=============================================================================

---------------------------- MODULE Park_proofs ----------------------------
(***************************************************************************)
(* What holds of the park node for every set of spots, obstacles and       *)
(* settings: that it only moves for a spot that is no worse, and that a     *)
(* drive from the origin is clear.  ParkInv is about where a drive goes,    *)
(* SettleInv about where it ends, and the types need both.                  *)
(***************************************************************************)
EXTENDS Park, FiniteSetTheorems, TLAPS

LEMMA OptionsArePoses == Options \subseteq Poses
  BY SpotsAssumption DEF Options, Origin, Poses

LEMMA TurnedType ==
  ASSUME NEW x \in Int, NEW y \in Int, NEW yaw \in Int
  PROVE  Turned(x, y, yaw) \in Int \X Int
  BY DEF Turned

LEMMA ComposeType ==
  ASSUME NEW p \in Poses, NEW d \in Poses
  PROVE  Compose(p, d) \in Poses
<1> DEFINE offset == Turned(d.x, d.y, p.yaw)
<1>1. offset \in Int \X Int BY TurnedType DEF Poses
<1>2. offset[1] \in Int /\ offset[2] \in Int BY <1>1
<1> HIDE DEF offset
<1>3. Compose(p, d) = [x |-> p.x + offset[1], y |-> p.y + offset[2], yaw |-> p.yaw + d.yaw]
  BY DEF Compose, offset
<1> QED BY <1>2, <1>3 DEF Poses

\* From the origin a displacement is the pose it leads to, and a pose is the
\* displacement that leads there.
LEMMA FromOrigin ==
  ASSUME NEW d \in Poses
  PROVE  Compose(Origin, d) = d /\ SeenFrom(Origin, d) = d
<1>1. 0 % 4 = 0 /\ (-0) % 4 = 0 OBVIOUS
<1>2. \A x, y \in Int : Turned(x, y, 0) = <<x, y>> BY <1>1 DEF Turned
<1>3. Compose(Origin, d) = [x |-> d.x, y |-> d.y, yaw |-> d.yaw]
  BY <1>2 DEF Compose, Origin, Poses
<1>4. SeenFrom(Origin, d) = [x |-> d.x, y |-> d.y, yaw |-> d.yaw]
  BY <1>2 DEF SeenFrom, Origin, Poses
<1> QED BY <1>3, <1>4 DEF Poses

LEMMA StepsType ==
  ASSUME NEW p \in Poses, NEW q \in Poses
  PROVE  Steps(p, q) \in Nat
  BY DEF Steps, Travel, Larger, Size, Poses

LEMMA AlongType ==
  ASSUME NEW p \in Poses, NEW q \in Poses, NEW n \in Int, NEW parts \in Nat \ {0}
  PROVE  Along(p, q, n, parts) \in Poses
<1>1. \A a, b \in Int : a + ((b - a) * n) \div parts \in Int OBVIOUS
<1> QED BY <1>1 DEF Along, Poses

-----------------------------------------------------------------------------
(* What a goal can settle on.                                               *)

ChoiceOK(clear, c) ==
  /\ c.pose \in Options /\ c.spot \in Verdicts /\ c.staying \in Verdicts /\ c.routes \in Nat
  /\ (c.found /\ c.pose # Origin) =>
       /\ c.pose \in clear
       /\ c.spot.solid > 0 /\ c.routes = c.spot.routes
       /\ ~StayWins(c.staying, c.routes, Value(c.pose, c.spot))

LEMMA ChoicesOfOK ==
  ASSUME NEW clear \in SUBSET Options, NEW verdict \in [Options -> Verdicts],
         NEW e \in SUBSET Options,
         NEW c \in ChoicesOf({o \in e \cap clear : verdict[o].solid > 0}, verdict)
  PROVE  ChoiceOK(clear, c)
<1> DEFINE sound == {o \in e \cap clear : verdict[o].solid > 0}
<1>1. Origin \in Options /\ sound \subseteq Options BY DEF Options
<1>2. \A o \in Options : verdict[o] \in Verdicts /\ verdict[o].routes \in Nat
                          /\ verdict[o].solidRoutes \in Nat
  BY VerdictsAssumption DEF VerdictType
<1>3. \/ c = Stay(verdict)
      \/ c = Choice(FALSE, Origin, 0, verdict)
      \/ \E o \in sound : /\ c = Choice(TRUE, o, verdict[o].routes, verdict)
                          /\ ~StayWins(verdict[Origin], verdict[o].routes, Value(o, verdict[o]))
  BY DEF ChoicesOf, Bests
<1>4. CASE c = Stay(verdict)
  BY <1>1, <1>2, <1>4 DEF Stay, Choice, ChoiceOK
<1>5. CASE c = Choice(FALSE, Origin, 0, verdict)
  BY <1>1, <1>2, <1>5 DEF Choice, ChoiceOK
<1>6. ASSUME NEW o \in sound, c = Choice(TRUE, o, verdict[o].routes, verdict),
             ~StayWins(verdict[Origin], verdict[o].routes, Value(o, verdict[o]))
      PROVE  ChoiceOK(clear, c)
  BY <1>1, <1>2, <1>6 DEF Choice, ChoiceOK
<1> QED BY <1>3, <1>4, <1>5, <1>6

LEMMA ChoicesOK ==
  ASSUME NEW x \in Choices
  PROVE  ChoiceOK(x[1], x[2])
<1>1. PICK clear \in SUBSET Options, verdict \in [Options -> Verdicts] :
        \E e \in UNION {Exact(s, verdict) : s \in Screened} :
          x \in {clear} \X ChoicesOf({o \in e \cap clear : verdict[o].solid > 0}, verdict)
  BY DEF Choices
<1>2. PICK e \in UNION {Exact(s, verdict) : s \in Screened} :
        x \in {clear} \X ChoicesOf({o \in e \cap clear : verdict[o].solid > 0}, verdict)
  BY <1>1
<1>3. e \in SUBSET Options
  BY DEF Exact, Ranked, Screened, Options
<1>4. x[1] = clear /\ x[2] \in ChoicesOf({o \in e \cap clear : verdict[o].solid > 0}, verdict)
  BY <1>2
<1> QED BY <1>3, <1>4, ChoicesOfOK

-----------------------------------------------------------------------------
(* The inductive invariant.                                                 *)

TypesOK ==
  /\ where \in Poses /\ before \in Poses /\ start \in Poses /\ target \in Poses
  /\ chosen \in Options /\ step \in Nat
  /\ stage \in Stages

\* While a goal that began at the origin has not set off, the vehicle is still there, for
\* a reset can take it nowhere else; a drive goes where the way has been looked at.
WayOK ==
  /\ (stage # "driving" \/ before = Origin) => start = Origin
  /\ (stage \in {"verifying", "chosen"} /\ before = Origin) => where = Origin
  /\ Committed => /\ target = Compose(before, chosen)
                  /\ chosen # Origin => TransitClear(before, chosen, obstacles)
  /\ stage = "driving" => target # start

ParkInv == TypesOK /\ WayOK /\ NeverWorseThanStaying

LEMMA FoundOK ==
  ASSUME NEW o \in Obstacles, NEW c \in Found(o)
  PROVE  /\ ChoiceOK(Options, c)
         /\ (c.found /\ c.pose # Origin) => TransitClear(before, c.pose, o)
<1> DEFINE clear == {d \in Options : TransitClear(before, d, o)}
<1>1. PICK x \in Choices : x[1] = clear /\ x[2] = c
  BY DEF Found
<1>2. ChoiceOK(clear, c)
  BY <1>1, ChoicesOK
<1> QED BY <1>2 DEF ChoiceOK

\* What is chosen is no worse than staying.
LEMMA NotBeaten ==
  ASSUME NEW c, ChoiceOK(Options, c), c.found, c.pose # Origin, c.routes >= MinRoutable
  PROVE  /\ c.spot.solid > 0 /\ c.spot.routes >= MinRoutable
         /\ \/ c.spot.routes > c.staying.solidRoutes
            \/ /\ c.spot.routes = c.staying.solidRoutes
               /\ Value(c.pose, c.spot) >= c.staying.solid
<1>1. c.spot \in VerdictType /\ c.staying \in VerdictType
  BY VerdictsAssumption DEF ChoiceOK
<1>2. c.pose \in Poses BY OptionsArePoses DEF ChoiceOK
<1>3. TravelCost * Travel(c.pose) \in Int
  BY <1>2, SettingsAssumption DEF Travel, Larger, Size, Poses
<1>4. Value(c.pose, c.spot) \in Int
  BY <1>1, <1>3 DEF Value, VerdictType
<1> QED BY <1>1, <1>4 DEF ChoiceOK, StayWins, VerdictType

LEMMA InitParkInv == Init => ParkInv
<1> SUFFICES ASSUME Init PROVE ParkInv OBVIOUS
<1>1. Origin \in Poses /\ Origin \in Options BY DEF Origin, Poses, Options
<1> QED BY <1>1 DEF Init, ParkInv, TypesOK, WayOK, NeverWorseThanStaying, Committed, Stages

LEMMA NextParkInv == ParkInv /\ [Next]_vars => ParkInv'
<1> SUFFICES ASSUME ParkInv, [Next]_vars PROVE ParkInv' OBVIOUS
<1> USE DEF ParkInv, TypesOK, Committed, Stages
<1>0. Origin \in Poses /\ Origin \in Options BY DEF Origin, Poses, Options
<1>1. CASE OnPark
  BY <1>1 DEF OnPark, WayOK, NeverWorseThanStaying, searchVars, driveVars
<1>2. CASE Refuse \/ Decline
  BY <1>0, <1>2 DEF Refuse, Decline, Ends, WayOK, NeverWorseThanStaying
<1>3. CASE ReadWhere
  BY <1>3 DEF ReadWhere, WayOK, NeverWorseThanStaying, driveVars
<1>4. CASE Choose
  <2>1. PICK o \in Obstacles : \E c \in Found(o) :
          /\ c.found /\ c.routes >= MinRoutable
          /\ chosen' = c.pose /\ target' = Compose(before, c.pose)
          /\ spot' = c.spot /\ staying' = c.staying /\ obstacles' = o
    BY <1>4 DEF Choose
  <2>2. PICK c \in Found(o) :
          /\ c.found /\ c.routes >= MinRoutable
          /\ chosen' = c.pose /\ target' = Compose(before, c.pose)
          /\ spot' = c.spot /\ staying' = c.staying /\ obstacles' = o
    BY <2>1
  <2>3. UNCHANGED <<where, before, start, step>> /\ stage = "verifying" /\ stage' = "chosen"
    BY <1>4 DEF Choose
  <2>4. ChoiceOK(Options, c) /\ (chosen' # Origin => TransitClear(before, c.pose, o))
    BY <2>2, FoundOK
  <2>5. TypesOK'
    BY <2>2, <2>3, <2>4, ComposeType, OptionsArePoses DEF ChoiceOK
  <2>6. WayOK'
    BY <2>2, <2>3, <2>4 DEF WayOK, TransitClear
  <2>7. NeverWorseThanStaying'
    BY <2>2, <2>4, NotBeaten DEF NeverWorseThanStaying, Value
  <2> QED BY <2>5, <2>6, <2>7
<1>5. CASE SetOff
  BY <1>0, <1>5 DEF SetOff, Ends, WayOK, NeverWorseThanStaying, TransitClear, Value
<1>6. CASE Walk
  <2>1. Steps(start, target) \in Nat \ {0} /\ step' \in Nat
    BY <1>6, StepsType DEF Walk
  <2>2. where' \in Poses
    BY <1>6, <2>1, AlongType DEF Walk
  <2> QED BY <1>6, <2>1, <2>2 DEF Walk, searchVars, WayOK, NeverWorseThanStaying, TransitClear, Value
<1>7. CASE Stop \/ Arrive
  BY <1>0, <1>7 DEF Stop, Arrive, Ends, WayOK, NeverWorseThanStaying
<1>8. CASE Preempt
  BY <1>8 DEF Preempt, searchVars, driveVars, WayOK, NeverWorseThanStaying, TransitClear, Value
<1>9. CASE ResetMoves
  BY <1>0, <1>9 DEF ResetMoves, searchVars, driveVars, WayOK, NeverWorseThanStaying, TransitClear, Value
<1>10. CASE ResetAsks \/ ResetForgets \/ ResetTells
  BY <1>10 DEF ResetAsks, ResetForgets, ResetTells, searchVars, driveVars, WayOK, NeverWorseThanStaying,
               TransitClear, Value
<1>11. CASE OnTick
  BY <1>11 DEF OnTick, TickReads, TickSends, searchVars, driveVars, WayOK, NeverWorseThanStaying,
               TransitClear, Value
<1>12. CASE UNCHANGED vars
  BY <1>12 DEF vars, searchVars, driveVars, WayOK, NeverWorseThanStaying, TransitClear, Value
<1> QED BY <1>1, <1>2, <1>3, <1>4, <1>5, <1>6, <1>7, <1>8, <1>9, <1>10, <1>11, <1>12
        DEF Next, GoalThread, OnReset

LEMMA SpecParkInv == Spec => []ParkInv
  BY InitParkInv, NextParkInv, PTL DEF Spec

\* Whatever verify says of however many spots, what moves the vehicle is a spot that is
\* no worse than staying (onPark).
THEOREM SpotIsNeverWorse == Spec => []NeverWorseThanStaying
  BY SpecParkInv, PTL DEF ParkInv

\* For any obstacles and any number of samples, a drive that begins at the origin is
\* clear where the samples look (transitClear).
THEOREM FirstDriveClear == Spec => []FirstDriveIsClear
<1>1. ParkInv => FirstDriveIsClear
  <2> SUFFICES ASSUME ParkInv, stage = "driving", before = Origin,
                      NEW n \in 0..TransitSamples
               PROVE  SeenFrom(before, Along(start, target, n, TransitSamples)) \notin obstacles
    BY DEF FirstDriveIsClear, DriveIsClear
  <2>1. chosen \in Poses BY OptionsArePoses DEF ParkInv, TypesOK
  <2>2. start = Origin /\ target = chosen /\ chosen # Origin
    BY <2>1, FromOrigin DEF ParkInv, WayOK, Committed
  <2>3. Along(start, target, n, TransitSamples) \notin obstacles
    BY <2>2 DEF ParkInv, WayOK, Committed, TransitClear
  <2>4. Along(start, target, n, TransitSamples) \in Poses
    BY <2>1, <2>2, AlongType, SettingsAssumption DEF ParkInv, TypesOK
  <2> QED BY <2>3, <2>4, FromOrigin
<1> QED BY <1>1, SpecParkInv, PTL

-----------------------------------------------------------------------------
(* Where a park that has settled leaves the vehicle.                        *)

\* A turn and the turn back.
LEMMA TurnedBack ==
  ASSUME NEW x \in Int, NEW y \in Int, NEW yaw \in Int, NEW t, t = Turned(x, y, yaw)
  PROVE  t[1] \in Int /\ t[2] \in Int /\ Turned(t[1], t[2], -yaw) = <<x, y>>
<1>1. yaw % 4 \in {0, 1, 2, 3} /\ (-yaw) % 4 = (IF yaw % 4 = 0 THEN 0 ELSE 4 - (yaw % 4))
  OBVIOUS
<1>2. -x \in Int /\ -y \in Int /\ -(-x) = x /\ -(-y) = y OBVIOUS
<1>3. CASE yaw % 4 = 0
  <2>1. t[1] = x /\ t[2] = y BY <1>3 DEF Turned
  <2>2. Turned(x, y, -yaw) = <<x, y>> BY <1>1, <1>3 DEF Turned
  <2> QED BY <2>1, <2>2
<1>4. CASE yaw % 4 = 1
  <2>1. t[1] = -y /\ t[2] = x BY <1>4 DEF Turned
  <2>2. Turned(-y, x, -yaw) = <<x, -(-y)>> BY <1>1, <1>4 DEF Turned
  <2> QED BY <1>2, <2>1, <2>2
<1>5. CASE yaw % 4 = 2
  <2>1. t[1] = -x /\ t[2] = -y BY <1>5 DEF Turned
  <2>2. Turned(-x, -y, -yaw) = <<-(-x), -(-y)>> BY <1>1, <1>5 DEF Turned
  <2> QED BY <1>2, <2>1, <2>2
<1>6. CASE yaw % 4 = 3
  <2>1. t[1] = y /\ t[2] = -x BY <1>6 DEF Turned
  <2>2. Turned(y, -x, -yaw) = <<-(-x), y>> BY <1>1, <1>6 DEF Turned
  <2> QED BY <1>2, <2>1, <2>2
<1> QED BY <1>1, <1>3, <1>4, <1>5, <1>6

\* Whatever turn the vehicle has, the displacement that leads to a pose is the one it is
\* seen at.
LEMMA SeenFromCompose ==
  ASSUME NEW p \in Poses, NEW d \in Poses
  PROVE  SeenFrom(p, Compose(p, d)) = d
<1> DEFINE there == Turned(d.x, d.y, p.yaw)
           back == Turned(there[1], there[2], -p.yaw)
<1>1. there[1] \in Int /\ there[2] \in Int /\ back = <<d.x, d.y>>
  BY TurnedBack DEF Poses
<1> HIDE DEF there
<1>2. SeenFrom(p, Compose(p, d)) =
        [x |-> back[1], y |-> back[2], yaw |-> (p.yaw + d.yaw) - p.yaw]
  <2>1. (p.x + there[1]) - p.x = there[1] /\ (p.y + there[2]) - p.y = there[2]
    BY <1>1 DEF Poses
  <2>2. Compose(p, d) = [x |-> p.x + there[1], y |-> p.y + there[2], yaw |-> p.yaw + d.yaw]
    BY DEF Compose, there
  <2> QED BY <2>1, <2>2 DEF SeenFrom
<1> QED BY <1>1, <1>2 DEF Poses

LEMMA AlongEnds ==
  ASSUME NEW p \in Poses, NEW q \in Poses, NEW n \in Nat \ {0}
  PROVE  Along(p, q, n, n) = q
<1>1. \A a \in Int : (a * n) \div n = a OBVIOUS
<1>2. \A a, b \in Int : a + ((b - a) * n) \div n = b
  <2> TAKE a, b \in Int
  <2>1. b - a \in Int /\ ((b - a) * n) \div n = b - a BY <1>1
  <2> QED BY <2>1
<1> QED BY <1>2 DEF Along, Poses

LEMMA StepsOfNothing ==
  ASSUME NEW p \in Poses, NEW q \in Poses, Steps(p, q) = 0
  PROVE  p = q
<1>1. q.x - p.x = 0 /\ q.y - p.y = 0 /\ q.yaw - p.yaw = 0
  BY DEF Steps, Travel, Larger, Size, Poses
<1> QED BY <1>1 DEF Poses

SettleInv ==
  /\ disturbed \in BOOLEAN /\ scene \in [locked : BOOLEAN, at : Poses]
  /\ stage # "idle" => outcome = "none"
  /\ stage # "driving" => step = 0
  /\ Committed => scene.at = before /\ (scene.locked \/ disturbed)
  /\ (stage = "driving" /\ step = Steps(start, target))
       => where = target \/ (disturbed /\ where = Origin)
  /\ SettlesWhereChosen

LEMMA InitSettleInv == Init => SettleInv
<1>1. Unlocked \in [locked : BOOLEAN, at : Poses]
  BY DEF Unlocked, Origin, Poses
<1> QED BY <1>1 DEF Init, SettleInv, SettlesWhereChosen, Committed, Unlocked, Origin, Poses

LEMMA NextSettleInv == ParkInv /\ SettleInv /\ [Next]_vars => SettleInv'
<1> SUFFICES ASSUME ParkInv, SettleInv, [Next]_vars PROVE SettleInv' OBVIOUS
<1> USE DEF SettleInv, Committed
<1>0. chosen \in Poses /\ before \in Poses /\ start \in Poses /\ target \in Poses /\ where \in Poses
  BY OptionsArePoses DEF ParkInv, TypesOK
<1>1. CASE OnPark
  BY <1>1 DEF OnPark, searchVars, driveVars, SettlesWhereChosen
<1>2. CASE Refuse \/ Decline \/ Stop
  BY <1>2 DEF Refuse, Decline, Stop, Ends, SettlesWhereChosen
<1>3. CASE ReadWhere
  BY <1>3 DEF ReadWhere, driveVars, SettlesWhereChosen
<1>4. CASE Choose
  BY <1>0, <1>4 DEF Choose, LockScene, SettlesWhereChosen
<1>5. CASE SetOff
  <2>1. target = Compose(before, chosen) /\ scene.at = before /\ (scene.locked \/ disturbed)
    BY <1>5 DEF SetOff, ParkInv, WayOK
  <2>2. CASE where = target
    BY <1>0, <1>5, <2>1, <2>2, SeenFromCompose DEF SetOff, Ends, SettlesWhereChosen
  <2>3. CASE where # target
    <3>1. start' = where /\ target' = target /\ stage' = "driving" /\ outcome' = outcome
          /\ UNCHANGED <<where, scene, before, chosen, disturbed>>
      BY <1>5, <2>3 DEF SetOff
    <3>2. step' = 0 /\ stage = "chosen" BY <1>5, <2>3 DEF SetOff
    <3>3. Steps(where, target) # 0 BY <1>0, <2>3, StepsOfNothing
    <3> QED BY <2>1, <3>1, <3>2, <3>3 DEF SettlesWhereChosen
  <2> QED BY <2>2, <2>3
<1>6. CASE Walk
  <2>1. Steps(start, target) \in Nat \ {0}
    BY <1>0, <1>6, StepsType DEF Walk, ParkInv, TypesOK
  <2>2. step' = Steps(start, target) => where' = target
    BY <1>0, <1>6, <2>1, AlongEnds DEF Walk
  <2> QED BY <1>6, <2>2 DEF Walk, searchVars, SettlesWhereChosen
<1>7. CASE Arrive
  <2>1. target = Compose(before, chosen) /\ (where = target \/ (disturbed /\ where = Origin))
        /\ scene.at = before /\ (scene.locked \/ disturbed)
    BY <1>7 DEF Arrive, ParkInv, WayOK
  <2>2. SeenFrom(before, target) = chosen
    BY <1>0, <2>1, SeenFromCompose
  <2> QED BY <1>7, <2>1, <2>2 DEF Arrive, Ends, SettlesWhereChosen
<1>8. CASE Preempt
  BY <1>8 DEF Preempt, searchVars, driveVars, SettlesWhereChosen
<1>9. CASE ResetMoves
  BY <1>9 DEF ResetMoves, searchVars, driveVars, SettlesWhereChosen
<1>10. CASE ResetForgets
  BY <1>10 DEF ResetForgets, searchVars, driveVars, SettlesWhereChosen
<1>11. CASE ResetAsks \/ ResetTells \/ OnTick
  BY <1>11 DEF ResetAsks, ResetTells, OnTick, TickReads, TickSends, searchVars, driveVars, SettlesWhereChosen
<1>12. CASE UNCHANGED vars
  BY <1>12 DEF vars, searchVars, driveVars, SettlesWhereChosen
<1> QED BY <1>1, <1>2, <1>3, <1>4, <1>5, <1>6, <1>7, <1>8, <1>9, <1>10, <1>11, <1>12
        DEF Next, GoalThread, OnReset

\* From wherever the vehicle stood and however it was turned, a park that settles has it
\* at the displacement that was chosen, and only a reset in between can have taken it to
\* the origin instead (onPark, walkTo, lockScene, onReset).
THEOREM SettlesAtTheSpot == Spec => []SettlesWhereChosen
<1>1. SettleInv => SettlesWhereChosen BY DEF SettleInv
<1> QED BY <1>1, InitSettleInv, NextSettleInv, SpecParkInv, PTL DEF Spec

-----------------------------------------------------------------------------
(* The types.                                                               *)

LEMMA InitTypeOK == Init => TypeOK
<1> SUFFICES ASSUME Init PROVE TypeOK OBVIOUS
<1>1. Origin \in Poses /\ Origin \in Options /\ Unlocked \in [locked : BOOLEAN, at : Poses]
  BY DEF Origin, Poses, Options, Unlocked
<1>2. Steps(Origin, Origin) \in Nat
  BY <1>1, StepsType
<1>3. /\ where \in Poses /\ scene \in [locked : BOOLEAN, at : Poses]
      /\ before \in Poses /\ chosen \in Options /\ start \in Poses /\ target \in Poses
      /\ step \in 0..Steps(start, target)
      /\ tick \in Poses \cup {NoPose} /\ tf.body \in Poses /\ tf.scene \in Poses \cup {NoPose}
  BY <1>1, <1>2 DEF Init
<1>4. preempt \in BOOLEAN /\ disturbed \in BOOLEAN
  BY DEF Init
<1>5. /\ {spot, staying} \subseteq Verdicts \cup {Nothing} /\ obstacles \in Obstacles \cup {{}}
      /\ goals \in 0..MaxGoals /\ resets \in 0..MaxResets
  BY SettingsAssumption DEF Init
<1> QED BY <1>3, <1>4, <1>5 DEF Init, TypeOK, Stages

\* What has been read or told is a pose as long as where_ and the scene are.
LEMMA SentType ==
  ASSUME NEW p \in Poses, scene \in [locked : BOOLEAN, at : Poses],
         tf.scene \in Poses \cup {NoPose}
  PROVE  Sent(p).body \in Poses /\ Sent(p).scene \in Poses \cup {NoPose}
BY DEF Sent

LEMMA NextTypeOK == ParkInv /\ SettleInv /\ TypeOK /\ [Next]_vars => TypeOK'
<1> SUFFICES ASSUME ParkInv, SettleInv, TypeOK, [Next]_vars PROVE TypeOK' OBVIOUS
<1> USE DEF TypeOK, Stages
<1>0. Origin \in Poses /\ Origin \in Options BY DEF Origin, Poses, Options
<1>1. CASE OnPark
  <2>1. goals' \in 0..MaxGoals
    BY <1>1, SettingsAssumption DEF OnPark
  <2>2. preempt' = FALSE /\ disturbed' = FALSE /\ stage' = "searching" /\ outcome' = "none"
    BY <1>1 DEF OnPark
  <2> QED BY <1>1, <2>1, <2>2 DEF OnPark, searchVars, driveVars, resetVars, tfVars
<1>2. CASE Refuse \/ Decline \/ Stop \/ Arrive
  <2>1. Steps(Origin, Origin) \in Nat
    BY <1>0, StepsType
  <2> QED BY <1>0, <1>2, <2>1 DEF Refuse, Decline, Stop, Arrive, Ends, resetVars, tfVars
<1>3. CASE ReadWhere
  BY <1>3 DEF ReadWhere, driveVars, resetVars, tfVars
<1>4. CASE Choose
  <2>0. PICK o \in Obstacles : \E c \in Found(o) :
          /\ chosen' = c.pose /\ target' = Compose(before, c.pose)
          /\ spot' = c.spot /\ staying' = c.staying /\ obstacles' = o
    BY <1>4 DEF Choose
  <2>1. PICK c \in Found(o) :
          /\ chosen' = c.pose /\ target' = Compose(before, c.pose)
          /\ spot' = c.spot /\ staying' = c.staying /\ obstacles' = o
    BY <2>0
  <2>2. ChoiceOK(Options, c)
    BY FoundOK
  <2>3. chosen' \in Options /\ target' \in Poses /\ {spot', staying'} \subseteq Verdicts
    BY <2>1, <2>2, ComposeType, OptionsArePoses DEF ChoiceOK
  <2>4. step' = 0 /\ start' = start /\ Steps(start, target') \in Nat
    BY <1>4, <2>3, StepsType DEF Choose, SettleInv
  <2>5. scene' \in [locked : BOOLEAN, at : Poses]
    BY <1>4 DEF Choose, LockScene
  <2> QED BY <1>4, <2>1, <2>3, <2>4, <2>5 DEF Choose, resetVars, tfVars
<1>5. CASE SetOff
  <2>1. Steps(Origin, Origin) \in Nat /\ Steps(where, target) \in Nat /\ step = 0
    BY <1>0, <1>5, StepsType DEF SetOff, SettleInv
  <2> QED BY <1>0, <1>5, <2>1 DEF SetOff, Ends, resetVars, tfVars
<1>6. CASE Walk
  <2>1. Steps(start, target) \in Nat \ {0} /\ step' \in 0..Steps(start, target)
    BY <1>6, StepsType DEF Walk
  <2>2. where' \in Poses
    BY <1>6, <2>1, AlongType DEF Walk
  <2> QED BY <1>6, <2>1, <2>2 DEF Walk, searchVars, resetVars, tfVars
<1>7. CASE Preempt
  BY <1>7 DEF Preempt, searchVars, driveVars, resetVars, tfVars
<1>8. CASE ResetAsks \/ ResetMoves \/ ResetForgets
  <2>1. /\ resetting' \in {"asked", "moved", "forgot"} /\ where' \in Poses
        /\ UNCHANGED <<stage, preempt, searchVars, driveVars, outcome, tfVars, goals>>
    BY <1>0, <1>8 DEF ResetAsks, ResetMoves, ResetForgets
  <2>2. resets' \in 0..MaxResets
    BY <1>8, SettingsAssumption DEF ResetAsks, ResetMoves, ResetForgets
  <2>3. scene' \in [locked : BOOLEAN, at : Poses]
    BY <1>8 DEF ResetAsks, ResetMoves, ResetForgets
  <2>4. disturbed' \in BOOLEAN
    BY <1>8, Zenon DEF ResetAsks, ResetMoves, ResetForgets
  <2> QED BY <2>1, <2>2, <2>3, <2>4 DEF searchVars, driveVars, tfVars
<1>9. CASE ResetTells
  <2>1. tf'.body \in Poses /\ tf'.scene \in Poses \cup {NoPose}
    BY <1>0, <1>9, SentType DEF ResetTells
  <2> QED BY <1>9, <2>1 DEF ResetTells, searchVars, driveVars
<1>10. CASE TickReads
  BY <1>10 DEF TickReads, searchVars, driveVars, resetVars
<1>11. CASE TickSends
  <2>1. tf'.body \in Poses /\ tf'.scene \in Poses \cup {NoPose}
    BY <1>11, SentType DEF TickSends
  <2> QED BY <1>11, <2>1 DEF TickSends, searchVars, driveVars, resetVars
<1>12. CASE UNCHANGED vars
  BY <1>12 DEF vars, searchVars, driveVars, resetVars, tfVars
<1> QED BY <1>1, <1>2, <1>3, <1>4, <1>5, <1>6, <1>7, <1>8, <1>9, <1>10, <1>11, <1>12
        DEF Next, GoalThread, OnReset, OnTick

\* The vehicle's pose, the drive and what listeners know keep their types, and a drive never
\* goes past its last step, for any spots, settings and number of goals and resets.
THEOREM TypesHold == Spec => []TypeOK
  BY InitTypeOK, InitParkInv, InitSettleInv, NextTypeOK, NextParkInv, NextSettleInv, PTL DEF Spec

=============================================================================

----------------------------- MODULE Driver_proofs -----------------------------
(***************************************************************************)
(* What the driver node guarantees whatever its clients and its serial     *)
(* line do, for any number of joints, any limits and any requests.         *)
(***************************************************************************)
EXTENDS Driver, TLAPS

\* A position that counts as read is one the arm can be in, and a ramp has one for every
\* joint: it was asked for, and nothing has released the arm since.
ReadIsReachable == \A j \in Joints : readAt[j] # Unread => position[j] \in Lower..Upper
RampIsFounded == homing => \A j \in Joints : readAt[j] # Unread
RampIsAsked == homing => order = "home"

DriverInv == TypeOK /\ ReadIsReachable /\ RampIsFounded /\ RampIsAsked /\ OnlyEnergisedOnRequest

-------------------------------------------------------------------------------
\* One step of the home ramp stays between the limits.
LEMMA AheadIsLegal ==
  ASSUME NEW j \in Joints, NEW p \in Lower..Upper
  PROVE  Ahead(j, p) \in Lower..Upper
BY DriverAssumption DEF Ahead, Gap

\* What a joint is told it can do, and where it is, it can be: so it is after a step of
\* the clock.
LEMMA MovesAreLegal ==
  ASSUME NEW j \in Joints, aim[j] \in (Lower..Upper) \cup {Released}, arm[j] \in Lower..Upper
  PROVE  Moves(j) \in Lower..Upper
BY DriverAssumption DEF Moves

\* A reading gets older and stays a reading.
LEMMA LaterIsRead ==
  ASSUME NEW age \in 0..Unread
  PROVE  Later(age) \in 0..Unread /\ (age # Unread => Later(age) # Unread)
BY DriverAssumption DEF Later, Unread

\* Whatever part of a legal command reaches the arm, every joint has a legal aim.
LEMMA TellIsLegal ==
  ASSUME aim \in [Joints -> (Lower..Upper) \cup {Released}],
         NEW wanted, NEW written,
         \A j \in Joints \cap DOMAIN wanted : wanted[j] \in (Lower..Upper) \cup {Released},
         Tell(wanted, written)
  PROVE  aim' \in [Joints -> (Lower..Upper) \cup {Released}]
BY DEF Tell

-------------------------------------------------------------------------------
LEMMA DriverInvInit == DriverInit => DriverInv
<1> SUFFICES ASSUME DriverInit PROVE DriverInv
  OBVIOUS
<1>1. Unread \in 0..Unread
  BY DriverAssumption DEF Unread
<1>2. TypeOK
  <2>1. position \in [Joints -> Int] /\ readAt \in [Joints -> 0..Unread]
    BY <1>1 DEF DriverInit
  <2>2. aim \in [Joints -> (Lower..Upper) \cup {Released}] /\ arm \in [Joints -> Lower..Upper]
    BY DEF DriverInit
  <2>3. homing \in BOOLEAN
    BY DEF DriverInit
  <2>4. standby \in {"idle", "called", "answered"} /\ order \in {"none", "move", "home"}
    BY DEF DriverInit
  <2> QED
    BY <2>1, <2>2, <2>3, <2>4 DEF TypeOK
<1>3. ReadIsReachable /\ RampIsFounded /\ RampIsAsked /\ OnlyEnergisedOnRequest
  BY DEF DriverInit, ReadIsReachable, RampIsFounded, RampIsAsked, OnlyEnergisedOnRequest
<1> QED
  BY <1>2, <1>3 DEF DriverInv

\* A poll, with any joints answering and any commands of the ramp written.
LEMMA PollKeeps ==
  ASSUME DriverInv, NEW answered \in SUBSET Joints, NEW written \in Written, Poll(answered, written)
  PROVE  DriverInv'
<1> DEFINE at == [j \in Joints |-> IF j \in answered THEN arm[j] ELSE position[j]]
           ages == [j \in Joints |-> IF j \in answered THEN 0 ELSE readAt[j]]
<1>1. /\ position' = at /\ readAt' = ages
      /\ StepHome(at, written)
      /\ UNCHANGED <<arm, target, standby, order>>
  BY DEF Poll
<1>2. \A j \in Joints : 0 # Unread /\ 0 \in 0..Unread
  BY DriverAssumption DEF Unread
<1>3. /\ position' \in [Joints -> Int] /\ readAt' \in [Joints -> 0..Unread]
      /\ ReadIsReachable' /\ \A j \in Joints : readAt[j] # Unread => readAt'[j] # Unread
  BY <1>1, <1>2, DriverAssumption DEF DriverInv, TypeOK, ReadIsReachable, Unread
<1>4. CASE homing
  <2>1. \A j \in Joints : at[j] \in Lower..Upper
    BY <1>4 DEF DriverInv, TypeOK, ReadIsReachable, RampIsFounded
  <2>2. /\ Tell([j \in Joints |-> Ahead(j, at[j])], written)
        /\ homing' \in BOOLEAN
    BY <1>1, <1>4 DEF StepHome
  <2>3. aim' \in [Joints -> (Lower..Upper) \cup {Released}]
    <3> DEFINE wanted == [j \in Joints |-> Ahead(j, at[j])]
    <3>1. \A j \in Joints : wanted[j] \in (Lower..Upper) \cup {Released}
      BY <2>1, AheadIsLegal
    <3> HIDE DEF wanted
    <3>2. Tell(wanted, written)
      BY <2>2 DEF wanted
    <3> QED
      BY <3>1, <3>2, TellIsLegal DEF DriverInv, TypeOK
  <2>4. order' = "home"
    BY <1>1, <1>4 DEF DriverInv, RampIsAsked
  <2>5. \A j \in Joints : readAt'[j] # Unread
    BY <1>3, <1>4 DEF DriverInv, RampIsFounded
  <2> QED
    BY <1>1, <1>3, <2>2, <2>3, <2>4, <2>5
    DEF DriverInv, TypeOK, RampIsFounded, RampIsAsked, OnlyEnergisedOnRequest
<1>5. CASE ~homing
  <2>1. UNCHANGED <<aim, homing>>
    BY <1>1, <1>5 DEF StepHome
  <2> QED
    BY <1>1, <1>3, <1>5, <2>1
    DEF DriverInv, TypeOK, RampIsFounded, RampIsAsked, OnlyEnergisedOnRequest
<1> QED
  BY <1>4, <1>5

\* A message: applied as far as it is written when it is legal, dropped when it is not.
LEMMA TargetsKeep ==
  ASSUME DriverInv, NEW written \in Written, OnJointTargets(written)
  PROVE  DriverInv'
<1>1. UNCHANGED <<position, readAt, arm, standby>>
  BY DEF OnJointTargets
<1>2. CASE Legal(target)
  <2>1. Tell(target, written) /\ homing' = FALSE /\ order' = "move"
    BY <1>2 DEF OnJointTargets
  <2>2. \A j \in Joints \cap DOMAIN target : target[j] \in (Lower..Upper) \cup {Released}
    BY <1>2 DEF Legal
  <2>3. aim' \in [Joints -> (Lower..Upper) \cup {Released}]
    BY <2>1, <2>2, TellIsLegal DEF DriverInv, TypeOK
  <2> QED
    BY <1>1, <2>1, <2>3
    DEF DriverInv, TypeOK, ReadIsReachable, RampIsFounded, RampIsAsked, OnlyEnergisedOnRequest
<1>3. CASE ~Legal(target)
  BY <1>1, <1>3 DEF OnJointTargets, DriverInv, TypeOK, ReadIsReachable, RampIsFounded, RampIsAsked,
     OnlyEnergisedOnRequest
<1> QED
  BY <1>2, <1>3

\* Open and close: both widths are within the limits of the jaw.
LEMMA JawKeeps ==
  ASSUME DriverInv, NEW written \in Written, MoveJaw(written)
  PROVE  DriverInv'
<1>1. PICK p \in {Home[Jaw], Lower} : Tell([j \in {Jaw} |-> p], written)
  BY DEF MoveJaw
<1>2. p \in Lower..Upper
  BY DriverAssumption DEF Joints, Jaw
<1>3. aim' \in [Joints -> (Lower..Upper) \cup {Released}]
  BY <1>1, <1>2 DEF Tell, DriverInv, TypeOK
<1> QED
  BY <1>3 DEF MoveJaw, DriverInv, TypeOK, ReadIsReachable, RampIsFounded, RampIsAsked,
     OnlyEnergisedOnRequest

\* Standby: every joint is released, or the arm was not at rest before and is not said to
\* be now.
LEMMA StandbyKeeps ==
  ASSUME DriverInv, NEW written \in Written, OnStandby(written)
  PROVE  DriverInv'
<1>1. Tell([j \in Joints |-> Released], written)
  BY DEF OnStandby
<1>2. aim' = [j \in Joints |-> IF j \in written THEN Released ELSE aim[j]]
  BY <1>1 DEF Tell
<1>3. aim' \in [Joints -> (Lower..Upper) \cup {Released}]
  BY <1>2 DEF DriverInv, TypeOK
<1>4. order' # "none" \/ \A j \in Joints : aim'[j] = Released
  <2>1. CASE written = Joints
    BY <1>2, <2>1
  <2>2. CASE written # Joints
    <3>1. order' = order
      BY <2>2 DEF OnStandby
    <3> QED
      BY <1>2, <3>1 DEF DriverInv, OnlyEnergisedOnRequest
  <2> QED
    BY <2>1, <2>2
<1> QED
  BY <1>3, <1>4 DEF OnStandby, DriverInv, TypeOK, ReadIsReachable, RampIsFounded, RampIsAsked,
     OnlyEnergisedOnRequest

\* Time passes: the arm moves and the readings get older.
LEMMA TimeKeeps ==
  ASSUME DriverInv, NEW free \in SUBSET Joints, Time(free)
  PROVE  DriverInv'
<1>1. arm' \in [Joints -> Lower..Upper]
  <2>1. \A j \in Joints : Moves(j) \in Lower..Upper
    BY MovesAreLegal DEF DriverInv, TypeOK
  <2> QED
    BY <2>1 DEF Time, DriverInv, TypeOK
<1>2. /\ readAt' \in [Joints -> 0..Unread]
      /\ \A j \in Joints : (readAt[j] # Unread => readAt'[j] # Unread)
                           /\ (readAt[j] = Unread => readAt'[j] = Unread)
  <2>1. \A j \in Joints : readAt[j] \in 0..Unread
    BY DEF DriverInv, TypeOK
  <2>2. Later(Unread) = Unread
    BY DriverAssumption DEF Later, Unread
  <2> QED
    BY <2>1, <2>2, LaterIsRead DEF Time
<1> QED
  BY <1>1, <1>2 DEF Time, DriverInv, TypeOK, ReadIsReachable, RampIsFounded, RampIsAsked,
     OnlyEnergisedOnRequest

-------------------------------------------------------------------------------
LEMMA DriverInvStep == DriverInv /\ [Next]_driverVars => DriverInv'
<1> SUFFICES ASSUME DriverInv, [Next]_driverVars PROVE DriverInv'
  OBVIOUS
<1> USE DEF nodeVars
<1>1. ASSUME NEW answered \in SUBSET Joints, NEW written \in Written, Poll(answered, written)
      PROVE  DriverInv'
  BY <1>1, PollKeeps
<1>2. ASSUME NEW written \in Written, OnJointTargets(written) PROVE DriverInv'
  BY <1>2, TargetsKeep
<1>3. ASSUME NEW written \in Written, MoveJaw(written) PROVE DriverInv'
  BY <1>3, JawKeeps
<1>4. ASSUME NEW written \in Written, OnStandby(written) PROVE DriverInv'
  BY <1>4, StandbyKeeps
<1>5. CASE OnHome
  BY <1>5 DEF OnHome, DriverInv, TypeOK, ReadIsReachable, RampIsFounded, RampIsAsked,
     OnlyEnergisedOnRequest
<1>6. CASE SomeoneSends
  BY <1>6 DEF SomeoneSends, DriverInv, TypeOK, ReadIsReachable, RampIsFounded, RampIsAsked,
     OnlyEnergisedOnRequest
<1>7. CASE SomeoneReleases
  BY <1>7 DEF SomeoneReleases, DriverInv, TypeOK, ReadIsReachable, RampIsFounded, RampIsAsked,
     OnlyEnergisedOnRequest
<1>8. CASE SomeoneIsAnswered
  BY <1>8 DEF SomeoneIsAnswered, DriverInv, TypeOK, ReadIsReachable, RampIsFounded, RampIsAsked,
     OnlyEnergisedOnRequest
<1>9. CASE SomeoneListens
  BY <1>9 DEF SomeoneListens, DriverInv, TypeOK, ReadIsReachable, RampIsFounded, RampIsAsked,
     OnlyEnergisedOnRequest
<1>10. CASE Time(Joints)
  BY <1>10, TimeKeeps
<1>11. CASE UNCHANGED driverVars
  BY <1>11 DEF driverVars, DriverInv, TypeOK, ReadIsReachable, RampIsFounded, RampIsAsked,
     OnlyEnergisedOnRequest
<1> QED
  BY <1>1, <1>2, <1>3, <1>4, <1>5, <1>6, <1>7, <1>8, <1>9, <1>10, <1>11 DEF Next

\* The home ramp and every message keep each joint within its limits: what is written to
\* the arm, by DriverNode.cpp:42 or 82, is a legal position, for any home, limits and
\* speed of the ramp, and however many answers and commands are lost.
THEOREM LimitsHold == Spec => []TypeOK
<1>1. DriverInv => TypeOK
  BY DEF DriverInv
<1> QED
  BY <1>1, DriverInvInit, DriverInvStep, PTL DEF Spec

\* Once every joint was told to let go, none is told anything else until a client asks for
\* it: no ramp that was under way (DriverNode.cpp:35-49) survives standby (152).
THEOREM ReleaseHolds == Spec => []OnlyEnergisedOnRequest
<1>1. DriverInv => OnlyEnergisedOnRequest
  BY DEF DriverInv
<1> QED
  BY <1>1, DriverInvInit, DriverInvStep, PTL DEF Spec
================================================================================

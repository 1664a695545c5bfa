---------------------------- MODULE TaskNode_proofs ----------------------------
(***************************************************************************)
(* What holds of the task node for every value of its constants: its       *)
(* counters keep their budgets (Budgets), its variables their types        *)
(* (TypeOK), a connection follows one goal at a time and moves something   *)
(* only for a goal that is waited for (GoalInv), every drive the park node *)
(* begins is counted unless its result overtakes the word that it began    *)
(* (DriveInv), and the arm reaches only while the view is current          *)
(* (ViewInv).  Together they show that the task node implements            *)
(* PickContract.                                                           *)
(***************************************************************************)
EXTENDS MCTaskNode, TLAPS

\* Until RETARGET counts one more, a run that is under way has a look left.
LookInv ==
  RetargetAttempts > 0 =>
    /\ lookAttempt <= RetargetAttempts
    /\ IsWorking(state) /\ state # "RETARGET" => lookAttempt < RetargetAttempts

\* Where a drive may still be chosen, a spot is left to drive to.
Choosing == \/ state \in {"STREAM", "RESURVEY", "PICKSPOT"}
            \/ state \in {"COLLECT", "PROCESS"} /\ phase = "SPOT"

SpotInv ==
  ParkAttempts > 0 =>
    /\ parkAttempt <= ParkAttempts
    /\ Choosing => parkAttempt < ParkAttempts

Counted == /\ state \in States /\ phase \in {"SPOT", "GRASP"}
           /\ parkAttempt \in Nat /\ lookAttempt \in Nat

Budgets == Counted /\ LookInv /\ SpotInv

\* Applying an event enters the state the table names, or FAIL for a jaw that refuses.
LEMMA ApplyEnters ==
  ASSUME NEW e, Apply(e)
  PROVE  \E named \in States, next \in States :
           /\ Leads(state, e, named)
           /\ next = named \/ (named = "CLOSEJAW" /\ next = "FAIL")
           /\ phase' = PhaseOnEntry(named)
           /\ Enter(next)
<1>1. PICK named \in States : /\ Leads(state, e, named)
                             /\ phase' = PhaseOnEntry(named)
                             /\ EnterAndCall(named)
  BY DEF Apply
<1>2. CASE named = "CLOSEJAW" /\ Enter("FAIL")
  BY <1>1, <1>2 DEF States, Resting
<1>3. CASE Enter(named)
  BY <1>1, <1>3
<1> QED BY <1>1, <1>2, <1>3 DEF EnterAndCall

\* Only a start is answered in a state that rests.
LEMMA LeadsWhileWorking ==
  ASSUME NEW s \in States, NEW e, NEW n, Leads(s, e, n), e # "START"
  PROVE  IsWorking(s)
BY DEF Leads, Table, Verdicts, IsWorking, Working

\* One event keeps the budgets, when it comes from the check that may raise it.
LEMMA ApplyKeepsBudgets ==
  ASSUME Budgets, NEW e, Apply(e), e # "START",
         state = "RETARGET" => e \in {"OUT_OF_LOOKS", "STOP"} \/ ~OutOfLooks,
         state = "REPARK" => e \in {"OUT_OF_PARKS", "STOP"} \/ ~OutOfParks,
         e \in {"CANDIDATES_SPOT", "NO_CANDIDATES_SPOT"} => phase = "SPOT"
  PROVE  Budgets'
<1>1. PICK named \in States, next \in States :
        /\ Leads(state, e, named)
        /\ next = named \/ (named = "CLOSEJAW" /\ next = "FAIL")
        /\ phase' = PhaseOnEntry(named)
        /\ Enter(next)
  BY ApplyEnters
<1>2. /\ state' = next
      /\ parkAttempt' = IF next = "GOTOSPOT" THEN parkAttempt + 1 ELSE parkAttempt
      /\ lookAttempt' = IF next = "RETARGET" THEN lookAttempt + 1
                        ELSE IF next = "REPARK" THEN 0 ELSE lookAttempt
  BY <1>1 DEF Enter
<1>3. IsWorking(state)
  BY <1>1, LeadsWhileWorking DEF Budgets, Counted
<1>4. Counted'
  BY <1>1, <1>2 DEF Budgets, Counted, PhaseOnEntry
<1>5. LookInv'
  <2> SUFFICES ASSUME RetargetAttempts > 0
               PROVE  /\ lookAttempt' <= RetargetAttempts
                      /\ IsWorking(state') /\ state' # "RETARGET"
                           => lookAttempt' < RetargetAttempts
    BY DEF LookInv
  <2>1. lookAttempt \in Nat /\ RetargetAttempts \in Nat /\ lookAttempt <= RetargetAttempts
    BY CountsAssumption DEF Budgets, Counted, LookInv
  <2>2. CASE state = "RETARGET"
    <3>1. next # "RETARGET"
      BY <1>1, <2>2 DEF Leads, Table, Verdicts
    <3>2. CASE e = "OUT_OF_LOOKS"
      <4>1. next = "REPARK"
        BY <1>1, <3>2 DEF Leads, Table, Verdicts
      <4> QED BY <1>2, <2>1, <4>1
    <3>3. CASE e = "STOP"
      <4>1. next = "ESTOP"
        BY <1>1, <3>3 DEF Leads, Table, Verdicts
      <4> QED BY <1>2, <2>1, <4>1 DEF IsWorking, Working
    <3>4. CASE ~OutOfLooks
      BY <1>2, <2>1, <3>1, <3>4 DEF OutOfLooks
    <3> QED BY <2>2, <3>2, <3>3, <3>4
  <2>3. CASE state # "RETARGET"
    BY <1>2, <1>3, <2>1, <2>3 DEF Budgets, LookInv
  <2> QED BY <2>2, <2>3
<1>6. SpotInv'
  <2> SUFFICES ASSUME ParkAttempts > 0
               PROVE  /\ parkAttempt' <= ParkAttempts
                      /\ Choosing' => parkAttempt' < ParkAttempts
    BY DEF SpotInv
  <2>1. /\ parkAttempt \in Nat /\ ParkAttempts \in Nat /\ parkAttempt <= ParkAttempts
        /\ Choosing => parkAttempt < ParkAttempts
    BY CountsAssumption DEF Budgets, Counted, SpotInv
  <2>2. CASE next = "GOTOSPOT"
    <3>1. state = "PICKSPOT"
      BY <1>1, <2>2 DEF Leads, Table, Verdicts
    <3>2. ~Choosing'
      BY <1>2, <2>2 DEF Choosing
    <3> QED BY <1>2, <2>1, <2>2, <3>1, <3>2 DEF Choosing
  <2>3. CASE next # "GOTOSPOT"
    <3>1. parkAttempt' = parkAttempt
      BY <1>2, <2>3
    <3>2. ASSUME Choosing' PROVE parkAttempt < ParkAttempts
      <4>1. CASE next \in {"STREAM", "PICKSPOT", "RESURVEY", "PROCESS"}
        <5>1. state \in {"COLLECT", "PROCESS"} /\ phase = "SPOT"
          BY <1>1, <1>2, <3>2, <4>1 DEF Leads, Table, Verdicts, Choosing, PhaseOnEntry
        <5> QED BY <2>1, <5>1 DEF Choosing
      <4>2. CASE next = "COLLECT"
        <5>1. state \in {"STREAM", "RESURVEY", "REPARK"} /\ named = "COLLECT"
          BY <1>1, <1>2, <3>2, <4>2 DEF Choosing, PhaseOnEntry
        <5>2. CASE state = "REPARK"
          <6>1. ~OutOfParks
            BY <1>1, <5>1, <5>2 DEF Leads, Table, Verdicts
          <6> QED BY <2>1, <6>1 DEF OutOfParks
        <5>3. CASE state # "REPARK"
          BY <2>1, <5>1, <5>3 DEF Choosing
        <5> QED BY <5>2, <5>3
      <4> QED BY <1>2, <3>2, <4>1, <4>2 DEF Choosing
    <3> QED BY <2>1, <3>1, <3>2
  <2> QED BY <2>2, <2>3
<1> QED BY <1>4, <1>5, <1>6 DEF Budgets
-------------------------------------------------------------------------------
\* The counters, the phase and the state, which the budgets speak of.
counted == <<state, phase, parkAttempt, lookAttempt>>

\* A step that leaves all four alone keeps the budgets.
LEMMA StillBudgets ==
  ASSUME Budgets, UNCHANGED counted
  PROVE  Budgets'
BY DEF Budgets, Counted, LookInv, SpotInv, Choosing, IsWorking, counted

\* READY has counted nothing.
LEMMA InitBudgets == Init => Budgets
BY CountsAssumption
   DEF Init, Budgets, Counted, LookInv, SpotInv, Choosing, IsWorking, States, Resting, Working

\* tick(): each check hands apply() an event of its own.
LEMMA TickKeepsBudgets ==
  ASSUME Budgets, Tick
  PROVE  Budgets'
<1>1. CASE CheckStream
  <2>1. PICK e \in {"STREAMING", "NO_STREAM"} : Apply(e)
    BY <1>1 DEF CheckStream
  <2> QED BY <1>1, <2>1, ApplyKeepsBudgets DEF CheckStream
<1>2. CASE CheckCollect
  <2>1. CASE Apply("PROCESSING")
    BY <1>2, <2>1, ApplyKeepsBudgets DEF CheckCollect
  <2>2. CASE Apply(CollectAnswered(link["collect"].client))
    BY <1>2, <2>2, ApplyKeepsBudgets DEF CheckCollect, CollectAnswered
  <2> QED BY <1>2, <2>1, <2>2 DEF CheckCollect
<1>3. CASE CheckPark
  <2>1. CASE Apply("SPOT_CHOSEN")
    BY <1>3, <2>1, ApplyKeepsBudgets DEF CheckPark
  <2>2. CASE Apply(ParkAnswered(link["park"].client))
    BY <1>3, <2>2, ApplyKeepsBudgets DEF CheckPark, ParkAnswered
  <2> QED BY <1>3, <2>1, <2>2 DEF CheckPark
<1>4. CASE CheckPlan
  BY <1>4, ApplyKeepsBudgets DEF CheckPlan, PlanAnswered
<1>5. CASE CheckExecute
  BY <1>5, ApplyKeepsBudgets DEF CheckExecute, ExecuteAnswered
<1>6. CASE CheckJaw
  <2>1. CASE Apply("JAW_SETTLED")
    BY <1>6, <2>1, ApplyKeepsBudgets DEF CheckJaw
  <2>2. CASE UNCHANGED counted
    BY <2>2, StillBudgets
  <2> QED BY <1>6, <2>1, <2>2 DEF CheckJaw, counted
<1>7. CASE CheckResurvey
  <2>1. PICK e \in {"OUT_OF_TIME", "SURVEY_AGAIN"} : Apply(e)
    BY <1>7 DEF CheckResurvey
  <2> QED BY <1>7, <2>1, ApplyKeepsBudgets DEF CheckResurvey
<1>8. CASE CheckRetarget
  <2>1. PICK e \in {"OUT_OF_LOOKS", "LOOK_AGAIN"} : Apply(e) /\ (e = "LOOK_AGAIN" => ~OutOfLooks)
    BY <1>8 DEF CheckRetarget
  <2> QED BY <1>8, <2>1, ApplyKeepsBudgets DEF CheckRetarget
<1>9. CASE CheckRepark
  <2>1. PICK e \in {"OUT_OF_PARKS", "PARK_AGAIN"} : Apply(e) /\ (e = "PARK_AGAIN" => ~OutOfParks)
    BY <1>9 DEF CheckRepark
  <2> QED BY <1>9, <2>1, ApplyKeepsBudgets DEF CheckRepark
<1> QED BY <1>1, <1>2, <1>3, <1>4, <1>5, <1>6, <1>7, <1>8, <1>9 DEF Tick

\* The handlers: a start resets every counter, a stop leads to ESTOP, and the callbacks
\* touch none of them.
LEMMA CallbackKeepsBudgets ==
  ASSUME Budgets, Callback
  PROVE  Budgets'
<1>1. CASE OnStart
  <2>1. CASE IsWorking(state)
    BY <1>1, <2>1, StillBudgets DEF OnStart, taskVars, counted
  <2>2. CASE ~IsWorking(state)
    BY <1>1, <2>2, CountsAssumption
       DEF OnStart, Budgets, Counted, LookInv, SpotInv, States, Working
  <2> QED BY <2>1, <2>2
<1>2. CASE OnStop
  <2>1. CASE Apply("STOP")
    BY <2>1, ApplyKeepsBudgets
  <2>2. CASE UNCHANGED counted
    BY <2>2, StillBudgets
  <2> QED BY <1>2, <2>1, <2>2 DEF OnStop, counted
<1>3. CASE ~OnStart /\ ~OnStop
  <2>1. UNCHANGED counted
    BY <1>3 DEF Callback, WaitForServers, ServersMissing, OnCameraCloud, OnJointStates,
                OnCollectFeedback, OnParkFeedback, OnResult, taskVars, counted
  <2> QED BY <2>1, StillBudgets
<1> QED BY <1>1, <1>2, <1>3

\* The servers and the clocks leave the counters to the task node.
LEMMA ServersKeepBudgets ==
  ASSUME Budgets,
         \/ CollectProcesses \/ ParkDrives \/ ExecuteSends \/ Elapse
         \/ \E s \in Servers : Serve(s) \/ ServerComesUp(s)
  PROVE  Budgets'
<1>1. UNCHANGED counted
  BY DEF CollectProcesses, ParkDrives, ExecuteSends, Elapse, Serve, ServerTakesGoal,
         ServerTakesCancel, ServerBegins, ServerEnds, ServerComesUp, OnlyLink, taskVars,
         counted
<1> QED BY <1>1, StillBudgets

\* The counters of looks and spots stay within their budgets, with one look or spot in hand
\* wherever the table still leads to another.
THEOREM BudgetsHold == Spec => []Budgets
<1>1. Init => Budgets
  BY InitBudgets
<1>2. Budgets /\ [Next]_vars => Budgets'
  <2> SUFFICES ASSUME Budgets, [Next]_vars PROVE Budgets'
    OBVIOUS
  <2>1. CASE Tick
    BY <2>1, TickKeepsBudgets
  <2>2. CASE Callback
    BY <2>2, CallbackKeepsBudgets
  <2>3. CASE \/ CollectProcesses \/ ParkDrives \/ ExecuteSends \/ Elapse
             \/ \E s \in Servers : Serve(s) \/ ServerComesUp(s)
    BY <2>3, ServersKeepBudgets
  <2>4. CASE UNCHANGED vars
    BY <2>4, StillBudgets DEF vars, counted
  <2> QED BY <2>1, <2>2, <2>3, <2>4 DEF Next
<1> QED BY <1>1, <1>2, PTL DEF Spec

\* From one place the task node looks at most retarget_attempts times in vain.
THEOREM LooksAreBounded == Spec => []LooksWithinAllowance
<1>1. Budgets => LooksWithinAllowance
  BY DEF Budgets, LookInv, LooksWithinAllowance
<1> QED BY <1>1, BudgetsHold, PTL

\* One run spends at most park_attempts parking spots.
THEOREM SpotsAreBounded == Spec => []SpotsWithinAllowance
<1>1. Budgets => SpotsWithinAllowance
  BY DEF Budgets, SpotInv, SpotsWithinAllowance
<1> QED BY <1>1, BudgetsHold, PTL

\* Both, whatever order looks, drives, stops and starts come in.
THEOREM CountsAreBounded == Spec => []CountsWithinAllowance
<1>1. LooksWithinAllowance /\ SpotsWithinAllowance => CountsWithinAllowance
  BY DEF CountsWithinAllowance
<1> QED BY <1>1, LooksAreBounded, SpotsAreBounded, PTL
-------------------------------------------------------------------------------
\* One field of a connection, or the three that a client forgets, at a time.
LEMMA LinkWith ==
  ASSUME NEW l \in Link(Results)
  PROVE  /\ \A o \in Owner : /\ [l EXCEPT !.goal = o] \in Link(Results)
                             /\ [l EXCEPT !.run = o] \in Link(Results)
                             /\ [l EXCEPT !.next = o] \in Link(Results)
         /\ \A b \in BOOLEAN : /\ [l EXCEPT !.preempt = b] \in Link(Results)
                               /\ [l EXCEPT !.nextPreempt = b] \in Link(Results)
         /\ [l EXCEPT !.client = Waiting] \in Link(Results)
         /\ [l EXCEPT !.client = NoAnswer, !.feedback = FALSE, !.result = NoAnswer]
              \in Link(Results)
BY DEF Link

\* A client that moves on changes six fields; one EXCEPT at a time is what the solver takes.
LEMMA AbandonType ==
  ASSUME NEW l \in Link(Results)
  PROVE  Abandon(l) \in Link(Results)
<1> DEFINE a == [l EXCEPT !.client = NoAnswer, !.feedback = FALSE, !.result = NoAnswer]
           b == [a EXCEPT !.goal = Disown(l.goal)]
           c == [b EXCEPT !.run = Disown(l.run)]
<1>1. Disown(l.goal) \in Owner /\ Disown(l.run) \in Owner /\ Disown(l.next) \in Owner
  BY DEF Disown, Owner, Link
<1>2. a \in Link(Results)
  BY LinkWith
<1>3. b \in Link(Results)
  BY <1>1, <1>2, LinkWith
<1>4. c \in Link(Results)
  BY <1>1, <1>3, LinkWith
<1>5. [c EXCEPT !.next = Disown(l.next)] \in Link(Results)
  BY <1>1, <1>4, LinkWith
<1> QED BY <1>5 DEF Abandon

\* And so for a goal that is sent.
LEMMA SendGoalType ==
  ASSUME NEW l \in Link(Results)
  PROVE  SendGoal(l) \in Link(Results)
<1> DEFINE arrived == l.goal # "none"
           a == [Abandon(l) EXCEPT !.client = Waiting]
           b == [a EXCEPT !.goal = "mine"]
           c == [b EXCEPT !.preempt = Abandon(l).preempt \/ (arrived /\ l.run # "none")]
           d == [c EXCEPT !.next = IF arrived THEN "old" ELSE Abandon(l).next]
<1>1. Abandon(l) \in Link(Results)
  BY AbandonType
<1>2. /\ (Abandon(l).preempt \/ (arrived /\ l.run # "none")) \in BOOLEAN
      /\ (IF arrived THEN "old" ELSE Abandon(l).next) \in Owner
      /\ (Abandon(l).nextPreempt /\ ~arrived) \in BOOLEAN
  BY <1>1 DEF Link, Owner
<1>3. a \in Link(Results) 
  BY <1>1, LinkWith
<1>4. b \in Link(Results)
  BY <1>3, LinkWith DEF Owner
<1>5. c \in Link(Results)
  BY <1>2, <1>4, LinkWith
<1>6. d \in Link(Results)
  BY <1>2, <1>5, LinkWith
<1>7. [d EXCEPT !.nextPreempt = Abandon(l).nextPreempt /\ ~arrived] \in Link(Results)
  BY <1>2, <1>6, LinkWith
<1> QED BY <1>7 DEF SendGoal

\* A connection keeps its type whatever either end does with it.
LEMMA LinkTypes ==
  ASSUME NEW l \in Link(Results)
  PROVE  /\ Abandon(l) \in Link(Results) /\ SendGoal(l) \in Link(Results)
         /\ CancelAll(l) \in Link(Results)
         /\ l.goal # "none" => TakeGoal(l) \in Link(Results)
         /\ TakeCancel(l) \in Link(Results)
         /\ CanBegin(l) => Begin(l) \in Link(Results)
         /\ Say(l) \in Link(Results) /\ Hear(l) \in Link(Results)
         /\ CanRead(l) => Read(l) \in Link(Results)
         /\ \A r \in Results : Answer(l, r) \in Link(Results)
<1>1. Abandon(l) \in Link(Results) /\ SendGoal(l) \in Link(Results)
  BY AbandonType, SendGoalType
<1>2. CancelAll(l) \in Link(Results) /\ TakeCancel(l) \in Link(Results)
  BY DEF CancelAll, TakeCancel, Link
<1>3. l.goal # "none" => TakeGoal(l) \in Link(Results)
  BY DEF TakeGoal, Link, Owner
<1>4. CanBegin(l) => Begin(l) \in Link(Results)
  BY DEF Begin, CanBegin, Link, Owner
<1>5. Say(l) \in Link(Results) /\ Hear(l) \in Link(Results)
  BY DEF Say, Hear, Link
<1>6. CanRead(l) => Read(l) \in Link(Results)
  BY DEF Read, CanRead, Link, NoAnswer
<1>7. ASSUME NEW r \in Results PROVE Answer(l, r) \in Link(Results)
  BY DEF Answer, Link, Owner
<1> QED BY <1>1, <1>2, <1>3, <1>4, <1>5, <1>6, <1>7

\* What a client that moves on leaves of its connection.
LEMMA Abandoned ==
  ASSUME NEW l \in Link(Results)
  PROVE  /\ Abandon(l).client = NoAnswer /\ Abandon(l).goal = Disown(l.goal)
         /\ Abandon(l).run = Disown(l.run) /\ Abandon(l).next = Disown(l.next)
         /\ Abandon(l).feedback = FALSE /\ Abandon(l).result = NoAnswer
BY DEF Abandon, Link

\* What a client that sends a goal makes of its connection.
LEMMA Sent ==
  ASSUME NEW l \in Link(Results)
  PROVE  /\ SendGoal(l).client = Waiting /\ SendGoal(l).goal = "mine"
         /\ SendGoal(l).run = Disown(l.run) 
         /\ SendGoal(l).next = IF l.goal # "none" THEN "old" ELSE Disown(l.next)
         /\ SendGoal(l).feedback = FALSE /\ SendGoal(l).result = NoAnswer
<1> DEFINE arrived == l.goal # "none"
           a == [Abandon(l) EXCEPT !.client = Waiting, !.goal = "mine"]
           b == [a EXCEPT !.preempt = @ \/ (arrived /\ l.run # "none"),
                          !.next = IF arrived THEN "old" ELSE @,
                          !.nextPreempt = @ /\ ~arrived]
<1>1. Abandon(l) \in Link(Results)
  BY AbandonType
<1>2. /\ a.client = Waiting /\ a.goal = "mine" /\ a.run = Disown(l.run)
      /\ a.next = Disown(l.next) /\ a.feedback = FALSE /\ a.result = NoAnswer
  BY <1>1, Abandoned DEF Link
<1>3. a \in Link(Results)
  BY <1>1 DEF Link, Owner
<1>4. /\ b.client = Waiting /\ b.goal = "mine" /\ b.run = Disown(l.run)
      /\ b.next = (IF arrived THEN "old" ELSE Disown(l.next))
      /\ b.feedback = FALSE /\ b.result = NoAnswer
  BY <1>2, <1>3 DEF Link
<1>5. b = SendGoal(l)
  BY DEF SendGoal
<1> QED BY <1>4, <1>5

\* Ages and the memory of the jaw stay within what they are told apart by.
LEMMA OlderTypes ==
  /\ \A age \in 0..MaxAge : Older(age) \in 0..MaxAge
  /\ \A age \in Ages : Older(age) \in Ages
  /\ 0 \in 0..MaxAge /\ 0 \in Ages /\ Unset \in Ages
BY TimesAssumption DEF Older, Ages, Unset

\* What checkJaw remembers keeps its type, one field at a time.
LEMMA JawTypes ==
  /\ FreshJaw \in JawStates
  /\ \A j \in JawStates :
       /\ [j EXCEPT !.stampFor = Older(@), !.stillFor = Older(@)] \in JawStates
       /\ \A p \in JawPositions : [j EXCEPT !.seen = TRUE, !.at = p, !.stampFor = 0] \in JawStates
       /\ \A p \in JawPositions :
            [j EXCEPT !.seen = FALSE, !.still = p, !.stillFor = j.stampFor] \in JawStates
       /\ [j EXCEPT !.seen = FALSE] \in JawStates
<1>1. FreshJaw \in JawStates
  BY JawAssumption, OlderTypes DEF FreshJaw, JawStates
<1>2. ASSUME NEW j \in JawStates
      PROVE  [j EXCEPT !.stampFor = Older(@), !.stillFor = Older(@)] \in JawStates
  BY OlderTypes DEF JawStates
<1>3. ASSUME NEW j \in JawStates, NEW p \in JawPositions
      PROVE  /\ [j EXCEPT !.seen = TRUE, !.at = p, !.stampFor = 0] \in JawStates
             /\ [j EXCEPT !.seen = FALSE, !.still = p, !.stillFor = j.stampFor] \in JawStates
  BY OlderTypes DEF JawStates
<1>4. ASSUME NEW j \in JawStates
      PROVE  [j EXCEPT !.seen = FALSE] \in JawStates
  BY DEF JawStates
<1> QED BY <1>1, <1>2, <1>3, <1>4

\* Entering a state keeps the types: every connection is told to follow, to send or to forget.
LEMMA EnterTypes ==
  ASSUME TypeOK, NEW next \in States, Enter(next)
  PROVE  /\ state' \in States /\ parkAttempt' \in Nat /\ lookAttempt' \in Nat
         /\ enteredFor' \in 0..MaxAge /\ surveyingFor' \in Ages
         /\ reparkingFor' \in Ages /\ frameFor' \in Ages
         /\ processing' \in BOOLEAN /\ driving' \in BOOLEAN
         /\ jaw' \in JawStates
         /\ link' \in [Servers -> Link(Results)]
<1>1. ASSUME NEW s \in Servers PROVE LinkOnEntry(next, s) \in Link(Results)
  <2>1. link[s] \in Link(Results)
    BY DEF TypeOK
  <2>2. Abandon(link[s]) \in Link(Results) /\ SendGoal(link[s]) \in Link(Results)
    BY <2>1, LinkTypes
  <2>3. CancelAll(Abandon(link[s])) \in Link(Results)
    BY <2>2, LinkTypes
  <2> QED BY <2>1, <2>2, <2>3 DEF LinkOnEntry
<1>2. link' \in [Servers -> Link(Results)]
  BY <1>1 DEF Enter
<1>3. /\ state' \in States /\ parkAttempt' \in Nat /\ lookAttempt' \in Nat
      /\ enteredFor' \in 0..MaxAge /\ surveyingFor' \in Ages
      /\ reparkingFor' \in Ages /\ frameFor' \in Ages
  BY OlderTypes DEF Enter, TypeOK
<1>4. processing' \in BOOLEAN /\ driving' \in BOOLEAN
  BY DEF Enter, TypeOK
<1>5. jaw' \in JawStates
  BY JawTypes DEF Enter
<1> QED BY <1>2, <1>3, <1>4, <1>5

\* So does an event, whatever the services that it calls answer.
LEMMA ApplyTypes ==
  ASSUME TypeOK, NEW e, Apply(e)
  PROVE  /\ state' \in States /\ phase' \in {"SPOT", "GRASP"}
         /\ parkAttempt' \in Nat /\ lookAttempt' \in Nat
         /\ enteredFor' \in 0..MaxAge /\ surveyingFor' \in Ages
         /\ reparkingFor' \in Ages /\ frameFor' \in Ages
         /\ processing' \in BOOLEAN /\ driving' \in BOOLEAN
         /\ jaw' \in JawStates
         /\ link' \in [Servers -> Link(Results)]
         /\ powered' \in BOOLEAN
<1>1. PICK named \in States, next \in States :
        /\ Leads(state, e, named)
        /\ next = named \/ (named = "CLOSEJAW" /\ next = "FAIL")
        /\ phase' = PhaseOnEntry(named)
        /\ Enter(next)
  BY ApplyEnters
<1>2. phase' \in {"SPOT", "GRASP"}
  BY <1>1 DEF PhaseOnEntry, TypeOK
<1>3. powered' \in BOOLEAN
  BY DEF Apply, EnterAndCall, TypeOK
<1> QED BY <1>1, <1>2, <1>3, EnterTypes

\* A connection of which one end takes a step keeps its type, and so do all of them.
LEMMA OneLinkTypes ==
  ASSUME TypeOK, NEW s \in Servers, NEW l \in Link(Results), link' = [link EXCEPT ![s] = l]
  PROVE  link' \in [Servers -> Link(Results)]
BY DEF TypeOK

\* tick(): a check applies an event or, in CLOSEJAW, looks at a reading.
LEMMA TickKeepsTypes ==
  ASSUME TypeOK, Tick
  PROVE  TypeOK'
<1>1. CASE /\ CheckJaw /\ jaw' = JawRead
           /\ UNCHANGED <<state, phase, grabbed, parkAttempt, lookAttempt, enteredFor,
                          surveyingFor, reparkingFor, frameFor, processing, driving, link,
                          powered>>
  <2>1. JawRead \in JawStates
    <3>1. jaw \in JawStates /\ jaw.at \in JawPositions
      BY DEF TypeOK, JawStates
    <3>2. CASE JawMoved
      <4>1. JawRead = [jaw EXCEPT !.seen = FALSE, !.still = jaw.at, !.stillFor = jaw.stampFor]
        BY <3>2 DEF JawRead
      <4> QED BY <3>1, <4>1, JawTypes
    <3>3. CASE ~JawMoved
      <4>1. JawRead = [jaw EXCEPT !.seen = FALSE]
        BY <3>1, <3>3 DEF JawRead, JawStates
      <4> QED BY <3>1, <4>1, JawTypes
    <3> QED BY <3>2, <3>3
  <2> QED BY <1>1, <2>1 DEF CheckJaw, OutsideApply, TypeOK
<1>2. CASE \E e : Apply(e)
  <2>1. UNCHANGED <<starts, stops, down, inMotion, drives>> /\ missed' \in {missed, missed + 1}
    BY DEF OutsideApply, worldVars, Tick, CheckStream, CheckCollect, CheckPark, CheckPlan, CheckExecute, CheckJaw,
           CheckResurvey, CheckRetarget, CheckRepark
  <2>3. grabbed' \in BOOLEAN
    <3>1. CASE CheckJaw
      <4>1. CASE grabbed' = (jaw.at >= JawHeld)
        BY <4>1
      <4>2. CASE grabbed' = FALSE
        BY <4>2
      <4>3. CASE grabbed' = grabbed
        BY <4>3 DEF TypeOK
      <4> QED BY <3>1, <4>1, <4>2, <4>3, Zenon DEF CheckJaw
    <3>2. CASE ~CheckJaw
      BY <3>2 DEF Tick, CheckStream, CheckCollect, CheckPark, CheckPlan, CheckExecute,
                  CheckResurvey, CheckRetarget, CheckRepark, TypeOK
    <3> QED BY <3>1, <3>2
  <2>2. viewed' \in [{"window", "cloud"} -> BOOLEAN]
    <3>1. viewed' = viewed \/ viewed' = [viewed EXCEPT !["cloud"] = viewed["window"]]
      BY DEF Tick, CheckStream, CheckCollect, CheckPark, CheckPlan, CheckExecute, CheckJaw,
             CheckResurvey, CheckRetarget, CheckRepark
    <3> QED BY <3>1 DEF TypeOK
  <2> QED BY <1>2, <2>1, <2>2, <2>3, ApplyTypes DEF TypeOK
<1> QED
  BY <1>1, <1>2 DEF Tick, CheckStream, CheckCollect, CheckPark, CheckPlan, CheckExecute, CheckJaw,
                    CheckResurvey, CheckRetarget, CheckRepark

\* The handlers and the subscriber callbacks.
LEMMA CallbackKeepsTypes ==
  ASSUME TypeOK, Callback
  PROVE  TypeOK'
<1> USE DEF taskVars, clockVars, worldVars
<1>0. SpinnerThreads \in Nat /\ MaxStops \in Nat
  BY CountsAssumption
<1>1. CASE WaitForServers
  BY <1>0, <1>1 DEF WaitForServers, ThreadFree, TypeOK
<1>2. CASE ServersMissing
  BY <1>0, <1>2 DEF ServersMissing, TypeOK
<1>3. CASE OnStart
  <2>1. starts' \in 0..SpinnerThreads
    BY <1>0, <1>3 DEF OnStart, TypeOK
  <2>2. CASE IsWorking(state)
    BY <1>3, <2>1, <2>2 DEF OnStart, TypeOK
  <2>3. CASE ~IsWorking(state)
    <3>1. state' \in States /\ phase' \in {"SPOT", "GRASP"} /\ grabbed' \in BOOLEAN
      BY <1>3, <2>3 DEF OnStart, States, Working
    <3>2. /\ enteredFor' \in 0..MaxAge /\ surveyingFor' \in Ages
          /\ reparkingFor' \in Ages /\ frameFor' \in Ages
      BY <1>3, <2>3, OlderTypes DEF OnStart
    <3> QED BY <1>3, <2>1, <2>3, <3>1, <3>2 DEF OnStart, TypeOK
  <2> QED BY <2>2, <2>3
<1>4. CASE OnStop
  <2>1. stops' \in 0..MaxStops
    BY <1>0, <1>4 DEF OnStop, TypeOK
  <2>2. CASE Apply("STOP")
    BY <1>4, <2>1, <2>2, ApplyTypes DEF OnStop, TypeOK
  <2>3. CASE ~Apply("STOP")
    BY <1>4, <2>1, <2>3 DEF OnStop, TypeOK
  <2> QED BY <2>2, <2>3
<1>5. CASE OnCameraCloud
  BY <1>5, OlderTypes DEF OnCameraCloud, TypeOK
<1>6. CASE OnJointStates
  <2>1. jaw' \in JawStates
    <3>1. PICK p \in JawPositions : jaw' = [jaw EXCEPT !.seen = TRUE, !.at = p, !.stampFor = 0]
      BY <1>6 DEF OnJointStates
    <3>2. jaw \in JawStates
      BY DEF TypeOK
    <3> QED BY <3>1, <3>2, JawTypes
  <2> QED BY <1>6, <2>1 DEF OnJointStates, TypeOK
<1>7. CASE OnCollectFeedback \/ OnParkFeedback
  <2>1. PICK s \in {"collect", "park"} : link' = [link EXCEPT ![s] = Hear(link[s])]
    BY <1>7 DEF OnCollectFeedback, OnParkFeedback
  <2>2. link[s] \in Link(Results) /\ s \in Servers
    BY DEF TypeOK, Servers
  <2>3. link' \in [Servers -> Link(Results)]
    BY <2>1, <2>2, LinkTypes, OneLinkTypes
  <2> QED BY <1>7, <2>3 DEF OnCollectFeedback, OnParkFeedback, TypeOK
<1>8. ASSUME NEW s \in Servers, OnResult(s) PROVE TypeOK'
  <2>1. link[s] \in Link(Results) /\ CanRead(link[s]) /\ link' = [link EXCEPT ![s] = Read(link[s])]
    BY <1>8 DEF OnResult, TypeOK
  <2>2. link' \in [Servers -> Link(Results)]
    BY <2>1, LinkTypes, OneLinkTypes
  <2> QED BY <1>8, <2>2 DEF OnResult, TypeOK
<1> QED BY <1>1, <1>2, <1>3, <1>4, <1>5, <1>6, <1>7, <1>8 DEF Callback

\* The servers and the clocks.
LEMMA ServersKeepTypes ==
  ASSUME TypeOK,
         \/ CollectProcesses \/ ParkDrives \/ ExecuteSends \/ Elapse
         \/ \E s \in Servers : Serve(s) \/ ServerComesUp(s)
  PROVE  TypeOK'
<1> USE DEF taskVars, clockVars, worldVars, OnlyLink
<1>0. \A s \in Servers : link[s] \in Link(Results)
  BY DEF TypeOK
<1>1. CASE CollectProcesses
  <2>1. link' \in [Servers -> Link(Results)]
    BY <1>0, <1>1, LinkTypes, OneLinkTypes DEF CollectProcesses, Servers
  <2> QED BY <1>1, <2>1 DEF CollectProcesses, TypeOK
<1>2. CASE ParkDrives
  <2>1. link' \in [Servers -> Link(Results)]
    BY <1>0, <1>2, LinkTypes, OneLinkTypes DEF ParkDrives, Servers
  <2>2. drives' \in Nat
    BY <1>2 DEF ParkDrives, TypeOK
  <2>3. inMotion' \subseteq {"park", "execute"}
    BY <1>2 DEF ParkDrives, TypeOK
  <2>4. viewed' \in [{"window", "cloud"} -> BOOLEAN]
    BY <1>2 DEF ParkDrives, TypeOK
  <2> QED BY <1>2, <2>1, <2>2, <2>3, <2>4 DEF ParkDrives, TypeOK
<1>3. CASE ExecuteSends
  <2>1. link' = link
    BY <1>3 DEF ExecuteSends, TypeOK, Servers
  <2>2. inMotion' \subseteq {"park", "execute"} /\ powered' \in BOOLEAN
    BY <1>3 DEF ExecuteSends, TypeOK
  <2> QED BY <1>3, <2>1, <2>2 DEF ExecuteSends, TypeOK
<1>4. CASE Elapse
  <2>1. /\ enteredFor' \in 0..MaxAge /\ surveyingFor' \in Ages
        /\ reparkingFor' \in Ages /\ frameFor' \in Ages
    BY <1>4, OlderTypes DEF Elapse, TypeOK
  <2>2. jaw' \in JawStates
    <3>1. jaw' = jaw \/ jaw' = [jaw EXCEPT !.stampFor = Older(@), !.stillFor = Older(@)]
      BY <1>4 DEF Elapse
    <3>2. jaw \in JawStates
      BY DEF TypeOK
    <3> QED BY <3>1, <3>2, JawTypes
  <2> QED BY <1>4, <2>1, <2>2 DEF Elapse, TypeOK
<1>5. ASSUME NEW s \in Servers, Serve(s) PROVE TypeOK'
  <2>1. CASE ServerTakesGoal(s)
    <3>1. link' \in [Servers -> Link(Results)]
      BY <1>0, <2>1, LinkTypes, OneLinkTypes DEF ServerTakesGoal
    <3> QED BY <2>1, <3>1 DEF ServerTakesGoal, TypeOK
  <2>2. CASE ServerTakesCancel(s)
    <3>1. link' \in [Servers -> Link(Results)]
      BY <1>0, <2>2, LinkTypes, OneLinkTypes DEF ServerTakesCancel
    <3> QED BY <2>2, <3>1 DEF ServerTakesCancel, TypeOK
  <2>3. CASE ServerBegins(s)
    <3>1. link' \in [Servers -> Link(Results)]
      BY <1>0, <2>3, LinkTypes, OneLinkTypes DEF ServerBegins
    <3>2. viewed' \in [{"window", "cloud"} -> BOOLEAN]
      BY <2>3 DEF ServerBegins, TypeOK
    <3> QED BY <2>3, <3>1, <3>2 DEF ServerBegins, TypeOK
  <2>4. CASE ServerEnds(s)
    <3>1. PICK r \in ResultsOf(s) : link' = [link EXCEPT ![s] = Answer(link[s], r)]
      BY <2>4 DEF ServerEnds
    <3>2. r \in Results
      BY <3>1 DEF ResultsOf, Results
    <3>3. link' \in [Servers -> Link(Results)]
      BY <1>0, <3>1, <3>2, LinkTypes, OneLinkTypes
    <3>4. powered' \in BOOLEAN
      BY <2>4 DEF ServerEnds, TypeOK
    <3>5. inMotion' \subseteq {"park", "execute"}
      BY <2>4 DEF ServerEnds, TypeOK
    <3> QED BY <2>4, <3>3, <3>4, <3>5 DEF ServerEnds, TypeOK
  <2> QED BY <1>5, <2>1, <2>2, <2>3, <2>4 DEF Serve
<1>6. ASSUME NEW s \in Servers, ServerComesUp(s) PROVE TypeOK'
  BY <1>6 DEF ServerComesUp, TypeOK
<1> QED BY <1>1, <1>2, <1>3, <1>4, <1>5, <1>6

\* READY, with four quiet connections.
LEMMA InitTypes == Init => TypeOK
<1> SUFFICES ASSUME Init PROVE TypeOK
  OBVIOUS
<1>1. link \in [Servers -> Link(Results)]
  BY DEF Init, QuietLink, Link, Owner
<1>2. jaw \in JawStates /\ enteredFor \in 0..MaxAge /\ surveyingFor \in Ages
      /\ reparkingFor \in Ages /\ frameFor \in Ages
  BY JawTypes, OlderTypes DEF Init
<1>3. down \in SUBSET Servers
  BY DEF Init
<1>4. starts \in 0..SpinnerThreads /\ stops \in 0..MaxStops
  BY CountsAssumption DEF Init
<1>5. state \in States /\ inMotion \subseteq {"park", "execute"}
  BY DEF Init, States, Resting
<1>6. viewed \in [{"window", "cloud"} -> BOOLEAN]
  BY DEF Init
<1>7. /\ phase \in {"SPOT", "GRASP"} /\ grabbed \in BOOLEAN /\ parkAttempt \in Nat
      /\ lookAttempt \in Nat /\ processing \in BOOLEAN /\ driving \in BOOLEAN
      /\ drives \in Nat /\ missed \in Nat /\ powered \in BOOLEAN
  BY DEF Init
<1> QED BY <1>1, <1>2, <1>3, <1>4, <1>5, <1>6, <1>7 DEF TypeOK

\* Every variable of the task node keeps its type.
THEOREM TypesHold == Spec => []TypeOK
<1>1. Init => TypeOK
  BY InitTypes
<1>2. TypeOK /\ [Next]_vars => TypeOK'
  <2> SUFFICES ASSUME TypeOK, [Next]_vars PROVE TypeOK'
    OBVIOUS
  <2>1. CASE Tick
    BY <2>1, TickKeepsTypes
  <2>2. CASE Callback
    BY <2>2, CallbackKeepsTypes
  <2>3. CASE \/ CollectProcesses \/ ParkDrives \/ ExecuteSends \/ Elapse
             \/ \E s \in Servers : Serve(s) \/ ServerComesUp(s)
    BY <2>3, ServersKeepTypes
  <2>4. CASE UNCHANGED vars
    BY <2>4 DEF vars, TypeOK
  <2> QED BY <2>1, <2>2, <2>3, <2>4 DEF Next
<1> QED BY <1>1, <1>2, PTL DEF Spec
-------------------------------------------------------------------------------
\* The client follows at most one goal.  It is in one place, nothing of the client's own is
\* behind it, and its answer is the last word of a connection that then holds no goal.
FollowsOneGoal(l) ==
  /\ l.goal = "mine" => /\ l.client = Waiting /\ l.next # "mine" /\ l.run # "mine"
                        /\ l.result = NoAnswer /\ ~l.feedback
  /\ l.next = "mine" => /\ l.client = Waiting /\ l.goal = "none" /\ l.run # "mine"
                        /\ l.result = NoAnswer /\ ~l.feedback
  /\ l.run = "mine" => /\ l.client = Waiting /\ l.goal = "none" /\ l.next = "none"
                       /\ l.result = NoAnswer
  /\ l.result # NoAnswer => l.client = Waiting /\ Quiet(l)
  /\ l.client \in Results => Quiet(l)
  /\ l.client = NoAnswer => ~l.feedback

\* No server answers with what the client reads before an answer.
LEMMA AnswersAreResults == NoAnswer \notin Results /\ Waiting \notin Results /\ NoAnswer # Waiting
BY DEF NoAnswer, Waiting, Results, CollectResults, ParkResults, PlanResults, ExecuteResults

\* Forgetting and sending begin anew, whatever is left of earlier goals.
LEMMA ClientFollows ==
  ASSUME NEW l \in Link(Results), FollowsOneGoal(l)
  PROVE  /\ FollowsOneGoal(Abandon(l)) /\ FollowsOneGoal(SendGoal(l))
         /\ Busy(l) => Busy(Abandon(l)) /\ Busy(SendGoal(l))
         /\ Quiet(l) => Quiet(Abandon(l))
<1>1. /\ Disown(l.goal) # "mine" /\ Disown(l.run) # "mine" /\ Disown(l.next) # "mine"
      /\ Disown("none") = "none"
      /\ \A o \in Owner : o # "none" => Disown(o) # "none"
  BY DEF Disown
<1>2. FollowsOneGoal(Abandon(l))
  BY <1>1, Abandoned, AnswersAreResults DEF FollowsOneGoal
<1>3. FollowsOneGoal(SendGoal(l))
  <2>1. /\ SendGoal(l).next # "mine" /\ SendGoal(l).run # "mine"
        /\ SendGoal(l).client = Waiting /\ SendGoal(l).result = NoAnswer
        /\ ~SendGoal(l).feedback
    BY <1>1, Sent
  <2> QED BY <2>1, AnswersAreResults DEF FollowsOneGoal
<1>4. Busy(l) => Busy(Abandon(l)) /\ Busy(SendGoal(l))
  <2>1. l.run \in Owner /\ Abandon(l).run = Disown(l.run) /\ SendGoal(l).run = Disown(l.run)
    BY Abandoned, Sent DEF Link
  <2> QED BY <1>1, <2>1 DEF Busy
<1>5. Quiet(l) => Quiet(Abandon(l))
  BY <1>1, Abandoned DEF Quiet
<1> QED BY <1>2, <1>3, <1>4, <1>5

\* What is cancelled, heard or read leaves the goal where it is.
LEMMA FollowsInPlace ==
  ASSUME NEW l \in Link(Results), FollowsOneGoal(l)
  PROVE  /\ FollowsOneGoal(CancelAll(l)) /\ FollowsOneGoal(TakeCancel(l))
         /\ FollowsOneGoal(Say(l)) /\ FollowsOneGoal(Hear(l))
         /\ CanRead(l) => FollowsOneGoal(Read(l))
<1>1. FollowsOneGoal(CancelAll(l))
  BY DEF FollowsOneGoal, CancelAll, Quiet, Link
<1>2. FollowsOneGoal(TakeCancel(l))
  BY DEF FollowsOneGoal, TakeCancel, Quiet, Link
<1>3. FollowsOneGoal(Say(l)) /\ FollowsOneGoal(Hear(l))
  BY AnswersAreResults DEF FollowsOneGoal, Say, Hear, Quiet, Link
<1>4. CanRead(l) => FollowsOneGoal(Read(l))
  BY AnswersAreResults DEF FollowsOneGoal, CanRead, Read, Quiet, Link
<1> QED BY <1>1, <1>2, <1>3, <1>4

\* A goal moves on: to the server, into its callback, and out with an answer.
LEMMA FollowsOnward ==
  ASSUME NEW l \in Link(Results), FollowsOneGoal(l)
  PROVE  /\ l.goal # "none" => FollowsOneGoal(TakeGoal(l))
         /\ CanBegin(l) => FollowsOneGoal(Begin(l))
         /\ Busy(l) => \A r \in Results : FollowsOneGoal(Answer(l, r))
<1>1. l.goal # "none" => FollowsOneGoal(TakeGoal(l))
  BY AnswersAreResults DEF FollowsOneGoal, TakeGoal, Quiet, Link, Owner
<1>2. CanBegin(l) => FollowsOneGoal(Begin(l))
  BY AnswersAreResults DEF FollowsOneGoal, CanBegin, Begin, Quiet, Link, Owner
<1>3. ASSUME Busy(l), NEW r \in Results PROVE FollowsOneGoal(Answer(l, r))
  <2>1. CASE l.run = "mine"
    BY <1>3, <2>1, AnswersAreResults DEF FollowsOneGoal, Busy, Answer, Quiet, Link
  <2>2. CASE l.run # "mine"
    BY <1>3, <2>2, AnswersAreResults DEF FollowsOneGoal, Busy, Answer, Quiet, Link
  <2> QED BY <2>1, <2>2
<1> QED BY <1>1, <1>2, <1>3
-------------------------------------------------------------------------------
\* The states that wait for a server's answer.
Asking(s) == IF s = "collect" THEN {"COLLECT", "PROCESS"}
             ELSE IF s = "park" THEN {"PICKSPOT", "GOTOSPOT"}
             ELSE IF s = "plan" THEN {"PICKGRASP"} ELSE {"GOTOGRASP"}

Followed == \A s \in Servers : FollowsOneGoal(link[s])

\* The task node follows a goal in the states that wait for it, and in no other.
Asked == \A s \in Servers : link[s].client # NoAnswer <=> state \in Asking(s)

\* Only the callback of a goal moves anything.
Moving == \A s \in inMotion : Busy(link[s])

\* As long as nobody stops a pick, every goal is answered before the node moves on.
NothingLeftBehind ==
  stops = 0 => \A s \in Servers : link[s].client = NoAnswer => Quiet(link[s])

GoalInv == Followed /\ Asked /\ Moving /\ NothingLeftBehind

\* An event is applied, in tick() or by a stop.
Turn(e, named, next) ==
  /\ named \in States /\ next \in States
  /\ Leads(state, e, named) /\ e # "START"
  /\ next = named \/ (named = "CLOSEJAW" /\ next = "FAIL")
  /\ phase' = PhaseOnEntry(named)
  /\ Enter(next)
  /\ UNCHANGED <<drives, inMotion>>

\* tick() moves on only when the goal it follows is answered, or to wait for more of it;
\* the cloud is the one that came with the collect's answer.
TickTurn(e, named, next) ==
  /\ Turn(e, named, next) /\ stops' = stops
  /\ named \notin {"PROCESS", "GOTOSPOT"} => \A s \in Servers : link[s].client # Waiting
  /\ state = "PICKSPOT" => (named = "GOTOSPOT" <=> driving)
  /\ missed' = IF DriveIsMissed THEN missed + 1 ELSE missed
  /\ \/ viewed' = viewed /\ <<e, named>> \notin Verdicts
     \/ /\ state \in {"COLLECT", "PROCESS"} /\ link["collect"].client \in CollectResults
        /\ <<e, named>> \in Verdicts
        /\ phase = IF e \in {"CANDIDATES_SPOT", "NO_CANDIDATES_SPOT"} THEN "SPOT" ELSE "GRASP"
        /\ viewed' = [viewed EXCEPT !["cloud"] = viewed["window"]]

StopTurn(e, named, next) ==
  /\ Turn(e, named, next) /\ next = "ESTOP" /\ stops' = stops + 1
  /\ UNCHANGED <<missed, viewed>>

\* What the invariants below speak of.
followed == <<state, phase, parkAttempt, driving, stops, link, inMotion, drives, missed, viewed>>

\* apply() is a turn, as long as the rest of the step moves nothing.
LEMMA ApplyTurns ==
  ASSUME NEW e, Apply(e), e # "START", UNCHANGED <<drives, inMotion>>
  PROVE  \E named, next \in States : Turn(e, named, next)
<1>1. PICK named \in States, next \in States :
        /\ Leads(state, e, named)
        /\ next = named \/ (named = "CLOSEJAW" /\ next = "FAIL")
        /\ phase' = PhaseOnEntry(named)
        /\ Enter(next)
  BY ApplyEnters
<1> QED BY <1>1 DEF Turn

\* In a state that waits for nobody, or whose answer has come, no client waits.
LEMMA NoClientWaits ==
  ASSUME Asked,
         \A s \in Servers : state \in Asking(s) => link[s].client \in Results
  PROVE  \A s \in Servers : link[s].client # Waiting
BY AnswersAreResults DEF Asked

\* tick() takes a turn or changes nothing that the invariants speak of.
LEMMA TickTurns ==
  ASSUME TypeOK, Asked, Tick
  PROVE  UNCHANGED followed \/ \E e, named, next : TickTurn(e, named, next)
<1> USE DEF OutsideApply, DriveIsMissed
<1>1. CASE CheckStream \/ CheckResurvey \/ CheckRetarget \/ CheckRepark
  <2>1. PICK e : Apply(e) /\ e \in {"STREAMING", "NO_STREAM", "OUT_OF_TIME", "SURVEY_AGAIN",
                                    "OUT_OF_LOOKS", "LOOK_AGAIN", "OUT_OF_PARKS", "PARK_AGAIN"}
    BY <1>1 DEF CheckStream, CheckResurvey, CheckRetarget, CheckRepark
  <2>2. UNCHANGED <<drives, missed, inMotion, stops, viewed>>
    BY <1>1 DEF CheckStream, CheckResurvey, CheckRetarget, CheckRepark
  <2>3. PICK named, next \in States : Turn(e, named, next)
    BY <2>1, <2>2, ApplyTurns
  <2>4. state \in {"STREAM", "RESURVEY", "RETARGET", "REPARK"}
    BY <1>1 DEF CheckStream, CheckResurvey, CheckRetarget, CheckRepark
  <2>5. \A s \in Servers : link[s].client # Waiting
    BY <2>4, NoClientWaits DEF Asking
  <2>6. <<e, named>> \notin Verdicts
    BY <2>1 DEF Verdicts
  <2> QED BY <2>2, <2>3, <2>4, <2>5, <2>6 DEF TickTurn
<1>2. CASE CheckCollect
  <2>1. state \in {"COLLECT", "PROCESS"} /\ UNCHANGED <<drives, missed, inMotion, stops>>
    BY <1>2 DEF CheckCollect
  <2>2. CASE processing /\ state = "COLLECT"
    <3>1. Apply("PROCESSING") /\ viewed' = viewed
      BY <1>2, <2>2 DEF CheckCollect
    <3>2. PICK named, next \in States : Turn("PROCESSING", named, next)
      BY <2>1, <3>1, ApplyTurns
    <3>3. named = "PROCESS"
      BY <3>2 DEF Turn, Leads, Table, Verdicts
    <3> QED BY <2>1, <2>2, <3>1, <3>2, <3>3 DEF TickTurn, Verdicts
  <2>3. CASE ~(processing /\ state = "COLLECT")
    <3> DEFINE answer == link["collect"].client
    <3>1. /\ answer \in CollectResults /\ Apply(CollectAnswered(answer))
          /\ viewed' = IF answer = "failed" THEN viewed
                       ELSE [viewed EXCEPT !["cloud"] = viewed["window"]]
      BY <1>2, <2>3 DEF CheckCollect
    <3>2. CollectAnswered(answer) # "START"
      BY DEF CollectAnswered
    <3>3. PICK named, next \in States : Turn(CollectAnswered(answer), named, next)
      BY <2>1, <3>1, <3>2, ApplyTurns
    <3>4. \A s \in Servers : link[s].client # Waiting
      BY <2>1, <3>1, NoClientWaits DEF Asking, Results
    <3>5. named \notin {"PROCESS", "GOTOSPOT"} /\ state # "PICKSPOT"
      BY <2>1, <3>3 DEF CollectAnswered, Turn, Leads, Table, Verdicts
    <3>6. CASE answer = "failed"
      <4>1. <<CollectAnswered(answer), named>> \notin Verdicts
        BY <3>6 DEF CollectAnswered, Verdicts
      <4> QED BY <2>1, <3>1, <3>3, <3>4, <3>5, <3>6, <4>1 DEF TickTurn
    <3>7. CASE answer # "failed"
      <4>1. phase \in {"SPOT", "GRASP"}
        BY DEF TypeOK
      <4>2. CollectAnswered(answer) \in {"CANDIDATES_SPOT", "NO_CANDIDATES_SPOT",
                                        "CANDIDATES_GRASP", "NO_CANDIDATES_GRASP"}
        BY <3>1, <3>7 DEF CollectAnswered, CollectResults
      <4>3. <<CollectAnswered(answer), named>> \in Verdicts
        BY <3>3, <4>2 DEF Turn, Leads, Table
      <4>4. phase = IF CollectAnswered(answer) \in {"CANDIDATES_SPOT", "NO_CANDIDATES_SPOT"}
                    THEN "SPOT" ELSE "GRASP"
        BY <3>1, <3>7, <4>1 DEF CollectAnswered, CollectResults
      <4> QED BY <2>1, <3>1, <3>3, <3>4, <3>5, <3>7, <4>3, <4>4 DEF TickTurn
    <3> QED BY <3>6, <3>7
  <2> QED BY <2>2, <2>3
<1>3. CASE CheckPark
  <2>1. /\ state \in {"PICKSPOT", "GOTOSPOT"} /\ UNCHANGED <<drives, inMotion, stops, viewed>>
        /\ missed' = IF DriveIsMissed THEN missed + 1 ELSE missed
    BY <1>3 DEF CheckPark, worldVars
  <2>2. CASE driving /\ state = "PICKSPOT"
    <3>1. Apply("SPOT_CHOSEN")
      BY <1>3, <2>2 DEF CheckPark
    <3>2. PICK named, next \in States : Turn("SPOT_CHOSEN", named, next)
      BY <2>1, <3>1, ApplyTurns
    <3>3. named = "GOTOSPOT"
      BY <3>2 DEF Turn, Leads, Table, Verdicts
    <3> QED BY <2>1, <2>2, <3>2, <3>3 DEF TickTurn, Verdicts
  <2>3. CASE ~(driving /\ state = "PICKSPOT")
    <3> DEFINE answer == link["park"].client
    <3>1. answer \in ParkResults /\ Apply(ParkAnswered(answer))
      BY <1>3, <2>3 DEF CheckPark
    <3>2. ParkAnswered(answer) # "START"
      BY DEF ParkAnswered
    <3>3. PICK named, next \in States : Turn(ParkAnswered(answer), named, next)
      BY <2>1, <3>1, <3>2, ApplyTurns
    <3>4. \A s \in Servers : link[s].client # Waiting
      BY <2>1, <3>1, NoClientWaits DEF Asking, Results
    <3>5. named # "GOTOSPOT" /\ <<ParkAnswered(answer), named>> \notin Verdicts
      BY <2>1, <3>3 DEF ParkAnswered, Turn, Leads, Table, Verdicts
    <3> QED BY <2>1, <2>3, <3>3, <3>4, <3>5 DEF TickTurn
  <2> QED BY <2>2, <2>3
<1>4. CASE CheckPlan \/ CheckExecute
  <2>1. PICK e : Apply(e) /\ e \in {"FAILURE", "PLAN_FOUND", "NO_PLAN", "REACHED", "COLLIDED",
                                    "STALLED"}
    BY <1>4 DEF CheckPlan, CheckExecute, PlanAnswered, ExecuteAnswered
  <2>2. UNCHANGED <<drives, missed, inMotion, stops, viewed>>
    BY <1>4 DEF CheckPlan, CheckExecute
  <2>3. PICK named, next \in States : Turn(e, named, next)
    BY <2>1, <2>2, ApplyTurns
  <2>4. \/ state = "PICKGRASP" /\ link["plan"].client \in PlanResults
        \/ state = "GOTOGRASP" /\ link["execute"].client \in ExecuteResults
    BY <1>4 DEF CheckPlan, CheckExecute
  <2>5. \A s \in Servers : link[s].client # Waiting
    BY <2>4, NoClientWaits DEF Asking, Results, Servers
  <2>6. <<e, named>> \notin Verdicts
    BY <2>1 DEF Verdicts
  <2> QED BY <2>2, <2>3, <2>4, <2>5, <2>6 DEF TickTurn
<1>5. CASE CheckJaw
  <2>1. state = "CLOSEJAW" /\ UNCHANGED <<drives, missed, inMotion, stops, viewed>>
    BY <1>5 DEF CheckJaw
  <2>2. CASE Apply("JAW_SETTLED")
    <3>1. PICK named, next \in States : Turn("JAW_SETTLED", named, next)
      BY <2>1, <2>2, ApplyTurns
    <3>2. \A s \in Servers : link[s].client # Waiting
      BY <2>1, NoClientWaits DEF Asking
    <3>3. <<"JAW_SETTLED", named>> \notin Verdicts
      BY DEF Verdicts
    <3> QED BY <2>1, <3>1, <3>2, <3>3 DEF TickTurn
  <2>3. CASE ~Apply("JAW_SETTLED")
    <3>1. UNCHANGED followed
      BY <1>5, <2>1, <2>3 DEF CheckJaw, followed
    <3> QED BY <3>1
  <2> QED BY <2>2, <2>3
<1> QED BY <1>1, <1>2, <1>3, <1>4, <1>5 DEF Tick

\* PROCESS and GOTOSPOT are entered from the state whose goal they go on waiting for.
LEMMA LeadsToWaitMore ==
  ASSUME NEW e, NEW named, Leads(state, e, named), named \in {"PROCESS", "GOTOSPOT"}
  PROVE  /\ named = "PROCESS" => state = "COLLECT"
         /\ named = "GOTOSPOT" => state = "PICKSPOT"
BY DEF Leads, Table, Verdicts

\* What becomes of a connection when a state is entered.
LEMMA EnteredLink ==
  ASSUME TypeOK, NEW next \in States, Enter(next), NEW s \in Servers
  PROVE  /\ link'[s] = LinkOnEntry(next, s)
         /\ next \in {"PROCESS", "GOTOSPOT"} => link'[s] = link[s]
         /\ next \notin {"PROCESS", "GOTOSPOT"} /\ next \in Asking(s)
              => link'[s] = SendGoal(link[s])
         /\ next # "ESTOP" /\ next \notin {"PROCESS", "GOTOSPOT"} /\ next \notin Asking(s)
              => link'[s] = Abandon(link[s])
         /\ next = "ESTOP" => link'[s] = CancelAll(Abandon(link[s]))
<1>1. link'[s] = LinkOnEntry(next, s)
  BY DEF Enter
<1> QED BY <1>1 DEF LinkOnEntry, GoalSent, Asking, Servers

\* A cancel-all on its way changes nothing at either end yet.
LEMMA CancelledFields ==
  ASSUME NEW l \in Link(Results)
  PROVE  /\ CancelAll(l).client = l.client /\ CancelAll(l).goal = l.goal
         /\ CancelAll(l).run = l.run /\ CancelAll(l).next = l.next
         /\ CancelAll(l).feedback = l.feedback /\ CancelAll(l).result = l.result
BY DEF CancelAll, Link

\* The goals stay in order when a state is entered that the table leads to.
LEMMA TurnKeepsGoals ==
  ASSUME TypeOK, GoalInv, NEW e, NEW named, NEW next, Turn(e, named, next),
         \/ stops' = stops
            /\ (named \notin {"PROCESS", "GOTOSPOT"} => \A s \in Servers : link[s].client # Waiting)
         \/ stops' = stops + 1
  PROVE  GoalInv'
<1>1. /\ next \in States /\ Enter(next) /\ inMotion' = inMotion /\ state' = next
      /\ Leads(state, e, named)
      /\ next \in {"PROCESS", "GOTOSPOT"} => named = next
      /\ named \in {"PROCESS", "GOTOSPOT"} => named = next
  BY DEF Turn, Enter
<1>2. /\ next = "PROCESS" => state = "COLLECT"
      /\ next = "GOTOSPOT" => state = "PICKSPOT"
  BY <1>1, LeadsToWaitMore
<1>3. ASSUME NEW s \in Servers
      PROVE  /\ FollowsOneGoal(link'[s])
             /\ link'[s].client # NoAnswer <=> state' \in Asking(s)
             /\ Busy(link[s]) => Busy(link'[s])
             /\ stops' = 0 /\ link'[s].client = NoAnswer => Quiet(link'[s])
  <2>0. /\ link[s] \in Link(Results) /\ FollowsOneGoal(link[s])
        /\ link[s].client # NoAnswer <=> state \in Asking(s)
        /\ stops = 0 /\ link[s].client = NoAnswer => Quiet(link[s])
    BY DEF TypeOK, GoalInv, Followed, Asked, NothingLeftBehind
  <2>1. stops' = 0 => /\ stops = 0
                      /\ named \notin {"PROCESS", "GOTOSPOT"} => link[s].client # Waiting
    BY CountsAssumption DEF TypeOK
  <2>2. stops' = 0 /\ named \notin {"PROCESS", "GOTOSPOT"} => Quiet(link[s])
    <3>1. link[s].client \in {NoAnswer, Waiting} \cup Results
      BY <2>0 DEF Link
    <3> QED BY <2>0, <2>1, <3>1 DEF FollowsOneGoal
  <2>3. CASE next \in {"PROCESS", "GOTOSPOT"}
    <3>1. link'[s] = link[s]
      BY <1>1, <2>3, EnteredLink
    <3>2. state \in Asking(s) <=> next \in Asking(s)
      BY <1>2, <2>3 DEF Asking
    <3> QED BY <1>1, <2>0, <2>1, <3>1, <3>2
  <2>4. CASE next \notin {"PROCESS", "GOTOSPOT"} /\ next \in Asking(s)
    <3>1. link'[s] = SendGoal(link[s])
      BY <1>1, <2>4, EnteredLink
    <3>2. SendGoal(link[s]).client = Waiting
      BY <2>0, Sent
    <3> QED BY <1>1, <2>0, <2>4, <3>1, <3>2, ClientFollows, AnswersAreResults
  <2>5. CASE next # "ESTOP" /\ next \notin {"PROCESS", "GOTOSPOT"} /\ next \notin Asking(s)
    <3>1. link'[s] = Abandon(link[s])
      BY <1>1, <2>5, EnteredLink
    <3>2. link'[s].client = NoAnswer
      BY <2>0, <3>1, Abandoned
    <3> QED BY <1>1, <2>0, <2>2, <2>5, <3>1, <3>2, ClientFollows
  <2>6. CASE next = "ESTOP"
    <3> DEFINE a == Abandon(link[s])
    <3>1. link'[s] = CancelAll(a)
      BY <1>1, <2>6, EnteredLink
    <3>2. a \in Link(Results) /\ FollowsOneGoal(a) /\ a.client = NoAnswer
      BY <2>0, LinkTypes, ClientFollows, Abandoned
    <3>3. FollowsOneGoal(link'[s])
      BY <3>1, <3>2, FollowsInPlace
    <3>4. link'[s].client = NoAnswer /\ next \notin Asking(s)
      BY <2>6, <3>1, <3>2, CancelledFields DEF Asking
    <3>5. Busy(link[s]) => Busy(link'[s])
      BY <2>0, <3>1, <3>2, ClientFollows, CancelledFields DEF Busy
    <3>6. Quiet(link[s]) => Quiet(link'[s])
      BY <2>0, <3>1, <3>2, ClientFollows, CancelledFields DEF Quiet
    <3> QED BY <1>1, <2>2, <2>6, <3>3, <3>4, <3>5, <3>6
  <2> QED BY <2>3, <2>4, <2>5, <2>6
<1>4. Moving'
  BY <1>1, <1>3 DEF GoalInv, Moving, TypeOK, Servers
<1> QED BY <1>3, <1>4 DEF GoalInv, Followed, Asked, NothingLeftBehind

\* A step of one end disturbs one connection only.
LEMMA OneLinkKeepsGoals ==
  ASSUME TypeOK, GoalInv, NEW s \in Servers, NEW l, FollowsOneGoal(l),
         link' = [link EXCEPT ![s] = l], UNCHANGED <<state, stops>>,
         l.client = NoAnswer <=> link[s].client = NoAnswer,
         l.client = NoAnswer /\ Quiet(link[s]) => Quiet(l),
         \A m \in inMotion' : (m \in inMotion /\ m # s) \/ (m = s /\ Busy(l))
  PROVE  GoalInv'
<1>1. link'[s] = l /\ \A t \in Servers : t # s => link'[t] = link[t]
  BY DEF TypeOK
<1>2. Followed' /\ Asked' /\ NothingLeftBehind'
  BY <1>1 DEF GoalInv, Followed, Asked, NothingLeftBehind
<1>3. Moving'
  <2> SUFFICES ASSUME NEW m \in inMotion' PROVE Busy(link'[m])
    BY DEF Moving
  <2>1. m \in Servers
    BY DEF TypeOK, Servers
  <2> QED BY <1>1, <2>1 DEF GoalInv, Moving
<1> QED BY <1>2, <1>3 DEF GoalInv

\* The callbacks read what the servers sent and leave the goals where they are.
LEMMA CallbackKeepsGoals ==
  ASSUME TypeOK, GoalInv, Callback, ~OnStop
  PROVE  GoalInv'
<1> USE DEF taskVars, clockVars, worldVars
<1>0. \A s \in Servers : link[s] \in Link(Results) /\ FollowsOneGoal(link[s])
  BY DEF TypeOK, GoalInv, Followed
<1>1. CASE UNCHANGED <<state, stops, link, inMotion>>
  BY <1>1 DEF GoalInv, Followed, Asked, Moving, NothingLeftBehind
<1>2. CASE OnStart
  <2>1. CASE IsWorking(state)
    BY <1>1, <1>2, <2>1 DEF OnStart
  <2>2. CASE ~IsWorking(state)
    <3>1. state' = "STREAM" /\ UNCHANGED <<stops, link, inMotion>>
      BY <1>2, <2>2 DEF OnStart
    <3>2. \A s \in Servers : state \notin Asking(s) /\ state' \notin Asking(s)
      BY <2>2, <3>1 DEF Asking, IsWorking, Working
    <3> QED BY <3>1, <3>2 DEF GoalInv, Followed, Asked, Moving, NothingLeftBehind
  <2> QED BY <2>1, <2>2
<1>3. CASE OnCollectFeedback \/ OnParkFeedback
  <2>1. PICK s \in {"collect", "park"} : link' = [link EXCEPT ![s] = Hear(link[s])]
    BY <1>3 DEF OnCollectFeedback, OnParkFeedback
  <2>2. s \in Servers
    BY DEF Servers
  <2>3. /\ Hear(link[s]).client = link[s].client
        /\ Quiet(link[s]) => Quiet(Hear(link[s]))
        /\ Hear(link[s]).run = link[s].run
    BY <1>0, <2>2 DEF Hear, Quiet, Link
  <2>4. UNCHANGED <<state, stops, inMotion>>
    BY <1>3 DEF OnCollectFeedback, OnParkFeedback
  <2>5. FollowsOneGoal(Hear(link[s]))
    BY <1>0, <2>2, FollowsInPlace
  <2>6. \A m \in inMotion' : (m \in inMotion /\ m # s) \/ (m = s /\ Busy(Hear(link[s])))
    BY <2>3, <2>4 DEF GoalInv, Moving, Busy
  <2> QED BY <2>1, <2>2, <2>3, <2>4, <2>5, <2>6, OneLinkKeepsGoals
<1>4. ASSUME NEW s \in Servers, OnResult(s) PROVE GoalInv'
  <2>1. /\ CanRead(link[s]) /\ link' = [link EXCEPT ![s] = Read(link[s])]
        /\ UNCHANGED <<state, stops, inMotion>>
    BY <1>4 DEF OnResult
  <2>2. /\ Read(link[s]).client = link[s].result /\ link[s].result # NoAnswer
        /\ Read(link[s]).run = link[s].run
    BY <1>0, <2>1 DEF Read, CanRead, Link
  <2>3. link[s].client # NoAnswer
    BY <1>0, <2>2, AnswersAreResults DEF FollowsOneGoal
  <2>4. FollowsOneGoal(Read(link[s]))
    BY <1>0, <2>1, FollowsInPlace
  <2>5. \A m \in inMotion' : (m \in inMotion /\ m # s) \/ (m = s /\ Busy(Read(link[s])))
    BY <2>1, <2>2 DEF GoalInv, Moving, Busy
  <2> QED BY <2>1, <2>2, <2>3, <2>4, <2>5, OneLinkKeepsGoals
<1> QED BY <1>1, <1>2, <1>3, <1>4
        DEF Callback, WaitForServers, ServersMissing, OnCameraCloud, OnJointStates

\* The servers move a goal onward and move something only while they run one.
LEMMA ServersKeepGoals ==
  ASSUME TypeOK, GoalInv,
         \/ CollectProcesses \/ ParkDrives \/ ExecuteSends \/ Elapse
         \/ \E s \in Servers : Serve(s) \/ ServerComesUp(s)
  PROVE  GoalInv'
<1> USE DEF taskVars, clockVars, worldVars, OnlyLink
<1>0. /\ \A s \in Servers : link[s] \in Link(Results) /\ FollowsOneGoal(link[s])
      /\ \A s \in inMotion : s \in Servers /\ Busy(link[s])
  BY DEF TypeOK, GoalInv, Followed, Moving, Servers
<1>1. CASE Elapse \/ \E s \in Servers : ServerComesUp(s)
  <2>1. UNCHANGED <<state, stops, link, inMotion>>
    BY <1>1 DEF Elapse, ServerComesUp
  <2> QED BY <2>1 DEF GoalInv, Followed, Asked, Moving, NothingLeftBehind
<1>2. CASE CollectProcesses \/ ParkDrives
  <2>1. PICK s \in {"collect", "park"} : /\ Busy(link[s])
                                         /\ link' = [link EXCEPT ![s] = Say(link[s])]
                                         /\ inMotion' \subseteq inMotion \cup {s}
    BY <1>2 DEF CollectProcesses, ParkDrives
  <2>2. s \in Servers /\ UNCHANGED <<state, stops>>
    BY <1>2 DEF CollectProcesses, ParkDrives, Servers
  <2>3. /\ Say(link[s]).client = link[s].client /\ ~Quiet(link[s])
        /\ Busy(Say(link[s]))
    BY <1>0, <2>1, <2>2 DEF Say, Quiet, Busy, Link
  <2>4. FollowsOneGoal(Say(link[s]))
    BY <1>0, <2>2, FollowsInPlace
  <2> QED BY <2>1, <2>2, <2>3, <2>4, OneLinkKeepsGoals
<1>3. CASE ExecuteSends
  <2>1. /\ link' = link /\ UNCHANGED <<state, stops>> /\ Busy(link["execute"])
        /\ inMotion' = inMotion \cup {"execute"}
    BY <1>3 DEF ExecuteSends, TypeOK, Servers
  <2> QED BY <2>1 DEF GoalInv, Followed, Asked, Moving, NothingLeftBehind
<1>4. ASSUME NEW s \in Servers, Serve(s) PROVE GoalInv'
  <2>0. UNCHANGED <<state, stops>> /\ link[s] \in Link(Results)
    BY <1>0, <1>4 DEF Serve, ServerTakesGoal, ServerTakesCancel, ServerBegins, ServerEnds
  <2>1. CASE ServerTakesGoal(s)
    <3> DEFINE l == TakeGoal(link[s])
    <3>1. link' = [link EXCEPT ![s] = l] /\ link[s].goal # "none" /\ inMotion' = inMotion
      BY <2>1 DEF ServerTakesGoal
    <3>2. l.client = link[s].client /\ l.run = link[s].run /\ ~Quiet(link[s])
      BY <2>0, <3>1 DEF TakeGoal, Quiet, Link
    <3>3. FollowsOneGoal(l)
      BY <1>0, <3>1, FollowsOnward
    <3>4. \A m \in inMotion' : (m \in inMotion /\ m # s) \/ (m = s /\ Busy(l))
      BY <1>0, <3>1, <3>2 DEF Busy
    <3> QED BY <2>0, <3>1, <3>2, <3>3, <3>4, OneLinkKeepsGoals
  <2>2. CASE ServerTakesCancel(s)
    <3> DEFINE l == TakeCancel(link[s])
    <3>1. link' = [link EXCEPT ![s] = l] /\ inMotion' = inMotion
      BY <2>2 DEF ServerTakesCancel
    <3>2. l.client = link[s].client /\ l.run = link[s].run /\ (Quiet(link[s]) => Quiet(l))
      BY <2>0 DEF TakeCancel, Quiet, Link
    <3>3. FollowsOneGoal(l)
      BY <1>0, FollowsInPlace
    <3>4. \A m \in inMotion' : (m \in inMotion /\ m # s) \/ (m = s /\ Busy(l))
      BY <1>0, <3>1, <3>2 DEF Busy
    <3> QED BY <2>0, <3>1, <3>2, <3>3, <3>4, OneLinkKeepsGoals
  <2>3. CASE ServerBegins(s)
    <3> DEFINE l == Begin(link[s])
    <3>1. link' = [link EXCEPT ![s] = l] /\ CanBegin(link[s]) /\ inMotion' = inMotion
      BY <2>3 DEF ServerBegins
    <3>2. l.client = link[s].client /\ ~Quiet(link[s]) /\ s \notin inMotion
      BY <1>0, <2>0, <3>1 DEF Begin, CanBegin, Quiet, Busy, Link
    <3>3. FollowsOneGoal(l)
      BY <1>0, <3>1, FollowsOnward
    <3> QED BY <2>0, <3>1, <3>2, <3>3, OneLinkKeepsGoals
  <2>4. CASE ServerEnds(s)
    <3>1. PICK r \in ResultsOf(s) : link' = [link EXCEPT ![s] = Answer(link[s], r)]
      BY <2>4 DEF ServerEnds
    <3> DEFINE l == Answer(link[s], r)
    <3>2. r \in Results /\ Busy(link[s]) /\ inMotion' = inMotion \ {s}
      BY <2>4, <3>1 DEF ResultsOf, Results, ServerEnds
    <3>3. l.client = link[s].client /\ ~Quiet(link[s])
      BY <2>0, <3>2 DEF Answer, Quiet, Busy, Link
    <3>4. FollowsOneGoal(l)
      BY <1>0, <3>2, FollowsOnward
    <3> QED BY <2>0, <3>1, <3>2, <3>3, <3>4, OneLinkKeepsGoals
  <2> QED BY <1>4, <2>1, <2>2, <2>3, <2>4 DEF Serve
<1> QED BY <1>1, <1>2, <1>3, <1>4

\* Nothing is sent before the first start.
LEMMA InitGoals == Init => GoalInv
<1> SUFFICES ASSUME Init PROVE GoalInv
  OBVIOUS
<1>1. \A s \in Servers : link[s] = QuietLink
  BY DEF Init
<1>2. inMotion = {} /\ \A s \in Servers : state \notin Asking(s)
  BY DEF Init, Asking
<1>3. FollowsOneGoal(QuietLink) /\ Quiet(QuietLink) /\ QuietLink.client = NoAnswer
  BY AnswersAreResults DEF FollowsOneGoal, Quiet, QuietLink
<1> QED BY <1>1, <1>2, <1>3 DEF GoalInv, Followed, Asked, Moving, NothingLeftBehind

\* task/stop takes a turn to ESTOP, or finds the node at rest.
LEMMA StopTurns ==
  ASSUME OnStop
  PROVE  \/ /\ ~IsWorking(state) /\ stops' = stops + 1
            /\ UNCHANGED <<state, phase, parkAttempt, driving, link, inMotion, drives, missed, viewed>>
         \/ \E named, next : StopTurn("STOP", named, next)
<1>1. UNCHANGED <<inMotion, drives, missed, viewed>> /\ stops' = stops + 1
  BY DEF OnStop, worldVars
<1>2. CASE Apply("STOP")
  <2>1. PICK named, next \in States : Turn("STOP", named, next)
    BY <1>1, <1>2, ApplyTurns
  <2>2. next = "ESTOP"
    BY <2>1 DEF Turn, Leads, Table, Verdicts
  <2> QED BY <1>1, <2>1, <2>2 DEF StopTurn
<1> QED BY <1>1, <1>2 DEF OnStop

\* A connection holds at most one goal of the client's own, the node follows one exactly in
\* the states that wait for it, only a goal that runs moves anything, and without stops no
\* goal is left behind.
THEOREM GoalsHold == Spec => []GoalInv
<1>1. TypeOK /\ GoalInv /\ [Next]_vars => GoalInv'
  <2> SUFFICES ASSUME TypeOK, GoalInv, [Next]_vars PROVE GoalInv'
    OBVIOUS
  <2>0. CASE UNCHANGED <<state, stops, link, inMotion>>
    BY <2>0 DEF GoalInv, Followed, Asked, Moving, NothingLeftBehind
  <2>1. CASE Tick
    <3>1. CASE UNCHANGED followed
      BY <2>0, <3>1 DEF followed
    <3>2. CASE \E e, named, next : TickTurn(e, named, next)
      BY <3>2, TurnKeepsGoals DEF TickTurn
    <3> QED BY <2>1, <3>1, <3>2, TickTurns DEF GoalInv
  <2>2. CASE OnStop
    <3>1. CASE UNCHANGED <<state, link, inMotion>> /\ stops' = stops + 1
      BY <3>1 DEF GoalInv, Followed, Asked, Moving, NothingLeftBehind, TypeOK
    <3>2. CASE \E named, next : StopTurn("STOP", named, next)
      BY <3>2, TurnKeepsGoals DEF StopTurn
    <3> QED BY <2>2, <3>1, <3>2, StopTurns
  <2>3. CASE Callback /\ ~OnStop
    BY <2>3, CallbackKeepsGoals
  <2>4. CASE \/ CollectProcesses \/ ParkDrives \/ ExecuteSends \/ Elapse
             \/ \E s \in Servers : Serve(s) \/ ServerComesUp(s)
    BY <2>4, ServersKeepGoals
  <2>5. CASE UNCHANGED vars
    BY <2>0, <2>5 DEF vars
  <2> QED BY <2>1, <2>2, <2>3, <2>4, <2>5 DEF Next
<1> QED BY <1>1, InitGoals, TypesHold, PTL DEF Spec

\* As long as no pick has been stopped, the arm never follows a path while the vehicle
\* drives: each of them moves only for the goal the task node waits for.
THEOREM ArmAndVehicleNeverTogether == Spec => []ArmAndVehicleTakeTurns
<1>1. TypeOK /\ GoalInv => ArmAndVehicleTakeTurns
  <2> SUFFICES ASSUME TypeOK, GoalInv, stops = 0, inMotion = {"park", "execute"} PROVE FALSE
    BY DEF ArmAndVehicleTakeTurns
  <2>1. Busy(link["park"]) /\ Busy(link["execute"])
    BY DEF GoalInv, Moving
  <2>2. link["park"].client # NoAnswer /\ link["execute"].client # NoAnswer
    BY <2>1 DEF GoalInv, NothingLeftBehind, Busy, Quiet, Servers
  <2> QED BY <2>2 DEF GoalInv, Asked, Asking, Servers
<1> QED BY <1>1, GoalsHold, TypesHold, PTL
-------------------------------------------------------------------------------
\* The vehicle has set off for the goal that this survey sent.
Committed == \/ state = "GOTOSPOT"
             \/ state = "PICKSPOT" /\ (driving \/ link["park"].feedback)

\* A goal drives once: once it has, no part of it is still to begin.
DrivesOnce ==
  Committed => /\ link["park"].goal # "mine" /\ link["park"].next # "mine"
               /\ link["park"].run = "mine" => "park" \in inMotion

\* The drives that began are the ones that were counted, those that were missed, and the
\* one about to be either.
DrivesAreCounted ==
  /\ IsWorking(state) => drives <= missed + (IF state = "PICKSPOT" /\ Committed
                                             THEN parkAttempt + 1 ELSE parkAttempt)
  /\ ParkAttempts > 0 => drives <= ParkAttempts + missed

DriveInv == DrivesOnce /\ DrivesAreCounted

\* A step that leaves all of it alone.
LEMMA StillDriveInv ==
  ASSUME DriveInv, UNCHANGED <<state, parkAttempt, driving, link, inMotion, drives, missed>>
  PROVE  DriveInv'
BY DEF DriveInv, DrivesOnce, DrivesAreCounted, Committed

\* A count within a bound stays within it when one of the bound's terms grows.
LEMMA BoundsGrow ==
  ASSUME NEW d \in Nat, NEW a \in Nat, NEW m \in Nat, NEW n \in Nat, m <= n
  PROVE  /\ d <= a + m => d <= a + n
         /\ d <= m + a => d <= n + a
OBVIOUS

\* A turn: PICKSPOT sends a new goal, GOTOSPOT counts the drive, the others drop the goal.
LEMMA TurnKeepsDriveInv ==
  ASSUME TypeOK, GoalInv, Budgets, DriveInv, NEW e, NEW named, NEW next,
         TickTurn(e, named, next) \/ StopTurn(e, named, next)
  PROVE  DriveInv'
<1>1. /\ next \in States /\ Enter(next) /\ state' = next /\ Leads(state, e, named)
      /\ UNCHANGED <<inMotion, drives>> /\ e # "START"
      /\ next = named \/ (named = "CLOSEJAW" /\ next = "FAIL")
      /\ state \in States
  BY DEF TickTurn, StopTurn, Turn, Enter, TypeOK
<1>2. link["park"] \in Link(Results) /\ "park" \in Servers
  BY DEF TypeOK, Servers
<1>3. IsWorking(state)
  BY <1>1, LeadsWhileWorking
<1>4. driving' = (driving /\ next # "PICKSPOT")
  BY <1>1 DEF Enter
<1>5. parkAttempt' = IF next = "GOTOSPOT" THEN parkAttempt + 1 ELSE parkAttempt
  BY <1>1 DEF Enter
<1>6. drives \in Nat /\ missed \in Nat /\ parkAttempt \in Nat /\ ParkAttempts \in Nat
  BY CountsAssumption DEF TypeOK
<1>7. missed' \in Nat /\ missed <= missed'
  <2>1. missed' = missed \/ missed' = missed + 1
    BY DEF TickTurn, StopTurn
  <2> QED BY <1>6, <2>1
<1>8. /\ ~DriveIsMissed => missed' = missed
      /\ DriveIsMissed /\ next # "ESTOP" => missed' = missed + 1
  BY DEF TickTurn, StopTurn
<1>9. CASE next = "GOTOSPOT"
  <2>1. state = "PICKSPOT" /\ named = next
    BY <1>1, <1>9, LeadsToWaitMore
  <2>2. link'["park"] = link["park"]
    BY <1>1, <1>2, <1>9, EnteredLink
  <2>3. driving
    BY <1>9, <2>1 DEF TickTurn, StopTurn
  <2>4. Committed
    BY <2>1, <2>3 DEF Committed
  <2>5. missed' = missed
    BY <1>8, <2>3 DEF DriveIsMissed
  <2>6. DrivesOnce'
    BY <1>1, <2>2, <2>4 DEF DriveInv, DrivesOnce
  <2> QED BY <1>1, <1>3, <1>5, <1>6, <1>9, <2>1, <2>4, <2>5, <2>6
          DEF DriveInv, DrivesAreCounted
<1>10. CASE next = "PICKSPOT"
  <2>1. link'["park"] = SendGoal(link["park"])
    BY <1>1, <1>2, <1>10, EnteredLink DEF Asking
  <2>2. SendGoal(link["park"]).feedback = FALSE
    BY <1>2, Sent
  <2>3. ~Committed'
    BY <1>1, <1>4, <1>10, <2>1, <2>2 DEF Committed
  <2>4. state # "PICKSPOT" /\ missed' = missed
    BY <1>1, <1>8, <1>10 DEF Leads, Table, Verdicts, DriveIsMissed
  <2> QED BY <1>1, <1>3, <1>5, <1>10, <2>3, <2>4
          DEF DriveInv, DrivesOnce, DrivesAreCounted
<1>11. CASE next \notin {"GOTOSPOT", "PICKSPOT"}
  <2>1. ~Committed'
    BY <1>1, <1>11 DEF Committed
  <2>2. DrivesOnce'
    BY <2>1 DEF DrivesOnce
  <2>3. ParkAttempts > 0 => drives <= ParkAttempts + missed'
    <3>1. ParkAttempts > 0 => drives <= ParkAttempts + missed
      BY DEF DriveInv, DrivesAreCounted
    <3> QED BY <1>6, <1>7, <3>1, BoundsGrow
  <2>4. ASSUME IsWorking(next) PROVE drives <= missed' + parkAttempt
    <3>1. CASE state = "PICKSPOT"
      <4>1. next # "ESTOP"
        BY <2>4 DEF IsWorking, Working
      <4>2. ~driving
        BY <1>1, <1>11, <3>1, <4>1 DEF TickTurn, StopTurn, Leads, Table, Verdicts
      <4>3. CASE link["park"].feedback
        <5>1. missed' = missed + 1
          BY <1>8, <3>1, <4>1, <4>2, <4>3 DEF DriveIsMissed
        <5> QED BY <1>3, <1>6, <3>1, <5>1 DEF DriveInv, DrivesAreCounted
      <4>4. CASE ~link["park"].feedback
        <5>1. ~Committed
          BY <3>1, <4>2, <4>4 DEF Committed
        <5>2. drives <= missed + parkAttempt
          BY <1>3, <5>1 DEF DriveInv, DrivesAreCounted
        <5> QED BY <1>6, <1>7, <5>2, BoundsGrow
      <4> QED BY <4>3, <4>4
    <3>2. CASE state # "PICKSPOT"
      <4>1. drives <= missed + parkAttempt
        BY <1>3, <3>2 DEF DriveInv, DrivesAreCounted
      <4> QED BY <1>6, <1>7, <4>1, BoundsGrow
    <3> QED BY <3>1, <3>2
  <2> QED BY <1>1, <1>5, <1>11, <2>2, <2>3, <2>4 DEF DriveInv, DrivesAreCounted
<1> QED BY <1>9, <1>10, <1>11

\* A step that leaves the connection to the park node alone, and the vehicle moving.
LEMMA OthersKeepDriveInv ==
  ASSUME DriveInv, UNCHANGED <<state, parkAttempt, driving, drives, missed>>,
         link'["park"] = link["park"], "park" \in inMotion => "park" \in inMotion'
  PROVE  DriveInv'
BY DEF DriveInv, DrivesOnce, DrivesAreCounted, Committed

\* A step of that connection that says and hears nothing, and brings no goal of this run in.
LEMMA ParkLinkKeepsDriveInv ==
  ASSUME DriveInv, UNCHANGED <<state, parkAttempt, driving, drives, missed>>,
         link'["park"].feedback = link["park"].feedback,
         Committed => /\ link'["park"].goal # "mine" /\ link'["park"].next # "mine"
                      /\ link'["park"].run = "mine" => "park" \in inMotion'
  PROVE  DriveInv'
BY DEF DriveInv, DrivesOnce, DrivesAreCounted, Committed

\* The callbacks: the word that the vehicle drives is remembered when it is heard, and a
\* result that is read leaves it in flight.
LEMMA CallbackKeepsDriveInv ==
  ASSUME TypeOK, GoalInv, DriveInv, Callback, ~OnStop
  PROVE  DriveInv'
<1> USE DEF taskVars, clockVars, worldVars
<1>0. /\ "park" \in Servers /\ link["park"] \in Link(Results) /\ FollowsOneGoal(link["park"])
      /\ link["park"].client # NoAnswer <=> state \in {"PICKSPOT", "GOTOSPOT"}
  BY DEF TypeOK, GoalInv, Followed, Asked, Asking, Servers
<1>1. CASE UNCHANGED <<state, parkAttempt, driving, link, inMotion, drives, missed>>
  BY <1>1, StillDriveInv
<1>2. CASE OnStart
  <2>1. CASE IsWorking(state)
    BY <1>1, <1>2, <2>1 DEF OnStart
  <2>2. CASE ~IsWorking(state)
    <3>1. state' = "STREAM" /\ drives' = 0 /\ missed' = 0 /\ parkAttempt' = 0 /\ link' = link
      BY <1>2, <2>2 DEF OnStart
    <3> QED BY <3>1, CountsAssumption
            DEF DriveInv, DrivesOnce, DrivesAreCounted, Committed
  <2> QED BY <2>1, <2>2
<1>3. CASE OnCollectFeedback
  BY <1>3, OthersKeepDriveInv DEF OnCollectFeedback, TypeOK, Servers
<1>4. CASE OnParkFeedback
  <2>1. /\ link["park"].feedback /\ driving' = TRUE /\ link'["park"] = Hear(link["park"])
        /\ UNCHANGED <<state, parkAttempt, inMotion, drives, missed>>
    BY <1>0, <1>4 DEF OnParkFeedback, TypeOK
  <2>2. /\ Hear(link["park"]).feedback = FALSE /\ Hear(link["park"]).goal = link["park"].goal
        /\ Hear(link["park"]).next = link["park"].next /\ Hear(link["park"]).run = link["park"].run
        /\ Hear(link["park"]).client = link["park"].client
    BY <1>0 DEF Hear, Link
  <2>3. state \in {"PICKSPOT", "GOTOSPOT"}
    BY <1>0, <2>1 DEF FollowsOneGoal
  <2>4. Committed /\ Committed'
    BY <2>1, <2>3 DEF Committed
  <2> QED BY <2>1, <2>2, <2>4 DEF DriveInv, DrivesOnce, DrivesAreCounted
<1>5. ASSUME NEW s \in Servers, OnResult(s) PROVE DriveInv'
  <2>1. UNCHANGED <<state, parkAttempt, driving, inMotion, drives, missed>>
    BY <1>5 DEF OnResult
  <2>2. CASE s # "park"
    <3>1. link'["park"] = link["park"]
      BY <1>0, <1>5, <2>2 DEF OnResult, TypeOK
    <3> QED BY <2>1, <3>1, OthersKeepDriveInv
  <2>3. CASE s = "park"
    <3>1. link'["park"] = Read(link["park"])
      BY <1>0, <1>5, <2>3 DEF OnResult, CanRead, TypeOK
    <3>2. /\ Read(link["park"]).feedback = link["park"].feedback
          /\ Read(link["park"]).goal = link["park"].goal
          /\ Read(link["park"]).next = link["park"].next
          /\ Read(link["park"]).run = link["park"].run
      BY <1>0 DEF Read, Link
    <3> QED BY <2>1, <3>1, <3>2, ParkLinkKeepsDriveInv DEF DriveInv, DrivesOnce
  <2> QED BY <2>2, <2>3
<1> QED BY <1>1, <1>2, <1>3, <1>4, <1>5
        DEF Callback, WaitForServers, ServersMissing, OnCameraCloud, OnJointStates

\* The servers: a drive begun for this run is one of a goal that has not driven yet.
LEMMA ServersKeepDriveInv ==
  ASSUME TypeOK, GoalInv, Budgets, DriveInv,
         \/ CollectProcesses \/ ParkDrives \/ ExecuteSends \/ Elapse
         \/ \E s \in Servers : Serve(s) \/ ServerComesUp(s)
  PROVE  DriveInv'
<1> USE DEF taskVars, clockVars, worldVars, OnlyLink
<1>0. /\ "park" \in Servers /\ link["park"] \in Link(Results) /\ FollowsOneGoal(link["park"])
      /\ link["park"].client # NoAnswer <=> state \in {"PICKSPOT", "GOTOSPOT"}
  BY DEF TypeOK, GoalInv, Followed, Asked, Asking, Servers
<1>1. CASE CollectProcesses \/ ExecuteSends \/ Elapse \/ \E s \in Servers : ServerComesUp(s)
  <2>1. /\ UNCHANGED <<state, parkAttempt, driving, drives, missed>>
        /\ link'["park"] = link["park"] /\ inMotion \subseteq inMotion'
    BY <1>1 DEF CollectProcesses, ExecuteSends, Elapse, ServerComesUp, TypeOK, Servers
  <2> QED BY <2>1, OthersKeepDriveInv
<1>2. CASE ParkDrives
  <2>1. /\ UNCHANGED <<state, parkAttempt, driving, missed>>
        /\ Busy(link["park"]) /\ "park" \notin inMotion /\ "park" \in inMotion'
        /\ drives' = IF link["park"].run = "mine" THEN drives + 1 ELSE drives
        /\ link'["park"] = Say(link["park"])
    BY <1>0, <1>2 DEF ParkDrives, TypeOK
  <2>2. /\ Say(link["park"]).client = link["park"].client
        /\ Say(link["park"]).goal = link["park"].goal /\ Say(link["park"]).run = link["park"].run
        /\ Say(link["park"]).next = link["park"].next
        /\ link["park"].run = "mine" => Say(link["park"]).feedback
        /\ link["park"].run # "mine" => Say(link["park"]).feedback = link["park"].feedback
    BY <1>0 DEF Say, Link
  <2>3. CASE link["park"].run = "mine"
    <3>1. link["park"].client = Waiting /\ link["park"].goal = "none" /\ link["park"].next = "none"
      BY <1>0, <2>3 DEF FollowsOneGoal
    <3>2. ~Committed
      BY <2>1, <2>3 DEF DriveInv, DrivesOnce
    <3>3. state = "PICKSPOT"
      BY <1>0, <3>1, <3>2, AnswersAreResults DEF Committed
    <3>4. Committed'
      BY <2>1, <2>2, <2>3, <3>3 DEF Committed
    <3>5. drives \in Nat /\ missed \in Nat /\ parkAttempt \in Nat /\ ParkAttempts \in Nat
      BY CountsAssumption DEF TypeOK
    <3>6. drives <= missed + parkAttempt
      BY <3>2, <3>3 DEF DriveInv, DrivesAreCounted, IsWorking, Working
    <3>7. ParkAttempts > 0 => parkAttempt < ParkAttempts
      BY <3>3 DEF Budgets, SpotInv, Choosing
    <3>8. DrivesAreCounted'
      BY <2>1, <2>3, <3>3, <3>4, <3>5, <3>6, <3>7 DEF DrivesAreCounted
    <3> QED BY <2>1, <2>2, <3>1, <3>8 DEF DriveInv, DrivesOnce
  <2>4. CASE link["park"].run # "mine"
    BY <2>1, <2>2, <2>4, ParkLinkKeepsDriveInv DEF DriveInv, DrivesOnce
  <2> QED BY <2>3, <2>4
<1>3. ASSUME NEW s \in Servers, Serve(s) PROVE DriveInv'
  <2>1. UNCHANGED <<state, parkAttempt, driving, drives, missed>>
    BY <1>3 DEF Serve, ServerTakesGoal, ServerTakesCancel, ServerBegins, ServerEnds
  <2>2. CASE s # "park"
    <3>1. link'["park"] = link["park"] /\ ("park" \in inMotion => "park" \in inMotion')
      BY <1>0, <1>3, <2>2
         DEF Serve, ServerTakesGoal, ServerTakesCancel, ServerBegins, ServerEnds, TypeOK
    <3> QED BY <2>1, <3>1, OthersKeepDriveInv
  <2>3. CASE s = "park"
    <3> DEFINE l == link["park"]
    <3>1. CASE ServerTakesGoal(s)
      <4>1. link'["park"] = TakeGoal(l) /\ inMotion' = inMotion
        BY <1>0, <2>3, <3>1 DEF ServerTakesGoal, TypeOK
      <4>2. /\ TakeGoal(l).feedback = l.feedback /\ TakeGoal(l).client = l.client
            /\ TakeGoal(l).goal = "none" /\ TakeGoal(l).next = l.goal /\ TakeGoal(l).run = l.run
        BY <1>0 DEF TakeGoal, Link
      <4> QED BY <2>1, <4>1, <4>2, ParkLinkKeepsDriveInv DEF DriveInv, DrivesOnce
    <3>2. CASE ServerTakesCancel(s)
      <4>1. link'["park"] = TakeCancel(l) /\ inMotion' = inMotion
        BY <1>0, <2>3, <3>2 DEF ServerTakesCancel, TypeOK
      <4>2. /\ TakeCancel(l).feedback = l.feedback /\ TakeCancel(l).client = l.client
            /\ TakeCancel(l).goal = l.goal /\ TakeCancel(l).next = l.next
            /\ TakeCancel(l).run = l.run
        BY <1>0 DEF TakeCancel, Link
      <4> QED BY <2>1, <4>1, <4>2, ParkLinkKeepsDriveInv DEF DriveInv, DrivesOnce
    <3>3. CASE ServerBegins(s)
      <4>1. link'["park"] = Begin(l) /\ inMotion' = inMotion
        BY <1>0, <2>3, <3>3 DEF ServerBegins, TypeOK
      <4>2. /\ Begin(l).feedback = l.feedback /\ Begin(l).client = l.client
            /\ Begin(l).goal = l.goal /\ Begin(l).next = "none" /\ Begin(l).run = l.next
        BY <1>0 DEF Begin, Link
      <4> QED BY <2>1, <4>1, <4>2, ParkLinkKeepsDriveInv DEF DriveInv, DrivesOnce
    <3>4. CASE ServerEnds(s)
      <4>1. PICK r \in ResultsOf(s) : link'["park"] = Answer(l, r)
        BY <1>0, <2>3, <3>4 DEF ServerEnds, TypeOK
      <4>2. /\ Answer(l, r).feedback = l.feedback /\ Answer(l, r).client = l.client
            /\ Answer(l, r).goal = l.goal /\ Answer(l, r).next = l.next /\ Answer(l, r).run = "none"
        BY <1>0 DEF Answer, Link
      <4> QED BY <2>1, <4>1, <4>2, ParkLinkKeepsDriveInv DEF DriveInv, DrivesOnce
    <3> QED BY <1>3, <3>1, <3>2, <3>3, <3>4 DEF Serve
  <2> QED BY <2>2, <2>3
<1> QED BY <1>1, <1>2, <1>3

\* Nothing has been driven.
LEMMA InitDriveInv == Init => DriveInv
BY CountsAssumption
   DEF Init, DriveInv, DrivesOnce, DrivesAreCounted, Committed, QuietLink,
       Servers, IsWorking, Working

\* Every drive that the park node begins for a goal of this run is counted, before or after,
\* or its answer is taken before the word that it began.
THEOREM DrivesHold == Spec => []DriveInv
<1>1. TypeOK /\ GoalInv /\ Budgets /\ DriveInv /\ [Next]_vars => DriveInv'
  <2> SUFFICES ASSUME TypeOK, GoalInv, Budgets, DriveInv, [Next]_vars PROVE DriveInv'
    OBVIOUS
  <2>1. CASE Tick
    <3>1. CASE UNCHANGED followed
      BY <3>1, StillDriveInv DEF followed
    <3>2. CASE \E e, named, next : TickTurn(e, named, next)
      BY <3>2, TurnKeepsDriveInv
    <3> QED BY <2>1, <3>1, <3>2, TickTurns DEF GoalInv
  <2>2. CASE OnStop
    <3>1. CASE \E named, next : StopTurn("STOP", named, next)
      BY <3>1, TurnKeepsDriveInv
    <3> QED BY <2>2, <3>1, StopTurns, StillDriveInv
  <2>3. CASE Callback /\ ~OnStop
    BY <2>3, CallbackKeepsDriveInv
  <2>4. CASE \/ CollectProcesses \/ ParkDrives \/ ExecuteSends \/ Elapse
             \/ \E s \in Servers : Serve(s) \/ ServerComesUp(s)
    BY <2>4, ServersKeepDriveInv
  <2>5. CASE UNCHANGED vars
    BY <2>5, StillDriveInv DEF vars
  <2> QED BY <2>1, <2>2, <2>3, <2>4, <2>5 DEF Next
<1> QED BY <1>1, InitDriveInv, TypesHold, GoalsHold, BudgetsHold, PTL DEF Spec

\* In one run the park node begins at most park_attempts drives, and one more for each whose
\* result was taken before the word that it had begun.
THEOREM DrivesAreBounded == Spec => []DrivesWithinAllowance
<1>1. DriveInv => DrivesWithinAllowance
  BY DEF DriveInv, DrivesAreCounted, DrivesWithinAllowance
<1> QED BY <1>1, DrivesHold, PTL
-------------------------------------------------------------------------------
\* From the first look at the place where the vehicle came to stand until another survey.
LooksForGrasp == state \in {"COLLECT", "PROCESS"} /\ phase = "GRASP"
Standing == LooksForGrasp \/ state \in {"PICKGRASP", "GOTOGRASP", "CLOSEJAW", "RETARGET"}

\* The park node has nothing left that could move the vehicle then.
VehicleRests == Standing => Quiet(link["park"])

\* The frames of a look from there show the scene, from the collect's begin to its answer.
WindowIsCurrent ==
  /\ LooksForGrasp
  /\ \/ link["collect"].run = "mine" \/ link["collect"].result # NoAnswer
     \/ link["collect"].client \in Results
  => viewed["window"]

\* And so does the cloud that the arm is planned and moved by.
CloudIsCurrent == state \in {"PICKGRASP", "GOTOGRASP", "CLOSEJAW"} => viewed["cloud"]

ViewInv == VehicleRests /\ WindowIsCurrent /\ CloudIsCurrent

\* A step that leaves all of it alone.
LEMMA StillViewInv ==
  ASSUME ViewInv, UNCHANGED <<state, phase, link, viewed>>
  PROVE  ViewInv'
BY DEF ViewInv, VehicleRests, WindowIsCurrent, CloudIsCurrent, Standing, LooksForGrasp

\* A turn: a look from where the vehicle stands begins with its park goal answered, and the
\* cloud it brings is the one its window took.
LEMMA TurnKeepsViewInv ==
  ASSUME TypeOK, GoalInv, ViewInv, NEW e, NEW named, NEW next,
         TickTurn(e, named, next) \/ StopTurn(e, named, next)
  PROVE  ViewInv'
<1>1. /\ next \in States /\ Enter(next) /\ state' = next /\ Leads(state, e, named)
      /\ phase' = PhaseOnEntry(named)
      /\ next = named \/ (named = "CLOSEJAW" /\ next = "FAIL")
      /\ state \in States /\ phase \in {"SPOT", "GRASP"}
  BY DEF TickTurn, StopTurn, Turn, Enter, TypeOK
<1>2. /\ "park" \in Servers /\ link["park"] \in Link(Results) /\ FollowsOneGoal(link["park"])
      /\ "collect" \in Servers /\ link["collect"] \in Link(Results)
      /\ FollowsOneGoal(link["collect"])
      /\ link["park"].client # NoAnswer <=> state \in {"PICKSPOT", "GOTOSPOT"}
      /\ viewed \in [{"window", "cloud"} -> BOOLEAN]
  BY DEF TypeOK, GoalInv, Followed, Asked, Asking, Servers
<1>3. viewed'["window"] = viewed["window"]
  BY <1>2 DEF TickTurn, StopTurn
<1>4. CASE ~Standing'
  BY <1>4 DEF ViewInv, VehicleRests, WindowIsCurrent, CloudIsCurrent, Standing
<1>5. CASE Standing'
  <2>1. next \in {"COLLECT", "PROCESS", "PICKGRASP", "GOTOGRASP", "CLOSEJAW", "RETARGET"}
        /\ named = next /\ TickTurn(e, named, next)
    BY <1>1, <1>5 DEF Standing, LooksForGrasp, StopTurn
  <2>2. Quiet(link["park"])
    <3>1. CASE state \in {"PICKSPOT", "GOTOSPOT"}
      <4>1. named \notin {"PROCESS", "GOTOSPOT"}
        BY <1>1, <2>1, <3>1 DEF Leads, Table, Verdicts
      <4>2. link["park"].client \in Results
        BY <1>2, <2>1, <3>1, <4>1 DEF TickTurn, Link
      <4> QED BY <1>2, <4>2 DEF FollowsOneGoal
    <3>2. CASE state \notin {"PICKSPOT", "GOTOSPOT"}
      <4>1. Standing
        <5>1. CASE next = "COLLECT"
          <6>1. state \notin {"STREAM", "RESURVEY", "REPARK"}
            BY <1>1, <1>5, <2>1, <5>1 DEF Standing, LooksForGrasp, PhaseOnEntry
          <6>2. state = "RETARGET"
            BY <1>1, <2>1, <3>2, <5>1, <6>1 DEF Leads, Table, Verdicts
          <6> QED BY <6>2 DEF Standing
        <5>2. CASE next = "PROCESS"
          BY <1>1, <1>5, <2>1, <5>2
             DEF Leads, Table, Verdicts, PhaseOnEntry, Standing, LooksForGrasp
        <5>3. CASE next \in {"PICKGRASP", "RETARGET"} /\ state \in {"COLLECT", "PROCESS"}
          <6>1. <<e, named>> \in Verdicts /\ e \notin {"CANDIDATES_SPOT", "NO_CANDIDATES_SPOT"}
            BY <1>1, <2>1, <5>3 DEF Leads, Table, Verdicts
          <6> QED BY <2>1, <5>3, <6>1 DEF TickTurn, Standing, LooksForGrasp
        <5>4. CASE next \in {"PICKGRASP", "GOTOGRASP", "CLOSEJAW", "RETARGET"}
                   /\ state \notin {"COLLECT", "PROCESS"}
          BY <1>1, <2>1, <5>4 DEF Leads, Table, Verdicts, Standing
        <5>5. next \in {"GOTOGRASP", "CLOSEJAW"} => state \notin {"COLLECT", "PROCESS"}
          BY <1>1, <2>1 DEF Leads, Table, Verdicts
        <5> QED BY <2>1, <5>1, <5>2, <5>3, <5>4, <5>5
      <4> QED BY <4>1 DEF ViewInv, VehicleRests
    <3> QED BY <3>1, <3>2
  <2>3. VehicleRests'
    <3>1. CASE next = "PROCESS"
      BY <1>1, <1>2, <2>2, <3>1, EnteredLink DEF VehicleRests
    <3>2. CASE next # "PROCESS"
      <4>1. link'["park"] = Abandon(link["park"])
        BY <1>1, <1>2, <2>1, <3>2, EnteredLink DEF Asking
      <4> QED BY <1>2, <2>2, <4>1, ClientFollows DEF VehicleRests
    <3> QED BY <3>1, <3>2
  <2>4. WindowIsCurrent'
    <3> SUFFICES ASSUME LooksForGrasp' PROVE WindowIsCurrent'
      BY DEF WindowIsCurrent
    <3>1. CASE next = "PROCESS"
      <4>1. state = "COLLECT" /\ phase' = phase
        BY <1>1, <2>1, <3>1 DEF Leads, Table, Verdicts, PhaseOnEntry
      <4>2. link'["collect"] = link["collect"]
        BY <1>1, <1>2, <3>1, EnteredLink
      <4> QED BY <1>3, <3>1, <4>1, <4>2 DEF ViewInv, WindowIsCurrent, LooksForGrasp
    <3>2. CASE next = "COLLECT"
      <4>1. link'["collect"] = SendGoal(link["collect"])
        BY <1>1, <1>2, <3>2, EnteredLink DEF Asking
      <4>2. /\ SendGoal(link["collect"]).client = Waiting
            /\ SendGoal(link["collect"]).run = Disown(link["collect"].run)
            /\ SendGoal(link["collect"]).result = NoAnswer
        BY <1>2, Sent
      <4>3. Disown(link["collect"].run) # "mine"
        BY DEF Disown
      <4> QED BY <4>1, <4>2, <4>3, AnswersAreResults DEF WindowIsCurrent
    <3> QED BY <1>1, <3>1, <3>2 DEF LooksForGrasp
  <2>5. CloudIsCurrent'
    <3>1. CASE next = "PICKGRASP"
      <4>1. state \in {"COLLECT", "PROCESS"} /\ e = "CANDIDATES_GRASP"
        BY <1>1, <2>1, <3>1 DEF Leads, Table, Verdicts
      <4>2. /\ phase = "GRASP" /\ link["collect"].client \in CollectResults
            /\ viewed' = [viewed EXCEPT !["cloud"] = viewed["window"]]
        BY <2>1, <3>1, <4>1 DEF TickTurn, Verdicts
      <4>3. viewed["window"]
        BY <4>1, <4>2 DEF ViewInv, WindowIsCurrent, LooksForGrasp, Results
      <4> QED BY <1>2, <4>2, <4>3 DEF CloudIsCurrent
    <3>2. CASE next \in {"GOTOGRASP", "CLOSEJAW"}
      <4>1. state \in {"PICKGRASP", "GOTOGRASP"}
        BY <1>1, <2>1, <3>2 DEF Leads, Table, Verdicts
      <4>2. viewed' = viewed
        BY <2>1, <4>1 DEF TickTurn
      <4> QED BY <4>1, <4>2 DEF ViewInv, CloudIsCurrent
    <3> QED BY <1>1, <3>1, <3>2 DEF CloudIsCurrent
  <2> QED BY <2>3, <2>4, <2>5 DEF ViewInv
<1> QED BY <1>4, <1>5

\* A step of the connections in place: the park node gets no goal, the collect no more
\* than it had, and nothing drives.
LEMMA LinksKeepViewInv ==
  ASSUME ViewInv, UNCHANGED <<state, phase, viewed>>,
         Quiet(link["park"]) => Quiet(link'["park"]),
         link'["collect"].run = "mine" \/ link'["collect"].result # NoAnswer
           \/ link'["collect"].client \in Results
         => link["collect"].run = "mine" \/ link["collect"].result # NoAnswer
              \/ link["collect"].client \in Results
  PROVE  ViewInv'
BY DEF ViewInv, VehicleRests, WindowIsCurrent, CloudIsCurrent, Standing, LooksForGrasp

\* The callbacks: a result that is read was there before.
LEMMA CallbackKeepsViewInv ==
  ASSUME TypeOK, ViewInv, Callback, ~OnStop
  PROVE  ViewInv'
<1> USE DEF taskVars, clockVars, worldVars
<1>0. \A s \in Servers : link[s] \in Link(Results)
  BY DEF TypeOK
<1>1. CASE UNCHANGED <<state, phase, link, viewed>>
  BY <1>1, StillViewInv
<1>2. CASE OnStart
  <2>1. CASE IsWorking(state)
    BY <1>1, <1>2, <2>1 DEF OnStart
  <2>2. CASE ~IsWorking(state)
    <3>1. state' = "STREAM"
      BY <1>2, <2>2 DEF OnStart
    <3> QED BY <3>1 DEF ViewInv, VehicleRests, WindowIsCurrent, CloudIsCurrent, Standing,
                        LooksForGrasp
  <2> QED BY <2>1, <2>2
<1>3. CASE OnCollectFeedback \/ OnParkFeedback
  <2>1. PICK s \in Servers : link' = [link EXCEPT ![s] = Hear(@)]
    BY <1>3 DEF OnCollectFeedback, OnParkFeedback, Servers
  <2>2. /\ Hear(link[s]).run = link[s].run /\ Hear(link[s]).result = link[s].result
        /\ Hear(link[s]).client = link[s].client /\ Hear(link[s]).goal = link[s].goal
        /\ Hear(link[s]).next = link[s].next
    BY <1>0 DEF Hear, Link
  <2>3. /\ link'["park"] = link["park"] \/ (link'["park"] = Hear(link["park"]) /\ s = "park")
        /\ link'["collect"] = link["collect"]
           \/ (link'["collect"] = Hear(link["collect"]) /\ s = "collect")
    BY <2>1 DEF TypeOK, Servers
  <2>4. UNCHANGED <<state, phase, viewed>>
    BY <1>3 DEF OnCollectFeedback, OnParkFeedback
  <2>5. Quiet(link["park"]) => Quiet(link'["park"])
    BY <2>2, <2>3 DEF Quiet
  <2>6. /\ link'["collect"].run = link["collect"].run
        /\ link'["collect"].result = link["collect"].result
        /\ link'["collect"].client = link["collect"].client
    BY <2>2, <2>3
  <2> QED BY <2>4, <2>5, <2>6, LinksKeepViewInv
<1>4. ASSUME NEW s \in Servers, OnResult(s) PROVE ViewInv'
  <2>1. /\ CanRead(link[s]) /\ link' = [link EXCEPT ![s] = Read(@)]
        /\ UNCHANGED <<state, phase, viewed>>
    BY <1>4 DEF OnResult
  <2>2. /\ Read(link[s]).run = link[s].run /\ Read(link[s]).goal = link[s].goal
        /\ Read(link[s]).next = link[s].next /\ link[s].result # NoAnswer
    BY <1>0, <2>1 DEF Read, CanRead, Link
  <2>3. /\ link'["park"] = link["park"] \/ (link'["park"] = Read(link["park"]) /\ s = "park")
        /\ link'["collect"] = link["collect"]
           \/ (link'["collect"] = Read(link["collect"]) /\ s = "collect")
    BY <2>1 DEF TypeOK, Servers
  <2>4. Quiet(link["park"]) => Quiet(link'["park"])
    BY <2>2, <2>3 DEF Quiet
  <2>5. CASE s = "collect"
    BY <2>1, <2>2, <2>4, <2>5, LinksKeepViewInv
  <2>6. CASE s # "collect"
    BY <2>1, <2>3, <2>4, <2>6, LinksKeepViewInv
  <2> QED BY <2>5, <2>6
<1> QED BY <1>1, <1>2, <1>3, <1>4
        DEF Callback, WaitForServers, ServersMissing, OnCameraCloud, OnJointStates

\* The servers: the park node moves nothing while the node looks or reaches, so a window that
\* opens then is current.
LEMMA ServersKeepViewInv ==
  ASSUME TypeOK, GoalInv, ViewInv,
         \/ CollectProcesses \/ ParkDrives \/ ExecuteSends \/ Elapse
         \/ \E s \in Servers : Serve(s) \/ ServerComesUp(s)
  PROVE  ViewInv'
<1> USE DEF taskVars, clockVars, worldVars, OnlyLink
<1>0. /\ \A s \in Servers : link[s] \in Link(Results) /\ FollowsOneGoal(link[s])
      /\ viewed \in [{"window", "cloud"} -> BOOLEAN]
      /\ "park" \in Servers /\ "collect" \in Servers
  BY DEF TypeOK, GoalInv, Followed, Servers
<1>1. CASE ExecuteSends \/ Elapse \/ \E s \in Servers : ServerComesUp(s)
  <2>1. UNCHANGED <<state, phase, link, viewed>>
    BY <1>1 DEF ExecuteSends, Elapse, ServerComesUp, TypeOK, Servers
  <2> QED BY <2>1, StillViewInv
<1>2. CASE CollectProcesses
  <2>1. /\ link'["collect"] = Say(link["collect"]) /\ link'["park"] = link["park"]
        /\ UNCHANGED <<state, phase, viewed>>
    BY <1>2 DEF CollectProcesses, TypeOK, Servers
  <2>2. /\ Say(link["collect"]).run = link["collect"].run
        /\ Say(link["collect"]).result = link["collect"].result
        /\ Say(link["collect"]).client = link["collect"].client
    BY <1>0 DEF Say, Link
  <2> QED BY <2>1, <2>2, LinksKeepViewInv
<1>3. CASE ParkDrives
  <2>1. Busy(link["park"]) /\ UNCHANGED <<state, phase>>
    BY <1>3 DEF ParkDrives
  <2>2. ~Standing
    BY <2>1 DEF ViewInv, VehicleRests, Quiet, Busy
  <2>3. ~Standing'
    BY <2>1, <2>2 DEF Standing, LooksForGrasp
  <2> QED BY <2>3 DEF ViewInv, VehicleRests, WindowIsCurrent, CloudIsCurrent, Standing,
                      LooksForGrasp
<1>4. ASSUME NEW s \in Servers, Serve(s) PROVE ViewInv'
  <2> DEFINE l == link[s]
  <2>0. UNCHANGED <<state, phase>> /\ l \in Link(Results) /\ FollowsOneGoal(l)
    BY <1>0, <1>4 DEF Serve, ServerTakesGoal, ServerTakesCancel, ServerBegins, ServerEnds
  <2>1. CASE ServerTakesGoal(s) \/ ServerTakesCancel(s)
    <3>1. PICK k : /\ link' = [link EXCEPT ![s] = k]
                   /\ (k = TakeGoal(l) /\ l.goal # "none") \/ k = TakeCancel(l)
      BY <2>1 DEF ServerTakesGoal, ServerTakesCancel
    <3>2. /\ k.run = l.run /\ k.result = l.result /\ k.client = l.client
          /\ Quiet(l) => Quiet(k)
      BY <2>0, <3>1 DEF TakeGoal, TakeCancel, Link, Quiet
    <3>3. viewed' = viewed
      BY <2>1 DEF ServerTakesGoal, ServerTakesCancel
    <3>4. /\ link'["park"] = link["park"] \/ (link'["park"] = k /\ s = "park")
          /\ link'["collect"] = link["collect"] \/ (link'["collect"] = k /\ s = "collect")
      BY <3>1 DEF TypeOK, Servers
    <3>5. Quiet(link["park"]) => Quiet(link'["park"])
      BY <3>2, <3>4
    <3>6. /\ link'["collect"].run = link["collect"].run
          /\ link'["collect"].result = link["collect"].result
          /\ link'["collect"].client = link["collect"].client
      BY <3>2, <3>4
    <3> QED BY <2>0, <3>3, <3>5, <3>6, LinksKeepViewInv
  <2>2. CASE ServerBegins(s)
    <3>1. /\ CanBegin(l) /\ link' = [link EXCEPT ![s] = Begin(l)]
          /\ viewed' = IF s = "collect" THEN [viewed EXCEPT !["window"] = "park" \notin inMotion]
                       ELSE viewed
      BY <2>2 DEF ServerBegins
    <3>2. ~Quiet(l)
      BY <3>1 DEF CanBegin, Quiet
    <3>3. CASE s = "collect"
      <4>1. link'["park"] = link["park"]
        BY <3>1, <3>3 DEF TypeOK, Servers
      <4>2. VehicleRests'
        BY <2>0, <4>1 DEF ViewInv, VehicleRests, Standing, LooksForGrasp
      <4>3. LooksForGrasp => viewed'["window"]
        <5>1. LooksForGrasp => Quiet(link["park"])
          BY DEF ViewInv, VehicleRests, Standing
        <5>2. Quiet(link["park"]) => "park" \notin inMotion
          BY DEF GoalInv, Moving, Busy, Quiet
        <5>3. viewed'["window"] = ("park" \notin inMotion)
          BY <1>0, <3>1, <3>3
        <5> QED BY <5>1, <5>2, <5>3
      <4>4. viewed'["cloud"] = viewed["cloud"]
        BY <1>0, <3>1, <3>3
      <4> QED BY <2>0, <4>2, <4>3, <4>4
              DEF ViewInv, WindowIsCurrent, CloudIsCurrent, LooksForGrasp
    <3>4. CASE s = "park"
      <4>1. link'["collect"] = link["collect"] /\ viewed' = viewed
        BY <3>1, <3>4 DEF TypeOK, Servers
      <4> QED BY <2>0, <3>2, <3>4, <4>1, LinksKeepViewInv
              DEF ViewInv, VehicleRests, WindowIsCurrent, CloudIsCurrent, Standing, LooksForGrasp
    <3>5. CASE s \notin {"collect", "park"}
      <4>1. link'["collect"] = link["collect"] /\ link'["park"] = link["park"] /\ viewed' = viewed
        BY <3>1, <3>5 DEF TypeOK, Servers
      <4> QED BY <2>0, <4>1, LinksKeepViewInv
    <3> QED BY <3>3, <3>4, <3>5
  <2>3. CASE ServerEnds(s)
    <3>1. PICK r \in ResultsOf(s) : link' = [link EXCEPT ![s] = Answer(l, r)]
      BY <2>3 DEF ServerEnds
    <3>2. Busy(l) /\ viewed' = viewed
      BY <2>3 DEF ServerEnds
    <3>3. /\ Answer(l, r).client = l.client /\ Answer(l, r).run = "none"
          /\ l.run # "mine" => Answer(l, r).result = l.result
      BY <2>0 DEF Answer, Link
    <3>4. ~Quiet(l)
      BY <3>2 DEF Busy, Quiet
    <3>5. /\ link'["park"] = link["park"] \/ s = "park"
          /\ link'["collect"] = link["collect"]
             \/ (link'["collect"] = Answer(link["collect"], r) /\ s = "collect")
      BY <3>1 DEF TypeOK, Servers
    <3> QED BY <2>0, <3>2, <3>3, <3>4, <3>5, LinksKeepViewInv
  <2> QED BY <1>4, <2>1, <2>2, <2>3 DEF Serve
<1> QED BY <1>1, <1>2, <1>3, <1>4

\* READY looks at nothing.
LEMMA InitViewInv == Init => ViewInv
BY DEF Init, ViewInv, VehicleRests, WindowIsCurrent, CloudIsCurrent, Standing, LooksForGrasp

\* While the node looks for a grasp, plans, reaches or closes the jaw, the park node holds no
\* goal and the cloud in use was taken where the vehicle stands.
THEOREM ViewsHold == Spec => []ViewInv
<1>1. TypeOK /\ GoalInv /\ ViewInv /\ [Next]_vars => ViewInv'
  <2> SUFFICES ASSUME TypeOK, GoalInv, ViewInv, [Next]_vars PROVE ViewInv'
    OBVIOUS
  <2>1. CASE Tick
    <3>1. CASE UNCHANGED followed
      BY <3>1, StillViewInv DEF followed
    <3>2. CASE \E e, named, next : TickTurn(e, named, next)
      BY <3>2, TurnKeepsViewInv
    <3> QED BY <2>1, <3>1, <3>2, TickTurns DEF GoalInv
  <2>2. CASE OnStop
    <3>1. CASE \E named, next : StopTurn("STOP", named, next)
      BY <3>1, TurnKeepsViewInv
    <3> QED BY <2>2, <3>1, StopTurns, StillViewInv
  <2>3. CASE Callback /\ ~OnStop
    BY <2>3, CallbackKeepsViewInv
  <2>4. CASE \/ CollectProcesses \/ ParkDrives \/ ExecuteSends \/ Elapse
             \/ \E s \in Servers : Serve(s) \/ ServerComesUp(s)
    BY <2>4, ServersKeepViewInv
  <2>5. CASE UNCHANGED vars
    BY <2>5, StillViewInv DEF vars
  <2> QED BY <2>1, <2>2, <2>3, <2>4, <2>5 DEF Next
<1> QED BY <1>1, InitViewInv, TypesHold, GoalsHold, PTL DEF Spec
-------------------------------------------------------------------------------
\* Where the contract sees the pick, state by state.
StagesSeen ==
  /\ state = "READY" => Stage = "idle"
  /\ state \in {"STREAM", "RESURVEY", "PICKSPOT", "REPARK"} => Stage = "survey"
  /\ state \in {"COLLECT", "PROCESS"} /\ phase = "SPOT" => Stage = "survey"
  /\ state \in {"COLLECT", "PROCESS"} /\ phase = "GRASP" => Stage = "look"
  /\ state = "GOTOSPOT" => Stage = "drive"
  /\ state \in {"PICKGRASP", "RETARGET"} => Stage = "look"
  /\ state = "GOTOGRASP" => Stage = "reach"
  /\ state = "CLOSEJAW" => Stage = "close"
  /\ state = "SUCCESS" => Stage = "done"
  /\ state = "FAIL" => Stage = "failed"
  /\ state = "ESTOP" => Stage = "stopped"

\* The CASE of Stage, read as a table.
LEMMA StagesAreSeen == StagesSeen
<1>1. CASE state \in {"COLLECT", "PROCESS"}
  BY <1>1 DEF StagesSeen, Stage
<1>2. CASE state \notin {"COLLECT", "PROCESS"}
  BY <1>2 DEF StagesSeen, Stage
<1> QED BY <1>1, <1>2

\* And after a step.
LEMMA StagesStaySeen == StagesSeen'
BY StagesAreSeen, PTL

\* A pick that is under way, seen from outside.
LEMMA WorkIsUnderWay ==
  ASSUME IsWorking(state), phase \in {"SPOT", "GRASP"}
  PROVE  Stage \in Pick!Under
BY StagesAreSeen DEF StagesSeen, IsWorking, Working, Pick!Under

\* A turn is a step of the contract, or nothing it sees.
LEMMA TurnImplementsPick ==
  ASSUME TypeOK, Budgets, ViewInv, NEW e, NEW named, NEW next,
         TickTurn(e, named, next) \/ StopTurn(e, named, next)
  PROVE  Pick!Next \/ UNCHANGED Pick!contract
<1> USE StagesAreSeen, StagesStaySeen DEF StagesSeen
<1>1. /\ next \in States /\ state' = next /\ Leads(state, e, named) /\ e # "START"
      /\ phase' = PhaseOnEntry(named)
      /\ next = named \/ (named = "CLOSEJAW" /\ next = "FAIL")
      /\ state \in States /\ phase \in {"SPOT", "GRASP"}
      /\ parkAttempt' = IF next = "GOTOSPOT" THEN parkAttempt + 1 ELSE parkAttempt
  BY DEF TickTurn, StopTurn, Turn, Enter, TypeOK
<1>2. IsWorking(state) /\ Stage \in Pick!Under
  BY <1>1, LeadsWhileWorking, WorkIsUnderWay
<1>3. viewed \in [{"window", "cloud"} -> BOOLEAN] /\ viewed' \in [{"window", "cloud"} -> BOOLEAN]
  BY DEF TypeOK, TickTurn, StopTurn
<1>4. CASE next \in {"FAIL", "ESTOP"}
  <2>1. <<e, named>> \notin Verdicts
    BY <1>1, <1>4 DEF Verdicts
  <2>2. viewed' = viewed
    BY <2>1 DEF TickTurn, StopTurn
  <2>3. Stage' \in {"failed", "stopped"} /\ parkAttempt' = parkAttempt
    BY <1>1, <1>4
  <2> QED BY <1>2, <2>2, <2>3 DEF Pick!Next, Pick!GiveUp
<1>5. CASE next \notin {"FAIL", "ESTOP"} /\ <<e, named>> \in Verdicts
  <2>1. /\ state \in {"COLLECT", "PROCESS"} /\ next = named /\ TickTurn(e, named, next)
        /\ phase = IF e \in {"CANDIDATES_SPOT", "NO_CANDIDATES_SPOT"} THEN "SPOT" ELSE "GRASP"
    BY <1>1, <1>5 DEF TickTurn, StopTurn
  <2>2. /\ e \in {"CANDIDATES_SPOT", "NO_CANDIDATES_SPOT"} => next \in {"PICKSPOT", "RESURVEY"}
        /\ e \notin {"CANDIDATES_SPOT", "NO_CANDIDATES_SPOT"} => next \in {"PICKGRASP", "RETARGET"}
    BY <1>5, <2>1 DEF Verdicts
  <2>3. Stage \in {"survey", "look"} /\ Stage' = Stage
    BY <1>1, <2>1, <2>2
  <2>4. parkAttempt' = parkAttempt
    BY <1>1, <2>2
  <2> QED BY <1>3, <2>3, <2>4 DEF Pick!Next, Pick!Learn
<1>6. CASE next \notin {"FAIL", "ESTOP"} /\ <<e, named>> \notin Verdicts
  <2>1. next = named /\ TickTurn(e, named, next) /\ viewed' = viewed
    BY <1>1, <1>6 DEF TickTurn, StopTurn
  <2>2. <<state, e, next>> \in Table
    BY <1>1, <1>2, <1>6, <2>1 DEF Leads, IsWorking, Working, Resting
  <2>3. CASE next \in {"COLLECT", "PROCESS"}
    <3>1. parkAttempt' = parkAttempt
      BY <1>1, <2>3
    <3>2. CASE state \in {"STREAM", "RESURVEY", "REPARK"}
      <4>1. Stage = "survey" /\ Stage' = "survey"
        BY <1>1, <2>1, <2>2, <2>3, <3>2 DEF Table, PhaseOnEntry
      <4> QED BY <2>1, <3>1, <4>1 DEF Pick!contract
    <3>3. CASE state \in {"PICKSPOT", "GOTOSPOT"}
      <4>1. Stage \in {"survey", "drive"} /\ Stage' = "look"
        BY <1>1, <2>1, <2>2, <2>3, <3>3 DEF Table, PhaseOnEntry
      <4> QED BY <2>1, <3>1, <4>1 DEF Pick!Next, Pick!Stand
    <3>4. CASE state = "RETARGET"
      <4>1. Stage = "look" /\ Stage' = "look"
        BY <1>1, <2>1, <2>2, <2>3, <3>4 DEF Table, PhaseOnEntry
      <4> QED BY <2>1, <3>1, <4>1 DEF Pick!contract
    <3>5. CASE state = "COLLECT"
      <4>1. next = "PROCESS" /\ phase' = phase
        BY <1>1, <2>1, <2>2, <2>3, <3>5 DEF Table, PhaseOnEntry
      <4>2. Stage' = Stage
        BY <1>1, <3>5, <4>1
      <4> QED BY <2>1, <3>1, <4>2 DEF Pick!contract
    <3> QED BY <2>2, <2>3, <3>2, <3>3, <3>4, <3>5 DEF Table
  <2>4. CASE next = "GOTOSPOT"
    <3>1. state = "PICKSPOT"
      BY <2>2, <2>4 DEF Table
    <3>2. ParkAttempts = 0 \/ parkAttempt < ParkAttempts
      BY <3>1, CountsAssumption DEF Budgets, SpotInv, Choosing
    <3> QED BY <1>1, <2>1, <2>4, <3>1, <3>2 DEF Pick!Next, Pick!Drive
  <2>5. CASE next = "REPARK"
    <3>1. state \in {"PICKSPOT", "RETARGET"} /\ parkAttempt' = parkAttempt
      BY <1>1, <2>2, <2>5 DEF Table
    <3> QED BY <1>1, <2>1, <2>5, <3>1 DEF Pick!Next, Pick!SurveyAgain, Pick!contract
  <2>6. CASE next = "GOTOGRASP"
    <3>1. state = "PICKGRASP" /\ parkAttempt' = parkAttempt
      BY <1>1, <2>2, <2>6 DEF Table
    <3>2. viewed["cloud"]
      BY <3>1 DEF ViewInv, CloudIsCurrent
    <3> QED BY <1>1, <2>1, <2>6, <3>1, <3>2 DEF Pick!Next, Pick!Reach
  <2>7. CASE next = "RETARGET"
    <3>1. state \in {"PICKGRASP", "GOTOGRASP"} /\ parkAttempt' = parkAttempt
      BY <1>1, <2>2, <2>7 DEF Table
    <3> QED BY <1>1, <2>1, <2>7, <3>1 DEF Pick!Next, Pick!LookAgain, Pick!contract
  <2>8. CASE next \in {"CLOSEJAW", "SUCCESS"}
    <3>1. /\ next = "CLOSEJAW" => state = "GOTOGRASP"
          /\ next = "SUCCESS" => state = "CLOSEJAW"
          /\ parkAttempt' = parkAttempt
      BY <1>1, <2>2, <2>8 DEF Table
    <3> QED BY <1>1, <2>1, <2>8, <3>1 DEF Pick!Next, Pick!Close, Pick!Finish
  <2> QED BY <1>6, <2>2, <2>3, <2>4, <2>5, <2>6, <2>7, <2>8 DEF Table
<1> QED BY <1>4, <1>5, <1>6

\* The other steps leave the stage and the spots alone, except for a start; what they do
\* to the view is to lose it, and not while the arm reaches.
LEMMA CallbackImplementsPick ==
  ASSUME TypeOK, Callback, ~OnStop
  PROVE  Pick!Next \/ UNCHANGED Pick!contract
<1> USE DEF taskVars, clockVars, worldVars
<1>1. CASE UNCHANGED <<state, phase, parkAttempt, viewed>>
  BY <1>1 DEF Pick!contract, Stage
<1>2. CASE OnStart
  <2>1. CASE IsWorking(state)
    BY <1>1, <1>2, <2>1 DEF OnStart
  <2>2. CASE ~IsWorking(state)
    <3>1. /\ state' = "STREAM" /\ parkAttempt' = 0 /\ viewed' = viewed
          /\ state \in {"READY", "SUCCESS", "FAIL", "ESTOP"}
      BY <1>2, <2>2 DEF OnStart, TypeOK, States, Resting, IsWorking
    <3>2. Stage \in Pick!Over /\ Stage' = "survey"
      BY <3>1, StagesAreSeen, StagesStaySeen DEF StagesSeen, Pick!Over
    <3> QED BY <3>1, <3>2 DEF Pick!Next, Pick!Begin
  <2> QED BY <2>1, <2>2
<1>3. ASSUME NEW s \in Servers, OnResult(s) PROVE UNCHANGED <<state, phase, parkAttempt, viewed>>
  BY <1>3 DEF OnResult
<1> QED BY <1>1, <1>2, <1>3
        DEF Callback, WaitForServers, ServersMissing, OnCameraCloud, OnJointStates,
            OnCollectFeedback, OnParkFeedback

\* Of the servers' steps the contract sees a drive, which only loses the view.
LEMMA ServersImplementPick ==
  ASSUME TypeOK, ViewInv,
         \/ CollectProcesses \/ ParkDrives \/ ExecuteSends \/ Elapse
         \/ \E s \in Servers : Serve(s) \/ ServerComesUp(s)
  PROVE  Pick!Next \/ UNCHANGED Pick!contract
<1> USE DEF taskVars, clockVars, worldVars, OnlyLink
<1>1. UNCHANGED <<state, phase, parkAttempt>>
  BY DEF CollectProcesses, ParkDrives, ExecuteSends, Elapse, Serve, ServerTakesGoal,
         ServerTakesCancel, ServerBegins, ServerEnds, ServerComesUp
<1>2. Stage' = Stage
  BY <1>1 DEF Stage
<1>3. CASE ParkDrives
  <2>1. ~Standing /\ viewed'["cloud"] = FALSE
    BY <1>3 DEF ParkDrives, ViewInv, VehicleRests, Quiet, Busy, TypeOK
  <2>2. Stage \notin {"reach", "close"}
    BY <2>1, StagesAreSeen DEF StagesSeen, Standing, LooksForGrasp, TypeOK, States, Working, Resting
  <2> QED BY <1>1, <1>2, <2>1, <2>2 DEF Pick!Next, Pick!Learn
<1>4. CASE ~ParkDrives
  <2>1. viewed'["cloud"] = viewed["cloud"]
    BY <1>4 DEF CollectProcesses, ExecuteSends, Elapse, Serve, ServerTakesGoal,
                ServerTakesCancel, ServerBegins, ServerEnds, ServerComesUp, TypeOK
  <2> QED BY <1>1, <1>2, <2>1 DEF Pick!contract
<1> QED BY <1>3, <1>4

\* The task node implements the contract of a pick: the vehicle is driven to no more spots
\* than allowed, and the arm reaches only for what was looked at after it last moved.
THEOREM PickIsImplemented == Spec => ImplementsPick
<1>1. Init => Pick!Init
  BY StagesAreSeen DEF Init, StagesSeen, Pick!Init
<1>2. TypeOK /\ Budgets /\ ViewInv /\ Asked /\ [Next]_vars => [Pick!Next]_(Pick!contract)
  <2> SUFFICES ASSUME TypeOK, Budgets, ViewInv, Asked, [Next]_vars
               PROVE  Pick!Next \/ UNCHANGED Pick!contract
    OBVIOUS
  <2>1. CASE UNCHANGED <<state, phase, parkAttempt, viewed>>
    BY <2>1 DEF Pick!contract, Stage
  <2>2. CASE Tick
    <3>1. CASE UNCHANGED followed
      BY <2>1, <3>1 DEF followed
    <3>2. CASE \E e, named, next : TickTurn(e, named, next)
      BY <3>2, TurnImplementsPick
    <3> QED BY <2>2, <3>1, <3>2, TickTurns
  <2>3. CASE OnStop
    <3>1. CASE \E named, next : StopTurn("STOP", named, next)
      BY <3>1, TurnImplementsPick
    <3> QED BY <2>1, <2>3, <3>1, StopTurns
  <2>4. CASE Callback /\ ~OnStop
    BY <2>4, CallbackImplementsPick
  <2>5. CASE \/ CollectProcesses \/ ParkDrives \/ ExecuteSends \/ Elapse
             \/ \E s \in Servers : Serve(s) \/ ServerComesUp(s)
    BY <2>5, ServersImplementPick
  <2>6. CASE UNCHANGED vars
    BY <2>1, <2>6 DEF vars
  <2> QED BY <2>1, <2>2, <2>3, <2>4, <2>5, <2>6 DEF Next
<1>3. GoalInv => Asked
  BY DEF GoalInv
<1> QED BY <1>1, <1>2, <1>3, TypesHold, BudgetsHold, GoalsHold, ViewsHold, PTL
        DEF Spec, ImplementsPick, Pick!Spec
================================================================================

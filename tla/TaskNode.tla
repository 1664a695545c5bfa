------------------------------- MODULE TaskNode -------------------------------
(***************************************************************************)
(* The task node (task/src/TaskNode.cpp): the state machine that runs one  *)
(* pick, the three budgets that end it, and the four action servers it     *)
(* drives.  One action per service handler, subscriber callback and per    *)
(* check that tick() makes; the servers answer anything their code can.    *)
(*                                                                         *)
(* A ros::Time is kept as an age: how long ago it was, in clock steps, cut *)
(* off at MaxAge, or Unset for a zero ros::Time.                           *)
(***************************************************************************)
EXTENDS Integers, FiniteSets, TaskStateMachine, ActionLink

CONSTANTS
  RetargetAttempts,  \* looks from one park pose, 0 for no limit
  ParkAttempts,      \* spots driven to, 0 for no limit
  StreamTimeout, SpotSearch, ReparkSearch, RetryDelay, JawTimeout, JawSettle,
  MaxAge,            \* ages are not told apart beyond this
  JawPositions,      \* positions the jaw can be read at, closed is the least
  JawHeld,           \* the least position that counts as holding something
  SpinnerThreads,    \* threads that run the node's callbacks
  MaxStops,          \* bound on task/stop calls
  MaxMissed,         \* bound on the results of one run that overtake the word of its drive
  StandbyMayFail     \* whether driver/standby can refuse or not answer

ASSUME CountsAssumption ==
  /\ RetargetAttempts \in Nat /\ ParkAttempts \in Nat
  /\ SpinnerThreads \in Nat \ {0} /\ MaxStops \in Nat /\ MaxMissed \in Nat
ASSUME TimesAssumption ==
  /\ MaxAge \in Nat
  /\ {StreamTimeout, SpotSearch, ReparkSearch, JawTimeout, JawSettle} \subseteq 1..MaxAge
  /\ RetryDelay \in 0..MaxAge
ASSUME JawAssumption == JawPositions \subseteq Int /\ JawPositions # {} /\ JawHeld \in Int
ASSUME StandbyAssumption == StandbyMayFail \in BOOLEAN

Unset == -1
Ages == -1..MaxAge
Older(age) == IF age = Unset \/ age = MaxAge THEN age ELSE age + 1

Servers == {"collect", "park", "plan", "execute"}

\* How each server can end a goal.  "failed" stands for an abort, or a goal
\* preempted by another client, that brings no result the node reads.
CollectResults == {"candidates", "empty", "failed"}
ParkResults == {"declined", "declined_admitted", "settled", "failed"}
PlanResults == {"plan", "no_plan", "failed"}
ExecuteResults == {"reached", "stalled", "blocked", "refused", "stopped"}
Results == CollectResults \cup ParkResults \cup PlanResults \cup ExecuteResults

ResultsOf(s) == IF s = "collect" THEN CollectResults
                ELSE IF s = "park" THEN ParkResults
                ELSE IF s = "plan" THEN PlanResults ELSE ExecuteResults

VARIABLES
  state, phase, grabbed,
  parkAttempt, lookAttempt,
  enteredFor, surveyingFor, reparkingFor,  \* ages of the three clocks
  frameFor,      \* age of the camera's last frame
  processing, driving,                     \* what feedback has said
  jaw,           \* what checkJaw remembers of the jaw's readings
  starts,        \* task/start calls waiting for the servers
  stops,         \* task/stop calls answered so far
  link,          \* the four actionlib connections
  down,          \* nodes that are not running
  inMotion,      \* servers whose callback has set the vehicle or the arm moving
  drives,        \* drives begun for this run's goals
  missed,        \* those of them whose result was taken before the word that they began
  powered,       \* whether a joint of the arm is energised
  viewed         \* whether nothing has driven since the frames behind ... were taken

taskVars == <<state, phase, grabbed, parkAttempt, lookAttempt, processing, driving>>
clockVars == <<enteredFor, surveyingFor, reparkingFor, frameFor>>
worldVars == <<down, inMotion>>
vars == <<state, phase, grabbed, parkAttempt, lookAttempt, enteredFor, surveyingFor,
          reparkingFor, frameFor, processing, driving, jaw, starts, stops, link, down,
          inMotion, drives, missed, powered, viewed>>

\* seen: a reading stamped after the close that checkJaw has not looked at;
\* still: the position the jaw has held for stillFor; stampFor: the age of the reading.
JawStates == [seen : BOOLEAN, at : JawPositions, stampFor : 0..MaxAge,
              still : JawPositions \cup {Unset}, stillFor : 0..MaxAge]
FreshJaw == [seen |-> FALSE, at |-> CHOOSE p \in JawPositions : TRUE,
             stampFor |-> 0, still |-> Unset, stillFor |-> 0]

TypeOK ==
  /\ state \in States /\ phase \in {"SPOT", "GRASP"} /\ grabbed \in BOOLEAN
  /\ parkAttempt \in Nat /\ lookAttempt \in Nat
  /\ enteredFor \in 0..MaxAge /\ surveyingFor \in Ages
  /\ reparkingFor \in Ages /\ frameFor \in Ages
  /\ processing \in BOOLEAN /\ driving \in BOOLEAN
  /\ jaw \in JawStates
  /\ starts \in 0..SpinnerThreads /\ stops \in 0..MaxStops
  /\ link \in [Servers -> Link(Results)]
  /\ down \in SUBSET Servers /\ inMotion \subseteq {"park", "execute"}
  /\ drives \in Nat /\ missed \in Nat /\ powered \in BOOLEAN
  /\ viewed \in [{"window", "cloud"} -> BOOLEAN]

Init ==
  /\ state = "READY" /\ phase = "SPOT" /\ grabbed = FALSE
  /\ parkAttempt = 0 /\ lookAttempt = 0
  /\ enteredFor = 0 /\ surveyingFor = Unset /\ reparkingFor = Unset
  /\ frameFor = Unset
  /\ processing = FALSE /\ driving = FALSE
  /\ jaw = FreshJaw
  /\ starts = 0 /\ stops = 0
  /\ link = [s \in Servers |-> QuietLink]
  /\ down \in {{}} \cup {{s} : s \in Servers} /\ inMotion = {}
  /\ drives = 0 /\ missed = 0 /\ powered = FALSE
  /\ viewed = [frames \in {"window", "cloud"} |-> FALSE]

-------------------------------------------------------------------------------
\* apply() and enter()

\* The goal a state sends on entry, and ESTOP's cancel of everything.  Only
\* PROCESS and GOTOSPOT go on waiting for the goal the state before them sent.
GoalSent == {<<"COLLECT", "collect">>, <<"PICKSPOT", "park">>,
             <<"PICKGRASP", "plan">>, <<"GOTOGRASP", "execute">>}

LinkOnEntry(next, s) ==
  IF next \in {"PROCESS", "GOTOSPOT"} THEN link[s]
  ELSE IF <<next, s>> \in GoalSent THEN SendGoal(link[s])
  ELSE IF next = "ESTOP" THEN CancelAll(Abandon(link[s]))
  ELSE Abandon(link[s])

\* What entering the state does besides: the counters, the clocks and the flags.
Enter(next) ==
  /\ state' = next
  /\ enteredFor' = 0
  /\ frameFor' = Unset
  /\ jaw' = FreshJaw
  /\ parkAttempt' = IF next = "GOTOSPOT" THEN parkAttempt + 1 ELSE parkAttempt
  /\ lookAttempt' = IF next = "RETARGET" THEN lookAttempt + 1
                    ELSE IF next = "REPARK" THEN 0 ELSE lookAttempt
  /\ surveyingFor' = IF next = "PICKSPOT" THEN Unset
                     ELSE IF next = "RESURVEY" /\ surveyingFor = Unset THEN 0
                     ELSE surveyingFor
  /\ reparkingFor' = IF next = "GOTOSPOT" THEN Unset
                     ELSE IF next = "REPARK" /\ reparkingFor = Unset THEN 0
                     ELSE reparkingFor
  /\ processing' = (processing /\ next # "COLLECT")
  /\ driving' = (driving /\ next # "PICKSPOT")
  /\ link' = [s \in Servers |-> LinkOnEntry(next, s)]

\* CLOSEJAW and ESTOP call a trigger service of the driver, which may refuse or not
\* answer: a jaw that cannot be told to close fails the pick, a standby that fails is
\* only reported.
StandbyAnswers == IF StandbyMayFail THEN BOOLEAN ELSE {TRUE}

EnterAndCall(next) ==
  \/ next \notin {"CLOSEJAW", "ESTOP"} /\ Enter(next) /\ UNCHANGED powered
  \/ next = "CLOSEJAW" /\ Enter("CLOSEJAW") /\ powered' = TRUE
  \/ next = "CLOSEJAW" /\ Enter("FAIL") /\ UNCHANGED powered
  \/ /\ next = "ESTOP" /\ Enter("ESTOP")
     /\ \E released \in StandbyAnswers : powered' = (powered /\ ~released)

\* Mutant: the look after a drive is taken for another survey.
PhaseSurveysAfterDrive(next) ==
  IF next # "COLLECT" THEN phase
  ELSE IF state \in {"STREAM", "RESURVEY", "REPARK", "GOTOSPOT"} THEN "SPOT" ELSE "GRASP"

PhaseOnEntry(next) ==
  IF next # "COLLECT" THEN phase
  ELSE IF state \in {"STREAM", "RESURVEY", "REPARK"} THEN "SPOT" ELSE "GRASP"

\* An event that leads nowhere from here leaves everything as it is.
Apply(event) ==
  \E next \in States :
    /\ Leads(state, event, next)
    /\ phase' = PhaseOnEntry(next)
    /\ EnterAndCall(next)

\* What apply leaves alone.
OutsideApply == <<starts, stops, down, inMotion, drives, missed>>
-------------------------------------------------------------------------------
\* tick(): one action per check.  A check that finds nothing changes nothing.

CheckStream ==
  /\ state = "STREAM"
  /\ IF frameFor # Unset /\ frameFor < StreamTimeout
     THEN Apply("STREAMING")
     ELSE enteredFor >= StreamTimeout /\ Apply("NO_STREAM")
  /\ UNCHANGED <<grabbed, viewed, OutsideApply>>

CollectAnswered(answer) ==
  IF answer = "failed" THEN "FAILURE"
  ELSE IF answer = "candidates"
  THEN IF phase = "SPOT" THEN "CANDIDATES_SPOT" ELSE "CANDIDATES_GRASP"
  ELSE IF phase = "SPOT" THEN "NO_CANDIDATES_SPOT" ELSE "NO_CANDIDATES_GRASP"

CheckCollect ==
  /\ state \in {"COLLECT", "PROCESS"}
  /\ \/ /\ processing /\ state = "COLLECT"
        /\ Apply("PROCESSING")
        /\ UNCHANGED viewed
     \/ /\ ~(processing /\ state = "COLLECT")
        /\ link["collect"].client \in CollectResults
        /\ Apply(CollectAnswered(link["collect"].client))
        /\ viewed' = IF link["collect"].client = "failed" THEN viewed
                     ELSE [viewed EXCEPT !["cloud"] = viewed["window"]]
  /\ UNCHANGED <<grabbed, OutsideApply>>

ParkAnswered(answer) ==
  IF answer = "failed" THEN "FAILURE"
  ELSE IF answer = "declined" THEN "NO_SPOT"
  ELSE IF answer = "settled" /\ state = "GOTOSPOT" THEN "ARRIVED" ELSE "SPOT_UNCHANGED"

\* An answer taken in PICKSPOT of a goal that has driven: the word that it drives is still
\* in flight, and of a goal the node has moved on from it counts no spot.
DriveIsMissed == state = "PICKSPOT" /\ ~driving /\ link["park"].feedback

\* Mutant: the vehicle is taken to have arrived as soon as it has set off.
CheckParkEarly ==
  /\ state \in {"PICKSPOT", "GOTOSPOT"}
  /\ \/ driving /\ state = "PICKSPOT" /\ Apply("SPOT_CHOSEN")
     \/ driving /\ state = "GOTOSPOT" /\ Apply("ARRIVED")
     \/ ~driving /\ link["park"].client \in ParkResults /\ Apply(ParkAnswered(link["park"].client))
  /\ missed' = IF DriveIsMissed THEN missed + 1 ELSE missed
  /\ UNCHANGED <<grabbed, viewed, starts, stops, worldVars, drives>>

CheckPark ==
  /\ state \in {"PICKSPOT", "GOTOSPOT"}
  /\ \/ driving /\ state = "PICKSPOT" /\ Apply("SPOT_CHOSEN")
     \/ /\ ~(driving /\ state = "PICKSPOT")
        /\ link["park"].client \in ParkResults
        /\ Apply(ParkAnswered(link["park"].client))
  /\ missed' = IF DriveIsMissed THEN missed + 1 ELSE missed
  /\ UNCHANGED <<grabbed, viewed, starts, stops, worldVars, drives>>

PlanAnswered(answer) ==
  IF answer = "failed" THEN "FAILURE"
  ELSE IF answer = "plan" THEN "PLAN_FOUND" ELSE "NO_PLAN"

CheckPlan ==
  /\ state = "PICKGRASP"
  /\ link["plan"].client \in PlanResults
  /\ Apply(PlanAnswered(link["plan"].client))
  /\ UNCHANGED <<grabbed, viewed, OutsideApply>>

\* Contact is the one result that latches.
ExecuteAnswered(answer) ==
  IF answer = "reached" THEN "REACHED"
  ELSE IF answer = "blocked" THEN "COLLIDED"
  ELSE IF answer = "stalled" THEN "STALLED" ELSE "FAILURE"

CheckExecute ==
  /\ state = "GOTOGRASP"
  /\ link["execute"].client \in ExecuteResults
  /\ Apply(ExecuteAnswered(link["execute"].client))
  /\ UNCHANGED <<grabbed, viewed, OutsideApply>>

\* A reading not looked at yet restarts the still window, lets it run on, or ends it.
JawMoved == jaw.still = Unset \/ jaw.at # jaw.still
JawStillLongEnough == jaw.stillFor - jaw.stampFor >= JawSettle
JawRead ==
  [jaw EXCEPT !.seen = FALSE,
              !.still = IF JawMoved THEN jaw.at ELSE @,
              !.stillFor = IF JawMoved THEN jaw.stampFor ELSE @]

CheckJaw ==
  /\ state = "CLOSEJAW"
  /\ \/ /\ jaw.seen /\ ~JawMoved /\ JawStillLongEnough
        /\ grabbed' = (jaw.at >= JawHeld)
        /\ Apply("JAW_SETTLED")
     \/ /\ ~(jaw.seen /\ ~JawMoved /\ JawStillLongEnough)
        /\ enteredFor >= JawTimeout
        /\ grabbed' = FALSE
        /\ Apply("JAW_SETTLED")
     \/ /\ jaw.seen /\ (JawMoved \/ ~JawStillLongEnough)
        /\ enteredFor < JawTimeout
        /\ jaw' = JawRead
        /\ UNCHANGED <<state, phase, grabbed, parkAttempt, lookAttempt, enteredFor,
                       surveyingFor, reparkingFor, frameFor, processing, driving, link,
                       powered>>
  /\ UNCHANGED <<viewed, OutsideApply>>

\* Mutant: the survey budget is asked of the clock that every entry restarts.
CheckResurveyOnEntry ==
  /\ state = "RESURVEY"
  /\ IF enteredFor >= SpotSearch
     THEN Apply("OUT_OF_TIME")
     ELSE enteredFor >= RetryDelay /\ Apply("SURVEY_AGAIN")
  /\ UNCHANGED <<grabbed, viewed, OutsideApply>>

CheckResurvey ==
  /\ state = "RESURVEY"
  /\ IF surveyingFor >= SpotSearch
     THEN Apply("OUT_OF_TIME")
     ELSE enteredFor >= RetryDelay /\ Apply("SURVEY_AGAIN")
  /\ UNCHANGED <<grabbed, viewed, OutsideApply>>

\* Mutants: one look, or one spot, more than allowed.
OneLookMore == RetargetAttempts > 0 /\ lookAttempt > RetargetAttempts
OneSpotMore == \/ ParkAttempts > 0 /\ parkAttempt > ParkAttempts
               \/ reparkingFor >= ReparkSearch

OutOfLooks == RetargetAttempts > 0 /\ lookAttempt >= RetargetAttempts

CheckRetarget ==
  /\ state = "RETARGET"
  /\ IF OutOfLooks
     THEN Apply("OUT_OF_LOOKS")
     ELSE enteredFor >= RetryDelay /\ Apply("LOOK_AGAIN")
  /\ UNCHANGED <<grabbed, viewed, OutsideApply>>

OutOfParks == \/ ParkAttempts > 0 /\ parkAttempt >= ParkAttempts
              \/ reparkingFor >= ReparkSearch

CheckRepark ==
  /\ state = "REPARK"
  /\ IF OutOfParks
     THEN Apply("OUT_OF_PARKS")
     ELSE enteredFor >= RetryDelay /\ Apply("PARK_AGAIN")
  /\ UNCHANGED <<grabbed, viewed, OutsideApply>>

Tick == \/ CheckStream \/ CheckCollect \/ CheckPark \/ CheckPlan \/ CheckExecute
        \/ CheckJaw \/ CheckResurvey \/ CheckRetarget \/ CheckRepark
-------------------------------------------------------------------------------
\* Service handlers and subscriber callbacks.  Each needs a free spinner thread.

ThreadFree == starts < SpinnerThreads

\* Mutant: a start that waits gives its thread back.
WaitWithoutThread ==
  /\ down # {} /\ starts <= SpinnerThreads
  /\ starts' = starts + 1
  /\ UNCHANGED <<taskVars, clockVars, worldVars, jaw, stops, link, drives, missed, powered,
                 viewed>>

\* onStart holds its thread while it waits for a server that is not there.
WaitForServers ==
  /\ ThreadFree /\ down # {}
  /\ starts' = starts + 1
  /\ UNCHANGED <<taskVars, clockVars, worldVars, jaw, stops, link, drives, missed, powered,
                 viewed>>

ServersMissing ==
  /\ starts > 0 /\ down # {}
  /\ starts' = starts - 1
  /\ UNCHANGED <<taskVars, clockVars, worldVars, jaw, stops, link, drives, missed, powered,
                 viewed>>

\* The servers are there: the node forgets the last run and begins, unless it is busy.
OnStart ==
  /\ down = {} /\ (ThreadFree \/ starts > 0)
  /\ starts' = IF starts > 0 THEN starts - 1 ELSE 0
  /\ IF IsWorking(state)
     THEN UNCHANGED <<taskVars, clockVars, drives, missed>>
     ELSE /\ state' = "STREAM" /\ phase' = "SPOT" /\ grabbed' = FALSE
          /\ parkAttempt' = 0 /\ lookAttempt' = 0
          /\ enteredFor' = 0 /\ surveyingFor' = Unset /\ reparkingFor' = Unset
          /\ frameFor' \in {Unset, 0}
          /\ drives' = 0 /\ missed' = 0
          /\ UNCHANGED <<processing, driving>>
  /\ UNCHANGED <<worldVars, jaw, stops, link, powered, viewed>>

\* onStop answers success whatever the state was.
OnStop ==
  /\ ThreadFree /\ stops < MaxStops
  /\ stops' = stops + 1
  /\ \/ Apply("STOP")
     \/ /\ ~IsWorking(state)
        /\ UNCHANGED <<state, phase, parkAttempt, lookAttempt, enteredFor, surveyingFor,
                       reparkingFor, frameFor, processing, driving, jaw, link, powered>>
  /\ UNCHANGED <<grabbed, starts, worldVars, drives, missed, viewed>>

\* Only STREAM asks when the last frame came.
OnCameraCloud ==
  /\ ThreadFree /\ state = "STREAM"
  /\ frameFor' = 0
  /\ UNCHANGED <<taskVars, enteredFor, surveyingFor, reparkingFor, worldVars, jaw, starts,
                 stops, link, drives, missed, powered, viewed>>

\* A reading stamped after the jaw was told to close; earlier ones are passed over.
OnJointStates ==
  /\ ThreadFree /\ state = "CLOSEJAW"
  /\ \E p \in JawPositions : jaw' = [jaw EXCEPT !.seen = TRUE, !.at = p, !.stampFor = 0]
  /\ UNCHANGED <<taskVars, clockVars, worldVars, starts, stops, link, drives, missed, powered,
                 viewed>>

OnCollectFeedback ==
  /\ ThreadFree /\ link["collect"].feedback
  /\ processing' = TRUE
  /\ link' = [link EXCEPT !["collect"] = Hear(@)]
  /\ UNCHANGED <<state, phase, grabbed, parkAttempt, lookAttempt, driving, clockVars,
                 worldVars, jaw, starts, stops, drives, missed, powered, viewed>>

\* Mutant: the word that the vehicle drives is not remembered.
OnParkFeedbackForgotten ==
  /\ ThreadFree /\ link["park"].feedback
  /\ link' = [link EXCEPT !["park"] = Hear(@)]
  /\ UNCHANGED <<taskVars, clockVars, worldVars, jaw, starts, stops, drives, missed, powered,
                 viewed>>

OnParkFeedback ==
  /\ ThreadFree /\ link["park"].feedback
  /\ driving' = TRUE
  /\ link' = [link EXCEPT !["park"] = Hear(@)]
  /\ UNCHANGED <<state, phase, grabbed, parkAttempt, lookAttempt, processing, clockVars,
                 worldVars, jaw, starts, stops, drives, missed, powered, viewed>>

\* Results have a topic of their own: one may be read before the feedback that was sent
\* ahead of it, the word that the vehicle drives included (MaxMissed times in a run).
OnResult(s) ==
  /\ ThreadFree /\ CanRead(link[s])
  /\ s = "park" /\ link[s].feedback => missed < MaxMissed
  /\ link' = [link EXCEPT ![s] = Read(@)]
  /\ UNCHANGED <<taskVars, clockVars, worldVars, jaw, starts, stops, drives, missed, powered,
                 viewed>>

Callback == \/ WaitForServers \/ ServersMissing \/ OnStart \/ OnStop
            \/ OnCameraCloud \/ OnJointStates \/ OnCollectFeedback \/ OnParkFeedback
            \/ \E s \in Servers : OnResult(s)
-------------------------------------------------------------------------------
\* The four servers, as the task node sees them.

Up(s) == s \notin down
OnlyLink(s, l) ==
  /\ link' = [link EXCEPT ![s] = l]
  /\ UNCHANGED <<taskVars, clockVars, jaw, starts, stops, down>>

ServerTakesGoal(s) ==
  /\ Up(s) /\ link[s].goal # "none"
  /\ OnlyLink(s, TakeGoal(link[s]))
  /\ UNCHANGED <<inMotion, drives, missed, powered, viewed>>

ServerTakesCancel(s) ==
  /\ Up(s) /\ link[s].cancel
  /\ OnlyLink(s, TakeCancel(link[s]))
  /\ UNCHANGED <<inMotion, drives, missed, powered, viewed>>

\* A collect's window opens: its frames show the scene unless the vehicle moves.
ServerBegins(s) ==
  /\ Up(s) /\ CanBegin(link[s])
  /\ OnlyLink(s, Begin(link[s]))
  /\ viewed' = IF s = "collect" THEN [viewed EXCEPT !["window"] = "park" \notin inMotion]
               ELSE viewed
  /\ UNCHANGED <<inMotion, drives, missed, powered>>

\* Enough frames are in: the collect says it is processing them.
CollectProcesses ==
  /\ Up("collect") /\ Busy(link["collect"]) /\ ~link["collect"].feedback
  /\ OnlyLink("collect", Say(link["collect"]))
  /\ UNCHANGED <<inMotion, drives, missed, powered, viewed>>

\* The park search is over and the vehicle is committed.
ParkDrives ==
  /\ Up("park") /\ Busy(link["park"]) /\ ~link["park"].preempt
  /\ "park" \notin inMotion
  /\ inMotion' = inMotion \cup {"park"}
  /\ drives' = IF link["park"].run = "mine" THEN drives + 1 ELSE drives
  /\ viewed' = [viewed EXCEPT !["window"] = FALSE, !["cloud"] = FALSE]
  /\ OnlyLink("park", Say(link["park"]))
  /\ UNCHANGED <<missed, powered>>

\* The executor's loop sends waypoints as long as it runs.
ExecuteSends ==
  /\ Up("execute") /\ Busy(link["execute"])
  /\ powered' = TRUE /\ inMotion' = inMotion \cup {"execute"}
  /\ OnlyLink("execute", link["execute"])
  /\ UNCHANGED <<drives, missed, viewed>>

\* A drive ends arrived or stopped, and a search that did not drive can end any way.
\* The executor refuses before it sends anything, stops only when it is asked to,
\* and a path of a single corner is reached without sending.
CanEnd(s, r) ==
  /\ s = "park" /\ s \in inMotion => r \in {"settled", "failed"}
  /\ r = "refused" => s \notin inMotion
  /\ r \in {"stalled", "blocked"} => s \in inMotion
  /\ r = "stopped" => link[s].preempt

\* Every way out of the executor's loop but an arrival calls standby first.
ServerEnds(s) ==
  /\ Up(s) /\ Busy(link[s])
  /\ \E r \in ResultsOf(s) :
       /\ CanEnd(s, r)
       /\ OnlyLink(s, Answer(link[s], r))
       /\ powered' \in IF r \in {"stalled", "blocked", "stopped"}
                       THEN {powered /\ ~released : released \in StandbyAnswers}
                       ELSE {powered}
  /\ inMotion' = inMotion \ {s}
  /\ UNCHANGED <<drives, missed, viewed>>

ServerComesUp(s) ==
  /\ s \in down
  /\ down' = down \ {s}
  /\ UNCHANGED <<taskVars, clockVars, inMotion, jaw, starts, stops, link, drives, missed,
                 powered, viewed>>

Serve(s) == ServerTakesGoal(s) \/ ServerTakesCancel(s) \/ ServerBegins(s) \/ ServerEnds(s)

\* Time passes.  The states that wait for a server's answer ask no clock of their own.
TimedStates == {"STREAM", "RESURVEY", "RETARGET", "REPARK", "CLOSEJAW"}
Elapse ==
  /\ IsWorking(state)
  /\ enteredFor' = IF state \in TimedStates THEN Older(enteredFor) ELSE enteredFor
  /\ surveyingFor' = Older(surveyingFor) /\ reparkingFor' = Older(reparkingFor)
  /\ frameFor' = Older(frameFor)
  /\ jaw' = IF state = "CLOSEJAW"
            THEN [jaw EXCEPT !.stampFor = Older(@), !.stillFor = Older(@)] ELSE jaw
  /\ UNCHANGED <<taskVars, worldVars, starts, stops, link, drives, missed, powered, viewed>>

Next == \/ Tick \/ Callback \/ Elapse
        \/ CollectProcesses \/ ParkDrives \/ ExecuteSends
        \/ \E s \in Servers : Serve(s) \/ ServerComesUp(s)

Spec == Init /\ [][Next]_vars

\* tick() runs at a fixed rate, the spinner delivers what has arrived, time passes,
\* and every server's callback ends: none of them loops for ever on one goal.
Fairness ==
  /\ WF_vars(Tick) /\ WF_vars(Elapse)
  /\ WF_vars(OnParkFeedback)
  /\ \A s \in Servers : /\ WF_vars(OnResult(s))
                        /\ WF_vars(ServerTakesGoal(s))
                        /\ WF_vars(ServerBegins(s))
                        /\ WF_vars(ServerEnds(s))

\* roslaunch brings every node up.
FairSpec == Spec /\ Fairness /\ \A s \in Servers : WF_vars(ServerComesUp(s))

-------------------------------------------------------------------------------
\* In one run the park node begins at most park_attempts drives, and one more for each
\* drive whose result the task node took before the word that it had begun: nothing else
\* makes a drive go uncounted, and park_attempts alone does not bound what is driven.
DrivesWithinAllowance == ParkAttempts > 0 => drives <= ParkAttempts + missed

\* From one place the task node looks for a grasp at most retarget_attempts times in
\* vain, however looks, plans and stalled executions follow on each other.
LooksWithinAllowance == RetargetAttempts > 0 => lookAttempt <= RetargetAttempts

\* No run counts more spots than it may drive to (the counter behind REPARK's verdict).
SpotsWithinAllowance == ParkAttempts > 0 => parkAttempt <= ParkAttempts

\* Both, whatever order looks, drives, stops and starts come in.
CountsWithinAllowance == LooksWithinAllowance /\ SpotsWithinAllowance

\* As long as no pick has been stopped, the arm never follows a path while the
\* vehicle drives, not even for goals of an earlier run.
ArmAndVehicleTakeTurns == stops = 0 => inMotion # {"park", "execute"}

\* Every pick ends: each loop of the state machine runs on a budget that runs out.
EveryPickEnds == IsWorking(state) ~> ~IsWorking(state)
================================================================================

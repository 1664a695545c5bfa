------------------------------- MODULE Planner -------------------------------
(***************************************************************************)
(* The planner node (planner/src/PlannerNode.cpp) and its loop over the     *)
(* candidates (CandidatePlanner.cpp): for every candidate of the goal the   *)
(* postures that hold it, then a BiRrt search for one posture after         *)
(* another, nearest first, keeping the cheapest path.  One thread runs it;  *)
(* a preempt request may come between any two of its steps.                 *)
(***************************************************************************)
EXTENDS BiRrt

CONSTANTS
  Travel(_, _),      \* jointTravel: what a straight line between two postures costs
  NumCandidates,     \* candidates of a goal
  Requests,          \* for each candidate, the postures that reach the checker and how far the others got
  Scenes,            \* sets of postures at which the arm collides
  Floor,             \* of those, the ones that collide with the vehicle
  Readings,          \* what joint_states may say
  Snap(_),           \* snapIntoLimits: a posture, NoNode when it is too far outside the limits
  PathsToCompare

Candidates == 1..NumCandidates

\* How far a candidate got, in the order of the enum.
Outcomes == <<"UNREACHABLE", "JOINT_LIMIT", "OFF_APPROACH", "NO_JAW_ROLL", "FLOOR", "OBSTACLE",
              "NOT_PLANNED", "NO_PATH", "OK">>
Failures == {Outcomes[i] : i \in 1..6}

ASSUME CandidatesAssumption == NumCandidates \in Nat /\ PathsToCompare \in Nat
ASSUME RequestsAssumption ==
  /\ \A r \in Requests : r \in [Candidates -> [postures : SUBSET Joints, short : Failures]]
  /\ \A q \in Readings : Snap(q) \in Joints \cup {NoNode}
  /\ \A a, b \in Joints : Travel(a, b) \in Nat

VARIABLES
  preempt,      \* isPreemptRequested
  request, index,
  goals,        \* goals found and not tried yet
  trying,       \* the candidate of the goal being tried
  outcomes, paths_found,
  result,       \* the PlanOutcome
  answer,       \* how the action ended, "none" while it runs
  tries         \* history: the candidates and postures tried, with the path found or <<>>

loopVars == <<request, index, goals, trying, outcomes, paths_found, result, tries>>
vars == <<rrtVars, loopVars, preempt, answer>>

\* pathTravel
Cost(path) ==
  LET travel[k \in 0..Len(path)] == IF k < 2 THEN 0 ELSE travel[k - 1] + Travel(path[k - 1], path[k])
  IN travel[Len(path)]

Verdict(q) == IF q \in Floor THEN "FLOOR" ELSE "OBSTACLE"

Rank(o) == CHOOSE i \in 1..Len(Outcomes) : Outcomes[i] = o
Furthest(S) == CHOOSE o \in S : \A p \in S : Rank(p) <= Rank(o)

NoResult == [success |-> FALSE, chosen |-> 1, path |-> <<>>, cost |-> 0]

Init ==
  /\ stage = "idle" /\ blocked = {} /\ start = NoNode /\ goal = NoNode
  /\ tree = NoTrees /\ growing = "start" /\ iteration = 0 /\ aim = NoNode
  /\ node = NoNode /\ corners = <<>> /\ attempt = 0
  /\ preempt = FALSE /\ request = <<>> /\ index = 1 /\ goals = {} /\ trying = 1
  /\ outcomes = [c \in Candidates |-> "UNREACHABLE"] /\ paths_found = 0
  /\ result = NoResult /\ answer = "none" /\ tries = {}

-----------------------------------------------------------------------------
\* onPlan begins: an accepted goal clears the preempt request of the one before.
Accept ==
  /\ stage = "idle"
  /\ preempt' = FALSE
  /\ index' = 1 /\ goals' = {} /\ paths_found' = 0 /\ result' = NoResult /\ tries' = {}
  /\ outcomes' = [c \in Candidates |-> "UNREACHABLE"]
  /\ UNCHANGED <<goal, trying, treeVars, pathVars>>

\* No transform from the scene's frame, or no joint_states that are recent and whole.
Refuse ==
  /\ Accept
  /\ answer' = "aborted"
  /\ UNCHANGED <<stage, blocked, start, request>>

OnPlan ==
  /\ Accept
  /\ answer' = "none"
  /\ \E scene \in Scenes, r \in Requests, q \in Readings :
       /\ blocked' = scene /\ request' = r
       /\ start' = Snap(q)
       /\ IF Snap(q) = NoNode THEN stage' = "done" ELSE stage' \in {"finding", "done"}   \* a malformed map

\* The postures of a candidate that are clear become goals.
Holding(c) == request[c].postures \ blocked

Found(c) ==
  IF Holding(c) # {} THEN "NOT_PLANNED"
  ELSE Furthest({request[c].short} \cup {Verdict(q) : q \in request[c].postures})

FindGraspGoals ==
  /\ stage = "finding" /\ index <= NumCandidates /\ ~preempt
  /\ outcomes' = [outcomes EXCEPT ![index] = Found(index)]
  /\ goals' = goals \cup {[candidate |-> index, joints |-> q] : q \in Holding(index)}
  /\ index' = index + 1
  /\ UNCHANGED <<rrtVars, request, trying, paths_found, result, answer, tries, preempt>>

Sort ==
  /\ stage = "finding" /\ index > NumCandidates
  /\ stage' = "choosing"
  /\ UNCHANGED <<blocked, start, goal, treeVars, pathVars, loopVars, answer, preempt>>

Wanted == paths_found < PathsToCompare

\* A cancelled plan keeps what it had found, but not its success.
Cancel ==
  /\ preempt
  /\ \/ stage = "finding" /\ index <= NumCandidates
     \/ stage = "choosing" /\ goals # {} /\ Wanted
  /\ result' = [result EXCEPT !.success = FALSE]
  /\ stage' = "done"
  /\ UNCHANGED <<blocked, start, goal, treeVars, pathVars, request, index, goals, trying, outcomes, paths_found, answer,
                 tries, preempt>>

Cheapest == {g \in goals : \A h \in goals : Travel(start, g.joints) <= Travel(start, h.joints)}

NextGoal ==
  /\ stage = "choosing" /\ Wanted /\ ~preempt
  /\ \E g \in Cheapest : goal' = g.joints /\ trying' = g.candidate /\ goals' = goals \ {g}
  /\ stage' = "begin"
  /\ UNCHANGED <<blocked, start, treeVars, pathVars, request, index, outcomes, paths_found, result, answer, tries,
                 preempt>>

Tried(path) == tries \cup {[candidate |-> trying, joints |-> goal, path |-> path]}

\* Mutant of NoPath: a path already found to another posture of the candidate is forgotten.
NoPathAfterAll ==
  /\ stage = "failed"
  /\ outcomes' = [outcomes EXCEPT ![trying] = "NO_PATH"]
  /\ tries' = Tried(<<>>)
  /\ stage' = "choosing"
  /\ UNCHANGED <<blocked, start, goal, treeVars, pathVars, request, index, goals, trying, paths_found, result, answer,
                 preempt>>

NoPath ==
  /\ stage = "failed"
  /\ outcomes' = [outcomes EXCEPT ![trying] = IF @ = "OK" THEN "OK" ELSE "NO_PATH"]
  /\ tries' = Tried(<<>>)
  /\ stage' = "choosing"
  /\ UNCHANGED <<blocked, start, goal, treeVars, pathVars, request, index, goals, trying, paths_found, result, answer,
                 preempt>>

\* Mutant of Better: the last path found is kept.
Newer(cost) == TRUE

Better(cost) == ~result.success \/ cost < result.cost

Keep ==
  /\ stage = "found"
  /\ paths_found' = paths_found + 1
  /\ outcomes' = [outcomes EXCEPT ![trying] = "OK"]
  /\ result' = IF Better(Cost(corners))
               THEN [success |-> TRUE, chosen |-> trying, path |-> corners, cost |-> Cost(corners)]
               ELSE result
  /\ tries' = Tried(corners)
  /\ stage' = "choosing" /\ corners' = <<>>
  /\ UNCHANGED <<blocked, start, goal, treeVars, node, attempt, request, index, goals, trying, answer, preempt>>

\* No goal is left, enough paths have been found, or too little time remains for a search.
Enough ==
  /\ stage = "choosing"
  /\ stage' = "done"
  /\ UNCHANGED <<blocked, start, goal, treeVars, pathVars, loopVars, answer, preempt>>

\* The plan is published, and the action ends as cancelled if it was asked to by now.
Answer ==
  /\ stage = "done"
  /\ answer' = IF preempt THEN "preempted" ELSE "succeeded"
  /\ stage' = "idle"
  /\ UNCHANGED <<blocked, start, goal, treeVars, pathVars, loopVars, preempt>>

Preempt ==
  /\ stage # "idle" /\ ~preempt
  /\ preempt' = TRUE
  /\ UNCHANGED <<rrtVars, loopVars, answer>>

Search == Rrt /\ UNCHANGED <<loopVars, answer, preempt>>

Onward == FindGraspGoals \/ Sort \/ Cancel \/ NextGoal \/ Search \/ NoPath \/ Keep \/ Enough \/ Answer

Next == Refuse \/ OnPlan \/ Onward \/ Preempt

\* The thread that runs onPlan goes on; nothing obliges a goal or a cancel to come.
Spec == Init /\ [][Next]_vars /\ WF_vars(Onward)

-----------------------------------------------------------------------------
\* All the samples of an edge but its ends.
Inside(a, b) == {Interpolate(a, b, i, Samples(a, b)) : i \in 1..(Samples(a, b) - 1)}

\* What BiRrt.h promises: every edge of the path has been checked, and every corner but the
\* start, which the arm may always leave; and the path leads from where the arm was read to be
\* to a posture that holds the chosen candidate.
PathClear(path) ==
  /\ Len(path) > 1 /\ path[1] = start
  /\ \A k \in 2..Len(path) : path[k] \notin blocked /\ Inside(path[k - 1], path[k]) \cap blocked = {}

PathIsClear ==
  result.success =>
    /\ PathClear(result.path)
    /\ result.path[Len(result.path)] \in request[result.chosen].postures

\* The plan is the cheapest of the paths found, its cost is that of its path, and its candidate
\* is the one the path was sought for.
CheapestIsKept ==
  result.success =>
    /\ result.cost = Cost(result.path)
    /\ \E t \in tries : t.path = result.path /\ t.candidate = result.chosen
    /\ \A t \in tries : t.path # <<>> => result.cost <= Cost(t.path)

\* The outcome of a candidate says what became of all its postures: "OK" when one was reached,
\* "NO_PATH" when some were tried and none was, "NOT_PLANNED" when none was tried, a failure when
\* there was none to try.
OutcomesAreTrue ==
  \A c \in Candidates : c < index =>
    LET mine == {t \in tries : t.candidate = c}
        waiting == stage \notin {"idle", "finding", "choosing", "done"} /\ trying = c
    IN /\ outcomes[c] = "OK" <=> \E t \in mine : t.path # <<>>
       /\ outcomes[c] = "NO_PATH" <=> mine # {} /\ \A t \in mine : t.path = <<>>
       /\ outcomes[c] = "NOT_PLANNED" => mine = {} /\ (waiting \/ \E g \in goals : g.candidate = c)
       /\ outcomes[c] \in Failures => mine = {} /\ ~waiting /\ \A g \in goals : g.candidate # c

\* Every goal is answered: both trees' growth, the connecting that no clock stops and the
\* reading off of the path come to an end.
EveryPlanEnds == (stage # "idle") ~> (stage = "idle")
==============================================================================

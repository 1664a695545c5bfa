----------------------------- MODULE Cloud_proofs -----------------------------
(***************************************************************************)
(* What the cloud node guarantees about the frames of a window and about   *)
(* what it says when it has none, for any window and any number of shots.  *)
(*                                                                         *)
(* WindowInv is about what may still come: it keeps the frames in order.   *)
(* HeardInv and NewsInv relate the node's buffers to the history of the    *)
(* messages: the halves at hand to the last message of each topic, the     *)
(* window to the last usable pairs, the words to the last trouble.         *)
(***************************************************************************)
EXTENDS Cloud, FiniteSetTheorems, WellFoundedInduction, TLAPS

\* How far each publisher has come.
Source(topic) == IF topic = "cloud" THEN shots ELSE posed

\* What waits on a topic is younger than the half at hand, and both were published.
TopicsAreInOrder ==
  \A t \in Topics :
    /\ halves[t] <= Source(t) /\ queue[t] <= Source(t)
    /\ queue[t] # NoMessage => halves[t] < queue[t]

\* A shot in the window is older than every message that can still be paired.
WindowIsOver ==
  \A m \in 1..Len(frames) : \A t \in Topics :
    /\ frames[m] <= Source(t)
    /\ halves[t] # NoMessage => frames[m] < halves[t]
    /\ queue[t] # NoMessage => frames[m] < queue[t]

WindowIsInOrder == \A m, n \in 1..Len(frames) : m < n => frames[m] < frames[n]

WindowInv == TypeOK /\ TopicsAreInOrder /\ WindowIsOver /\ WindowIsInOrder /\ FramesAreInOrder

-------------------------------------------------------------------------------
\* A window that takes one more frame stays within its length, and holds nothing but that
\* frame and the ones it had, in the order it had them.
LEMMA TrimmedKeepsOrder ==
  ASSUME NEW window \in Seq(Stamps), Len(window) <= FramesToCollect, NEW stamp \in Stamps,
         \A m, n \in 1..Len(window) : m < n => window[m] < window[n],
         \A m \in 1..Len(window) : window[m] < stamp
  PROVE  LET next == Trimmed(Append(window, stamp))
         IN  /\ next \in Seq(Stamps) /\ Len(next) <= FramesToCollect
             /\ \A m \in 1..Len(next) : next[m] <= stamp
             /\ \A m, n \in 1..Len(next) : m < n => next[m] < next[n]
<1> DEFINE longer == Append(window, stamp)
<1>1. /\ longer \in Seq(Stamps) /\ Len(longer) = Len(window) + 1
      /\ \A m \in 1..Len(longer) : longer[m] = IF m <= Len(window) THEN window[m] ELSE stamp
  OBVIOUS
<1>2. \A m \in 1..Len(window) : window[m] \in Stamps
  OBVIOUS
<1>3. \A k \in Stamps : k \in Int
  BY CloudAssumption DEF Stamps
<1> HIDE DEF longer
<1>4. ASSUME NEW m \in 1..Len(longer) PROVE longer[m] <= stamp /\ longer[m] \in Int
  <2>1. CASE m <= Len(window)
    <3>1. m \in 1..Len(window) /\ longer[m] = window[m]
      BY <1>1, <2>1
    <3>2. window[m] < stamp /\ window[m] \in Int /\ stamp \in Int
      BY <1>2, <1>3, <3>1
    <3> QED
      BY <3>1, <3>2
  <2>2. CASE ~(m <= Len(window))
    BY <1>1, <1>3, <2>2
  <2> QED
    BY <2>1, <2>2
<1>5. ASSUME NEW m \in 1..Len(longer), NEW n \in 1..Len(longer), m < n
      PROVE  longer[m] < longer[n]
  <2>1. m \in 1..Len(window) /\ longer[m] = window[m]
    BY <1>1, <1>5
  <2>2. CASE n <= Len(window)
    BY <1>1, <1>5, <2>1, <2>2
  <2>3. CASE ~(n <= Len(window))
    BY <1>1, <1>5, <2>1, <2>3
  <2> QED
    BY <2>2, <2>3
<1>6. CASE Len(longer) <= FramesToCollect
  <2>1. Trimmed(longer) = longer
    BY <1>1, <1>6, CloudAssumption DEF Trimmed
  <2> QED
    BY <1>1, <1>4, <1>5, <1>6, <2>1 DEF longer
<1>7. CASE Len(longer) > FramesToCollect
  <2>1. Trimmed(longer) = Tail(longer)
    BY <1>7 DEF Trimmed
  <2>2. /\ Tail(longer) \in Seq(Stamps) /\ Len(Tail(longer)) = Len(window)
        /\ \A m \in 1..Len(Tail(longer)) :
             Tail(longer)[m] = longer[m + 1] /\ m + 1 \in 1..Len(longer)
    BY <1>1, <1>7
  <2>3. \A m \in 1..Len(Tail(longer)) : Tail(longer)[m] <= stamp
    BY <1>4, <2>2
  <2>4. ASSUME NEW m \in 1..Len(Tail(longer)), NEW n \in 1..Len(Tail(longer)), m < n
        PROVE  Tail(longer)[m] < Tail(longer)[n]
    BY <1>5, <2>2, <2>4
  <2> QED
    BY <2>1, <2>2, <2>3, <2>4 DEF longer
<1> QED
  BY <1>1, <1>6, <1>7, CloudAssumption

\* The end of an ordered window is ordered, and as long as was asked for.
LEMMA EndKeepsOrder ==
  ASSUME NEW window \in Seq(Stamps), Needed <= Len(window),
         \A m, n \in 1..Len(window) : m < n => window[m] < window[n]
  PROVE  LET end == SubSeq(window, Len(window) - Needed + 1, Len(window))
         IN  /\ end \in Seq(Stamps) /\ Len(end) = Needed
             /\ \A m, n \in 1..Len(end) : m < n => end[m] < end[n]
<1> DEFINE first == Len(window) - Needed
           end == SubSeq(window, first + 1, Len(window))
<1>1. Needed \in Nat \ {0} /\ Len(window) \in Nat
  BY CloudAssumption
<1>2. first \in Nat
  BY <1>1
<1> HIDE DEF first
<1>3. first + Needed = Len(window)
  BY <1>1 DEF first
<1>4. /\ end \in Seq(Stamps) /\ Len(end) = Needed
      /\ \A m \in 1..Len(end) : end[m] = window[first + m]
  BY <1>1, <1>2, <1>3
<1>5. ASSUME NEW m \in 1..Len(end), NEW n \in 1..Len(end), m < n PROVE end[m] < end[n]
  <2>1. first + m \in 1..Len(window) /\ first + n \in 1..Len(window) /\ first + m < first + n
    BY <1>1, <1>2, <1>3, <1>4, <1>5
  <2> QED
    BY <1>4, <2>1
<1> QED
  BY <1>4, <1>5 DEF first

-------------------------------------------------------------------------------
\* At first there is no window, no half and no message.
LEMMA WindowInvInit == Init => WindowInv
<1> SUFFICES ASSUME Init PROVE WindowInv
  OBVIOUS
<1>1. TypeOK
  <2>1. subscribed \in BOOLEAN /\ preempt \in BOOLEAN
    BY DEF Init
  <2>2. /\ halves \in [Topics -> 0..MaxShots] /\ queue \in [Topics -> 0..MaxShots]
        /\ frames \in Seq(Stamps) /\ used \in Seq(Stamps) /\ Len(frames) = 0 /\ Len(used) = 0
    BY CloudAssumption DEF Init, NoMessage
  <2> QED
    BY <2>1, <2>2, CloudAssumption DEF Init, TypeOK, Problems
<1>2. TopicsAreInOrder /\ WindowIsOver /\ WindowIsInOrder /\ FramesAreInOrder
  BY DEF Init, TopicsAreInOrder, WindowIsOver, WindowIsInOrder, FramesAreInOrder, Source, Topics,
         NoMessage
<1> QED
  BY <1>1, <1>2 DEF WindowInv

\* A shot, or what vision makes of one: the sources go on, and only the newest waits.
LEMMA PublishersGrow ==
  ASSUME WindowInv, Shoot \/ See
  PROVE  /\ shots' \in shots..MaxShots /\ posed' \in posed..shots'
         /\ \A t \in Topics :
              queue'[t] = queue[t] \/ (queue'[t] = Source(t)' /\ Source(t)' > Source(t))
         /\ queue' \in [Topics -> 0..MaxShots]
         /\ UNCHANGED <<subscribed, halves, frames, problem, poseless, run, collected, told,
                        waited, outcome, used, preempt, heard, marks>>
<1>1. CASE Shoot
  <2>1. /\ shots < MaxShots /\ shots' = shots + 1 /\ posed' = posed
        /\ queue' = [queue EXCEPT !["cloud"] = shots'] \/ queue' = queue
    BY <1>1 DEF Shoot, Publish
  <2>2. shots \in 0..MaxShots /\ posed \in 0..shots /\ queue \in [Topics -> 0..MaxShots]
    BY DEF WindowInv, TypeOK
  <2>3. UNCHANGED <<subscribed, halves, frames, problem, poseless, run, collected, told,
                    waited, outcome, used, preempt, heard, marks>>
    BY <1>1 DEF Shoot, buffer, goal
  <2> QED BY <2>1, <2>2, <2>3, CloudAssumption DEF Source, Topics
<1>2. CASE See
  <2>1. PICK stamp \in (posed + 1)..shots :
          /\ posed' = stamp /\ shots' = shots
          /\ queue' = [queue EXCEPT !["poses"] = stamp] \/ queue' = queue
    BY <1>2 DEF See, Publish
  <2>2. shots \in 0..MaxShots /\ posed \in 0..shots /\ queue \in [Topics -> 0..MaxShots]
    BY DEF WindowInv, TypeOK
  <2>3. UNCHANGED <<subscribed, halves, frames, problem, poseless, run, collected, told,
                    waited, outcome, used, preempt, heard, marks>>
    BY <1>2 DEF See, buffer, goal
  <2> QED BY <2>1, <2>2, <2>3, CloudAssumption DEF Source, Topics
<1> QED BY <1>1, <1>2

\* A shot, or what vision makes of one: the newest of its topic waits.
LEMMA PublishersKeep ==
  ASSUME WindowInv, Shoot \/ See
  PROVE  WindowInv'
<1>1. /\ shots' \in shots..MaxShots /\ posed' \in posed..shots'
      /\ \A t \in Topics :
           queue'[t] = queue[t] \/ (queue'[t] = Source(t)' /\ Source(t)' > Source(t))
      /\ queue' \in [Topics -> 0..MaxShots]
  BY PublishersGrow
<1>2. UNCHANGED <<subscribed, halves, frames, problem, poseless, run, collected, told, waited,
                  outcome, used, preempt>>
  BY PublishersGrow
<1>3. \A t \in Topics : Source(t) \in Int /\ Source(t)' \in Int /\ Source(t) <= Source(t)'
  BY <1>1, CloudAssumption DEF WindowInv, TypeOK, Source, Topics
<1>4. TypeOK'
  BY <1>1, <1>2, CloudAssumption DEF WindowInv, TypeOK
<1>5. TopicsAreInOrder'
  <2> SUFFICES ASSUME NEW t \in Topics
               PROVE  /\ halves'[t] <= Source(t)' /\ queue'[t] <= Source(t)'
                      /\ queue'[t] # NoMessage => halves'[t] < queue'[t]
    BY DEF TopicsAreInOrder
  <2>1. halves[t] \in Int /\ queue[t] \in Int /\ halves'[t] = halves[t]
    BY <1>2, CloudAssumption DEF WindowInv, TypeOK
  <2>2. /\ halves[t] <= Source(t) /\ queue[t] <= Source(t)
        /\ queue[t] # NoMessage => halves[t] < queue[t]
    BY DEF WindowInv, TopicsAreInOrder
  <2> QED
    BY <1>1, <1>3, <2>1, <2>2
<1>6. WindowIsOver'
  <2> SUFFICES ASSUME NEW m \in 1..Len(frames), NEW t \in Topics
               PROVE  /\ frames[m] <= Source(t)'
                      /\ halves[t] # NoMessage => frames[m] < halves[t]
                      /\ queue'[t] # NoMessage => frames[m] < queue'[t]
    BY <1>2 DEF WindowIsOver
  <2>1. frames[m] \in Int /\ queue[t] \in Int
    BY CloudAssumption DEF WindowInv, TypeOK, Stamps
  <2>2. /\ frames[m] <= Source(t)
        /\ halves[t] # NoMessage => frames[m] < halves[t]
        /\ queue[t] # NoMessage => frames[m] < queue[t]
    BY DEF WindowInv, WindowIsOver
  <2> QED
    BY <1>1, <1>3, <2>1, <2>2
<1>7. WindowIsInOrder' /\ FramesAreInOrder'
  BY <1>2 DEF WindowInv, WindowIsInOrder, FramesAreInOrder
<1> QED
  BY <1>4, <1>5, <1>6, <1>7 DEF WindowInv

\* A message: it is younger than the window, and so is whatever comes after it.
LEMMA MessageKeeps ==
  ASSUME WindowInv, NEW topic \in Topics, OnMessage(topic)
  PROVE  WindowInv'
<1> DEFINE stamp == queue[topic]
           latest == [halves EXCEPT ![topic] = stamp]
<1>1. /\ stamp # NoMessage /\ stamp \in Stamps
      /\ queue' = [queue EXCEPT ![topic] = NoMessage]
      /\ UNCHANGED <<subscribed, run, collected, told, waited, outcome, used, preempt, shots,
                     posed>>
  BY CloudAssumption DEF OnMessage, goal, WindowInv, TypeOK, NoMessage, Stamps
<1>2. PICK pairing \in Pairings :
        IF \A t \in Topics : latest[t] = stamp THEN Pair(stamp, pairing)
        ELSE pairing = "unusable" /\ Keep(latest)
  BY DEF OnMessage
<1>3. latest \in [Topics -> 0..MaxShots] /\ queue' \in [Topics -> 0..MaxShots]
  BY CloudAssumption, <1>1 DEF WindowInv, TypeOK, NoMessage, Stamps
<1>4. \A t \in Topics : Source(t)' = Source(t) /\ Source(t) \in Int
  BY <1>1, CloudAssumption DEF Source, WindowInv, TypeOK
<1>5. /\ \A m \in 1..Len(frames) : frames[m] \in Int
      /\ \A t \in Topics : queue[t] \in Int /\ halves[t] \in Int /\ stamp \in Int
  BY CloudAssumption DEF WindowInv, TypeOK, Stamps
<1>6. \A m \in 1..Len(frames) : frames[m] < stamp
  BY <1>1 DEF WindowInv, WindowIsOver
<1>7. FramesAreInOrder'
  BY <1>1 DEF WindowInv, FramesAreInOrder
<1>8. CASE \A t \in Topics : latest[t] = stamp
  <2>1. Pair(stamp, pairing)
    BY <1>2, <1>8
  <2>2. /\ \A t \in Topics : halves'[t] = NoMessage
        /\ halves' \in [Topics -> 0..MaxShots] /\ problem' \in Problems /\ poseless' \in Nat
    BY <2>1, CloudAssumption DEF Pair, WindowInv, TypeOK, NoMessage, Pairings, Problems
  <2>3. /\ frames' \in Seq(Stamps) /\ Len(frames') <= FramesToCollect
        /\ \A m \in 1..Len(frames') : frames'[m] <= stamp
        /\ WindowIsInOrder'
    <3>1. CASE pairing = "usable"
      <4>1. frames' = Trimmed(Append(frames, stamp))
        BY <2>1, <3>1 DEF Pair
      <4> HIDE DEF stamp
      <4> QED
        BY <1>1, <1>6, <4>1, TrimmedKeepsOrder DEF WindowInv, TypeOK, WindowIsInOrder
    <3>2. CASE pairing # "usable"
      <4>1. frames' = frames
        BY <2>1, <3>2 DEF Pair
      <4> QED
        BY <1>5, <1>6, <4>1 DEF WindowInv, TypeOK, WindowIsInOrder
    <3> QED
      BY <3>1, <3>2
  <2>4. \A t \in Topics : stamp <= Source(t) /\ (queue'[t] # NoMessage => stamp < queue'[t])
    <3> SUFFICES ASSUME NEW t \in Topics
                 PROVE  stamp <= Source(t) /\ (queue'[t] # NoMessage => stamp < queue'[t])
      OBVIOUS
    <3>1. CASE t = topic
      BY <1>1, <3>1 DEF WindowInv, TypeOK, TopicsAreInOrder
    <3>2. CASE t # topic
      <4>1. halves[t] = stamp /\ queue'[t] = queue[t]
        BY <1>1, <1>8, <3>2 DEF WindowInv, TypeOK
      <4> QED
        BY <4>1 DEF WindowInv, TopicsAreInOrder
    <3> QED
      BY <3>1, <3>2
  <2>5. TypeOK'
    BY <1>1, <1>3, <2>2, <2>3 DEF WindowInv, TypeOK
  <2>6. TopicsAreInOrder'
    BY <1>3, <1>4, <1>5, <1>1, <2>2, <2>4, CloudAssumption
    DEF WindowInv, TopicsAreInOrder, NoMessage, Stamps, TypeOK
  <2>7. WindowIsOver'
    <3>1. \A m \in 1..Len(frames') : frames'[m] \in Int
      BY <2>3, CloudAssumption DEF Stamps
    <3>2. \A t \in Topics : queue'[t] \in Int
      BY <1>3
    <3> HIDE DEF stamp
    <3> QED
      BY <1>1, <1>4, <1>5, <2>2, <2>3, <2>4, <3>1, <3>2 DEF WindowIsOver
  <2> QED
    BY <1>7, <2>3, <2>5, <2>6, <2>7 DEF WindowInv
<1>9. CASE ~(\A t \in Topics : latest[t] = stamp)
  <2>1. halves' = latest /\ frames' = frames /\ poseless' = poseless /\ problem' \in Problems
    BY <1>2, <1>9 DEF Keep, WindowInv, TypeOK, Problems
  <2>2. \A t \in Topics : IF t = topic THEN halves'[t] = stamp /\ queue'[t] = NoMessage
                          ELSE halves'[t] = halves[t] /\ queue'[t] = queue[t]
    BY <1>1, <2>1 DEF WindowInv, TypeOK
  <2>3. TypeOK'
    BY <1>1, <1>3, <2>1 DEF WindowInv, TypeOK
  <2>4. TopicsAreInOrder'
    <3> SUFFICES ASSUME NEW t \in Topics
                 PROVE  /\ halves'[t] <= Source(t)' /\ queue'[t] <= Source(t)'
                        /\ queue'[t] # NoMessage => halves'[t] < queue'[t]
      BY DEF TopicsAreInOrder
    <3>1. /\ halves[t] <= Source(t) /\ queue[t] <= Source(t) /\ 0 <= Source(t)
          /\ queue[t] # NoMessage => halves[t] < queue[t]
      BY CloudAssumption DEF WindowInv, TopicsAreInOrder, TypeOK, Source
    <3> QED
      BY <1>4, <2>2, <3>1 DEF NoMessage
  <2>5. WindowIsOver'
    BY <1>1, <1>4, <1>6, <2>1, <2>2 DEF WindowInv, WindowIsOver
  <2>6. WindowIsInOrder'
    BY <2>1 DEF WindowInv, WindowIsInOrder
  <2> QED
    BY <1>7, <2>3, <2>4, <2>5, <2>6 DEF WindowInv
<1> QED
  BY <1>8, <1>9

\* A goal begins with an empty window, whatever the halves at hand are.
LEMMA GoalKeeps ==
  ASSUME WindowInv, OnCollect
  PROVE  WindowInv'
<1>1. /\ frames' = <<>> /\ used' = <<>> /\ outcome' = "none"
      /\ UNCHANGED <<halves, shots, posed, queue>>
  BY DEF OnCollect, Cleared, world
<1>2. TypeOK'
  <2>1. subscribed' \in BOOLEAN /\ preempt' \in BOOLEAN
    BY DEF OnCollect
  <2>2. /\ frames' \in Seq(Stamps) /\ used' \in Seq(Stamps) /\ Len(frames') = 0 /\ Len(used') = 0
    BY <1>1
  <2>3. /\ problem' = "none" /\ told' = "none" /\ poseless' = 0 /\ collected' = 0
        /\ waited' = 0 /\ run' = "collecting"
    BY DEF OnCollect, Cleared
  <2> QED
    BY <1>1, <2>1, <2>2, <2>3, CloudAssumption DEF WindowInv, TypeOK, Problems
<1>3. TopicsAreInOrder'
  BY <1>1 DEF WindowInv, TopicsAreInOrder, Source
<1>4. WindowIsOver' /\ WindowIsInOrder' /\ FramesAreInOrder'
  BY <1>1 DEF WindowIsOver, WindowIsInOrder, FramesAreInOrder
<1> QED
  BY <1>2, <1>3, <1>4 DEF WindowInv

\* What is not the frames of a collect stays in order when none of it changes.
LEMMA OrderRests ==
  ASSUME WindowInv, UNCHANGED <<halves, frames, shots, posed, queue>>
  PROVE  TopicsAreInOrder' /\ WindowIsOver' /\ WindowIsInOrder'
BY DEF WindowInv, TopicsAreInOrder, WindowIsOver, WindowIsInOrder, Source

\* The end of the window is what a collect uses.
LEMMA LookKeeps ==
  ASSUME WindowInv, Look
  PROVE  WindowInv'
<1>1. /\ collected' = Len(frames) /\ told' = problem
      /\ UNCHANGED <<subscribed, halves, frames, problem, poseless, waited, preempt,
                     shots, posed, queue>>
  BY DEF Look, buffer, world
<1>2. /\ run' \in {"idle", "judging"}
      /\ outcome' \in {outcome, "cloud"}
      /\ used' \in Seq(Stamps) /\ Len(used') \in {0, Needed}
      /\ FramesAreInOrder'
  <2>1. CASE Len(frames) >= Needed
    <3>1. /\ run' = "idle" /\ outcome' = "cloud"
          /\ used' = SubSeq(frames, Len(frames) - Needed + 1, Len(frames))
      BY <2>1 DEF Look, Finish
    <3>2. /\ used' \in Seq(Stamps) /\ Len(used') = Needed
          /\ \A m, n \in 1..Len(used') : m < n => used'[m] < used'[n]
      <4>1. frames \in Seq(Stamps) /\ Needed <= Len(frames)
        BY <2>1, CloudAssumption DEF WindowInv, TypeOK
      <4>2. \A m, n \in 1..Len(frames) : m < n => frames[m] < frames[n]
        BY DEF WindowInv, WindowIsInOrder
      <4> QED
        BY <3>1, <4>1, <4>2, EndKeepsOrder
    <3> QED
      BY <3>1, <3>2 DEF FramesAreInOrder
  <2>2. CASE ~(Len(frames) >= Needed)
    BY <2>2 DEF Look, WindowInv, TypeOK, FramesAreInOrder
  <2> QED
    BY <2>1, <2>2
<1>3. TypeOK'
  BY <1>1, <1>2, CloudAssumption DEF WindowInv, TypeOK
<1> QED
  BY <1>1, <1>2, <1>3, OrderRests DEF WindowInv

\* Everything else leaves the window alone.
LEMMA RestKeeps ==
  ASSUME WindowInv, Cancel \/ Judge \/ Elapse \/ UNCHANGED vars
  PROVE  WindowInv'
<1>1. /\ UNCHANGED <<subscribed, halves, frames, problem, poseless, collected, told, used,
                     shots, posed, queue>>
      /\ run' \in {run, "idle", "collecting"}
      /\ outcome' \in {outcome, "preempted", "empty", "failed"}
      /\ waited' = waited \/ (waited <= FrameTimeout /\ waited' = waited + 1)
  <2>1. CASE Cancel
    BY <2>1 DEF Cancel, buffer, goal, world
  <2>2. CASE Judge
    BY <2>2 DEF Judge, Finish, buffer, world
  <2>3. CASE Elapse
    BY <2>3 DEF Elapse, buffer, world
  <2>4. CASE UNCHANGED vars
    BY <2>4 DEF vars, buffer, goal, world
  <2> QED
    BY <2>1, <2>2, <2>3, <2>4
<1>2. TypeOK'
  <2>1. preempt' \in BOOLEAN
    BY Zenon DEF Cancel, Judge, Elapse, vars, WindowInv, TypeOK
  <2> QED
    BY <1>1, <2>1, CloudAssumption DEF WindowInv, TypeOK
<1>3. FramesAreInOrder'
  BY <1>1 DEF WindowInv, FramesAreInOrder
<1> QED
  BY <1>1, <1>2, <1>3, OrderRests DEF WindowInv

\* Type correctness and the order of frames are inductive together with the order of what is
\* still to be paired.
THEOREM WindowHolds == Spec => []WindowInv
<1>1. WindowInv /\ [Next]_vars => WindowInv'
  BY PublishersKeep, MessageKeeps, GoalKeeps, LookKeeps, RestKeeps DEF Next
<1> QED
  BY <1>1, WindowInvInit, PTL DEF Spec

\* The node's window, pending halves and answer keep their types, for any size of window and
\* whatever comes on the two topics.
THEOREM TypesHold == Spec => []TypeOK
<1>1. WindowInv => TypeOK
  BY DEF WindowInv
<1> QED
  BY <1>1, WindowHolds, PTL

\* A window has as many different shots as it needs, in the order they were taken, for any
\* size of window and whatever comes on the two topics in whatever order.
THEOREM FramesStayInOrder == Spec => []FramesAreInOrder
<1>1. WindowInv => FramesAreInOrder
  BY DEF WindowInv
<1> QED
  BY <1>1, WindowHolds, PTL

-------------------------------------------------------------------------------
\* A set of positions that is not empty has a last one.
LEMMA MaxIsLast ==
  ASSUME NEW n \in Nat, NEW S, S \subseteq 1..n, S # {}
  PROVE  Max(S) \in S /\ \A y \in S : y <= Max(S)
<1> DEFINE From(x) == {y \in S : x <= y}
           Tails == {From(x) : x \in S}
<1>1. IsFiniteSet(1..n)
  BY FS_Interval
<1>2. Tails \subseteq FiniteSubsetsOf(1..n) /\ Tails # {}
  <2>1. \A x \in S : From(x) \in SUBSET (1..n)
    OBVIOUS
  <2>2. FiniteSubsetsOf(1..n) = SUBSET (1..n)
    BY <1>1, FS_FiniteSubsetsOfFinite
  <2>3. Tails # {}
    OBVIOUS
  <2>4. \A T \in Tails : T \in SUBSET (1..n)
    BY <2>1
  <2> HIDE DEF Tails
  <2> QED BY <2>2, <2>3, <2>4
<1>3. PICK T \in Tails : \A y \in Tails : ~(<<y, T>> \in StrictSubsetOrdering(1..n))
  <2>1. IsWellFoundedOn(StrictSubsetOrdering(1..n), FiniteSubsetsOf(1..n))
    BY FS_StrictSubsetOrderingWellFounded
  <2> HIDE DEF Tails
  <2> QED BY <1>2, <2>1, WFMin
<1>4. PICK x \in S : T = From(x)
  OBVIOUS
<1>5. ASSUME NEW y \in S, ~(y <= x) PROVE FALSE
  <2>1. \A z \in S : z \in Int
    OBVIOUS
  <2>2. From(y) \subseteq From(x)
    <3> SUFFICES ASSUME NEW z \in S, y <= z PROVE x <= z
      OBVIOUS
    <3> QED BY <1>5, <2>1
  <2>4. x \in From(x) /\ x \notin From(y)
    BY <1>5, <2>1
  <2>3. <<From(y), From(x)>> \in StrictSubsetOrdering(1..n)
    BY <2>2, <2>4 DEF StrictSubsetOrdering
  <2> QED BY <1>3, <1>4, <2>3
<1>6. \A y \in S : x >= y
  BY <1>5
<1> QED BY <1>6 DEF Max

\* The messages a topic can bring.
Messages == [topic : Topics, stamp : Stamps, pairing : Pairings]

\* The half that was at hand came before.
LEMMA PartnerCameBefore ==
  ASSUME NEW i \in Nat \ {0}
  PROVE  LET Others == {k \in 1..(i - 1) : heard[k].topic # heard[i].topic}
         IN  /\ Others = {} => Partner(i) = 0
             /\ Others # {} => /\ Partner(i) \in Others
                               /\ \A k \in Others : k <= Partner(i)
<1> DEFINE Others == {k \in 1..(i - 1) : heard[k].topic # heard[i].topic}
<1>1. Others # {} => Max(Others) \in Others /\ \A k \in Others : k <= Max(Others)
  <2>1. i - 1 \in Nat /\ Others \subseteq 1..(i - 1)
    OBVIOUS
  <2> HIDE DEF Others
  <2> QED BY <2>1, MaxIsLast
<1> QED BY <1>1 DEF Partner

\* Another message changes nothing of what came before it.
LEMMA HeardGrows ==
  ASSUME heard \in Seq(Messages), NEW x \in Messages, heard' = Append(heard, x)
  PROVE  /\ heard' \in Seq(Messages) /\ Len(heard') = Len(heard) + 1
         /\ heard'[Len(heard) + 1] = x
         /\ \A i \in 1..Len(heard) : /\ heard'[i] = heard[i] /\ Partner(i)' = Partner(i)
                                     /\ Pairs(i)' <=> Pairs(i)
                                     /\ Misses(i)' <=> Misses(i)
<1>1. /\ heard' \in Seq(Messages) /\ Len(heard') = Len(heard) + 1 /\ Len(heard) \in Nat
      /\ heard'[Len(heard) + 1] = x
      /\ \A i \in 1..Len(heard) : heard'[i] = heard[i]
  OBVIOUS
<1>2. ASSUME NEW i \in 1..Len(heard)
      PROVE  /\ Partner(i)' = Partner(i) /\ Partner(i) \in 0..(i - 1)
             /\ Pairs(i)' <=> Pairs(i)
  <2>1. {k \in 1..(i - 1) : heard[k].topic # heard[i].topic}
          = {k \in 1..(i - 1) : heard'[k].topic # heard'[i].topic}
    BY <1>1
  <2>2. Partner(i)' = Partner(i)
    BY <2>1 DEF Partner
  <2>3. Partner(i) \in 0..(i - 1)
    BY <1>1, PartnerCameBefore
  <2>4. Partner(i) # 0 => heard'[Partner(i)] = heard[Partner(i)]
    BY <1>1, <2>3
  <2> QED BY <1>1, <2>2, <2>3, <2>4 DEF Pairs
<1>3. ASSUME NEW i \in 1..Len(heard) PROVE Misses(i)' <=> Misses(i)
  <2>1. ASSUME Partner(i) # 0, NEW k \in Partner(i)..(i - 1) PROVE Pairs(k)' <=> Pairs(k)
    <3>1. k \in 1..Len(heard)
      BY <1>1, <1>2, <2>1
    <3> QED BY <1>2, <3>1
  <2> QED BY <1>2, <2>1 DEF Misses
<1> QED BY <1>1, <1>2, <1>3

-------------------------------------------------------------------------------
\* The messages of a topic, and the topic of the other half.
On(t) == {k \in 1..Len(heard) : heard[k].topic = t}
Other(t) == IF t = "cloud" THEN "poses" ELSE "cloud"

\* The messages of a topic come in the order of their shots, and what waits is younger.
HeardInOrder ==
  /\ \A m, n \in 1..Len(heard) :
       m < n /\ heard[m].topic = heard[n].topic => heard[m].stamp < heard[n].stamp
  /\ \A t \in Topics : \A m \in On(t) :
       heard[m].stamp <= Source(t) /\ (queue[t] # NoMessage => heard[m].stamp < queue[t])

\* The half at hand is the last message of its topic, unless a pair was made since.
HalvesAreLast ==
  \A t \in Topics :
    /\ halves[t] # NoMessage <=> /\ On(t) # {}
                                 /\ \A j \in Max(On(t))..Len(heard) : ~Pairs(j)
    /\ halves[t] # NoMessage => halves[t] = heard[Max(On(t))].stamp

\* What the order of the messages and the halves at hand have to do with each other.
HeardInv == heard \in Seq(Messages) /\ HeardInOrder /\ HalvesAreLast

\* The last message of a topic that had one.
LEMMA LastOnTopic ==
  ASSUME heard \in Seq(Messages), NEW t, On(t) # {}
  PROVE  /\ Max(On(t)) \in 1..Len(heard) /\ heard[Max(On(t))].topic = t
         /\ \A k \in On(t) : k <= Max(On(t))
<1>1. Len(heard) \in Nat /\ On(t) \subseteq 1..Len(heard)
  BY DEF On
<1>2. Max(On(t)) \in On(t) /\ \A k \in On(t) : k <= Max(On(t))
  BY <1>1, MaxIsLast
<1> QED BY <1>2 DEF On

\* What a message holds.
LEMMA MessageFields ==
  ASSUME heard \in Seq(Messages), NEW k \in 1..Len(heard)
  PROVE  /\ heard[k] \in Messages /\ heard[k].topic \in Topics
         /\ heard[k].stamp \in Int /\ heard[k].stamp \in Stamps
         /\ heard[k].topic # "cloud" => heard[k].topic = "poses"
<1>1. heard[k] \in Messages
  OBVIOUS
<1> QED BY <1>1, CloudAssumption DEF Messages, Topics, Stamps

\* A pair made since the last message of a topic has used that message's shot up.
LEMMA PairedShotIsOver ==
  ASSUME heard \in Seq(Messages), NEW t \in Topics, On(Other(t)) # {},
         NEW j \in Max(On(Other(t)))..Len(heard), Pairs(j)
  PROVE  \E m \in On(t) : heard[m].stamp = heard[Max(On(Other(t)))].stamp
<1> DEFINE o == Other(t)
           k == Max(On(o))
<1>1. /\ k \in 1..Len(heard) /\ heard[k].topic = o
      /\ \A i \in On(o) : i <= k
  BY LastOnTopic
<1>2. o # t /\ \A i \in 1..Len(heard) : heard[i].topic # o <=> heard[i].topic = t
  <2>1. \A i \in 1..Len(heard) : heard[i].topic \in Topics
    BY MessageFields
  <2> QED BY <2>1 DEF Other, Topics
<1>3. j \in 1..Len(heard) /\ j \in Nat \ {0}
  BY <1>1
<1>4. /\ Partner(j) \in 1..(j - 1) /\ heard[Partner(j)].topic # heard[j].topic
      /\ \A i \in 1..(j - 1) : heard[i].topic # heard[j].topic => i <= Partner(j)
      /\ heard[Partner(j)].stamp = heard[j].stamp
  <2>1. Partner(j) # 0 /\ heard[Partner(j)].stamp = heard[j].stamp
    BY DEF Pairs
  <2> QED BY <1>3, <2>1, PartnerCameBefore
<1>5. CASE j = k
  <2>1. heard[Partner(j)].topic = t /\ Partner(j) \in 1..Len(heard)
    BY <1>1, <1>2, <1>3, <1>4, <1>5
  <2> QED BY <1>4, <1>5, <2>1 DEF On
<1>6. CASE j # k
  <2>1. heard[j].topic = t
    BY <1>1, <1>2, <1>3, <1>6 DEF On
  <2>2. Partner(j) <= k
    BY <1>1, <1>2, <1>3, <1>4, <2>1 DEF On
  <2>3. k <= Partner(j)
    BY <1>1, <1>2, <1>3, <1>4, <1>6, <2>1
  <2>4. Partner(j) = k
    BY <1>1, <1>4, <2>2, <2>3
  <2> QED BY <1>3, <1>4, <2>1, <2>4 DEF On
<1> QED BY <1>5, <1>6

\* pairLatest sees what the messages tell: a pair when the last two match, a miss when they
\* do not and neither was used.
LEMMA HalvesTellPairs ==
  ASSUME WindowInv, HeardInv, NEW t \in Topics, NEW s \in Stamps,
         \A m \in On(t) : heard[m].stamp < s,
         NEW pairing \in Pairings, NEW n \in Nat, n = Len(heard) + 1,
         heard' = Append(heard, [topic |-> t, stamp |-> s, pairing |-> pairing])
  PROVE  /\ Pairs(n)' <=> halves[Other(t)] = s
         /\ Misses(n)' <=> halves[Other(t)] \notin {NoMessage, s}
<1> DEFINE o == Other(t)
           k == Max(On(o))
           x == [topic |-> t, stamp |-> s, pairing |-> pairing]
<1>1. /\ heard \in Seq(Messages) /\ x \in Messages /\ Len(heard) \in Nat
  BY DEF HeardInv, Messages
<1>2. /\ heard' \in Seq(Messages) /\ Len(heard') = n /\ heard'[n] = x
      /\ \A i \in 1..Len(heard) : heard'[i] = heard[i] /\ (Pairs(i)' <=> Pairs(i))
  BY <1>1, HeardGrows
<1>3. {i \in 1..(n - 1) : heard'[i].topic # heard'[n].topic} = On(o)
  <2>1. n - 1 = Len(heard)
    BY <1>1
  <2>2. ASSUME NEW i \in 1..Len(heard)
        PROVE  heard'[i].topic # heard'[n].topic <=> heard[i].topic = o
    <3>1. heard[i].topic \in Topics
      BY <1>1, MessageFields
    <3> QED BY <1>2, <3>1 DEF Other, Topics
  <2> QED BY <2>1, <2>2 DEF On
<1>4. Partner(n)' = IF On(o) = {} THEN 0 ELSE k
  BY <1>3 DEF Partner
<1>5. o \in Topics /\ s # NoMessage /\ s \in Int /\ halves[o] \in Int
  BY CloudAssumption DEF Other, Topics, Stamps, NoMessage, WindowInv, TypeOK
<1>6. CASE On(o) = {}
  <2>1. ~Pairs(n)' /\ ~Misses(n)'
    BY <1>4, <1>6 DEF Pairs, Misses
  <2>2. halves[o] = NoMessage
    BY <1>5, <1>6 DEF HeardInv, HalvesAreLast
  <2> QED BY <1>5, <2>1, <2>2
<1>7. CASE On(o) # {}
  <2>1. k \in 1..Len(heard) /\ k # 0
    BY <1>1, <1>7, LastOnTopic
  <2>2. Pairs(n)' <=> heard[k].stamp = s
    BY <1>2, <1>4, <1>7, <2>1 DEF Pairs
  <2>3. Misses(n)' <=> heard[k].stamp # s /\ \A j \in k..Len(heard) : ~Pairs(j)
    <3>1. Misses(n)' <=> ~Pairs(n)' /\ \A j \in k..(n - 1) : ~Pairs(j)'
      BY <1>4, <1>7, <2>1 DEF Misses
    <3>2. \A j \in k..(n - 1) : j \in 1..Len(heard)
      BY <1>1, <2>1
    <3>3. k..(n - 1) = k..Len(heard)
      BY <1>1
    <3> QED BY <1>2, <2>2, <3>1, <3>2, <3>3
  <2>4. CASE \A j \in k..Len(heard) : ~Pairs(j)
    <3>1. halves[o] # NoMessage /\ halves[o] = heard[k].stamp
      BY <1>5, <1>7, <2>4 DEF HeardInv, HalvesAreLast
    <3> QED BY <2>2, <2>3, <2>4, <3>1
  <2>5. CASE ~(\A j \in k..Len(heard) : ~Pairs(j))
    <3>1. halves[o] = NoMessage
      BY <1>5, <2>5 DEF HeardInv, HalvesAreLast
    <3>2. PICK m \in On(t) : heard[m].stamp = heard[k].stamp
      BY <1>1, <1>7, <2>5, PairedShotIsOver
    <3>3. heard[k].stamp < s /\ heard[k].stamp \in Int
      BY <1>1, <2>1, <3>2, MessageFields
    <3>4. heard[k].stamp # s
      BY <1>5, <3>3
    <3> QED BY <1>5, <2>2, <2>3, <2>5, <3>1, <3>4
  <2> QED BY <2>4, <2>5
<1> QED BY <1>6, <1>7

\* onCloud, onGraspPoses: what pairLatest does, told from the half that was at hand.
LEMMA MessageIsHeard ==
  ASSUME WindowInv, HeardInv, NEW t \in Topics, OnMessage(t), NEW n \in Nat, n = Len(heard) + 1
  PROVE  \E s \in Stamps, pairing \in Pairings :
           /\ s = queue[t] /\ queue' = [queue EXCEPT ![t] = NoMessage]
           /\ \A m \in On(t) : heard[m].stamp < s
           /\ heard' = Append(heard, [topic |-> t, stamp |-> s, pairing |-> pairing])
           /\ [topic |-> t, stamp |-> s, pairing |-> pairing] \in Messages
           /\ Pairs(n)' <=> halves[Other(t)] = s
           /\ Misses(n)' <=> halves[Other(t)] \notin {NoMessage, s}
           /\ Pairs(n)' => Pair(s, pairing)
           /\ ~Pairs(n)' => /\ halves' = [halves EXCEPT ![t] = s]
                            /\ problem' = IF Misses(n)' THEN "unpaired" ELSE problem
                            /\ UNCHANGED <<frames, poseless>>
<1> DEFINE s == queue[t]
           latest == [halves EXCEPT ![t] = s]
<1>1. /\ s # NoMessage /\ s \in Stamps
      /\ queue' = [queue EXCEPT ![t] = NoMessage]
  BY CloudAssumption DEF OnMessage, WindowInv, TypeOK, NoMessage, Stamps
<1>2. PICK pairing \in Pairings :
        /\ IF \A u \in Topics : latest[u] = s THEN Pair(s, pairing)
           ELSE pairing = "unusable" /\ Keep(latest)
        /\ heard' = Append(heard, [topic |-> t, stamp |-> s, pairing |-> pairing])
  BY DEF OnMessage
<1>3. \A m \in On(t) : heard[m].stamp < s
  BY <1>1 DEF HeardInv, HeardInOrder, On
<1>4. /\ Pairs(n)' <=> halves[Other(t)] = s
      /\ Misses(n)' <=> halves[Other(t)] \notin {NoMessage, s}
  <2> HIDE DEF s
  <2> QED BY <1>1, <1>2, <1>3, HalvesTellPairs
<1>5. /\ latest[t] = s /\ latest[Other(t)] = halves[Other(t)]
      /\ \A u \in Topics : u = t \/ u = Other(t)
  BY DEF Other, Topics, WindowInv, TypeOK
<1>6. (\A u \in Topics : latest[u] = s) <=> halves[Other(t)] = s
  BY <1>5 DEF Other, Topics
<1>7. (\A u \in Topics : latest[u] # NoMessage) <=> halves[Other(t)] # NoMessage
  BY <1>1, <1>5 DEF Other, Topics
<1>8. ~Pairs(n)' => /\ halves' = latest
                    /\ problem' = IF Misses(n)' THEN "unpaired" ELSE problem
                    /\ UNCHANGED <<frames, poseless>>
  <2> SUFFICES ASSUME ~Pairs(n)'
               PROVE  /\ halves' = latest
                      /\ problem' = IF Misses(n)' THEN "unpaired" ELSE problem
                      /\ UNCHANGED <<frames, poseless>>
    OBVIOUS
  <2>1. Keep(latest)
    BY <1>2, <1>4, <1>6
  <2>2. Misses(n)' <=> halves[Other(t)] # NoMessage
    BY <1>4
  <2> HIDE DEF latest
  <2> QED BY <1>7, <2>1, <2>2 DEF Keep
<1>9. Pairs(n)' => Pair(s, pairing)
  BY <1>2, <1>4, <1>6
<1>10. [topic |-> t, stamp |-> s, pairing |-> pairing] \in Messages
  BY <1>1 DEF Messages
<1> QED BY <1>1, <1>2, <1>3, <1>4, <1>8, <1>9, <1>10

\* onCloud, onGraspPoses: the message is the newest of its topic, and the half at hand unless
\* it makes a pair.
LEMMA MessageKeepsHeard ==
  ASSUME WindowInv, HeardInv, NEW t \in Topics, OnMessage(t)
  PROVE  HeardInv'
<1>1. PICK n \in Nat : n = Len(heard) + 1
  BY DEF HeardInv
<1>2. PICK s \in Stamps, pairing \in Pairings :
        /\ s = queue[t] /\ queue' = [queue EXCEPT ![t] = NoMessage]
        /\ \A m \in On(t) : heard[m].stamp < s
        /\ heard' = Append(heard, [topic |-> t, stamp |-> s, pairing |-> pairing])
        /\ [topic |-> t, stamp |-> s, pairing |-> pairing] \in Messages
        /\ Pairs(n)' <=> halves[Other(t)] = s
        /\ Pairs(n)' => Pair(s, pairing)
        /\ ~Pairs(n)' => halves' = [halves EXCEPT ![t] = s]
  BY <1>1, MessageIsHeard
<1>3. /\ heard \in Seq(Messages) /\ heard' \in Seq(Messages)
      /\ Len(heard) \in Nat /\ Len(heard') = n /\ n = Len(heard) + 1
      /\ heard'[n].topic = t /\ heard'[n].stamp = s
      /\ \A i \in 1..Len(heard) : heard'[i] = heard[i] /\ (Pairs(i)' <=> Pairs(i))
  BY <1>1, <1>2, HeardGrows DEF HeardInv
<1>4. /\ \A u : Source(u)' = Source(u)
      /\ queue'[t] = NoMessage /\ \A u \in Topics : u # t => queue'[u] = queue[u]
      /\ s <= Source(t)
  BY <1>2 DEF Source, OnMessage, WindowInv, TypeOK, TopicsAreInOrder
<1>5. HeardInOrder'
  <2>1. ASSUME NEW a \in 1..n, NEW b \in 1..n, a < b, heard'[a].topic = heard'[b].topic
        PROVE  heard'[a].stamp < heard'[b].stamp
    <3>1. a \in 1..Len(heard) /\ heard'[a] = heard[a]
      BY <1>3, <2>1
    <3>2. CASE b = n
      BY <1>2, <1>3, <2>1, <3>1, <3>2 DEF On
    <3>3. CASE b # n
      <4>1. b \in 1..Len(heard) /\ heard'[b] = heard[b]
        BY <1>3, <3>3
      <4> QED BY <2>1, <3>1, <4>1 DEF HeardInv, HeardInOrder
    <3> QED BY <3>2, <3>3
  <2>2. ASSUME NEW u \in Topics, NEW a \in 1..n, heard'[a].topic = u
        PROVE  /\ heard'[a].stamp <= Source(u)'
               /\ queue'[u] # NoMessage => heard'[a].stamp < queue'[u]
    <3>1. CASE a = n
      BY <1>3, <1>4, <2>2, <3>1
    <3>2. CASE a # n
      <4>1. a \in 1..Len(heard) /\ heard'[a] = heard[a]
        BY <1>3, <3>2
      <4>2. a \in On(u)
        BY <2>2, <4>1 DEF On
      <4>3. /\ heard[a].stamp <= Source(u)
            /\ queue[u] # NoMessage => heard[a].stamp < queue[u]
        BY <4>2 DEF HeardInv, HeardInOrder
      <4> QED BY <1>4, <4>1, <4>3
    <3> QED BY <3>1, <3>2
  <2> QED BY <1>3, <2>1, <2>2 DEF HeardInOrder, On
<1>6. HalvesAreLast'
  <2>1. On(t)' = On(t) \cup {n} /\ \A u : u # t => On(u)' = On(u)
    BY <1>3 DEF On
  <2>2. On(t)' # {} /\ Max(On(t)') = n
    <3>1. Max(On(t)') \in 1..n /\ \A k \in On(t)' : k <= Max(On(t)')
      <4>1. On(t)' \subseteq 1..n /\ On(t)' # {}
        BY <1>3, <2>1 DEF On
      <4> HIDE DEF On
      <4> QED BY <4>1, MaxIsLast
    <3> QED BY <2>1, <3>1
  <2> SUFFICES ASSUME NEW u \in Topics
               PROVE  /\ halves'[u] # NoMessage <=> /\ On(u)' # {}
                                                    /\ \A j \in Max(On(u)')..n : ~Pairs(j)'
                      /\ halves'[u] # NoMessage => halves'[u] = heard'[Max(On(u)')].stamp
    BY <1>3 DEF HalvesAreLast
  <2>3. CASE Pairs(n)'
    <3>1. halves'[u] = NoMessage
      BY <1>2, <2>3 DEF Pair
    <3>2. On(u)' # {} => Max(On(u)') <= n /\ Max(On(u)') \in Int
      <4> SUFFICES ASSUME On(u)' # {} PROVE Max(On(u)') \in 1..n
        OBVIOUS
      <4>1. On(u)' \subseteq 1..n
        BY <1>3 DEF On
      <4> QED BY <4>1, MaxIsLast
    <3> QED BY <2>3, <3>1, <3>2
  <2>4. CASE ~Pairs(n)'
    <3>1. halves' = [halves EXCEPT ![t] = s] /\ s # NoMessage
      BY <1>2, <2>4, CloudAssumption DEF Stamps, NoMessage
    <3>2. CASE u = t
      <4>1. halves'[u] = s
        BY <3>1, <3>2 DEF WindowInv, TypeOK
      <4> QED BY <1>3, <2>2, <2>4, <3>1, <3>2, <4>1
    <3>3. CASE u # t
      <4>1. halves'[u] = halves[u] /\ On(u)' = On(u)
        BY <2>1, <3>1, <3>3 DEF WindowInv, TypeOK
      <4>2. On(u) # {} => /\ Max(On(u)) \in 1..Len(heard)
                          /\ heard'[Max(On(u))] = heard[Max(On(u))]
        BY <1>3, LastOnTopic
      <4>3. On(u) # {} => ((\A j \in Max(On(u))..n : ~Pairs(j)')
                             <=> \A j \in Max(On(u))..Len(heard) : ~Pairs(j))
        <5> SUFFICES ASSUME On(u) # {}
                     PROVE  (\A j \in Max(On(u))..n : ~Pairs(j)')
                              <=> \A j \in Max(On(u))..Len(heard) : ~Pairs(j)
          OBVIOUS
        <5>1. Max(On(u)) \in 1..Len(heard)
          BY <4>2
        <5>2. ASSUME NEW j \in Max(On(u))..Len(heard)
              PROVE  j \in Max(On(u))..n /\ (Pairs(j)' <=> Pairs(j))
          BY <1>3, <5>1
        <5>3. \A j \in Max(On(u))..n : j = n \/ j \in Max(On(u))..Len(heard)
          BY <1>3, <5>1
        <5> QED BY <2>4, <5>2, <5>3
      <4> QED BY <4>1, <4>2, <4>3 DEF HeardInv, HalvesAreLast
    <3> QED BY <3>2, <3>3
  <2> QED BY <2>3, <2>4
<1> QED BY <1>3, <1>5, <1>6 DEF HeardInv

-------------------------------------------------------------------------------
\* The smaller number, and the positions after one.
Fewer(a, b) == IF a <= b THEN a ELSE b
Later(S, i) == {k \in S : k > i}

\* The window is the last usable pairs since the goal, as many as fit, in their order.
FramesAreLast ==
  LET usable == Came(mark, Len(heard), "usable")
  IN  /\ Len(frames) = Fewer(FramesToCollect, Cardinality(usable))
      /\ \A m \in 1..Len(frames) :
           \E i \in usable : /\ heard[i].stamp = frames[m]
                             /\ Cardinality(Later(usable, i)) = Len(frames) - m

\* poseless_ is counted up once a pair without poses has come.
PoselessCame == poseless > 0 <=> Came(mark, Len(heard), "poseless") # {}

\* The word for the last thing that went wrong, none when nothing did.
IsLastTrouble(word, first, last) ==
  /\ Troubles(first, last) = {} => word = "none"
  /\ \A i \in Troubles(first, last) :
       (\A j \in Troubles(first, last) : j <= i) => word = Trouble(i)

\* frame_problem_ tells of the last thing that went wrong since the goal.
ProblemIsLast == IsLastTrouble(problem, mark, Len(heard))

\* What the last look saw.
LookIsTrue ==
  /\ collected = Fewer(FramesToCollect, Cardinality(Came(mark, lookedAt, "usable")))
  /\ IsLastTrouble(told, mark, lookedAt)
  /\ run = "judging" => collected < Needed

\* The goal, its last look and its verdict are behind what was heard.
MarksInv == /\ mark \in 0..Len(heard) /\ lookedAt \in 0..Len(heard)
            /\ judgedAt \in 0..Len(heard)

\* What a verdict went by.  While a goal runs there is none.
EndInv ==
  /\ run # "idle" => outcome = "none"
  /\ outcome = "empty" =>
       collected = 0 /\ Came(mark, judgedAt, "poseless") # {}
  /\ outcome = "failed" =>
       collected < Needed /\ (collected = 0 => Came(mark, judgedAt, "poseless") = {})

\* What the window, the count and the words that went wrong are, told from the messages.
NewsInv == /\ MarksInv /\ FramesAreLast /\ PoselessCame /\ ProblemIsLast /\ LookIsTrue /\ EndInv
           /\ WindowIsNewest

\* Positions of a history are finitely many.
LEMMA FewPositions ==
  ASSUME NEW n \in Nat, NEW S, S \subseteq 1..n
  PROVE  /\ IsFiniteSet(S) /\ Cardinality(S) \in Nat /\ (Cardinality(S) = 0 <=> S = {})
         /\ \A i : IsFiniteSet(Later(S, i)) /\ Cardinality(Later(S, i)) \in Nat
<1>1. IsFiniteSet(1..n)
  BY FS_Interval
<1>2. ASSUME NEW T \in SUBSET (1..n)
      PROVE  IsFiniteSet(T) /\ Cardinality(T) \in Nat /\ (Cardinality(T) = 0 <=> T = {})
  BY <1>1, FS_Subset, FS_CardinalityType, FS_EmptySet
<1>3. \A i : Later(S, i) \in SUBSET (1..n)
  BY DEF Later
<1> QED BY <1>2, <1>3

\* One more position at the end is one more after each of those before.
LEMMA LaterGrows ==
  ASSUME NEW n \in Nat \ {0}, NEW S, S \subseteq 1..(n - 1)
  PROVE  /\ Cardinality(S \cup {n}) = Cardinality(S) + 1
         /\ Cardinality(Later(S \cup {n}, n)) = 0
         /\ \A i \in S : Cardinality(Later(S \cup {n}, i)) = Cardinality(Later(S, i)) + 1
<1>0. n - 1 \in Nat /\ n \notin S /\ \A i \in S : ~(i > n) /\ n > i
  OBVIOUS
<1>1. IsFiniteSet(S) /\ \A i : IsFiniteSet(Later(S, i))
  BY <1>0, FewPositions
<1>2. Cardinality(S \cup {n}) = Cardinality(S) + 1
  BY <1>0, <1>1, FS_AddElement
<1>3. Later(S \cup {n}, n) = {}
  <2>1. ~(n > n)
    OBVIOUS
  <2> QED BY <1>0, <2>1 DEF Later
<1>4. ASSUME NEW i \in S PROVE Cardinality(Later(S \cup {n}, i)) = Cardinality(Later(S, i)) + 1
  <2>1. Later(S \cup {n}, i) = Later(S, i) \cup {n} /\ n \notin Later(S, i)
    BY <1>0 DEF Later
  <2> QED BY <1>1, <2>1, FS_AddElement
<1> QED BY <1>2, <1>3, <1>4, FS_EmptySet

\* What came until now stays as it was when another message comes, which is one more of its kind.
LEMMA NewsGrow ==
  ASSUME heard \in Seq(Messages), MarksInv, NEW x \in Messages, heard' = Append(heard, x),
         UNCHANGED marks, NEW n \in Nat, n = Len(heard) + 1
  PROVE  /\ \A p : /\ Came(mark, Len(heard), p)' = Came(mark, Len(heard), p)
                        \cup (IF Pairs(n)' /\ x.pairing = p THEN {n} ELSE {})
                   /\ Came(mark, lookedAt, p)' = Came(mark, lookedAt, p)
                   /\ Came(mark, judgedAt, p)' = Came(mark, judgedAt, p)
         /\ Troubles(mark, Len(heard))' = Troubles(mark, Len(heard))
              \cup (IF Misses(n)' \/ (Pairs(n)' /\ x.pairing # "usable") THEN {n} ELSE {})
         /\ Troubles(mark, lookedAt)' = Troubles(mark, lookedAt)
         /\ \A i \in 1..Len(heard) : heard'[i] = heard[i] /\ Trouble(i)' = Trouble(i)
<1>1. /\ Len(heard') = n /\ heard'[n] = x /\ Len(heard) \in Nat
      /\ \A i \in 1..Len(heard) : /\ heard'[i] = heard[i]
                                  /\ Pairs(i)' <=> Pairs(i)
                                  /\ Misses(i)' <=> Misses(i)
  BY HeardGrows
<1>2. UNCHANGED <<mark, lookedAt, judgedAt>>
  BY DEF marks
<1>3. /\ \A i : i \in (mark + 1)..n <=> i = n \/ i \in (mark + 1)..Len(heard)
      /\ \A i \in (mark + 1)..Len(heard) : i \in 1..Len(heard)
      /\ \A i \in (mark + 1)..lookedAt : i \in 1..Len(heard)
      /\ \A i \in (mark + 1)..judgedAt : i \in 1..Len(heard)
  BY <1>1 DEF MarksInv
<1>4. ASSUME NEW p
      PROVE  /\ Came(mark, Len(heard), p)' = Came(mark, Len(heard), p)
                  \cup (IF Pairs(n)' /\ x.pairing = p THEN {n} ELSE {})
             /\ Came(mark, lookedAt, p)' = Came(mark, lookedAt, p)
             /\ Came(mark, judgedAt, p)' = Came(mark, judgedAt, p)
  BY <1>1, <1>2, <1>3 DEF Came, Between
<1>5. /\ Troubles(mark, Len(heard))' = Troubles(mark, Len(heard))
           \cup (IF Misses(n)' \/ (Pairs(n)' /\ x.pairing # "usable") THEN {n} ELSE {})
      /\ Troubles(mark, lookedAt)' = Troubles(mark, lookedAt)
  BY <1>1, <1>2, <1>3 DEF Troubles, Between
<1>6. \A i \in 1..Len(heard) : Trouble(i)' = Trouble(i)
  BY <1>1 DEF Trouble
<1> QED BY <1>1, <1>4, <1>5, <1>6

\* What came, and what went wrong, are positions of the history.
LEMMA CameAreMessages ==
  ASSUME heard \in Seq(Messages), MarksInv
  PROVE  /\ Len(heard) \in Nat
         /\ \A p : /\ Came(mark, Len(heard), p) \subseteq 1..Len(heard)
                   /\ Came(mark, lookedAt, p) \subseteq 1..Len(heard)
                   /\ Came(mark, judgedAt, p) \subseteq 1..Len(heard)
         /\ Troubles(mark, Len(heard)) \subseteq 1..Len(heard)
         /\ Troubles(mark, lookedAt) \subseteq 1..Len(heard)
<1>1. Len(heard) \in Nat
  OBVIOUS
<1>2. ASSUME NEW last \in 0..Len(heard) PROVE Between(mark, last) \subseteq 1..Len(heard)
  BY <1>1 DEF MarksInv, Between
<1> QED BY <1>1, <1>2 DEF Came, Troubles, MarksInv

\* Each shot of a window is that of a pair with as many pairs after it as shots come after.
LinesUp(window, S, stamps) ==
  \A m \in 1..Len(window) :
    \E i \in S : stamps[i] = window[m] /\ Cardinality(Later(S, i)) = Len(window) - m

\* A window and one more frame.
LEMMA LongerWindow ==
  ASSUME NEW window \in Seq(Stamps), NEW s \in Stamps
  PROVE  \E longer \in Seq(Stamps) :
           /\ longer = Append(window, s) /\ Len(longer) = Len(window) + 1
           /\ \A m \in 1..Len(longer) : longer[m] = IF m <= Len(window) THEN window[m] ELSE s
<1> DEFINE longer == Append(window, s)
<1>1. /\ longer \in Seq(Stamps) /\ Len(longer) = Len(window) + 1
      /\ \A m \in 1..Len(longer) : longer[m] = IF m <= Len(window) THEN window[m] ELSE s
  OBVIOUS
<1> HIDE DEF longer
<1> QED BY <1>1 DEF longer

\* A usable pair enters the window as the last of its shots, and a window that is full
\* loses its first.
LEMMA UsablePairEnters ==
  ASSUME NEW n \in Nat \ {0}, NEW S \in SUBSET (1..(n - 1)), NEW stamps, stamps[n] \in Stamps,
         NEW window \in Seq(Stamps), Len(window) = Fewer(FramesToCollect, Cardinality(S)),
         LinesUp(window, S, stamps),
         NEW next, next = Trimmed(Append(window, stamps[n])), NEW more, more = S \cup {n}
  PROVE  Len(next) = Fewer(FramesToCollect, Cardinality(more)) /\ LinesUp(next, more, stamps)
<1> DEFINE s == stamps[n]
<1>1. PICK longer \in Seq(Stamps) :
        /\ longer = Append(window, s) /\ Len(longer) = Len(window) + 1
        /\ \A m \in 1..Len(longer) : longer[m] = IF m <= Len(window) THEN window[m] ELSE s
  BY LongerWindow
<1>2. PICK c \in Nat :
        /\ c = Cardinality(S)
        /\ Cardinality(more) = c + 1 /\ Cardinality(Later(more, n)) = 0
        /\ \A i \in S : /\ Cardinality(Later(more, i)) = Cardinality(Later(S, i)) + 1
                        /\ Cardinality(Later(S, i)) \in Nat
  <2>1. n - 1 \in Nat
    OBVIOUS
  <2>2. Cardinality(S) \in Nat /\ \A i : Cardinality(Later(S, i)) \in Nat
    BY <2>1, FewPositions
  <2>3. /\ Cardinality(S \cup {n}) = Cardinality(S) + 1 /\ Cardinality(Later(S \cup {n}, n)) = 0
        /\ \A i \in S : Cardinality(Later(S \cup {n}, i)) = Cardinality(Later(S, i)) + 1
    BY LaterGrows
  <2> QED BY <2>2, <2>3
<1>3. /\ FramesToCollect \in Nat \ {0} /\ Len(window) \in Nat
      /\ Len(window) = Fewer(FramesToCollect, c)
  BY <1>2, CloudAssumption
\* The shot at place m of the longer window, counted from its end.
<1>4. ASSUME NEW m \in 1..Len(longer)
      PROVE  \E i \in more : stamps[i] = longer[m] /\ Cardinality(Later(more, i)) = Len(longer) - m
  <2>1. CASE m <= Len(window)
    <3>1. m \in 1..Len(window) /\ longer[m] = window[m]
      BY <1>1, <1>3, <2>1
    <3>2. PICK i \in S : stamps[i] = window[m] /\ Cardinality(Later(S, i)) = Len(window) - m
      BY <3>1 DEF LinesUp
    <3>3. Cardinality(Later(more, i)) = Cardinality(Later(S, i)) + 1 /\ i \in more
      BY <1>2
    <3>4. Cardinality(Later(more, i)) = Len(longer) - m
      BY <1>1, <1>3, <3>1, <3>2, <3>3
    <3> QED BY <3>1, <3>2, <3>3, <3>4
  <2>2. CASE ~(m <= Len(window))
    <3>1. m = Len(longer) /\ longer[m] = s /\ Len(longer) - m = 0
      BY <1>1, <1>3, <2>2
    <3> QED BY <1>2, <3>1
  <2> QED BY <2>1, <2>2
<1>5. CASE Len(longer) <= FramesToCollect
  <2>1. Trimmed(longer) = longer
    BY <1>1, <1>3, <1>5 DEF Trimmed
  <2>2. Len(longer) = Fewer(FramesToCollect, Cardinality(more))
    BY <1>1, <1>2, <1>3, <1>5 DEF Fewer
  <2>3. next = longer
    BY <1>1, <2>1
  <2> QED BY <1>4, <2>2, <2>3 DEF LinesUp
<1>6. CASE ~(Len(longer) <= FramesToCollect)
  <2>1. Trimmed(longer) = Tail(longer)
    BY <1>1, <1>3, <1>6 DEF Trimmed
  <2>2. /\ Len(Tail(longer)) = Len(window)
        /\ \A m \in 1..Len(window) : Tail(longer)[m] = longer[m + 1] /\ m + 1 \in 1..Len(longer)
    BY <1>1, <1>3
  <2>3. Len(window) = Fewer(FramesToCollect, Cardinality(more))
    BY <1>1, <1>2, <1>3, <1>6 DEF Fewer
  <2>4. ASSUME NEW m \in 1..Len(window)
        PROVE  \E i \in more : /\ stamps[i] = Tail(longer)[m]
                               /\ Cardinality(Later(more, i)) = Len(window) - m
    <3>1. m + 1 \in 1..Len(longer) /\ Tail(longer)[m] = longer[m + 1]
      BY <2>2
    <3>2. PICK i \in more : /\ stamps[i] = longer[m + 1]
                            /\ Cardinality(Later(more, i)) = Len(longer) - (m + 1)
      BY <1>4, <3>1
    <3>3. Len(longer) - (m + 1) = Len(window) - m
      BY <1>1, <1>3
    <3> QED BY <3>1, <3>2, <3>3
  <2>5. next = Tail(longer)
    BY <1>1, <2>1
  <2> QED BY <2>2, <2>3, <2>4, <2>5 DEF LinesUp
<1> QED BY <1>5, <1>6

\* onCloud, onGraspPoses: the window, the count and the word that went wrong take the
\* message up, and what was judged before stays true.
LEMMA MessageKeepsNews ==
  ASSUME WindowInv, HeardInv, NewsInv, NEW t \in Topics, OnMessage(t)
  PROVE  NewsInv'
<1>1. PICK n \in Nat : n = Len(heard) + 1
  BY DEF HeardInv
<1>2. PICK s \in Stamps, pairing \in Pairings :
        /\ s = queue[t] /\ queue' = [queue EXCEPT ![t] = NoMessage]
        /\ \A m \in On(t) : heard[m].stamp < s
        /\ heard' = Append(heard, [topic |-> t, stamp |-> s, pairing |-> pairing])
        /\ [topic |-> t, stamp |-> s, pairing |-> pairing] \in Messages
        /\ Pairs(n)' <=> halves[Other(t)] = s
        /\ Misses(n)' <=> halves[Other(t)] \notin {NoMessage, s}
        /\ Pairs(n)' => Pair(s, pairing)
        /\ ~Pairs(n)' => /\ halves' = [halves EXCEPT ![t] = s]
                         /\ problem' = IF Misses(n)' THEN "unpaired" ELSE problem
                         /\ UNCHANGED <<frames, poseless>>
  BY <1>1, MessageIsHeard
<1> DEFINE x == [topic |-> t, stamp |-> s, pairing |-> pairing]
           usable == Came(mark, Len(heard), "usable")
           troubles == Troubles(mark, Len(heard))
<1>3. /\ UNCHANGED marks /\ UNCHANGED <<mark, lookedAt, judgedAt>>
      /\ UNCHANGED <<run, collected, told, waited, outcome, used>>
  BY DEF OnMessage, goal, marks
<1>4. /\ heard \in Seq(Messages) /\ MarksInv /\ Len(heard) \in Nat /\ n \in Nat \ {0}
      /\ n = Len(heard) + 1 /\ n - 1 = Len(heard)
      /\ Len(heard') = n /\ heard'[n] = x
  BY <1>1, <1>2, HeardGrows DEF HeardInv, NewsInv
<1>5. /\ usable \subseteq 1..Len(heard) /\ troubles \subseteq 1..Len(heard)
      /\ Came(mark, lookedAt, "usable") \subseteq 1..Len(heard)
      /\ Troubles(mark, lookedAt) \subseteq 1..Len(heard)
  BY <1>4, CameAreMessages
<1>6. /\ \A p : /\ Came(mark, Len(heard), p)' = Came(mark, Len(heard), p)
                     \cup (IF Pairs(n)' /\ pairing = p THEN {n} ELSE {})
                /\ Came(mark, lookedAt, p)' = Came(mark, lookedAt, p)
                /\ Came(mark, judgedAt, p)' = Came(mark, judgedAt, p)
      /\ Troubles(mark, Len(heard))' = troubles
           \cup (IF Misses(n)' \/ (Pairs(n)' /\ pairing # "usable") THEN {n} ELSE {})
      /\ Troubles(mark, lookedAt)' = Troubles(mark, lookedAt)
      /\ \A i \in 1..Len(heard) : heard'[i] = heard[i] /\ Trouble(i)' = Trouble(i)
  <2>1. x.pairing = pairing
    OBVIOUS
  <2> HIDE DEF x
  <2> QED BY <1>2, <1>3, <1>4, <2>1, NewsGrow DEF x
<1>7. MarksInv'
  BY <1>3, <1>4 DEF MarksInv
<1>8. FramesAreLast'
  <2> DEFINE more == Came(mark, Len(heard), "usable")'
  <2>1. CASE Pairs(n)' /\ pairing = "usable"
    <3>1. frames' = Trimmed(Append(frames, s)) /\ more = usable \cup {n}
      BY <1>2, <1>6, <2>1 DEF Pair
    <3>2. frames \in Seq(Stamps) /\ Len(frames) = Fewer(FramesToCollect, Cardinality(usable))
      BY DEF NewsInv, FramesAreLast, WindowInv, TypeOK
    <3> DEFINE stamps == [i \in 1..n |-> heard'[i].stamp]
    <3>3. stamps[n] = s /\ \A i \in 1..Len(heard) : stamps[i] = heard[i].stamp
      BY <1>4, <1>6
    <3>4. LinesUp(frames, usable, stamps)
      BY <1>5, <3>3 DEF NewsInv, FramesAreLast, LinesUp
    <3>5. \A i \in more : stamps[i] = heard'[i].stamp
      BY <1>4, <1>5, <3>1
    <3> HIDE DEF stamps, usable
    <3>6. Len(frames') = Fewer(FramesToCollect, Cardinality(more)) /\ LinesUp(frames', more, stamps)
      <4>1. n \in Nat \ {0} /\ usable \in SUBSET (1..(n - 1)) /\ stamps[n] \in Stamps
        BY <1>4, <1>5, <3>3
      <4>2. frames' = Trimmed(Append(frames, stamps[n]))
        BY <3>1, <3>3
      <4>3. more = usable \cup {n}
        BY <3>1
      <4> HIDE DEF more
      <4> QED BY <3>2, <3>4, <4>1, <4>2, <4>3, UsablePairEnters
    <3> QED BY <3>5, <3>6 DEF FramesAreLast, LinesUp
  <2>2. CASE ~(Pairs(n)' /\ pairing = "usable")
    <3>1. frames' = frames
      <4>1. CASE Pairs(n)'
        BY <1>2, <2>2, <4>1 DEF Pair
      <4>2. CASE ~Pairs(n)'
        BY <1>2, <4>2
      <4> QED BY <4>1, <4>2
    <3>2. more = usable
      BY <1>6, <2>2
    <3> QED BY <1>5, <1>6, <3>1, <3>2 DEF NewsInv, FramesAreLast
  <2> QED BY <2>1, <2>2
<1>9. PoselessCame'
  <2>1. poseless \in Nat
    BY DEF WindowInv, TypeOK
  <2>2. CASE Pairs(n)' /\ pairing = "poseless"
    BY <1>2, <1>6, <2>1, <2>2 DEF Pair, PoselessCame
  <2>3. CASE ~(Pairs(n)' /\ pairing = "poseless")
    BY <1>2, <1>6, <2>3 DEF Pair, PoselessCame, NewsInv
  <2> QED BY <2>2, <2>3
<1>10. ProblemIsLast'
  <2>1. CASE Misses(n)' \/ (Pairs(n)' /\ pairing # "usable")
    <3>1. problem' = IF Misses(n)' THEN "unpaired" ELSE pairing
      BY <1>2, <2>1 DEF Pair
    <3>2. Trouble(n)' = problem'
      BY <1>4, <3>1 DEF Trouble
    <3>3. Troubles(mark, Len(heard))' = troubles \cup {n}
      BY <1>6, <2>1
    <3>4. \A i \in troubles : ~(n <= i)
      BY <1>4, <1>5
    <3> QED BY <3>2, <3>3, <3>4 DEF ProblemIsLast, IsLastTrouble
  <2>2. CASE ~(Misses(n)' \/ (Pairs(n)' /\ pairing # "usable"))
    <3>1. problem' = problem /\ Troubles(mark, Len(heard))' = troubles
      BY <1>2, <1>6, <2>2 DEF Pair
    <3> QED BY <1>5, <1>6, <3>1 DEF ProblemIsLast, IsLastTrouble, NewsInv
  <2> QED BY <2>1, <2>2
<1>11. LookIsTrue'
  BY <1>3, <1>5, <1>6 DEF NewsInv, LookIsTrue, IsLastTrouble
<1>12. EndInv'
  BY <1>3, <1>6 DEF NewsInv, EndInv
<1>13. WindowIsNewest'
  BY <1>3, <1>5, <1>6 DEF NewsInv, WindowIsNewest
<1> QED BY <1>7, <1>8, <1>9, <1>10, <1>11, <1>12, <1>13 DEF NewsInv

-------------------------------------------------------------------------------
\* What came is told from the messages alone: it stays as it is while no message comes.
LEMMA HeardRests ==
  ASSUME UNCHANGED heard
  PROVE  /\ \A i : Pairs(i)' <=> Pairs(i)
         /\ \A i : Trouble(i)' = Trouble(i)
         /\ \A first, last, p : Came(first, last, p)' = Came(first, last, p)
         /\ \A first, last : Troubles(first, last)' = Troubles(first, last)
<1>1. \A i : Partner(i)' = Partner(i)
  BY DEF Partner
<1>2. \A i : Pairs(i)' <=> Pairs(i)
  BY <1>1 DEF Pairs
<1>3. \A i : Misses(i)' <=> Misses(i)
  BY <1>1, <1>2 DEF Misses
<1>4. \A first, last, p : Came(first, last, p)' = Came(first, last, p)
  BY <1>2 DEF Came, Between
<1>5. \A first, last : Troubles(first, last)' = Troubles(first, last)
  BY <1>2, <1>3 DEF Troubles, Between
<1>6. \A i : Trouble(i)' = Trouble(i)
  BY <1>3 DEF Trouble
<1> QED BY <1>2, <1>4, <1>5, <1>6

\* The messages keep their order, and the halves their place, while no message comes and
\* the publishers only go on.
LEMMA HeardInvRests ==
  ASSUME WindowInv, HeardInv, UNCHANGED <<heard, halves>>,
         \A t \in Topics : /\ Source(t) <= Source(t)' /\ Source(t) \in Int /\ Source(t)' \in Int
                           /\ \/ queue'[t] = queue[t]
                              \/ queue'[t] = Source(t)' /\ Source(t)' > Source(t)
  PROVE  HeardInv'
<1>1. \A i : Pairs(i)' <=> Pairs(i)
  BY HeardRests
<1>2. \A t : On(t)' = On(t)
  BY DEF On
<1>3. HeardInOrder'
  <2>1. ASSUME NEW t \in Topics, NEW m \in On(t)
        PROVE  /\ heard[m].stamp <= Source(t)'
               /\ queue'[t] # NoMessage => heard[m].stamp < queue'[t]
    <3>1. heard[m].stamp \in Int
      BY MessageFields DEF HeardInv, On
    <3>2. /\ heard[m].stamp <= Source(t)
          /\ queue[t] # NoMessage => heard[m].stamp < queue[t]
      BY DEF HeardInv, HeardInOrder
    <3> QED BY <3>1, <3>2
  <2> QED BY <1>2, <2>1 DEF HeardInv, HeardInOrder
<1>4. HalvesAreLast'
  BY <1>1, <1>2 DEF HeardInv, HalvesAreLast
<1> QED BY <1>3, <1>4 DEF HeardInv

\* What the window and the words tell stays so while none of it changes.
LEMMA NewsRests ==
  ASSUME NewsInv, UNCHANGED <<heard, marks, frames, problem, poseless, collected, told, run,
                              outcome, used>>
  PROVE  NewsInv'
<1>1. /\ \A i : Trouble(i)' = Trouble(i)
      /\ \A first, last, p : Came(first, last, p)' = Came(first, last, p)
      /\ \A first, last : Troubles(first, last)' = Troubles(first, last)
  BY HeardRests
<1>2. UNCHANGED <<mark, lookedAt, judgedAt>>
  BY DEF marks
<1>3. MarksInv' /\ FramesAreLast' /\ PoselessCame'
  BY <1>1, <1>2 DEF NewsInv, MarksInv, FramesAreLast, PoselessCame
<1>4. ProblemIsLast' /\ LookIsTrue'
  BY <1>1, <1>2 DEF NewsInv, ProblemIsLast, LookIsTrue, IsLastTrouble
<1>5. EndInv' /\ WindowIsNewest'
  BY <1>1, <1>2 DEF NewsInv, EndInv, WindowIsNewest
<1> QED BY <1>3, <1>4, <1>5 DEF NewsInv

\* Two pairs never are of one shot: the halves of a shot come once each.
LEMMA PairsDiffer ==
  ASSUME HeardInv, NEW i \in 1..Len(heard), NEW j \in 1..Len(heard), i < j, Pairs(i), Pairs(j)
  PROVE  heard[i].stamp # heard[j].stamp
<1>1. heard \in Seq(Messages) /\ Len(heard) \in Nat
  BY DEF HeardInv
<1>2. /\ heard[i].stamp \in Int /\ heard[j].stamp \in Int
      /\ heard[i].topic \in Topics /\ heard[j].topic \in Topics
  BY <1>1, MessageFields
<1>3. CASE heard[i].topic = heard[j].topic
  BY <1>2, <1>3 DEF HeardInv, HeardInOrder
<1>4. CASE heard[i].topic # heard[j].topic
  <2>1. /\ Partner(i) \in 1..(i - 1) /\ heard[Partner(i)].topic # heard[i].topic
        /\ heard[Partner(i)].stamp = heard[i].stamp
    <3>1. Partner(i) # 0 /\ heard[Partner(i)].stamp = heard[i].stamp
      BY DEF Pairs
    <3>2. i \in Nat \ {0}
      OBVIOUS
    <3> QED BY <3>1, <3>2, PartnerCameBefore
  <2>2. Partner(i) \in 1..Len(heard) /\ Partner(i) < j
    BY <1>1, <2>1
  <2>3. heard[Partner(i)].topic = heard[j].topic
    <3>1. heard[Partner(i)].topic \in Topics
      BY <1>1, <2>2, MessageFields
    <3> QED BY <1>2, <1>4, <2>1, <3>1 DEF Topics
  <2>4. heard[Partner(i)].stamp < heard[j].stamp
    BY <2>2, <2>3 DEF HeardInv, HeardInOrder
  <2> QED BY <1>2, <2>1, <2>4
<1> QED BY <1>3, <1>4

\* Fewer positions come after a later one.
LEMMA LaterShrinks ==
  ASSUME NEW n \in Nat, NEW S, S \subseteq 1..n, NEW i \in S, NEW j \in S, i < j
  PROVE  Cardinality(Later(S, j)) < Cardinality(Later(S, i))
<1>1. /\ IsFiniteSet(Later(S, i)) /\ IsFiniteSet(Later(S, j))
      /\ Cardinality(Later(S, i)) \in Nat /\ Cardinality(Later(S, j)) \in Nat
  BY FewPositions
<1>2. \A k \in S : k \in Int
  OBVIOUS
<1>3. j \notin Later(S, j)
  BY <1>2 DEF Later
<1>4. Later(S, j) \cup {j} \in SUBSET Later(S, i)
  <2>1. ASSUME NEW k \in S, k > j PROVE k > i
    BY <1>2, <2>1
  <2>2. j > i
    BY <1>2
  <2> QED BY <2>1, <2>2 DEF Later
<1>5. Cardinality(Later(S, j) \cup {j}) = Cardinality(Later(S, j)) + 1
  BY <1>1, <1>3, FS_AddElement
<1>6. Cardinality(Later(S, j) \cup {j}) <= Cardinality(Later(S, i))
  <2> DEFINE T == Later(S, j) \cup {j}
  <2>1. T \in SUBSET Later(S, i)
    BY <1>4
  <2> HIDE DEF T
  <2>2. Cardinality(T) <= Cardinality(Later(S, i))
    BY <1>1, <2>1, FS_Subset
  <2> QED BY <2>2 DEF T
<1>7. Cardinality(Later(S, j) \cup {j}) \in Nat
  BY <1>1, <1>5
<1> QED BY <1>1, <1>5, <1>6, <1>7

\* The end of the window is the newest usable pairs, as many as are needed.
LEMMA WholeWindowIsNewest ==
  ASSUME WindowInv, HeardInv, NewsInv, Needed <= Len(frames),
         NEW end, end = SubSeq(frames, Len(frames) - Needed + 1, Len(frames)),
         NEW usable, usable = Came(mark, Len(heard), "usable")
  PROVE  /\ Cardinality(usable) >= Needed
         /\ \A i \in usable :
              heard[i].stamp \in ToSet(end) <=> Cardinality(Later(usable, i)) < Needed
<1>1. /\ Needed \in Nat \ {0} /\ Len(frames) \in Nat /\ Len(heard) \in Nat
      /\ frames \in Seq(Stamps)
  BY CloudAssumption DEF WindowInv, TypeOK, HeardInv
<1>2. /\ usable \subseteq 1..Len(heard) /\ \A i \in usable : Pairs(i)
      /\ heard \in Seq(Messages)
  <2>1. heard \in Seq(Messages) /\ MarksInv
    BY DEF HeardInv, NewsInv
  <2> QED BY <2>1, CameAreMessages DEF Came
<1>3. /\ Cardinality(usable) \in Nat
      /\ \A i : Cardinality(Later(usable, i)) \in Nat
  BY <1>1, <1>2, FewPositions
<1>4. /\ Len(frames) = Fewer(FramesToCollect, Cardinality(usable))
      /\ \A m \in 1..Len(frames) :
           \E i \in usable : /\ heard[i].stamp = frames[m]
                             /\ Cardinality(Later(usable, i)) = Len(frames) - m
  BY DEF NewsInv, FramesAreLast
<1>5. Cardinality(usable) >= Needed
  BY <1>1, <1>3, <1>4, CloudAssumption DEF Fewer
<1>6. \A i, j \in usable : i < j => /\ heard[i].stamp # heard[j].stamp
                                    /\ Cardinality(Later(usable, j)) # Cardinality(Later(usable, i))
  <2> SUFFICES ASSUME NEW i \in usable, NEW j \in usable, i < j
               PROVE  /\ heard[i].stamp # heard[j].stamp
                      /\ Cardinality(Later(usable, j)) # Cardinality(Later(usable, i))
    OBVIOUS
  <2>1. heard[i].stamp # heard[j].stamp
    BY <1>2, PairsDiffer
  <2>2. Cardinality(Later(usable, j)) < Cardinality(Later(usable, i))
    BY <1>1, <1>2, LaterShrinks
  <2> QED BY <1>3, <2>1, <2>2
<1>7. \A i, j \in usable : \/ i = j
                           \/ /\ heard[i].stamp # heard[j].stamp
                              /\ Cardinality(Later(usable, j)) # Cardinality(Later(usable, i))
  <2>1. \A i, j \in usable : i = j \/ i < j \/ j < i
    BY <1>1, <1>2
  <2> QED BY <1>6, <2>1
<1>8. PICK first \in Nat : first = Len(frames) - Needed
  <2>1. Len(frames) - Needed \in Nat
    BY <1>1
  <2> QED BY <2>1, Zenon
<1>9. /\ Len(end) = Needed /\ DOMAIN end = 1..Needed
      /\ \A m \in 1..Needed : end[m] = frames[first + m]
  <2>1. first + Needed = Len(frames) /\ end = SubSeq(frames, first + 1, Len(frames))
    BY <1>1, <1>8
  <2> QED BY <1>1, <2>1
<1>10. ASSUME NEW i \in usable, Cardinality(Later(usable, i)) < Needed
       PROVE  heard[i].stamp \in ToSet(end)
  <2>1. PICK c \in Nat : c = Cardinality(Later(usable, i)) /\ c < Needed
    BY <1>3, <1>10
  <2>2. Needed - c \in 1..Needed /\ first + (Needed - c) = Len(frames) - c
    <3>1. c < Needed /\ first = Len(frames) - Needed
      BY <1>8, <2>1
    <3> QED BY <1>1, <3>1
  <2>3. Len(frames) - c \in 1..Len(frames) /\ Len(frames) - (Len(frames) - c) = c
    BY <1>1, <2>1
  <2>4. PICK k \in usable : /\ heard[k].stamp = frames[Len(frames) - c]
                            /\ Cardinality(Later(usable, k)) = c
    BY <1>4, <2>3
  <2>5. k = i
    BY <1>7, <2>1, <2>4
  <2>6. end[Needed - c] = heard[i].stamp
    BY <1>9, <2>2, <2>4, <2>5
  <2> QED BY <1>9, <2>2, <2>6 DEF ToSet
<1>11. ASSUME NEW i \in usable, heard[i].stamp \in ToSet(end)
       PROVE  Cardinality(Later(usable, i)) < Needed
  <2>1. PICK m \in 1..Needed : end[m] = heard[i].stamp
    BY <1>9, <1>11 DEF ToSet
  <2>2. /\ first + m \in 1..Len(frames)
        /\ Len(frames) - (first + m) = Needed - m /\ Needed - m < Needed
    BY <1>1, <1>8
  <2>3. PICK k \in usable : /\ heard[k].stamp = frames[first + m]
                            /\ Cardinality(Later(usable, k)) = Needed - m
    BY <1>4, <2>2
  <2>4. heard[k].stamp = heard[i].stamp
    BY <1>9, <2>1, <2>3
  <2>5. k = i
    BY <1>7, <2>4
  <2> QED BY <2>2, <2>3, <2>5
<1> QED BY <1>5, <1>10, <1>11

\* The first lock of a turn.
LEMMA LookKeepsNews ==
  ASSUME WindowInv, HeardInv, NewsInv, Look
  PROVE  NewsInv'
<1>1. /\ run = "collecting" /\ lookedAt' = Len(heard) /\ collected' = Len(frames)
      /\ told' = problem
      /\ UNCHANGED <<heard, mark, judgedAt, frames, problem, poseless>>
  BY DEF Look, buffer
<1>2. /\ \A i : Trouble(i)' = Trouble(i)
      /\ \A first, last, p : Came(first, last, p)' = Came(first, last, p)
      /\ \A first, last : Troubles(first, last)' = Troubles(first, last)
  BY <1>1, HeardRests
<1>3. outcome = "none" /\ Len(heard) \in Nat /\ Len(frames) \in Nat /\ Needed \in Nat
  BY <1>1, CloudAssumption DEF NewsInv, EndInv, HeardInv, WindowInv, TypeOK
<1>4. \/ /\ Needed <= Len(frames) /\ run' = "idle" /\ outcome' = "cloud"
         /\ used' = SubSeq(frames, Len(frames) - Needed + 1, Len(frames))
      \/ Len(frames) < Needed /\ run' = "judging" /\ outcome' = "none"
  BY <1>3 DEF Look, Finish
<1>5. MarksInv' /\ FramesAreLast' /\ PoselessCame'
  BY <1>1, <1>2, <1>3 DEF NewsInv, MarksInv, FramesAreLast, PoselessCame
<1>6. ProblemIsLast' /\ LookIsTrue'
  BY <1>1, <1>2, <1>3, <1>4
  DEF NewsInv, ProblemIsLast, LookIsTrue, IsLastTrouble, FramesAreLast
<1>7. EndInv'
  BY <1>4 DEF EndInv
<1>8. WindowIsNewest'
  <2>1. CASE outcome' # "cloud"
    BY <2>1 DEF WindowIsNewest
  <2>2. CASE outcome' = "cloud"
    <3>1. Needed <= Len(frames) /\ used' = SubSeq(frames, Len(frames) - Needed + 1, Len(frames))
      BY <1>4, <2>2
    <3> DEFINE usable == Came(mark, Len(heard), "usable")
    <3>2. Came(mark, lookedAt, "usable")' = usable
      BY <1>1, <1>2
    <3>3. /\ Cardinality(usable) >= Needed
          /\ \A i \in usable :
               heard[i].stamp \in ToSet(used') <=> Cardinality(Later(usable, i)) < Needed
      <4> HIDE DEF usable
      <4> QED BY <3>1, WholeWindowIsNewest DEF usable
    <3> HIDE DEF usable
    <3> QED BY <1>1, <3>2, <3>3 DEF WindowIsNewest, Later
  <2> QED BY <2>1, <2>2
<1> QED BY <1>5, <1>6, <1>7, <1>8 DEF NewsInv

\* The second lock: the verdict goes by what came until now.
LEMMA JudgeKeepsNews ==
  ASSUME WindowInv, HeardInv, NewsInv, Judge
  PROVE  NewsInv'
<1>1. /\ run = "judging" /\ judgedAt' = Len(heard)
      /\ UNCHANGED <<heard, mark, lookedAt, frames, problem, poseless, collected, told, used>>
  BY DEF Judge, buffer
<1>2. /\ \A i : Trouble(i)' = Trouble(i)
      /\ \A first, last, p : Came(first, last, p)' = Came(first, last, p)
      /\ \A first, last : Troubles(first, last)' = Troubles(first, last)
  BY <1>1, HeardRests
<1>3. outcome = "none" /\ Len(heard) \in Nat /\ poseless \in Nat /\ collected < Needed
  BY <1>1 DEF NewsInv, EndInv, HeardInv, WindowInv, TypeOK, LookIsTrue
<1>4. \/ run' = "idle" /\ outcome' = "preempted"
      \/ run' = "idle" /\ outcome' = "empty" /\ NothingInView
      \/ run' = "idle" /\ outcome' = "failed" /\ ~NothingInView
      \/ run' = "collecting" /\ outcome' = "none"
  BY <1>3 DEF Judge, Finish
<1>5. MarksInv' /\ FramesAreLast' /\ PoselessCame'
  <2>1. MarksInv'
    BY <1>1, <1>3 DEF NewsInv, MarksInv
  <2>2. FramesAreLast'
    BY <1>1, <1>2 DEF NewsInv, FramesAreLast
  <2>3. PoselessCame'
    BY <1>1, <1>2 DEF NewsInv, PoselessCame
  <2> QED BY <2>1, <2>2, <2>3
<1>6. ProblemIsLast' /\ LookIsTrue'
  BY <1>1, <1>2, <1>4 DEF NewsInv, ProblemIsLast, LookIsTrue, IsLastTrouble
<1>7. EndInv'
  BY <1>1, <1>2, <1>3, <1>4 DEF EndInv, NothingInView, NewsInv, PoselessCame
<1>8. WindowIsNewest'
  BY <1>4 DEF WindowIsNewest
<1> QED BY <1>5, <1>6, <1>7, <1>8 DEF NewsInv

\* A goal: nothing came for it yet.
LEMMA NothingCameYet ==
  ASSUME NEW n \in Nat
  PROVE  (\A p : Came(n, n, p) = {}) /\ Troubles(n, n) = {}
<1>1. Between(n, n) = {}
  BY DEF Between
<1> QED BY <1>1 DEF Came, Troubles

\* A goal begins with nothing to tell.
LEMMA GoalKeepsNews ==
  ASSUME HeardInv, NewsInv, OnCollect
  PROVE  NewsInv'
<1>1. /\ frames' = <<>> /\ problem' = "none" /\ poseless' = 0 /\ run' = "collecting"
      /\ collected' = 0 /\ told' = "none" /\ outcome' = "none" /\ UNCHANGED heard
      /\ mark' = Len(heard) /\ lookedAt' = Len(heard) /\ judgedAt' = Len(heard)
  BY DEF OnCollect, Cleared
<1>2. PICK n \in Nat : n = Len(heard)
  BY DEF HeardInv
<1>3. (\A p : Came(n, n, p)' = {}) /\ Troubles(n, n)' = {}
  BY NothingCameYet, <1>1, HeardRests
<1>4. Cardinality({}) = 0 /\ Fewer(FramesToCollect, 0) = 0
  BY FS_EmptySet, CloudAssumption DEF Fewer
<1>5. /\ mark' = n /\ lookedAt' = n /\ judgedAt' = n /\ Len(heard') = n /\ Len(frames') = 0
      /\ 1..0 = {}
  BY <1>1, <1>2
<1>6. (\A p : Came(mark, Len(heard), p)' = {} /\ Came(mark, lookedAt, p)' = {})
  BY <1>3, <1>5
<1>7. Troubles(mark, Len(heard))' = {} /\ Troubles(mark, lookedAt)' = {}
  BY <1>3, <1>5
<1>8. MarksInv' /\ FramesAreLast' /\ PoselessCame'
  BY <1>1, <1>4, <1>5, <1>6 DEF MarksInv, FramesAreLast, PoselessCame
<1>9. ProblemIsLast' /\ LookIsTrue'
  BY <1>1, <1>4, <1>6, <1>7 DEF ProblemIsLast, LookIsTrue, IsLastTrouble
<1>10. EndInv' /\ WindowIsNewest'
  BY <1>1 DEF EndInv, WindowIsNewest
<1> QED BY <1>8, <1>9, <1>10 DEF NewsInv

\* At first nothing was heard.
LEMMA NewsInvInit == Init => HeardInv /\ NewsInv
<1> SUFFICES ASSUME Init PROVE HeardInv /\ NewsInv
  OBVIOUS
<1>1. /\ heard = <<>> /\ Len(heard) = 0 /\ mark = 0 /\ lookedAt = 0 /\ judgedAt = 0
      /\ frames = <<>> /\ Len(frames) = 0 /\ problem = "none" /\ poseless = 0
      /\ collected = 0 /\ told = "none" /\ outcome = "none" /\ run = "idle"
      /\ \A t \in Topics : halves[t] = NoMessage
      /\ 1..0 = {} /\ 0 \in Nat
  BY DEF Init
<1>2. \A t : On(t) = {}
  BY <1>1 DEF On
<1>3. HeardInv
  BY <1>1, <1>2 DEF HeardInv, HeardInOrder, HalvesAreLast
<1>4. (\A p : Came(0, 0, p) = {}) /\ Troubles(0, 0) = {}
  BY NothingCameYet
<1>5. Cardinality({}) = 0 /\ Fewer(FramesToCollect, 0) = 0
  BY FS_EmptySet, CloudAssumption DEF Fewer
<1>6. MarksInv /\ FramesAreLast /\ PoselessCame
  BY <1>1, <1>4, <1>5 DEF MarksInv, FramesAreLast, PoselessCame
<1>7. ProblemIsLast /\ LookIsTrue
  BY <1>1, <1>4, <1>5 DEF ProblemIsLast, LookIsTrue, IsLastTrouble
<1>8. EndInv /\ WindowIsNewest
  BY <1>1 DEF EndInv, WindowIsNewest
<1> QED BY <1>3, <1>6, <1>7, <1>8 DEF NewsInv

-------------------------------------------------------------------------------
\* Every step keeps the order of the messages and the place of the halves.
LEMMA StepKeepsHeard ==
  ASSUME WindowInv, HeardInv, [Next]_vars
  PROVE  HeardInv'
<1>1. ASSUME NEW t \in Topics, OnMessage(t) PROVE HeardInv'
  BY <1>1, MessageKeepsHeard
<1>2. shots \in 0..MaxShots /\ posed \in 0..shots /\ MaxShots \in Nat
  BY CloudAssumption DEF WindowInv, TypeOK
<1>3. CASE Shoot \/ See
  <2>1. /\ shots' \in shots..MaxShots /\ posed' \in posed..shots' /\ UNCHANGED <<heard, halves>>
        /\ \A t \in Topics :
             queue'[t] = queue[t] \/ (queue'[t] = Source(t)' /\ Source(t)' > Source(t))
    BY <1>3, PublishersGrow
  <2>2. \A t \in Topics : Source(t) <= Source(t)' /\ Source(t) \in Int /\ Source(t)' \in Int
    BY <1>2, <2>1 DEF Source
  <2> QED BY <2>1, <2>2, HeardInvRests
<1>4. CASE OnCollect \/ Cancel \/ Look \/ Judge \/ Elapse \/ UNCHANGED vars
  <2>1. UNCHANGED <<heard, halves, shots, posed, queue>>
    BY <1>4 DEF OnCollect, Cancel, Look, Judge, Elapse, vars, buffer, world
  <2>2. \A t \in Topics : /\ Source(t) <= Source(t)' /\ Source(t) \in Int /\ Source(t)' \in Int
                          /\ queue'[t] = queue[t]
    BY <1>2, <2>1 DEF Source
  <2> QED BY <2>1, <2>2, HeardInvRests
<1> QED BY <1>1, <1>3, <1>4 DEF Next

\* Every step keeps the window, the count and the words true.
LEMMA StepKeepsNews ==
  ASSUME WindowInv, HeardInv, NewsInv, [Next]_vars
  PROVE  NewsInv'
<1>1. ASSUME NEW t \in Topics, OnMessage(t) PROVE NewsInv'
  BY <1>1, MessageKeepsNews
<1>2. CASE Shoot \/ See
  <2>1. UNCHANGED <<heard, marks, frames, problem, poseless, collected, told, run, outcome, used>>
    BY <1>2, PublishersGrow
  <2> QED BY <2>1, NewsRests
<1>3. CASE Cancel \/ Elapse \/ UNCHANGED vars
  <2>1. UNCHANGED <<heard, marks, frames, problem, poseless, collected, told, run, outcome, used>>
    BY <1>3 DEF Cancel, Elapse, vars, buffer, goal
  <2> QED BY <2>1, NewsRests
<1> QED BY <1>1, <1>2, <1>3, GoalKeepsNews, LookKeepsNews, JudgeKeepsNews DEF Next

\* What a collect that brought no cloud says, from what its last look and verdict saw.
LEMMA EndIsTrue ==
  ASSUME HeardInv, NewsInv
  PROVE  EndIsExplained
<1> DEFINE usable == Came(mark, lookedAt, "usable")
           troubles == Troubles(mark, lookedAt)
<1>1. PICK n \in Nat : n = Len(heard)
  BY DEF HeardInv
<1>2. usable \subseteq 1..n /\ troubles \subseteq 1..n
  BY <1>1, CameAreMessages DEF HeardInv, NewsInv
<1>3. /\ collected = Fewer(FramesToCollect, Cardinality(usable))
      /\ IsLastTrouble(told, mark, lookedAt)
  BY DEF NewsInv, LookIsTrue
<1>4. Cardinality(usable) \in Nat /\ (Cardinality(usable) = 0 <=> usable = {})
  <2> HIDE DEF usable
  <2> QED BY <1>2, FewPositions
<1>5. /\ collected = 0 <=> Cardinality(usable) = 0
      /\ collected < Needed => Cardinality(usable) < Needed
  <2>1. PICK c \in Nat : c = Cardinality(usable)
    BY <1>4
  <2>2. collected = Fewer(FramesToCollect, c)
    BY <1>3, <2>1
  <2>3. /\ collected = 0 <=> c = 0
        /\ collected < Needed => c < Needed
    BY <2>2, CloudAssumption DEF Fewer
  <2> QED BY <2>1, <2>3
<1>6. told = IF troubles = {} THEN "none" ELSE Trouble(Max(troubles))
  <2>1. CASE troubles = {}
    BY <1>3, <2>1 DEF IsLastTrouble
  <2>2. CASE troubles # {}
    <3>1. Max(troubles) \in troubles /\ \A i \in troubles : i <= Max(troubles)
      <4> HIDE DEF troubles
      <4> QED BY <1>2, <2>2, MaxIsLast
    <3> QED BY <1>3, <2>2, <3>1 DEF IsLastTrouble
  <2> QED BY <2>1, <2>2
<1> HIDE DEF usable, troubles
<1> QED BY <1>4, <1>5, <1>6 DEF EndIsExplained, NewsInv, EndInv, usable, troubles

\* The order of what was heard and what the window, the count and the words that went wrong
\* make of it are inductive together, given the order of what is still to be paired.
THEOREM NewsHold == Spec => [](WindowInv /\ HeardInv /\ NewsInv)
<1>1. Init => WindowInv /\ HeardInv /\ NewsInv
  BY WindowInvInit, NewsInvInit
<1>2. WindowInv /\ [Next]_vars => WindowInv'
  BY PublishersKeep, MessageKeeps, GoalKeeps, LookKeeps, RestKeeps DEF Next
<1>3. (WindowInv /\ HeardInv /\ NewsInv) /\ [Next]_vars => (WindowInv /\ HeardInv /\ NewsInv)'
  BY <1>2, StepKeepsHeard, StepKeepsNews
<1> QED
  BY <1>1, <1>3, PTL DEF Spec

\* A collect that answers with a cloud used the newest usable pairs since its goal, for any
\* size of window and whatever comes on the two topics in whatever order.
THEOREM WindowStaysNewest == Spec => []WindowIsNewest
<1>1. NewsInv => WindowIsNewest
  BY DEF NewsInv
<1> QED
  BY <1>1, NewsHold, PTL

\* A collect that brings no cloud says why, and what it says is so, for any size of window
\* and whatever comes on the two topics in whatever order.
THEOREM EndsAreExplained == Spec => []EndIsExplained
  BY EndIsTrue, NewsHold, PTL
===============================================================================

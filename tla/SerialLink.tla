------------------------------ MODULE SerialLink ------------------------------
(***************************************************************************)
(* The driver and the arm on the two ends of the serial line: main(), the  *)
(* polls and the callbacks (driver/src/main.cpp, DriverNode.cpp), the link *)
(* they share (ArmLink.cpp), the packet reader at either end               *)
(* (Protocol.cpp) and the arm that answers, as SimulatedArm.cpp stands in  *)
(* for it.                                                                 *)
(*                                                                         *)
(* A frame is a body and the zero byte that ends it.  The line may damage  *)
(* the body, and a write may stop short of the zero, or fail altogether;   *)
(* what a frame without its zero leaves behind is glued to the next one.   *)
(* CRC8 and COBS are taken to tell any such body from a packet.            *)
(***************************************************************************)
EXTENDS Integers, SequencesExt

CONSTANTS
  JointCount, Wrist,
  ConnectAttempts,   \* nudges before main() gives up
  Chunk,             \* the most a read returns
  MaxBuffered,       \* the most a packet reader keeps
  MaxFaults,         \* bound: frames that do not get on the line whole
  MaxLate,           \* bound: no more replies are late once a joint had this many that were
  MaxOnLine,         \* bound: callbacks write while no more than this is on the line
  Zero, Junk, None

Joints == 1..JointCount
Modes == {"standby", "position", "velocity"}

\* What a frame carries.  Its id is its field, or says that it asks for one.  "behind" counts
\* the requests for the same that were written after the one it is, or answers.
Packets == [kind : {"command", "request", "reply"}, device : Joints,
            field : {"mode", "position", "velocity"}, value : Modes \cup {None}, behind : Nat]

ASSUME SerialAssumption ==
  /\ JointCount \in Nat \ {0} /\ Wrist \in Joints /\ ConnectAttempts \in Nat \ {0}
  /\ Chunk \in Nat \ {0} /\ MaxBuffered \in Nat /\ Chunk < MaxBuffered /\ 2 < MaxBuffered
  /\ MaxFaults \in Nat /\ MaxLate \in Nat /\ MaxOnLine \in Nat
  /\ Zero # Junk /\ Zero \notin Packets /\ Junk \notin Packets
  /\ None \notin Joints /\ None \notin Modes
  /\ None \notin [device : Joints, field : {"mode", "position"}]

VARIABLES
  main,               \* what main() is at: "nudge", "ask", "release", "sleep", "poll",
                      \* "leave", "gone"
  next,               \* joint its loop has come to
  attempts,           \* nudges without an answer
  asked,              \* the request under way, or None
  hostBuffer,         \* ArmLink's reader_
  toArm, toHost,      \* the two directions of the line
  armBuffer,          \* SimulatedArm's reader_
  mode,               \* mode each joint is in
  told,               \* mode of the last command to each joint that went out as a whole frame
  reading,            \* what was last read of each joint: whose position it is, and how many
                      \* requests for this joint's position were written after the one it answers
  answered,           \* joints this poll has read
  late,               \* position requests of each joint that were answered after their time
  faults

hostVars == <<main, next, attempts, asked, hostBuffer, reading, answered>>
ghosts == <<told, late>>
vars == <<hostVars, toArm, toHost, armBuffer, mode, ghosts, faults>>
-------------------------------------------------------------------------------
\* Packets, frames and the reader.

Packet(kind, device, field, value, behind) ==
  [kind |-> kind, device |-> device, field |-> field, value |-> value, behind |-> behind]

Faults == {"damaged", "short", "lost"}

\* How a frame gets on the line, and what is then on it.
Ways == IF faults < MaxFaults THEN {"whole"} \cup Faults ELSE {"whole"}
Frame(packet, way) ==
  CASE way = "whole" -> <<packet, Zero>>
    [] way = "damaged" -> <<Junk, Zero>>
    [] way = "short" -> <<Junk>>
    [] way = "lost" -> <<>>

Counted(way) == faults' = IF way = "whole" THEN faults ELSE faults + 1

Kept(bytes) == SubSeq(bytes, Len(bytes) - MaxBuffered + 1, Len(bytes))
Buffered(buffer, chunk) ==
  LET bytes == buffer \o chunk IN IF Len(bytes) > MaxBuffered THEN Kept(bytes) ELSE bytes

Parses(frame) == Len(frame) = 1 /\ frame[1] # Junk

\* Mutant: a frame that does not parse stays in the buffer.
SplitKeepingBad(bytes) ==
  LET so[n \in 0..Len(bytes)] ==
        IF n = 0 THEN [packets |-> <<>>, rest |-> <<>>]
        ELSE LET before == so[n - 1] IN
             IF bytes[n] = Zero /\ Parses(before.rest)
             THEN [packets |-> before.packets \o before.rest, rest |-> <<>>]
             ELSE [packets |-> before.packets, rest |-> Append(before.rest, bytes[n])]
  IN so[Len(bytes)]

\* The buffer is cut at every zero byte, and what does not parse is dropped.
Split(bytes) ==
  LET so[n \in 0..Len(bytes)] ==
        IF n = 0 THEN [packets |-> <<>>, rest |-> <<>>]
        ELSE LET before == so[n - 1] IN
             IF bytes[n] # Zero
             THEN [packets |-> before.packets, rest |-> Append(before.rest, bytes[n])]
             ELSE [packets |-> IF Parses(before.rest) THEN before.packets \o before.rest
                               ELSE before.packets,
                   rest |-> <<>>]
  IN so[Len(bytes)]

\* Mutant: a frame is read and left in the buffer.
FeedAgain(buffer, chunk) ==
  LET bytes == Buffered(buffer, chunk) IN [packets |-> Split(bytes).packets, rest |-> bytes]

Feed(buffer, chunk) == Split(Buffered(buffer, chunk))
-------------------------------------------------------------------------------
\* The host's end.

Sent(packet, way) == toArm' = toArm \o Frame(packet, way) /\ Counted(way)

\* A frame that follows one without its zero is glued to it.
LineIsClean == LET before == armBuffer \o toArm IN before = <<>> \/ Last(before) = Zero

\* A joint is put in standby by a MODE packet, and in the other modes by what it is to do.
Commands(joint, to, way) ==
  /\ Sent(Packet("command", joint, IF to = "standby" THEN "mode" ELSE to, to, 0), way)
  /\ told' = IF way = "whole" /\ LineIsClean THEN [told EXCEPT ![joint] = to] ELSE told

Nudge(way) ==
  /\ main = "nudge"
  /\ main' = "ask"
  /\ Commands(Wrist, "velocity", way)
  /\ UNCHANGED <<next, attempts, asked, hostBuffer, toHost, armBuffer, mode, reading, answered, late>>

\* Mutant: one nudge too many.
NotWokenOnceMore ==
  /\ attempts' = attempts + 1
  /\ main' = IF attempts = ConnectAttempts THEN "gone" ELSE "nudge"
  /\ UNCHANGED next

\* A nudge without an answer: after the last one main() returns, with nothing released.
NotWoken ==
  /\ attempts' = attempts + 1
  /\ main' = IF attempts + 1 = ConnectAttempts THEN "gone" ELSE "nudge"
  /\ UNCHANGED next

\* The loops over the joints: the next joint, or what comes after the last one.
NextJoint(after) ==
  /\ next' = IF next = JointCount THEN 1 ELSE next + 1
  /\ main' = IF next = JointCount THEN after ELSE main
  /\ UNCHANGED attempts

\* The request that was under way ends without its reply.
NotAnswered ==
  IF main = "ask" THEN NotWoken ELSE NextJoint("sleep")

Asks == IF main = "ask" THEN [device |-> Wrist, field |-> "mode"]
        ELSE [device |-> next, field |-> "position"]

\* What answers the request, or will.
About(byte, what) ==
  /\ byte \notin {Zero, Junk} /\ byte.kind # "command"
  /\ byte.device = what.device /\ byte.field = what.field

Aged(bytes, what) ==
  [i \in DOMAIN bytes |->
     IF About(bytes[i], what) THEN [bytes[i] EXCEPT !.behind = @ + 1] ELSE bytes[i]]

\* request() writes its frame; a frame that was not written whole ends it.
Ask(way) ==
  /\ main \in {"ask", "poll"} /\ asked = None
  /\ Counted(way)
  /\ IF way \in {"short", "lost"}
     THEN /\ toArm' = toArm \o Frame(None, way)
          /\ NotAnswered
          /\ UNCHANGED <<asked, hostBuffer, toHost, armBuffer, reading>>
     ELSE /\ asked' = Asks
          /\ toArm' = Aged(toArm, Asks)
                      \o Frame(Packet("request", Asks.device, Asks.field, None, 0), way)
          /\ armBuffer' = Aged(armBuffer, Asks)
          /\ toHost' = Aged(toHost, Asks) /\ hostBuffer' = Aged(hostBuffer, Asks)
          /\ reading' = IF main = "poll" THEN [reading EXCEPT ![next].behind = @ + 1] ELSE reading
          /\ UNCHANGED <<main, next, attempts>>
  /\ UNCHANGED <<mode, answered, ghosts>>

\* Mutant: only the field is looked at.
MatchesField(packet) == packet.field = asked.field

Matches(packet) == packet.device = asked.device /\ packet.field = asked.field

\* Mutant: any mode the wrist reports will do.
AnyModeWakes(packet) == TRUE

Wakes(packet) == packet.value = "velocity"

\* The reply is read: wakeArm goes on if it is the mode it wants, a poll keeps the position.
Answered(packet) ==
  IF main = "ask"
  THEN /\ IF Wakes(packet) THEN main' = "release" /\ UNCHANGED <<next, attempts>> ELSE NotWoken
       /\ UNCHANGED <<reading, answered>>
  ELSE /\ reading' = [reading EXCEPT ![next] = [of |-> packet.device, behind |-> packet.behind]]
       /\ answered' = answered \cup {next}
       /\ NextJoint("sleep")

\* One read of the port.  The first packet that matches ends the request, and the packets
\* that came with it are dropped.
Receive(count) ==
  /\ asked # None /\ toHost # <<>>
  /\ toHost' = SubSeq(toHost, count + 1, Len(toHost))
  /\ LET fed == Feed(hostBuffer, SubSeq(toHost, 1, count))
         first == SelectInSeq(fed.packets, Matches)
     IN  /\ hostBuffer' = fed.rest
         /\ IF first = 0 THEN UNCHANGED <<main, next, attempts, asked, reading, answered>>
            ELSE asked' = None /\ Answered(fed.packets[first])
  /\ UNCHANGED <<toArm, armBuffer, mode, ghosts, faults>>

UnderWay ==
  \E bytes \in {toArm, armBuffer, toHost, hostBuffer} :
    \E i \in DOMAIN bytes : About(bytes[i], asked)

\* The reply comes too late, or not at all.
TimeOut ==
  /\ asked # None
  /\ IF main = "poll" /\ UnderWay
     THEN /\ \A j \in Joints : late[j] < MaxLate
          /\ late' = [late EXCEPT ![asked.device] = @ + 1]
     ELSE UNCHANGED late
  /\ asked' = None
  /\ NotAnswered
  /\ UNCHANGED <<hostBuffer, toArm, toHost, armBuffer, mode, reading, answered, told, faults>>

\* releaseAll, after the arm woke and before the process ends.
Release(way) ==
  /\ main \in {"release", "leave"}
  /\ Commands(next, "standby", way)
  /\ NextJoint(IF main = "release" THEN "sleep" ELSE "gone")
  /\ UNCHANGED <<asked, hostBuffer, toHost, armBuffer, mode, reading, answered, late>>

Poll ==
  /\ main = "sleep"
  /\ main' = "poll" /\ answered' = {}
  /\ UNCHANGED <<next, attempts, asked, hostBuffer, toArm, toHost, armBuffer, mode, reading, ghosts, faults>>

Leave ==
  /\ main = "sleep"
  /\ main' = "leave"
  /\ UNCHANGED <<next, attempts, asked, hostBuffer, toArm, toHost, armBuffer, mode, reading, answered,
                 ghosts, faults>>

\* A callback, or a step of the home ramp: none while a poll reads, for both hold the
\* node's mutex, but nothing keeps one from main()'s last releaseAll.
Command(joint, to, way) ==
  /\ main \in {"sleep", "leave"} /\ Len(toArm) <= MaxOnLine
  /\ to \in {"position", "standby"}
  /\ Commands(joint, to, way)
  /\ UNCHANGED <<hostVars, toHost, armBuffer, mode, late>>
-------------------------------------------------------------------------------
\* The arm's end.

\* A reply for the mode carries it; where the joint is, is left out.
Reply(request) ==
  Packet("reply", request.device, request.field,
         IF request.field = "mode" THEN mode[request.device] ELSE None, request.behind)

\* handle: a command sets the mode, a request is answered.
Handle(packet, way) ==
  IF packet.kind = "request"
  THEN /\ toHost' = toHost \o Frame(Reply(packet), way) /\ Counted(way)
       /\ UNCHANGED mode
  ELSE /\ mode' = [mode EXCEPT ![packet.device] = packet.value]
       /\ UNCHANGED <<toHost, faults>>

ArmReceives(way) ==
  /\ toArm # <<>>
  /\ toArm' = Tail(toArm)
  /\ \E fed \in {Feed(armBuffer, <<Head(toArm)>>)} :
       /\ armBuffer' = fed.rest
       /\ IF fed.packets = <<>> THEN way = "whole" /\ UNCHANGED <<toHost, mode, faults>>
          ELSE Handle(Head(fed.packets), way)
  /\ UNCHANGED <<hostVars, ghosts>>
-------------------------------------------------------------------------------
Unread == [of |-> None, behind |-> 0]

\* The arm may have been left in any mode.
Init ==
  /\ main = "nudge" /\ next = 1 /\ attempts = 0 /\ asked = None
  /\ hostBuffer = <<>> /\ toArm = <<>> /\ toHost = <<>> /\ armBuffer = <<>>
  /\ mode \in [Joints -> Modes] /\ told = mode
  /\ reading = [j \in Joints |-> Unread] /\ answered = {}
  /\ late = [j \in Joints |-> 0] /\ faults = 0

ReceiveSome == \E count \in 1..Chunk : count <= Len(toHost) /\ Receive(count)

Next ==
  \/ \E way \in Ways : Nudge(way) \/ Ask(way) \/ Release(way) \/ ArmReceives(way)
  \/ \E way \in Ways, joint \in Joints, to \in Modes : Command(joint, to, way)
  \/ ReceiveSome \/ TimeOut \/ Poll \/ Leave

Spec == Init /\ [][Next]_vars

HostGoesOn ==
  \/ Nudge("whole") \/ Ask("whole") \/ Release("whole")
  \/ ReceiveSome
  \/ asked # None /\ ~UnderWay /\ TimeOut
  \/ Poll

\* main() goes on, what is on the line is read, and a request for which nothing comes times
\* out.  That one times out with its reply under way, that a frame is damaged, that somebody
\* commands a joint and that the process is told to end need never happen.
FairSpec == Spec /\ WF_vars(HostGoesOn) /\ WF_vars(ArmReceives("whole"))
-------------------------------------------------------------------------------
Bytes == {Zero, Junk} \cup Packets

\* What the variables hold, and the reader's bound on what it keeps (Protocol.cpp).
TypeOK ==
  /\ main \in {"nudge", "ask", "release", "sleep", "poll", "leave", "gone"}
  /\ next \in Joints /\ attempts \in 0..ConnectAttempts
  /\ asked \in {None} \cup [device : Joints, field : {"mode", "position"}]
  /\ \A bytes \in {hostBuffer, toArm, toHost, armBuffer} : bytes \in Seq(Bytes)
  /\ \A buffer \in {hostBuffer, armBuffer} : Len(buffer) <= MaxBuffered /\ ~Contains(buffer, Zero)
  /\ mode \in [Joints -> Modes] /\ told \in [Joints -> Modes]
  /\ reading \in [Joints -> [of : Joints \cup {None}, behind : Nat]]
  /\ answered \subseteq Joints
  /\ late \in [Joints -> 0..MaxLate] /\ faults \in 0..MaxFaults

\* A position that a poll keeps is one of that joint (ArmLink::request, readPosition), and it
\* is at most as many requests behind as there were requests to the joint whose reply came
\* after their time: a reply that was late is taken for the answer to the next request, and
\* the answer to that one for the one after.
LagIsExplained ==
  \A j \in answered : reading[j].of = j /\ reading[j].behind <= late[j]

\* A position never takes the place of a younger one: replies are taken in the order of
\* their requests and none is taken twice (ArmLink::request, PacketReader::feed).
ReadingsInOrder ==
  [][\A j \in answered' \ answered :
       reading[j].of = None \/ reading'[j].behind < reading[j].behind]_vars

\* Whatever happened to the frames around it, a joint is in the mode of the last command to it
\* that was written whole after a zero byte, once that has arrived: the reader finds back to
\* the frames (PacketReader::feed).
CommandsAreObeyed ==
  \A j \in Joints :
    (\A bytes \in {toArm, armBuffer} : \A i \in DOMAIN bytes :
       bytes[i] \in {Zero, Junk} \/ bytes[i].kind # "command" \/ bytes[i].device # j)
    => mode[j] = told[j]

\* main() gets past wakeArm only when the wrist is in velocity mode, whichever of its nudges
\* and requests got through.
Woken == [][main = "ask" /\ main' = "release" => mode[Wrist] = "velocity"]_vars

\* While main() keeps polling, a poll comes that reads a given joint, whatever was lost or
\* late before (poll, request, feed).
EveryJointIsRead ==
  \A j \in Joints : main = "poll" ~> j \in answered \/ main \in {"leave", "gone"}
================================================================================

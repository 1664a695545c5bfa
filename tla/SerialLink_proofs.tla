--------------------------- MODULE SerialLink_proofs --------------------------
(***************************************************************************)
(* For any number of joints, reads and buffers of any size, and any number *)
(* of frames damaged, cut short or lost and of replies after their time:   *)
(* what is on the line and in the two readers keeps its order, a reading   *)
(* lags by no more than the late replies explain, commands are obeyed in   *)
(* the order in which they were written, and main() gets past wakeArm only *)
(* when the wrist is awake.                                                *)
(***************************************************************************)
EXTENDS SerialLink, FiniteSetTheorems, SequenceTheorems, TLAPS

\* The two directions of the line, each with what its reader holds, the oldest byte first.
Inward == hostBuffer \o toHost
Outward == armBuffer \o toArm

IsPacket(byte) == byte \in Packets
IsCommand(byte) == IsPacket(byte) /\ byte.kind = "command" /\ byte.value \in Modes
IsRequest(byte) == IsPacket(byte) /\ byte.kind = "request" /\ byte.field \in {"mode", "position"}
IsReply(byte) ==
  IsPacket(byte) /\ byte.kind = "reply" /\ (byte.field = "mode" => byte.value \in Modes)

\* What goes which way.  A packet is on its way to the arm only as a whole frame.
Replies(in) == \A i \in DOMAIN in : in[i] \in {Zero, Junk} \/ IsReply(in[i])
Orders(out) ==
  \A i \in DOMAIN out :
    /\ out[i] \in {Zero, Junk} \/ IsCommand(out[i]) \/ IsRequest(out[i])
    /\ IsPacket(out[i]) => i + 1 \in DOMAIN out /\ out[i + 1] = Zero

LineInv == Replies(Inward) /\ Orders(Outward)

\* Where main() is when it asks, and what it has read when.
MainInv ==
  /\ asked # None => main \in {"ask", "poll"} /\ asked = Asks
  /\ main \in {"nudge", "ask"} => attempts < ConnectAttempts /\ answered = {}
  /\ main = "poll" => \A j \in answered : j < next

PositionOf(j) == [device |-> j, field |-> "position"]

\* Of the packets about a joint's position the older one is further behind, and what comes to
\* the host is older than what goes to the arm; none is further behind than most.
Lags(in, out, j, most) ==
  LET of == PositionOf(j) IN
  /\ \A i, k \in DOMAIN in :
       i < k /\ About(in[i], of) /\ About(in[k], of) => in[i].behind > in[k].behind
  /\ \A i, k \in DOMAIN out :
       i < k /\ About(out[i], of) /\ About(out[k], of) => out[i].behind > out[k].behind
  /\ \A i \in DOMAIN in, k \in DOMAIN out :
       About(in[i], of) /\ About(out[k], of) => in[i].behind > out[k].behind
  /\ \A i \in DOMAIN in : About(in[i], of) => in[i].behind <= most
  /\ \A i \in DOMAIN out : About(out[i], of) => out[i].behind <= most

\* As many requests behind as late replies explain; a request that still waits for its reply
\* may turn out to be one of them.
Explained(j) == IF asked = PositionOf(j) THEN late[j] ELSE late[j] - 1

\* What is to come of a joint is explained, and younger than what was read of it.
LagInv ==
  \A j \in Joints :
    /\ Lags(Inward, Outward, j, Explained(j))
    /\ reading[j].of # None => Lags(Inward, Outward, j, reading[j].behind - 1)

\* The commands to a joint that the arm's reader will find: those that follow a zero byte.
Pending(out, j) ==
  {i \in DOMAIN out : /\ IsCommand(out[i]) /\ out[i].device = j
                      /\ i = 1 \/ out[i - 1] = Zero}

\* The last of them is the last that was written whole; without any the joint obeyed it.
Obeys(out, j, is, said) ==
  /\ Pending(out, j) = {} => is = said
  /\ \A i \in Pending(out, j) : (\A k \in Pending(out, j) : k <= i) => out[i].value = said

ObeyInv == \A j \in Joints : Obeys(Outward, j, mode[j], told[j])

\* Until the wrist is found awake nothing but nudges was written, and a reply that says it is
\* awake is right.
Nudges(out) ==
  \A i \in DOMAIN out : IsCommand(out[i]) => out[i].device = Wrist /\ out[i].value = "velocity"
SaysAwake(byte) == IsReply(byte) /\ byte.device = Wrist /\ byte.value = "velocity"
Truthful(in, is) == \A i \in DOMAIN in : SaysAwake(in[i]) => is = "velocity"

WakeInv == main \in {"nudge", "ask"} => Nudges(Outward) /\ Truthful(Inward, mode[Wrist])

LinkInv == TypeOK /\ LineInv /\ MainInv /\ LagInv /\ LagIsExplained /\ ObeyInv /\ WakeInv

-----------------------------------------------------------------------------
(* Counting and recursion, for the loop of the reader.                                     *)

\* Counting up to n: a set that holds 0, and with a number below n the next, holds 0..n.
Counts(D, n) == 0 \in D /\ \A k \in 0..(n - 1) : k \in D => k + 1 \in D

LEMMA CountingUp ==
  ASSUME NEW n \in Nat, NEW D \in SUBSET (0..n), Counts(D, n)
  PROVE  n \in D
<1> DEFINE G == {m \in 0..n : \A k \in 0..m : k \in D}
           f == [m \in G |-> m + 1]
<1> USE DEF Counts
<1> SUFFICES ASSUME n \notin G PROVE FALSE
  OBVIOUS
<1>1. 0 \in G
  OBVIOUS
<1>2. \A m \in G : m + 1 \in G \ {0}
  <2> SUFFICES ASSUME NEW m \in G PROVE m + 1 \in G \ {0}
    OBVIOUS
  <2>1. m \in Nat /\ m <= n /\ m # n /\ m \in 0..m
    OBVIOUS
  <2>2. m \in 0..(n - 1) /\ m \in D
    BY <2>1
  <2>3. m + 1 \in D
    BY <2>2
  <2>4. \A k \in 0..(m + 1) : k \in 0..m \/ k = m + 1
    BY <2>1
  <2>5. m + 1 \in 0..n
    BY <2>1
  <2> QED BY <2>3, <2>4, <2>5
<1>3. IsFiniteSet(0..n)
  BY FS_Interval
<1>4. G \in SUBSET (0..n)
  OBVIOUS
<1>5. IsFiniteSet(G)
  BY <1>3, <1>4, FS_Subset
<1>6. IsFiniteSet(G \ {0}) /\ Cardinality(G \ {0}) = Cardinality(G) - 1 /\ Cardinality(G) \in Nat
  BY <1>1, <1>5, FS_RemoveElement, FS_CardinalityType
<1>7. f \in [G -> G \ {0}]
  BY <1>2
<1> HIDE DEF f, G
<1>8. \E x, y \in G : x # y /\ f[x] = f[y]
  BY <1>5, <1>6, <1>7, FS_PigeonHole
<1>9. \A x \in G : x \in Nat /\ f[x] = x + 1
  BY <1>4 DEF f
<1> QED BY <1>8, <1>9


\* What each step makes of the value before it, from a first value on.
Runs(f, step, first, n) == f[0] = first /\ \A i \in 1..n : f[i] = step[i][f[i - 1]]

LEMMA Recursion ==
  ASSUME NEW T, NEW n \in Nat, NEW first \in T, NEW step \in [1..n -> [T -> T]]
  PROVE  \E f \in [0..n -> T] : Runs(f, step, first, n)
<1> DEFINE D == {m \in 0..n : \E f \in [0..m -> T] : Runs(f, step, first, m)}
<1>1. 0 \in D
  <2> DEFINE f == [i \in 0..0 |-> first]
  <2>1. f \in [0..0 -> T] /\ Runs(f, step, first, 0)
    BY DEF Runs
  <2> HIDE DEF f
  <2> QED BY <2>1
<1>2. \A m \in 0..(n - 1) : m \in D => m + 1 \in D
  <2> SUFFICES ASSUME NEW m \in 0..(n - 1), m \in D PROVE m + 1 \in D
    OBVIOUS
  <2>1. PICK f \in [0..m -> T] : Runs(f, step, first, m)
    OBVIOUS
  <2> HIDE DEF D
  <2>2. m \in Nat /\ m + 1 \in 1..n /\ m + 1 \in 0..n
    OBVIOUS
  <2>3. step[m + 1][f[m]] \in T
    BY <2>2
  <2> DEFINE g == [i \in 0..(m + 1) |-> IF i = m + 1 THEN step[m + 1][f[m]] ELSE f[i]]
  <2>4. g \in [0..(m + 1) -> T]
    BY <2>2, <2>3
  <2>5. g[m + 1] = step[m + 1][f[m]] /\ \A i \in 0..m : g[i] = f[i]
    BY <2>2
  <2> HIDE DEF g
  <2>6. ASSUME NEW i \in 1..(m + 1) PROVE g[i] = step[i][g[i - 1]]
    <3>1. i - 1 \in 0..m /\ (i # m + 1 => i \in 1..m /\ i \in 0..m) /\ (m + 1) - 1 = m
      BY <2>2
    <3>2. g[i - 1] = f[i - 1]
      BY <2>5, <3>1
    <3>3. CASE i = m + 1
      BY <2>5, <3>1, <3>2, <3>3
    <3>4. CASE i # m + 1
      BY <2>1, <2>5, <3>1, <3>2, <3>4 DEF Runs
    <3> QED BY <3>3, <3>4
  <2>7. Runs(g, step, first, m + 1)
    <3>1. g[0] = first
      BY <2>1, <2>2, <2>5 DEF Runs
    <3> QED BY <2>6, <3>1 DEF Runs
  <2> QED BY <2>2, <2>4, <2>7 DEF D
<1>3. D \in SUBSET (0..n)
  OBVIOUS
<1>4. n \in D
  <2> HIDE DEF D
  <2> QED BY <1>1, <1>2, <1>3, CountingUp DEF Counts
<1> QED BY <1>4

-----------------------------------------------------------------------------
(* The reader.                                                                             *)

\* Where the bytes of two sequences are when one follows the other.
IsJoin(u, s, t, S) ==
  /\ u \in Seq(S) /\ Len(u) = Len(s) + Len(t)
  /\ \A q \in 1..Len(s) : u[q] = s[q]
  /\ \A q \in 1..Len(t) : u[Len(s) + q] = t[q]

LEMMA Joined ==
  ASSUME NEW S, NEW s \in Seq(S), NEW t \in Seq(S)
  PROVE  IsJoin(s \o t, s, t, S)
<1>1. s \o t \in Seq(S) /\ Len(s \o t) = Len(s) + Len(t)
  OBVIOUS
<1>2. \A q \in 1..Len(s) : (s \o t)[q] = s[q]
  OBVIOUS
<1>3. \A q \in 1..Len(t) : (s \o t)[Len(s) + q] = t[q]
  OBVIOUS
<1> QED BY <1>1, <1>2, <1>3 DEF IsJoin

\* A frame that parses has one byte, and that is not junk.
LEMMA ParsesIsOne ==
  ASSUME NEW frame, Parses(frame)
  PROVE  Len(frame) = 1 /\ \A q \in 1..Len(frame) : q = 1 /\ frame[q] # Junk
<1> DEFINE one == frame[1]
<1>1. one # Junk /\ Len(frame) = 1
  BY DEF Parses
<1>2. \A q \in 1..1 : q = 1
  OBVIOUS
<1>3. \A q \in 1..Len(frame) : q = 1
  BY <1>1, <1>2
<1>4. \A q \in 1..Len(frame) : frame[q] = one
  BY <1>3, Zenon
<1> QED BY <1>1, <1>3, <1>4, Zenon

\* What the loop has made of the first n bytes when it last cut after the c-th.
IsCut(sp, bytes, n, c, S) ==
  /\ c \in 0..n
  /\ sp.rest \in Seq(S) /\ Len(sp.rest) = n - c
  /\ \A k \in 1..(n - c) : sp.rest[k] = bytes[k + c] /\ bytes[k + c] # Zero
  /\ sp.packets \in Seq(S)
  /\ \A k \in 1..Len(sp.packets) : \E i \in 1..c : sp.packets[k] = bytes[i] /\ bytes[i] \notin {Zero, Junk}
  /\ c = 0 => sp.packets = <<>>
  /\ c > 0 => bytes[c] = Zero

\* One turn of the loop.
Turned(before, byte) ==
  IF byte # Zero
  THEN [packets |-> before.packets, rest |-> Append(before.rest, byte)]
  ELSE [packets |-> IF Parses(before.rest) THEN before.packets \o before.rest ELSE before.packets,
        rest |-> <<>>]

\* The loop goes through all bytes.
Loops(so, bytes) ==
  /\ so[0] = [packets |-> <<>>, rest |-> <<>>]
  /\ \A i \in 1..Len(bytes) : so[i] = Turned(so[i - 1], bytes[i])

LEMMA SplitLoops ==
  ASSUME NEW S, NEW bytes \in Seq(S)
  PROVE  \E so : Loops(so, bytes) /\ Split(bytes) = so[Len(bytes)]
<1> DEFINE n == Len(bytes)
           T == [packets : Seq(S), rest : Seq(S)]
           none == [packets |-> <<>>, rest |-> <<>>]
           step == [i \in 1..n |-> [s \in T |-> Turned(s, bytes[i])]]
           all(k) == [i \in 0..n |-> IF i = 0 THEN none ELSE Turned(k[i - 1], bytes[i])]
           kept == CHOOSE k : k = all(k)
<1>1. n \in Nat /\ \A i \in 1..n : bytes[i] \in S
  OBVIOUS
<1>2. \A i \in 1..n, s \in T : Turned(s, bytes[i]) \in T
  <2> SUFFICES ASSUME NEW i \in 1..n, NEW s \in T PROVE Turned(s, bytes[i]) \in T
    OBVIOUS
  <2> HIDE DEF n
  <2>1. Append(s.rest, bytes[i]) \in Seq(S) /\ s.packets \o s.rest \in Seq(S) /\ <<>> \in Seq(S)
    BY <1>1
  <2> QED BY <2>1 DEF Turned
<1>3. Split(bytes) = kept[n]
  BY DEF Split, Turned
<1> HIDE DEF n
<1>4. step \in [1..n -> [T -> T]] /\ none \in T
  BY <1>2
<1>5. PICK f \in [0..n -> T] : Runs(f, step, none, n)
  <2> HIDE DEF step, T, none
  <2> QED BY <1>1, <1>4, Recursion
<1>6. f[0] = none /\ \A i \in 1..n : i - 1 \in 0..n /\ f[i] = Turned(f[i - 1], bytes[i])
  <2>1. \A i \in 1..n : i - 1 \in 0..n
    BY <1>1
  <2>2. \A i \in 1..n : f[i] = step[i][f[i - 1]] /\ f[i - 1] \in T
    <3> HIDE DEF step, T, none
    <3> QED BY <1>5, <2>1 DEF Runs
  <2> QED BY <1>5, <2>1, <2>2 DEF Runs
<1>7. f = all(f)
  <2>1. \A i \in 0..n : f[i] = IF i = 0 THEN none ELSE Turned(f[i - 1], bytes[i])
    BY <1>1, <1>6
  <2> HIDE DEF none, T
  <2> QED BY <2>1
<1>8. kept = all(kept)
  <2> HIDE DEF all
  <2> QED BY <1>7, Zenon
<1> HIDE DEF kept
<1>9. kept[0] = none /\ \A i \in 1..n : kept[i] = Turned(kept[i - 1], bytes[i])
  <2> HIDE DEF none
  <2> QED BY <1>1, <1>8, SMTT(20)
<1>10. Loops(kept, bytes)
  BY <1>9 DEF Loops, n
<1> QED BY <1>3, <1>10 DEF n

\* A byte that is not zero is kept.
LEMMA CutStays ==
  ASSUME NEW S, NEW bytes, NEW k \in Nat, NEW c \in 0..k, NEW sp, IsCut(sp, bytes, k, c, S),
         bytes[k + 1] \in S, bytes[k + 1] # Zero
  PROVE  IsCut(Turned(sp, bytes[k + 1]), bytes, k + 1, c, S)
<1> DEFINE b == bytes[k + 1]
           rest == sp.rest
           more == Append(rest, b)
<1>1. /\ rest \in Seq(S) /\ Len(rest) = k - c
      /\ \A i \in 1..(k - c) : rest[i] = bytes[i + c] /\ bytes[i + c] # Zero
  BY DEF IsCut
<1>2. Turned(sp, b) = [packets |-> sp.packets, rest |-> more]
  BY DEF Turned
<1> HIDE DEF rest
<1>3. rest \in Seq(S) /\ k - c \in Nat /\ Len(rest) = k - c /\ b \in S
  BY <1>1
<1>4. /\ more \in Seq(S) /\ Len(more) = (k - c) + 1
      /\ \A i \in 1..Len(rest) : more[i] = rest[i]
      /\ more[Len(rest) + 1] = b
  BY <1>3
<1> HIDE DEF more
<1>5. ASSUME NEW i \in 1..((k + 1) - c) PROVE more[i] = bytes[i + c] /\ bytes[i + c] # Zero
  <2>1. i \in 1..(k - c) \/ (i = (k - c) + 1 /\ i + c = k + 1)
    BY <1>3
  <2> QED BY <1>1, <1>3, <1>4, <2>1
<1>6. Len(more) = (k + 1) - c /\ c \in 0..(k + 1)
  BY <1>4
<1> HIDE DEF b
<1>7. IsCut([packets |-> sp.packets, rest |-> more], bytes, k + 1, c, S)
  <2>1. /\ sp.packets \in Seq(S)
        /\ \A i \in 1..Len(sp.packets) : \E q \in 1..c : sp.packets[i] = bytes[q] /\ bytes[q] \notin {Zero, Junk}
        /\ c = 0 => sp.packets = <<>>
        /\ c > 0 => bytes[c] = Zero
    BY DEF IsCut
  <2> QED BY <1>4, <1>5, <1>6, <2>1 DEF IsCut
<1> QED BY <1>2, <1>7 DEF b

\* At a zero byte it cuts, and what lies between two cuts is a packet or nothing.
LEMMA CutMoves ==
  ASSUME NEW S, NEW bytes, NEW k \in Nat, NEW c \in 0..k, NEW sp, IsCut(sp, bytes, k, c, S),
         bytes[k + 1] = Zero
  PROVE  IsCut(Turned(sp, bytes[k + 1]), bytes, k + 1, k + 1, S)
<1> DEFINE rest == sp.rest
           packets == sp.packets
           now == IF Parses(rest) THEN packets \o rest ELSE packets
<1>1. /\ rest \in Seq(S) /\ Len(rest) = k - c
      /\ \A i \in 1..(k - c) : rest[i] = bytes[i + c] /\ bytes[i + c] # Zero
      /\ packets \in Seq(S)
      /\ \A i \in 1..Len(packets) : \E q \in 1..c : packets[i] = bytes[q] /\ bytes[q] \notin {Zero, Junk}
  BY DEF IsCut
<1>2. Turned(sp, bytes[k + 1]) = [packets |-> now, rest |-> <<>>]
  BY DEF Turned
<1> HIDE DEF rest, packets
<1>3. rest \in Seq(S) /\ packets \in Seq(S) /\ Len(rest) = k - c /\ Len(packets) \in Nat
  BY <1>1
<1>4. now \in Seq(S)
  BY <1>3
<1>5. ASSUME NEW i \in 1..Len(now)
      PROVE  \E q \in 1..(k + 1) : now[i] = bytes[q] /\ bytes[q] \notin {Zero, Junk}
  <2>1. CASE i \in 1..Len(packets)
    <3>1. now[i] = packets[i]
      BY <2>1, <1>3
    <3>2. PICK q \in 1..c : packets[i] = bytes[q] /\ bytes[q] \notin {Zero, Junk}
      BY <2>1, <1>1
    <3>3. q \in 1..(k + 1)
      OBVIOUS
    <3> QED BY <3>1, <3>2, <3>3
  <2>2. CASE i \notin 1..Len(packets)
    <3>1. Parses(rest)
      BY <2>2
    <3>2. Len(rest) = 1 /\ \A q \in 1..Len(rest) : q = 1 /\ rest[q] # Junk
      BY <3>1, ParsesIsOne
    <3> DEFINE both == packets \o rest
    <3>3. now = both
      BY <3>1
    <3> HIDE DEF now
    <3>4. /\ Len(both) = Len(packets) + Len(rest)
          /\ \A q \in 1..Len(rest) : both[Len(packets) + q] = rest[q]
      <4>1. rest \in Seq(S) /\ packets \in Seq(S)
        BY <1>3
      <4>2. IsJoin(both, packets, rest, S)
        BY <4>1, Joined
      <4> HIDE DEF both
      <4> QED BY <4>2 DEF IsJoin
    <3> HIDE DEF both
    <3> DEFINE q == i - Len(packets)
    <3>5. q \in 1..Len(rest) /\ i = Len(packets) + q
      <4>1. i \in 1..(Len(packets) + Len(rest)) /\ Len(packets) \in Nat /\ Len(rest) \in Nat
        BY <1>3, <3>3, <3>4
      <4> QED BY <2>2, <4>1
    <3> HIDE DEF q
    <3>6. now[i] = rest[q] /\ rest[q] # Junk
      BY <3>2, <3>3, <3>4, <3>5
    <3>7. q \in 1..(k - c) /\ q + c \in 1..(k + 1)
      BY <1>3, <3>5
    <3>8. rest[q] = bytes[q + c] /\ bytes[q + c] # Zero
      BY <1>1, <3>7
    <3> QED BY <3>6, <3>7, <3>8
  <2> QED BY <2>1, <2>2
<1> HIDE DEF now
<1>6. (k + 1) - (k + 1) = 0 /\ k + 1 # 0 /\ k + 1 \in 0..(k + 1) /\ <<>> \in Seq(S) /\ Len(<<>>) = 0
  OBVIOUS
<1>7. IsCut([packets |-> now, rest |-> <<>>], bytes, k + 1, k + 1, S)
  BY <1>4, <1>5, <1>6 DEF IsCut
<1> QED BY <1>2, <1>7

\* After each turn it has cut somewhere.
LEMMA LoopCuts ==
  ASSUME NEW S, NEW bytes \in Seq(S), NEW so, Loops(so, bytes), NEW m \in 0..Len(bytes)
  PROVE  \E c \in 0..m : IsCut(so[m], bytes, m, c, S)
<1> DEFINE D == {k \in 0..m : \E c \in 0..k : IsCut(so[k], bytes, k, c, S)}
<1>1. m \in Nat /\ Len(bytes) \in Nat
  OBVIOUS
<1>2. 0 \in D
  <2>1. so[0] = [packets |-> <<>>, rest |-> <<>>]
    BY DEF Loops
  <2>2. IsCut(so[0], bytes, 0, 0, S)
    BY <2>1 DEF IsCut
  <2> QED BY <1>1, <2>2
<1>3. \A k \in 0..(m - 1) : k \in D => k + 1 \in D
  <2> SUFFICES ASSUME NEW k \in 0..(m - 1), k \in D PROVE k + 1 \in D
    OBVIOUS
  <2>1. PICK c \in 0..k : IsCut(so[k], bytes, k, c, S)
    OBVIOUS
  <2> HIDE DEF D
  <2>2. /\ k \in Nat /\ k + 1 \in 1..Len(bytes) /\ k + 1 \in 0..m /\ (k + 1) - 1 = k
        /\ c \in 0..(k + 1) /\ k + 1 \in 0..(k + 1)
    BY <1>1
  <2>3. so[k + 1] = Turned(so[k], bytes[k + 1]) /\ bytes[k + 1] \in S
    BY <2>2 DEF Loops
  <2>4. \E d \in 0..(k + 1) : IsCut(so[k + 1], bytes, k + 1, d, S)
    BY <2>1, <2>2, <2>3, CutStays, CutMoves
  <2> QED BY <2>2, <2>4 DEF D
<1>4. D \in SUBSET (0..m)
  OBVIOUS
<1>5. m \in D
  <2> HIDE DEF D
  <2> QED BY <1>1, <1>2, <1>3, <1>4, CountingUp DEF Counts
<1> QED BY <1>5

\* What is left after a cut: the bytes from the c-th on, none of them zero.
IsLeft(rest, line, c) ==
  /\ c \in 0..Len(line) /\ Len(rest) = Len(line) - c
  /\ \A k \in 1..Len(rest) : rest[k] = line[k + c] /\ rest[k] # Zero

\* The packets are among the bytes before it.
AreBefore(packets, line, c) ==
  \A k \in 1..Len(packets) : \E i \in 1..c : packets[k] = line[i] /\ line[i] \notin {Zero, Junk}

FedBy(fed, line, S) ==
  /\ fed.rest \in Seq(S) /\ fed.packets \in Seq(S) /\ Len(fed.rest) <= MaxBuffered
  /\ \E c \in 0..Len(line) : IsLeft(fed.rest, line, c) /\ AreBefore(fed.packets, line, c)

\* All but the first d bytes, and all unless there are more than it may keep.
IsEnd(bytes, line, d, S) ==
  /\ bytes \in Seq(S) /\ Len(bytes) = Len(line) - d /\ Len(bytes) <= MaxBuffered
  /\ \A k \in 1..Len(bytes) : bytes[k] = line[k + d]
  /\ d > 0 => Len(bytes) = MaxBuffered

\* What the reader keeps before it cuts.
LEMMA BufferedIs ==
  ASSUME NEW S, NEW buffer \in Seq(S), NEW chunk \in Seq(S)
  PROVE  \E d \in 0..Len(buffer \o chunk) :
           IsEnd(Buffered(buffer, chunk), buffer \o chunk, d, S)
<1> DEFINE line == buffer \o chunk
           kept == SubSeq(line, Len(line) - MaxBuffered + 1, Len(line))
<1>1. line \in Seq(S) /\ Len(line) \in Nat /\ MaxBuffered \in Nat
  BY SerialAssumption
<1>2. Buffered(buffer, chunk) = IF Len(line) > MaxBuffered THEN kept ELSE line
  BY DEF Buffered, Kept
<1> HIDE DEF line
<1>3. CASE Len(line) > MaxBuffered
  <2> DEFINE d == Len(line) - MaxBuffered
  <2>1. d \in Nat /\ d <= Len(line) /\ d + 1 \in 1..(Len(line) + 1) /\ Len(line) - d = MaxBuffered
    BY <1>1, <1>3
  <2>2. kept \in Seq(S)
    BY <1>1, <1>3
  <2>3. Len(kept) = Len(line) - d
    BY <1>1, <1>3
  <2>4. \A k \in 1..Len(kept) : kept[k] = line[k + d]
    BY <1>1, <1>3, <2>1, <2>3
  <2>5. Buffered(buffer, chunk) = kept
    BY <1>2, <1>3
  <2> HIDE DEF kept, d
  <2>6. d \in 0..Len(line)
    BY <2>1, <1>1
  <2>7. IsEnd(kept, line, d, S)
    BY <1>1, <2>1, <2>2, <2>3, <2>4 DEF IsEnd
  <2> QED BY <2>5, <2>6, <2>7 DEF line
<1>4. CASE ~(Len(line) > MaxBuffered)
  <2>1. Buffered(buffer, chunk) = line
    BY <1>2, <1>4
  <2>2. 0 \in 0..Len(line) /\ Len(line) - 0 = Len(line) /\ Len(line) <= MaxBuffered /\ ~(0 > 0)
    BY <1>1, <1>4
  <2>3. \A k \in 1..Len(line) : k + 0 = k
    BY <1>1
  <2>4. IsEnd(line, line, 0, S)
    BY <1>1, <2>2, <2>3 DEF IsEnd
  <2> QED BY <2>1, <2>2, <2>4 DEF line
<1> QED BY <1>3, <1>4

\* The reader is left with the end of what it had and got, no more than it may keep and no
\* zero byte; what it found is from before that.
LEMMA FeedIs ==
  ASSUME NEW S, NEW buffer \in Seq(S), NEW chunk \in Seq(S)
  PROVE  FedBy(Feed(buffer, chunk), buffer \o chunk, S)
<1> DEFINE line == buffer \o chunk
           bytes == Buffered(buffer, chunk)
           n == Len(bytes)
           sp == Split(bytes)
<1>0. line \in Seq(S) /\ Len(line) \in Nat /\ MaxBuffered \in Nat
  BY SerialAssumption
<1> HIDE DEF line
<1>1. PICK d \in 0..Len(line) :
        /\ bytes \in Seq(S) /\ n = Len(line) - d /\ n <= MaxBuffered
        /\ \A k \in 1..n : bytes[k] = line[k + d]
  <2>1. \E d \in 0..Len(line) : IsEnd(bytes, line, d, S)
    BY BufferedIs DEF line
  <2> HIDE DEF bytes
  <2> QED BY <2>1 DEF IsEnd
<1> HIDE DEF bytes
<1>2. n \in Nat
  BY <1>1
<1>3. \E c \in 0..n : IsCut(sp, bytes, n, c, S)
  <2>1. PICK so : Loops(so, bytes) /\ sp = so[n]
    BY <1>1, SplitLoops
  <2> HIDE DEF sp
  <2>2. n \in 0..n
    BY <1>2
  <2> QED BY <1>1, <2>1, <2>2, LoopCuts
<1>4. PICK c \in 0..n : IsCut(sp, bytes, n, c, S)
  BY <1>3
<1> HIDE DEF sp
<1> DEFINE rest == sp.rest
           packets == sp.packets
<1>5. /\ rest \in Seq(S) /\ Len(rest) = n - c
      /\ \A k \in 1..(n - c) : rest[k] = bytes[k + c] /\ bytes[k + c] # Zero
      /\ packets \in Seq(S)
      /\ \A k \in 1..Len(packets) : \E i \in 1..c : packets[k] = bytes[i] /\ bytes[i] \notin {Zero, Junk}
  BY <1>4 DEF IsCut
<1> HIDE DEF n
<1>6. /\ c + d \in 0..Len(line) /\ Len(rest) = Len(line) - (c + d) /\ Len(rest) <= MaxBuffered
      /\ n - c \in Nat /\ c \in Nat /\ d \in Nat /\ n \in Nat
  BY <1>0, <1>1, <1>2, <1>5
<1>7. \A k \in 1..Len(rest) : rest[k] = line[k + (c + d)] /\ rest[k] # Zero
  <2> SUFFICES ASSUME NEW k \in 1..Len(rest) PROVE rest[k] = line[k + (c + d)] /\ rest[k] # Zero
    OBVIOUS
  <2> HIDE DEF rest
  <2>1. k \in 1..(n - c)
    BY <1>5
  <2>2. k + c \in 1..n /\ (k + c) + d = k + (c + d)
    BY <2>1, <1>6
  <2>3. rest[k] = bytes[k + c] /\ bytes[k + c] # Zero
    BY <1>5, <2>1
  <2>4. bytes[k + c] = line[(k + c) + d]
    BY <1>1, <2>2
  <2> QED BY <2>2, <2>3, <2>4
<1>8. AreBefore(packets, line, c + d)
  <2> SUFFICES ASSUME NEW k \in 1..Len(packets)
               PROVE  \E i \in 1..(c + d) : packets[k] = line[i] /\ line[i] \notin {Zero, Junk}
    BY DEF AreBefore
  <2> HIDE DEF packets
  <2>1. PICK i \in 1..c : packets[k] = bytes[i] /\ bytes[i] \notin {Zero, Junk}
    BY <1>5
  <2>2. i \in 1..n /\ i + d \in 1..(c + d)
    BY <1>6
  <2>3. bytes[i] = line[i + d]
    BY <1>1, <2>2
  <2> QED BY <2>1, <2>2, <2>3
<1> HIDE DEF rest, packets
<1>9. IsLeft(rest, line, c + d)
  BY <1>6, <1>7 DEF IsLeft
<1>10. Feed(buffer, chunk) = sp
  BY DEF Feed, sp, bytes
<1>11. \E e \in 0..Len(line) : IsLeft(sp.rest, line, e) /\ AreBefore(sp.packets, line, e)
  BY <1>6, <1>8, <1>9 DEF rest, packets
<1>12. sp.rest \in Seq(S) /\ sp.packets \in Seq(S) /\ Len(sp.rest) <= MaxBuffered
  BY <1>5, <1>6 DEF rest, packets
<1>13. FedBy(sp, line, S)
  BY <1>11, <1>12 DEF FedBy
<1> QED BY <1>10, <1>13 DEF line

\* The arm reads one byte after the other.  What it gets is kept, less the oldest byte if it
\* has as many as it may.
LEMMA FeedKeeps ==
  ASSUME NEW S, NEW buffer \in Seq(S), Len(buffer) <= MaxBuffered,
         \A k \in 1..Len(buffer) : buffer[k] # Zero, NEW b \in S, b # Zero
  PROVE  /\ Feed(buffer, <<b>>).packets = <<>>
         /\ \E d \in 0..1 : /\ IsLeft(Feed(buffer, <<b>>).rest, buffer \o <<b>>, d)
                            /\ d = 1 => Len(buffer) = MaxBuffered
<1> DEFINE line == buffer \o <<b>>
           bytes == Buffered(buffer, <<b>>)
           n == Len(bytes)
           sp == Split(bytes)
<1>1. <<b>> \in Seq(S) /\ Len(<<b>>) = 1 /\ <<b>>[1] = b
  OBVIOUS
<1>2. /\ line \in Seq(S) /\ Len(line) = Len(buffer) + 1 /\ Len(buffer) \in Nat /\ MaxBuffered \in Nat
      /\ \A k \in 1..Len(line) : line[k] # Zero
  <2>1. \A k \in 1..Len(line) : line[k] = IF k <= Len(buffer) THEN buffer[k] ELSE b
    OBVIOUS
  <2>2. line \in Seq(S) /\ Len(line) = Len(buffer) + 1 /\ Len(buffer) \in Nat /\ MaxBuffered \in Nat
    BY SerialAssumption
  <2> HIDE DEF line
  <2> QED BY <2>1, <2>2
<1>3. PICK d \in 0..Len(line) :
        /\ bytes \in Seq(S) /\ n = Len(line) - d /\ n <= MaxBuffered
        /\ \A k \in 1..n : bytes[k] = line[k + d]
        /\ d > 0 => n = MaxBuffered
  <2>1. \E d \in 0..Len(line) : IsEnd(bytes, line, d, S)
    BY <1>1, BufferedIs
  <2> HIDE DEF line, bytes
  <2> QED BY <2>1 DEF IsEnd
<1> HIDE DEF line, bytes
<1>4. n \in Nat /\ d \in 0..1 /\ (d = 1 => Len(buffer) = MaxBuffered)
  BY <1>2, <1>3
<1>5. \E c \in 0..n : IsCut(sp, bytes, n, c, S)
  <2>1. PICK so : Loops(so, bytes) /\ sp = so[n]
    BY <1>3, SplitLoops
  <2> HIDE DEF sp
  <2>2. n \in 0..n
    BY <1>4
  <2> QED BY <1>3, <2>1, <2>2, LoopCuts
<1>6. PICK c \in 0..n : IsCut(sp, bytes, n, c, S)
  BY <1>5
<1> HIDE DEF sp
<1>7. c = 0
  <2> SUFFICES ASSUME c > 0 PROVE FALSE
    BY <1>4
  <2>1. c \in 1..n /\ c + d \in 1..Len(line)
    BY <1>2, <1>3, <1>4
  <2>2. bytes[c] = Zero
    BY <1>6 DEF IsCut
  <2> QED BY <1>2, <1>3, <2>1, <2>2
<1>8. /\ sp.packets = <<>> /\ Len(sp.rest) = n
      /\ \A k \in 1..n : sp.rest[k] = bytes[k] /\ bytes[k] # Zero
  <2>1. /\ sp.packets = <<>> /\ Len(sp.rest) = n - 0
        /\ \A k \in 1..(n - 0) : sp.rest[k] = bytes[k + 0] /\ bytes[k + 0] # Zero
    BY <1>6, <1>7 DEF IsCut
  <2>2. n - 0 = n /\ \A k \in 1..n : k + 0 = k
    BY <1>4
  <2> HIDE DEF n
  <2> QED BY <2>1, <2>2
<1>9. IsLeft(sp.rest, line, d)
  BY <1>3, <1>8 DEF IsLeft
<1>10. Feed(buffer, <<b>>) = sp
  BY DEF Feed, sp, bytes
<1> QED BY <1>4, <1>8, <1>9, <1>10 DEF line

\* At a zero byte nothing is kept, and what was there is a packet if it is one byte that is
\* not junk.
LEMMA FeedCuts ==
  ASSUME NEW S, NEW buffer \in Seq(S), Len(buffer) <= MaxBuffered,
         \A k \in 1..Len(buffer) : buffer[k] # Zero, Zero \in S
  PROVE  /\ Feed(buffer, <<Zero>>).rest = <<>>
         /\ Feed(buffer, <<Zero>>).packets = IF Parses(buffer) THEN buffer ELSE <<>>
<1> DEFINE line == buffer \o <<Zero>>
           bytes == Buffered(buffer, <<Zero>>)
           n == Len(bytes)
           sp == Split(bytes)
<1>1. <<Zero>> \in Seq(S) /\ Len(<<Zero>>) = 1 /\ <<Zero>>[1] = Zero
  OBVIOUS
<1>2. /\ line \in Seq(S) /\ Len(line) = Len(buffer) + 1 /\ Len(buffer) \in Nat /\ MaxBuffered \in Nat
      /\ 2 < MaxBuffered
      /\ \A k \in 1..Len(buffer) : line[k] = buffer[k] /\ line[k] # Zero
      /\ line[Len(buffer) + 1] = Zero
  <2>1. \A k \in 1..Len(line) : line[k] = IF k <= Len(buffer) THEN buffer[k] ELSE Zero
    OBVIOUS
  <2>2. line \in Seq(S) /\ Len(line) = Len(buffer) + 1 /\ Len(buffer) \in Nat /\ MaxBuffered \in Nat
    BY SerialAssumption
  <2> HIDE DEF line
  <2> QED BY <2>1, <2>2, SerialAssumption
<1>3. PICK d \in 0..Len(line) :
        /\ bytes \in Seq(S) /\ n = Len(line) - d /\ n <= MaxBuffered
        /\ \A k \in 1..n : bytes[k] = line[k + d]
        /\ d > 0 => n = MaxBuffered
  <2>1. \E d \in 0..Len(line) : IsEnd(bytes, line, d, S)
    BY <1>1, BufferedIs
  <2> HIDE DEF line, bytes
  <2> QED BY <2>1 DEF IsEnd
<1> HIDE DEF line, bytes
<1>4. n \in Nat /\ n > 0 /\ d \in 0..1 /\ (d = 1 => Len(buffer) = MaxBuffered)
  BY <1>2, <1>3
<1>5. PICK so : Loops(so, bytes) /\ sp = so[n]
  BY <1>3, SplitLoops
<1> HIDE DEF sp, n
<1> DEFINE m == n - 1
<1>6. m \in 0..n /\ m + 1 = n /\ n \in 1..n /\ m + d = Len(buffer)
  BY <1>2, <1>3, <1>4
<1>7. bytes[n] = Zero /\ \A k \in 1..m : bytes[k] = buffer[k + d] /\ bytes[k] # Zero
  <2>1. n + d = Len(buffer) + 1
    BY <1>2, <1>3
  <2>2. \A k \in 1..m : k \in 1..n /\ k + d \in 1..Len(buffer)
    BY <1>4, <1>6
  <2> HIDE DEF m
  <2> QED BY <1>2, <1>3, <1>6, <2>1, <2>2
<1> DEFINE before == so[m]
<1>8. sp = Turned(before, Zero)
  <2>1. \A i \in 1..n : so[i] = Turned(so[i - 1], bytes[i])
    BY <1>5 DEF Loops, n
  <2> QED BY <1>5, <1>6, <1>7, <2>1
<1> HIDE DEF m
<1>9. PICK c \in 0..m : IsCut(before, bytes, m, c, S)
  <2>1. m \in 0..Len(bytes)
    BY <1>6 DEF n
  <2> QED BY <1>3, <1>5, <2>1, LoopCuts
<1> HIDE DEF before
<1>10. c = 0
  <2> SUFFICES ASSUME c > 0 PROVE FALSE
    BY <1>6
  <2>1. c \in 1..m
    BY <1>6
  <2>2. bytes[c] = Zero
    BY <1>9 DEF IsCut
  <2> QED BY <1>7, <2>1, <2>2
<1> DEFINE rest == before.rest
<1>11. /\ before.packets = <<>> /\ rest \in Seq(S) /\ Len(rest) = m
       /\ \A k \in 1..m : rest[k] = bytes[k]
  <2>1. /\ before.packets = <<>> /\ rest \in Seq(S) /\ Len(rest) = m - 0
        /\ \A k \in 1..(m - 0) : rest[k] = bytes[k + 0] /\ bytes[k + 0] # Zero
    BY <1>9, <1>10 DEF IsCut
  <2>2. m - 0 = m /\ \A k \in 1..m : k + 0 = k
    BY <1>6
  <2> QED BY <2>1, <2>2
<1> HIDE DEF rest
<1>12. (IF Parses(rest) THEN rest ELSE <<>>) = (IF Parses(buffer) THEN buffer ELSE <<>>)
  <2>1. CASE d = 0
    <3>1. Len(rest) = Len(buffer) /\ \A k \in 1..Len(buffer) : rest[k] = buffer[k]
      <4>1. \A k \in 1..m : k + d = k
        BY <1>4, <2>1
      <4>2. m = Len(buffer)
        BY <1>2, <1>6, <2>1
      <4> QED BY <1>7, <1>11, <4>1, <4>2
    <3>2. rest = buffer
      BY <1>11, <3>1
    <3> QED BY <3>2
  <2>2. CASE d = 1
    <3>1. Len(rest) # 1 /\ Len(buffer) # 1
      BY <1>2, <1>4, <1>6, <1>11, <2>2
    <3>2. ~Parses(rest) /\ ~Parses(buffer)
      BY <3>1 DEF Parses
    <3> QED BY <3>2
  <2> QED BY <1>4, <2>1, <2>2
<1>13. sp.rest = <<>> /\ sp.packets = IF Parses(rest) THEN before.packets \o rest ELSE before.packets
  BY <1>8 DEF Turned, rest
<1>14. <<>> \o rest = rest
  BY <1>11
<1>15. Feed(buffer, <<Zero>>) = sp
  BY DEF Feed, sp, bytes
<1> QED BY <1>11, <1>12, <1>13, <1>14, <1>15
-----------------------------------------------------------------------------
(* The two directions of the line, and what a step makes of them.                          *)

\* The end of a sequence, from after its c-th byte on.
IsTail(s, t, c) ==
  /\ c \in 0..Len(t) /\ Len(s) = Len(t) - c
  /\ \A k \in 1..Len(s) : k + c \in 1..Len(t) /\ s[k] = t[k + c]

\* The reader takes the first bytes that are on the line: of all there is, the end is left.
LEMMA ReadTakes ==
  ASSUME NEW S, NEW buffer \in Seq(S), NEW wire \in Seq(S), NEW count \in 1..Len(wire),
         NEW rest \in Seq(S), NEW c, IsLeft(rest, buffer \o SubSeq(wire, 1, count), c)
  PROVE  /\ IsTail(rest \o SubSeq(wire, count + 1, Len(wire)), buffer \o wire, c)
         /\ \A i \in 1..c : /\ i \in 1..Len(buffer \o wire)
                            /\ (buffer \o SubSeq(wire, 1, count))[i] = (buffer \o wire)[i]
<1> DEFINE read == SubSeq(wire, 1, count)
           unread == SubSeq(wire, count + 1, Len(wire))
           line == buffer \o read
           old == buffer \o wire
           new == rest \o unread
           B == Len(buffer)
           W == Len(wire)
           R == Len(rest)
<1>1. read \in Seq(S) /\ Len(read) = count /\ \A k \in 1..count : read[k] = wire[k]
  OBVIOUS
<1>2. unread \in Seq(S) /\ Len(unread) = W - count /\ \A k \in 1..(W - count) : unread[k] = wire[k + count]
  OBVIOUS
<1> HIDE DEF read, unread
<1>3. /\ line \in Seq(S) /\ Len(line) = B + Len(read)
      /\ \A q \in 1..B : line[q] = buffer[q]
      /\ \A q \in 1..Len(read) : line[B + q] = read[q]
  <2>1. read \in Seq(S)
    BY <1>1
  <2>2. IsJoin(line, buffer, read, S)
    BY <2>1, Joined
  <2> QED BY <2>2 DEF IsJoin
<1>4. /\ old \in Seq(S) /\ Len(old) = B + W
      /\ \A q \in 1..B : old[q] = buffer[q]
      /\ \A q \in 1..W : old[B + q] = wire[q]
  BY Joined DEF IsJoin
<1>5. /\ new \in Seq(S) /\ Len(new) = R + Len(unread)
      /\ \A q \in 1..R : new[q] = rest[q]
      /\ \A q \in 1..Len(unread) : new[R + q] = unread[q]
  <2>1. unread \in Seq(S)
    BY <1>2
  <2>2. IsJoin(new, rest, unread, S)
    BY <2>1, Joined
  <2> QED BY <2>2 DEF IsJoin
<1>6. c \in 0..Len(line) /\ R = Len(line) - c /\ \A k \in 1..R : rest[k] = line[k + c]
  BY DEF IsLeft, line, read
<1>7. B \in Nat /\ W \in Nat /\ R \in Nat /\ count \in Nat /\ count <= W
  OBVIOUS
<1> HIDE DEF line, old, new, B, W, R
<1>8. Len(line) = B + count /\ Len(old) = B + W /\ c \in Nat /\ c <= B + count /\ R = (B + count) - c
  BY <1>1, <1>3, <1>4, <1>6, <1>7
<1>9. ASSUME NEW i \in 1..(B + count) PROVE i \in 1..Len(old) /\ line[i] = old[i]
  <2>1. CASE i \in 1..B
    BY <2>1, <1>3, <1>4, <1>7, SMTT(20)
  <2>2. CASE i \notin 1..B
    <3> DEFINE q == i - B
    <3>1. q \in 1..count /\ q \in 1..W /\ i = B + q
      BY <2>2, <1>7
    <3> HIDE DEF q
    <3>2. line[i] = read[q] /\ old[i] = wire[q] /\ read[q] = wire[q]
      BY <1>1, <1>3, <1>4, <3>1
    <3>3. i \in 1..Len(old)
      BY <1>7, <1>8
    <3> QED BY <3>2, <3>3
  <2> QED BY <2>1, <2>2
<1>10. Len(new) = Len(old) - c
  BY <1>2, <1>5, <1>7, <1>8
<1>11. ASSUME NEW k \in 1..Len(new) PROVE k + c \in 1..Len(old) /\ new[k] = old[k + c]
  <2>1. k + c \in 1..Len(old)
    BY <1>7, <1>8, <1>10
  <2>2. CASE k \in 1..R
    <3>1. k + c \in 1..(B + count)
      BY <2>2, <1>7, <1>8
    <3>2. new[k] = rest[k] /\ rest[k] = line[k + c] /\ line[k + c] = old[k + c]
      BY <2>2, <3>1, <1>5, <1>6, <1>9
    <3> QED BY <2>1, <3>2
  <2>3. CASE k \notin 1..R
    <3> DEFINE q == k - R
    <3>1. q \in 1..(W - count) /\ k = R + q /\ q + count \in 1..W /\ k + c = B + (q + count)
      BY <2>3, <1>2, <1>5, <1>7, <1>8, <1>10
    <3> HIDE DEF q
    <3>2. new[k] = unread[q] /\ unread[q] = wire[q + count] /\ old[k + c] = wire[q + count]
      BY <3>1, <1>2, <1>4, <1>5
    <3> QED BY <2>1, <3>2
  <2> QED BY <2>2, <2>3
<1>12. c \in 0..Len(old)
  BY <1>7, <1>8
<1>13. IsTail(new, old, c)
  BY <1>10, <1>11, <1>12 DEF IsTail
<1>14. \A i \in 1..c : i \in 1..Len(old) /\ line[i] = old[i]
  <2>1. \A i \in 1..c : i \in 1..(B + count)
    BY <1>7, <1>8
  <2> QED BY <2>1, <1>9
<1> QED BY <1>13, <1>14 DEF new, old, line, read, unread, W

\* A packet is neither of the other bytes.
LEMMA PacketIsNoOther ==
  ASSUME NEW p, IsPacket(p)
  PROVE  p # Zero /\ p # Junk /\ p \in Bytes
BY SerialAssumption DEF IsPacket, Bytes

\* What was there before, and what a frame adds: a packet and a zero byte, or neither.
IsGrown(new, old, p, way) ==
  /\ new \in Seq(Bytes) /\ Len(old) <= Len(new)
  /\ \A k \in 1..Len(old) : new[k] = old[k]
  /\ \A k \in 1..Len(new) :
       k > Len(old) => new[k] \in {Zero, Junk} \/ (k = Len(old) + 1 /\ new[k] = p /\ way = "whole")
  /\ way = "whole" => /\ Len(new) = Len(old) + 2
                      /\ new[Len(old) + 1] = p /\ new[Len(old) + 2] = Zero

LEMMA FrameIs ==
  ASSUME NEW p, NEW way \in {"whole"} \cup Faults, way = "whole" => IsPacket(p)
  PROVE  /\ Frame(p, way) \in Seq(Bytes)
         /\ \A k \in 1..Len(Frame(p, way)) :
              Frame(p, way)[k] \in {Zero, Junk} \/ (k = 1 /\ Frame(p, way)[k] = p /\ way = "whole")
         /\ way = "whole" => /\ Len(Frame(p, way)) = 2
                             /\ \A k \in 1..2 : Frame(p, way)[k] = IF k = 1 THEN p ELSE Zero
<1>0. Zero \in Bytes /\ Junk \in Bytes
  BY DEF Bytes
<1>1. CASE way = "whole"
  <2> DEFINE f == <<p, Zero>>
  <2>1. Frame(p, way) = f
    BY <1>1 DEF Frame
  <2>2. p \in Bytes
    BY <1>1, PacketIsNoOther
  <2>3. f \in Seq(Bytes) /\ Len(f) = 2 /\ \A k \in 1..2 : f[k] = IF k = 1 THEN p ELSE Zero
    BY <1>0, <2>2
  <2> HIDE DEF f
  <2> QED BY <1>1, <2>1, <2>3
<1>2. CASE way = "damaged"
  <2> DEFINE f == <<Junk, Zero>>
  <2>1. Frame(p, way) = f
    BY <1>2 DEF Frame
  <2>3. f \in Seq(Bytes) /\ Len(f) = 2 /\ \A k \in 1..2 : f[k] \in {Zero, Junk}
    BY <1>0
  <2> HIDE DEF f
  <2> QED BY <1>2, <2>1, <2>3
<1>3. CASE way = "short"
  <2> DEFINE f == <<Junk>>
  <2>1. Frame(p, way) = f
    BY <1>3 DEF Frame
  <2>3. f \in Seq(Bytes) /\ Len(f) = 1 /\ \A k \in 1..1 : f[k] \in {Zero, Junk}
    BY <1>0
  <2> HIDE DEF f
  <2> QED BY <1>3, <2>1, <2>3
<1>4. CASE way = "lost"
  <2> DEFINE f == Frame(p, way)
  <2>1. f = <<>>
    BY <1>4 DEF Frame
  <2> HIDE DEF f
  <2>2. f \in Seq(Bytes) /\ Len(f) = 0 /\ \A k \in 1..Len(f) : FALSE
    BY <2>1
  <2>3. way # "whole"
    BY <1>4
  <2> QED BY <2>2, <2>3 DEF f
<1> QED BY <1>1, <1>2, <1>3, <1>4 DEF Faults

LEMMA FrameGrows ==
  ASSUME NEW old \in Seq(Bytes), NEW p, NEW way \in {"whole"} \cup Faults, way = "whole" => IsPacket(p)
  PROVE  IsGrown(old \o Frame(p, way), old, p, way)
<1> DEFINE f == Frame(p, way)
           new == old \o f
           n == Len(old)
<1>1. /\ f \in Seq(Bytes)
      /\ \A k \in 1..Len(f) : f[k] \in {Zero, Junk} \/ (k = 1 /\ f[k] = p /\ way = "whole")
      /\ way = "whole" => Len(f) = 2 /\ \A k \in 1..2 : f[k] = IF k = 1 THEN p ELSE Zero
  BY FrameIs
<1> HIDE DEF f
<1>2. IsJoin(new, old, f, Bytes)
  <2>1. f \in Seq(Bytes)
    BY <1>1
  <2> QED BY <2>1, Joined
<1> HIDE DEF new
<1>3. /\ new \in Seq(Bytes) /\ Len(new) = n + Len(f)
      /\ \A q \in 1..n : new[q] = old[q]
      /\ \A q \in 1..Len(f) : new[n + q] = f[q]
  BY <1>2 DEF IsJoin
<1>4. n \in Nat /\ Len(f) \in Nat
  BY <1>1
<1> HIDE DEF n
<1>5. ASSUME NEW k \in 1..Len(new), k > n
      PROVE  new[k] \in {Zero, Junk} \/ (k = n + 1 /\ new[k] = p /\ way = "whole")
  <2> DEFINE q == k - n
  <2>1. q \in 1..Len(f) /\ k = n + q
    BY <1>3, <1>4, <1>5
  <2> HIDE DEF q
  <2>2. f[q] \in {Zero, Junk} \/ (q = 1 /\ f[q] = p /\ way = "whole")
    BY <1>1, <2>1
  <2> QED BY <1>3, <1>4, <2>1, <2>2
<1>6. ASSUME way = "whole" PROVE Len(new) = n + 2 /\ new[n + 1] = p /\ new[n + 2] = Zero
  <2>1. Len(f) = 2 /\ \A k \in 1..2 : f[k] = IF k = 1 THEN p ELSE Zero
    BY <1>1, <1>6
  <2>2. \A q \in 1..2 : new[n + q] = f[q] /\ f[q] = IF q = 1 THEN p ELSE Zero
    BY <1>3, <2>1
  <2>3. new[n + 1] = p /\ new[n + 2] = Zero
    <3>1. 1 \in 1..2 /\ 2 \in 1..2 /\ 2 # 1
      OBVIOUS
    <3> QED BY <2>2, <3>1, Zenon
  <2> QED BY <1>3, <2>1, <2>3
<1>7. n <= Len(new)
  BY <1>3, <1>4
<1> QED BY <1>3, <1>5, <1>6, <1>7 DEF IsGrown, n, new, f
-----------------------------------------------------------------------------
(* The order of what is under way.                                                         *)

\* What is about a request is a packet, a number of requests behind.
LEMMA AboutIsPacket ==
  ASSUME NEW byte \in Bytes, NEW what, About(byte, what)
  PROVE  IsPacket(byte) /\ byte.behind \in Nat
BY DEF About, Bytes, Packets, IsPacket

\* Whatever is about a request was there before, c places later.
IsWithin(new, old, c, what) ==
  \A k \in 1..Len(new) : About(new[k], what) => k + c \in 1..Len(old) /\ old[k + c] = new[k]

LEMMA LagsWithin ==
  ASSUME NEW in \in Seq(Bytes), NEW out \in Seq(Bytes), NEW c \in Int, NEW d \in Int,
         NEW in2 \in Seq(Bytes), NEW out2 \in Seq(Bytes), NEW j,
         IsWithin(in2, in, c, PositionOf(j)), IsWithin(out2, out, d, PositionOf(j)),
         NEW most \in Int, NEW most2 \in Int, most <= most2, Lags(in, out, j, most)
  PROVE  Lags(in2, out2, j, most2)
<1> DEFINE of == PositionOf(j)
           I == 1..Len(in)
           O == 1..Len(out)
           I2 == 1..Len(in2)
           O2 == 1..Len(out2)
<1>0. DOMAIN in = I /\ DOMAIN out = O /\ DOMAIN in2 = I2 /\ DOMAIN out2 = O2
  OBVIOUS
<1>1. \A k \in I2 : About(in2[k], of) => k + c \in I /\ in[k + c] = in2[k] /\ in2[k].behind \in Nat
  <2> SUFFICES ASSUME NEW k \in I2, About(in2[k], of)
               PROVE  k + c \in I /\ in[k + c] = in2[k] /\ in2[k].behind \in Nat
    OBVIOUS
  <2>1. in2[k] \in Bytes
    OBVIOUS
  <2>2. in2[k].behind \in Nat
    BY <2>1, AboutIsPacket
  <2> QED BY <2>2 DEF IsWithin
<1>2. \A k \in O2 : About(out2[k], of) => k + d \in O /\ out[k + d] = out2[k] /\ out2[k].behind \in Nat
  <2> SUFFICES ASSUME NEW k \in O2, About(out2[k], of)
               PROVE  k + d \in O /\ out[k + d] = out2[k] /\ out2[k].behind \in Nat
    OBVIOUS
  <2>1. out2[k] \in Bytes
    OBVIOUS
  <2>2. out2[k].behind \in Nat
    BY <2>1, AboutIsPacket
  <2> QED BY <2>2 DEF IsWithin
<1>3. /\ \A i, k \in I : i < k /\ About(in[i], of) /\ About(in[k], of) => in[i].behind > in[k].behind
      /\ \A i, k \in O : i < k /\ About(out[i], of) /\ About(out[k], of) => out[i].behind > out[k].behind
      /\ \A i \in I, k \in O : About(in[i], of) /\ About(out[k], of) => in[i].behind > out[k].behind
      /\ \A i \in I : About(in[i], of) => in[i].behind <= most
      /\ \A i \in O : About(out[i], of) => out[i].behind <= most
  BY <1>0 DEF Lags
<1>4. \A i, k \in Int : i < k => i + c < k + c /\ i + d < k + d
  OBVIOUS
<1>5. I2 \subseteq Int /\ O2 \subseteq Int
  OBVIOUS
<1> HIDE DEF I, O, I2, O2, of
<1>6. \A i, k \in I2 : i < k /\ About(in2[i], of) /\ About(in2[k], of) => in2[i].behind > in2[k].behind
  BY <1>1, <1>3, <1>4, <1>5
<1>7. \A i, k \in O2 : i < k /\ About(out2[i], of) /\ About(out2[k], of) => out2[i].behind > out2[k].behind
  BY <1>2, <1>3, <1>4, <1>5
<1>8. \A i \in I2, k \in O2 : About(in2[i], of) /\ About(out2[k], of) => in2[i].behind > out2[k].behind
  BY <1>1, <1>2, <1>3
<1>9. ASSUME NEW i \in I2, About(in2[i], of) PROVE in2[i].behind <= most2
  <2>1. i + c \in I /\ in[i + c] = in2[i] /\ in2[i].behind \in Nat
    BY <1>1, <1>9
  <2>2. in[i + c].behind <= most
    BY <1>3, <1>9, <2>1
  <2> QED BY <2>1, <2>2
<1>10. ASSUME NEW i \in O2, About(out2[i], of) PROVE out2[i].behind <= most2
  <2>1. i + d \in O /\ out[i + d] = out2[i] /\ out2[i].behind \in Nat
    BY <1>2, <1>10
  <2>2. out[i + d].behind <= most
    BY <1>3, <1>10, <2>1
  <2> QED BY <2>1, <2>2
<1> QED BY <1>0, <1>6, <1>7, <1>8, <1>9, <1>10 DEF Lags, of

\* Nothing about a joint is anything behind.
LEMMA LagsOfNone ==
  ASSUME NEW in, NEW out, NEW j, NEW most,
         \A i \in DOMAIN in : ~About(in[i], PositionOf(j)),
         \A i \in DOMAIN out : ~About(out[i], PositionOf(j))
  PROVE  Lags(in, out, j, most)
BY DEF Lags

\* What comes after a packet that was read is younger.
LEMMA LagsAfterReply ==
  ASSUME NEW in \in Seq(Bytes), NEW out \in Seq(Bytes), NEW in2 \in Seq(Bytes), NEW c, IsTail(in2, in, c),
         NEW j, NEW most \in Int, Lags(in, out, j, most),
         NEW i \in 1..c, About(in[i], PositionOf(j))
  PROVE  in[i].behind \in Nat /\ in[i].behind <= most /\ Lags(in2, out, j, in[i].behind - 1)
<1> DEFINE of == PositionOf(j)
           I == 1..Len(in)
           O == 1..Len(out)
           I2 == 1..Len(in2)
<1>0. DOMAIN in = I /\ DOMAIN out = O /\ DOMAIN in2 = I2 /\ I \subseteq Int /\ I2 \subseteq Int
  OBVIOUS
<1>1. c \in Nat /\ c <= Len(in) /\ i \in I /\ \A k \in I2 : k + c \in I /\ in2[k] = in[k + c] /\ i < k + c
  BY DEF IsTail
<1>2. \A k \in I : About(in[k], of) => in[k].behind \in Nat
  <2> SUFFICES ASSUME NEW k \in I, About(in[k], of) PROVE in[k].behind \in Nat
    OBVIOUS
  <2>1. in[k] \in Bytes
    OBVIOUS
  <2> QED BY <2>1, AboutIsPacket
<1>3. \A k \in O : About(out[k], of) => out[k].behind \in Nat
  <2> SUFFICES ASSUME NEW k \in O, About(out[k], of) PROVE out[k].behind \in Nat
    OBVIOUS
  <2>1. out[k] \in Bytes
    OBVIOUS
  <2> QED BY <2>1, AboutIsPacket
<1>4. /\ \A q, k \in I : q < k /\ About(in[q], of) /\ About(in[k], of) => in[q].behind > in[k].behind
      /\ \A q, k \in O : q < k /\ About(out[q], of) /\ About(out[k], of) => out[q].behind > out[k].behind
      /\ \A q \in I, k \in O : About(in[q], of) /\ About(out[k], of) => in[q].behind > out[k].behind
      /\ \A q \in I : About(in[q], of) => in[q].behind <= most
  BY <1>0 DEF Lags
<1>5. \A q, k \in I2 : q < k => q + c < k + c
  BY <1>0, <1>1
<1>6. About(in[i], of)
  OBVIOUS
<1> HIDE DEF I, O, I2, of
<1>7. in[i].behind \in Nat /\ in[i].behind <= most
  BY <1>1, <1>2, <1>4, <1>6
<1>8. \A q, k \in I2 : q < k /\ About(in2[q], of) /\ About(in2[k], of) => in2[q].behind > in2[k].behind
  BY <1>1, <1>4, <1>5
<1>9. \A q \in I2, k \in O : About(in2[q], of) /\ About(out[k], of) => in2[q].behind > out[k].behind
  BY <1>1, <1>4
<1> DEFINE b == in[i].behind
<1>10. \A k \in I : i < k /\ About(in[k], of) => b > in[k].behind
  BY <1>1, <1>4, <1>6
<1>11. \A k \in O : About(out[k], of) => b > out[k].behind
  BY <1>1, <1>4, <1>6
<1>12. b \in Nat
  BY <1>7
<1> HIDE DEF b
<1>13. \A q \in I2 : About(in2[q], of) => in2[q].behind <= b - 1
  <2> SUFFICES ASSUME NEW q \in I2, About(in2[q], of) PROVE in2[q].behind <= b - 1
    OBVIOUS
  <2>1. in2[q].behind \in Nat /\ b > in2[q].behind
    BY <1>1, <1>2, <1>10
  <2> QED BY <1>12, <2>1
<1>14. \A k \in O : About(out[k], of) => out[k].behind <= b - 1
  BY <1>3, <1>11, <1>12
<1>15. Lags(in2, out, j, b - 1)
  BY <1>0, <1>4, <1>8, <1>9, <1>13, <1>14 DEF Lags, of
<1> QED BY <1>7, <1>15 DEF b

\* A reply takes the place of its request.
LEMMA LagsWithReply ==
  ASSUME NEW in \in Seq(Bytes), NEW out \in Seq(Bytes), NEW out2 \in Seq(Bytes), NEW d, IsTail(out2, out, d),
         NEW in2, NEW p, NEW way, IsGrown(in2, in, p, way), NEW j, NEW most \in Int,
         Lags(in, out, j, most), NEW i \in 1..d,
         About(p, PositionOf(j)) => About(out[i], PositionOf(j)) /\ p.behind = out[i].behind
  PROVE  Lags(in2, out2, j, most)
<1> DEFINE of == PositionOf(j)
           n == Len(in)
           I == 1..n
           O == 1..Len(out)
           I2 == 1..Len(in2)
           O2 == 1..Len(out2)
<1>0. /\ DOMAIN in = I /\ DOMAIN out = O /\ DOMAIN in2 = I2 /\ DOMAIN out2 = O2
      /\ n \in Nat /\ I2 \subseteq Int /\ O2 \subseteq Int /\ O \subseteq Int
  BY DEF IsGrown
<1>1. d \in Nat /\ d <= Len(out) /\ i \in O /\ \A k \in O2 : k + d \in O /\ out2[k] = out[k + d] /\ i < k + d
  BY DEF IsTail
<1>2. \A k \in I2 : About(in2[k], of) => (k \in I /\ in2[k] = in[k]) \/ (k = n + 1 /\ in2[k] = p)
  <2> SUFFICES ASSUME NEW k \in I2, About(in2[k], of)
               PROVE  (k \in I /\ in2[k] = in[k]) \/ (k = n + 1 /\ in2[k] = p)
    OBVIOUS
  <2>1. in2[k] \notin {Zero, Junk}
    BY DEF About
  <2>2. k \in I => in2[k] = in[k]
    BY DEF IsGrown
  <2>3. k > n => k = n + 1 /\ in2[k] = p
    BY <2>1 DEF IsGrown
  <2> QED BY <2>2, <2>3, <1>0
<1>3. \A k \in O : About(out[k], of) => out[k].behind \in Nat
  <2> SUFFICES ASSUME NEW k \in O, About(out[k], of) PROVE out[k].behind \in Nat
    OBVIOUS
  <2>1. out[k] \in Bytes
    OBVIOUS
  <2> QED BY <2>1, AboutIsPacket
<1>4. /\ \A q, k \in I : q < k /\ About(in[q], of) /\ About(in[k], of) => in[q].behind > in[k].behind
      /\ \A q, k \in O : q < k /\ About(out[q], of) /\ About(out[k], of) => out[q].behind > out[k].behind
      /\ \A q \in I, k \in O : About(in[q], of) /\ About(out[k], of) => in[q].behind > out[k].behind
      /\ \A q \in I : About(in[q], of) => in[q].behind <= most
      /\ \A q \in O : About(out[q], of) => out[q].behind <= most
  BY <1>0 DEF Lags
<1>5. About(p, of) => About(out[i], of) /\ p.behind = out[i].behind
  OBVIOUS
<1>6. \A q, k \in O2 : q < k => q + d < k + d
  BY <1>0, <1>1
<1>7. \A q, k \in I2 : q < k => ~(q = n + 1 /\ k \in I) /\ ~(q = n + 1 /\ k = n + 1)
  BY <1>0
<1> HIDE DEF I, O, I2, O2, of, n
<1>8. \A q, k \in I2 : q < k /\ About(in2[q], of) /\ About(in2[k], of) => in2[q].behind > in2[k].behind
  <2> SUFFICES ASSUME NEW q \in I2, NEW k \in I2, q < k, About(in2[q], of), About(in2[k], of)
               PROVE  in2[q].behind > in2[k].behind
    OBVIOUS
  <2>1. q \in I /\ in2[q] = in[q]
    BY <1>2, <1>7
  <2>2. CASE k \in I /\ in2[k] = in[k]
    BY <1>4, <2>1, <2>2
  <2>3. CASE in2[k] = p
    BY <1>1, <1>4, <1>5, <2>1, <2>3
  <2> QED BY <1>2, <2>2, <2>3
<1>9. \A q, k \in O2 : q < k /\ About(out2[q], of) /\ About(out2[k], of) => out2[q].behind > out2[k].behind
  BY <1>1, <1>4, <1>6
<1>10. \A q \in I2, k \in O2 : About(in2[q], of) /\ About(out2[k], of) => in2[q].behind > out2[k].behind
  <2> SUFFICES ASSUME NEW q \in I2, NEW k \in O2, About(in2[q], of), About(out2[k], of)
               PROVE  in2[q].behind > out2[k].behind
    OBVIOUS
  <2>1. CASE q \in I /\ in2[q] = in[q]
    BY <1>1, <1>4, <2>1
  <2>2. CASE in2[q] = p
    BY <1>1, <1>4, <1>5, <2>2
  <2> QED BY <1>2, <2>1, <2>2
<1>11. \A q \in I2 : About(in2[q], of) => in2[q].behind <= most
  BY <1>1, <1>2, <1>4, <1>5
<1>12. \A q \in O2 : About(out2[q], of) => out2[q].behind <= most
  BY <1>1, <1>4
<1> QED BY <1>0, <1>8, <1>9, <1>10, <1>11, <1>12 DEF Lags, of

-----------------------------------------------------------------------------
(* A request that is written makes all that are about the same one request older.          *)

IsAged(new, old, what) ==
  /\ new \in Seq(Bytes) /\ Len(new) = Len(old)
  /\ \A k \in 1..Len(old) :
       new[k] = IF About(old[k], what) THEN [old[k] EXCEPT !.behind = @ + 1] ELSE old[k]

\* Of a packet nothing else changes.
LEMMA OlderIs ==
  ASSUME NEW p \in Packets
  PROVE  LET older == [p EXCEPT !.behind = @ + 1] IN
         /\ older \in Packets /\ older.behind = p.behind + 1 /\ older.kind = p.kind
         /\ older.device = p.device /\ older.field = p.field /\ older.value = p.value
BY DEF Packets

LEMMA AgedIs ==
  ASSUME NEW bytes \in Seq(Bytes), NEW what
  PROVE  IsAged(Aged(bytes, what), bytes, what)
<1> DEFINE old(k) == bytes[k]
           older(k) == IF About(bytes[k], what) THEN [bytes[k] EXCEPT !.behind = @ + 1] ELSE bytes[k]
           aged == [k \in 1..Len(bytes) |-> older(k)]
<1>1. Aged(bytes, what) = aged
  BY DEF Aged
<1>2. ASSUME NEW k \in 1..Len(bytes) PROVE older(k) \in Bytes
  <2>1. CASE About(bytes[k], what)
    <3>1. bytes[k] \in Bytes
      OBVIOUS
    <3>2. bytes[k] \in Packets
      BY <2>1, <3>1, AboutIsPacket DEF IsPacket
    <3>3. [bytes[k] EXCEPT !.behind = @ + 1] \in Packets
      BY <3>2, OlderIs
    <3> QED BY <2>1, <3>3 DEF Bytes
  <2>2. CASE ~About(bytes[k], what)
    BY <2>2
  <2> QED BY <2>1, <2>2
<1> HIDE DEF older
<1>3. aged \in Seq(Bytes) /\ Len(aged) = Len(bytes) /\ \A k \in 1..Len(bytes) : aged[k] = older(k)
  BY <1>2
<1> HIDE DEF aged
<1> QED BY <1>1, <1>3 DEF IsAged, older

\* One after the other they age as each does.
LEMMA AgedJoin ==
  ASSUME NEW s \in Seq(Bytes), NEW t \in Seq(Bytes), NEW s2, NEW t2, NEW what,
         IsAged(s2, s, what), IsAged(t2, t, what)
  PROVE  IsAged(s2 \o t2, s \o t, what)
<1> DEFINE older(b) == IF About(b, what) THEN [b EXCEPT !.behind = @ + 1] ELSE b
           u == s \o t
           u2 == s2 \o t2
           n == Len(s)
<1>1. /\ s2 \in Seq(Bytes) /\ t2 \in Seq(Bytes) /\ Len(s2) = n /\ Len(t2) = Len(t)
      /\ \A k \in 1..n : s2[k] = older(s[k])
      /\ \A k \in 1..Len(t) : t2[k] = older(t[k])
  BY DEF IsAged
<1>2. IsJoin(u, s, t, Bytes)
  BY Joined
<1>3. IsJoin(u2, s2, t2, Bytes)
  <2>1. s2 \in Seq(Bytes) /\ t2 \in Seq(Bytes)
    BY <1>1
  <2> QED BY <2>1, Joined
<1> HIDE DEF older, u, u2
<1>4. n \in Nat /\ Len(t) \in Nat
  OBVIOUS
<1> HIDE DEF n
<1>5. /\ Len(u) = n + Len(t) /\ u2 \in Seq(Bytes) /\ Len(u2) = n + Len(t)
      /\ \A k \in 1..n : u[k] = s[k] /\ u2[k] = s2[k]
      /\ \A k \in 1..Len(t) : u[n + k] = t[k] /\ u2[n + k] = t2[k]
  BY <1>1, <1>2, <1>3 DEF IsJoin, n
<1>6. ASSUME NEW k \in 1..Len(u) PROVE u2[k] = older(u[k])
  <2>1. CASE k \in 1..n
    BY <1>1, <1>5, <2>1
  <2>2. CASE k \notin 1..n
    <3> DEFINE q == k - n
    <3>1. q \in 1..Len(t) /\ k = n + q
      BY <1>4, <1>5, <2>2
    <3> HIDE DEF q
    <3> QED BY <1>1, <1>5, <3>1
  <2> QED BY <2>1, <2>2
<1>7. Len(u2) = Len(u)
  BY <1>5
<1> QED BY <1>5, <1>6, <1>7 DEF IsAged, older, u, u2

\* A byte that has aged is of the same kind, about the same.
LEMMA AgedSame ==
  ASSUME NEW old \in Seq(Bytes), NEW new, NEW what, IsAged(new, old, what), NEW k \in 1..Len(old)
  PROVE  /\ new[k] \in {Zero, Junk} <=> old[k] \in {Zero, Junk}
         /\ new[k] = Zero <=> old[k] = Zero
         /\ IsPacket(new[k]) <=> IsPacket(old[k])
         /\ IsPacket(old[k]) => /\ new[k].kind = old[k].kind /\ new[k].device = old[k].device
                                /\ new[k].field = old[k].field /\ new[k].value = old[k].value
         /\ IsPacket(old[k]) =>
              new[k].behind = IF About(old[k], what) THEN old[k].behind + 1 ELSE old[k].behind
<1>1. new[k] = IF About(old[k], what) THEN [old[k] EXCEPT !.behind = @ + 1] ELSE old[k]
  BY DEF IsAged
<1>2. CASE About(old[k], what)
  <2>1. old[k] \in Bytes
    OBVIOUS
  <2>2. old[k] \in Packets
    BY <1>2, <2>1, AboutIsPacket DEF IsPacket
  <2> DEFINE older == [old[k] EXCEPT !.behind = @ + 1]
  <2>3. /\ older \in Packets /\ older.behind = old[k].behind + 1 /\ older.kind = old[k].kind
        /\ older.device = old[k].device /\ older.field = old[k].field /\ older.value = old[k].value
    BY <2>2, OlderIs
  <2>4. new[k] = older
    BY <1>1, <1>2
  <2> HIDE DEF older
  <2>5. new[k] \notin {Zero, Junk} /\ old[k] \notin {Zero, Junk}
    BY <2>2, <2>3, <2>4, PacketIsNoOther DEF IsPacket
  <2> QED BY <1>2, <2>2, <2>3, <2>4, <2>5 DEF IsPacket
<1>3. CASE ~About(old[k], what)
  BY <1>1, <1>3
<1> QED BY <1>2, <1>3

\* What is about a request is so when it has aged, and was before.
LEMMA AgedAbout ==
  ASSUME NEW old \in Seq(Bytes), NEW new, NEW what, IsAged(new, old, what), NEW k \in 1..Len(old), NEW of
  PROVE  /\ About(new[k], of) <=> About(old[k], of)
         /\ About(old[k], of) => old[k].behind \in Nat
         /\ About(old[k], of) => new[k].behind = IF About(old[k], what) THEN old[k].behind + 1 ELSE old[k].behind
<1>1. old[k] \in Bytes /\ new[k] \in Bytes
  BY DEF IsAged
<1>2. /\ new[k] \in {Zero, Junk} <=> old[k] \in {Zero, Junk}
      /\ IsPacket(new[k]) <=> IsPacket(old[k])
      /\ IsPacket(old[k]) => /\ new[k].kind = old[k].kind /\ new[k].device = old[k].device
                             /\ new[k].field = old[k].field
      /\ IsPacket(old[k]) =>
              new[k].behind = IF About(old[k], what) THEN old[k].behind + 1 ELSE old[k].behind
  BY AgedSame
<1>3. About(old[k], of) => IsPacket(old[k]) /\ old[k].behind \in Nat
  BY <1>1, AboutIsPacket
<1>4. About(new[k], of) => IsPacket(new[k])
  BY <1>1, AboutIsPacket
<1> QED BY <1>2, <1>3, <1>4 DEF About

\* A byte that is neither zero nor junk was there before, or is the packet that was added.
LEMMA GrownAt ==
  ASSUME NEW new, NEW old, NEW p, NEW way, IsGrown(new, old, p, way), Len(old) \in Nat,
         NEW k \in 1..Len(new), new[k] \notin {Zero, Junk}
  PROVE  (k \in 1..Len(old) /\ new[k] = old[k]) \/ (k = Len(old) + 1 /\ new[k] = p)
BY DEF IsGrown

\* The requests for a joint's position are one more behind when another is written.
LEMMA LagsAsked ==
  ASSUME NEW in \in Seq(Bytes), NEW out \in Seq(Bytes), NEW j, NEW in2, NEW mid, NEW out2, NEW p, NEW way,
         IsAged(in2, in, PositionOf(j)), IsAged(mid, out, PositionOf(j)), IsGrown(out2, mid, p, way),
         p.behind = 0, NEW most \in Int, 0 <= most + 1, Lags(in, out, j, most)
  PROVE  Lags(in2, out2, j, most + 1)
<1> DEFINE of == PositionOf(j)
           n == Len(out)
           I == 1..Len(in)
           O == 1..n
           O2 == 1..Len(out2)
<1>0. /\ DOMAIN in = I /\ DOMAIN out = O /\ DOMAIN in2 = I /\ DOMAIN out2 = O2
      /\ n \in Nat /\ O2 \subseteq Int /\ Len(mid) = n
  BY DEF IsGrown, IsAged
<1>1. \A k \in I : /\ About(in2[k], of) <=> About(in[k], of)
                   /\ About(in[k], of) => in[k].behind \in Nat /\ in2[k].behind = in[k].behind + 1
  BY AgedAbout
<1>2. \A k \in O : /\ About(mid[k], of) <=> About(out[k], of)
                   /\ About(out[k], of) => out[k].behind \in Nat /\ mid[k].behind = out[k].behind + 1
  BY AgedAbout
<1>3. \A k \in O2 : About(out2[k], of)
        => (k \in O /\ out2[k] = mid[k] /\ About(mid[k], of)) \/ (k = n + 1 /\ out2[k].behind = 0)
  <2> SUFFICES ASSUME NEW k \in O2, About(out2[k], of)
               PROVE  (k \in O /\ out2[k] = mid[k] /\ About(mid[k], of)) \/ (k = n + 1 /\ out2[k].behind = 0)
    OBVIOUS
  <2> HIDE DEF O, O2, of, n
  <2>1. out2[k] \notin {Zero, Junk}
    BY Zenon DEF About
  <2>2. (k \in O /\ out2[k] = mid[k]) \/ (k = n + 1 /\ out2[k] = p)
    BY <1>0, <2>1, GrownAt DEF O, O2
  <2> QED BY <2>2
<1>4. /\ \A q, k \in I : q < k /\ About(in[q], of) /\ About(in[k], of) => in[q].behind > in[k].behind
      /\ \A q, k \in O : q < k /\ About(out[q], of) /\ About(out[k], of) => out[q].behind > out[k].behind
      /\ \A q \in I, k \in O : About(in[q], of) /\ About(out[k], of) => in[q].behind > out[k].behind
      /\ \A q \in I : About(in[q], of) => in[q].behind <= most
      /\ \A q \in O : About(out[q], of) => out[q].behind <= most
  BY <1>0 DEF Lags
<1>5. \A q, k \in O2 : q < k => ~(q = n + 1 /\ k \in O) /\ ~(q = n + 1 /\ k = n + 1)
  BY <1>0
<1> HIDE DEF I, O, O2, of, n
<1>6. \A k \in O2 : About(out2[k], of)
        => (k \in O /\ About(out[k], of) /\ out[k].behind \in Nat /\ out2[k].behind = out[k].behind + 1)
           \/ (k = n + 1 /\ out2[k].behind = 0)
  BY <1>2, <1>3
<1>7. \A q, k \in I : q < k /\ About(in2[q], of) /\ About(in2[k], of) => in2[q].behind > in2[k].behind
  BY <1>1, <1>4
<1>8. \A q, k \in O2 : q < k /\ About(out2[q], of) /\ About(out2[k], of) => out2[q].behind > out2[k].behind
  BY <1>4, <1>5, <1>6
<1>9. ASSUME NEW q \in I, NEW k \in O2, About(in2[q], of), About(out2[k], of)
      PROVE  in2[q].behind > out2[k].behind
  <2>1. About(in[q], of) /\ in[q].behind \in Nat /\ in2[q].behind = in[q].behind + 1
    BY <1>1, <1>9
  <2>2. CASE /\ k \in O /\ About(out[k], of) /\ out[k].behind \in Nat
             /\ out2[k].behind = out[k].behind + 1
    BY <1>4, <2>1, <2>2
  <2>3. CASE k = n + 1 /\ out2[k].behind = 0
    BY <2>1, <2>3
  <2> QED BY <1>6, <1>9, <2>2, <2>3
<1>10. \A q \in I : About(in2[q], of) => in2[q].behind <= most + 1
  BY <1>1, <1>4
<1>11. \A q \in O2 : About(out2[q], of) => out2[q].behind <= most + 1
  BY <1>4, <1>6
<1> QED BY <1>0, <1>7, <1>8, <1>9, <1>10, <1>11 DEF Lags, of

\* No request is about two things.
LEMMA AboutOne ==
  ASSUME NEW byte, NEW j, NEW what \in [device : Joints, field : {"mode", "position"}],
         About(byte, what), About(byte, PositionOf(j))
  PROVE  what = PositionOf(j)
BY DEF About, PositionOf

\* A request for something else leaves them as they are.
LEMMA AgedOthers ==
  ASSUME NEW old \in Seq(Bytes), NEW new, NEW j,
         NEW what \in [device : Joints, field : {"mode", "position"}], what # PositionOf(j),
         IsAged(new, old, what)
  PROVE  IsWithin(new, old, 0, PositionOf(j))
<1> SUFFICES ASSUME NEW k \in 1..Len(new), About(new[k], PositionOf(j))
             PROVE  k + 0 \in 1..Len(old) /\ old[k + 0] = new[k]
  BY DEF IsWithin
<1>1. k \in 1..Len(old) /\ k + 0 = k
  BY DEF IsAged
<1>2. About(old[k], PositionOf(j))
  BY <1>1, AgedAbout
<1>3. ~About(old[k], what)
  BY <1>2, AboutOne
<1> QED BY <1>1, <1>3 DEF IsAged
-----------------------------------------------------------------------------
(* What goes which way stays so when a frame is added, when requests age, and when the     *)
(* oldest bytes are gone.                                                                  *)

LEMMA RepliesStay ==
  ASSUME NEW old \in Seq(Bytes), NEW new, Replies(old)
  PROVE  /\ \A p, way : IsGrown(new, old, p, way) /\ (way = "whole" => IsReply(p)) => Replies(new)
         /\ \A what : IsAged(new, old, what) => Replies(new)
         /\ \A c : new \in Seq(Bytes) /\ IsTail(new, old, c) => Replies(new)
<1> DEFINE N == 1..Len(old)
<1>0. DOMAIN old = N /\ (new \in Seq(Bytes) => DOMAIN new = 1..Len(new) /\ Len(new) \in Nat) /\ Len(old) \in Nat
  OBVIOUS
<1>1. \A k \in N : old[k] \in {Zero, Junk} \/ IsReply(old[k])
  BY <1>0 DEF Replies
<1> HIDE DEF N
<1>2. ASSUME NEW p, NEW way, IsGrown(new, old, p, way), way = "whole" => IsReply(p)
      PROVE  Replies(new)
  <2>1. new \in Seq(Bytes)
    BY <1>2 DEF IsGrown
  <2>2. \A k \in N : new[k] = old[k]
    BY <1>2 DEF IsGrown, N
  <2>3. \A k \in 1..Len(new) : k > Len(old) => new[k] \in {Zero, Junk} \/ (new[k] = p /\ way = "whole")
    BY <1>2 DEF IsGrown
  <2>4. \A k \in 1..Len(new) : k \in N \/ k > Len(old)
    BY <1>0, <2>1 DEF N
  <2> QED BY <1>0, <1>1, <1>2, <2>1, <2>2, <2>3, <2>4 DEF Replies
<1>3. ASSUME NEW what, IsAged(new, old, what)
      PROVE  Replies(new)
  <2>1. new \in Seq(Bytes) /\ Len(new) = Len(old)
    BY <1>3 DEF IsAged
  <2>2. ASSUME NEW k \in N PROVE new[k] \in {Zero, Junk} \/ IsReply(new[k])
    <3>1. /\ new[k] \in {Zero, Junk} <=> old[k] \in {Zero, Junk}
          /\ IsPacket(new[k]) <=> IsPacket(old[k])
          /\ IsPacket(old[k]) => /\ new[k].kind = old[k].kind /\ new[k].field = old[k].field
                                 /\ new[k].value = old[k].value
      BY <1>3, AgedSame DEF N
    <3> QED BY <1>1, <3>1 DEF IsReply
  <2> QED BY <1>0, <2>1, <2>2 DEF Replies, N
<1>4. ASSUME NEW c, new \in Seq(Bytes), IsTail(new, old, c)
      PROVE  Replies(new)
  BY <1>0, <1>1, <1>4 DEF Replies, IsTail, N
<1> QED BY <1>2, <1>3, <1>4

LEMMA OrdersStay ==
  ASSUME NEW old \in Seq(Bytes), NEW new, Orders(old)
  PROVE  /\ \A p, way : /\ IsGrown(new, old, p, way)
                        /\ way = "whole" => IsCommand(p) \/ IsRequest(p)
                        => Orders(new)
         /\ \A what : IsAged(new, old, what) => Orders(new)
         /\ \A c : new \in Seq(Bytes) /\ IsTail(new, old, c) => Orders(new)
<1> DEFINE N == 1..Len(old)
<1>0. DOMAIN old = N /\ (new \in Seq(Bytes) => DOMAIN new = 1..Len(new) /\ Len(new) \in Nat) /\ Len(old) \in Nat
  OBVIOUS
<1>1. \A k \in N : /\ old[k] \in {Zero, Junk} \/ IsCommand(old[k]) \/ IsRequest(old[k])
                   /\ IsPacket(old[k]) => k + 1 \in N /\ old[k + 1] = Zero
  BY <1>0 DEF Orders
<1> HIDE DEF N
<1>2. ASSUME NEW p, NEW way, IsGrown(new, old, p, way), way = "whole" => IsCommand(p) \/ IsRequest(p)
      PROVE  Orders(new)
  <2>1. new \in Seq(Bytes) /\ Len(old) <= Len(new)
    BY <1>2 DEF IsGrown
  <2>2. \A k \in N : new[k] = old[k]
    BY <1>2 DEF IsGrown, N
  <2>3. \A k \in 1..Len(new) : k > Len(old) =>
          new[k] \in {Zero, Junk} \/ (k = Len(old) + 1 /\ new[k] = p /\ way = "whole")
    BY <1>2 DEF IsGrown
  <2>4. \A k \in 1..Len(new) : k \in N \/ k > Len(old)
    BY <1>0, <2>1 DEF N
  <2>5. way = "whole" => Len(old) + 2 = Len(new) /\ new[Len(old) + 2] = Zero
    BY <1>2 DEF IsGrown
  <2>6. (\A k \in N : k \in 1..Len(new)) /\ (Len(old) + 2 = Len(new) => (Len(old) + 1) + 1 \in 1..Len(new))
    <3> DEFINE n == Len(old)
               m == Len(new)
    <3>1. n \in Nat /\ m \in Nat /\ n <= m
      BY <1>0, <2>1
    <3> HIDE DEF n, m
    <3>2. (\A k \in 1..n : k \in 1..m) /\ (n + 2 = m => (n + 1) + 1 \in 1..m)
      BY <3>1
    <3> QED BY <3>2 DEF n, m, N
  <2>7. ~IsPacket(Zero) /\ ~IsPacket(Junk)
    BY SerialAssumption DEF IsPacket
  <2>8. ASSUME NEW k \in 1..Len(new)
        PROVE  /\ new[k] \in {Zero, Junk} \/ IsCommand(new[k]) \/ IsRequest(new[k])
               /\ IsPacket(new[k]) => k + 1 \in 1..Len(new) /\ new[k + 1] = Zero
    <3>1. CASE k \in N
      BY <3>1, <1>1, <2>2, <2>6
    <3>2. CASE new[k] \in {Zero, Junk}
      BY <3>2, <2>7
    <3>3. CASE k = Len(old) + 1 /\ new[k] = p /\ way = "whole"
      <4>1. (Len(old) + 1) + 1 = Len(old) + 2
        BY <1>0
      <4> QED BY <3>3, <4>1, <1>2, <2>5, <2>6
    <3> QED BY <2>3, <2>4, <3>1, <3>2, <3>3
  <2> QED BY <1>0, <2>1, <2>8 DEF Orders
<1>3. ASSUME NEW what, IsAged(new, old, what)
      PROVE  Orders(new)
  <2>1. new \in Seq(Bytes) /\ Len(new) = Len(old)
    BY <1>3 DEF IsAged
  <2>2. \A k \in N : /\ new[k] \in {Zero, Junk} <=> old[k] \in {Zero, Junk}
                     /\ new[k] = Zero <=> old[k] = Zero
                     /\ IsPacket(new[k]) <=> IsPacket(old[k])
                     /\ IsPacket(old[k]) => /\ new[k].kind = old[k].kind /\ new[k].field = old[k].field
                                            /\ new[k].value = old[k].value
    BY <1>3, AgedSame DEF N
  <2>3. ASSUME NEW k \in N
        PROVE  /\ new[k] \in {Zero, Junk} \/ IsCommand(new[k]) \/ IsRequest(new[k])
               /\ IsPacket(new[k]) => k + 1 \in N /\ new[k + 1] = Zero
    BY <1>1, <2>2 DEF IsCommand, IsRequest
  <2> QED BY <1>0, <2>1, <2>3 DEF Orders, N
<1>4. ASSUME NEW c, new \in Seq(Bytes), IsTail(new, old, c)
      PROVE  Orders(new)
  <2>1. /\ c \in Nat /\ Len(new) = Len(old) - c
        /\ \A k \in 1..Len(new) : k + c \in N /\ new[k] = old[k + c]
    BY <1>4 DEF IsTail, N
  <2>2. ASSUME NEW k \in 1..Len(new)
        PROVE  /\ new[k] \in {Zero, Junk} \/ IsCommand(new[k]) \/ IsRequest(new[k])
               /\ IsPacket(new[k]) => k + 1 \in 1..Len(new) /\ new[k + 1] = Zero
    <3>1. (k + c) + 1 \in N => k + 1 \in 1..Len(new) /\ (k + 1) + c = (k + c) + 1
      BY <1>0, <1>4, <2>1 DEF N
    <3> QED BY <1>1, <2>1, <3>1
  <2> QED BY <1>0, <1>4, <2>2 DEF Orders
<1> QED BY <1>2, <1>3, <1>4

LEMMA NudgesStay ==
  ASSUME NEW old \in Seq(Bytes), NEW new, Nudges(old)
  PROVE  /\ \A p, way : /\ IsGrown(new, old, p, way)
                        /\ IsCommand(p) => p.device = Wrist /\ p.value = "velocity"
                        => Nudges(new)
         /\ \A what : IsAged(new, old, what) => Nudges(new)
         /\ \A c : new \in Seq(Bytes) /\ IsTail(new, old, c) => Nudges(new)
<1> DEFINE N == 1..Len(old)
<1>0. DOMAIN old = N /\ (new \in Seq(Bytes) => DOMAIN new = 1..Len(new) /\ Len(new) \in Nat) /\ Len(old) \in Nat
  OBVIOUS
<1>1. \A k \in N : IsCommand(old[k]) => old[k].device = Wrist /\ old[k].value = "velocity"
  BY <1>0 DEF Nudges
<1> HIDE DEF N
<1>2. ASSUME NEW p, NEW way, IsGrown(new, old, p, way),
             IsCommand(p) => p.device = Wrist /\ p.value = "velocity"
      PROVE  Nudges(new)
  <2>1. new \in Seq(Bytes)
    BY <1>2 DEF IsGrown
  <2>2. \A k \in N : new[k] = old[k]
    BY <1>2 DEF IsGrown, N
  <2>3. \A k \in 1..Len(new) : k > Len(old) => new[k] \in {Zero, Junk} \/ new[k] = p
    BY <1>2 DEF IsGrown
  <2>4. \A k \in 1..Len(new) : k \in N \/ k > Len(old)
    BY <1>0, <2>1 DEF N
  <2>5. ~IsCommand(Zero) /\ ~IsCommand(Junk)
    BY PacketIsNoOther DEF IsCommand
  <2>6. ASSUME NEW k \in 1..Len(new), IsCommand(new[k])
        PROVE  new[k].device = Wrist /\ new[k].value = "velocity"
    BY <1>1, <1>2, <2>2, <2>3, <2>4, <2>5, <2>6
  <2> QED BY <1>0, <2>1, <2>6 DEF Nudges
<1>3. ASSUME NEW what, IsAged(new, old, what)
      PROVE  Nudges(new)
  <2>1. new \in Seq(Bytes) /\ Len(new) = Len(old)
    BY <1>3 DEF IsAged
  <2>2. ASSUME NEW k \in N, IsCommand(new[k]) PROVE new[k].device = Wrist /\ new[k].value = "velocity"
    <3>1. /\ IsPacket(new[k]) <=> IsPacket(old[k])
          /\ IsPacket(old[k]) => /\ new[k].kind = old[k].kind /\ new[k].device = old[k].device
                                 /\ new[k].value = old[k].value
      BY <1>3, AgedSame DEF N
    <3> QED BY <1>1, <2>2, <3>1 DEF IsCommand
  <2> QED BY <1>0, <2>1, <2>2 DEF Nudges, N
<1>4. ASSUME NEW c, new \in Seq(Bytes), IsTail(new, old, c)
      PROVE  Nudges(new)
  BY <1>0, <1>1, <1>4 DEF Nudges, IsTail, N
<1> QED BY <1>2, <1>3, <1>4

LEMMA TruthfulStays ==
  ASSUME NEW old \in Seq(Bytes), NEW new, NEW is, Truthful(old, is)
  PROVE  /\ \A p, way : IsGrown(new, old, p, way) /\ (SaysAwake(p) => is = "velocity") => Truthful(new, is)
         /\ \A what : IsAged(new, old, what) => Truthful(new, is)
         /\ \A c : new \in Seq(Bytes) /\ IsTail(new, old, c) => Truthful(new, is)
<1> DEFINE N == 1..Len(old)
<1>0. DOMAIN old = N /\ (new \in Seq(Bytes) => DOMAIN new = 1..Len(new) /\ Len(new) \in Nat) /\ Len(old) \in Nat
  OBVIOUS
<1>1. \A k \in N : SaysAwake(old[k]) => is = "velocity"
  BY <1>0 DEF Truthful
<1> HIDE DEF N
<1>2. ASSUME NEW p, NEW way, IsGrown(new, old, p, way), SaysAwake(p) => is = "velocity"
      PROVE  Truthful(new, is)
  <2>1. new \in Seq(Bytes)
    BY <1>2 DEF IsGrown
  <2>2. \A k \in N : new[k] = old[k]
    BY <1>2 DEF IsGrown, N
  <2>3. \A k \in 1..Len(new) : k > Len(old) => new[k] \in {Zero, Junk} \/ new[k] = p
    BY <1>2 DEF IsGrown
  <2>4. \A k \in 1..Len(new) : k \in N \/ k > Len(old)
    BY <1>0, <2>1 DEF N
  <2>5. ~SaysAwake(Zero) /\ ~SaysAwake(Junk)
    BY PacketIsNoOther DEF SaysAwake, IsReply
  <2>6. ASSUME NEW k \in 1..Len(new), SaysAwake(new[k]) PROVE is = "velocity"
    BY <1>1, <1>2, <2>2, <2>3, <2>4, <2>5, <2>6
  <2> QED BY <1>0, <2>1, <2>6 DEF Truthful
<1>3. ASSUME NEW what, IsAged(new, old, what)
      PROVE  Truthful(new, is)
  <2>1. new \in Seq(Bytes) /\ Len(new) = Len(old)
    BY <1>3 DEF IsAged
  <2>2. ASSUME NEW k \in N, SaysAwake(new[k]) PROVE is = "velocity"
    <3>1. /\ IsPacket(new[k]) <=> IsPacket(old[k])
          /\ IsPacket(old[k]) => /\ new[k].kind = old[k].kind /\ new[k].device = old[k].device
                                 /\ new[k].field = old[k].field /\ new[k].value = old[k].value
      BY <1>3, AgedSame DEF N
    <3> QED BY <1>1, <2>2, <3>1 DEF SaysAwake, IsReply
  <2> QED BY <1>0, <2>1, <2>2 DEF Truthful, N
<1>4. ASSUME NEW c, new \in Seq(Bytes), IsTail(new, old, c)
      PROVE  Truthful(new, is)
  BY <1>0, <1>1, <1>4 DEF Truthful, IsTail, N
<1> QED BY <1>2, <1>3, <1>4
-----------------------------------------------------------------------------
(* What the arm's reader will find.                                                        *)

LEMMA PendingIs ==
  ASSUME NEW out \in Seq(Bytes), NEW j, NEW i
  PROVE  i \in Pending(out, j) <=> /\ i \in 1..Len(out) /\ IsCommand(out[i]) /\ out[i].device = j
                                   /\ i = 1 \/ out[i - 1] = Zero
<1> DOMAIN out = 1..Len(out)
  OBVIOUS
<1> QED BY DEF Pending

\* The frame that was added last.
LEMMA ObeysGrown ==
  ASSUME NEW old \in Seq(Bytes), NEW new, NEW p, NEW way, IsGrown(new, old, p, way),
         NEW j, NEW is, NEW said, NEW said2, Obeys(old, j, is, said),
         LET found == /\ way = "whole" /\ IsCommand(p) /\ p.device = j
                      /\ old = <<>> \/ old[Len(old)] = Zero
         IN  said2 = IF found THEN p.value ELSE said
  PROVE  Obeys(new, j, is, said2)
<1> DEFINE n == Len(old)
           N == 1..n
           P == Pending(old, j)
           Q == Pending(new, j)
           last == n + 1
           clean == old = <<>> \/ old[n] = Zero
           found == way = "whole" /\ IsCommand(p) /\ p.device = j /\ clean
<1>0. n \in Nat /\ new \in Seq(Bytes) /\ Len(new) \in Nat /\ n <= Len(new) /\ (old = <<>> <=> n = 0)
  BY DEF IsGrown
<1>1. \A i : i \in P <=> /\ i \in N /\ IsCommand(old[i]) /\ old[i].device = j
                         /\ i = 1 \/ old[i - 1] = Zero
  BY PendingIs
<1>2. \A i : i \in Q <=> /\ i \in 1..Len(new) /\ IsCommand(new[i]) /\ new[i].device = j
                         /\ i = 1 \/ new[i - 1] = Zero
  BY <1>0, PendingIs
<1>3. \A k \in N : new[k] = old[k]
  BY DEF IsGrown
<1>4. \A k \in 1..Len(new) : k > n => new[k] \in {Zero, Junk} \/ (k = last /\ new[k] = p /\ way = "whole")
  BY DEF IsGrown
<1>5. way = "whole" => Len(new) = n + 2 /\ new[last] = p
  BY DEF IsGrown
<1>6. ~IsCommand(Zero) /\ ~IsCommand(Junk)
  BY SerialAssumption DEF IsCommand, IsPacket
<1>7. /\ P = {} => is = said
      /\ \A i \in P : (\A k \in P : k <= i) => old[i].value = said
  BY DEF Obeys
<1>8. said2 = IF found THEN p.value ELSE said
  OBVIOUS
<1> HIDE DEF P, Q, found
<1>9. \A k \in N : k \in 1..Len(new) /\ k \in Int /\ k <= n /\ (k # 1 => k - 1 \in N)
  BY <1>0
<1>10. \A k \in 1..Len(new) : k \in N \/ k > n
  BY <1>0
<1>11. ASSUME NEW i \in N PROVE i \in P <=> i \in Q
  BY <1>1, <1>2, <1>3, <1>9
<1>12. ASSUME NEW i \in Q, i \notin N PROVE i = last /\ new[i] = p /\ way = "whole"
  BY <1>2, <1>4, <1>6, <1>10, <1>12
<1>13. last \in Q <=> found
  <2>1. (n = 0 => last = 1) /\ (n # 0 => last # 1 /\ n \in N) /\ last - 1 = n /\ last \notin N /\ last \in Int
    BY <1>0
  <2>2. (last = 1 \/ new[last - 1] = Zero) <=> clean
    BY <1>0, <1>3, <2>1
  <2>3. way = "whole" => last \in 1..Len(new)
    BY <1>0, <1>5
  <2>4. ASSUME last \in Q PROVE found
    <3>1. new[last] = p /\ way = "whole"
      BY <2>1, <2>4, <1>12
    <3> QED BY <1>2, <2>2, <2>4, <3>1 DEF found
  <2>5. ASSUME found PROVE last \in Q
    BY <1>2, <1>5, <2>2, <2>3, <2>5 DEF found
  <2> QED BY <2>4, <2>5
<1> HIDE DEF N, n, clean
<1>14. CASE found
  <2>1. last \in Q /\ said2 = p.value
    BY <1>8, <1>13, <1>14
  <2>2. new[last] = p
    BY <1>5, <1>14 DEF found
  <2>3. ASSUME NEW i \in Q, \A k \in Q : k <= i PROVE new[i].value = said2
    <3>1. last <= i
      BY <2>1, <2>3
    <3>2. i \notin N
      BY <3>1, <1>0 DEF N
    <3> QED BY <1>12, <2>1, <2>2, <3>2
  <2>4. Obeys(new, j, is, said2)
    BY <2>1, <2>3 DEF Obeys, Q
  <2> QED BY <2>4
<1>15. CASE ~found
  <2>1. said2 = said /\ \A i \in Q : i \in N
    BY <1>8, <1>12, <1>13, <1>15
  <2>2. \A i : i \in P => i \in N
    BY <1>1
  <2>3. Q = P
    BY <2>1, <2>2, <1>11
  <2>4. \A i \in P : new[i] = old[i]
    BY <2>2, <1>3
  <2> QED BY <1>7, <2>1, <2>3, <2>4 DEF Obeys, Q
<1> QED BY <1>14, <1>15

\* The commands do not change when requests age.
LEMMA ObeysAged ==
  ASSUME NEW old \in Seq(Bytes), NEW new, NEW what, IsAged(new, old, what),
         NEW j, NEW is, NEW said, Obeys(old, j, is, said)
  PROVE  Obeys(new, j, is, said)
<1> DEFINE N == 1..Len(old)
           P == Pending(old, j)
           Q == Pending(new, j)
<1>0. new \in Seq(Bytes) /\ Len(new) = Len(old) /\ Len(old) \in Nat
  BY DEF IsAged
<1>1. \A i : i \in P <=> /\ i \in N /\ IsCommand(old[i]) /\ old[i].device = j
                         /\ i = 1 \/ old[i - 1] = Zero
  BY PendingIs
<1>2. \A i : i \in Q <=> /\ i \in N /\ IsCommand(new[i]) /\ new[i].device = j
                         /\ i = 1 \/ new[i - 1] = Zero
  BY <1>0, PendingIs
<1>3. \A k \in N : /\ new[k] = Zero <=> old[k] = Zero
                   /\ IsPacket(new[k]) <=> IsPacket(old[k])
                   /\ IsPacket(old[k]) => /\ new[k].kind = old[k].kind /\ new[k].device = old[k].device
                                          /\ new[k].value = old[k].value
  BY AgedSame
<1>4. \A k \in N : k # 1 => k - 1 \in N
  BY <1>0
<1>5. /\ P = {} => is = said
      /\ \A i \in P : (\A k \in P : k <= i) => old[i].value = said
  BY DEF Obeys
<1> HIDE DEF N, P, Q
<1>6. \A k \in N : /\ IsCommand(new[k]) <=> IsCommand(old[k])
                   /\ IsCommand(old[k]) => new[k].device = old[k].device /\ new[k].value = old[k].value
  BY <1>3 DEF IsCommand
<1>7. Q = P
  <2>1. ASSUME NEW i \in N PROVE i \in Q <=> i \in P
    <3>1. IsCommand(old[i]) => (new[i].device = j <=> old[i].device = j)
      BY <1>6
    <3>2. (i = 1 \/ new[i - 1] = Zero) <=> (i = 1 \/ old[i - 1] = Zero)
      BY <1>3, <1>4
    <3> QED BY <1>1, <1>2, <1>6, <3>1, <3>2
  <2>2. \A i : (i \in P => i \in N) /\ (i \in Q => i \in N)
    BY <1>1, <1>2
  <2> QED BY <2>1, <2>2
<1>8. \A i \in P : new[i].value = old[i].value
  BY <1>1, <1>6
<1> QED BY <1>5, <1>7, <1>8 DEF Obeys, Q

\* The oldest bytes are gone, and if no command to the joint is left it obeyed the last one.
LEMMA ObeysTail ==
  ASSUME NEW old \in Seq(Bytes), NEW new \in Seq(Bytes), NEW c, IsTail(new, old, c),
         NEW j, NEW is, NEW is2, NEW said, Obeys(old, j, is, said),
         c = 0 \/ old[c] = Zero \/ (c + 1 \in DOMAIN old => ~IsCommand(old[c + 1])),
         (\A i \in Pending(old, j) : i <= c) => is2 = said
  PROVE  Obeys(new, j, is2, said)
<1> DEFINE N == 1..Len(old)
           M == 1..Len(new)
           P == Pending(old, j)
           Q == Pending(new, j)
<1>0. /\ Len(old) \in Nat /\ Len(new) \in Nat /\ DOMAIN old = N
      /\ c \in Nat /\ Len(new) = Len(old) - c /\ \A k \in M : k + c \in N /\ new[k] = old[k + c]
  BY DEF IsTail
<1>1. \A i : i \in P <=> /\ i \in N /\ IsCommand(old[i]) /\ old[i].device = j
                         /\ i = 1 \/ old[i - 1] = Zero
  BY PendingIs
<1>2. \A i : i \in Q <=> /\ i \in M /\ IsCommand(new[i]) /\ new[i].device = j
                         /\ i = 1 \/ new[i - 1] = Zero
  BY PendingIs
<1>3. /\ P = {} => is = said
      /\ \A i \in P : (\A k \in P : k <= i) => old[i].value = said
  BY DEF Obeys
<1>4. c = 0 \/ old[c] = Zero \/ (c + 1 \in N => ~IsCommand(old[c + 1]))
  BY <1>0
<1>5. (\A i \in P : i <= c) => is2 = said
  OBVIOUS
<1>6. /\ \A k \in M : k \in Int /\ (k # 1 => k - 1 \in M /\ (k - 1) + c = (k + c) - 1 /\ k + c # 1)
      /\ \A k \in M : k = 1 => k + c = c + 1 /\ (k + c) - 1 = c /\ (c = 0 => k + c = 1) /\ (c # 0 => k + c # 1)
      /\ \A i \in N : i \in Int /\ (i > c => i - c \in M /\ (i - c) + c = i)
      /\ \A i, k \in M : i + c <= k + c => i <= k
      /\ \A k \in M, i \in N : i <= c => i <= k + c
  BY <1>0
<1> HIDE DEF N, M, P, Q
<1>7. ASSUME NEW k \in M PROVE k \in Q <=> k + c \in P
  <2>1. new[k] = old[k + c] /\ k + c \in N
    BY <1>0
  <2>2. CASE k # 1
    <3>1. new[k - 1] = old[(k + c) - 1] /\ k + c # 1
      BY <2>2, <1>0, <1>6
    <3> QED BY <1>1, <1>2, <2>1, <2>2, <3>1
  <2>3. CASE k = 1
    <3>1. k + c = c + 1 /\ (k + c) - 1 = c /\ (c = 0 => k + c = 1)
      BY <2>3, <1>6
    <3>2. IsCommand(old[k + c]) => k + c = 1 \/ old[(k + c) - 1] = Zero
      BY <1>4, <2>1, <3>1
    <3> QED BY <1>1, <1>2, <2>1, <2>3, <3>2
  <2> QED BY <2>2, <2>3
<1>8. \A i \in P : i > c => i - c \in Q /\ i - c \in M
  BY <1>1, <1>6, <1>7
<1>9. \A k \in Q : k \in M /\ k + c \in P /\ new[k] = old[k + c]
  BY <1>0, <1>2, <1>7
<1>10. \A i \in P : i \in N
  BY <1>1
<1>11. ASSUME Q = {} PROVE is2 = said
  <2>1. \A i \in P : ~(i > c)
    BY <1>8, <1>11
  <2>2. \A i \in P : i <= c
    BY <1>0, <1>6, <1>10, <2>1
  <2> QED BY <1>5, <2>2
<1>12. ASSUME NEW k \in Q, \A i \in Q : i <= k PROVE new[k].value = said
  <2>1. ASSUME NEW i \in P PROVE i <= k + c
    <3>1. CASE i > c
      <4> DEFINE q == i - c
      <4>1. q \in Q /\ q \in M /\ i = q + c /\ q <= k
        BY <3>1, <1>6, <1>8, <1>10, <1>12
      <4> HIDE DEF q
      <4>2. k \in Int /\ q \in Int /\ c \in Nat
        BY <1>0, <1>6, <1>9, <4>1
      <4> QED BY <4>1, <4>2
    <3>2. CASE ~(i > c)
      BY <3>2, <1>0, <1>6, <1>9, <1>10
    <3> QED BY <3>1, <3>2
  <2>2. k + c \in P /\ new[k] = old[k + c]
    BY <1>9
  <2> QED BY <1>3, <2>1, <2>2
<1> QED BY <1>11, <1>12 DEF Obeys, Q
-----------------------------------------------------------------------------
(* The variables on the line, and what is written to it.                                   *)

HostOK ==
  /\ main \in {"nudge", "ask", "release", "sleep", "poll", "leave", "gone"}
  /\ next \in Joints /\ attempts \in 0..ConnectAttempts
  /\ asked \in {None} \cup [device : Joints, field : {"mode", "position"}]
  /\ reading \in [Joints -> [of : Joints \cup {None}, behind : Nat]]
  /\ answered \subseteq Joints
  /\ late \in [Joints -> 0..MaxLate]

LinesOK ==
  /\ hostBuffer \in Seq(Bytes) /\ toHost \in Seq(Bytes)
  /\ armBuffer \in Seq(Bytes) /\ toArm \in Seq(Bytes)
  /\ Len(hostBuffer) <= MaxBuffered /\ (\A k \in 1..Len(hostBuffer) : hostBuffer[k] # Zero)
  /\ Len(armBuffer) <= MaxBuffered /\ (\A k \in 1..Len(armBuffer) : armBuffer[k] # Zero)
  /\ faults \in 0..MaxFaults

ModesOK == mode \in [Joints -> Modes] /\ told \in [Joints -> Modes]

LEMMA TypeParts == TypeOK => HostOK /\ LinesOK /\ ModesOK
<1> SUFFICES ASSUME TypeOK PROVE HostOK /\ LinesOK /\ ModesOK
  OBVIOUS
<1>1. HostOK /\ ModesOK
  BY DEF TypeOK, HostOK, ModesOK
<1>2. LinesOK
  <2>1. hostBuffer \in Seq(Bytes) /\ toHost \in Seq(Bytes) /\ armBuffer \in Seq(Bytes) /\ toArm \in Seq(Bytes)
    BY DEF TypeOK
  <2>2. Len(hostBuffer) <= MaxBuffered /\ ~Contains(hostBuffer, Zero)
    BY DEF TypeOK
  <2>3. Len(armBuffer) <= MaxBuffered /\ ~Contains(armBuffer, Zero)
    BY DEF TypeOK
  <2>4. faults \in 0..MaxFaults
    BY DEF TypeOK
  <2> QED BY <2>1, <2>2, <2>3, <2>4 DEF LinesOK, Contains
<1> QED BY <1>1, <1>2

LEMMA TypeAgain ==
  ASSUME HostOK', LinesOK', ModesOK'
  PROVE  TypeOK'
<1>1. \A bytes \in {hostBuffer', toArm', toHost', armBuffer'} : bytes \in Seq(Bytes)
  BY DEF LinesOK
<1>2. \A buffer \in {hostBuffer', armBuffer'} : Len(buffer) <= MaxBuffered /\ ~Contains(buffer, Zero)
  <2>1. Len(hostBuffer') <= MaxBuffered /\ ~Contains(hostBuffer', Zero)
    BY DEF LinesOK, Contains
  <2>2. Len(armBuffer') <= MaxBuffered /\ ~Contains(armBuffer', Zero)
    BY DEF LinesOK, Contains
  <2> QED BY <2>1, <2>2
<1>3. faults' \in 0..MaxFaults
  BY DEF LinesOK
<1> QED BY <1>1, <1>2, <1>3 DEF TypeOK, HostOK, ModesOK

LEMMA LinesAre ==
  ASSUME LinesOK
  PROVE  Inward \in Seq(Bytes) /\ Outward \in Seq(Bytes)
BY DEF LinesOK, Inward, Outward

\* How three sequences of bytes are joined does not matter.
LEMMA Grouped ==
  ASSUME NEW s \in Seq(Bytes), NEW t \in Seq(Bytes), NEW u \in Seq(Bytes)
  PROVE  (s \o t) \o u = s \o (t \o u)
BY ConcatAssociative, SMTT(20)

\* A fault is counted when it happens.
LEMMA FaultsBounded ==
  ASSUME LinesOK, NEW way \in Ways, Counted(way)
  PROVE  way \in {"whole"} \cup Faults /\ faults' \in 0..MaxFaults
BY SerialAssumption DEF LinesOK, Ways, Counted, Faults

\* A frame that is written to the arm comes last, behind what was there, aged or not.
LEMMA Written ==
  ASSUME LinesOK, NEW way \in {"whole"} \cup Faults, NEW p, way = "whole" => IsPacket(p),
         NEW b \in Seq(Bytes), NEW t \in Seq(Bytes), armBuffer' = b, toArm' = t \o Frame(p, way)
  PROVE  toArm' \in Seq(Bytes) /\ Outward' \in Seq(Bytes) /\ IsGrown(Outward', b \o t, p, way)
<1> DEFINE f == Frame(p, way)
<1>1. f \in Seq(Bytes)
  BY FrameIs
<1>2. b \o t \in Seq(Bytes)
  OBVIOUS
<1>3. IsGrown((b \o t) \o f, b \o t, p, way)
  BY <1>2, FrameGrows
<1> HIDE DEF f
<1>4. toArm' \in Seq(Bytes)
  BY <1>1 DEF f
<1>5. b \o (t \o f) = (b \o t) \o f
  BY <1>1, Grouped
<1>6. Outward' = (b \o t) \o f
  BY <1>5 DEF Outward, f
<1>7. (b \o t) \o f \in Seq(Bytes)
  BY <1>1, <1>2
<1> QED BY <1>3, <1>4, <1>6, <1>7

\* What the frame does not carry is as it was.
LEMMA GrownWithin ==
  ASSUME NEW old \in Seq(Bytes), NEW new, NEW p, NEW way, IsGrown(new, old, p, way), NEW what,
         way = "whole" => ~About(p, what)
  PROVE  IsWithin(new, old, 0, what)
<1> SUFFICES ASSUME NEW k \in 1..Len(new), About(new[k], what)
             PROVE  k + 0 \in 1..Len(old) /\ old[k + 0] = new[k]
  BY DEF IsWithin
<1>1. new[k] \notin {Zero, Junk}
  BY DEF About
<1>2. ~(k > Len(old))
  BY <1>1 DEF IsGrown
<1>3. k \in 1..Len(old) /\ k + 0 = k
  BY <1>2
<1> QED BY <1>3 DEF IsGrown

LEMMA SameWithin ==
  ASSUME NEW s \in Seq(Bytes), NEW what
  PROVE  IsWithin(s, s, 0, what)
BY DEF IsWithin

LEMMA TailWithin ==
  ASSUME NEW old \in Seq(Bytes), NEW new \in Seq(Bytes), NEW c, IsTail(new, old, c), NEW what
  PROVE  IsWithin(new, old, c, what)
BY DEF IsWithin, IsTail

\* Commands are packets, and about nothing that is asked for.
LEMMA PacketsAre ==
  /\ \A j \in Joints, to \in Modes :
       LET p == Packet("command", j, IF to = "standby" THEN "mode" ELSE to, to, 0) IN
       IsCommand(p) /\ p.device = j /\ p.value = to /\ \A what : ~About(p, what)
  /\ \A what \in [device : Joints, field : {"mode", "position"}] :
       LET p == Packet("request", what.device, what.field, None, 0) IN
       IsRequest(p) /\ ~IsCommand(p) /\ p.behind = 0 /\ p.device = what.device /\ p.field = what.field
<1>1. ASSUME NEW j \in Joints, NEW to \in Modes
      PROVE  LET p == Packet("command", j, IF to = "standby" THEN "mode" ELSE to, to, 0) IN
             IsCommand(p) /\ p.device = j /\ p.value = to /\ \A what : ~About(p, what)
  <2> DEFINE p == Packet("command", j, IF to = "standby" THEN "mode" ELSE to, to, 0)
  <2>1. p \in Packets /\ p.kind = "command" /\ p.device = j /\ p.value = to
    BY DEF Packet, Packets, Modes
  <2> HIDE DEF p
  <2>2. IsCommand(p) /\ \A what : ~About(p, what)
    BY <2>1 DEF IsCommand, IsPacket, About
  <2> QED BY <2>1, <2>2 DEF p
<1>2. ASSUME NEW what \in [device : Joints, field : {"mode", "position"}]
      PROVE  LET p == Packet("request", what.device, what.field, None, 0) IN
             IsRequest(p) /\ ~IsCommand(p) /\ p.behind = 0 /\ p.device = what.device /\ p.field = what.field
  <2> DEFINE p == Packet("request", what.device, what.field, None, 0)
  <2>1. /\ p \in Packets /\ p.kind = "request" /\ p.device = what.device /\ p.field = what.field
        /\ p.behind = 0 /\ p.field \in {"mode", "position"}
    BY DEF Packet, Packets
  <2> HIDE DEF p
  <2>2. IsRequest(p) /\ ~IsCommand(p)
    BY <2>1 DEF IsRequest, IsCommand, IsPacket
  <2> QED BY <2>1, <2>2 DEF p
<1> QED BY <1>1, <1>2
-----------------------------------------------------------------------------
(* The steps.  What a step does to the line first, then what it does to the invariant.     *)

Carries == \A j \in Joints : \A most \in Int :
             Lags(Inward, Outward, j, most) => Lags(Inward', Outward', j, most)

LEMMA LagKept ==
  ASSUME HostOK, LagInv, Carries, asked' = asked, late' = late, reading' = reading
  PROVE  LagInv'
<1> SUFFICES ASSUME NEW j \in Joints
             PROVE  /\ Lags(Inward', Outward', j, Explained(j)')
                    /\ reading'[j].of # None => Lags(Inward', Outward', j, reading'[j].behind - 1)
  BY DEF LagInv
<1>1. Explained(j)' = Explained(j) /\ Explained(j) \in Int /\ reading[j].behind - 1 \in Int
  BY DEF Explained, HostOK
<1>2. /\ Lags(Inward, Outward, j, Explained(j))
      /\ reading[j].of # None => Lags(Inward, Outward, j, reading[j].behind - 1)
  BY DEF LagInv
<1> QED BY <1>1, <1>2 DEF Carries

LEMMA Commanded ==
  ASSUME LinesOK, ModesOK, LineInv, ObeyInv,
         NEW joint \in Joints, NEW to \in Modes, NEW way \in Ways, Commands(joint, to, way),
         hostBuffer' = hostBuffer, toHost' = toHost, armBuffer' = armBuffer, mode' = mode
  PROVE  /\ LinesOK' /\ ModesOK' /\ LineInv' /\ ObeyInv' /\ Carries /\ Inward' = Inward
         /\ joint = Wrist /\ to = "velocity" /\ Nudges(Outward) => Nudges(Outward')
<1> DEFINE p == Packet("command", joint, IF to = "standby" THEN "mode" ELSE to, to, 0)
           In == Inward
           Out == Outward
           Out2 == Outward'
<1>1. IsCommand(p) /\ p.device = joint /\ p.value = to /\ \A what : ~About(p, what)
  BY PacketsAre
<1>2. /\ toArm' = toArm \o Frame(p, way)
      /\ Counted(way)
      /\ told' = IF way = "whole" /\ LineIsClean THEN [told EXCEPT ![joint] = to] ELSE told
  BY DEF Commands, Sent
<1> HIDE DEF p
<1>3. way \in {"whole"} \cup Faults /\ faults' \in 0..MaxFaults
  BY <1>2, FaultsBounded
<1>4. IsPacket(p)
  BY <1>1 DEF IsCommand
<1>5. In \in Seq(Bytes) /\ Out \in Seq(Bytes)
  BY LinesAre
<1>6. toArm' \in Seq(Bytes) /\ Out2 \in Seq(Bytes) /\ IsGrown(Out2, Out, p, way)
  <2>1. armBuffer \in Seq(Bytes) /\ toArm \in Seq(Bytes)
    BY DEF LinesOK
  <2> QED BY <1>2, <1>3, <1>4, <2>1, Written DEF Outward
<1>7. LinesOK'
  BY <1>3, <1>6 DEF LinesOK
<1>8. ModesOK'
  BY <1>2 DEF ModesOK
<1>9. Inward' = In
  BY DEF Inward
<1> HIDE DEF In, Out, Out2
<1>10. LineInv'
  <2>1. Replies(In) /\ Orders(Out)
    BY DEF LineInv, In, Out
  <2>2. Orders(Out2)
    BY <1>1, <1>5, <1>6, <2>1, OrdersStay
  <2> QED BY <1>9, <2>1, <2>2 DEF LineInv, Out2
<1>11. Carries
  <2> SUFFICES ASSUME NEW j \in Joints, NEW most \in Int, Lags(In, Out, j, most)
               PROVE  Lags(In, Out2, j, most)
    BY <1>9 DEF Carries, In, Out, Out2
  <2>1. IsWithin(Out2, Out, 0, PositionOf(j))
    BY <1>1, <1>5, <1>6, GrownWithin
  <2>2. IsWithin(In, In, 0, PositionOf(j))
    BY <1>5, SameWithin
  <2>3. most <= most /\ 0 \in Int
    OBVIOUS
  <2> QED BY <1>5, <1>6, <2>1, <2>2, <2>3, LagsWithin
<1>12. ObeyInv'
  <2> SUFFICES ASSUME NEW j \in Joints PROVE Obeys(Out2, j, mode[j], told'[j])
    BY DEF ObeyInv, Out2
  <2>1. Obeys(Out, j, mode[j], told[j])
    BY DEF ObeyInv, Out
  <2>2. LineIsClean <=> (Out = <<>> \/ Out[Len(Out)] = Zero)
    BY DEF LineIsClean, Last, Out, Outward
  <2>3. told'[j] = IF way = "whole" /\ LineIsClean /\ joint = j THEN to ELSE told[j]
    BY <1>2 DEF ModesOK
  <2> DEFINE found == way = "whole" /\ IsCommand(p) /\ p.device = j /\ (Out = <<>> \/ Out[Len(Out)] = Zero)
  <2>4. told'[j] = IF found THEN p.value ELSE told[j]
    BY <1>1, <2>2, <2>3
  <2> QED BY <1>5, <1>6, <2>1, <2>4, ObeysGrown
<1>13. ASSUME joint = Wrist, to = "velocity", Nudges(Out) PROVE Nudges(Out2)
  BY <1>1, <1>5, <1>6, <1>13, NudgesStay
<1> QED BY <1>7, <1>8, <1>9, <1>10, <1>11, <1>12, <1>13 DEF In, Out, Out2

LEMMA NudgeKeeps ==
  ASSUME LinkInv, NEW way \in Ways, Nudge(way)
  PROVE  LinkInv'
<1>1. /\ HostOK /\ LinesOK /\ ModesOK /\ LineInv /\ MainInv /\ LagInv /\ LagIsExplained /\ ObeyInv /\ WakeInv
  BY TypeParts DEF LinkInv
<1>2. /\ main = "nudge" /\ main' = "ask" /\ next' = next /\ attempts' = attempts /\ asked' = asked
      /\ reading' = reading /\ answered' = answered /\ late' = late /\ hostBuffer' = hostBuffer
      /\ toHost' = toHost /\ armBuffer' = armBuffer /\ mode' = mode
      /\ Commands(Wrist, "velocity", way)
  BY DEF Nudge
<1>3. Wrist \in Joints /\ "velocity" \in Modes
  BY SerialAssumption DEF Modes
<1>4. /\ LinesOK' /\ ModesOK' /\ LineInv' /\ ObeyInv' /\ Carries /\ Inward' = Inward
      /\ Nudges(Outward) => Nudges(Outward')
  BY <1>1, <1>2, <1>3, Commanded
<1>5. HostOK'
  BY <1>1, <1>2 DEF HostOK
<1>6. TypeOK'
  BY <1>4, <1>5, TypeAgain
<1>7. LagInv'
  BY <1>1, <1>2, <1>4, LagKept
<1>8. MainInv'
  BY <1>1, <1>2 DEF MainInv, Asks
<1>9. LagIsExplained'
  BY <1>1, <1>2 DEF LagIsExplained
<1>10. WakeInv'
  BY <1>1, <1>2, <1>4 DEF WakeInv
<1> QED BY <1>4, <1>6, <1>7, <1>8, <1>9, <1>10 DEF LinkInv

\* Where the loops over the joints go.
LEMMA NextJointIs ==
  ASSUME HostOK, NEW after \in {"sleep", "gone"}, NextJoint(after)
  PROVE  /\ next' \in Joints /\ main' \in {main, after} /\ attempts' = attempts
         /\ main' # after => next' = next + 1
         /\ main \notin {"sleep", "gone"} /\ main' = main => next' = next + 1
<1>1. JointCount \in Nat \ {0} /\ next \in 1..JointCount
  BY SerialAssumption DEF HostOK, Joints
<1> QED BY <1>1 DEF NextJoint, Joints

LEMMA ReleaseKeeps ==
  ASSUME LinkInv, NEW way \in Ways, Release(way)
  PROVE  LinkInv'
<1>1. /\ HostOK /\ LinesOK /\ ModesOK /\ LineInv /\ MainInv /\ LagInv /\ LagIsExplained /\ ObeyInv /\ WakeInv
  BY TypeParts DEF LinkInv
<1>2. /\ main \in {"release", "leave"} /\ asked' = asked
      /\ reading' = reading /\ answered' = answered /\ late' = late /\ hostBuffer' = hostBuffer
      /\ toHost' = toHost /\ armBuffer' = armBuffer /\ mode' = mode
      /\ Commands(next, "standby", way)
      /\ NextJoint(IF main = "release" THEN "sleep" ELSE "gone")
  BY DEF Release
<1>3. next \in Joints /\ "standby" \in Modes
  BY <1>1 DEF HostOK, Modes
<1>4. LinesOK' /\ ModesOK' /\ LineInv' /\ ObeyInv' /\ Carries /\ Inward' = Inward
  BY <1>1, <1>2, <1>3, Commanded
<1>5. next' \in Joints /\ main' \in {"release", "leave", "sleep", "gone"} /\ attempts' = attempts
  <2> DEFINE after == IF main = "release" THEN "sleep" ELSE "gone"
  <2>1. after \in {"sleep", "gone"}
    OBVIOUS
  <2> HIDE DEF after
  <2>2. next' \in Joints /\ main' \in {main, after} /\ attempts' = attempts
    BY <1>1, <1>2, <2>1, NextJointIs DEF after
  <2> QED BY <1>2, <2>1, <2>2
<1>6. HostOK'
  BY <1>1, <1>2, <1>5 DEF HostOK
<1>7. TypeOK'
  BY <1>4, <1>6, TypeAgain
<1>8. LagInv'
  BY <1>1, <1>2, <1>4, LagKept
<1>9. MainInv'
  BY <1>1, <1>2, <1>5 DEF MainInv
<1>10. LagIsExplained'
  BY <1>1, <1>2 DEF LagIsExplained
<1>11. WakeInv'
  BY <1>5 DEF WakeInv
<1> QED BY <1>4, <1>7, <1>8, <1>9, <1>10, <1>11 DEF LinkInv

LEMMA CommandKeeps ==
  ASSUME LinkInv, NEW way \in Ways, NEW joint \in Joints, NEW to \in Modes, Command(joint, to, way)
  PROVE  LinkInv'
<1>1. /\ HostOK /\ LinesOK /\ ModesOK /\ LineInv /\ MainInv /\ LagInv /\ LagIsExplained /\ ObeyInv /\ WakeInv
  BY TypeParts DEF LinkInv
<1>2. /\ main \in {"sleep", "leave"} /\ main' = main /\ next' = next /\ attempts' = attempts /\ asked' = asked
      /\ reading' = reading /\ answered' = answered /\ late' = late /\ hostBuffer' = hostBuffer
      /\ toHost' = toHost /\ armBuffer' = armBuffer /\ mode' = mode
      /\ Commands(joint, to, way)
  BY DEF Command, hostVars
<1>3. LinesOK' /\ ModesOK' /\ LineInv' /\ ObeyInv' /\ Carries /\ Inward' = Inward
  BY <1>1, <1>2, Commanded
<1>4. HostOK'
  BY <1>1, <1>2 DEF HostOK
<1>5. TypeOK'
  BY <1>3, <1>4, TypeAgain
<1>6. LagInv'
  BY <1>1, <1>2, <1>3, LagKept
<1>7. MainInv'
  BY <1>1, <1>2 DEF MainInv
<1>8. LagIsExplained'
  BY <1>1, <1>2 DEF LagIsExplained
<1>9. WakeInv'
  BY <1>2 DEF WakeInv
<1> QED BY <1>3, <1>5, <1>6, <1>7, <1>8, <1>9 DEF LinkInv

\* A request that has ended without its reply.
LEMMA NotAnsweredIs ==
  ASSUME HostOK, MainInv, main \in {"ask", "poll"}, NotAnswered, asked' = None, answered' = answered
  PROVE  /\ next' \in Joints /\ attempts' \in 0..ConnectAttempts /\ MainInv'
         /\ main' \in {"nudge", "poll", "sleep", "gone"}
         /\ main' \in {"nudge", "ask"} => main = "ask"
<1>1. CASE main = "ask"
  <2>1. attempts < ConnectAttempts /\ answered = {}
    BY <1>1 DEF MainInv
  <2>2. /\ attempts' = attempts + 1 /\ next' = next
        /\ main' = IF attempts + 1 = ConnectAttempts THEN "gone" ELSE "nudge"
    BY <1>1 DEF NotAnswered, NotWoken
  <2>3. attempts' \in 0..ConnectAttempts /\ (main' = "nudge" => attempts' < ConnectAttempts)
    BY <2>1, <2>2, SerialAssumption DEF HostOK
  <2> QED BY <1>1, <2>1, <2>2, <2>3 DEF MainInv, HostOK
<1>2. CASE main = "poll"
  <2>1. NextJoint("sleep")
    BY <1>2 DEF NotAnswered
  <2>2. /\ next' \in Joints /\ main' \in {"poll", "sleep"} /\ attempts' = attempts
        /\ main' = "poll" => next' = next + 1
    BY <1>2, <2>1, NextJointIs
  <2>3. \A j \in answered : j < next /\ j \in Int
    BY <1>2 DEF MainInv, HostOK, Joints
  <2>4. next \in Int
    BY DEF HostOK, Joints
  <2>5. MainInv'
    BY <2>2, <2>3, <2>4 DEF MainInv
  <2> QED BY <2>2, <2>5 DEF HostOK
<1> QED BY <1>1, <1>2

LEMMA AsksIs ==
  ASSUME HostOK
  PROVE  /\ Asks \in [device : Joints, field : {"mode", "position"}]
         /\ \A j \in Joints : /\ Asks = PositionOf(j) <=> main # "ask" /\ j = next
                              /\ None # PositionOf(j)
<1>1. Wrist \in Joints /\ next \in Joints
  BY SerialAssumption DEF HostOK
<1>2. Asks \in [device : Joints, field : {"mode", "position"}]
  BY <1>1 DEF Asks
<1>3. \A j \in Joints : PositionOf(j) \in [device : Joints, field : {"mode", "position"}]
  BY DEF PositionOf
<1>4. \A j \in Joints : /\ PositionOf(j).device = j /\ PositionOf(j).field = "position"
                        /\ PositionOf(j) = PositionOf(next) <=> j = next
  BY DEF PositionOf
<1>5. CASE main = "ask"
  <2>1. Asks.field = "mode"
    BY <1>5 DEF Asks
  <2>2. \A j \in Joints : Asks # PositionOf(j)
    BY <1>4, <2>1
  <2> QED BY <1>2, <1>3, <1>5, <2>2, SerialAssumption
<1>6. CASE main # "ask"
  <2>1. Asks = PositionOf(next)
    BY <1>6 DEF Asks, PositionOf
  <2> QED BY <1>2, <1>3, <1>4, <1>6, <2>1, SerialAssumption
<1> QED BY <1>5, <1>6

\* A request whose frame did not get out.
LEMMA AskFails ==
  ASSUME LinkInv, NEW way \in Ways, Ask(way), way \in {"short", "lost"}
  PROVE  LinkInv'
<1> DEFINE In == Inward
           Out == Outward
           Out2 == Outward'
<1>1. /\ HostOK /\ LinesOK /\ ModesOK /\ LineInv /\ MainInv /\ LagInv /\ LagIsExplained /\ ObeyInv /\ WakeInv
  BY TypeParts DEF LinkInv
<1>2. /\ main \in {"ask", "poll"} /\ asked = None /\ asked' = asked /\ NotAnswered
      /\ Counted(way) /\ toArm' = toArm \o Frame(None, way)
      /\ reading' = reading /\ answered' = answered /\ late' = late /\ hostBuffer' = hostBuffer
      /\ toHost' = toHost /\ armBuffer' = armBuffer /\ mode' = mode /\ told' = told
  BY DEF Ask, ghosts
<1>3. way \in {"whole"} \cup Faults /\ way # "whole" /\ faults' \in 0..MaxFaults
  BY <1>1, <1>2, FaultsBounded
<1>4. In \in Seq(Bytes) /\ Out \in Seq(Bytes)
  BY <1>1, LinesAre
<1>5. toArm' \in Seq(Bytes) /\ Out2 \in Seq(Bytes) /\ IsGrown(Out2, Out, None, way)
  <2>1. armBuffer \in Seq(Bytes) /\ toArm \in Seq(Bytes)
    BY <1>1 DEF LinesOK
  <2> QED BY <1>1, <1>2, <1>3, <2>1, Written DEF Outward
<1>6. LinesOK'
  BY <1>1, <1>2, <1>3, <1>5 DEF LinesOK
<1>7. ModesOK' /\ Inward' = In
  BY <1>1, <1>2 DEF ModesOK, Inward
<1> HIDE DEF In, Out, Out2
<1>8. LineInv'
  <2>1. Replies(In) /\ Orders(Out)
    BY <1>1 DEF LineInv, In, Out
  <2>2. Orders(Out2)
    BY <1>3, <1>4, <1>5, <2>1, OrdersStay
  <2> QED BY <1>7, <2>1, <2>2 DEF LineInv, Out2
<1>9. Carries
  <2> SUFFICES ASSUME NEW j \in Joints, NEW most \in Int, Lags(In, Out, j, most)
               PROVE  Lags(In, Out2, j, most)
    BY <1>7 DEF Carries, In, Out, Out2
  <2>1. IsWithin(Out2, Out, 0, PositionOf(j))
    BY <1>3, <1>4, <1>5, GrownWithin
  <2>2. IsWithin(In, In, 0, PositionOf(j))
    BY <1>4, SameWithin
  <2>3. most <= most /\ 0 \in Int
    OBVIOUS
  <2> QED BY <1>4, <1>5, <2>1, <2>2, <2>3, LagsWithin
<1>10. ObeyInv'
  <2> SUFFICES ASSUME NEW j \in Joints PROVE Obeys(Out2, j, mode[j], told[j])
    BY <1>2 DEF ObeyInv, Out2
  <2>1. Obeys(Out, j, mode[j], told[j])
    BY <1>1 DEF ObeyInv, Out
  <2> QED BY <1>3, <1>4, <1>5, <2>1, ObeysGrown
<1>11. /\ next' \in Joints /\ attempts' \in 0..ConnectAttempts /\ MainInv'
       /\ main' \in {"nudge", "poll", "sleep", "gone"} /\ (main' \in {"nudge", "ask"} => main = "ask")
  BY <1>1, <1>2, NotAnsweredIs
<1>12. TypeOK'
  <2>1. HostOK'
    BY <1>1, <1>2, <1>11 DEF HostOK
  <2> QED BY <1>6, <1>7, <2>1, TypeAgain
<1>13. LagInv'
  BY <1>1, <1>2, <1>9, LagKept
<1>14. LagIsExplained'
  BY <1>1, <1>2 DEF LagIsExplained
<1>15. WakeInv'
  <2> SUFFICES ASSUME main = "ask" PROVE Nudges(Out2) /\ Truthful(In, mode[Wrist])
    BY <1>2, <1>7, <1>11 DEF WakeInv, Out2
  <2>1. Nudges(Out) /\ Truthful(In, mode[Wrist])
    BY <1>1 DEF WakeInv, In, Out
  <2>2. IsGrown(Out2, Out, Zero, way)
    BY <1>3, <1>5 DEF IsGrown
  <2>3. ~IsCommand(Zero)
    BY SerialAssumption DEF IsCommand, IsPacket
  <2> QED BY <1>4, <2>1, <2>2, <2>3, NudgesStay
<1> QED BY <1>8, <1>10, <1>11, <1>12, <1>13, <1>14, <1>15 DEF LinkInv

\* A buffer ages as it is.
LEMMA AgedBuffer ==
  ASSUME NEW old \in Seq(Bytes), NEW what, Len(old) <= MaxBuffered, \A k \in 1..Len(old) : old[k] # Zero
  PROVE  /\ Aged(old, what) \in Seq(Bytes) /\ Len(Aged(old, what)) <= MaxBuffered
         /\ \A k \in 1..Len(Aged(old, what)) : Aged(old, what)[k] # Zero
<1> DEFINE new == Aged(old, what)
<1>1. IsAged(new, old, what)
  BY AgedIs
<1> HIDE DEF new
<1>2. new \in Seq(Bytes) /\ Len(new) = Len(old)
  BY <1>1 DEF IsAged
<1>3. \A k \in 1..Len(old) : new[k] = Zero <=> old[k] = Zero
  BY <1>1, AgedSame
<1> QED BY <1>2, <1>3 DEF new

\* A request that goes out as a frame, even a damaged one: all that is about the same ages.
LEMMA AskKeeps ==
  ASSUME LinkInv, NEW way \in Ways, Ask(way), way \notin {"short", "lost"}
  PROVE  LinkInv'
<1> DEFINE what == Asks
           p == Packet("request", what.device, what.field, None, 0)
           b == Aged(armBuffer, what)
           t == Aged(toArm, what)
           mid == b \o t
           In == Inward
           In2 == Inward'
           Out == Outward
           Out2 == Outward'
<1>1. /\ HostOK /\ LinesOK /\ ModesOK /\ LineInv /\ MainInv /\ LagInv /\ LagIsExplained /\ ObeyInv /\ WakeInv
  BY TypeParts DEF LinkInv
<1>2. /\ main \in {"ask", "poll"} /\ main' = main /\ next' = next /\ attempts' = attempts
      /\ asked = None /\ asked' = what
      /\ Counted(way) /\ toArm' = t \o Frame(p, way) /\ armBuffer' = b
      /\ toHost' = Aged(toHost, what) /\ hostBuffer' = Aged(hostBuffer, what)
      /\ reading' = IF main = "poll" THEN [reading EXCEPT ![next].behind = @ + 1] ELSE reading
      /\ answered' = answered /\ late' = late /\ mode' = mode /\ told' = told
  BY DEF Ask, ghosts
<1>3. /\ what \in [device : Joints, field : {"mode", "position"}]
      /\ \A j \in Joints : what = PositionOf(j) <=> main # "ask" /\ j = next
      /\ \A j \in Joints : None # PositionOf(j)
      /\ what' = what
  BY <1>1, <1>2, AsksIs DEF Asks
<1>4. IsRequest(p) /\ ~IsCommand(p) /\ p.behind = 0 /\ p.device = what.device /\ p.field = what.field
  BY <1>3, PacketsAre
<1> HIDE DEF what, p
<1>5. way \in {"whole"} \cup Faults /\ faults' \in 0..MaxFaults
  BY <1>1, <1>2, FaultsBounded
<1>6. /\ armBuffer \in Seq(Bytes) /\ toArm \in Seq(Bytes) /\ hostBuffer \in Seq(Bytes) /\ toHost \in Seq(Bytes)
      /\ Len(hostBuffer) <= MaxBuffered /\ \A k \in 1..Len(hostBuffer) : hostBuffer[k] # Zero
      /\ Len(armBuffer) <= MaxBuffered /\ \A k \in 1..Len(armBuffer) : armBuffer[k] # Zero
  BY <1>1 DEF LinesOK
<1>7. /\ b \in Seq(Bytes) /\ t \in Seq(Bytes) /\ toHost' \in Seq(Bytes) /\ hostBuffer' \in Seq(Bytes)
      /\ IsAged(b, armBuffer, what) /\ IsAged(t, toArm, what)
      /\ IsAged(hostBuffer', hostBuffer, what) /\ IsAged(toHost', toHost, what)
  <2>1. /\ IsAged(b, armBuffer, what) /\ IsAged(t, toArm, what)
        /\ IsAged(hostBuffer', hostBuffer, what) /\ IsAged(toHost', toHost, what)
    BY <1>2, <1>6, AgedIs
  <2> HIDE DEF b, t
  <2> QED BY <2>1 DEF IsAged
<1> HIDE DEF b, t
<1>8. IsAged(mid, Out, what) /\ IsAged(In2, In, what)
  BY <1>6, <1>7, AgedJoin DEF Inward, Outward
<1>9. IsPacket(p)
  BY <1>4 DEF IsRequest
<1>10. toArm' \in Seq(Bytes) /\ Out2 \in Seq(Bytes) /\ IsGrown(Out2, mid, p, way)
  BY <1>1, <1>2, <1>5, <1>7, <1>9, Written
<1>11. In \in Seq(Bytes) /\ Out \in Seq(Bytes) /\ mid \in Seq(Bytes) /\ In2 \in Seq(Bytes)
  BY <1>1, <1>8, LinesAre DEF IsAged
<1>12. LinesOK'
  <2>1. /\ Len(hostBuffer') <= MaxBuffered /\ \A k \in 1..Len(hostBuffer') : hostBuffer'[k] # Zero
        /\ Len(armBuffer') <= MaxBuffered /\ \A k \in 1..Len(armBuffer') : armBuffer'[k] # Zero
    BY <1>2, <1>6, AgedBuffer DEF b
  <2>2. armBuffer' \in Seq(Bytes)
    BY <1>2, <1>7
  <2> QED BY <1>5, <1>7, <1>10, <2>1, <2>2 DEF LinesOK
<1>13. ModesOK'
  BY <1>1, <1>2 DEF ModesOK
<1> HIDE DEF In, In2, Out, Out2, mid
<1>14. LineInv'
  <2>1. Replies(In) /\ Orders(Out)
    BY <1>1 DEF LineInv, In, Out
  <2>2. Orders(mid) /\ Replies(In2)
    BY <1>8, <1>11, <2>1, OrdersStay, RepliesStay
  <2>3. Orders(Out2)
    BY <1>4, <1>10, <1>11, <2>2, OrdersStay
  <2> QED BY <2>2, <2>3 DEF LineInv, In2, Out2
<1>15. ObeyInv'
  <2> SUFFICES ASSUME NEW j \in Joints PROVE Obeys(Out2, j, mode[j], told[j])
    BY <1>2 DEF ObeyInv, Out2
  <2>1. Obeys(Out, j, mode[j], told[j])
    BY <1>1 DEF ObeyInv, Out
  <2>2. Obeys(mid, j, mode[j], told[j])
    BY <1>8, <1>11, <2>1, ObeysAged
  <2> QED BY <1>4, <1>10, <1>11, <2>2, ObeysGrown
<1>16. HostOK'
  <2>1. /\ next \in Joints
        /\ reading \in [Joints -> [of : Joints \cup {None}, behind : Nat]]
    BY <1>1 DEF HostOK
  <2> DEFINE older == [reading[next] EXCEPT !.behind = @ + 1]
  <2>2. older \in [of : Joints \cup {None}, behind : Nat]
    BY <2>1
  <2>3. reading' = IF main = "poll" THEN [reading EXCEPT ![next] = older] ELSE reading
    BY <1>2
  <2> HIDE DEF older
  <2>4. reading' \in [Joints -> [of : Joints \cup {None}, behind : Nat]]
    BY <2>1, <2>2, <2>3
  <2> QED BY <1>1, <1>2, <1>3, <2>4 DEF HostOK
<1>17. TypeOK'
  BY <1>12, <1>13, <1>16, TypeAgain
<1>18. MainInv'
  BY <1>1, <1>2, <1>3 DEF MainInv, what
<1>19. \A j \in Joints : /\ what # PositionOf(j) => reading'[j] = reading[j]
                         /\ what = PositionOf(j) => /\ reading'[j].of = reading[j].of
                                                    /\ reading'[j].behind = reading[j].behind + 1
  BY <1>1, <1>2, <1>3 DEF HostOK
<1>20. LagInv'
  <2> SUFFICES ASSUME NEW j \in Joints
               PROVE  /\ Lags(In2, Out2, j, Explained(j)')
                      /\ reading'[j].of # None => Lags(In2, Out2, j, reading'[j].behind - 1)
    BY DEF LagInv, In2, Out2
  <2>1. /\ Lags(In, Out, j, late[j] - 1)
        /\ reading[j].of # None => Lags(In, Out, j, reading[j].behind - 1)
    BY <1>1, <1>2, <1>3 DEF LagInv, Explained, In, Out
  <2>2. late[j] \in Nat /\ reading[j].behind \in Nat
    BY <1>1 DEF HostOK
  <2>3. CASE what = PositionOf(j)
    <3>1. Explained(j)' = (late[j] - 1) + 1 /\ late[j] - 1 \in Int /\ 0 <= (late[j] - 1) + 1
      BY <1>2, <2>2, <2>3 DEF Explained
    <3>2. Lags(In2, Out2, j, (late[j] - 1) + 1)
      BY <1>4, <1>8, <1>10, <1>11, <2>1, <2>3, <3>1, LagsAsked
    <3>3. ASSUME reading[j].of # None PROVE Lags(In2, Out2, j, reading'[j].behind - 1)
      <4> DEFINE most == reading[j].behind - 1
      <4>1. most \in Int /\ 0 <= most + 1 /\ reading'[j].behind - 1 = most + 1
        BY <1>19, <2>2, <2>3
      <4>2. Lags(In, Out, j, most)
        BY <2>1, <3>3
      <4> HIDE DEF most
      <4>3. Lags(In2, Out2, j, most + 1)
        BY <1>4, <1>8, <1>10, <1>11, <2>3, <4>1, <4>2, LagsAsked
      <4> QED BY <4>1, <4>3
    <3> QED BY <1>19, <2>3, <3>1, <3>2, <3>3
  <2>4. CASE what # PositionOf(j)
    <3>1. IsWithin(In2, In, 0, PositionOf(j)) /\ IsWithin(mid, Out, 0, PositionOf(j))
      BY <1>3, <1>8, <1>11, <2>4, AgedOthers
    <3>2. ~About(p, PositionOf(j))
      BY <1>3, <1>4, <2>4 DEF About, PositionOf
    <3>3. IsWithin(Out2, mid, 0, PositionOf(j)) /\ IsWithin(In2, In2, 0, PositionOf(j))
      BY <1>10, <1>11, <3>2, GrownWithin, SameWithin
    <3>4. ASSUME NEW most \in Int, Lags(In, Out, j, most) PROVE Lags(In2, Out2, j, most)
      <4>1. most <= most /\ 0 \in Int
        OBVIOUS
      <4>2. Lags(In2, mid, j, most)
        BY <1>11, <3>1, <3>4, <4>1, LagsWithin
      <4> QED BY <1>10, <1>11, <3>3, <4>1, <4>2, LagsWithin
    <3>5. Explained(j)' = late[j] - 1 /\ late[j] - 1 \in Int /\ reading[j].behind - 1 \in Int
      BY <1>2, <2>2, <2>4 DEF Explained
    <3> QED BY <1>19, <2>1, <2>4, <3>4, <3>5
  <2> QED BY <2>3, <2>4
<1>21. LagIsExplained'
  <2> SUFFICES ASSUME NEW j \in answered
               PROVE  reading'[j].of = j /\ reading'[j].behind <= late[j]
    BY <1>2 DEF LagIsExplained
  <2>1. j \in Joints /\ j \in Int /\ next \in Int
    BY <1>1 DEF HostOK, Joints
  <2>2. what # PositionOf(j)
    BY <1>1, <1>2, <1>3, <2>1 DEF MainInv
  <2> QED BY <1>1, <1>19, <2>1, <2>2 DEF LagIsExplained
<1>22. WakeInv'
  <2> SUFFICES ASSUME main = "ask" PROVE Nudges(Out2) /\ Truthful(In2, mode[Wrist])
    BY <1>2 DEF WakeInv, In2, Out2
  <2>1. Nudges(Out) /\ Truthful(In, mode[Wrist])
    BY <1>1 DEF WakeInv, In, Out
  <2>2. Nudges(mid) /\ Truthful(In2, mode[Wrist])
    BY <1>8, <1>11, <2>1, NudgesStay, TruthfulStays
  <2> QED BY <1>4, <1>10, <1>11, <2>2, NudgesStay
<1> QED BY <1>14, <1>15, <1>17, <1>18, <1>20, <1>21, <1>22 DEF LinkInv

\* The steps that leave the line alone.
LEMMA LineRests ==
  ASSUME LinkInv, hostBuffer' = hostBuffer, toHost' = toHost, armBuffer' = armBuffer, toArm' = toArm,
         mode' = mode, told' = told, faults' = faults
  PROVE  LinesOK' /\ ModesOK' /\ LineInv' /\ ObeyInv' /\ Carries /\ Inward' = Inward /\ Outward' = Outward
<1>1. LinesOK /\ ModesOK /\ LineInv /\ ObeyInv
  BY TypeParts DEF LinkInv
<1>2. Inward' = Inward /\ Outward' = Outward
  BY DEF Inward, Outward
<1>3. LinesOK' /\ ModesOK'
  BY <1>1 DEF LinesOK, ModesOK
<1>4. LineInv'
  BY <1>1, <1>2 DEF LineInv
<1>5. ObeyInv'
  BY <1>1, <1>2 DEF ObeyInv
<1>6. Carries
  BY <1>2 DEF Carries
<1> QED BY <1>2, <1>3, <1>4, <1>5, <1>6

LEMMA LoopKeeps ==
  ASSUME LinkInv, Poll \/ Leave \/ UNCHANGED vars
  PROVE  LinkInv'
<1>1. /\ HostOK /\ LinesOK /\ ModesOK /\ LineInv /\ MainInv /\ LagInv /\ LagIsExplained /\ ObeyInv /\ WakeInv
  BY TypeParts DEF LinkInv
<1>2. /\ next' = next /\ attempts' = attempts /\ asked' = asked /\ hostBuffer' = hostBuffer /\ toArm' = toArm
      /\ toHost' = toHost /\ armBuffer' = armBuffer /\ mode' = mode /\ reading' = reading
      /\ told' = told /\ late' = late /\ faults' = faults
      /\ \/ main = "sleep" /\ main' = "poll" /\ answered' = {}
         \/ main = "sleep" /\ main' = "leave" /\ answered' = answered
         \/ main' = main /\ answered' = answered
  BY DEF Poll, Leave, vars, hostVars, ghosts
<1>3. LinesOK' /\ ModesOK' /\ LineInv' /\ ObeyInv' /\ Carries /\ Inward' = Inward /\ Outward' = Outward
  BY <1>2, LineRests
<1>4. HostOK'
  BY <1>1, <1>2 DEF HostOK
<1>5. TypeOK'
  BY <1>3, <1>4, TypeAgain
<1>6. LagInv'
  BY <1>1, <1>2, <1>3, LagKept
<1>7. MainInv'
  BY <1>1, <1>2 DEF MainInv, Asks
<1>8. LagIsExplained'
  BY <1>1, <1>2 DEF LagIsExplained
<1>9. WakeInv'
  BY <1>1, <1>2, <1>3 DEF WakeInv
<1> QED BY <1>3, <1>5, <1>6, <1>7, <1>8, <1>9 DEF LinkInv

\* What is in neither of two sequences is not in the two together.
LEMMA NoneJoined ==
  ASSUME NEW s \in Seq(Bytes), NEW t \in Seq(Bytes), NEW what,
         \A i \in DOMAIN s : ~About(s[i], what), \A i \in DOMAIN t : ~About(t[i], what)
  PROVE  \A i \in DOMAIN (s \o t) : ~About((s \o t)[i], what)
<1> DEFINE u == s \o t
           n == Len(s)
<1>1. IsJoin(u, s, t, Bytes)
  BY Joined
<1> HIDE DEF u
<1>2. /\ u \in Seq(Bytes) /\ Len(u) = n + Len(t)
      /\ \A q \in 1..n : u[q] = s[q]
      /\ \A q \in 1..Len(t) : u[n + q] = t[q]
  BY <1>1 DEF IsJoin
<1>3. n \in Nat /\ Len(t) \in Nat /\ DOMAIN s = 1..n /\ DOMAIN t = 1..Len(t)
  OBVIOUS
<1>4. DOMAIN u = 1..Len(u)
  BY <1>2
<1> HIDE DEF n
<1>5. ASSUME NEW i \in 1..Len(u) PROVE ~About(u[i], what)
  <2>1. CASE i \in 1..n
    BY <1>2, <1>3, <2>1
  <2>2. CASE i \notin 1..n
    <3> DEFINE q == i - n
    <3>1. q \in 1..Len(t) /\ i = n + q
      BY <1>2, <1>3, <2>2
    <3> HIDE DEF q
    <3> QED BY <1>2, <1>3, <3>1
  <2> QED BY <2>1, <2>2
<1> QED BY <1>4, <1>5 DEF u

LEMMA TimeOutKeeps ==
  ASSUME LinkInv, TimeOut
  PROVE  LinkInv'
<1>1. /\ HostOK /\ LinesOK /\ ModesOK /\ LineInv /\ MainInv /\ LagInv /\ LagIsExplained /\ ObeyInv /\ WakeInv
  BY TypeParts DEF LinkInv
<1>2. /\ asked # None /\ asked' = None /\ NotAnswered
      /\ hostBuffer' = hostBuffer /\ toArm' = toArm /\ toHost' = toHost /\ armBuffer' = armBuffer
      /\ mode' = mode /\ reading' = reading /\ answered' = answered /\ told' = told /\ faults' = faults
      /\ IF main = "poll" /\ UnderWay
         THEN /\ \A j \in Joints : late[j] < MaxLate
              /\ late' = [late EXCEPT ![asked.device] = @ + 1]
         ELSE late' = late
  BY DEF TimeOut
<1>3. main \in {"ask", "poll"} /\ asked = Asks
  BY <1>1, <1>2 DEF MainInv
<1>4. /\ asked \in [device : Joints, field : {"mode", "position"}]
      /\ \A j \in Joints : asked = PositionOf(j) <=> main # "ask" /\ j = next
      /\ \A j \in Joints : None # PositionOf(j)
  BY <1>1, <1>3, AsksIs
<1>5. LinesOK' /\ ModesOK' /\ LineInv' /\ ObeyInv' /\ Carries /\ Inward' = Inward /\ Outward' = Outward
  BY <1>2, LineRests
<1>6. /\ next' \in Joints /\ attempts' \in 0..ConnectAttempts /\ MainInv'
      /\ main' \in {"nudge", "poll", "sleep", "gone"} /\ (main' \in {"nudge", "ask"} => main = "ask")
  BY <1>1, <1>2, <1>3, NotAnsweredIs
<1>7. late' \in [Joints -> 0..MaxLate]
  <2>1. late \in [Joints -> 0..MaxLate] /\ asked.device \in Joints /\ MaxLate \in Nat
    BY <1>1, <1>4, SerialAssumption DEF HostOK
  <2> QED BY <1>2, <2>1
<1>8. TypeOK'
  <2>1. HostOK'
    BY <1>1, <1>2, <1>6, <1>7 DEF HostOK
  <2> QED BY <1>5, <2>1, TypeAgain
<1>9. ASSUME NEW j \in Joints
      PROVE  /\ late[j] \in Nat
             /\ ~(asked = PositionOf(j) /\ UnderWay) => late'[j] = late[j]
             /\ asked = PositionOf(j) /\ UnderWay => late'[j] = late[j] + 1
  <2>1. late \in [Joints -> 0..MaxLate]
    BY <1>1 DEF HostOK
  <2>2. asked = PositionOf(j) => asked.device = j /\ main = "poll"
    BY <1>3, <1>4 DEF PositionOf
  <2>3. asked.device = j /\ main = "poll" => asked = PositionOf(j)
    BY <1>3 DEF PositionOf, Asks
  <2> QED BY <1>2, <2>1, <2>2, <2>3
<1>10. LagIsExplained'
  <2> SUFFICES ASSUME NEW j \in answered
               PROVE  reading[j].of = j /\ reading[j].behind <= late'[j]
    BY <1>2 DEF LagIsExplained
  <2>1. j \in Joints
    BY <1>1 DEF HostOK
  <2>2. reading[j].of = j /\ reading[j].behind <= late[j] /\ reading[j].behind \in Nat
    BY <1>1, <2>1 DEF LagIsExplained, HostOK
  <2> QED BY <1>9, <2>1, <2>2
<1>11. LagInv'
  <2> SUFFICES ASSUME NEW j \in Joints
               PROVE  /\ Lags(Inward, Outward, j, Explained(j)')
                      /\ reading[j].of # None => Lags(Inward, Outward, j, reading[j].behind - 1)
    BY <1>2, <1>5 DEF LagInv
  <2>1. /\ Lags(Inward, Outward, j, Explained(j))
        /\ reading[j].of # None => Lags(Inward, Outward, j, reading[j].behind - 1)
    BY <1>1 DEF LagInv
  <2>2. Explained(j)' = late'[j] - 1
    BY <1>2, <1>4 DEF Explained
  <2>3. CASE asked = PositionOf(j) /\ ~UnderWay
    <3>1. \A bytes \in {toArm, armBuffer, toHost, hostBuffer} :
            \A i \in DOMAIN bytes : ~About(bytes[i], PositionOf(j))
      BY <2>3 DEF UnderWay
    <3>2. armBuffer \in Seq(Bytes) /\ toArm \in Seq(Bytes) /\ hostBuffer \in Seq(Bytes) /\ toHost \in Seq(Bytes)
      BY <1>1 DEF LinesOK
    <3>3. \A i \in DOMAIN Inward : ~About(Inward[i], PositionOf(j))
      BY <3>1, <3>2, NoneJoined DEF Inward
    <3>4. \A i \in DOMAIN Outward : ~About(Outward[i], PositionOf(j))
      BY <3>1, <3>2, NoneJoined DEF Outward
    <3> QED BY <2>1, <3>3, <3>4, LagsOfNone
  <2>4. CASE ~(asked = PositionOf(j) /\ ~UnderWay)
    <3>1. Explained(j)' = Explained(j)
      BY <1>9, <2>2, <2>4 DEF Explained
    <3> QED BY <2>1, <3>1
  <2> QED BY <2>3, <2>4
<1>12. WakeInv'
  BY <1>1, <1>2, <1>5, <1>6 DEF WakeInv
<1> QED BY <1>5, <1>6, <1>8, <1>10, <1>11, <1>12 DEF LinkInv

\* A set of numbers up to n has a least one.
LEMMA Smallest ==
  ASSUME NEW n \in Nat, NEW I \in SUBSET (1..n), I # {}
  PROVE  \E x \in I : \A y \in I : x <= y
<1> SUFFICES ASSUME \A x \in I : \E y \in I : ~(x <= y) PROVE FALSE
  OBVIOUS
<1> DEFINE D == {m \in 0..n : \A k \in 1..m : k \notin I}
<1>1. 0 \in D
  OBVIOUS
<1>2. \A m \in 0..(n - 1) : m \in D => m + 1 \in D
  <2> SUFFICES ASSUME NEW m \in 0..(n - 1), m \in D PROVE m + 1 \in D
    OBVIOUS
  <2>1. m \in Nat /\ m + 1 \in 0..n /\ \A k \in 1..m : k \notin I
    OBVIOUS
  <2>2. m + 1 \notin I
    <3> SUFFICES ASSUME m + 1 \in I PROVE FALSE
      OBVIOUS
    <3>1. PICK y \in I : ~(m + 1 <= y)
      OBVIOUS
    <3>2. y \in 1..n
      OBVIOUS
    <3>3. y \in 1..m
      BY <2>1, <3>1, <3>2
    <3> QED BY <2>1, <3>3
  <2>3. \A k \in 1..(m + 1) : k \in 1..m \/ k = m + 1
    BY <2>1
  <2> QED BY <2>1, <2>2, <2>3
<1>3. D \in SUBSET (0..n)
  OBVIOUS
<1>4. n \in D
  <2> HIDE DEF D
  <2> QED BY <1>1, <1>2, <1>3, CountingUp DEF Counts
<1> QED BY <1>4

LEMMA FirstIs ==
  ASSUME NEW packets \in Seq(Bytes)
  PROVE  LET first == SelectInSeq(packets, Matches) IN
         first # 0 => first \in 1..Len(packets) /\ Matches(packets[first])
<1> DEFINE I == {i \in 1..Len(packets) : Matches(packets[i])}
           first == SelectInSeq(packets, Matches)
<1>1. first = IF I # {} THEN Min(I) ELSE 0
  BY DEF SelectInSeq
<1>2. Len(packets) \in Nat /\ I \in SUBSET (1..Len(packets))
  OBVIOUS
<1>3. \A i \in I : i \in 1..Len(packets) /\ Matches(packets[i])
  OBVIOUS
<1> HIDE DEF I, first
<1>4. ASSUME I # {} PROVE Min(I) \in I
  <2>1. \E x \in I : \A y \in I : x <= y
    BY <1>2, <1>4, Smallest
  <2> QED BY <2>1 DEF Min
<1> QED BY <1>1, <1>3, <1>4 DEF first

\* A read takes the oldest bytes off the line, and what ends the request is one of them.
LEMMA ReceiveIs ==
  ASSUME LinesOK, NEW count \in 1..Chunk, count <= Len(toHost), Receive(count)
  PROVE  /\ LinesOK' /\ Inward' \in Seq(Bytes) /\ Outward' = Outward
         /\ \E c : /\ IsTail(Inward', Inward, c)
                   /\ \/ UNCHANGED <<main, next, attempts, asked, reading, answered>>
                      \/ \E i \in 1..c : /\ i \in 1..Len(Inward) /\ Inward[i] \notin {Zero, Junk}
                                         /\ Matches(Inward[i])
                                         /\ asked' = None /\ Answered(Inward[i])
<1> DEFINE read == SubSeq(toHost, 1, count)
           unread == SubSeq(toHost, count + 1, Len(toHost))
           fed == Feed(hostBuffer, read)
           packets == fed.packets
           first == SelectInSeq(packets, Matches)
           line == hostBuffer \o read
<1>1. /\ toHost' = unread /\ hostBuffer' = fed.rest
      /\ toArm' = toArm /\ armBuffer' = armBuffer /\ faults' = faults
      /\ \/ UNCHANGED <<main, next, attempts, asked, reading, answered>>
         \/ first # 0 /\ asked' = None /\ Answered(packets[first])
  BY DEF Receive
<1>2. hostBuffer \in Seq(Bytes) /\ toHost \in Seq(Bytes) /\ count \in 1..Len(toHost)
  BY DEF LinesOK
<1>3. read \in Seq(Bytes) /\ unread \in Seq(Bytes)
  BY <1>2
<1>4. FedBy(fed, line, Bytes)
  <2> HIDE DEF read
  <2> QED BY <1>2, <1>3, FeedIs
<1> HIDE DEF fed, first
<1>5. /\ fed.rest \in Seq(Bytes) /\ packets \in Seq(Bytes) /\ Len(fed.rest) <= MaxBuffered
      /\ \E c \in 0..Len(line) : IsLeft(fed.rest, line, c) /\ AreBefore(packets, line, c)
  BY <1>4 DEF FedBy
<1>6. PICK c \in 0..Len(line) : IsLeft(fed.rest, line, c) /\ AreBefore(packets, line, c)
  BY <1>5
<1>7. /\ IsTail(fed.rest \o unread, hostBuffer \o toHost, c)
      /\ \A i \in 1..c : i \in 1..Len(hostBuffer \o toHost) /\ line[i] = (hostBuffer \o toHost)[i]
  BY <1>2, <1>5, <1>6, ReadTakes
<1>8. first # 0 => first \in 1..Len(packets) /\ Matches(packets[first])
  BY <1>5, FirstIs DEF first
<1>9. \A k \in 1..Len(packets) : \E i \in 1..c : packets[k] = line[i] /\ line[i] \notin {Zero, Junk}
  BY <1>6 DEF AreBefore
<1>10. \A k \in 1..Len(fed.rest) : fed.rest[k] # Zero
  BY <1>6 DEF IsLeft
<1>11. LinesOK'
  <2> HIDE DEF unread
  <2> QED BY <1>1, <1>3, <1>5, <1>10 DEF LinesOK
<1>12. Inward' = fed.rest \o unread /\ Inward = hostBuffer \o toHost /\ Outward' = Outward
  BY <1>1 DEF Inward, Outward
<1>13. Inward' \in Seq(Bytes)
  BY <1>11, LinesAre DEF LinesOK, Inward
<1> HIDE DEF packets, line, unread, read
<1>14. IsTail(Inward', Inward, c) /\ \A i \in 1..c : i \in 1..Len(Inward) /\ line[i] = Inward[i]
  BY <1>7, <1>12
<1>15. ASSUME first # 0, asked' = None, Answered(packets[first])
       PROVE  \E i \in 1..c : /\ i \in 1..Len(Inward) /\ Inward[i] \notin {Zero, Junk}
                              /\ Matches(Inward[i])
                              /\ asked' = None /\ Answered(Inward[i])
  <2>1. PICK i \in 1..c : packets[first] = line[i] /\ line[i] \notin {Zero, Junk}
    BY <1>8, <1>9, <1>15
  <2>2. packets[first] = Inward[i] /\ i \in 1..Len(Inward)
    BY <1>14, <2>1
  <2>3. Matches(Inward[i]) /\ Answered(Inward[i]) /\ Inward[i] \notin {Zero, Junk}
    BY <1>8, <1>15, <2>1, <2>2
  <2> QED BY <1>15, <2>2, <2>3
<1> QED BY <1>1, <1>11, <1>12, <1>13, <1>14, <1>15

\* A reply that ends a poll's request is about the position asked for.
LEMMA PolledIs ==
  ASSUME HostOK, LinesOK, LineInv, MainInv, asked # None, main = "poll",
         NEW i \in 1..Len(Inward), Inward[i] \notin {Zero, Junk}, Matches(Inward[i])
  PROVE  /\ asked = PositionOf(next) /\ About(Inward[i], PositionOf(next))
         /\ Inward[i].device = next /\ Inward[i].behind \in Nat
<1> DEFINE b == Inward[i]
<1>1. Inward \in Seq(Bytes)
  BY LinesAre
<1>2. b \in Bytes /\ IsReply(b)
  BY <1>1 DEF LineInv, Replies
<1>3. asked = PositionOf(next)
  BY AsksIs DEF MainInv, HostOK
<1>4. b.device = next /\ b.field = "position" /\ b.kind = "reply" /\ b \notin {Zero, Junk}
  BY <1>2, <1>3 DEF Matches, PositionOf, IsReply
<1> HIDE DEF b
<1>5. About(b, PositionOf(next))
  BY <1>4 DEF About, PositionOf
<1>6. b.behind \in Nat
  BY <1>2, <1>5, AboutIsPacket
<1> QED BY <1>3, <1>4, <1>5, <1>6 DEF b

LEMMA ReceiveKeeps ==
  ASSUME LinkInv, NEW count \in 1..Chunk, count <= Len(toHost), Receive(count)
  PROVE  LinkInv'
<1> DEFINE In == Inward
           In2 == Inward'
           Out == Outward
<1>1. /\ HostOK /\ LinesOK /\ ModesOK /\ LineInv /\ MainInv /\ LagInv /\ LagIsExplained /\ ObeyInv /\ WakeInv
  BY TypeParts DEF LinkInv
<1>2. asked # None /\ mode' = mode /\ told' = told /\ late' = late
  BY DEF Receive, ghosts
<1>3. LinesOK' /\ In2 \in Seq(Bytes) /\ Outward' = Out
  BY <1>1, ReceiveIs
<1>4. PICK c : /\ IsTail(In2, In, c)
               /\ \/ UNCHANGED <<main, next, attempts, asked, reading, answered>>
                  \/ \E i \in 1..c : /\ i \in 1..Len(In) /\ In[i] \notin {Zero, Junk}
                                     /\ Matches(In[i])
                                     /\ asked' = None /\ Answered(In[i])
  BY <1>1, ReceiveIs
<1>5. main \in {"ask", "poll"} /\ asked = Asks
  BY <1>1, <1>2 DEF MainInv
<1>6. /\ \A j \in Joints : asked = PositionOf(j) <=> main # "ask" /\ j = next
      /\ \A j \in Joints : None # PositionOf(j)
  BY <1>1, <1>5, AsksIs
<1>7. In \in Seq(Bytes) /\ Out \in Seq(Bytes)
  BY <1>1, LinesAre
<1> HIDE DEF In, In2, Out
<1>8. ModesOK'
  BY <1>1, <1>2 DEF ModesOK
<1>9. LineInv'
  <2>1. Replies(In2)
    BY <1>1, <1>3, <1>4, <1>7, RepliesStay DEF LineInv, In
  <2> QED BY <1>1, <1>3, <2>1 DEF LineInv, In2, Out
<1>10. ObeyInv'
  BY <1>1, <1>2, <1>3 DEF ObeyInv, Out
<1>11. Carries
  <2> SUFFICES ASSUME NEW j \in Joints, NEW most \in Int, Lags(In, Out, j, most)
               PROVE  Lags(In2, Out, j, most)
    BY <1>3 DEF Carries, In, In2, Out
  <2>1. IsWithin(In2, In, c, PositionOf(j)) /\ IsWithin(Out, Out, 0, PositionOf(j))
    BY <1>3, <1>4, <1>7, TailWithin, SameWithin
  <2>2. most <= most /\ 0 \in Int /\ c \in Int
    BY <1>4 DEF IsTail
  <2> QED BY <1>3, <1>7, <2>1, <2>2, LagsWithin
<1>12. main = "ask" => Nudges(Out) /\ Truthful(In2, mode[Wrist])
  <2> SUFFICES ASSUME main = "ask" PROVE Nudges(Out) /\ Truthful(In2, mode[Wrist])
    OBVIOUS
  <2>1. Nudges(Out) /\ Truthful(In, mode[Wrist])
    BY <1>1 DEF WakeInv, In, Out
  <2> QED BY <1>3, <1>4, <1>7, <2>1, TruthfulStays
<1>13. CASE UNCHANGED <<main, next, attempts, asked, reading, answered>>
  <2>1. HostOK'
    BY <1>1, <1>2, <1>13 DEF HostOK
  <2>2. TypeOK'
    BY <1>3, <1>8, <2>1, TypeAgain
  <2>3. LagInv'
    BY <1>1, <1>2, <1>11, <1>13, LagKept
  <2>4. MainInv'
    BY <1>1, <1>13 DEF MainInv, Asks
  <2>5. LagIsExplained'
    BY <1>1, <1>2, <1>13 DEF LagIsExplained
  <2>6. WakeInv'
    BY <1>2, <1>3, <1>5, <1>12, <1>13 DEF WakeInv, In2
  <2> QED BY <1>9, <1>10, <2>2, <2>3, <2>4, <2>5, <2>6 DEF LinkInv
<1>14. ASSUME NEW i \in 1..c, i \in 1..Len(In), In[i] \notin {Zero, Junk}, Matches(In[i]),
              asked' = None, Answered(In[i])
       PROVE  LinkInv'
  <2> DEFINE b == In[i]
  <2>1. CASE main = "ask"
    <3>1. /\ reading' = reading /\ answered' = answered
          /\ (main' = "release" /\ next' = next /\ attempts' = attempts) \/ NotAnswered
      BY <1>14, <2>1 DEF Answered, NotAnswered
    <3>2. /\ next' \in Joints /\ attempts' \in 0..ConnectAttempts /\ MainInv'
          /\ main' \in {"nudge", "poll", "sleep", "gone", "release"}
      <4>1. CASE NotAnswered
        BY <1>1, <1>5, <1>14, <3>1, <4>1, NotAnsweredIs
      <4>2. CASE main' = "release" /\ next' = next /\ attempts' = attempts
        BY <1>1, <1>14, <4>2 DEF MainInv, HostOK
      <4> QED BY <3>1, <4>1, <4>2
    <3>3. HostOK'
      BY <1>1, <1>2, <1>14, <3>1, <3>2 DEF HostOK
    <3>4. TypeOK'
      BY <1>3, <1>8, <3>3, TypeAgain
    <3>5. LagInv'
      <4> SUFFICES ASSUME NEW j \in Joints
                   PROVE  /\ Lags(Inward', Outward', j, Explained(j)')
                          /\ reading'[j].of # None => Lags(Inward', Outward', j, reading'[j].behind - 1)
        BY DEF LagInv
      <4>1. Explained(j)' = Explained(j) /\ Explained(j) \in Int /\ reading[j].behind - 1 \in Int
        BY <1>1, <1>2, <1>6, <1>14, <2>1 DEF Explained, HostOK
      <4> QED BY <1>1, <1>11, <3>1, <4>1 DEF LagInv, Carries
    <3>6. LagIsExplained'
      BY <1>1, <1>2, <3>1 DEF LagIsExplained
    <3>7. WakeInv'
      BY <1>2, <1>3, <1>12, <2>1 DEF WakeInv, In2
    <3> QED BY <1>9, <1>10, <3>2, <3>4, <3>5, <3>6, <3>7 DEF LinkInv
  <2>2. CASE main = "poll"
    <3>1. /\ reading' = [reading EXCEPT ![next] = [of |-> b.device, behind |-> b.behind]]
          /\ answered' = answered \cup {next} /\ NextJoint("sleep")
      BY <1>14, <2>2 DEF Answered
    <3>2. asked = PositionOf(next) /\ About(b, PositionOf(next)) /\ b.device = next /\ b.behind \in Nat
      BY <1>1, <1>2, <1>14, <2>2, PolledIs DEF In
    <3>3. next \in Joints /\ reading \in [Joints -> [of : Joints \cup {None}, behind : Nat]] /\ answered \subseteq Joints
      BY <1>1 DEF HostOK
    <3>4. late[next] \in Nat /\ Explained(next) = late[next]
      BY <1>1, <3>2, <3>3 DEF HostOK, Explained
    <3>5. Lags(In, Out, next, late[next])
      BY <1>1, <3>3, <3>4 DEF LagInv, In, Out
    <3>6. b.behind <= late[next] /\ Lags(In2, Out, next, b.behind - 1)
      BY <1>3, <1>4, <1>7, <1>14, <3>2, <3>4, <3>5, LagsAfterReply
    <3> HIDE DEF b
    <3>7. /\ next' \in Joints /\ main' \in {"poll", "sleep"} /\ attempts' = attempts
          /\ main' = "poll" => next' = next + 1
      BY <1>1, <2>2, <3>1, NextJointIs
    <3>8. /\ reading' \in [Joints -> [of : Joints \cup {None}, behind : Nat]]
          /\ reading'[next].of = next /\ reading'[next].behind = b.behind
          /\ \A j \in Joints : j # next => reading'[j] = reading[j]
      BY <3>1, <3>2, <3>3
    <3>9. answered' \subseteq Joints
      BY <3>1, <3>3
    <3>10. HostOK'
      BY <1>1, <1>2, <1>14, <3>7, <3>8, <3>9 DEF HostOK
    <3>11. TypeOK'
      BY <1>3, <1>8, <3>10, TypeAgain
    <3>12. LagInv'
      <4> SUFFICES ASSUME NEW j \in Joints
                   PROVE  /\ Lags(In2, Out, j, Explained(j)')
                          /\ reading'[j].of # None => Lags(In2, Out, j, reading'[j].behind - 1)
        BY <1>3 DEF LagInv, In2, Out
      <4>1. Explained(j)' = late[j] - 1 /\ late[j] - 1 \in Int /\ reading[j].behind - 1 \in Int
        BY <1>1, <1>2, <1>6, <1>14 DEF Explained, HostOK
      <4>2. CASE j = next
        <5>1. IsWithin(In2, In2, 0, PositionOf(j)) /\ IsWithin(Out, Out, 0, PositionOf(j))
          BY <1>3, <1>7, SameWithin
        <5>2. b.behind - 1 \in Int /\ b.behind - 1 <= late[j] - 1 /\ 0 \in Int
          BY <3>2, <3>4, <3>6, <4>2
        <5>3. Lags(In2, Out, j, late[j] - 1)
          BY <1>3, <1>7, <3>6, <4>1, <4>2, <5>1, <5>2, LagsWithin
        <5> QED BY <3>6, <3>8, <4>1, <4>2, <5>3
      <4>3. CASE j # next
        <5>1. Explained(j) = late[j] - 1
          BY <1>6, <4>3 DEF Explained
        <5>2. /\ Lags(In, Out, j, late[j] - 1)
              /\ reading[j].of # None => Lags(In, Out, j, reading[j].behind - 1)
          BY <1>1, <5>1 DEF LagInv, In, Out
        <5>3. \A most \in Int : Lags(In, Out, j, most) => Lags(In2, Out, j, most)
          BY <1>3, <1>11 DEF Carries, In, In2, Out
        <5> QED BY <3>8, <4>1, <4>3, <5>2, <5>3
      <4> QED BY <4>2, <4>3
    <3>13. LagIsExplained'
      BY <1>1, <1>2, <3>1, <3>2, <3>3, <3>6, <3>8 DEF LagIsExplained
    <3>14. MainInv'
      <4>1. \A j \in answered' : j < next + 1
        BY <1>1, <2>2, <3>1, <3>3 DEF MainInv, Joints
      <4> QED BY <1>14, <3>7, <4>1 DEF MainInv
    <3>15. WakeInv'
      BY <3>7 DEF WakeInv
    <3> QED BY <1>9, <1>10, <3>11, <3>12, <3>13, <3>14, <3>15 DEF LinkInv
  <2> QED BY <1>5, <2>1, <2>2
<1> QED BY <1>4, <1>13, <1>14

\* The arm reads the oldest byte.  If that is a zero it is left with nothing, and what it had
\* before is a packet if that is one byte; if not it keeps it.
LEMMA ArmReads ==
  ASSUME LinesOK, toArm # <<>>, toArm' = Tail(toArm),
         armBuffer' = Feed(armBuffer, <<Head(toArm)>>).rest
  PROVE  /\ armBuffer' \in Seq(Bytes) /\ toArm' \in Seq(Bytes) /\ Outward' \in Seq(Bytes)
         /\ Len(armBuffer') <= MaxBuffered /\ \A k \in 1..Len(armBuffer') : armBuffer'[k] # Zero
         /\ \A k \in 1..Len(armBuffer) : k \in 1..Len(Outward) /\ Outward[k] = armBuffer[k] /\ Outward[k] # Zero
         /\ \/ /\ Feed(armBuffer, <<Head(toArm)>>).packets = <<>>
               /\ \E d \in 0..1 : IsTail(Outward', Outward, d) /\ (d = 1 => Len(armBuffer) = MaxBuffered)
            \/ /\ Feed(armBuffer, <<Head(toArm)>>).packets = IF Parses(armBuffer) THEN armBuffer ELSE <<>>
               /\ IsTail(Outward', Outward, Len(armBuffer) + 1) /\ Outward[Len(armBuffer) + 1] = Zero
<1> DEFINE b == Head(toArm)
           n == Len(armBuffer)
           read == SubSeq(toArm, 1, 1)
           unread == SubSeq(toArm, 1 + 1, Len(toArm))
           fed == Feed(armBuffer, <<b>>)
           rest == fed.rest
           packets == fed.packets
<1>1. /\ armBuffer \in Seq(Bytes) /\ toArm \in Seq(Bytes) /\ n <= MaxBuffered
      /\ \A k \in 1..n : armBuffer[k] # Zero
  BY DEF LinesOK
<1>2. b \in Bytes /\ <<b>> \in Seq(Bytes) /\ b = toArm[1] /\ 1 \in 1..Len(toArm)
  BY <1>1
<1>3. read = <<b>>
  <2> DEFINE one == <<b>>
  <2>1. one \in Seq(Bytes) /\ Len(one) = 1 /\ \A k \in 1..1 : one[k] = b
    BY <1>2
  <2>2. read \in Seq(Bytes) /\ Len(read) = 1 /\ \A k \in 1..1 : read[k] = toArm[k] /\ k = 1
    BY <1>1, <1>2
  <2> HIDE DEF one, read, b
  <2>3. \A k \in 1..1 : read[k] = one[k]
    BY <1>2, <2>1, <2>2
  <2>4. read = one
    BY <2>1, <2>2, <2>3
  <2> QED BY <2>4 DEF one
<1>4. toArm' = unread /\ unread \in Seq(Bytes)
  BY <1>1
<1>5. FedBy(fed, armBuffer \o <<b>>, Bytes)
  BY <1>1, <1>2, FeedIs
<1>6. n \in Nat /\ Zero \in Bytes
  BY <1>1 DEF Bytes
<1> HIDE DEF b, fed, read, unread
<1>7. rest \in Seq(Bytes) /\ Len(rest) <= MaxBuffered
  BY <1>5 DEF FedBy
<1>8. \A k \in 1..Len(rest) : rest[k] # Zero
  BY <1>5 DEF FedBy, IsLeft
<1>9. armBuffer' = rest
  BY DEF fed, b
<1> HIDE DEF rest, packets
<1>10. Outward' = rest \o unread /\ Outward = armBuffer \o toArm
  BY <1>4, <1>9 DEF Outward
<1>11. rest \o unread \in Seq(Bytes)
  BY <1>4, <1>7
<1>12. \A c : IsLeft(rest, armBuffer \o <<b>>, c) => IsTail(Outward', Outward, c)
  <2> SUFFICES ASSUME NEW c, IsLeft(rest, armBuffer \o read, c) PROVE IsTail(rest \o unread, armBuffer \o toArm, c)
    BY <1>3, <1>10
  <2>1. IsTail(rest \o SubSeq(toArm, 1 + 1, Len(toArm)), armBuffer \o toArm, c)
    BY <1>1, <1>2, <1>7, ReadTakes DEF read
  <2> QED BY <2>1 DEF unread
<1>13. /\ Outward \in Seq(Bytes) /\ Len(Outward) = n + Len(toArm)
       /\ \A k \in 1..n : Outward[k] = armBuffer[k]
       /\ \A k \in 1..Len(toArm) : Outward[n + k] = toArm[k]
  BY <1>1, <1>10, Joined DEF IsJoin
<1>14. \A k \in 1..n : k \in 1..Len(Outward) /\ Outward[k] = armBuffer[k] /\ Outward[k] # Zero
  BY <1>1, <1>6, <1>13
<1>15. CASE b # Zero
  <2>1. /\ packets = <<>>
        /\ \E d \in 0..1 : /\ IsLeft(rest, armBuffer \o <<b>>, d)
                           /\ d = 1 => n = MaxBuffered
    BY <1>1, <1>2, <1>15, FeedKeeps DEF packets, rest, fed
  <2>2. \E d \in 0..1 : IsTail(Outward', Outward, d) /\ (d = 1 => n = MaxBuffered)
    BY <1>12, <2>1
  <2> QED BY <1>4, <1>7, <1>8, <1>9, <1>10, <1>11, <1>14, <2>1, <2>2 DEF packets, fed, b
<1>16. CASE b = Zero
  <2>1. rest = <<>> /\ packets = IF Parses(armBuffer) THEN armBuffer ELSE <<>>
    BY <1>1, <1>6, <1>16, FeedCuts DEF packets, rest, fed
  <2>2. IsLeft(rest, armBuffer \o <<b>>, n + 1)
    <3> DEFINE line == armBuffer \o <<b>>
    <3>1. Len(line) = n + 1
      BY <1>1
    <3> HIDE DEF line
    <3>2. Len(rest) = 0
      BY <2>1
    <3>3. n + 1 \in 0..Len(line) /\ Len(rest) = Len(line) - (n + 1) /\ \A k \in 1..Len(rest) : FALSE
      BY <1>6, <3>1, <3>2
    <3>4. IsLeft(rest, line, n + 1)
      BY <3>3 DEF IsLeft
    <3> QED BY <3>4 DEF line
  <2>3. IsTail(Outward', Outward, n + 1)
    BY <1>12, <2>2
  <2>4. Outward[n + 1] = Zero
    BY <1>2, <1>13, <1>16
  <2> QED BY <1>4, <1>7, <1>8, <1>9, <1>10, <1>11, <1>14, <2>1, <2>3, <2>4 DEF packets, fed, b
<1> QED BY <1>15, <1>16

\* What is left of a step of the arm: the host and what it knows are as before.
LEMMA ArmStep ==
  ASSUME LinkInv, UNCHANGED hostVars, UNCHANGED ghosts, LinesOK', ModesOK',
         NEW c, Outward' \in Seq(Bytes), IsTail(Outward', Outward, c), Replies(Inward'), ObeyInv', Carries,
         main \in {"nudge", "ask"} => Truthful(Inward', mode'[Wrist])
  PROVE  LinkInv'
<1>1. /\ HostOK /\ LinesOK /\ ModesOK /\ LineInv /\ MainInv /\ LagInv /\ LagIsExplained /\ ObeyInv /\ WakeInv
  BY TypeParts DEF LinkInv
<1>2. /\ main' = main /\ next' = next /\ attempts' = attempts /\ asked' = asked
      /\ reading' = reading /\ answered' = answered /\ late' = late
  BY DEF hostVars, ghosts
<1>3. Outward \in Seq(Bytes)
  BY <1>1, LinesAre
<1>4. HostOK'
  BY <1>1, <1>2 DEF HostOK
<1>5. TypeOK'
  BY <1>4, TypeAgain
<1>6. LineInv'
  BY <1>1, <1>3, OrdersStay DEF LineInv
<1>7. MainInv'
  BY <1>1, <1>2 DEF MainInv, Asks
<1>8. LagInv'
  BY <1>1, <1>2, LagKept
<1>9. LagIsExplained'
  BY <1>1, <1>2 DEF LagIsExplained
<1>10. WakeInv'
  <2> SUFFICES ASSUME main \in {"nudge", "ask"} PROVE Nudges(Outward')
    BY <1>2 DEF WakeInv
  <2>1. Nudges(Outward)
    BY <1>1 DEF WakeInv
  <2> QED BY <1>3, <2>1, NudgesStay
<1> QED BY <1>5, <1>6, <1>7, <1>8, <1>9, <1>10 DEF LinkInv

\* A byte that completes no packet.
LEMMA ArmWaits ==
  ASSUME LinkInv, UNCHANGED hostVars, UNCHANGED ghosts, LinesOK', UNCHANGED <<toHost, mode, faults>>,
         NEW c, Outward' \in Seq(Bytes), IsTail(Outward', Outward, c),
         c = 0 \/ Outward[c] = Zero \/ (c + 1 \in DOMAIN Outward => ~IsCommand(Outward[c + 1])),
         \A j \in Joints : \A i \in Pending(Outward, j) : ~(i <= c)
  PROVE  LinkInv'
<1> DEFINE In == Inward
           Out == Outward
           Out2 == Outward'
<1>1. LinesOK /\ ModesOK /\ LineInv /\ ObeyInv /\ WakeInv
  BY TypeParts DEF LinkInv
<1>2. In \in Seq(Bytes) /\ Out \in Seq(Bytes)
  BY <1>1, LinesAre
<1>3. Inward' = In
  BY DEF Inward, hostVars
<1>4. ModesOK'
  BY <1>1 DEF ModesOK, ghosts
<1> HIDE DEF In, Out, Out2
<1>5. Replies(Inward')
  BY <1>1, <1>3 DEF LineInv, In
<1>6. c \in Int
  BY DEF IsTail
<1>7. ObeyInv'
  <2> SUFFICES ASSUME NEW j \in Joints PROVE Obeys(Out2, j, mode[j], told[j])
    BY DEF ObeyInv, Out2, ghosts
  <2>1. Obeys(Out, j, mode[j], told[j])
    BY <1>1 DEF ObeyInv, Out
  <2>2. (\A i \in Pending(Out, j) : i <= c) => mode[j] = told[j]
    <3> SUFFICES ASSUME \A i \in Pending(Out, j) : i <= c PROVE mode[j] = told[j]
      OBVIOUS
    <3>1. Pending(Out, j) = {}
      BY DEF Out
    <3> QED BY <2>1, <3>1 DEF Obeys
  <2> QED BY <1>2, <2>1, <2>2, ObeysTail DEF Out, Out2
<1>8. Carries
  <2> SUFFICES ASSUME NEW j \in Joints, NEW most \in Int, Lags(In, Out, j, most)
               PROVE  Lags(In, Out2, j, most)
    BY <1>3 DEF Carries, In, Out, Out2
  <2>1. IsWithin(Out2, Out, c, PositionOf(j)) /\ IsWithin(In, In, 0, PositionOf(j))
    BY <1>2, TailWithin, SameWithin DEF Out, Out2
  <2>2. most <= most /\ 0 \in Int /\ Out2 \in Seq(Bytes)
    BY DEF Out2
  <2> QED BY <1>2, <1>6, <2>1, <2>2, LagsWithin
<1>9. main \in {"nudge", "ask"} => Truthful(Inward', mode'[Wrist])
  BY <1>1, <1>3 DEF WakeInv, In
<1> QED BY <1>4, <1>5, <1>7, <1>8, <1>9, ArmStep

\* In a buffer without a zero only the last byte can be a packet, and a command that ends with
\* it is found only if there is nothing before it.
LEMMA AheadIs ==
  ASSUME NEW out \in Seq(Bytes), Orders(out), NEW n \in Nat,
         \A k \in 1..n : k \in 1..Len(out) /\ out[k] # Zero
  PROVE  /\ \A k \in 1..(n - 1) : ~IsPacket(out[k])
         /\ out[n + 1] = Zero => \A j : \A i \in Pending(out, j) : i <= n + 1 => i = 1 /\ n = 1
<1>1. \A k \in 1..Len(out) : IsPacket(out[k]) => out[k + 1] = Zero
  BY DEF Orders
<1>2. ASSUME NEW k \in 1..(n - 1) PROVE ~IsPacket(out[k])
  <2>1. k \in 1..n /\ k + 1 \in 1..n
    OBVIOUS
  <2> QED BY <1>1, <2>1
<1>3. ASSUME out[n + 1] = Zero, NEW j, NEW i \in Pending(out, j), i <= n + 1 PROVE i = 1 /\ n = 1
  <2>1. i \in 1..Len(out) /\ IsCommand(out[i]) /\ (i = 1 \/ out[i - 1] = Zero)
    BY PendingIs
  <2>2. i # n + 1
    BY <1>3, <2>1, SerialAssumption DEF IsCommand, IsPacket
  <2>3. i \in 1..n /\ i \in Nat
    BY <1>3, <2>1, <2>2
  <2>4. IsPacket(out[i])
    BY <2>1 DEF IsCommand
  <2>5. i = n
    BY <1>2, <2>3, <2>4
  <2>6. i # 1 => i - 1 \in 1..n
    BY <2>3
  <2> QED BY <2>1, <2>5, <2>6
<1> QED BY <1>2, <1>3

\* The arm's part of the line after it has read a byte.
ArmOK ==
  /\ armBuffer \in Seq(Bytes) /\ toArm \in Seq(Bytes)
  /\ Len(armBuffer) <= MaxBuffered /\ \A k \in 1..Len(armBuffer) : armBuffer[k] # Zero

\* A request comes out of the arm's reader, and its reply goes to the host.
LEMMA ArmAnswers ==
  ASSUME LinkInv, UNCHANGED hostVars, UNCHANGED ghosts, ArmOK', mode' = mode,
         Outward' \in Seq(Bytes), IsTail(Outward', Outward, 2), Outward[2] = Zero,
         IsRequest(Outward[1]), NEW way \in Ways, Counted(way),
         toHost' = toHost \o Frame(Reply(Outward[1]), way)
  PROVE  LinkInv'
<1> DEFINE In == Inward
           In2 == Inward'
           Out == Outward
           Out2 == Outward'
           p == Outward[1]
           r == Reply(p)
           f == Frame(r, way)
<1>1. HostOK /\ LinesOK /\ ModesOK /\ LineInv /\ LagInv /\ ObeyInv /\ WakeInv
  BY TypeParts DEF LinkInv
<1>2. In \in Seq(Bytes) /\ Out \in Seq(Bytes)
  BY <1>1, LinesAre
<1>3. p \in Packets /\ p.kind = "request" /\ p.field \in {"mode", "position"} /\ p.device \in Joints /\ p.behind \in Nat
  BY DEF IsRequest, IsPacket, Packets
<1> HIDE DEF p
<1>4. /\ r \in Packets /\ r.kind = "reply" /\ r.device = p.device /\ r.field = p.field /\ r.behind = p.behind
      /\ r.value = IF p.field = "mode" THEN mode[p.device] ELSE None
      /\ mode[p.device] \in Modes
  <2>1. mode[p.device] \in Modes
    BY <1>1, <1>3 DEF ModesOK
  <2> QED BY <1>3, <2>1 DEF Reply, Packet, Packets
<1> HIDE DEF r
<1>5. IsReply(r) /\ IsPacket(r)
  BY <1>4 DEF IsReply, IsPacket
<1>6. way \in {"whole"} \cup Faults /\ faults' \in 0..MaxFaults
  BY <1>1, FaultsBounded
<1>7. f \in Seq(Bytes)
  BY <1>5, <1>6, FrameIs
<1>8. hostBuffer \in Seq(Bytes) /\ toHost \in Seq(Bytes) /\ hostBuffer' = hostBuffer /\ toHost' = toHost \o f
  BY <1>1 DEF LinesOK, hostVars, r, p
<1> HIDE DEF f
<1>9. LinesOK'
  <2>1. toHost' \in Seq(Bytes)
    BY <1>7, <1>8
  <2> QED BY <1>1, <1>6, <1>8, <2>1 DEF LinesOK, ArmOK
<1>10. In2 = In \o f
  <2> DEFINE h == hostBuffer
             w == toHost
  <2>1. h \in Seq(Bytes) /\ w \in Seq(Bytes)
    BY <1>8
  <2> HIDE DEF h, w
  <2>2. h \o (w \o f) = (h \o w) \o f
    BY <1>7, <2>1, Grouped, Zenon
  <2> QED BY <1>8, <2>2 DEF Inward, h, w
<1> HIDE DEF In, In2, Out, Out2
<1>11. IsGrown(In2, In, r, way)
  BY <1>2, <1>5, <1>6, <1>10, FrameGrows DEF f
<1>12. ModesOK'
  BY <1>1 DEF ModesOK, ghosts
<1>13. Replies(In2)
  BY <1>1, <1>2, <1>5, <1>11, RepliesStay DEF LineInv, In
<1>14. ~IsCommand(Out[1]) /\ ~IsCommand(Out[2])
  BY <1>3, SerialAssumption DEF IsCommand, IsPacket, p, Out
<1>15. ObeyInv'
  <2> SUFFICES ASSUME NEW j \in Joints PROVE Obeys(Out2, j, mode[j], told[j])
    BY DEF ObeyInv, Out2, ghosts
  <2>1. Obeys(Out, j, mode[j], told[j])
    BY <1>1 DEF ObeyInv, Out
  <2>2. (\A i \in Pending(Out, j) : i <= 2) => mode[j] = told[j]
    <3> SUFFICES ASSUME \A i \in Pending(Out, j) : i <= 2 PROVE mode[j] = told[j]
      OBVIOUS
    <3>1. \A i \in Pending(Out, j) : i \in 1..2 /\ IsCommand(Out[i])
      BY <1>2, PendingIs
    <3>2. Pending(Out, j) = {}
      BY <1>14, <3>1
    <3> QED BY <2>1, <3>2 DEF Obeys
  <2>3. Out[2] = Zero /\ IsTail(Out2, Out, 2) /\ Out2 \in Seq(Bytes)
    BY DEF Out, Out2
  <2> QED BY <1>2, <2>1, <2>2, <2>3, ObeysTail
<1>16. Carries
  <2> SUFFICES ASSUME NEW j \in Joints, NEW most \in Int, Lags(In, Out, j, most)
               PROVE  Lags(In2, Out2, j, most)
    BY DEF Carries, In, In2, Out, Out2
  <2>1. ASSUME About(r, PositionOf(j)) PROVE About(Out[1], PositionOf(j)) /\ r.behind = Out[1].behind
    <3>1. p \notin {Zero, Junk}
      BY <1>3, PacketIsNoOther DEF IsPacket
    <3> QED BY <1>3, <1>4, <2>1, <3>1 DEF About, p, Out
  <2>2. 1 \in 1..2 /\ IsTail(Out2, Out, 2) /\ Out2 \in Seq(Bytes)
    BY DEF Out, Out2
  <2> QED BY <1>2, <1>11, <2>1, <2>2, LagsWithReply
<1>17. main \in {"nudge", "ask"} => Truthful(In2, mode[Wrist])
  <2> SUFFICES ASSUME main \in {"nudge", "ask"} PROVE Truthful(In2, mode[Wrist])
    OBVIOUS
  <2>1. Truthful(In, mode[Wrist])
    BY <1>1 DEF WakeInv, In
  <2>2. SaysAwake(r) => mode[Wrist] = "velocity"
    BY <1>4, SerialAssumption DEF SaysAwake, Modes
  <2> QED BY <1>2, <1>11, <2>1, <2>2, TruthfulStays
<1> QED BY <1>9, <1>12, <1>13, <1>15, <1>16, <1>17, ArmStep DEF In2, Out2

\* A command comes out of the arm's reader, and is obeyed.
LEMMA ArmObeys ==
  ASSUME LinkInv, UNCHANGED hostVars, UNCHANGED ghosts, ArmOK', toHost' = toHost, faults' = faults,
         Outward' \in Seq(Bytes), IsTail(Outward', Outward, 2), Outward[2] = Zero,
         1 \in DOMAIN Outward, IsCommand(Outward[1]),
         mode' = [mode EXCEPT ![Outward[1].device] = Outward[1].value]
  PROVE  LinkInv'
<1> DEFINE In == Inward
           Out == Outward
           Out2 == Outward'
           p == Outward[1]
<1>1. HostOK /\ LinesOK /\ ModesOK /\ LineInv /\ LagInv /\ ObeyInv /\ WakeInv
  BY TypeParts DEF LinkInv
<1>2. In \in Seq(Bytes) /\ Out \in Seq(Bytes)
  BY <1>1, LinesAre
<1>3. IsCommand(p) /\ p.device \in Joints /\ p.value \in Modes
  BY DEF IsCommand, IsPacket, Packets
<1>4. mode' = [mode EXCEPT ![p.device] = p.value]
  OBVIOUS
<1> HIDE DEF p
<1>5. /\ mode' \in [Joints -> Modes] /\ mode'[p.device] = p.value
      /\ \A j \in Joints : j # p.device => mode'[j] = mode[j]
  BY <1>1, <1>3, <1>4 DEF ModesOK
<1>6. ModesOK'
  BY <1>1, <1>5 DEF ModesOK, ghosts
<1>7. LinesOK'
  BY <1>1 DEF LinesOK, ArmOK, hostVars
<1>8. Inward' = In
  BY DEF Inward, hostVars
<1> HIDE DEF In, Out, Out2
<1>9. Replies(Inward')
  BY <1>1, <1>8 DEF LineInv, In
<1>10. ~IsCommand(Out[2])
  BY SerialAssumption DEF IsCommand, IsPacket, Out
<1>11. ObeyInv'
  <2> SUFFICES ASSUME NEW j \in Joints PROVE Obeys(Out2, j, mode'[j], told[j])
    BY DEF ObeyInv, Out2, ghosts
  <2>1. Obeys(Out, j, mode[j], told[j])
    BY <1>1 DEF ObeyInv, Out
  <2>2. (\A i \in Pending(Out, j) : i <= 2) => mode'[j] = told[j]
    <3> SUFFICES ASSUME \A i \in Pending(Out, j) : i <= 2 PROVE mode'[j] = told[j]
      OBVIOUS
    <3>1. \A i \in Pending(Out, j) : i = 1 /\ Out[i].device = j
      <4>1. \A i \in Pending(Out, j) : i \in 1..2 /\ IsCommand(Out[i]) /\ Out[i].device = j
        BY <1>2, PendingIs
      <4> QED BY <1>10, <4>1
    <3>2. CASE p.device = j
      <4>1. 1 \in Pending(Out, j)
        <5>1. 1 \in 1..Len(Out)
          BY <1>2 DEF Out
        <5> QED BY <1>2, <1>3, <3>2, <5>1, PendingIs DEF p, Out
      <4>2. \A k \in Pending(Out, j) : k <= 1
        BY <3>1
      <4>3. Out[1].value = told[j]
        BY <2>1, <4>1, <4>2 DEF Obeys
      <4> QED BY <1>5, <3>2, <4>3 DEF p, Out
    <3>3. CASE p.device # j
      <4>1. Pending(Out, j) = {}
        BY <3>1, <3>3 DEF p, Out
      <4> QED BY <1>5, <2>1, <3>3, <4>1 DEF Obeys
    <3> QED BY <3>2, <3>3
  <2>3. Out[2] = Zero /\ IsTail(Out2, Out, 2) /\ Out2 \in Seq(Bytes)
    BY DEF Out, Out2
  <2> QED BY <1>2, <2>1, <2>2, <2>3, ObeysTail
<1>12. Carries
  <2> SUFFICES ASSUME NEW j \in Joints, NEW most \in Int, Lags(In, Out, j, most)
               PROVE  Lags(In, Out2, j, most)
    BY <1>8 DEF Carries, In, Out, Out2
  <2>1. IsWithin(Out2, Out, 2, PositionOf(j)) /\ IsWithin(In, In, 0, PositionOf(j))
    BY <1>2, TailWithin, SameWithin DEF Out, Out2
  <2>2. most <= most /\ 0 \in Int /\ 2 \in Int /\ Out2 \in Seq(Bytes)
    BY DEF Out2
  <2> QED BY <1>2, <2>1, <2>2, LagsWithin
<1>13. main \in {"nudge", "ask"} => Truthful(Inward', mode'[Wrist])
  <2> SUFFICES ASSUME main \in {"nudge", "ask"} PROVE mode'[Wrist] = "velocity"
    BY DEF Truthful
  <2>1. p.device = Wrist /\ p.value = "velocity"
    BY <1>1, <1>3 DEF WakeInv, Nudges, p
  <2> QED BY <1>5, <2>1
<1> QED BY <1>6, <1>7, <1>9, <1>11, <1>12, <1>13, ArmStep DEF Out2

LEMMA ArmReceivesKeeps ==
  ASSUME LinkInv, NEW way \in Ways, ArmReceives(way)
  PROVE  LinkInv'
<1> DEFINE Out == Outward
           n == Len(armBuffer)
           packets == Feed(armBuffer, <<Head(toArm)>>).packets
<1>1. LinesOK /\ LineInv /\ ObeyInv
  BY TypeParts DEF LinkInv
<1>2. /\ UNCHANGED hostVars /\ UNCHANGED ghosts
      /\ toArm # <<>> /\ toArm' = Tail(toArm) /\ armBuffer' = Feed(armBuffer, <<Head(toArm)>>).rest
      /\ IF packets = <<>> THEN way = "whole" /\ UNCHANGED <<toHost, mode, faults>>
         ELSE Handle(Head(packets), way)
  BY DEF ArmReceives
<1>3. /\ armBuffer' \in Seq(Bytes) /\ toArm' \in Seq(Bytes) /\ Outward' \in Seq(Bytes)
      /\ Len(armBuffer') <= MaxBuffered /\ \A k \in 1..Len(armBuffer') : armBuffer'[k] # Zero
      /\ \A k \in 1..n : k \in 1..Len(Out) /\ Out[k] = armBuffer[k] /\ Out[k] # Zero
      /\ \/ /\ packets = <<>>
            /\ \E d \in 0..1 : IsTail(Outward', Out, d) /\ (d = 1 => n = MaxBuffered)
         \/ /\ packets = IF Parses(armBuffer) THEN armBuffer ELSE <<>>
            /\ IsTail(Outward', Out, n + 1) /\ Out[n + 1] = Zero
  BY <1>1, <1>2, ArmReads
<1> HIDE DEF packets
<1>4. Out \in Seq(Bytes) /\ Orders(Out) /\ n \in Nat /\ armBuffer \in Seq(Bytes)
  <2>1. armBuffer \in Seq(Bytes)
    BY <1>1 DEF LinesOK
  <2> QED BY <1>1, <2>1, LinesAre DEF LineInv
<1> HIDE DEF Out, n
<1>5. /\ \A k \in 1..(n - 1) : ~IsPacket(Out[k])
      /\ Out[n + 1] = Zero => \A j : \A i \in Pending(Out, j) : i <= n + 1 => i = 1 /\ n = 1
  BY <1>3, <1>4, AheadIs
<1>6. ArmOK'
  BY <1>3 DEF ArmOK
<1>7. UNCHANGED <<toHost, faults>> => LinesOK'
  BY <1>1, <1>2, <1>6 DEF LinesOK, ArmOK, hostVars
<1>8. \A j : \A i \in Pending(Out, j) : i \in 1..Len(Out) /\ IsCommand(Out[i]) /\ IsPacket(Out[i])
  BY <1>4, PendingIs DEF IsCommand
<1>9. ASSUME packets = <<>>, NEW d \in 0..1, IsTail(Outward', Out, d), d = 1 => n = MaxBuffered
      PROVE  LinkInv'
  <2>1. UNCHANGED <<toHost, mode, faults>> /\ LinesOK'
    BY <1>2, <1>7, <1>9
  <2>2. d = 1 => 1 \in 1..(n - 1) /\ 2 \in 1..(n - 1)
    BY <1>9, SerialAssumption
  <2>3. d = 0 \/ Out[d] = Zero \/ (d + 1 \in DOMAIN Out => ~IsCommand(Out[d + 1]))
    <3>1. d = 1 => ~IsPacket(Out[2]) /\ d + 1 = 2
      BY <1>5, <2>2
    <3> QED BY <3>1 DEF IsCommand
  <2>4. ASSUME NEW j \in Joints, NEW i \in Pending(Out, j) PROVE ~(i <= d)
    <3>1. i \in 1..Len(Out) /\ IsPacket(Out[i])
      BY <1>8
    <3>2. d = 1 => ~IsPacket(Out[1])
      BY <1>5, <2>2
    <3> QED BY <3>1, <3>2
  <2> QED BY <1>2, <1>3, <1>9, <2>1, <2>3, <2>4, ArmWaits DEF Out
<1>10. CASE /\ packets = IF Parses(armBuffer) THEN armBuffer ELSE <<>>
            /\ IsTail(Outward', Out, n + 1) /\ Out[n + 1] = Zero
  <2>1. CASE ~Parses(armBuffer)
    <3>1. UNCHANGED <<toHost, mode, faults>> /\ LinesOK'
      BY <1>2, <1>7, <1>10, <2>1
    <3>2. ASSUME NEW j \in Joints, NEW i \in Pending(Out, j) PROVE ~(i <= n + 1)
      <4> SUFFICES ASSUME i <= n + 1 PROVE FALSE
        OBVIOUS
      <4>1. i = 1 /\ n = 1 /\ IsPacket(Out[1])
        BY <1>5, <1>8, <1>10
      <4>2. Out[1] = armBuffer[1]
        BY <1>3, <4>1
      <4>3. armBuffer[1] # Junk
        BY <4>1, <4>2, PacketIsNoOther
      <4> QED BY <2>1, <4>1, <4>3 DEF Parses, n
    <3> QED BY <1>2, <1>3, <1>10, <3>1, <3>2, ArmWaits DEF Out
  <2>2. CASE Parses(armBuffer)
    <3>1. n = 1 /\ armBuffer[1] # Junk
      BY <2>2 DEF Parses, n
    <3>2. /\ 1 \in 1..Len(Out) /\ Out[1] = armBuffer[1] /\ Out[1] \notin {Zero, Junk}
      BY <1>3, <3>1
    <3>3. packets = armBuffer /\ packets # <<>> /\ Head(packets) = Out[1]
      <4>1. packets = armBuffer
        BY <1>10, <2>2
      <4>2. armBuffer # <<>>
        <5>1. Len(armBuffer) = 1
          BY <3>1 DEF n
        <5> QED BY <5>1
      <4>3. Head(armBuffer) = armBuffer[1]
        BY <1>4, <4>2
      <4> QED BY <3>2, <4>1, <4>2, <4>3
    <3>4. Handle(Out[1], way)
      BY <1>2, <3>3
    <3>5. IsTail(Outward', Out, 2) /\ Out[2] = Zero /\ 1 \in DOMAIN Out
      BY <1>4, <1>10, <3>1, <3>2
    <3>6. IsCommand(Out[1]) \/ IsRequest(Out[1])
      BY <3>2, <3>5, <1>4 DEF Orders
    <3>7. CASE IsRequest(Out[1])
      <4>1. toHost' = toHost \o Frame(Reply(Out[1]), way) /\ Counted(way) /\ mode' = mode
        BY <3>4, <3>7 DEF Handle, IsRequest
      <4> QED BY <1>2, <1>3, <1>6, <3>5, <3>7, <4>1, ArmAnswers DEF Out
    <3>8. CASE IsCommand(Out[1])
      <4>1. mode' = [mode EXCEPT ![Out[1].device] = Out[1].value] /\ toHost' = toHost /\ faults' = faults
        BY <3>4, <3>8 DEF Handle, IsCommand
      <4> QED BY <1>2, <1>3, <1>6, <3>5, <3>8, <4>1, ArmObeys DEF Out
    <3> QED BY <3>6, <3>7, <3>8
  <2> QED BY <2>1, <2>2
<1> QED BY <1>3, <1>9, <1>10

-----------------------------------------------------------------------------

LEMMA LinkStarts == Init => LinkInv
<1> SUFFICES ASSUME Init PROVE LinkInv
  OBVIOUS
<1> DEFINE none == <<>>
<1>1. /\ main = "nudge" /\ next = 1 /\ attempts = 0 /\ asked = None
      /\ hostBuffer = none /\ toArm = none /\ toHost = none /\ armBuffer = none
      /\ mode \in [Joints -> Modes] /\ told = mode
      /\ reading = [j \in Joints |-> Unread] /\ answered = {}
      /\ late = [j \in Joints |-> 0] /\ faults = 0
  BY DEF Init
<1>2. none \in Seq(Bytes) /\ Len(none) = 0 /\ none \o none = none /\ DOMAIN none = {} /\ \A k \in 1..Len(none) : FALSE
  OBVIOUS
<1> HIDE DEF none
<1>3. Inward = none /\ Outward = none
  BY <1>1, <1>2 DEF Inward, Outward
<1>4. TypeOK
  <2>1. \A bytes \in {hostBuffer, toArm, toHost, armBuffer} : bytes \in Seq(Bytes)
    BY <1>1, <1>2
  <2>2. \A buffer \in {hostBuffer, armBuffer} : Len(buffer) <= MaxBuffered /\ ~Contains(buffer, Zero)
    BY <1>1, <1>2, SerialAssumption DEF Contains
  <2>3. reading \in [Joints -> [of : Joints \cup {None}, behind : Nat]]
    BY <1>1 DEF Unread
  <2>4. next \in Joints /\ attempts \in 0..ConnectAttempts /\ late \in [Joints -> 0..MaxLate] /\ faults \in 0..MaxFaults
    BY <1>1, SerialAssumption DEF Joints
  <2> QED BY <1>1, <2>1, <2>2, <2>3, <2>4 DEF TypeOK
<1>5. LineInv
  BY <1>2, <1>3 DEF LineInv, Replies, Orders
<1>6. MainInv
  BY <1>1, SerialAssumption DEF MainInv
<1>7. LagInv
  BY <1>2, <1>3, LagsOfNone DEF LagInv
<1>8. LagIsExplained
  BY <1>1 DEF LagIsExplained
<1>9. ObeyInv
  BY <1>1, <1>2, <1>3 DEF ObeyInv, Obeys, Pending
<1>10. WakeInv
  BY <1>2, <1>3 DEF WakeInv, Nudges, Truthful
<1> QED BY <1>4, <1>5, <1>6, <1>7, <1>8, <1>9, <1>10 DEF LinkInv

LEMMA LinkKeeps == LinkInv /\ [Next]_vars => LinkInv'
<1> SUFFICES ASSUME LinkInv, [Next]_vars PROVE LinkInv'
  OBVIOUS
<1>1. ASSUME NEW way \in Ways, Nudge(way) \/ Ask(way) \/ Release(way) \/ ArmReceives(way) PROVE LinkInv'
  BY <1>1, NudgeKeeps, AskFails, AskKeeps, ReleaseKeeps, ArmReceivesKeeps
<1>2. ASSUME NEW way \in Ways, NEW joint \in Joints, NEW to \in Modes, Command(joint, to, way) PROVE LinkInv'
  BY <1>2, CommandKeeps
<1>3. CASE ReceiveSome
  BY <1>3, ReceiveKeeps DEF ReceiveSome
<1>4. CASE TimeOut
  BY <1>4, TimeOutKeeps
<1>5. CASE Poll \/ Leave \/ UNCHANGED vars
  BY <1>5, LoopKeeps
<1> QED BY <1>1, <1>2, <1>3, <1>4, <1>5 DEF Next

LEMMA LinkHolds == Spec => []LinkInv
<1> QED BY LinkStarts, LinkKeeps, PTL DEF Spec

\* What the variables hold, and that neither reader ever keeps more than MaxBuffered bytes
\* or a zero byte, whatever is on the line (PacketReader::feed).
THEOREM TypesHold == Spec => []TypeOK
<1>1. LinkInv => TypeOK
  BY DEF LinkInv
<1> QED BY <1>1, LinkHolds, PTL

\* A position that a poll keeps is of its joint, and as many requests behind at most as there
\* were late replies of the joint (ArmLink::request, readPosition).
THEOREM LagStaysExplained == Spec => []LagIsExplained
<1>1. LinkInv => LagIsExplained
  BY DEF LinkInv
<1> QED BY <1>1, LinkHolds, PTL

\* Every joint is in the mode of the last command that was written whole after a zero byte,
\* once that has arrived (PacketReader::feed, SimulatedArm's handle).
THEOREM CommandsHold == Spec => []CommandsAreObeyed
<1>1. LinkInv => CommandsAreObeyed
  <2> SUFFICES ASSUME LinkInv, NEW j \in Joints,
                      \A bytes \in {toArm, armBuffer} : \A i \in DOMAIN bytes :
                        bytes[i] \in {Zero, Junk} \/ bytes[i].kind # "command" \/ bytes[i].device # j
               PROVE  mode[j] = told[j]
    BY DEF CommandsAreObeyed
  <2>1. armBuffer \in Seq(Bytes) /\ toArm \in Seq(Bytes) /\ Outward \in Seq(Bytes) /\ ObeyInv
    BY TypeParts, LinesAre DEF LinkInv, LinesOK
  <2> DEFINE n == Len(armBuffer)
             free(byte) == byte \in {Zero, Junk} \/ byte.kind # "command" \/ byte.device # j
  <2>2. /\ \A i \in 1..n : free(armBuffer[i])
        /\ \A i \in 1..Len(toArm) : free(toArm[i])
    BY <2>1
  <2>3. /\ Len(Outward) = n + Len(toArm)
        /\ \A q \in 1..n : Outward[q] = armBuffer[q]
        /\ \A q \in 1..Len(toArm) : Outward[n + q] = toArm[q]
    BY <2>1, Joined DEF IsJoin, Outward
  <2>4. n \in Nat /\ Len(toArm) \in Nat
    BY <2>1
  <2> HIDE DEF n
  <2>5. ASSUME NEW i \in Pending(Outward, j) PROVE FALSE
    <3>1. i \in 1..Len(Outward) /\ IsCommand(Outward[i]) /\ Outward[i].device = j
      BY <2>1, PendingIs
    <3>2. ~free(Outward[i])
      BY <3>1, PacketIsNoOther DEF IsCommand
    <3> HIDE DEF free
    <3>3. CASE i \in 1..n
      BY <2>2, <2>3, <3>2, <3>3
    <3>4. CASE i \notin 1..n
      <4> DEFINE q == i - n
      <4>1. q \in 1..Len(toArm) /\ i = n + q
        BY <2>3, <2>4, <3>1, <3>4
      <4> HIDE DEF q
      <4> QED BY <2>2, <2>3, <3>2, <4>1
    <3> QED BY <3>3, <3>4
  <2> QED BY <2>1, <2>5 DEF ObeyInv, Obeys
<1> QED BY <1>1, LinkHolds, PTL

\* A poll never replaces a position by an older one, or by one it has read before
\* (ArmLink::request, PacketReader::feed).
THEOREM ReadingsStayInOrder == Spec => ReadingsInOrder
<1> DEFINE InOrder == \A j \in answered' \ answered :
                        reading[j].of = None \/ reading'[j].behind < reading[j].behind
<1>1. LinkInv /\ [Next]_vars => [InOrder]_vars
  <2> SUFFICES ASSUME LinkInv, Next, NEW j \in answered' \ answered, reading[j].of # None
               PROVE  reading'[j].behind < reading[j].behind
    BY DEF vars
  <2>1. HostOK /\ LinesOK /\ LineInv /\ MainInv /\ LagInv
    BY TypeParts DEF LinkInv
  <2>2. PICK count \in 1..Chunk : count <= Len(toHost) /\ Receive(count)
    <3>1. ASSUME NEW way \in Ways, Nudge(way) \/ Ask(way) \/ Release(way) \/ ArmReceives(way) PROVE FALSE
      BY <3>1 DEF Nudge, Ask, Release, ArmReceives, hostVars
    <3>2. ASSUME NEW way \in Ways, NEW joint \in Joints, NEW to \in Modes, Command(joint, to, way) PROVE FALSE
      BY <3>2 DEF Command, hostVars
    <3>3. ASSUME TimeOut \/ Poll \/ Leave PROVE FALSE
      BY <3>3 DEF TimeOut, Poll, Leave
    <3> QED BY <3>1, <3>2, <3>3 DEF Next, ReceiveSome
  <2>3. asked # None
    BY <2>2 DEF Receive
  <2>4. PICK c : /\ IsTail(Inward', Inward, c)
                 /\ \/ UNCHANGED <<main, next, attempts, asked, reading, answered>>
                    \/ \E i \in 1..c : /\ i \in 1..Len(Inward) /\ Inward[i] \notin {Zero, Junk}
                                       /\ Matches(Inward[i])
                                       /\ asked' = None /\ Answered(Inward[i])
    BY <2>1, <2>2, ReceiveIs
  <2>5. PICK i \in 1..c : /\ i \in 1..Len(Inward) /\ Inward[i] \notin {Zero, Junk}
                          /\ Matches(Inward[i]) /\ Answered(Inward[i])
    BY <2>4
  <2>6. main = "poll" /\ j = next /\ reading' = [reading EXCEPT ![next] = [of |-> Inward[i].device, behind |-> Inward[i].behind]]
    <3>1. main \in {"ask", "poll"}
      BY <2>1, <2>3 DEF MainInv
    <3> QED BY <2>5, <3>1 DEF Answered
  <2>7. asked = PositionOf(j) /\ About(Inward[i], PositionOf(j)) /\ Inward[i].behind \in Nat
    BY <2>1, <2>3, <2>5, <2>6, PolledIs
  <2>8. reading[j].behind \in Nat /\ reading'[j].behind = Inward[i].behind
    BY <2>1, <2>6 DEF HostOK
  <2>9. Lags(Inward, Outward, j, reading[j].behind - 1)
    BY <2>1, <2>6 DEF LagInv, HostOK
  <2>10. Inward[i].behind <= reading[j].behind - 1
    BY <2>5, <2>7, <2>9 DEF Lags
  <2> QED BY <2>7, <2>8, <2>10
<1>2. Spec => [][InOrder]_vars
  BY <1>1, LinkHolds, PTL DEF Spec
<1> QED BY <1>2 DEF ReadingsInOrder

\* main() goes past wakeArm only when the wrist is in velocity mode (wakeArm, request).
THEOREM WristIsAwake == Spec => Woken
<1> DEFINE Wakening == main = "ask" /\ main' = "release" => mode[Wrist] = "velocity"
<1>1. LinkInv /\ [Next]_vars => [Wakening]_vars
  <2> SUFFICES ASSUME LinkInv, Next, main = "ask", main' = "release"
               PROVE  mode[Wrist] = "velocity"
    BY DEF vars
  <2>1. HostOK /\ LinesOK /\ LineInv /\ MainInv /\ WakeInv
    BY TypeParts DEF LinkInv
  <2>2. ~NotAnswered
    BY DEF NotAnswered, NotWoken
  <2>3. PICK count \in 1..Chunk : count <= Len(toHost) /\ Receive(count)
    <3>1. ASSUME NEW way \in Ways, Nudge(way) \/ Ask(way) \/ Release(way) \/ ArmReceives(way) PROVE FALSE
      BY <2>2, <3>1 DEF Nudge, Ask, Release, ArmReceives, hostVars
    <3>2. ASSUME NEW way \in Ways, NEW joint \in Joints, NEW to \in Modes, Command(joint, to, way) PROVE FALSE
      BY <3>2 DEF Command, hostVars
    <3>3. ASSUME TimeOut \/ Poll \/ Leave PROVE FALSE
      BY <2>2, <3>3 DEF TimeOut, Poll, Leave
    <3> QED BY <3>1, <3>2, <3>3 DEF Next, ReceiveSome
  <2>4. asked = [device |-> Wrist, field |-> "mode"]
    BY <2>1, <2>3 DEF Receive, MainInv, Asks
  <2>5. PICK i \in 1..Len(Inward) : /\ Inward[i] \notin {Zero, Junk} /\ Matches(Inward[i]) /\ Answered(Inward[i])
    BY <2>1, <2>3, ReceiveIs
  <2>6. Wakes(Inward[i])
    <3>1. Wakes(Inward[i]) \/ NotWoken
      BY <2>5 DEF Answered
    <3> QED BY <2>2, <3>1 DEF NotAnswered
  <2>7. Inward \in Seq(Bytes)
    BY <2>1, LinesAre
  <2>8. IsReply(Inward[i])
    BY <2>1, <2>5, <2>7 DEF LineInv, Replies
  <2>9. SaysAwake(Inward[i])
    BY <2>4, <2>5, <2>6, <2>8 DEF SaysAwake, Matches, Wakes
  <2> QED BY <2>1, <2>7, <2>9 DEF WakeInv, Truthful
<1>2. Spec => [][Wakening]_vars
  BY <1>1, LinkHolds, PTL DEF Spec
<1> QED BY <1>2 DEF Woken
================================================================================

------------------------ MODULE FrameSteppingProofs ------------------------
(***************************************************************************)
(* A step moves every track by one frame at most, and at rest the screen   *)
(* shows the history: for any number of tracks, any frame times, offsets,  *)
(* buffer depths and seeks.                                                *)
(***************************************************************************)
EXTENDS FrameStepping, FiniteSetTheorems, WellFoundedInduction, TLAPS

FramesOf(t) == 1 .. LastFrame(t)

Compositions ==
  {c \in [Tracks -> Nat \union {None}] :
     \A t \in Tracks : c[t] \in FramesOf(t) \union {None}}

Full(c) == \A t \in Tracks : c[t] \in FramesOf(t)

(* A track's buffer stays within its frames, with at most one frame behind *)
(* the cursor, and is empty while a seek is under way.                     *)
Sound(b, t) ==
  /\ b = [state |-> b.state, head |-> b.head, back |-> b.back, count |-> b.count,
          paused |-> b.paused, goal |-> b.goal]
  /\ b.state \in {"Flushing", "Buffering", "Ready"}
  /\ b.head \in Nat /\ b.count \in Nat /\ b.back \in {0, 1}
  /\ b.back < b.head /\ b.head + b.count <= LastFrame(t) + 1
  /\ b.state # "Ready" => b.count = 0 /\ b.back = 0

(* The buffer has, or its seek will bring, the frame or one next to it: no *)
(* frame between it and the buffer is missing.                             *)
Near(b, t, f) ==
  IF b.state = "Ready" THEN b.head - 1 <= f /\ f <= b.head + b.count
  ELSE Landing(t, b.goal) - 1 <= f /\ f <= Landing(t, b.goal) + 1
-----------------------------------------------------------------------------
LEMMA Lows ==
  ASSUME NEW S \in SUBSET Nat, S # {}
  PROVE  Lowest(S) \in S /\ \A y \in S : Lowest(S) <= y
<1>1. \E x \in S : \A y \in S : ~ (<<y, x>> \in OpToRel(<, Nat))
  BY NatLessThanWellFounded, WFMin, Zenon
<1>2. \A x, y \in S : <<y, x>> \in OpToRel(<, Nat) <=> y < x BY Zenon DEF OpToRel
<1>3. \E x \in S : \A y \in S : ~ (y < x) BY <1>1, <1>2, Zenon
<1>4. \E x \in S : \A y \in S : x <= y BY <1>3
<1> QED BY <1>4 DEF Lowest

LEMMA Highs ==
  ASSUME NEW S \in SUBSET Nat, S # {}, NEW b \in Nat, \A y \in S : y <= b
  PROVE  Highest(S) \in S /\ \A y \in S : Highest(S) >= y
<1> DEFINE T == {b - y : y \in S}
<1>1. T \in SUBSET Nat /\ T # {}
  <2>1. \A y \in S : y \in Nat /\ b - y \in Nat OBVIOUS
  <2> QED BY <2>1
<1>2. PICK x \in S : Lowest(T) = b - x BY <1>1, Lows
<1>3. \A y \in S : b - y \in T OBVIOUS
<1>4. \A y \in S : Lowest(T) <= b - y BY <1>1, <1>3, Lows
<1>5. \A y \in S : x >= y BY <1>2, <1>4
<1> QED BY <1>5 DEF Highest

LEMMA FiniteHighs ==
  ASSUME NEW S \in SUBSET Nat, S # {}, IsFiniteSet(S)
  PROVE  Highest(S) \in S /\ \A y \in S : Highest(S) >= y
<1> DEFINE n == Cardinality(S)
<1>1. n \in Nat /\ ExistsBijection(1 .. n, S) BY FS_CardinalityType
<1>2. PICK v \in [1 .. n -> S] : \A y \in S : \E i \in 1 .. n : v[i] = y
  BY <1>1 DEF ExistsBijection, Bijection, Surjection
<1> HIDE DEF n
<1>0. \A i \in 1 .. n : v[i] \in Nat BY <1>2
<1> DEFINE Bounds(k) == {b \in Nat : \A i \in 1 .. k : v[i] <= b}
           Bad == {k \in 0 .. n : Bounds(k) = {}}
<1>3. Bad = {}
  <2> SUFFICES ASSUME Bad # {} PROVE FALSE OBVIOUS
  <2>1. Bad \in SUBSET Nat BY <1>1
  <2> DEFINE k == Lowest(Bad)
  <2>2. k \in Bad /\ \A j \in Bad : k <= j BY <2>1, Lows
  <2>3. k \in 0 .. n /\ Bounds(k) = {} BY <2>2
  <2> HIDE DEF k, Bad
  <2>4. k # 0
    <3>1. 0 \in Bounds(0) OBVIOUS
    <3> QED BY <2>3, <3>1
  <2>5. k - 1 \in 0 .. n /\ k - 1 \notin Bad BY <1>1, <2>2, <2>3, <2>4
  <2>6. PICK b \in Nat : \A i \in 1 .. k - 1 : v[i] <= b BY <2>5 DEF Bad
  <2>7. k \in 1 .. n BY <1>1, <2>3, <2>4
  <2>8. PICK c \in Nat : b <= c /\ v[k] <= c
    <3>1. v[k] \in Nat BY <1>0, <2>7
    <3> QED BY <3>1
  <2>9. ASSUME NEW i \in 1 .. k PROVE v[i] <= c
    <3>1. v[i] \in Nat BY <1>0, <1>1, <2>3
    <3>2. i \in 1 .. k - 1 \/ i = k BY <2>3
    <3> QED BY <2>6, <2>8, <3>1, <3>2
  <2>10. c \in Bounds(k) BY <2>9
  <2> QED BY <2>3, <2>10
<1>4. Bounds(n) # {}
  <2>1. n \in 0 .. n BY <1>1
  <2> QED BY <1>3, <2>1
<1>5. PICK b \in Nat : \A i \in 1 .. n : v[i] <= b BY <1>4
<1>6. \A y \in S : y <= b BY <1>2, <1>5
<1> QED BY <1>6, Highs
-----------------------------------------------------------------------------
(* The frames of a track.                                                  *)

LEMMA Times ==
  ASSUME NEW t \in Tracks
  PROVE  /\ LastFrame(t) \in Nat /\ LastFrame(t) >= 1 /\ DOMAIN Pts[t] = FramesOf(t)
         /\ \A f \in FramesOf(t) : Pts[t][f] \in Nat
         /\ \A f, g \in FramesOf(t) : f < g <=> Pts[t][f] < Pts[t][g]
         /\ Offset[t] \in Nat
<1>1. /\ Pts[t] \in Seq(Nat) /\ Pts[t] # <<>> /\ Offset[t] \in Nat
      /\ \A f, g \in DOMAIN Pts[t] : f < g => Pts[t][f] < Pts[t][g]
  BY SteppingAssumption
<1>2. LastFrame(t) \in Nat /\ DOMAIN Pts[t] = FramesOf(t) /\ LastFrame(t) # 0
  BY <1>1 DEF LastFrame, FramesOf
<1>3. \A f \in FramesOf(t) : Pts[t][f] \in Nat BY <1>1, <1>2
<1>4. ASSUME NEW f \in FramesOf(t), NEW g \in FramesOf(t)
      PROVE  f < g <=> Pts[t][f] < Pts[t][g]
  <2>1. f < g => Pts[t][f] < Pts[t][g] BY <1>1, <1>2
  <2>2. g < f => Pts[t][g] < Pts[t][f] BY <1>1, <1>2
  <2>3. Pts[t][f] \in Nat /\ Pts[t][g] \in Nat /\ f \in Nat /\ g \in Nat
    BY <1>2, <1>3 DEF FramesOf
  <2>4. f = g => Pts[t][f] = Pts[t][g] OBVIOUS
  <2> QED BY <2>1, <2>2, <2>3, <2>4
<1> QED BY <1>1, <1>2, <1>3, <1>4

LEMMA Apart == None \notin Nat /\ \A t \in Tracks : None \notin FramesOf(t)
<1>1. None \notin Nat BY SteppingAssumption
<1> QED BY <1>1 DEF FramesOf

LEMMA Lands ==
  ASSUME NEW t \in Tracks, NEW goal
  PROVE  Landing(t, goal) \in FramesOf(t)
<1> DEFINE N == LastFrame(t)
           before == {f \in FramesOf(t) :
                        Pts[t][f] <= Greater(0, goal.target - Offset[t])}
           after  == {f \in FramesOf(t) :
                        Pts[t][f] >= Greater(0, goal.target - Offset[t])}
<1>1. N \in Nat /\ N >= 1 /\ DOMAIN Pts[t] = FramesOf(t) /\ FramesOf(t) = 1 .. N
  BY Times DEF FramesOf
<1>2. /\ before \subseteq Nat /\ after \subseteq Nat
      /\ before \subseteq FramesOf(t) /\ after \subseteq FramesOf(t)
      /\ \A f \in before : f <= N
  BY <1>1
<1>3. after # {} => Lowest(after) \in FramesOf(t)
  <2> HIDE DEF after
  <2> QED BY <1>2, Lows
<1>4. before # {} => Highest(before) \in FramesOf(t)
  <2> HIDE DEF before
  <2> QED BY <1>1, <1>2, Highs
<1>5. Landing(t, goal) =
        IF goal.after /\ after # {} THEN Lowest(after)
        ELSE IF before # {} THEN Highest(before) ELSE 1
  BY <1>1 DEF Landing
<1>6. 1 \in FramesOf(t) BY <1>1
<1> HIDE DEF before, after
<1> QED BY <1>3, <1>4, <1>5, <1>6

(* A seek to just before a frame lands on the frame before it.             *)
LEMMA LandsBefore ==
  ASSUME NEW t \in Tracks, NEW f \in FramesOf(t), NEW goal,
         goal = [target |-> Greater(0, Global(t, f) - 1), after |-> FALSE]
  PROVE  LET at == Landing(t, goal) IN at - 1 <= f /\ f <= at + 1
<1> DEFINE local == Greater(0, goal.target - Offset[t])
           before == {g \in FramesOf(t) : Pts[t][g] <= local}
           N == LastFrame(t)
           P == Pts[t][f]
<1>1. N \in Nat /\ N >= 1 /\ DOMAIN Pts[t] = FramesOf(t) /\ FramesOf(t) = 1 .. N
  BY Times DEF FramesOf
<1>2. P \in Nat /\ Offset[t] \in Nat /\ \A g \in FramesOf(t) : Pts[t][g] \in Nat BY Times
<1>3. Global(t, f) = P + Offset[t] BY DEF Global
<1>4. local = IF P > 0 THEN P - 1 ELSE 0
  <2> HIDE DEF P
  <2> QED BY <1>2, <1>3 DEF Greater
<1>5. Landing(t, goal) = IF before # {} THEN Highest(before) ELSE 1
  BY <1>1 DEF Landing
<1>6. before \subseteq Nat /\ before \subseteq FramesOf(t) /\ \A g \in before : g <= N
  BY <1>1
<1>7. before # {} => Highest(before) \in before /\ \A g \in before : Highest(before) >= g
  <2> HIDE DEF before
  <2> QED BY <1>1, <1>6, Highs
<1>8. \A g \in before : g <= f
  <2> SUFFICES ASSUME NEW g \in FramesOf(t), Pts[t][g] <= local PROVE g <= f OBVIOUS
  <2>1. Pts[t][g] <= P BY <1>2, <1>4
  <2>2. ~ (f < g)
    <3>1. f < g => P < Pts[t][g] BY Times
    <3> QED BY <1>2, <2>1, <3>1
  <2> QED BY <1>1, <2>2
<1>9. f > 1 => f - 1 \in before
  <2> SUFFICES ASSUME f > 1 PROVE Pts[t][f - 1] <= local /\ f - 1 \in FramesOf(t) OBVIOUS
  <2>1. f - 1 \in FramesOf(t) /\ f - 1 < f BY <1>1
  <2>2. Pts[t][f - 1] < P BY <2>1, Times
  <2>3. Pts[t][f - 1] \in Nat BY <1>2, <2>1
  <2> QED BY <1>2, <1>4, <2>1, <2>2, <2>3
<1>10. f \in Nat /\ f >= 1 /\ f <= N BY <1>1
<1> HIDE DEF before
<1> QED
  <2>1. CASE before # {}
    <3>1. Highest(before) \in Nat BY <1>6, <1>7, <2>1
    <3>2. Highest(before) <= f BY <1>7, <1>8, <2>1
    <3>3. f > 1 => Highest(before) >= f - 1 BY <1>7, <1>9, <2>1
    <3>4. Highest(before) >= 1
      <4>1. Highest(before) \in FramesOf(t) BY <1>6, <1>7, <2>1
      <4> QED BY <4>1 DEF FramesOf
    <3> QED BY <1>5, <1>10, <2>1, <3>1, <3>2, <3>3, <3>4
  <2>2. CASE before = {}
    <3>1. f = 1 BY <1>9, <1>10, <2>2
    <3> QED BY <1>5, <2>2, <3>1
  <2> QED BY <2>1, <2>2
-----------------------------------------------------------------------------
(* The buffer of a track.                                                  *)

LEMMA Advances ==
  ASSUME NEW t \in Tracks, NEW b, Sound(b, t), NEW time
  PROVE  LET a == AdvancedTo(b, t, time)
         IN  /\ Sound(a, t) /\ a.state = b.state /\ a.goal = b.goal
             /\ a.head + a.count = b.head + b.count
             /\ b.state # "Ready" => a = b
<1> DEFINE passed == {f \in b.head .. b.head + b.count - 1 : Pts[t][f] < time}
           n == Cardinality(passed)
           a == AdvancedTo(b, t, time)
<1>1. b.head \in Nat /\ b.count \in Nat /\ b.back < b.head /\ b.back \in {0, 1}
      /\ b.head + b.count <= LastFrame(t) + 1 /\ LastFrame(t) \in Nat
  BY Times DEF Sound
<1>2. IsFiniteSet(b.head .. b.head + b.count - 1)
      /\ Cardinality(b.head .. b.head + b.count - 1) = b.count
  <2>1. b.head \in Int /\ b.head + b.count - 1 \in Int BY <1>1
  <2> DEFINE top == b.head + b.count - 1
  <2>2. /\ IsFiniteSet(b.head .. top)
        /\ Cardinality(b.head .. top) = IF b.head > top THEN 0 ELSE top - b.head + 1
    BY <2>1, FS_Interval
  <2> QED BY <1>1, <2>2
<1>3. n \in Nat /\ n <= b.count
  <2>1. passed \in SUBSET (b.head .. b.head + b.count - 1) OBVIOUS
  <2> HIDE DEF passed
  <2> QED BY <1>2, <2>1, FS_Subset, FS_CardinalityType
<1>4. a = IF n = 0 THEN b ELSE [b EXCEPT !.head = @ + n, !.count = @ - n, !.back = 1]
  BY DEF AdvancedTo
<1> HIDE DEF n, a
<1>5. CASE n = 0 BY <1>4, <1>5 DEF a
<1>6. CASE n # 0
  <2>1. a = [state |-> b.state, head |-> b.head + n, back |-> 1, count |-> b.count - n,
             paused |-> b.paused, goal |-> b.goal]
    BY <1>4, <1>6 DEF Sound
  <2>2. b.state = "Ready" BY <1>1, <1>3, <1>6 DEF Sound
  <2>3. b.head + n \in Nat /\ b.count - n \in Nat /\ 1 < b.head + n
        /\ (b.head + n) + (b.count - n) = b.head + b.count
    BY <1>1, <1>3, <1>6
  <2>4. Sound(a, t) BY <1>1, <2>1, <2>2, <2>3 DEF Sound
  <2> QED BY <2>1, <2>2, <2>3, <2>4 DEF a
<1> QED BY <1>5, <1>6

LEMMA Within ==
  ASSUME NEW t \in Tracks, NEW b, Sound(b, t),
         NEW f \in b.head .. b.head + b.count - 1
  PROVE  f \in FramesOf(t) /\ b.state = "Ready"
<1>1. b.head \in Nat /\ b.count \in Nat /\ b.head > 0
      /\ b.head + b.count <= LastFrame(t) + 1 /\ LastFrame(t) \in Nat
  BY Times DEF Sound
<1>2. f \in Nat /\ f >= 1 /\ f <= LastFrame(t) /\ b.count # 0 BY <1>1
<1> QED BY <1>2, Times DEF Sound, FramesOf

(* advance stops at the frame, or behind the last one buffered.            *)
LEMMA AdvancesTo ==
  ASSUME NEW t \in Tracks, NEW b, Sound(b, t), NEW f \in FramesOf(t),
         f <= b.head + b.count
  PROVE  AdvancedTo(b, t, Pts[t][f]).head = IF b.head < f THEN f ELSE b.head
<1> DEFINE passed == {g \in b.head .. b.head + b.count - 1 : Pts[t][g] < Pts[t][f]}
           n == Cardinality(passed)
           a == AdvancedTo(b, t, Pts[t][f])
<1>1. b.head \in Nat /\ b.count \in Nat /\ f \in Nat BY Times DEF Sound, FramesOf
<1>2. passed = b.head .. f - 1
  <2>1. ASSUME NEW g \in b.head .. b.head + b.count - 1
        PROVE  Pts[t][g] < Pts[t][f] <=> g < f
    BY Within, Times
  <2>2. ASSUME NEW g
        PROVE  g \in b.head .. f - 1 <=> g \in b.head .. b.head + b.count - 1 /\ g < f
    BY <1>1
  <2> QED BY <2>1, <2>2
<1>3. n = IF b.head < f THEN f - b.head ELSE 0
  <2>1. b.head \in Int /\ f - 1 \in Int BY <1>1
  <2>2. Cardinality(b.head .. f - 1)
          = IF b.head > f - 1 THEN 0 ELSE f - 1 - b.head + 1
    BY <2>1, FS_Interval
  <2>3. n = Cardinality(b.head .. f - 1) BY <1>2
  <2> HIDE DEF n
  <2> QED BY <1>1, <2>2, <2>3
<1>4. a = IF n = 0 THEN b ELSE [b EXCEPT !.head = @ + n, !.count = @ - n, !.back = 1]
  BY DEF AdvancedTo
<1> HIDE DEF n, a
<1>5. CASE n = 0 BY <1>1, <1>3, <1>4, <1>5 DEF a
<1>6. CASE n # 0
  <2>1. a.head = b.head + n BY <1>4, <1>6 DEF Sound
  <2> QED BY <1>1, <1>3, <1>6, <2>1 DEF a
<1> QED BY <1>5, <1>6

(* Presented by the render loop, the head of the buffer is passed.         *)
LEMMA AdvancesPast ==
  ASSUME NEW t \in Tracks, NEW b, Sound(b, t), b.count > 0
  PROVE  AdvancedTo(b, t, Pts[t][b.head] + 1).head = b.head + 1
<1> DEFINE time == Pts[t][b.head] + 1
           passed == {g \in b.head .. b.head + b.count - 1 : Pts[t][g] < time}
           n == Cardinality(passed)
           a == AdvancedTo(b, t, time)
<1>1. b.head \in Nat /\ b.count \in Nat /\ b.head \in b.head .. b.head + b.count - 1
  BY DEF Sound
<1>2. passed = {b.head}
  <2>1. ASSUME NEW g \in b.head .. b.head + b.count - 1
        PROVE  Pts[t][g] < time <=> g = b.head
    <3>1. g \in FramesOf(t) /\ b.head \in FramesOf(t) BY <1>1, Within
    <3>2. Pts[t][g] \in Nat /\ Pts[t][b.head] \in Nat BY <3>1, Times
    <3>3. b.head < g <=> Pts[t][b.head] < Pts[t][g] BY <3>1, Times
    <3>4. g \in Nat /\ b.head <= g BY <1>1
    <3> QED BY <1>1, <3>2, <3>3, <3>4
  <2> QED BY <1>1, <2>1
<1>3. n = 1 BY <1>2, FS_Singleton
<1>4. a = [b EXCEPT !.head = @ + n, !.count = @ - n, !.back = 1]
  <2>1. n # 0 BY <1>3
  <2> QED BY <2>1 DEF AdvancedTo
<1> HIDE DEF n, a
<1>5. a.head = b.head + n BY <1>4 DEF Sound
<1> QED BY <1>3, <1>5 DEF a

LEMMA NearAdvanced ==
  ASSUME NEW t \in Tracks, NEW b, Sound(b, t),
         NEW f \in FramesOf(t), NEW g \in FramesOf(t), g \in {f, f + 1},
         Near(b, t, f), Near(b, t, g)
  PROVE  LET a == AdvancedTo(b, t, Pts[t][g])
         IN  Sound(a, t) /\ Near(a, t, f) /\ Near(a, t, g)
<1> DEFINE a == AdvancedTo(b, t, Pts[t][g])
<1>1. /\ Sound(a, t) /\ a.state = b.state /\ a.goal = b.goal
      /\ a.head + a.count = b.head + b.count
      /\ b.state # "Ready" => a = b
  BY Advances
<1>2. CASE b.state # "Ready" BY <1>1, <1>2
<1>3. CASE b.state = "Ready"
  <2>1. /\ b.head - 1 <= f /\ f <= b.head + b.count
        /\ b.head - 1 <= g /\ g <= b.head + b.count
    BY <1>3 DEF Near
  <2>2. a.head = IF b.head < g THEN g ELSE b.head BY <2>1, AdvancesTo
  <2>3. f \in Nat /\ g \in Nat /\ b.head \in Nat /\ b.count \in Nat
    BY Times DEF FramesOf, Sound
  <2> HIDE DEF a
  <2>4. a.head - 1 <= f /\ a.head - 1 <= g BY <2>1, <2>2, <2>3
  <2>5. Near(a, t, f) /\ Near(a, t, g) BY <1>1, <1>3, <2>1, <2>4 DEF Near
  <2> QED BY <1>1, <2>5 DEF a
<1> QED BY <1>2, <1>3

LEMMA NearRetreated ==
  ASSUME NEW t \in Tracks, NEW b, Sound(b, t), NEW f
  PROVE  /\ Sound(RetreatedTo(b, f), t)
         /\ \A g \in FramesOf(t) : Near(b, t, g) => Near(RetreatedTo(b, f), t, g)
<1> DEFINE a == RetreatedTo(b, f)
<1>1. CASE ~ (b.count > 0 /\ b.head > f /\ b.back = 1) BY <1>1 DEF RetreatedTo
<1>2. CASE b.count > 0 /\ b.head > f /\ b.back = 1
  <2>1. b.head \in Nat /\ b.count \in Nat /\ 1 < b.head /\ b.state = "Ready"
        /\ b.head + b.count <= LastFrame(t) + 1
    BY <1>2 DEF Sound
  <2>2. a = [b EXCEPT !.head = @ - 1, !.count = @ + 1, !.back = 0]
    BY <1>2 DEF RetreatedTo
  <2>3. a = [state |-> b.state, head |-> b.head - 1, back |-> 0, count |-> b.count + 1,
             paused |-> b.paused, goal |-> b.goal]
    BY <2>2 DEF Sound
  <2> HIDE DEF a
  <2>4. b.head - 1 \in Nat /\ 0 < b.head - 1 /\ b.count + 1 \in Nat
        /\ (b.head - 1) + (b.count + 1) = b.head + b.count
    BY <2>1
  <2>5. Sound(a, t) BY <2>1, <2>3, <2>4 DEF Sound
  <2>6. ASSUME NEW g \in FramesOf(t), Near(b, t, g) PROVE Near(a, t, g)
    <3>1. b.head - 1 <= g /\ g <= b.head + b.count BY <2>1, <2>6 DEF Near
    <3>2. g \in Nat BY Times DEF FramesOf
    <3>3. b.head - 1 - 1 <= g BY <2>1, <3>1, <3>2
    <3> QED BY <2>1, <2>3, <2>4, <3>1, <3>3 DEF Near
  <2> QED BY <2>5, <2>6 DEF a
<1> QED BY <1>1, <1>2
-----------------------------------------------------------------------------
(* The choice of a step.                                                   *)

(* A step of the kind leads from one composition to the other: every track *)
(* by one frame or not at all, and not none.                               *)
StepsFrom(kind, from, to) ==
  /\ to # from
  /\ kind = "forward" => \A t \in Tracks : to[t] \in {from[t], from[t] + 1}
  /\ kind = "backward" => \A t \in Tracks : to[t] \in {from[t], from[t] - 1}

AllSound(tracks) == tracks = [t \in Tracks |-> tracks[t]] /\ \A t \in Tracks : Sound(tracks[t], t)

AllNear(tracks, c) == \A t \in Tracks : c[t] # None => Near(tracks[t], t, c[t])

LEMMA NextFollows ==
  ASSUME NEW t \in Tracks, Sound(track[t], t), history[t] \in FramesOf(t),
         Near(track[t], t, history[t])
  PROVE  /\ Shown(t) = history[t] /\ ShownPts(t) = Pts[t][history[t]]
         /\ NextOf(t) # None =>
              /\ NextOf(t) = history[t] + 1 /\ NextOf(t) \in FramesOf(t)
              /\ Near(track[t], t, NextOf(t))
<1> DEFINE h == history[t]
           b == track[t]
<1>1. h # None /\ h \in Nat BY Apart, Times DEF FramesOf
<1>2. Shown(t) = h /\ ShownPts(t) = Pts[t][h] BY <1>1 DEF Shown, ShownPts
<1>3. ASSUME NEW f \in Buffered(t)
      PROVE  /\ f \in FramesOf(t) /\ b.state = "Ready" /\ f \in Nat
             /\ Pts[t][f] > Pts[t][h] <=> h < f
  <2>1. f \in FramesOf(t) /\ b.state = "Ready" BY Within DEF Buffered
  <2>2. h < f <=> Pts[t][h] < Pts[t][f] BY <2>1, Times
  <2>3. Pts[t][h] \in Nat /\ Pts[t][f] \in Nat BY <2>1, Times
  <2>4. f \in Nat BY <2>1, Times DEF FramesOf
  <2> QED BY <2>1, <2>2, <2>3, <2>4
<1>4. Following(t) = {f \in Buffered(t) : h < f} BY <1>2, <1>3 DEF Following
<1>5. ASSUME NextOf(t) # None
      PROVE  NextOf(t) = h + 1 /\ NextOf(t) \in Buffered(t)
  <2>1. Following(t) # {} /\ NextOf(t) = Lowest(Following(t)) BY <1>5 DEF NextOf
  <2>2. Following(t) \subseteq Nat BY <1>3, <1>4
  <2>3. /\ NextOf(t) \in Following(t)
        /\ \A f \in Following(t) : NextOf(t) <= f
    BY <2>1, <2>2, Lows
  <2>4. NextOf(t) \in Buffered(t) /\ h < NextOf(t) /\ NextOf(t) \in Nat
    BY <1>4, <2>2, <2>3
  <2>5. b.state = "Ready" BY <1>3, <2>4
  <2>6. b.head \in Nat /\ b.count \in Nat /\ b.head - 1 <= h BY <2>5 DEF Near, Sound
  <2>7. b.head <= NextOf(t) /\ NextOf(t) <= b.head + b.count - 1
    BY <2>4, <2>6 DEF Buffered
  <2>8. h + 1 \in Buffered(t) BY <1>1, <2>4, <2>6, <2>7 DEF Buffered
  <2>9. h + 1 \in Following(t) BY <1>1, <1>4, <2>8
  <2> QED BY <1>1, <2>3, <2>4, <2>9
<1>6. ASSUME NextOf(t) # None PROVE Near(b, t, NextOf(t))
  <2>1. NextOf(t) \in Buffered(t) /\ b.state = "Ready" BY <1>3, <1>5, <1>6
  <2>2. b.head \in Nat /\ b.count \in Nat BY DEF Sound
  <2> QED BY <2>1, <2>2 DEF Buffered, Near
<1> QED BY <1>2, <1>3, <1>5, <1>6

LEMMA FiniteTracks == IsFiniteSet(Tracks) /\ Cardinality(Tracks) \in Nat
<1>1. IsFiniteSet(Tracks) BY SteppingAssumption
<1> QED BY <1>1, FS_CardinalityType

LEMMA SomeTracks ==
  ASSUME NEW S \in SUBSET Tracks
  PROVE  Cardinality(S) \in Nat /\ Cardinality(S) <= Cardinality(Tracks)
<1>1. IsFiniteSet(S) /\ Cardinality(S) <= Cardinality(Tracks) BY FiniteTracks, FS_Subset
<1> QED BY <1>1, FS_CardinalityType

LEMMA ForwardFound ==
  ASSUME history \in Compositions, Full(history), AllSound(track), AllNear(track, history),
         ForwardChoice.found
  PROVE  LET frames == ForwardChoice.frames
         IN  /\ frames \in Compositions /\ Full(frames)
             /\ StepsFrom("forward", history, frames) /\ AllNear(track, frames)
<1> DEFINE candidates == {Global(t, NextOf(t)) : t \in {u \in Tracks : NextOf(u) # None}}
           valid      == {c \in candidates : \A t \in Tracks : Allowed(t, c)}
           sizes      == {Cardinality(StepsAt(c)) : c \in valid}
           most       == Highest(sizes)
           best       == {c \in valid : Cardinality(StepsAt(c)) = most}
           target     == Lowest(best)
           frames     == [t \in Tracks |-> IF Reached(t, target) THEN NextOf(t) ELSE Shown(t)]
<1>1. valid # {} /\ ForwardChoice.frames = frames BY DEF ForwardChoice
<1>2. \A t \in Tracks :
        /\ history[t] \in FramesOf(t) /\ Shown(t) = history[t]
        /\ NextOf(t) # None => NextOf(t) = history[t] + 1 /\ NextOf(t) \in FramesOf(t)
                               /\ Near(track[t], t, NextOf(t))
  BY NextFollows, Apart DEF Full, AllSound, AllNear
<1>3. candidates \subseteq Nat
  <2> SUFFICES ASSUME NEW t \in Tracks, NextOf(t) # None PROVE Global(t, NextOf(t)) \in Nat
    OBVIOUS
  <2>1. Pts[t][NextOf(t)] \in Nat /\ Offset[t] \in Nat BY <1>2, Times
  <2> QED BY <2>1 DEF Global
<1>4. best # {} /\ best \subseteq candidates
  <2>1. sizes \subseteq Nat /\ \A n \in sizes : n <= Cardinality(Tracks)
    <3> HIDE DEF valid
    <3> SUFFICES ASSUME NEW c \in valid
                 PROVE  /\ Cardinality(StepsAt(c)) \in Nat
                        /\ Cardinality(StepsAt(c)) <= Cardinality(Tracks)
      BY Zenon
    <3>1. StepsAt(c) \in SUBSET Tracks BY DEF StepsAt
    <3> QED BY <3>1, SomeTracks
  <2>2. sizes # {}
    <3> HIDE DEF valid
    <3>1. PICK c \in valid : TRUE BY <1>1
    <3> QED BY <3>1, Zenon
  <2>3. Cardinality(Tracks) \in Nat BY FiniteTracks
  <2>4. most \in sizes
    <3> HIDE DEF sizes
    <3> QED BY <2>1, <2>2, <2>3, Highs
  <2> HIDE DEF most
  <2> QED BY <2>4
<1>5. target \in candidates
  <2> HIDE DEF best, candidates
  <2> QED BY <1>3, <1>4, Lows
<1>6. PICK u \in Tracks : NextOf(u) # None /\ target = Global(u, NextOf(u)) BY <1>5
<1>7. target \in Nat BY <1>3, <1>5
<1> HIDE DEF target, candidates, valid
<1>8. \A t \in Tracks : frames[t] = IF Reached(t, target) THEN NextOf(t) ELSE Shown(t)
  OBVIOUS
<1>9. Reached(u, target) BY <1>6, <1>7 DEF Reached
<1>10. \A t \in Tracks : Reached(t, target) => NextOf(t) # None BY DEF Reached
<1>11. \A t \in Tracks : /\ frames[t] \in FramesOf(t)
                         /\ frames[t] \in {history[t], history[t] + 1}
                         /\ Near(track[t], t, frames[t])
  BY <1>2, <1>8, <1>10, Apart DEF AllNear
<1>12. frames # history
  <2>1. frames[u] = history[u] + 1 BY <1>2, <1>6, <1>8, <1>9
  <2>2. history[u] \in Nat BY <1>2, Times DEF FramesOf
  <2> QED BY <2>1, <2>2
<1>13. frames \in Compositions
  <2>1. \A t \in Tracks : FramesOf(t) \subseteq Nat BY Times DEF FramesOf
  <2> QED BY <1>11, <2>1 DEF Compositions
<1> HIDE DEF frames
<1>14. StepsFrom("forward", history, frames) BY <1>11, <1>12 DEF StepsFrom
<1> QED BY <1>1, <1>11, <1>13, <1>14 DEF Full, AllNear
LEMMA BeforeIs ==
  ASSUME NEW t \in Tracks, Sound(track[t], t), NEW f \in FramesOf(t),
         Near(track[t], t, f), Before(t, f) # None
  PROVE  /\ Before(t, f) = f - 1 /\ f - 1 \in FramesOf(t)
         /\ track[t].state = "Ready" /\ Near(track[t], t, f - 1)
<1> DEFINE b == track[t]
           earlier == {g \in Reachable(t) : g < f}
<1>1. /\ b.head \in Nat /\ b.count \in Nat /\ b.back \in {0, 1} /\ b.back < b.head
      /\ b.head + b.count <= LastFrame(t) + 1 /\ LastFrame(t) \in Nat /\ f \in Nat
  BY Times DEF Sound, FramesOf
<1>2. earlier # {} /\ Before(t, f) = Highest(earlier) BY DEF Before
<1>3. b.count # 0 /\ Reachable(t) = b.head - b.back .. b.head + b.count - 1
  BY <1>2 DEF Reachable
<1>4. b.state = "Ready" BY <1>3 DEF Sound
<1>5. b.head - 1 <= f /\ f <= b.head + b.count BY <1>4 DEF Near
<1>6. \A g \in earlier : g \in Nat /\ g <= f /\ g < f /\ g >= 1 /\ b.head - b.back <= g
  BY <1>1, <1>3
<1>7. Highest(earlier) \in earlier /\ \A g \in earlier : Highest(earlier) >= g
  <2>1. earlier \subseteq Nat /\ \A g \in earlier : g <= f BY <1>6
  <2> HIDE DEF earlier
  <2> QED BY <1>1, <1>2, <2>1, Highs
<1>8. PICK g \in earlier : TRUE BY <1>2
<1>9. b.head - b.back <= f - 1 /\ f - 1 \in Nat /\ f - 1 >= 1 BY <1>1, <1>6, <1>8
<1>10. f - 1 \in earlier
  <2>1. f - 1 <= b.head + b.count - 1 BY <1>1, <1>5
  <2>2. f - 1 \in b.head - b.back .. b.head + b.count - 1 BY <1>1, <1>9, <2>1
  <2> QED BY <1>1, <1>3, <2>2
<1> DEFINE x == Highest(earlier)
<1>11. x \in Nat /\ x < f /\ x >= f - 1 BY <1>6, <1>7, <1>10
<1> HIDE DEF earlier
<1>12. x = f - 1 BY <1>1, <1>11
<1>13. f - 1 \in FramesOf(t) BY <1>1, <1>9, Times DEF FramesOf
<1>14. b.head - 1 <= f - 1 BY <1>1, <1>9
<1> QED BY <1>1, <1>2, <1>4, <1>5, <1>9, <1>12, <1>13, <1>14 DEF Near

LEMMA BackwardFound ==
  ASSUME NEW now \in Compositions, Full(now), AllSound(track), AllNear(track, now),
         BackwardChoice(now).found
  PROVE  LET frames == BackwardChoice(now).frames
         IN  /\ frames \in Compositions /\ Full(frames)
             /\ StepsFrom("backward", now, frames) /\ AllNear(track, frames)
<1> DEFINE shown == [t \in Tracks |-> IF now[t] # None THEN now[t] ELSE First(t)]
           candidates == {Global(t, Before(t, shown[t])) :
                            t \in {u \in Tracks : Before(u, shown[u]) # None}}
           valid    == {c \in candidates : \A t \in Tracks : NotFurtherThan(t, shown[t], c)}
           moved(c) == Cardinality({t \in Tracks : c < Global(t, shown[t])})
           sizes    == {moved(c) : c \in valid}
           most     == Highest(sizes)
           best     == {c \in valid : moved(c) = most}
           target   == Highest(best)
           frames   == [t \in Tracks |-> IF target < Global(t, shown[t])
                                         THEN Before(t, shown[t]) ELSE shown[t]]
<1>1. valid # {} /\ BackwardChoice(now).frames = frames BY DEF BackwardChoice
<1>2. \A t \in Tracks : now[t] \in FramesOf(t) /\ now[t] # None /\ shown[t] = now[t]
  BY Apart DEF Full
<1> HIDE DEF shown
<1>3. \A t \in Tracks : Before(t, shown[t]) # None =>
        /\ Before(t, shown[t]) = now[t] - 1 /\ Before(t, shown[t]) \in FramesOf(t)
        /\ Near(track[t], t, Before(t, shown[t]))
  BY <1>2, BeforeIs DEF AllSound, AllNear
<1>4. candidates \subseteq Nat
  <2> SUFFICES ASSUME NEW t \in Tracks, Before(t, shown[t]) # None
               PROVE  Global(t, Before(t, shown[t])) \in Nat
    OBVIOUS
  <2>1. Pts[t][Before(t, shown[t])] \in Nat /\ Offset[t] \in Nat BY <1>3, Times
  <2> QED BY <2>1 DEF Global
<1>5. IsFiniteSet(candidates)
  <2> DEFINE U == {u \in Tracks : Before(u, shown[u]) # None}
             F == [t \in U |-> Global(t, Before(t, shown[t]))]
  <2>1. IsFiniteSet(U)
    <3>1. U \in SUBSET Tracks OBVIOUS
    <3> HIDE DEF U
    <3> QED BY <3>1, FiniteTracks, FS_Subset
  <2>2. F \in Surjection(U, candidates) BY DEF Surjection
  <2> HIDE DEF F, U, candidates
  <2> QED BY <2>1, <2>2, FS_Surjection
<1>6. best # {} /\ best \subseteq candidates /\ best \subseteq valid
  <2>1. sizes \subseteq Nat /\ \A n \in sizes : n <= Cardinality(Tracks)
    <3> HIDE DEF valid
    <3> SUFFICES ASSUME NEW c \in valid
                 PROVE  moved(c) \in Nat /\ moved(c) <= Cardinality(Tracks)
      BY Zenon
    <3>1. {t \in Tracks : c < Global(t, shown[t])} \in SUBSET Tracks OBVIOUS
    <3> QED BY <3>1, SomeTracks
  <2>2. sizes # {}
    <3> HIDE DEF valid
    <3>1. PICK c \in valid : TRUE BY <1>1
    <3> QED BY <3>1, Zenon
  <2>3. Cardinality(Tracks) \in Nat BY FiniteTracks
  <2>4. most \in sizes
    <3> HIDE DEF sizes
    <3> QED BY <2>1, <2>2, <2>3, Highs
  <2> HIDE DEF most
  <2> QED BY <2>4
<1>7. target \in best
  <2>1. IsFiniteSet(best) /\ best \in SUBSET Nat
    <3> HIDE DEF best, candidates
    <3> QED BY <1>4, <1>5, <1>6, FS_Subset
  <2> HIDE DEF best
  <2> QED BY <1>6, <2>1, FiniteHighs
<1>8. target \in candidates /\ \A t \in Tracks : NotFurtherThan(t, shown[t], target)
  BY <1>6, <1>7
<1>9. PICK u \in Tracks : /\ Before(u, shown[u]) # None
                          /\ target = Global(u, Before(u, shown[u]))
  BY <1>8
<1> HIDE DEF target, candidates, valid, best
<1>10. \A t \in Tracks : frames[t] = IF target < Global(t, shown[t])
                                     THEN Before(t, shown[t]) ELSE shown[t]
  OBVIOUS
<1>11. target < Global(u, shown[u])
  <2>1. Before(u, shown[u]) = now[u] - 1 /\ Before(u, shown[u]) \in FramesOf(u)
    BY <1>3, <1>9
  <2>2. now[u] \in FramesOf(u) /\ now[u] - 1 \in FramesOf(u) /\ now[u] - 1 < now[u]
    BY <1>2, <2>1, Times DEF FramesOf
  <2>3. Pts[u][now[u] - 1] < Pts[u][now[u]] BY <2>2, Times
  <2>4. Pts[u][now[u] - 1] \in Nat /\ Pts[u][now[u]] \in Nat /\ Offset[u] \in Nat
    BY <2>2, Times
  <2> QED BY <1>2, <1>9, <2>1, <2>3, <2>4 DEF Global
<1>12. \A t \in Tracks : target < Global(t, shown[t]) => Before(t, shown[t]) # None
  BY <1>8 DEF NotFurtherThan
<1>13. \A t \in Tracks : /\ frames[t] \in FramesOf(t)
                         /\ frames[t] \in {now[t], now[t] - 1}
                         /\ Near(track[t], t, frames[t])
  BY <1>2, <1>3, <1>10, <1>12 DEF AllNear
<1>14. frames # now
  <2>1. frames[u] = now[u] - 1 BY <1>3, <1>9, <1>10, <1>11
  <2>2. now[u] \in Nat BY <1>2, Times DEF FramesOf
  <2> QED BY <2>1, <2>2
<1>15. frames \in Compositions
  <2>1. \A t \in Tracks : FramesOf(t) \subseteq Nat BY Times DEF FramesOf
  <2> QED BY <1>13, <2>1 DEF Compositions
<1> HIDE DEF frames
<1>16. StepsFrom("backward", now, frames) BY <1>13, <1>14 DEF StepsFrom
<1> QED BY <1>1, <1>13, <1>15, <1>16 DEF Full, AllNear
-----------------------------------------------------------------------------
(* The invariant.                                                          *)

Typed ==
  /\ preview \in [drawn : BOOLEAN, pending : BOOLEAN]
  /\ playing \in BOOLEAN /\ late \in BOOLEAN

Shaped ==
  /\ AllSound(track) /\ history \in Compositions
  /\ step = [at |-> step.at, kind |-> step.kind, from |-> step.from,
             decision |-> step.decision, kept |-> step.kept, clock |-> step.clock,
             target |-> step.target, decode |-> step.decode]
  /\ step.at \in {"none", "waiting", "present", "commit", "fallback", "seek"}
  /\ step.at \in {"waiting", "present", "commit"} => step.kind \in {"forward", "backward"}
  /\ {step.from, step.decision, step.kept} \subseteq Compositions
  /\ rl.at # "idle" => rl \in [at : {"presenting", "commit"}, decision : Compositions,
                                kind : {"cached", "preview", "play"}]

(* No step while the timeline plays, nor beside what it presents.          *)
Standing ==
  /\ step.at # "none" => ~playing
  /\ rl.at # "idle" /\ rl.kind = "play" => step.at = "none"

(* Who has presented last will put the same into the history.              *)
ScreenFollows ==
  /\ step.at = "commit" => rl.at = "idle" /\ screen = step.decision /\ preview.drawn
  /\ rl.at = "commit" => screen = rl.decision
  /\ AtRest /\ step.kind # "failed" => screen = history

(* What is in the history, or on its way there, is near every buffer.      *)
HistoryNear ==
  /\ AllNear(track, history)
  /\ rl.at # "idle" => AllNear(track, rl.decision)

UnderWay == step.at \in {"waiting", "present", "commit"}

Chosen(frames) ==
  Full(frames) /\ StepsFrom(step.kind, step.from, frames) /\ AllNear(track, frames)

(* A step forward waits with the history it began with; a step backward    *)
(* keeps it; what they found is one step from there.                       *)
StepsNear ==
  /\ UnderWay => Full(step.from)
  /\ Waiting("forward") =>
       /\ history = step.from
       /\ rl.at # "idle" => rl.decision = step.from
       /\ step.kept # Nothing => Chosen(step.kept)
  /\ Waiting("backward") => step.kept = step.from /\ AllNear(track, step.kept)
  /\ step.at \in {"present", "commit"} => Chosen(step.decision)

Followed == Shaped /\ Standing /\ ScreenFollows /\ HistoryNear /\ StepsNear

IInv == Typed /\ (~late => Followed)
-----------------------------------------------------------------------------
(* What keeps the frames of a composition near.                            *)

Carries(old, new) ==
  \A t \in Tracks : \A f \in FramesOf(t) : Near(old[t], t, f) => Near(new[t], t, f)

LEMMA Carried ==
  ASSUME NEW old, NEW new, Carries(old, new), NEW c \in Compositions, AllNear(old, c)
  PROVE  AllNear(new, c)
<1> SUFFICES ASSUME NEW t \in Tracks, c[t] # None PROVE Near(new[t], t, c[t]) BY DEF AllNear
<1>1. c[t] \in FramesOf(t) BY DEF Compositions
<1> QED BY <1>1 DEF Carries, AllNear

LEMMA NothingNear ==
  /\ Nothing \in Compositions /\ \A tracks : AllNear(tracks, Nothing)
  /\ \A t \in Tracks : Nothing[t] = None
<1>1. \A t \in Tracks : Nothing[t] = None BY DEF Nothing
<1>2. Nothing \in [Tracks -> Nat \union {None}] BY DEF Nothing
<1> QED BY <1>1, <1>2 DEF AllNear, Compositions

LEMMA PausedKeeps ==
  ASSUME NEW tracks, AllSound(tracks), NEW paused
  PROVE  LET new == SetDecodePaused(tracks, paused)
         IN  AllSound(new) /\ Carries(tracks, new) /\ Carries(new, tracks)
<1> DEFINE new == SetDecodePaused(tracks, paused)
<1>1. /\ new = [t \in Tracks |-> new[t]]
      /\ \A t \in Tracks : new[t] = [tracks[t] EXCEPT !.paused = paused]
  BY DEF SetDecodePaused
<1> HIDE DEF new
<1>2. \A t \in Tracks :
        new[t] = [state |-> tracks[t].state, head |-> tracks[t].head,
                  back |-> tracks[t].back, count |-> tracks[t].count,
                  paused |-> paused, goal |-> tracks[t].goal]
  BY <1>1 DEF AllSound, Sound
<1>3. ASSUME NEW t \in Tracks
      PROVE  /\ new[t].state = tracks[t].state /\ new[t].head = tracks[t].head
             /\ new[t].count = tracks[t].count /\ new[t].back = tracks[t].back
             /\ new[t].goal = tracks[t].goal
             /\ new[t] = [state |-> new[t].state, head |-> new[t].head,
                          back |-> new[t].back, count |-> new[t].count,
                          paused |-> new[t].paused, goal |-> new[t].goal]
  <2>1. new[t] = [state |-> tracks[t].state, head |-> tracks[t].head,
                  back |-> tracks[t].back, count |-> tracks[t].count,
                  paused |-> paused, goal |-> tracks[t].goal]
    BY <1>2
  <2> QED BY <2>1
<1>4. AllSound(new)
  <2> SUFFICES ASSUME NEW t \in Tracks PROVE Sound(new[t], t) BY <1>1 DEF AllSound
  <2>1. Sound(tracks[t], t) BY DEF AllSound
  <2> QED BY <1>3, <2>1 DEF Sound
<1>5. Carries(tracks, new) /\ Carries(new, tracks) BY <1>3 DEF Carries, Near
<1> QED BY <1>4, <1>5 DEF new

LEMMA SoughtSound ==
  ASSUME NEW target, NEW after, NEW t \in Tracks
  PROVE  LET b == Sought(target, after)
         IN  /\ Sound(b, t) /\ b.state # "Ready"
             /\ b.goal = [target |-> target, after |-> after]
  BY Times DEF Sought, Sound

(* A step ends in a new seek, or a user's seek ends it.                    *)
LEMMA Fresh ==
  ASSUME Typed', NEW targets, NEW after,
         track' = [t \in Tracks |-> Sought(targets[t], after)], history' = Nothing,
         ~preview'.drawn, step' = NoStep, rl'.at = "idle"
  PROVE  Followed'
<1>1. Shaped'
  <2>1. AllSound(track')
    <3> DEFINE new == [t \in Tracks |-> Sought(targets[t], after)]
    <3>1. \A t \in Tracks : Sound(new[t], t) BY SoughtSound
    <3>2. new = [t \in Tracks |-> new[t]] OBVIOUS
    <3> HIDE DEF new
    <3>3. AllSound(new) BY <3>1, <3>2 DEF AllSound
    <3> QED BY <3>3 DEF new
  <2> QED BY <2>1, NothingNear DEF Shaped, NoStep
<1>2. Standing' /\ ScreenFollows' BY DEF Standing, ScreenFollows, AtRest, NoStep
<1>3. HistoryNear' BY NothingNear DEF HistoryNear
<1>4. StepsNear' BY DEF StepsNear, UnderWay, Waiting, NoStep
<1> QED BY <1>1, <1>2, <1>3, <1>4 DEF Followed

(* Only the tracks change, and what was near stays near.                   *)
LEMMA OnlyTracks ==
  ASSUME Followed, AllSound(track'), Carries(track, track'),
         UNCHANGED <<playing, late, step, renderer>>
  PROVE  Followed'
<1>1. Shaped' BY DEF Followed, Shaped, renderer
<1>2. Standing' /\ ScreenFollows'
  BY DEF Followed, Standing, ScreenFollows, AtRest, renderer
<1>3. HistoryNear' BY Carried DEF Followed, HistoryNear, Shaped, renderer
<1>4. ASSUME NEW frames \in Compositions, Chosen(frames)
      PROVE  Chosen(frames)'
  BY <1>4, Carried DEF Chosen
<1>5. StepsNear'
  <2>1. {step.from, step.decision, step.kept} \subseteq Compositions
    BY DEF Followed, Shaped
  <2>2. AllNear(track, step.kept) => AllNear(track', step.kept) BY <2>1, Carried
  <2>3. /\ Chosen(step.kept) => Chosen(step.kept)'
        /\ Chosen(step.decision) => Chosen(step.decision)'
    BY <1>4, <2>1 DEF Chosen
  <2> QED BY <2>2, <2>3 DEF Followed, StepsNear, UnderWay, Waiting, renderer
<1> QED BY <1>1, <1>2, <1>3, <1>5 DEF Followed

LEMMA OneTrack ==
  ASSUME AllSound(track), NEW t \in Tracks, NEW b, Sound(b, t),
         \A f \in FramesOf(t) : Near(track[t], t, f) => Near(b, t, f),
         track' = [track EXCEPT ![t] = b]
  PROVE  AllSound(track') /\ Carries(track, track')
<1>1. track' = [u \in Tracks |-> IF u = t THEN b ELSE track[u]]
  BY DEF AllSound
<1>2. \A u \in Tracks : track'[u] = IF u = t THEN b ELSE track[u] BY <1>1
<1>3. track' = [u \in Tracks |-> track'[u]] BY <1>1
<1> QED BY <1>2, <1>3 DEF AllSound, Carries

LEMMA FollowedSeekBegins ==
  ASSUME Followed, NEW t \in Tracks, SeekBegins(t)
  PROVE  Followed'
<1> DEFINE b == [track[t] EXCEPT !.state = "Buffering", !.paused = FALSE]
<1>1. AllSound(track) BY DEF Followed, Shaped
<1>2. Sound(track[t], t) /\ track[t].state = "Flushing"
  BY <1>1 DEF AllSound, SeekBegins
<1>3. b = [state |-> "Buffering", head |-> track[t].head, back |-> track[t].back,
           count |-> track[t].count, paused |-> FALSE, goal |-> track[t].goal]
  <2> DEFINE o == track[t]
  <2>1. o = [state |-> o.state, head |-> o.head, back |-> o.back, count |-> o.count,
             paused |-> o.paused, goal |-> o.goal]
    BY <1>2 DEF Sound
  <2>2. b = [o EXCEPT !.state = "Buffering", !.paused = FALSE] OBVIOUS
  <2> HIDE DEF o, b
  <2>3. b = [state |-> "Buffering", head |-> o.head, back |-> o.back, count |-> o.count,
             paused |-> FALSE, goal |-> o.goal]
    BY <2>1, <2>2
  <2> QED BY <2>3 DEF o
<1>4. track' = [track EXCEPT ![t] = b] BY DEF SeekBegins
<1> HIDE DEF b
<1>5. Sound(b, t) BY <1>2, <1>3 DEF Sound
<1>6. \A f \in FramesOf(t) : Near(track[t], t, f) => Near(b, t, f)
  BY <1>2, <1>3 DEF Near
<1>7. AllSound(track') /\ Carries(track, track') BY <1>1, <1>4, <1>5, <1>6, OneTrack
<1> QED BY <1>7, OnlyTracks DEF SeekBegins, byTracks

(* The frames of a seek take the place that was kept for them.             *)
LEMMA FollowedSeekLands ==
  ASSUME Followed, NEW t \in Tracks, SeekLands(t)
  PROVE  Followed'
<1> DEFINE first == Landing(t, track[t].goal)
           back  == IF first > 1 /\ Depth > 1 THEN 1 ELSE 0
           most  == Lesser(Lesser(4, Depth - back), LastFrame(t) - first + 1)
<1>1. AllSound(track) BY DEF Followed, Shaped
<1>2. Sound(track[t], t) /\ track[t].state = "Buffering"
  BY <1>1 DEF AllSound, SeekLands
<1>3. PICK count \in 1 .. most :
        track' = [track EXCEPT ![t] = [state |-> "Ready", head |-> first, back |-> back,
                    count |-> count, paused |-> ~playing, goal |-> NoGoal]]
  BY DEF SeekLands
<1>4. first \in FramesOf(t) BY Lands
<1> HIDE DEF first
<1>5. first \in Nat /\ first >= 1 /\ LastFrame(t) \in Nat BY <1>4, Times DEF FramesOf
<1>6. back \in {0, 1} /\ back < first /\ back \in Nat BY <1>5
<1>7. Depth \in Nat BY SteppingAssumption
<1>8. count \in Nat /\ count >= 1 /\ first + count <= LastFrame(t) + 1
  <2> HIDE DEF back
  <2>1. most \in Int /\ most <= LastFrame(t) - first + 1
    BY <1>5, <1>6, <1>7 DEF Lesser
  <2> HIDE DEF most
  <2> QED BY <1>5, <2>1
<1> DEFINE b == [state |-> "Ready", head |-> first, back |-> back,
                 count |-> count, paused |-> ~playing, goal |-> NoGoal]
<1> HIDE DEF back, most
<1>9. Sound(b, t) BY <1>5, <1>6, <1>8 DEF Sound
<1>10. \A f \in FramesOf(t) : Near(track[t], t, f) => Near(b, t, f)
  <2> SUFFICES ASSUME NEW f \in FramesOf(t), Near(track[t], t, f) PROVE Near(b, t, f)
    OBVIOUS
  <2>1. f \in Nat BY Times DEF FramesOf
  <2>2. first - 1 <= f /\ f <= first + 1 BY <1>2 DEF Near, first
  <2>3. f <= first + count BY <1>5, <1>8, <2>1, <2>2
  <2> QED BY <2>2, <2>3 DEF Near
<1>11. track' = [track EXCEPT ![t] = b] BY <1>3
<1> HIDE DEF b
<1>12. AllSound(track') /\ Carries(track, track') BY <1>1, <1>9, <1>10, <1>11, OneTrack
<1> QED BY <1>12, OnlyTracks DEF SeekLands, byTracks

LEMMA FollowedDecode ==
  ASSUME Followed, NEW t \in Tracks, Decode(t)
  PROVE  Followed'
<1> DEFINE b == [track[t] EXCEPT !.count = @ + 1]
<1>1. AllSound(track) BY DEF Followed, Shaped
<1>2. Sound(track[t], t) /\ track[t].state = "Ready"
      /\ track[t].head + track[t].count <= LastFrame(t)
  BY <1>1 DEF AllSound, Decode
<1>3. b = [state |-> track[t].state, head |-> track[t].head, back |-> track[t].back,
           count |-> track[t].count + 1, paused |-> track[t].paused,
           goal |-> track[t].goal]
  BY <1>2 DEF Sound
<1>4. track' = [track EXCEPT ![t] = b] BY DEF Decode
<1> HIDE DEF b
<1>5. track[t].head \in Nat /\ track[t].count \in Nat /\ LastFrame(t) \in Nat
  BY <1>2, Times DEF Sound
<1>6. track[t].count + 1 \in Nat
      /\ track[t].head + (track[t].count + 1) = track[t].head + track[t].count + 1
  BY <1>5
<1>7. Sound(b, t)
  <2>1. track[t].head + (track[t].count + 1) <= LastFrame(t) + 1 BY <1>2, <1>5
  <2> QED BY <1>2, <1>3, <1>6, <2>1 DEF Sound
<1>8. \A f \in FramesOf(t) : Near(track[t], t, f) => Near(b, t, f)
  <2> SUFFICES ASSUME NEW f \in FramesOf(t), Near(track[t], t, f) PROVE Near(b, t, f)
    OBVIOUS
  <2>1. f \in Nat BY Times DEF FramesOf
  <2>2. track[t].head - 1 <= f /\ f <= track[t].head + track[t].count BY <1>2 DEF Near
  <2>3. f <= track[t].head + (track[t].count + 1) BY <1>5, <2>1, <2>2
  <2> QED BY <1>2, <1>3, <2>2, <2>3 DEF Near
<1>9. AllSound(track') /\ Carries(track, track') BY <1>1, <1>4, <1>7, <1>8, OneTrack
<1> QED BY <1>9, OnlyTracks DEF Decode, byTracks

LEMMA FollowedPause ==
  ASSUME Followed, Pause
  PROVE  Followed'
<1>1. AllSound(track) BY DEF Followed, Shaped
<1>2. track' = SetDecodePaused(track, TRUE) BY DEF Pause
<1>3. AllSound(track') /\ Carries(track, track') BY <1>1, <1>2, PausedKeeps
<1>4. UNCHANGED <<late, step, history, preview, screen, rl>> /\ ~playing'
  BY DEF Pause, renderer
<1>5. Shaped' BY <1>3, <1>4 DEF Followed, Shaped
<1>6. Standing' /\ ScreenFollows'
  BY <1>4 DEF Followed, Standing, ScreenFollows, AtRest
<1>7. HistoryNear' BY <1>3, <1>4, Carried DEF Followed, HistoryNear, Shaped
<1>8. StepsNear'
  <2>1. step.at = "none" BY DEF Pause
  <2> QED BY <1>4, <2>1 DEF StepsNear, UnderWay, Waiting
<1> QED BY <1>5, <1>6, <1>7, <1>8 DEF Followed

LEMMA FollowedSeek ==
  ASSUME Typed', ~late', (\E target \in Targets : Seek(target)) \/ ForwardSeek
  PROVE  Followed'
<1>1. PICK targets, after : ApplySeek(targets, after)
  <2>1. CASE \E target \in Targets : Seek(target) BY <2>1 DEF Seek
  <2>2. CASE ForwardSeek BY <2>2 DEF ForwardSeek
  <2> QED BY <2>1, <2>2
<1>2. step' = NoStep /\ late' = (rl.at # "idle") BY DEF Seek, ForwardSeek
<1>3. rl'.at = "idle" /\ history' = Nothing BY <1>1, <1>2 DEF ApplySeek
<1>4. preview' = [preview EXCEPT !.drawn = FALSE] BY <1>1 DEF ApplySeek
<1>5. ~preview'.drawn
  <2>1. DOMAIN preview' = {"drawn", "pending"} BY DEF Typed
  <2> QED BY <1>4, <2>1
<1> QED BY <1>1, <1>2, <1>3, <1>5, Fresh DEF ApplySeek
-----------------------------------------------------------------------------
(* The steps.                                                              *)

LEMMA Discards ==
  ASSUME NEW tracks, AllSound(tracks),
         NEW old \in Compositions, Full(old), AllNear(tracks, old),
         NEW new \in Compositions, Full(new), AllNear(tracks, new),
         \A t \in Tracks : new[t] \in {old[t], old[t] + 1}
  PROVE  LET left == Discarded(tracks, new)
         IN  AllSound(left) /\ AllNear(left, old) /\ AllNear(left, new)
<1> DEFINE left == Discarded(tracks, new)
<1>1. \A t \in Tracks :
        /\ old[t] \in FramesOf(t) /\ old[t] # None /\ new[t] \in FramesOf(t) /\ new[t] # None
        /\ Sound(tracks[t], t) /\ Near(tracks[t], t, old[t]) /\ Near(tracks[t], t, new[t])
  BY Apart DEF Full, AllSound, AllNear
<1>2. /\ left = [t \in Tracks |-> left[t]]
      /\ \A t \in Tracks : left[t] = AdvancedTo(tracks[t], t, Pts[t][new[t]])
  BY <1>1 DEF Discarded
<1> HIDE DEF left
<1>3. \A t \in Tracks :
        Sound(left[t], t) /\ Near(left[t], t, old[t]) /\ Near(left[t], t, new[t])
  BY <1>1, <1>2, NearAdvanced
<1>4. AllSound(left) /\ AllNear(left, old) /\ AllNear(left, new)
  BY <1>2, <1>3 DEF AllSound, AllNear
<1> QED BY <1>4 DEF left

LEMMA Assembled ==
  ASSUME NEW at \in {"waiting", "present"}, NEW kind \in {"forward", "backward"},
         NEW from \in Compositions, NEW decision \in Compositions, NEW kept \in Compositions,
         NEW time, NEW target, NEW decode,
         step' = [at |-> at, kind |-> kind, from |-> from, decision |-> decision,
                  kept |-> kept, clock |-> time, target |-> target, decode |-> decode],
         AllSound(track'), history' \in Compositions, AllNear(track', history'), ~playing',
         rl'.at # "idle" =>
           /\ rl' \in [at : {"presenting", "commit"}, decision : Compositions,
                       kind : {"cached", "preview"}]
           /\ rl'.at = "commit" => screen' = rl'.decision
           /\ AllNear(track', rl'.decision)
           /\ at = "waiting" /\ kind = "forward" => rl'.decision = from,
         Full(from),
         at = "present" =>
           Full(decision) /\ StepsFrom(kind, from, decision) /\ AllNear(track', decision),
         at = "waiting" /\ kind = "forward" =>
           /\ history' = from
           /\ kept # Nothing =>
                Full(kept) /\ StepsFrom(kind, from, kept) /\ AllNear(track', kept),
         at = "waiting" /\ kind = "backward" => kept = from /\ AllNear(track', kept)
  PROVE  Followed'
<1>1. /\ step'.at = at /\ step'.kind = kind /\ step'.from = from
      /\ step'.decision = decision /\ step'.kept = kept
      /\ step'.clock = time /\ step'.target = target /\ step'.decode = decode
  OBVIOUS
<1>2. Shaped' BY <1>1 DEF Shaped
<1>3. Standing' BY <1>1 DEF Standing
<1>4. ScreenFollows' BY <1>1 DEF ScreenFollows, AtRest
<1>5. HistoryNear' BY DEF HistoryNear
<1>6. StepsNear'
  <2>1. /\ at = "present" => Chosen(decision)'
        /\ at = "waiting" /\ kind = "forward" /\ kept # Nothing => Chosen(kept)'
    BY <1>1 DEF Chosen
  <2>2. UnderWay' => Full(from) OBVIOUS
  <2>3. Waiting("forward")' => at = "waiting" /\ kind = "forward" BY <1>1 DEF Waiting
  <2>4. Waiting("backward")' => at = "waiting" /\ kind = "backward" BY <1>1 DEF Waiting
  <2>5. step'.at \in {"present", "commit"} => at = "present" BY <1>1
  <2> QED BY <1>1, <2>1, <2>2, <2>3, <2>4, <2>5 DEF StepsNear
<1> QED BY <1>2, <1>3, <1>4, <1>5, <1>6 DEF Followed

LEMMA BeginsQuiet ==
  ASSUME Typed, Followed, Begins, ~late'
  PROVE  rl.at = "idle" /\ Full(history) /\ ~late
<1>1. history \in Compositions BY DEF Followed, Shaped
<1>2. \A t \in Tracks : history[t] # None BY DEF Begins
<1>3. Full(history) BY <1>1, <1>2 DEF Full, Compositions
<1> QED BY <1>3 DEF Begins, Typed

LEMMA BegunIs ==
  ASSUME NEW kind
  PROVE  Begun(kind, "waiting") =
           [at |-> "waiting", kind |-> kind, from |-> history, decision |-> Nothing,
            kept |-> Nothing, clock |-> 0, target |-> 0, decode |-> 0]
<1> DEFINE n == NoStep
<1>1. n = [at |-> "none", kind |-> "none", from |-> Nothing, decision |-> Nothing,
           kept |-> Nothing, clock |-> 0, target |-> 0, decode |-> 0]
  BY DEF NoStep
<1>2. Begun(kind, "waiting") = [n EXCEPT !.at = "waiting", !.kind = kind, !.from = history]
  BY DEF Begun
<1> HIDE DEF n
<1> QED BY <1>1, <1>2

LEMMA FollowedStepForward ==
  ASSUME Typed, Followed, ~late', StepForward
  PROVE  Followed'
<1> DEFINE choice == ForwardChoice
           begun  == Begun("forward", "waiting")
<1>1. rl.at = "idle" /\ Full(history) BY BeginsQuiet DEF StepForward
<1>2. AllSound(track) /\ history \in Compositions /\ AllNear(track, history)
  BY DEF Followed, Shaped, HistoryNear
<1>3. history' = history /\ rl' = rl /\ ~playing' BY DEF StepForward, renderer
<1>4. choice.found =>
        /\ choice.frames \in Compositions /\ Full(choice.frames)
        /\ StepsFrom("forward", history, choice.frames) /\ AllNear(track, choice.frames)
  BY <1>1, <1>2, ForwardFound
<1>5. begun = [at |-> "waiting", kind |-> "forward", from |-> history, decision |-> Nothing,
               kept |-> Nothing, clock |-> 0, target |-> 0, decode |-> 0]
  BY BegunIs
<1>6. Nothing \in Compositions BY NothingNear
<1> HIDE DEF choice, begun
<1>7. CASE choice.found /\ choice.complete
  <2>1. track' = Discarded(track, choice.frames)
        /\ step' = [begun EXCEPT !.at = "present", !.decision = choice.frames]
    BY <1>7 DEF StepForward, ApplyForward, choice, begun
  <2>2. AllSound(track') /\ AllNear(track', history) /\ AllNear(track', choice.frames)
    BY <1>1, <1>2, <1>4, <1>7, <2>1, Discards DEF StepsFrom
  <2>3. step' = [at |-> "present", kind |-> "forward", from |-> history,
                 decision |-> choice.frames, kept |-> Nothing, clock |-> 0, target |-> 0,
                 decode |-> 0]
    BY <1>5, <2>1
  <2> QED BY <1>1, <1>2, <1>3, <1>4, <1>6, <1>7, <2>2, <2>3, Assembled
<1>8. CASE ~ (choice.found /\ choice.complete)
  <2> DEFINE left == Discarded(track, history)
  <2>1. track' = SetDecodePaused(left, FALSE)
    BY <1>8 DEF StepForward, choice
  <2>2. AllSound(left) /\ AllNear(left, history)
    <3>1. \A t \in Tracks : history[t] \in {history[t], history[t] + 1} OBVIOUS
    <3> QED BY <1>1, <1>2, <3>1, Discards
  <2>3. choice.found => AllNear(left, choice.frames)
    <3> SUFFICES ASSUME choice.found, NEW t \in Tracks
                 PROVE  Near(left[t], t, choice.frames[t])
      BY DEF AllNear
    <3>1. choice.frames[t] \in {history[t], history[t] + 1}
          /\ choice.frames[t] \in FramesOf(t) /\ history[t] \in FramesOf(t)
      BY <1>1, <1>4 DEF StepsFrom, Full
    <3>2. Near(track[t], t, choice.frames[t]) /\ Near(left[t], t, history[t])
      BY <1>4, <2>2, <3>1, Apart DEF AllNear
    <3>3. left[t] = AdvancedTo(track[t], t, Pts[t][history[t]])
      BY <3>1, Apart DEF Discarded
    <3>4. /\ left[t].state = track[t].state /\ left[t].goal = track[t].goal
          /\ left[t].head + left[t].count = track[t].head + track[t].count
      BY <1>2, <3>3, Advances DEF AllSound
    <3>5. CASE track[t].state # "Ready" BY <3>2, <3>4, <3>5 DEF Near
    <3>6. CASE track[t].state = "Ready"
      <4>1. left[t].head - 1 <= history[t] /\ choice.frames[t] <= left[t].head + left[t].count
        BY <3>2, <3>4, <3>6 DEF Near
      <4>2. left[t].head \in Nat /\ history[t] \in Nat
        BY <2>2, <3>1, Times DEF AllSound, Sound, FramesOf
      <4>3. left[t].head - 1 <= choice.frames[t] BY <3>1, <4>1, <4>2
      <4> QED BY <3>4, <3>6, <4>1, <4>3 DEF Near
    <3> QED BY <3>5, <3>6
  <2> HIDE DEF left
  <2>4. AllSound(track') /\ Carries(left, track') BY <2>1, <2>2, PausedKeeps
  <2>5. AllNear(track', history) BY <1>2, <2>2, <2>4, Carried
  <2>6. choice.found => AllNear(track', choice.frames) BY <1>4, <2>3, <2>4, Carried
  <2>7. CASE choice.found
    <3>1. step' = [begun EXCEPT !.kept = choice.frames, !.target = choice.target]
      BY <1>8, <2>7 DEF StepForward, choice, begun
    <3>2. step' = [at |-> "waiting", kind |-> "forward", from |-> history,
                   decision |-> Nothing, kept |-> choice.frames, clock |-> 0,
                   target |-> choice.target, decode |-> 0]
      BY <1>5, <3>1
    <3> QED BY <1>1, <1>2, <1>3, <1>4, <1>6, <2>4, <2>5, <2>6, <2>7, <3>2, Assembled
  <2>8. CASE ~choice.found
    <3>1. step' = begun BY <1>8, <2>8 DEF StepForward, choice, begun
    <3> QED BY <1>1, <1>2, <1>3, <1>5, <1>6, <2>4, <2>5, <3>1, Assembled
  <2> QED BY <2>7, <2>8
<1> QED BY <1>7, <1>8

LEMMA PresentsIs ==
  ASSUME NEW frames
  PROVE  Presents(frames) =
           [at |-> "present", kind |-> step.kind, from |-> step.from, decision |-> frames,
            kept |-> Nothing, clock |-> 0, target |-> 0, decode |-> 0]
<1> DEFINE n == NoStep
<1>1. n = [at |-> "none", kind |-> "none", from |-> Nothing, decision |-> Nothing,
           kept |-> Nothing, clock |-> 0, target |-> 0, decode |-> 0]
  BY DEF NoStep
<1>2. Presents(frames) = [n EXCEPT !.at = "present", !.kind = step.kind, !.from = step.from,
                                   !.decision = frames]
  BY DEF Presents
<1> HIDE DEF n
<1> QED BY <1>1, <1>2

(* A record of a step with the part it keeps.                               *)
LEMMA KeepsPart ==
  ASSUME NEW s, NEW frames, NEW target, NEW at, NEW kind, NEW from, NEW decision, NEW kept,
         NEW time, NEW goal, NEW decode,
         s = [at |-> at, kind |-> kind, from |-> from, decision |-> decision,
              kept |-> kept, clock |-> time, target |-> goal, decode |-> decode],
         NEW new, new = [s EXCEPT !.kept = frames, !.target = target]
  PROVE  new = [at |-> at, kind |-> kind, from |-> from, decision |-> decision,
                kept |-> frames, clock |-> time, target |-> target, decode |-> decode]
  OBVIOUS

LEMMA FollowedPollForward ==
  ASSUME Typed, Followed, ~late', PollForward
  PROVE  Followed'
<1> DEFINE choice == ForwardChoice
<1>1. rl.at = "idle" /\ Waiting("forward") /\ choice.found BY DEF PollForward, Looks
<1>2. AllSound(track) /\ history \in Compositions /\ AllNear(track, history)
  BY DEF Followed, Shaped, HistoryNear
<1>3. history = step.from /\ Full(history)
  BY <1>1 DEF Followed, StepsNear, Waiting, UnderWay
<1>4. history' = history /\ rl' = rl /\ ~playing'
  BY <1>1 DEF PollForward, renderer, Followed, Standing, Waiting
<1>5. /\ choice.frames \in Compositions /\ Full(choice.frames)
      /\ StepsFrom("forward", history, choice.frames) /\ AllNear(track, choice.frames)
  BY <1>1, <1>2, <1>3, ForwardFound
<1>6. {step.from, step.decision, step.kept, Nothing} \subseteq Compositions
  BY NothingNear DEF Followed, Shaped
<1> HIDE DEF choice
<1>7. CASE choice.complete
  <2> DEFINE paused == SetDecodePaused(track, TRUE)
  <2>1. AllSound(paused) /\ Carries(track, paused) BY <1>2, PausedKeeps
  <2>2. AllNear(paused, history) /\ AllNear(paused, choice.frames)
    BY <1>2, <1>5, <2>1, Carried
  <2> HIDE DEF paused
  <2>3. track' = Discarded(paused, choice.frames) /\ step' = Presents(choice.frames)
    BY <1>7 DEF PollForward, ApplyForward, choice, paused
  <2>4. AllSound(track') /\ AllNear(track', history) /\ AllNear(track', choice.frames)
    BY <1>2, <1>3, <1>5, <2>1, <2>2, <2>3, Discards DEF StepsFrom
  <2>5. step' = [at |-> "present", kind |-> "forward", from |-> history,
                 decision |-> choice.frames, kept |-> Nothing, clock |-> 0, target |-> 0,
                 decode |-> 0]
    BY <1>1, <1>3, <2>3, PresentsIs DEF Waiting
  <2> QED BY <1>1, <1>2, <1>3, <1>4, <1>5, <1>6, <2>4, <2>5, Assembled
<1>8. CASE ~choice.complete
  <2>1. track' = track
        /\ step' = [step EXCEPT !.kept = choice.frames, !.target = choice.target]
    BY <1>8 DEF PollForward, choice
  <2>2. step' = [at |-> "waiting", kind |-> "forward", from |-> history,
                 decision |-> step.decision, kept |-> choice.frames,
                 clock |-> step.clock, target |-> choice.target, decode |-> step.decode]
    <3>1. step = [at |-> step.at, kind |-> step.kind, from |-> step.from,
                  decision |-> step.decision, kept |-> step.kept, clock |-> step.clock,
                  target |-> step.target, decode |-> step.decode]
          /\ step.at = "waiting" /\ step.kind = "forward" /\ step.from = history
      BY <1>1, <1>3 DEF Followed, Shaped, Waiting
    <3> QED BY <2>1, <3>1, KeepsPart, Zenon
  <2>3. /\ AllSound(track') /\ AllNear(track', history) /\ AllNear(track', choice.frames)
        /\ step.decision \in Compositions
    BY <1>2, <1>5, <1>6, <2>1
  <2> QED BY <1>1, <1>2, <1>3, <1>4, <1>5, <2>2, <2>3, Assembled
<1> QED BY <1>7, <1>8

(* What the exact seek of a step forward needs does not come from before.  *)
LEMMA Unbound ==
  ASSUME Followed, step.at # "none", AllSound(track'), Carries(track, track'),
         UNCHANGED <<playing, late, renderer>>,
         NEW at \in {"fallback", "seek"}, NEW kind, NEW from \in Compositions,
         NEW decision \in Compositions, NEW kept \in Compositions,
         NEW time, NEW target, NEW decode,
         step' = [at |-> at, kind |-> kind, from |-> from, decision |-> decision,
                  kept |-> kept, clock |-> time, target |-> target, decode |-> decode],
         step.at = "commit" => FALSE
  PROVE  Followed'
<1>1. /\ step'.at = at /\ step'.kind = kind /\ step'.from = from
      /\ step'.decision = decision /\ step'.kept = kept
      /\ step'.clock = time /\ step'.target = target /\ step'.decode = decode
  OBVIOUS
<1>2. UNCHANGED <<history, preview, screen, rl>> BY DEF renderer
<1>3. Shaped' BY <1>1, <1>2 DEF Followed, Shaped
<1>4. Standing' BY <1>1, <1>2 DEF Followed, Standing
<1>5. ScreenFollows' BY <1>1, <1>2 DEF Followed, ScreenFollows, AtRest
<1>6. HistoryNear' BY <1>2, Carried DEF Followed, HistoryNear, Shaped
<1>7. StepsNear' BY <1>1 DEF StepsNear, UnderWay, Waiting
<1> QED BY <1>3, <1>4, <1>5, <1>6, <1>7 DEF Followed

LEMMA FollowedForwardTimeout ==
  ASSUME Typed, Followed, ForwardTimeout
  PROVE  Followed'
<1> DEFINE paused == SetDecodePaused(track, TRUE)
<1>1. /\ Waiting("forward") /\ step.at = "waiting" /\ step.kind = "forward"
      /\ UNCHANGED <<playing, late, renderer>> /\ UNCHANGED <<history, preview, screen, rl>>
  BY DEF ForwardTimeout, Waiting, renderer
<1>2. AllSound(track) /\ history \in Compositions /\ AllNear(track, history)
  BY DEF Followed, Shaped, HistoryNear
<1>3. history = step.from /\ Full(history) /\ (rl.at # "idle" => rl.decision = history)
  BY <1>1 DEF Followed, StepsNear, UnderWay
<1>4. {step.from, step.decision, step.kept, Nothing} \subseteq Compositions
  BY NothingNear DEF Followed, Shaped
<1>5. AllSound(paused) /\ Carries(track, paused) BY <1>2, PausedKeeps
<1> HIDE DEF paused
<1>6. CASE step.kept # Nothing
  <2>1. track' = Discarded(paused, step.kept) /\ step' = Presents(step.kept)
    BY <1>6 DEF ForwardTimeout, ApplyForward, paused
  <2>2. Full(step.kept) /\ StepsFrom("forward", history, step.kept)
        /\ AllNear(track, step.kept)
    BY <1>1, <1>3, <1>6 DEF Followed, StepsNear, Chosen
  <2>3. AllNear(paused, history) /\ AllNear(paused, step.kept)
    BY <1>2, <1>4, <1>5, <2>2, Carried
  <2>4. AllSound(track') /\ AllNear(track', history) /\ AllNear(track', step.kept)
    BY <1>2, <1>3, <1>4, <1>5, <2>1, <2>2, <2>3, Discards DEF StepsFrom
  <2>5. step' = [at |-> "present", kind |-> "forward", from |-> history,
                 decision |-> step.kept, kept |-> Nothing, clock |-> 0, target |-> 0,
                 decode |-> 0]
    BY <1>1, <1>3, <2>1, PresentsIs
  <2>6. ~playing' BY <1>1 DEF Followed, Standing
  <2>7. rl'.at # "idle" =>
          /\ rl' \in [at : {"presenting", "commit"}, decision : Compositions,
                      kind : {"cached", "preview"}]
          /\ rl'.at = "commit" => screen' = rl'.decision
          /\ AllNear(track', rl'.decision)
    <3> SUFFICES ASSUME rl.at # "idle"
                 PROVE  /\ rl \in [at : {"presenting", "commit"}, decision : Compositions,
                                   kind : {"cached", "preview"}]
                        /\ rl.at = "commit" => screen = rl.decision
                        /\ AllNear(track', rl.decision)
      BY <1>1
    <3>1. rl \in [at : {"presenting", "commit"}, decision : Compositions,
                  kind : {"cached", "preview", "play"}]
      BY DEF Followed, Shaped
    <3>2. rl.kind # "play" BY <1>1 DEF Followed, Standing
    <3>3. rl.at = "commit" => screen = rl.decision BY DEF Followed, ScreenFollows
    <3> QED BY <1>3, <2>4, <3>1, <3>2, <3>3
  <2> QED BY <1>1, <1>2, <1>3, <1>4, <2>2, <2>4, <2>5, <2>6, <2>7, Assembled
<1>7. CASE step.kept = Nothing
  <2>1. track' = paused /\ step' = [NoStep EXCEPT !.at = "fallback"]
    BY <1>7 DEF ForwardTimeout, paused
  <2>2. step' = [at |-> "fallback", kind |-> "none", from |-> Nothing,
                 decision |-> Nothing, kept |-> Nothing, clock |-> 0, target |-> 0,
                 decode |-> 0]
    BY <2>1 DEF NoStep
  <2>3. AllSound(track') /\ Carries(track, track') BY <1>5, <2>1
  <2>4. Nothing \in Compositions BY NothingNear
  <2> QED BY <1>1, <2>2, <2>3, <2>4, Unbound
<1> QED BY <1>6, <1>7

LEMMA FollowedForwardFallback ==
  ASSUME Typed, Followed, ForwardFallback
  PROVE  Followed'
<1> DEFINE goal == FallbackTarget
<1>1. /\ step.at = "fallback" /\ UNCHANGED <<playing, late, track, renderer>>
      /\ step' = [step EXCEPT !.at = "seek", !.target = goal.target, !.decode = goal.decode]
  BY DEF ForwardFallback
<1> HIDE DEF goal
<1>2. step = [at |-> step.at, kind |-> step.kind, from |-> step.from,
              decision |-> step.decision, kept |-> step.kept, clock |-> step.clock,
              target |-> step.target, decode |-> step.decode]
      /\ {step.from, step.decision, step.kept} \subseteq Compositions /\ AllSound(track)
  BY DEF Followed, Shaped
<1>3. step' = [at |-> "seek", kind |-> step.kind, from |-> step.from,
               decision |-> step.decision, kept |-> step.kept, clock |-> step.clock,
               target |-> goal.target, decode |-> goal.decode]
  BY <1>1, <1>2
<1>4. Carries(track, track) BY DEF Carries
<1> QED BY <1>1, <1>2, <1>3, <1>4, Unbound
-----------------------------------------------------------------------------
LEMMA Retreats ==
  ASSUME AllSound(track), NEW frames,
         track' = [t \in Tracks |-> RetreatedTo(track[t], frames[t])]
  PROVE  AllSound(track') /\ Carries(track, track')
<1>1. /\ track' = [t \in Tracks |-> track'[t]]
      /\ \A t \in Tracks : track'[t] = RetreatedTo(track[t], frames[t])
  OBVIOUS
<1>2. \A t \in Tracks : Sound(track[t], t) BY DEF AllSound
<1>3. AllSound(track') BY <1>1, <1>2, NearRetreated DEF AllSound
<1>4. Carries(track, track') BY <1>1, <1>2, NearRetreated DEF Carries
<1> QED BY <1>3, <1>4

(* The seek of a reconstruction comes down next to what was shown.         *)
LEMMA Reconstructs ==
  ASSUME history \in Compositions, Full(history),
         track' = [t \in Tracks |-> Sought(PredecessorTargets[t], FALSE)]
  PROVE  AllSound(track') /\ AllNear(track', history)
<1>1. \A t \in Tracks : track'[t] = Sought(PredecessorTargets[t], FALSE) OBVIOUS
<1>2. \A t \in Tracks : /\ Sound(track'[t], t) /\ track'[t].state # "Ready"
                        /\ track'[t].goal = [target |-> PredecessorTargets[t], after |-> FALSE]
  BY <1>1, SoughtSound
<1>3. ASSUME NEW t \in Tracks PROVE Near(track'[t], t, history[t])
  <2>1. history[t] \in FramesOf(t) /\ history[t] # None BY Apart DEF Full
  <2>2. PredecessorTargets[t] = Greater(0, Global(t, history[t]) - 1)
    BY <2>1 DEF PredecessorTargets, Shown
  <2>3. LET at == Landing(t, track'[t].goal) IN at - 1 <= history[t] /\ history[t] <= at + 1
    BY <1>2, <2>1, <2>2, LandsBefore
  <2> QED BY <1>2, <2>3 DEF Near
<1>4. track' = [t \in Tracks |-> track'[t]] OBVIOUS
<1> QED BY <1>2, <1>3, <1>4 DEF AllSound, AllNear

LEMMA FollowedStepBackward ==
  ASSUME Typed, Followed, ~late', StepBackward
  PROVE  Followed'
<1> DEFINE choice == BackwardChoice(history)
           begun  == Begun("backward", "waiting")
<1>1. rl.at = "idle" /\ Full(history) BY BeginsQuiet DEF StepBackward
<1>2. AllSound(track) /\ history \in Compositions /\ AllNear(track, history)
  BY DEF Followed, Shaped, HistoryNear
<1>3. rl'.at = "idle" /\ ~playing'
  BY <1>1 DEF StepBackward, ApplySeek, renderer
<1>4. begun = [at |-> "waiting", kind |-> "backward", from |-> history, decision |-> Nothing,
               kept |-> Nothing, clock |-> 0, target |-> 0, decode |-> 0]
  BY BegunIs
<1>5. Nothing \in Compositions /\ \A tracks : AllNear(tracks, Nothing) BY NothingNear
<1>6. choice.found =>
        /\ choice.frames \in Compositions /\ Full(choice.frames)
        /\ StepsFrom("backward", history, choice.frames) /\ AllNear(track, choice.frames)
  BY <1>1, <1>2, BackwardFound
<1> HIDE DEF choice, begun
<1>7. CASE choice.found
  <2>1. /\ track' = [t \in Tracks |-> RetreatedTo(track[t], choice.frames[t])]
        /\ step' = [begun EXCEPT !.at = "present", !.decision = choice.frames]
        /\ history' = history
    BY <1>7 DEF StepBackward, choice, begun, renderer
  <2>2. AllSound(track') /\ Carries(track, track') BY <1>2, <2>1, Retreats
  <2>3. AllNear(track', history) /\ AllNear(track', choice.frames)
    BY <1>2, <1>6, <1>7, <2>2, Carried
  <2>4. step' = [at |-> "present", kind |-> "backward", from |-> history,
                 decision |-> choice.frames, kept |-> Nothing, clock |-> 0, target |-> 0,
                 decode |-> 0]
    BY <1>4, <2>1
  <2>5. /\ choice.frames \in Compositions /\ Full(choice.frames)
        /\ StepsFrom("backward", history, choice.frames)
    BY <1>6, <1>7
  <2>6. Nothing \in Compositions BY <1>5
  <2>7. history' \in Compositions /\ AllNear(track', history') BY <1>2, <2>1, <2>3
  <2> QED BY <1>1, <1>2, <1>3, <2>2, <2>3, <2>4, <2>5, <2>6, <2>7, Assembled
<1>8. CASE ~choice.found
  <2>1. /\ track' = [t \in Tracks |-> Sought(PredecessorTargets[t], FALSE)]
        /\ history' = Nothing
        /\ step' = [begun EXCEPT !.kept = history, !.clock = clock]
    BY <1>8 DEF StepBackward, ApplySeek, choice, begun
  <2>2. AllSound(track') /\ AllNear(track', history) BY <1>1, <1>2, <2>1, Reconstructs
  <2>3. step' = [at |-> "waiting", kind |-> "backward", from |-> history,
                 decision |-> Nothing, kept |-> history, clock |-> clock, target |-> 0,
                 decode |-> 0]
    BY <1>4, <2>1
  <2>4. Nothing \in Compositions /\ history \in Compositions BY <1>2, <1>5
  <2>5. history' \in Compositions /\ AllNear(track', history') BY <1>5, <2>1
  <2> QED BY <1>1, <1>3, <2>2, <2>3, <2>4, <2>5, Assembled
<1> QED BY <1>7, <1>8

LEMMA FollowedPollBackward ==
  ASSUME Typed, Followed, ~late', PollBackward
  PROVE  Followed'
<1> DEFINE choice == BackwardChoice(step.kept)
<1>1. /\ rl.at = "idle" /\ step.at = "waiting" /\ step.kind = "backward" /\ choice.found
      /\ Waiting("backward") /\ history' = history /\ rl' = rl
  BY DEF PollBackward, Looks, Waiting, renderer
<1>2. AllSound(track) /\ history \in Compositions /\ AllNear(track, history)
      /\ {step.from, step.decision, step.kept} \subseteq Compositions
  BY DEF Followed, Shaped, HistoryNear
<1>3. step.kept = step.from /\ AllNear(track, step.kept) /\ Full(step.kept)
  BY <1>1 DEF Followed, StepsNear, UnderWay
<1>4. ~playing' BY <1>1 DEF PollBackward, Followed, Standing
<1>5. /\ choice.frames \in Compositions /\ Full(choice.frames)
      /\ StepsFrom("backward", step.kept, choice.frames) /\ AllNear(track, choice.frames)
  BY <1>1, <1>2, <1>3, BackwardFound
<1> HIDE DEF choice
<1>6. /\ track' = [t \in Tracks |-> RetreatedTo(track[t], choice.frames[t])]
      /\ step' = Presents(choice.frames)
  BY DEF PollBackward, choice
<1>7. AllSound(track') /\ Carries(track, track') BY <1>2, <1>6, Retreats
<1>8. AllNear(track', history) /\ AllNear(track', choice.frames)
  BY <1>2, <1>5, <1>7, Carried
<1>9. step' = [at |-> "present", kind |-> "backward", from |-> step.kept,
               decision |-> choice.frames, kept |-> Nothing, clock |-> 0, target |-> 0,
               decode |-> 0]
  BY <1>1, <1>3, <1>6, PresentsIs
<1>10. Nothing \in Compositions /\ step.kept \in Compositions BY <1>2, NothingNear
<1> QED BY <1>1, <1>2, <1>3, <1>4, <1>5, <1>7, <1>8, <1>9, <1>10, Assembled

(* Given up, a reconstruction leaves the history it came for, and what the *)
(* screen shows is then not asked.                                         *)
LEMMA FollowedBackwardTimeout ==
  ASSUME Typed, Followed, BackwardTimeout
  PROVE  Followed'
<1>1. /\ Waiting("backward") /\ step.at = "waiting"
      /\ history' = step.kept /\ step' = [NoStep EXCEPT !.kind = "failed"]
      /\ UNCHANGED <<playing, track, preview, rl, screen, late>>
  BY DEF BackwardTimeout, Waiting
<1>2. step' = [at |-> "none", kind |-> "failed", from |-> Nothing, decision |-> Nothing,
               kept |-> Nothing, clock |-> 0, target |-> 0, decode |-> 0]
  BY <1>1 DEF NoStep
<1>3. /\ step'.at = "none" /\ step'.kind = "failed" /\ step'.from = Nothing
      /\ step'.decision = Nothing /\ step'.kept = Nothing
      /\ step'.clock = 0 /\ step'.target = 0 /\ step'.decode = 0
  BY <1>2
<1>4. AllNear(track, step.kept) /\ step.kept \in Compositions
  BY <1>1 DEF Followed, StepsNear, Shaped
<1>5. Shaped'
  <2>1. Nothing \in Compositions BY NothingNear
  <2>2. AllSound(track') /\ history' \in Compositions
        /\ (rl'.at # "idle" => rl' \in [at : {"presenting", "commit"},
                                        decision : Compositions,
                                        kind : {"cached", "preview", "play"}])
    BY <1>1, <1>4 DEF Followed, Shaped
  <2> QED BY <1>2, <1>3, <2>1, <2>2 DEF Shaped
<1>6. Standing' BY <1>1, <1>3 DEF Followed, Standing
<1>7. ScreenFollows' BY <1>1, <1>3 DEF Followed, ScreenFollows
<1>8. HistoryNear' BY <1>1, <1>4 DEF Followed, HistoryNear
<1>9. StepsNear' BY <1>3 DEF StepsNear, UnderWay, Waiting
<1> QED BY <1>5, <1>6, <1>7, <1>8, <1>9 DEF Followed
LEMMA FollowedStepPresent ==
  ASSUME Typed, Followed, ~late', StepPresent
  PROVE  Followed'
<1>1. /\ step.at = "present" /\ rl.at = "idle" /\ screen' = step.decision
      /\ preview' = [drawn |-> TRUE, pending |-> FALSE]
      /\ step' = [step EXCEPT !.at = "commit"]
      /\ UNCHANGED <<playing, track, history, rl>>
  BY DEF StepPresent, Looks
<1>2. /\ step = [at |-> step.at, kind |-> step.kind, from |-> step.from,
                 decision |-> step.decision, kept |-> step.kept, clock |-> step.clock,
                 target |-> step.target, decode |-> step.decode]
      /\ {step.from, step.decision, step.kept} \subseteq Compositions
      /\ step.kind \in {"forward", "backward"} /\ ~playing
  BY <1>1 DEF Followed, Shaped, Standing
<1>3. step' = [at |-> "commit", kind |-> step.kind, from |-> step.from,
               decision |-> step.decision, kept |-> step.kept, clock |-> step.clock,
               target |-> step.target, decode |-> step.decode]
  BY <1>1, <1>2
<1>4. /\ step'.at = "commit" /\ step'.kind = step.kind /\ step'.from = step.from
      /\ step'.decision = step.decision /\ step'.kept = step.kept
      /\ step'.clock = step.clock /\ step'.target = step.target
      /\ step'.decode = step.decode
  BY <1>3
<1>5. Shaped' BY <1>1, <1>2, <1>3, <1>4 DEF Followed, Shaped
<1>6. Standing' BY <1>1, <1>2, <1>4 DEF Standing
<1>7. ScreenFollows' BY <1>1, <1>4 DEF ScreenFollows, AtRest
<1>8. HistoryNear' BY <1>1 DEF Followed, HistoryNear
<1>9. StepsNear'
  <2>1. Full(step.from) /\ Chosen(step.decision)
    BY <1>1 DEF Followed, StepsNear, UnderWay
  <2>2. Chosen(step.decision)' BY <1>1, <1>4, <2>1 DEF Chosen
  <2> QED BY <1>4, <2>1, <2>2 DEF StepsNear, UnderWay, Waiting
<1> QED BY <1>5, <1>6, <1>7, <1>8, <1>9 DEF Followed

LEMMA FollowedStepCommit ==
  ASSUME Typed, Followed, StepCommit
  PROVE  Followed'
<1>1. /\ step.at = "commit" /\ history' = step.decision /\ step' = NoStep
      /\ UNCHANGED <<playing, track, preview, rl, screen, late>>
  BY DEF StepCommit
<1>2. /\ rl.at = "idle" /\ screen = step.decision /\ Chosen(step.decision)
      /\ step.decision \in Compositions /\ AllSound(track)
  BY <1>1 DEF Followed, ScreenFollows, StepsNear, Shaped
<1>3. step' = [at |-> "none", kind |-> "none", from |-> Nothing, decision |-> Nothing,
               kept |-> Nothing, clock |-> 0, target |-> 0, decode |-> 0]
  BY <1>1 DEF NoStep
<1>4. /\ step'.at = "none" /\ step'.kind = "none" /\ step'.from = Nothing
      /\ step'.decision = Nothing /\ step'.kept = Nothing
      /\ step'.clock = 0 /\ step'.target = 0 /\ step'.decode = 0
  BY <1>3
<1>5. Shaped' BY <1>1, <1>2, <1>3, <1>4, NothingNear DEF Shaped
<1>6. Standing' BY <1>4 DEF Standing
<1>7. ScreenFollows' BY <1>1, <1>2, <1>4 DEF ScreenFollows
<1>8. HistoryNear' BY <1>1, <1>2 DEF HistoryNear, Chosen
<1>9. StepsNear' BY <1>4 DEF StepsNear, UnderWay, Waiting
<1> QED BY <1>5, <1>6, <1>7, <1>8, <1>9 DEF Followed
-----------------------------------------------------------------------------
(* The render loop.                                                        *)

LEMMA FirstIs ==
  ASSUME NEW t \in Tracks, Sound(track[t], t), First(t) # None
  PROVE  /\ First(t) = track[t].head /\ track[t].count > 0
         /\ First(t) \in FramesOf(t) /\ First(t) \in Nat /\ Near(track[t], t, First(t))
<1>1. First(t) = track[t].head /\ track[t].count > 0 BY DEF First
<1>2. track[t].head \in Nat /\ track[t].count \in Nat BY DEF Sound
<1>3. track[t].head \in track[t].head .. track[t].head + track[t].count - 1 BY <1>1, <1>2
<1>4. First(t) \in FramesOf(t) /\ track[t].state = "Ready" BY <1>1, <1>3, Within
<1>5. Near(track[t], t, First(t)) BY <1>1, <1>2, <1>4 DEF Near
<1> QED BY <1>1, <1>2, <1>4, <1>5

(* A composition of frames of the history and heads of the buffers.        *)
LEMMA Composed ==
  ASSUME AllSound(track), history \in Compositions, AllNear(track, history),
         NEW c, c = [t \in Tracks |-> c[t]],
         \A t \in Tracks : c[t] \in {history[t], First(t), None}
  PROVE  c \in Compositions /\ AllNear(track, c)
<1>1. ASSUME NEW t \in Tracks
      PROVE  /\ c[t] \in FramesOf(t) \union {None}
             /\ c[t] # None => Near(track[t], t, c[t])
  <2>1. Sound(track[t], t) /\ history[t] \in FramesOf(t) \union {None}
        /\ (history[t] # None => Near(track[t], t, history[t]))
    BY DEF AllSound, Compositions, AllNear
  <2>2. First(t) # None => First(t) \in FramesOf(t) /\ Near(track[t], t, First(t))
    BY <2>1, FirstIs
  <2> QED BY <2>1, <2>2
<1>2. \A t \in Tracks : FramesOf(t) \subseteq Nat BY Times DEF FramesOf
<1>3. c \in [Tracks -> Nat \union {None}]
  <2>1. \A t \in Tracks : c[t] \in Nat \union {None} BY <1>1, <1>2
  <2> QED BY <2>1
<1> QED BY <1>1, <1>3 DEF Compositions, AllNear

LEMMA FollowedRenderPreview ==
  ASSUME Typed, Followed, RenderPreview
  PROVE  Followed'
<1> DEFINE c == CachedDecision
<1>1. /\ rl.at = "idle" /\ ~playing /\ ~preview.drawn
      /\ UNCHANGED <<track, history, screen, playing, step, late>>
      /\ preview' = [preview EXCEPT !.pending = TRUE]
  BY DEF RenderPreview, byRender
<1>2. AllSound(track) /\ history \in Compositions /\ AllNear(track, history)
  BY DEF Followed, Shaped, HistoryNear
<1>3. /\ c = [t \in Tracks |-> c[t]]
      /\ \A t \in Tracks : c[t] = IF history[t] # None THEN history[t] ELSE First(t)
  BY DEF CachedDecision
<1>4. PICK kind \in {"cached", "preview"} :
        rl' = [at |-> "presenting", decision |-> c, kind |-> kind]
  BY DEF RenderPreview
<1> HIDE DEF c
<1>5. c \in Compositions /\ AllNear(track, c) BY <1>2, <1>3, Composed
<1>6. rl'.at = "presenting" /\ rl'.decision = c /\ rl'.kind \in {"cached", "preview"}
      /\ rl' \in [at : {"presenting", "commit"}, decision : Compositions,
                  kind : {"cached", "preview", "play"}]
  BY <1>4, <1>5
<1>7. Shaped' BY <1>1, <1>6 DEF Followed, Shaped
<1>8. Standing' BY <1>1, <1>6 DEF Followed, Standing
<1>9. ScreenFollows' BY <1>1, <1>6 DEF Followed, ScreenFollows, AtRest
<1>10. HistoryNear' BY <1>1, <1>5, <1>6 DEF Followed, HistoryNear
<1>11. StepsNear'
  <2>1. StepsNear BY DEF Followed
  <2>2. ASSUME Waiting("forward") PROVE c = step.from
    <3>1. history = step.from /\ Full(history)
      BY <2>1, <2>2 DEF StepsNear, Waiting, UnderWay
    <3>2. \A t \in Tracks : c[t] = history[t] BY <1>3, <3>1, Apart DEF Full
    <3>3. history = [t \in Tracks |-> history[t]] BY <1>2 DEF Compositions
    <3> QED BY <1>3, <3>1, <3>2, <3>3
  <2>3. \A x : Chosen(x)' <=> Chosen(x) BY <1>1 DEF Chosen
  <2> QED BY <1>1, <1>6, <2>1, <2>2, <2>3 DEF StepsNear, UnderWay, Waiting
<1> QED BY <1>7, <1>8, <1>9, <1>10, <1>11 DEF Followed

LEMMA FollowedRenderTick ==
  ASSUME Typed, Followed, RenderTick
  PROVE  Followed'
<1> DEFINE heads == {Global(t, First(t)) : t \in {u \in Tracks : First(u) # None}}
           now   == Greater(clock, Lowest(heads))
           due   == [t \in Tracks |-> IF First(t) # None /\ Global(t, First(t)) = Lowest(heads)
                                 THEN First(t)
                                 ELSE IF now >= Offset[t] THEN history[t] ELSE None]
<1>1. /\ rl.at = "idle" /\ playing
      /\ UNCHANGED <<track, history, preview, screen, playing, step, late>>
  BY DEF RenderTick, byRender
<1>2. rl' = [at |-> "presenting", decision |-> due, kind |-> "play"]
  BY DEF RenderTick
<1>3. AllSound(track) /\ history \in Compositions /\ AllNear(track, history)
  BY DEF Followed, Shaped, HistoryNear
<1>4. /\ due = [t \in Tracks |-> due[t]]
      /\ \A t \in Tracks : due[t] \in {history[t], First(t), None}
  OBVIOUS
<1> HIDE DEF due
<1>5. due \in Compositions /\ AllNear(track, due) BY <1>3, <1>4, Composed
<1>6. rl'.at = "presenting" /\ rl'.decision = due /\ rl'.kind = "play"
      /\ rl' \in [at : {"presenting", "commit"}, decision : Compositions,
                  kind : {"cached", "preview", "play"}]
  BY <1>2, <1>5
<1>7. step.at = "none" BY <1>1 DEF Followed, Standing
<1>8. Shaped' BY <1>1, <1>6 DEF Followed, Shaped
<1>9. Standing' BY <1>1, <1>7 DEF Standing
<1>10. ScreenFollows' BY <1>1, <1>6, <1>7 DEF ScreenFollows, AtRest
<1>11. HistoryNear' BY <1>1, <1>5, <1>6 DEF Followed, HistoryNear
<1>12. StepsNear' BY <1>1, <1>7 DEF StepsNear, UnderWay, Waiting
<1> QED BY <1>8, <1>9, <1>10, <1>11, <1>12 DEF Followed

LEMMA FollowedRenderPresented ==
  ASSUME Typed, Followed, RenderPresented
  PROVE  Followed'
<1>1. /\ rl.at = "presenting" /\ screen' = rl.decision
      /\ rl' = [rl EXCEPT !.at = "commit"]
      /\ UNCHANGED <<track, history, playing, step, late>>
  BY DEF RenderPresented, byRender
<1>2. rl \in [at : {"presenting", "commit"}, decision : Compositions,
              kind : {"cached", "preview", "play"}]
  BY <1>1 DEF Followed, Shaped
<1>3. /\ rl' \in [at : {"presenting", "commit"}, decision : Compositions,
                  kind : {"cached", "preview", "play"}]
      /\ rl'.at = "commit" /\ rl'.decision = rl.decision /\ rl'.kind = rl.kind
  BY <1>1, <1>2
<1>4. step.at # "commit" BY <1>1 DEF Followed, ScreenFollows
<1>5. Shaped' BY <1>1, <1>3 DEF Followed, Shaped
<1>6. Standing' BY <1>1, <1>3 DEF Followed, Standing
<1>7. ScreenFollows' BY <1>1, <1>3, <1>4 DEF ScreenFollows, AtRest
<1>8. HistoryNear' BY <1>1, <1>3 DEF Followed, HistoryNear
<1>9. StepsNear'
  <2>1. \A x : Chosen(x)' <=> Chosen(x) BY <1>1 DEF Chosen
  <2> QED BY <1>1, <1>3, <2>1 DEF Followed, StepsNear, UnderWay, Waiting
<1> QED BY <1>5, <1>6, <1>7, <1>8, <1>9 DEF Followed

(* What the render loop presented when playing is passed in the buffer.    *)
LEMMA Passes ==
  ASSUME AllSound(track), NEW c \in Compositions, AllNear(track, c),
         track' = [t \in Tracks |-> IF First(t) # None /\ First(t) = c[t]
                                    THEN AdvancedTo(track[t], t, Pts[t][First(t)] + 1)
                                    ELSE track[t]]
  PROVE  AllSound(track') /\ AllNear(track', c)
<1>1. /\ track' = [t \in Tracks |-> track'[t]]
      /\ \A t \in Tracks :
           track'[t] = IF First(t) # None /\ First(t) = c[t]
                       THEN AdvancedTo(track[t], t, Pts[t][First(t)] + 1) ELSE track[t]
  OBVIOUS
<1>2. ASSUME NEW t \in Tracks
      PROVE  Sound(track'[t], t) /\ (c[t] # None => Near(track'[t], t, c[t]))
  <2>1. Sound(track[t], t) /\ (c[t] # None => Near(track[t], t, c[t]))
    BY DEF AllSound, AllNear
  <2>2. CASE First(t) # None /\ First(t) = c[t]
    <3> DEFINE b == track[t]
               a == AdvancedTo(b, t, Pts[t][b.head] + 1)
    <3>1. First(t) = b.head /\ b.count > 0 /\ c[t] = b.head /\ b.head \in Nat
          /\ b.state = "Ready" /\ b.count \in Nat
      BY <2>1, <2>2, FirstIs DEF Sound
    <3>2. track'[t] = a BY <1>1, <2>2, <3>1
    <3>3. a.head = b.head + 1 BY <2>1, <3>1, AdvancesPast
    <3>4. Sound(a, t) /\ a.state = "Ready" /\ a.head + a.count = b.head + b.count
      BY <2>1, <3>1, Advances
    <3> HIDE DEF a
    <3>5. Near(a, t, b.head) BY <3>1, <3>3, <3>4 DEF Near
    <3> QED BY <3>1, <3>2, <3>4, <3>5
  <2>3. CASE ~ (First(t) # None /\ First(t) = c[t])
    <3>1. track'[t] = track[t] BY <1>1, <2>3
    <3> QED BY <2>1, <3>1
  <2> QED BY <2>2, <2>3
<1> QED BY <1>1, <1>2 DEF AllSound, AllNear

LEMMA FollowedRenderCommit ==
  ASSUME Typed, Followed, RenderCommit
  PROVE  Followed'
<1>1. /\ rl.at = "commit" /\ history' = rl.decision /\ rl' = Idle
      /\ UNCHANGED <<preview, screen, playing, step, late>>
  BY DEF RenderCommit, byRender
<1>2. /\ AllSound(track) /\ AllNear(track, rl.decision) /\ screen = rl.decision
      /\ rl.decision \in Compositions /\ rl.kind \in {"cached", "preview", "play"}
  BY <1>1 DEF Followed, Shaped, HistoryNear, ScreenFollows
<1>3. rl'.at = "idle" BY <1>1 DEF Idle
<1>4. step.at # "commit" BY <1>1 DEF Followed, ScreenFollows
<1>5. /\ AllSound(track') /\ AllNear(track', rl.decision)
      /\ rl.kind # "play" => Carries(track, track')
  <2>1. CASE rl.kind = "preview"
    <3>1. track' = SetDecodePaused(track, TRUE) BY <2>1 DEF RenderCommit
    <3>2. AllSound(track') /\ Carries(track, track') BY <1>2, <3>1, PausedKeeps
    <3> QED BY <1>2, <3>2, Carried
  <2>2. CASE rl.kind = "play"
    <3>1. track' = [t \in Tracks |-> IF First(t) # None /\ First(t) = rl.decision[t]
                                     THEN AdvancedTo(track[t], t, Pts[t][First(t)] + 1)
                                     ELSE track[t]]
      BY <2>2 DEF RenderCommit
    <3> QED BY <1>2, <2>2, <3>1, Passes
  <2>3. CASE rl.kind = "cached"
    <3>1. track' = track BY <2>3 DEF RenderCommit
    <3> QED BY <1>2, <3>1 DEF Carries
  <2> QED BY <1>2, <2>1, <2>2, <2>3
<1>6. Shaped' BY <1>1, <1>2, <1>3, <1>5 DEF Followed, Shaped
<1>7. Standing' BY <1>1, <1>3 DEF Followed, Standing
<1>8. ScreenFollows' BY <1>1, <1>2, <1>3, <1>4 DEF ScreenFollows, AtRest
<1>9. HistoryNear' BY <1>1, <1>3, <1>5 DEF HistoryNear
<1>10. StepsNear'
  <2>1. CASE step.at = "none" BY <1>1, <2>1 DEF StepsNear, UnderWay, Waiting
  <2>2. CASE step.at # "none"
    <3>1. Carries(track, track') BY <1>1, <1>5, <2>2 DEF Followed, Standing
    <3>2. {step.from, step.decision, step.kept} \subseteq Compositions
      BY DEF Followed, Shaped
    <3>3. AllNear(track, step.kept) => AllNear(track', step.kept) BY <3>1, <3>2, Carried
    <3>4. \A x \in Compositions : Chosen(x) => Chosen(x)'
      BY <1>1, <3>1, Carried DEF Chosen
    <3>5. /\ Chosen(step.kept) => Chosen(step.kept)'
          /\ Chosen(step.decision) => Chosen(step.decision)'
      BY <1>1, <3>2, <3>4 DEF Chosen
    <3>6. StepsNear BY DEF Followed
    <3> QED BY <1>1, <1>3, <3>3, <3>5, <3>6 DEF StepsNear, UnderWay, Waiting
  <2> QED BY <2>1, <2>2
<1> QED BY <1>6, <1>7, <1>8, <1>9, <1>10 DEF Followed
-----------------------------------------------------------------------------
LEMMA Starts == Init => IInv
<1> SUFFICES ASSUME Init PROVE Typed /\ Followed BY DEF IInv
<1>1. PICK target \in Targets :
        /\ playing \in BOOLEAN /\ track = [t \in Tracks |-> Sought(target, FALSE)]
        /\ history = Nothing /\ screen = Nothing
        /\ preview = [drawn |-> FALSE, pending |-> FALSE]
        /\ step = NoStep /\ rl = Idle /\ late = FALSE
  BY DEF Init
<1>2. Typed BY <1>1 DEF Typed
<1>3. AllSound(track)
  <2>1. \A t \in Tracks : Sound(track[t], t) BY <1>1, SoughtSound
  <2>2. track = [t \in Tracks |-> track[t]] BY <1>1
  <2> QED BY <2>1, <2>2 DEF AllSound
<1>4. step.at = "none" /\ rl.at = "idle" /\ ~preview.drawn BY <1>1 DEF NoStep, Idle
<1>5. Shaped BY <1>1, <1>3, <1>4, NothingNear DEF Shaped, NoStep
<1>6. Standing /\ ScreenFollows BY <1>4 DEF Standing, ScreenFollows, AtRest
<1>7. HistoryNear BY <1>1, <1>4, NothingNear DEF HistoryNear
<1>8. StepsNear BY <1>4 DEF StepsNear, UnderWay, Waiting
<1> QED BY <1>2, <1>5, <1>6, <1>7, <1>8 DEF Followed

LEMMA StaysTyped == Typed /\ [Next]_vars => Typed'
<1> SUFFICES ASSUME Typed, [Next]_vars PROVE Typed' OBVIOUS
<1>1. ASSUME NEW target \in Targets, Seek(target) PROVE Typed'
  BY <1>1 DEF Typed, Seek, ApplySeek
<1>2. CASE Pause BY <1>2 DEF Typed, Pause, renderer
<1>3. CASE StepForward BY <1>3 DEF Typed, StepForward, Begins, renderer
<1>4. CASE StepBackward BY <1>4 DEF Typed, StepBackward, Begins, renderer, ApplySeek
<1>5. CASE PollForward BY <1>5 DEF Typed, PollForward, Looks, renderer
<1>6. CASE ForwardTimeout BY <1>6 DEF Typed, ForwardTimeout, renderer
<1>7. CASE ForwardFallback BY <1>7 DEF Typed, ForwardFallback, renderer
<1>8. CASE ForwardSeek BY <1>8 DEF Typed, ForwardSeek, ApplySeek
<1>9. CASE PollBackward BY <1>9 DEF Typed, PollBackward, Looks, renderer
<1>10. CASE BackwardTimeout BY <1>10 DEF Typed, BackwardTimeout
<1>11. CASE StepPresent BY <1>11 DEF Typed, StepPresent, Looks
<1>12. CASE StepCommit BY <1>12 DEF Typed, StepCommit
<1>13. CASE RenderPreview BY <1>13 DEF Typed, RenderPreview, byRender
<1>14. CASE RenderTick BY <1>14 DEF Typed, RenderTick, byRender
<1>15. CASE RenderPresented BY <1>15 DEF Typed, RenderPresented, byRender
<1>16. CASE RenderCommit BY <1>16 DEF Typed, RenderCommit, byRender
<1>17. CASE Pipeline
  BY <1>17 DEF Typed, Pipeline, SeekBegins, SeekLands, Decode, byTracks, renderer
<1>18. CASE UNCHANGED vars BY <1>18 DEF Typed, vars, renderer
<1> QED
  BY <1>1, <1>2, <1>3, <1>4, <1>5, <1>6, <1>7, <1>8, <1>9, <1>10, <1>11, <1>12, <1>13,
     <1>14, <1>15, <1>16, <1>17, <1>18
  DEF Next, Step, Stepping, Render

LEMMA Stays == IInv /\ [Next]_vars => IInv'
<1> SUFFICES ASSUME IInv, [Next]_vars, ~late' PROVE Followed'
  BY StaysTyped DEF IInv
<1>1. Typed /\ Typed' /\ (~late => Followed) BY StaysTyped DEF IInv
<1>2. CASE (\E target \in Targets : Seek(target)) \/ ForwardSeek
  BY <1>1, <1>2, FollowedSeek
<1>3. CASE Pause
  <2>1. Followed BY <1>1, <1>3 DEF Pause
  <2> QED BY <1>3, <2>1, FollowedPause
<1>4. CASE StepForward
  <2>1. Followed BY <1>1, <1>4 DEF StepForward
  <2> QED BY <1>1, <1>4, <2>1, FollowedStepForward
<1>5. CASE StepBackward
  <2>1. Followed BY <1>1, <1>5 DEF StepBackward
  <2> QED BY <1>1, <1>5, <2>1, FollowedStepBackward
<1>6. CASE PollForward
  <2>1. Followed BY <1>1, <1>6 DEF PollForward, Looks
  <2> QED BY <1>1, <1>6, <2>1, FollowedPollForward
<1>7. CASE ForwardTimeout
  <2>1. Followed BY <1>1, <1>7 DEF ForwardTimeout
  <2> QED BY <1>1, <1>7, <2>1, FollowedForwardTimeout
<1>8. CASE ForwardFallback
  <2>1. Followed BY <1>1, <1>8 DEF ForwardFallback
  <2> QED BY <1>1, <1>8, <2>1, FollowedForwardFallback
<1>9. CASE PollBackward
  <2>1. Followed BY <1>1, <1>9 DEF PollBackward, Looks
  <2> QED BY <1>1, <1>9, <2>1, FollowedPollBackward
<1>10. CASE BackwardTimeout
  <2>1. Followed BY <1>1, <1>10 DEF BackwardTimeout
  <2> QED BY <1>1, <1>10, <2>1, FollowedBackwardTimeout
<1>11. CASE StepPresent
  <2>1. Followed BY <1>1, <1>11 DEF StepPresent, Looks
  <2> QED BY <1>1, <1>11, <2>1, FollowedStepPresent
<1>12. CASE StepCommit
  <2>1. Followed BY <1>1, <1>12 DEF StepCommit
  <2> QED BY <1>1, <1>12, <2>1, FollowedStepCommit
<1>13. CASE RenderPreview
  <2>1. Followed BY <1>1, <1>13 DEF RenderPreview, byRender
  <2> QED BY <1>1, <1>13, <2>1, FollowedRenderPreview
<1>14. CASE RenderTick
  <2>1. Followed BY <1>1, <1>14 DEF RenderTick, byRender
  <2> QED BY <1>1, <1>14, <2>1, FollowedRenderTick
<1>15. CASE RenderPresented
  <2>1. Followed BY <1>1, <1>15 DEF RenderPresented, byRender
  <2> QED BY <1>1, <1>15, <2>1, FollowedRenderPresented
<1>16. CASE RenderCommit
  <2>1. Followed BY <1>1, <1>16 DEF RenderCommit, byRender
  <2> QED BY <1>1, <1>16, <2>1, FollowedRenderCommit
<1>17. CASE Pipeline
  <2>1. PICK t \in Tracks : SeekBegins(t) \/ SeekLands(t) \/ Decode(t)
    BY <1>17 DEF Pipeline
  <2>2. Followed BY <1>1, <2>1 DEF SeekBegins, SeekLands, Decode, byTracks
  <2> QED BY <2>1, <2>2, FollowedSeekBegins, FollowedSeekLands, FollowedDecode
<1>18. CASE UNCHANGED vars
  <2>1. Followed /\ AllSound(track) BY <1>1, <1>18 DEF vars, Followed, Shaped
  <2>2. UNCHANGED <<playing, late, step, renderer, track>> BY <1>18 DEF vars
  <2>3. AllSound(track') /\ Carries(track, track') BY <2>1, <2>2 DEF Carries
  <2> QED BY <2>1, <2>2, <2>3, OnlyTracks
<1> QED
  BY <1>2, <1>3, <1>4, <1>5, <1>6, <1>7, <1>8, <1>9, <1>10, <1>11, <1>12, <1>13, <1>14,
     <1>15, <1>16, <1>17, <1>18
  DEF Next, Step, Stepping, Render

(* In every state that no late look of the render loop disturbed, what is  *)
(* shown, what the steps look for and what the buffers hold go together.   *)
THEOREM SteppingInvariant == Spec => []IInv
<1> QED BY Starts, Stays, PTL DEF Spec

(* At rest the screen shows the frames the next step starts from, however  *)
(* steps, seeks, previews and presentations went before: step_forward and  *)
(* step_backward present and commit as the render loop does.               *)
THEOREM ScreenCorrect == Spec => []ScreenIsHistory
<1>1. IInv => ScreenIsHistory
  BY DEF IInv, Followed, ScreenFollows, ScreenIsHistory, AtRest
<1> QED BY <1>1, SteppingInvariant, PTL

(* A step commits of every track the frame of before or the next one in    *)
(* its direction, and of some track the next one, however long it waited   *)
(* for them to be decoded and whatever a reconstruction brought.           *)
THEOREM StepsCorrect == Spec => StepsByOne
<1>1. ASSUME IInv, StepCommit, ~late
      PROVE  LET by == IF step.kind = "forward" THEN 1 ELSE -1
             IN  /\ step.decision # step.from
                 /\ \A t \in Tracks :
                      step.decision[t] \in {step.from[t], step.from[t] + by}
  <2>1. Followed /\ step.at = "commit" BY <1>1 DEF IInv, StepCommit
  <2>2. /\ StepsFrom(step.kind, step.from, step.decision) /\ Full(step.from)
        /\ step.kind \in {"forward", "backward"}
    BY <2>1 DEF Followed, StepsNear, UnderWay, Chosen, Shaped
  <2>3. ASSUME NEW t \in Tracks PROVE step.from[t] \in Nat
    BY <2>2, Times DEF Full, FramesOf
  <2>4. CASE step.kind = "forward" BY <2>2, <2>4 DEF StepsFrom
  <2>5. CASE step.kind = "backward"
    <3>1. \A t \in Tracks : step.from[t] - 1 = step.from[t] + -1 BY <2>3
    <3> QED BY <2>2, <2>5, <3>1 DEF StepsFrom
  <2> QED BY <2>2, <2>4, <2>5
<1>2. ASSUME IInv, [Next]_vars
      PROVE  [StepCommit /\ ~late =>
                LET by == IF step.kind = "forward" THEN 1 ELSE -1
                IN  /\ step.decision # step.from
                    /\ \A t \in Tracks :
                         step.decision[t] \in {step.from[t], step.from[t] + by}]_vars
  BY <1>1, <1>2
<1> QED BY <1>2, SteppingInvariant, PTL DEF Spec, StepsByOne
=============================================================================

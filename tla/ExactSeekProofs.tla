-------------------------- MODULE ExactSeekProofs --------------------------
(***************************************************************************)
(* An exact seek shows the frame a reader of the whole file would name,    *)
(* keeps its predecessor behind it, and loses no frame after it: for any   *)
(* file, key frames and targets, for a codec that holds back any number of *)
(* frames the candidate window has room for, and for any forward depth and *)
(* queue capacity.  The backward depth is the renderer's, 1.               *)
(***************************************************************************)
EXTENDS ExactSeek, SequenceTheorems, WellFoundedInduction, TLAPS

(* What the seek relies on: a step back is kept room for, and while the    *)
(* window is being filled it takes what the codec holds without dropping.  *)
WindowSuffices == BackwardDepth = 1 /\ MaxReorder >= CodecDelay + PreviewWindow

(* The frames of s are consecutive, up to last. *)
Run(s, last) == \A i \in 1 .. Len(s) : s[i] = last - Len(s) + i
-----------------------------------------------------------------------------
(* The ring. *)

(* The slot of an index that has gone round at most once. *)
Wrap(x) == IF x < RingCapacity THEN x ELSE x - RingCapacity

RingType ==
  [slots : [Slots -> Nat \union {NoFrame}], writeIdx : Slots, readIdx : Slots,
   count : Nat, retreated : Nat, advanced : Nat]

(* From its cursor on r holds the frames that follow e, the frame behind   *)
(* the cursor, which is there as long as it may be stepped back to.        *)
Follows(r, e) ==
  /\ r \in RingType
  /\ r.writeIdx = Wrap(r.readIdx + r.count)
  /\ r.retreated <= 1 /\ r.count <= MaxCount + r.retreated
  /\ \A i \in 0 .. r.count - 1 : r.slots[Wrap(r.readIdx + i)] = e + 1 + i
  /\ r.retreated = 0 /\ r.advanced > 0 => r.slots[Wrap(r.readIdx + (RingCapacity - 1))] = e

LEMMA Depths ==
  ASSUME WindowSuffices
  PROVE  /\ RingCapacity \in Nat /\ RingCapacity > 2
         /\ MaxCount \in Nat /\ MaxCount > 1 /\ RingCapacity = MaxCount + 1
         /\ Slots = 0 .. RingCapacity - 1
  BY DepthAssumption DEF RingCapacity, MaxCount, Slots, WindowSuffices

LEMMA Modulo ==
  ASSUME NEW n \in Nat, n > 0, NEW x \in Nat
  PROVE  /\ x < n => x % n = x
         /\ n <= x /\ x < 2 * n => x % n = x - n
         /\ 2 * n <= x /\ x < 3 * n => x % n = x - 2 * n
  OBVIOUS

(* Where the slots lie that the steps of the indices lead to. *)
LEMMA Wraps ==
  ASSUME WindowSuffices, NEW r \in Slots
  PROVE  /\ \A i \in 0 .. RingCapacity : Wrap(r + i) \in Slots
         /\ \A i, j \in 0 .. RingCapacity - 1 : i # j => Wrap(r + i) # Wrap(r + j)
         /\ \A i \in 0 .. RingCapacity - 1 : Wrap(Wrap(r + i) + 1) = Wrap(r + (i + 1))
         /\ \A i \in 0 .. RingCapacity - 1 : Wrap(Wrap(r + 1) + i) = Wrap(r + (i + 1))
         /\ Wrap(Wrap(r + 1) + (RingCapacity - 1)) = r
         /\ \A i \in 1 .. RingCapacity :
              Wrap(Wrap(r + (RingCapacity - 1)) + i) = Wrap(r + (i - 1))
         /\ Wrap(Wrap(r + (RingCapacity - 1)) + 0) = Wrap(r + (RingCapacity - 1))
         /\ Wrap(r + 0) = r
<1> DEFINE C == RingCapacity
<1>1. C \in Nat /\ C > 0 /\ r \in 0 .. C - 1 /\ Slots = 0 .. C - 1
  BY Depths
<1> HIDE DEF C
<1> DEFINE wrap(x) == IF x < C THEN x ELSE x - C
<1>2. \A i \in 0 .. C : wrap(r + i) \in 0 .. C - 1
  BY <1>1
<1>3. \A i, j \in 0 .. C - 1 : i # j => wrap(r + i) # wrap(r + j)
  BY <1>1
<1>4. \A i \in 0 .. C - 1 : wrap(wrap(r + i) + 1) = wrap(r + (i + 1))
  BY <1>1
<1>5. /\ \A i \in 0 .. C - 1 : wrap(wrap(r + 1) + i) = wrap(r + (i + 1))
      /\ wrap(wrap(r + 1) + (C - 1)) = r
  BY <1>1
<1>6. \A i \in 1 .. C : wrap(wrap(r + (C - 1)) + i) = wrap(r + (i - 1))
  BY <1>1
<1>7. wrap(wrap(r + (C - 1)) + 0) = wrap(r + (C - 1)) /\ wrap(r + 0) = r
  BY <1>1
<1> QED BY <1>1, <1>2, <1>3, <1>4, <1>5, <1>6, <1>7 DEF C, Wrap

(* The modulus of the ring's methods is a wrap. *)
LEMMA Indices ==
  ASSUME WindowSuffices, NEW r \in Slots
  PROVE  /\ (r + 1) % RingCapacity = Wrap(r + 1)
         /\ (r + RingCapacity - 1) % RingCapacity = Wrap(r + (RingCapacity - 1))
         /\ \A i \in 0 .. RingCapacity - 1 : (r + RingCapacity + i) % RingCapacity = Wrap(r + i)
         /\ (r + RingCapacity + (-1)) % RingCapacity = Wrap(r + (RingCapacity - 1))
<1> DEFINE C == RingCapacity
<1>1. C \in Nat /\ C > 0 /\ r \in 0 .. C - 1
  BY Depths
<1> HIDE DEF C
<1> DEFINE wrap(x) == IF x < C THEN x ELSE x - C
<1>2. (r + 1) % C = wrap(r + 1) /\ (r + C - 1) % C = wrap(r + (C - 1))
  BY <1>1, Modulo
<1>3. \A i \in 0 .. C - 1 : (r + C + i) % C = wrap(r + i)
  BY <1>1, Modulo
<1>4. (r + C + (-1)) % C = wrap(r + (C - 1))
  BY <1>1, Modulo
<1> QED BY <1>2, <1>3, <1>4 DEF C, Wrap

(* What peek shows. *)
LEMMA PeekFollows ==
  ASSUME WindowSuffices, NEW r, NEW e \in Int, Follows(r, e)
  PROVE  /\ r.count \in Nat
         /\ \A i \in 0 .. r.count - 1 : Peek(r, i) = e + 1 + i
         /\ CanRetreat(r) => Peek(r, -1) = e
<1> DEFINE C == RingCapacity
<1>1. /\ r.readIdx \in Slots /\ r.count \in Nat /\ r.count <= C
      /\ r.retreated \in Nat /\ r.advanced \in Nat
  BY Depths DEF Follows, RingType
<1>2. ASSUME NEW i \in 0 .. r.count - 1 PROVE Peek(r, i) = e + 1 + i
  <2>1. i \in 0 .. C - 1
    BY <1>1, Depths
  <2>2. Peek(r, i) = r.slots[Wrap(r.readIdx + i)]
    BY <1>1, <2>1, Indices DEF Peek
  <2> QED BY <2>2 DEF Follows
<1>3. ASSUME CanRetreat(r) PROVE Peek(r, -1) = e
  <2>1. r.retreated = 0 /\ r.advanced > 0
    BY <1>1, <1>3 DEF CanRetreat, WindowSuffices
  <2>2. Peek(r, -1) = r.slots[Wrap(r.readIdx + (C - 1))]
    BY <1>1, Indices DEF Peek
  <2> QED BY <2>1, <2>2 DEF Follows
<1> QED BY <1>1, <1>2, <1>3

LEMMA NewFollows ==
  ASSUME WindowSuffices, NEW e \in Int
  PROVE  Follows(NewRing, e) /\ NewRing.count = 0 /\ NewRing.advanced = 0 /\ NewRing.retreated = 0
<1>1. 0 \in Slots /\ Wrap(0 + 0) = 0
  BY Depths DEF Wrap
<1>2. NewRing \in RingType
  BY <1>1 DEF NewRing, RingType
<1> QED BY <1>1, <1>2, Depths DEF Follows, NewRing

(* What the ring's methods do, field by field. *)
LEMMA Methods ==
  ASSUME NEW r \in RingType, NEW f, NEW p
  PROVE  /\ p = RingPush(r, f) =>
              p = [slots |-> [r.slots EXCEPT ![r.writeIdx] = f],
                   writeIdx |-> (r.writeIdx + 1) % RingCapacity, readIdx |-> r.readIdx,
                   count |-> r.count + 1, retreated |-> r.retreated, advanced |-> r.advanced]
         /\ p = RingAdvance(r) =>
              p = [slots |-> r.slots, writeIdx |-> r.writeIdx,
                   readIdx |-> (r.readIdx + 1) % RingCapacity, count |-> r.count - 1,
                   retreated |-> IF r.retreated > 0 THEN r.retreated - 1 ELSE 0,
                   advanced |-> r.advanced + 1]
         /\ p = RingRetreat(r) =>
              p = [slots |-> r.slots, writeIdx |-> r.writeIdx,
                   readIdx |-> (r.readIdx + RingCapacity - 1) % RingCapacity,
                   count |-> r.count + 1, retreated |-> r.retreated + 1,
                   advanced |-> r.advanced]
<1>1. ASSUME p = RingPush(r, f)
      PROVE  p = [slots |-> [r.slots EXCEPT ![r.writeIdx] = f],
                  writeIdx |-> (r.writeIdx + 1) % RingCapacity, readIdx |-> r.readIdx,
                  count |-> r.count + 1, retreated |-> r.retreated, advanced |-> r.advanced]
  BY <1>1 DEF RingPush, RingType
<1>2. ASSUME p = RingAdvance(r)
      PROVE  p = [slots |-> r.slots, writeIdx |-> r.writeIdx,
                  readIdx |-> (r.readIdx + 1) % RingCapacity, count |-> r.count - 1,
                  retreated |-> IF r.retreated > 0 THEN r.retreated - 1 ELSE 0,
                  advanced |-> r.advanced + 1]
  BY <1>2 DEF RingAdvance, RingType
<1>3. ASSUME p = RingRetreat(r)
      PROVE  p = [slots |-> r.slots, writeIdx |-> r.writeIdx,
                  readIdx |-> (r.readIdx + RingCapacity - 1) % RingCapacity,
                  count |-> r.count + 1, retreated |-> r.retreated + 1,
                  advanced |-> r.advanced]
  BY <1>3 DEF RingRetreat, RingType
<1> QED BY <1>1, <1>2, <1>3

LEMMA PushFollows ==
  ASSUME WindowSuffices, NEW e \in Int, NEW r, Follows(r, e), CanPush(r),
         NEW f \in Nat, f = e + 1 + r.count
  PROVE  LET p == RingPush(r, f)
         IN  /\ Follows(p, e) /\ p.count = r.count + 1
             /\ p.advanced = r.advanced /\ p.retreated = r.retreated
<1> DEFINE C == RingCapacity
           R == r.readIdx
           n == r.count
           p == RingPush(r, f)
<1>1. /\ r \in RingType /\ r.slots \in [Slots -> Nat \union {NoFrame}]
      /\ r.writeIdx \in Slots /\ R \in Slots /\ n \in Nat
      /\ r.retreated \in Nat /\ r.advanced \in Nat
  BY DEF Follows, RingType
<1>2. /\ n < MaxCount /\ n + 1 < C /\ n \in 0 .. C - 1 /\ C \in Nat /\ C - 1 \in 0 .. C - 1
      /\ n + 1 \in 0 .. C
  <2>1. n < MaxCount /\ C = MaxCount + 1 /\ C \in Nat /\ MaxCount \in Nat
    BY Depths DEF CanPush
  <2> HIDE DEF C, n
  <2> QED BY <1>1, <2>1
<1>3. /\ r.writeIdx = Wrap(R + n) /\ Wrap(r.writeIdx + 1) = Wrap(R + (n + 1))
      /\ Wrap(R + (n + 1)) \in Slots
  <2> HIDE DEF C, R, n
  <2>1. Wrap(Wrap(R + n) + 1) = Wrap(R + (n + 1)) /\ Wrap(R + (n + 1)) \in Slots
    BY <1>1, <1>2, Wraps DEF C
  <2>2. r.writeIdx = Wrap(R + n)
    BY DEF Follows, R, n
  <2> QED BY <2>1, <2>2
<1>4. p = [slots |-> [r.slots EXCEPT ![r.writeIdx] = f], writeIdx |-> Wrap(R + (n + 1)),
           readIdx |-> R, count |-> n + 1,
           retreated |-> r.retreated, advanced |-> r.advanced]
  <2>1. (r.writeIdx + 1) % RingCapacity = Wrap(R + (n + 1))
    <3>1. r.writeIdx \in Slots
      BY <1>1
    <3> QED BY <1>3, <3>1, Indices, Zenon
  <2>2. p = [slots |-> [r.slots EXCEPT ![r.writeIdx] = f],
             writeIdx |-> (r.writeIdx + 1) % RingCapacity, readIdx |-> r.readIdx,
             count |-> r.count + 1, retreated |-> r.retreated, advanced |-> r.advanced]
    BY <1>1, Methods, Zenon
  <2> QED BY <2>1, <2>2
<1> HIDE DEF C, R, n, p
<1>5. /\ p.slots = [r.slots EXCEPT ![r.writeIdx] = f] /\ p.writeIdx = Wrap(R + (n + 1))
      /\ p.readIdx = R /\ p.count = n + 1
      /\ p.retreated = r.retreated /\ p.advanced = r.advanced
  BY <1>4
<1>6. p \in RingType
  <2>1. [r.slots EXCEPT ![r.writeIdx] = f] \in [Slots -> Nat \union {NoFrame}]
    BY <1>1
  <2> QED BY <1>1, <1>2, <1>3, <1>4, <2>1 DEF RingType
<1>7. ASSUME NEW i \in 0 .. n PROVE p.slots[Wrap(R + i)] = e + 1 + i
  <2>1. CASE i = n
    BY <1>1, <1>3, <1>5, <2>1 DEF n
  <2>2. CASE i # n
    <3>1. i \in 0 .. n - 1 /\ i \in 0 .. C - 1
      BY <1>1, <1>2, <2>2
    <3>2. Wrap(R + i) # Wrap(R + n)
      BY <1>1, <1>2, <2>2, <3>1, Wraps DEF C
    <3>3. r.slots[Wrap(R + i)] = e + 1 + i
      BY <3>1 DEF Follows, R, n
    <3>4. Wrap(R + i) \in Slots
      BY <1>1, <1>2, <3>1, Wraps DEF C
    <3> QED BY <1>1, <1>3, <1>5, <3>2, <3>3, <3>4
  <2> QED BY <2>1, <2>2
<1>8. ASSUME r.retreated = 0, r.advanced > 0 PROVE p.slots[Wrap(R + (C - 1))] = e
  <2>1. Wrap(R + (C - 1)) # Wrap(R + n) /\ Wrap(R + (C - 1)) \in Slots
    BY <1>1, <1>2, Wraps DEF C
  <2>2. r.slots[Wrap(R + (C - 1))] = e
    BY <1>8 DEF Follows, R, C
  <2> QED BY <1>1, <1>3, <1>5, <2>1, <2>2
<1>9. p.retreated <= 1 /\ p.count <= MaxCount + p.retreated
  <2>1. r.retreated <= 1 /\ MaxCount \in Nat
    BY Depths DEF Follows
  <2> QED BY <1>1, <1>2, <1>5, <2>1
<1>10. \A i \in 0 .. p.count - 1 : p.slots[Wrap(p.readIdx + i)] = e + 1 + i
  <2>1. p.count - 1 = n
    BY <1>1, <1>5
  <2> QED BY <2>1, <1>5, <1>7
<1>11. Follows(p, e)
  BY <1>5, <1>6, <1>8, <1>9, <1>10 DEF Follows, C
<1> QED BY <1>5, <1>11 DEF p, n

LEMMA AdvanceFollows ==
  ASSUME WindowSuffices, NEW e \in Int, NEW r, Follows(r, e), r.count > 0
  PROVE  LET p == RingAdvance(r)
         IN  /\ Follows(p, e + 1) /\ p.count = r.count - 1
             /\ p.advanced = r.advanced + 1 /\ p.retreated = 0
<1> DEFINE C == RingCapacity
           R == r.readIdx
           n == r.count
           p == RingAdvance(r)
<1>1. /\ r \in RingType /\ r.slots \in [Slots -> Nat \union {NoFrame}]
      /\ r.writeIdx \in Slots /\ R \in Slots /\ n \in Nat /\ n > 0
      /\ r.retreated \in Nat /\ r.advanced \in Nat
      /\ r.retreated <= 1 /\ n <= MaxCount + r.retreated
      /\ r.writeIdx = Wrap(R + n)
  BY DEF Follows, RingType
<1>2. /\ n <= C /\ C \in Nat /\ n - 1 \in 0 .. C - 1 /\ n - 1 + 1 = n
      /\ n - 1 \in Nat /\ n - 1 <= MaxCount
  <2>1. n \in Nat /\ n > 0 /\ n <= MaxCount + 1 /\ MaxCount \in Nat /\ C = MaxCount + 1
    BY <1>1, Depths
  <2> HIDE DEF n, C
  <2> QED BY <2>1
<1>3. p = [slots |-> r.slots, writeIdx |-> r.writeIdx,
           readIdx |-> (r.readIdx + 1) % RingCapacity, count |-> r.count - 1,
           retreated |-> IF r.retreated > 0 THEN r.retreated - 1 ELSE 0,
           advanced |-> r.advanced + 1]
  BY <1>1, Methods, Zenon
<1>4. Wrap(R + 1) \in Slots /\ (R + 1) % RingCapacity = Wrap(R + 1)
  <2>1. R \in Slots
    BY <1>1
  <2> HIDE DEF R
  <2>2. Wrap(R + 1) \in Slots
    BY <2>1, Depths, Wraps
  <2> QED BY <2>1, <2>2, Indices, Zenon
<1> HIDE DEF p
<1>5. /\ p.slots = r.slots /\ p.writeIdx = Wrap(R + n) /\ p.readIdx = Wrap(R + 1)
      /\ p.count = n - 1 /\ p.retreated = 0 /\ p.advanced = r.advanced + 1
  BY <1>1, <1>3, <1>4
<1>6. p \in RingType
  <2>1. r.advanced + 1 \in Nat /\ (IF r.retreated > 0 THEN r.retreated - 1 ELSE 0) \in Nat
    BY <1>1
  <2> QED BY <1>1, <1>2, <1>3, <1>4, <2>1 DEF RingType
<1> HIDE DEF C, R, n
<1>7. p.writeIdx = Wrap(p.readIdx + p.count)
  BY <1>1, <1>2, <1>5, Wraps DEF C
<1>8. ASSUME NEW i \in 0 .. p.count - 1
      PROVE  p.slots[Wrap(p.readIdx + i)] = e + 1 + 1 + i
  <2>1. i \in 0 .. C - 1 /\ i + 1 \in 0 .. n - 1 /\ e + 1 + (i + 1) = e + 1 + 1 + i
    BY <1>1, <1>2, <1>5
  <2>2. Wrap(Wrap(R + 1) + i) = Wrap(R + (i + 1))
    BY <1>1, <2>1, Wraps DEF C
  <2>3. r.slots[Wrap(R + (i + 1))] = e + 1 + (i + 1)
    BY <2>1 DEF Follows, R, n
  <2> QED BY <1>5, <2>1, <2>2, <2>3
<1>9. p.slots[Wrap(p.readIdx + (C - 1))] = e + 1
  <2>1. Wrap(Wrap(R + 1) + (C - 1)) = R /\ Wrap(R + 0) = R
    BY <1>1, Wraps DEF C
  <2>2. 0 \in 0 .. n - 1
    BY <1>1
  <2>3. r.slots[Wrap(R + 0)] = e + 1 + 0
    BY <2>2 DEF Follows, R, n
  <2> QED BY <1>5, <2>1, <2>3
<1>10. p.retreated <= 1 /\ p.count <= MaxCount + p.retreated
  BY <1>2, <1>5, Depths
<1>11. Follows(p, e + 1)
  BY <1>6, <1>7, <1>8, <1>9, <1>10 DEF Follows, C
<1> QED BY <1>5, <1>11 DEF p, n

LEMMA RetreatFollows ==
  ASSUME WindowSuffices, NEW e \in Int, NEW r, Follows(r, e), CanRetreat(r)
  PROVE  Follows(RingRetreat(r), e - 1) /\ RingRetreat(r).count = r.count + 1
<1> DEFINE C == RingCapacity
           R == r.readIdx
           n == r.count
           p == RingRetreat(r)
<1>1. /\ r \in RingType /\ r.slots \in [Slots -> Nat \union {NoFrame}]
      /\ r.writeIdx \in Slots /\ R \in Slots /\ n \in Nat
      /\ r.retreated = 0 /\ r.advanced \in Nat /\ r.advanced > 0
      /\ n <= MaxCount /\ r.writeIdx = Wrap(R + n)
      /\ r.slots[Wrap(R + (C - 1))] = e
  BY Depths DEF Follows, RingType, CanRetreat, WindowSuffices
<1>2. n + 1 <= C /\ C \in Nat /\ n + 1 \in 1 .. C /\ C - 1 \in 0 .. C /\ n + 1 - 1 = n
  <2>1. n \in Nat /\ n <= MaxCount /\ MaxCount \in Nat /\ C = MaxCount + 1
    BY <1>1, Depths
  <2> HIDE DEF n, C
  <2> QED BY <2>1
<1>3. p = [slots |-> r.slots, writeIdx |-> r.writeIdx, readIdx |-> Wrap(R + (C - 1)),
           count |-> n + 1, retreated |-> 1, advanced |-> r.advanced]
  <2>1. (R + RingCapacity - 1) % RingCapacity = Wrap(R + (C - 1))
    <3>1. R \in Slots
      BY <1>1
    <3> QED BY <3>1, Indices, Zenon DEF C
  <2>2. p = [slots |-> r.slots, writeIdx |-> r.writeIdx,
             readIdx |-> (r.readIdx + RingCapacity - 1) % RingCapacity,
             count |-> r.count + 1, retreated |-> r.retreated + 1,
             advanced |-> r.advanced]
    BY <1>1, Methods, Zenon
  <2> QED BY <2>1, <2>2, <1>1
<1>4. Wrap(R + (C - 1)) \in Slots
  BY <1>1, <1>2, Wraps DEF C
<1> HIDE DEF C, R, n, p
<1>5. /\ p.slots = r.slots /\ p.writeIdx = Wrap(R + n) /\ p.readIdx = Wrap(R + (C - 1))
      /\ p.count = n + 1 /\ p.retreated = 1 /\ p.advanced = r.advanced
  BY <1>1, <1>3
<1>6. p \in RingType
  BY <1>1, <1>2, <1>3, <1>4 DEF RingType
<1>7. p.writeIdx = Wrap(p.readIdx + p.count)
  BY <1>1, <1>2, <1>5, Wraps DEF C
<1>8. ASSUME NEW i \in 0 .. p.count - 1
      PROVE  p.slots[Wrap(p.readIdx + i)] = e - 1 + 1 + i
  <2>1. CASE i = 0
    BY <1>1, <1>5, <2>1, Wraps DEF C
  <2>2. CASE i # 0
    <3>1. i \in 1 .. C /\ i - 1 \in 0 .. n - 1 /\ e + 1 + (i - 1) = e - 1 + 1 + i
      BY <1>1, <1>2, <1>5, <2>2
    <3>2. Wrap(Wrap(R + (C - 1)) + i) = Wrap(R + (i - 1))
      BY <1>1, <3>1, Wraps DEF C
    <3>3. r.slots[Wrap(R + (i - 1))] = e + 1 + (i - 1)
      BY <3>1 DEF Follows, R, n
    <3> QED BY <1>5, <3>1, <3>2, <3>3
  <2> QED BY <2>1, <2>2
<1>9. p.retreated <= 1 /\ p.count <= MaxCount + p.retreated
  BY <1>1, <1>5, Depths
<1>10. Follows(p, e - 1)
  BY <1>5, <1>6, <1>7, <1>8, <1>9 DEF Follows
<1> QED BY <1>5, <1>10 DEF p, n
-----------------------------------------------------------------------------
(* Induction, with a set for the property, and what it gives: bounds of    *)
(* sets of numbers, and the functions that PushAll and CollectAll fold     *)
(* their frames with.                                                      *)

LEMMA Smallest ==
  ASSUME NEW S \in SUBSET Nat, S # {}
  PROVE  \E x \in S : \A y \in S : x <= y
<1>1. \E x \in S : \A y \in S : ~ (<<y, x>> \in OpToRel(<, Nat))
  BY NatLessThanWellFounded, WFMin, Zenon
<1>2. \A x, y \in S : <<y, x>> \in OpToRel(<, Nat) <=> y < x
  BY Zenon DEF OpToRel
<1>3. \E x \in S : \A y \in S : ~ (y < x)
  BY <1>1, <1>2, Zenon
<1> QED BY <1>3

LEMMA Largest ==
  ASSUME NEW S \in SUBSET Nat, S # {}, NEW b \in Nat, \A x \in S : x <= b
  PROVE  \E x \in S : \A y \in S : y <= x
<1> DEFINE T == {y \in Nat : b - y \in S}
<1>1. \A x \in S : b - x \in T /\ b - x \in Nat
  BY DEF T
<1>2. T \in SUBSET Nat /\ T # {}
  BY <1>1
<1>3. PICK y \in T : \A z \in T : y <= z
  BY <1>2, Smallest
<1>4. b - y \in S /\ \A x \in S : x <= b - y
  BY <1>1, <1>2, <1>3
<1> QED BY <1>4

LEMMA Induction ==
  ASSUME NEW S, 0 \in S, \A n \in Nat : n \in S => n + 1 \in S
  PROVE  \A n \in Nat : n \in S
<1> DEFINE Bad == {n \in Nat : n \notin S}
<1>1. SUFFICES ASSUME Bad # {} PROVE FALSE
  OBVIOUS
<1>2. PICK x \in Bad : \A y \in Bad : x <= y
  BY <1>1, Smallest
<1>3. x \in Nat /\ x \notin S /\ x # 0
  OBVIOUS
<1>4. x - 1 \in Nat /\ x - 1 \notin Bad
  BY <1>2, <1>3
<1>5. x - 1 \in S /\ x - 1 + 1 = x
  BY <1>3, <1>4
<1> QED BY <1>3, <1>4, <1>5

LEMMA PushAllIs ==
  ASSUME NEW ring, NEW frames, Len(frames) \in Nat
  PROVE  \E f : /\ f = [n \in 0 .. Len(frames) |->
                         IF n = 0 THEN ring ELSE RingPush(f[n - 1], frames[n])]
                /\ PushAll(ring, frames) = f[Len(frames)]
<1> DEFINE IsFold(f, m) ==
             f = [n \in 0 .. m |-> IF n = 0 THEN ring ELSE RingPush(f[n - 1], frames[n])]
           S == {m \in Nat : \E f : IsFold(f, m)}
<1>1. 0 \in S
  <2> DEFINE f == [n \in 0 .. 0 |-> ring]
  <2>1. IsFold(f, 0)
    OBVIOUS
  <2> QED BY <2>1
<1>2. ASSUME NEW m \in Nat, m \in S PROVE m + 1 \in S
  <2>1. PICK f : IsFold(f, m)
    BY <1>2
  <2> DEFINE g == [n \in 0 .. m + 1 |->
                     IF n = m + 1 THEN RingPush(f[m], frames[m + 1]) ELSE f[n]]
  <2>2. \A n \in 0 .. m : f[n] = IF n = 0 THEN ring ELSE RingPush(f[n - 1], frames[n])
    BY <2>1
  <2>3. ASSUME NEW n \in 0 .. m + 1
        PROVE  g[n] = IF n = 0 THEN ring ELSE RingPush(g[n - 1], frames[n])
    <3>1. CASE n = m + 1
      <4>1. n # 0 /\ n - 1 = m /\ m \in 0 .. m + 1 /\ m # m + 1
        BY <3>1
      <4>2. g[m] = f[m]
        BY <4>1
      <4> QED BY <3>1, <4>1, <4>2
    <3>2. CASE n # m + 1
      <4>1. n \in 0 .. m /\ (n # 0 => n - 1 \in 0 .. m)
        BY <3>2
      <4> QED BY <4>1, <2>2
    <3> QED BY <3>1, <3>2
  <2>4. g = [n \in 0 .. m + 1 |-> g[n]]
    OBVIOUS
  <2> HIDE DEF g
  <2>5. IsFold(g, m + 1)
    BY <2>3, <2>4
  <2> QED BY <2>5
<1>3. Len(frames) \in S
  <2> HIDE DEF S
  <2> QED BY <1>1, <1>2, Induction
<1> DEFINE F == CHOOSE f : f = [n \in 0 .. Len(frames) |->
                                 IF n = 0 THEN ring ELSE RingPush(f[n - 1], frames[n])]
<1>4. \E f : f = [n \in 0 .. Len(frames) |->
                    IF n = 0 THEN ring ELSE RingPush(f[n - 1], frames[n])]
  BY <1>3
<1>5. F = [n \in 0 .. Len(frames) |->
             IF n = 0 THEN ring ELSE RingPush(F[n - 1], frames[n])]
  BY <1>4, Zenon
<1>6. PushAll(ring, frames) = F[Len(frames)]
  BY Zenon DEF PushAll
<1> QED BY <1>5, <1>6, Zenon

(* A run of frames pushed onto an empty ring. *)
LEMMA PushAllFollows ==
  ASSUME WindowSuffices, NEW e \in Nat, NEW frames \in Seq(Nat),
         Run(frames, e + Len(frames)), Len(frames) <= MaxCount
  PROVE  LET p == PushAll(NewRing, frames)
         IN  /\ Follows(p, e) /\ p.count = Len(frames)
             /\ p.advanced = 0 /\ p.retreated = 0
<1>1. Len(frames) \in Nat
  OBVIOUS
<1>2. PICK f : /\ f = [n \in 0 .. Len(frames) |->
                        IF n = 0 THEN NewRing ELSE RingPush(f[n - 1], frames[n])]
               /\ PushAll(NewRing, frames) = f[Len(frames)]
  BY <1>1, PushAllIs
<1> DEFINE Good(n) == /\ Follows(f[n], e) /\ f[n].count = n
                      /\ f[n].advanced = 0 /\ f[n].retreated = 0
           S == {n \in Nat : n <= Len(frames) => Good(n)}
<1>3. 0 \in S
  <2>1. f[0] = NewRing
    BY <1>1, <1>2
  <2> QED BY <2>1, NewFollows
<1>4. ASSUME NEW n \in Nat, n \in S PROVE n + 1 \in S
  <2>1. CASE n + 1 <= Len(frames)
    <3>1. Good(n)
      BY <1>1, <1>4, <2>1
    <3>2. f[n + 1] = RingPush(f[n], frames[n + 1])
      <4>1. n + 1 \in 0 .. Len(frames) /\ n + 1 # 0 /\ n + 1 - 1 = n
        BY <1>1, <2>1
      <4> QED BY <1>2, <4>1
    <3>3. n + 1 \in 1 .. Len(frames)
      BY <1>1, <2>1
    <3>4. frames[n + 1] \in Nat
      BY <3>3
    <3>5. frames[n + 1] = e + Len(frames) - Len(frames) + (n + 1)
      BY <3>3 DEF Run
    <3>6. frames[n + 1] = e + 1 + n
      BY <1>1, <3>5
    <3>7. CanPush(f[n])
      BY <1>1, <2>1, <3>1, Depths DEF CanPush
    <3>8. Good(n + 1)
      BY <3>1, <3>2, <3>4, <3>6, <3>7, PushFollows
    <3> QED BY <3>8
  <2>2. CASE ~(n + 1 <= Len(frames))
    BY <2>2
  <2> QED BY <2>1, <2>2
<1>5. Len(frames) \in S
  <2> HIDE DEF S
  <2> QED BY <1>1, <1>3, <1>4, Induction
<1>6. Good(Len(frames))
  BY <1>1, <1>5
<1> QED BY <1>2, <1>6

LEMMA CollectAllIs ==
  ASSUME NEW t, NEW frames, Len(frames) \in Nat
  PROVE  \E f : /\ f = [n \in 0 .. Len(frames) |->
                         IF n = 0 THEN t.reorder ELSE Collect(t.target, f[n - 1], frames[n])]
                /\ CollectAll(t, frames) = [t EXCEPT !.reorder = f[Len(frames)]]
<1> DEFINE IsFold(f, m) ==
             f = [n \in 0 .. m |->
                   IF n = 0 THEN t.reorder ELSE Collect(t.target, f[n - 1], frames[n])]
           S == {m \in Nat : \E f : IsFold(f, m)}
<1>1. 0 \in S
  <2> DEFINE f == [n \in 0 .. 0 |-> t.reorder]
  <2>1. IsFold(f, 0)
    OBVIOUS
  <2> QED BY <2>1
<1>2. ASSUME NEW m \in Nat, m \in S PROVE m + 1 \in S
  <2>1. PICK f : IsFold(f, m)
    BY <1>2
  <2> DEFINE g == [n \in 0 .. m + 1 |->
                     IF n = m + 1 THEN Collect(t.target, f[m], frames[m + 1]) ELSE f[n]]
  <2>2. \A n \in 0 .. m :
          f[n] = IF n = 0 THEN t.reorder ELSE Collect(t.target, f[n - 1], frames[n])
    BY <2>1
  <2>3. ASSUME NEW n \in 0 .. m + 1
        PROVE  g[n] = IF n = 0 THEN t.reorder ELSE Collect(t.target, g[n - 1], frames[n])
    <3>1. CASE n = m + 1
      <4>1. n # 0 /\ n - 1 = m /\ m \in 0 .. m + 1 /\ m # m + 1
        BY <3>1
      <4>2. g[m] = f[m]
        BY <4>1
      <4> QED BY <3>1, <4>1, <4>2
    <3>2. CASE n # m + 1
      <4>1. n \in 0 .. m /\ (n # 0 => n - 1 \in 0 .. m)
        BY <3>2
      <4> QED BY <4>1, <2>2
    <3> QED BY <3>1, <3>2
  <2>4. g = [n \in 0 .. m + 1 |-> g[n]]
    OBVIOUS
  <2> HIDE DEF g
  <2>5. IsFold(g, m + 1)
    BY <2>3, <2>4
  <2> QED BY <2>5
<1>3. Len(frames) \in S
  <2> HIDE DEF S
  <2> QED BY <1>1, <1>2, Induction
<1> DEFINE F == CHOOSE f : f = [n \in 0 .. Len(frames) |->
                  IF n = 0 THEN t.reorder ELSE Collect(t.target, f[n - 1], frames[n])]
<1>4. \E f : f = [n \in 0 .. Len(frames) |->
                    IF n = 0 THEN t.reorder ELSE Collect(t.target, f[n - 1], frames[n])]
  BY <1>3
<1>5. F = [n \in 0 .. Len(frames) |->
             IF n = 0 THEN t.reorder ELSE Collect(t.target, F[n - 1], frames[n])]
  BY <1>4, Zenon
<1>6. CollectAll(t, frames) = [t EXCEPT !.reorder = F[Len(frames)]]
  BY Zenon DEF CollectAll
<1> QED BY <1>5, <1>6, Zenon
-----------------------------------------------------------------------------
(* The candidate window. *)

(* The frames up to c that are kept of those from start on: all, or, when  *)
(* earlier ones were dropped, from one before the last before the target.  *)
Window(r, c, target, start) ==
  /\ r \in Seq(Nat) /\ Run(r, c)
  /\ Len(r) <= c - start + 1
  /\ \/ Len(r) = c - start + 1
     \/ Len(r) >= 2 /\ Pts(c - Len(r) + 2) < target

LEMMA Sequences ==
  ASSUME NEW s \in Seq(Nat), NEW x \in Nat
  PROVE  /\ Len(s) \in Nat /\ Append(s, x) \in Seq(Nat)
         /\ Len(Append(s, x)) = Len(s) + 1
         /\ \A i \in 1 .. Len(s) : Append(s, x)[i] = s[i]
         /\ Append(s, x)[Len(s) + 1] = x
  OBVIOUS

LEMMA LastOne ==
  ASSUME NEW s, NEW n \in Int, s[n] \in Nat
  PROVE  /\ SubSeq(s, n, n) \in Seq(Nat) /\ Len(SubSeq(s, n, n)) = 1
         /\ SubSeq(s, n, n)[1] = s[n]
<1>1. \A i \in n .. n : s[i] \in Nat
  OBVIOUS
<1>2. /\ SubSeq(s, n, n) \in Seq(Nat)
      /\ Len(SubSeq(s, n, n)) = IF n <= n THEN n - n + 1 ELSE 0
      /\ \A i \in 1 .. n - n + 1 : SubSeq(s, n, n)[i] = s[n + i - 1]
  BY <1>1, SubSeqProperties
<1>3. n <= n /\ n - n + 1 = 1 /\ n + 1 - 1 = n
  OBVIOUS
<1>4. SubSeq(s, n, n)[1] = s[n + 1 - 1]
  BY <1>2, <1>3
<1> QED BY <1>2, <1>3, <1>4

(* A frame more is collected. *)
LEMMA CollectWindow ==
  ASSUME NEW target \in Nat, NEW start \in Nat, start >= 1, NEW c \in Nat, NEW r,
         Window(r, c, target, start), Len(r) < MaxReorder
  PROVE  LET q == Collect(target, r, c + 1)
         IN  /\ Window(q, c + 1, target, start)
             /\ Len(q) \in 1 .. Len(r) + 1
             /\ Pts(c + 1) < target => Len(q) <= 2
<1> DEFINE n == Len(r)
           hasPost == \E i \in DOMAIN r : Pts(r[i]) >= target
           history == IF Pts(c + 1) < target /\ ~hasPost
                      THEN AtMost(r, PreTargetHistory - 1) ELSE r
           q == Append(history, c + 1)
<1>1. /\ r \in Seq(Nat) /\ n \in Nat /\ DOMAIN r = 1 .. n
      /\ \A i \in 1 .. n : r[i] \in Nat /\ r[i] = c - n + i
      /\ n <= c - start + 1
      /\ \/ n = c - start + 1
         \/ n >= 2 /\ 2 * (c - n + 2) < target
  BY DEF Window, Run, Pts
<1>2. MaxReorder \in Nat /\ n < MaxReorder
  BY SeekAssumption
<1>3. /\ history \in Seq(Nat) /\ Len(history) <= n
      /\ \A i \in 1 .. Len(history) : history[i] = c - Len(history) + i
      /\ \/ history = r /\ (Pts(c + 1) < target => n <= 1)
         \/ Len(history) = 1 /\ n >= 2 /\ Pts(c + 1) < target
  <2>1. CASE Pts(c + 1) < target
    <3>1. ~hasPost
      BY <1>1, <2>1 DEF Pts
    <3>2. history = AtMost(r, 1)
      BY <2>1, <3>1 DEF PreTargetHistory
    <3>3. CASE n <= 1
      <4>1. history = r
        BY <1>1, <3>2, <3>3 DEF AtMost
      <4> HIDE DEF history
      <4> QED BY <1>1, <3>3, <4>1
    <3>4. CASE n > 1
      <4>1. history = SubSeq(r, n, n)
        <5>1. n - 1 + 1 = n
          BY <1>1
        <5> QED BY <1>1, <3>2, <3>4, <5>1 DEF AtMost, KeepLast
      <4>3. /\ SubSeq(r, n, n) \in Seq(Nat) /\ Len(SubSeq(r, n, n)) = 1
            /\ SubSeq(r, n, n)[1] = r[n]
        <5>1. n \in Int /\ r[n] \in Nat
          BY <1>1, <3>4
        <5> QED BY <5>1, LastOne
      <4>4. r[n] = c
        BY <1>1, <3>4
      <4>5. history \in Seq(Nat) /\ Len(history) = 1 /\ history[1] = c
        BY <4>1, <4>3, <4>4
      <4> HIDE DEF history, n
      <4>6. \A i \in 1 .. Len(history) : history[i] = c - Len(history) + i
        BY <4>5
      <4>7. Len(history) <= n /\ n >= 2
        BY <1>1, <3>4, <4>5
      <4> QED BY <2>1, <4>5, <4>6, <4>7, Zenon
    <3>5. n <= 1 \/ n > 1
      BY <1>1
    <3> HIDE DEF history, n
    <3> QED BY <3>3, <3>4, <3>5, Zenon
  <2>2. CASE ~(Pts(c + 1) < target)
    <3>1. history = r
      BY <2>2
    <3> QED BY <1>1, <2>2, <3>1
  <2> QED BY <2>1, <2>2
<1> HIDE DEF history, n
<1>4. /\ q \in Seq(Nat) /\ Len(q) = Len(history) + 1 /\ Len(history) \in Nat
      /\ \A i \in 1 .. Len(history) : q[i] = history[i]
      /\ q[Len(history) + 1] = c + 1
  BY <1>3, Sequences
<1> HIDE DEF q
<1>5. Run(q, c + 1)
  <2>1. ASSUME NEW i \in 1 .. Len(q) PROVE q[i] = c + 1 - Len(q) + i
    <3>1. i \in 1 .. Len(history) \/ i = Len(history) + 1
      BY <1>4
    <3>2. CASE i \in 1 .. Len(history)
      BY <1>3, <1>4, <3>2
    <3>3. CASE i = Len(history) + 1
      BY <1>4, <3>3
    <3> QED BY <3>1, <3>2, <3>3
  <2> QED BY <2>1 DEF Run
<1>6. Len(q) \in 1 .. n + 1 /\ (Pts(c + 1) < target => Len(q) <= 2)
  <2>1. CASE history = r /\ (Pts(c + 1) < target => n <= 1)
    <3>1. Len(q) = n + 1 /\ n \in Nat
      BY <1>1, <1>4, <2>1 DEF n
    <3> QED BY <2>1, <3>1
  <2>2. CASE Len(history) = 1 /\ n >= 2 /\ Pts(c + 1) < target
    <3>1. Len(q) = 2 /\ n \in Nat
      BY <1>1, <1>4, <2>2
    <3> QED BY <2>2, <3>1
  <2> QED BY <1>3, <2>1, <2>2
<1>7. Window(q, c + 1, target, start)
  <2>1. CASE history = r /\ (Pts(c + 1) < target => n <= 1)
    <3>1. Len(q) = n + 1 /\ c + 1 - (n + 1) + 2 = c - n + 2
          /\ (n = c - start + 1 => n + 1 = c + 1 - start + 1)
          /\ n + 1 <= c + 1 - start + 1 /\ (n >= 2 => n + 1 >= 2)
      BY <1>1, <1>4, <2>1 DEF n
    <3>2. \/ Len(q) = c + 1 - start + 1
          \/ Len(q) >= 2 /\ Pts(c + 1 - Len(q) + 2) < target
      BY <1>1, <3>1 DEF Pts
    <3>3. Len(q) <= c + 1 - start + 1
      BY <3>1
    <3> QED BY <1>4, <1>5, <3>2, <3>3 DEF Window
  <2>2. CASE Len(history) = 1 /\ n >= 2 /\ Pts(c + 1) < target
    <3>1. Len(q) = 2
      BY <1>4, <2>2
    <3> QED BY <1>1, <1>4, <1>5, <2>2, <3>1 DEF Window, Pts
  <2> QED BY <1>3, <2>1, <2>2
<1>8. Collect(target, r, c + 1) = q
  <2>1. Collect(target, r, c + 1) = AtMost(q, MaxReorder)
    BY DEF Collect, history, q
  <2>2. ~(Len(q) > MaxReorder)
    BY <1>1, <1>2, <1>6
  <2> QED BY <2>1, <2>2 DEF AtMost
<1> QED BY <1>6, <1>7, <1>8 DEF n
-----------------------------------------------------------------------------
(* The choice of the preview. *)

LEMMA Chosen ==
  ASSUME NEW S \in SUBSET Nat, NEW m \in S, NEW x \in S, NEW c \in Nat, NEW n \in Nat, NEW r,
         \A i \in S : r[i] = c - n + i
  PROVE  /\ (\A j \in S : m <= j) => /\ \A j \in S : r[m] <= r[j]
                                     /\ (\A j \in S : r[x] <= r[j]) => x = m
         /\ (\A j \in S : j <= m) => /\ \A j \in S : r[m] >= r[j]
                                     /\ (\A j \in S : r[x] >= r[j]) => x = m
<1>1. r[x] = c - n + x /\ r[m] = c - n + m /\ x \in Nat /\ m \in Nat
  OBVIOUS
<1>2. ASSUME \A j \in S : m <= j
      PROVE  /\ \A j \in S : r[m] <= r[j]
             /\ (\A j \in S : r[x] <= r[j]) => x = m
  BY <1>1, <1>2
<1>3. ASSUME \A j \in S : j <= m
      PROVE  /\ \A j \in S : r[m] >= r[j]
             /\ (\A j \in S : r[x] >= r[j]) => x = m
  BY <1>1, <1>3
<1> QED BY <1>2, <1>3

LEMMA ChosenFrame ==
  ASSUME NEW S \in SUBSET Nat, NEW m \in S
  PROVE  /\ (\A g \in S : m <= g) => (CHOOSE f \in S : \A g \in S : f <= g) = m
         /\ (\A g \in S : m >= g) => (CHOOSE f \in S : \A g \in S : f >= g) = m
<1>1. ASSUME \A g \in S : m <= g PROVE (CHOOSE f \in S : \A g \in S : f <= g) = m
  <2> DEFINE x == CHOOSE f \in S : \A g \in S : f <= g
  <2>1. x \in S /\ \A g \in S : x <= g
    BY <1>1, Zenon
  <2> HIDE DEF x
  <2>2. x = m
    BY <1>1, <2>1
  <2> QED BY <2>2 DEF x
<1>2. ASSUME \A g \in S : m >= g PROVE (CHOOSE f \in S : \A g \in S : f >= g) = m
  <2> DEFINE x == CHOOSE f \in S : \A g \in S : f >= g
  <2>1. x \in S /\ \A g \in S : x >= g
    BY <1>2, Zenon
  <2> HIDE DEF x
  <2>2. x = m
    BY <1>2, <2>1
  <2> QED BY <2>2 DEF x
<1> QED BY <1>1, <1>2

(* What is selected among the frames of the window is what a reader of all *)
(* frames wants, as soon as the window has reached the target or the end   *)
(* of the file; and the predecessor is in the window too.                  *)
LEMMA SelectExact ==
  ASSUME NEW t, NEW c \in Nat, c <= LastFrame,
         goal.target \in Nat, goal.start \in Nat, goal.start >= 1,
         t.target = goal.target, t.preferAfter = goal.preferAfter,
         Window(t.reorder, c, goal.target, goal.start), t.reorder # <<>>,
         Pts(c) >= goal.target \/ c = LastFrame
  PROVE  LET k == SelectPreview(t)
         IN  /\ k \in 1 .. Len(t.reorder) /\ t.reorder[k] = Wanted
             /\ Wanted > goal.start => k > 1
<1> DEFINE r == t.reorder
           n == Len(r)
           T == goal.target
           s == goal.start
           before == {i \in DOMAIN r : Pts(r[i]) <= T}
           after == {i \in DOMAIN r : Pts(r[i]) >= T}
           decoded == s .. LastFrame
           Before == {f \in decoded : Pts(f) <= T}
           After == {f \in decoded : Pts(f) >= T}
<1>1. /\ n \in Nat /\ n >= 1 /\ DOMAIN r = 1 .. n /\ LastFrame \in Nat
      /\ T \in Nat /\ s \in Nat /\ s >= 1
      /\ \A i \in 1 .. n : r[i] = c - n + i
      /\ n <= c - s + 1
      /\ \/ n = c - s + 1
         \/ n >= 2 /\ 2 * (c - n + 2) < T
      /\ 2 * c >= T \/ c = LastFrame
  <2>1. /\ n \in Nat /\ DOMAIN r = 1 .. n /\ (n = 0 => r = <<>>)
        /\ \A i \in 1 .. n : r[i] = c - n + i
    <3>1. r \in Seq(Nat) /\ Run(r, c)
      BY DEF Window
    <3>2. n \in Nat /\ DOMAIN r = 1 .. n
      BY <3>1
    <3>3. n = 0 => r = <<>>
      BY <3>1, EmptySeq
    <3>4. \A i \in 1 .. n : r[i] = c - n + i
      BY <3>1, Zenon DEF Run
    <3> QED BY <3>2, <3>3, <3>4
  <2>2. n >= 1
    BY <2>1
  <2>3. n <= c - s + 1 /\ (n = c - s + 1 \/ (n >= 2 /\ 2 * (c - n + 2) < T))
    BY DEF Window, Pts
  <2>4. 2 * c >= T \/ c = LastFrame
    BY DEF Pts
  <2>5. LastFrame \in Nat /\ T \in Nat /\ s \in Nat /\ s >= 1
    BY SeekAssumption
  <2> HIDE DEF r, n, T, s
  <2> QED BY <2>1, <2>2, <2>3, <2>4, <2>5
<1>2. /\ \A i \in 1 .. n : i \in before <=> 2 * (c - n + i) <= T
      /\ \A i \in 1 .. n : i \in after <=> 2 * (c - n + i) >= T
      /\ before \subseteq 1 .. n /\ after \subseteq 1 .. n
      /\ \A f \in s .. LastFrame : f \in Before <=> 2 * f <= T
      /\ \A f \in s .. LastFrame : f \in After <=> 2 * f >= T
      /\ Before \subseteq s .. LastFrame /\ After \subseteq s .. LastFrame
  BY <1>1 DEF Pts
<1>4. SelectPreview(t) =
        IF goal.preferAfter /\ after # {} THEN CHOOSE i \in after : \A j \in after : r[i] <= r[j]
        ELSE IF before # {} THEN CHOOSE i \in before : \A j \in before : r[i] >= r[j]
        ELSE 1
  BY DEF SelectPreview
<1>5. Wanted =
        IF goal.preferAfter
        THEN IF After # {} THEN CHOOSE f \in After : \A g \in After : f <= g ELSE LastFrame
        ELSE IF Before # {} THEN CHOOSE f \in Before : \A g \in Before : f >= g ELSE s
  BY DEF Wanted
<1> HIDE DEF r, n, T, s, before, after, decoded, Before, After
<1>3. /\ before \in SUBSET Nat /\ after \in SUBSET Nat
      /\ Before \in SUBSET Nat /\ After \in SUBSET Nat
  <2>1. 1 .. n \subseteq Nat /\ s .. LastFrame \subseteq Nat
    BY <1>1
  <2> QED BY <1>2, <2>1
<1>10. /\ n \in Nat /\ s \in Nat /\ LastFrame \in Nat /\ n <= c - s + 1 /\ c \in Nat
       /\ c <= LastFrame
  BY <1>1
<1>6. CASE goal.preferAfter /\ after # {}
  <2>1. PICK m \in after : \A j \in after : m <= j
    BY <1>3, <1>6, Smallest
  <2>2. SelectPreview(t) = m
    <3>1. \A i \in after : r[i] = c - n + i
      <4>1. \A i \in 1 .. n : r[i] = c - n + i
        BY <1>1
      <4>2. after \subseteq 1 .. n
        BY <1>2
      <4> QED BY <4>1, <4>2, Zenon
    <3> DEFINE x == CHOOSE i \in after : \A j \in after : r[i] <= r[j]
    <3>3. \A j \in after : r[m] <= r[j]
      BY <1>3, <1>10, <2>1, <3>1, Chosen
    <3>4. x \in after /\ \A j \in after : r[x] <= r[j]
      BY <2>1, <3>3, Zenon
    <3> HIDE DEF x
    <3>5. x = m
      BY <1>3, <1>10, <2>1, <3>1, <3>4, Chosen
    <3>2. (CHOOSE i \in after : \A j \in after : r[i] <= r[j]) = m
      BY <3>5 DEF x
    <3> QED BY <1>4, <1>6, <3>2, Zenon
  <2>3. m \in 1 .. n /\ r[m] = c - n + m /\ 2 * (c - n + m) >= T
    <3>1. m \in 1 .. n
      BY <1>2, <2>1
    <3>2. m \in after <=> 2 * (c - n + m) >= T
      BY <1>2, <3>1, Zenon
    <3>3. r[m] = c - n + m
      BY <1>1, <3>1, Zenon
    <3> QED BY <2>1, <3>1, <3>2, <3>3, Zenon
  <2>4. c - n + m \in After /\ \A g \in After : c - n + m <= g
    <3>1. c - n + m \in s .. LastFrame
      <4>1. m \in 1 .. n
        BY <2>3
      <4> QED BY <1>10, <4>1
    <3>2. ASSUME NEW g \in After PROVE c - n + m <= g
      <4>1. g \in s .. LastFrame /\ 2 * g >= T
        BY <1>2
      <4>2. g > c - n
        BY <1>1, <4>1
      <4>3. CASE g <= c
        <5>1. g - (c - n) \in 1 .. n /\ c - n + (g - (c - n)) = g
          BY <1>10, <4>1, <4>2, <4>3
        <5>2. g - (c - n) \in after
          BY <1>2, <4>1, <5>1
        <5> QED BY <1>1, <2>1, <2>3, <4>1, <5>1, <5>2
      <4>4. CASE g > c
        BY <1>1, <2>3, <4>1, <4>4
      <4> QED BY <1>1, <4>1, <4>3, <4>4
    <3> QED BY <1>2, <2>3, <3>1, <3>2
  <2>5. Wanted = c - n + m
    <3>1. (CHOOSE f \in After : \A g \in After : f <= g) = c - n + m
      BY <1>3, <2>4, ChosenFrame
    <3> QED BY <1>5, <1>6, <2>4, <3>1, Zenon
  <2>6. c - n + m > s => m > 1
    <3>1. m \in 1 .. n /\ (n = c - s + 1 \/ (n >= 2 /\ 2 * (c - n + 2) < T))
      BY <1>1, <2>3, Zenon
    <3>2. 2 * (c - n + m) >= T /\ T \in Nat
      BY <1>1, <2>3
    <3> QED BY <1>10, <3>1, <3>2
  <2> QED BY <2>2, <2>3, <2>5, <2>6 DEF r, n, s
<1>7. CASE goal.preferAfter /\ after = {}
  <2>1. 2 * c < T /\ c = LastFrame
    <3>1. n \in 1 .. n /\ c - n + n = c
      BY <1>1
    <3>2. ~(2 * c >= T)
      BY <1>2, <1>7, <3>1
    <3> QED BY <1>1, <3>2
  <2>2. n \in before /\ \A j \in before : j <= n
    <3>1. n \in 1 .. n /\ c - n + n = c /\ 2 * c <= T
      BY <1>1, <2>1
    <3> QED BY <1>1, <1>2, <3>1
  <2>3. SelectPreview(t) = n
    <3>1. \A i \in before : r[i] = c - n + i
      <4>1. \A i \in 1 .. n : r[i] = c - n + i
        BY <1>1
      <4>2. before \subseteq 1 .. n
        BY <1>2
      <4> QED BY <4>1, <4>2, Zenon
    <3> DEFINE x == CHOOSE i \in before : \A j \in before : r[i] >= r[j]
    <3>3. \A j \in before : r[n] >= r[j]
      BY <1>3, <1>10, <2>2, <3>1, Chosen
    <3>4. x \in before /\ \A j \in before : r[x] >= r[j]
      BY <2>2, <3>3, Zenon
    <3> HIDE DEF x
    <3>5. x = n
      <4>1. before \in SUBSET Nat /\ n \in Nat
        BY <1>3, <1>10
      <4> QED BY <2>2, <3>1, <3>4, <4>1, Chosen
    <3>2. (CHOOSE i \in before : \A j \in before : r[i] >= r[j]) = n
      BY <3>5 DEF x
    <3> QED BY <1>4, <1>7, <2>2, <3>2, Zenon
  <2>4. After = {}
    <3>1. ASSUME NEW g \in After PROVE FALSE
      <4>1. g \in s .. LastFrame /\ 2 * g >= T
        BY <1>2
      <4> QED BY <1>1, <2>1, <4>1
    <3> QED BY <3>1
  <2>5. Wanted = c
    BY <1>5, <1>7, <2>1, <2>4, Zenon
  <2>6. r[n] = c /\ n \in 1 .. n /\ (c > s => n > 1)
    <3>1. /\ n >= 1 /\ (n = c - s + 1 \/ n >= 2)
          /\ \A i \in 1 .. n : r[i] = c - n + i
      BY <1>1, Zenon
    <3>2. n \in 1 .. n /\ c - n + n = c
      BY <1>10, <3>1
    <3>3. r[n] = c - n + n
      BY <3>1, <3>2, Zenon
    <3>4. c > s => n > 1
      BY <1>10, <3>1
    <3> QED BY <3>2, <3>3, <3>4
  <2> QED BY <2>3, <2>5, <2>6 DEF r, n, s
<1>8. CASE ~goal.preferAfter /\ before # {}
  <2>1. PICK m \in before : \A j \in before : j <= m
    <3>1. \A j \in before : j <= n
      BY <1>1, <1>2
    <3> QED BY <1>1, <1>3, <1>8, <3>1, Largest, Zenon
  <2>2. SelectPreview(t) = m
    <3>1. \A i \in before : r[i] = c - n + i
      <4>1. \A i \in 1 .. n : r[i] = c - n + i
        BY <1>1
      <4>2. before \subseteq 1 .. n
        BY <1>2
      <4> QED BY <4>1, <4>2, Zenon
    <3> DEFINE x == CHOOSE i \in before : \A j \in before : r[i] >= r[j]
    <3>3. \A j \in before : r[m] >= r[j]
      BY <1>3, <1>10, <2>1, <3>1, Chosen
    <3>4. x \in before /\ \A j \in before : r[x] >= r[j]
      BY <2>1, <3>3, Zenon
    <3> HIDE DEF x
    <3>5. x = m
      BY <1>3, <1>10, <2>1, <3>1, <3>4, Chosen
    <3>2. (CHOOSE i \in before : \A j \in before : r[i] >= r[j]) = m
      BY <3>5 DEF x
    <3> QED BY <1>4, <1>8, <3>2, Zenon
  <2>3. m \in 1 .. n /\ r[m] = c - n + m /\ 2 * (c - n + m) <= T
    <3>1. m \in 1 .. n
      BY <1>2, <2>1
    <3>2. m \in before <=> 2 * (c - n + m) <= T
      BY <1>2, <3>1, Zenon
    <3>3. r[m] = c - n + m
      BY <1>1, <3>1, Zenon
    <3> QED BY <2>1, <3>1, <3>2, <3>3, Zenon
  <2>4. c - n + m \in Before /\ \A g \in Before : c - n + m >= g
    <3>1. c - n + m \in s .. LastFrame
      <4>1. m \in 1 .. n
        BY <2>3
      <4> QED BY <1>10, <4>1
    <3>2. ASSUME NEW g \in Before PROVE c - n + m >= g
      <4>1. g \in s .. LastFrame /\ 2 * g <= T
        BY <1>2
      <4>2. g <= c
        BY <1>1, <4>1
      <4>3. CASE g > c - n
        <5>1. g - (c - n) \in 1 .. n /\ c - n + (g - (c - n)) = g
          BY <1>10, <4>1, <4>2, <4>3
        <5>2. g - (c - n) \in before
          BY <1>2, <4>1, <5>1
        <5> QED BY <1>1, <2>1, <2>3, <4>1, <5>1, <5>2
      <4>4. CASE g <= c - n
        BY <1>1, <2>3, <4>1, <4>4
      <4> QED BY <1>1, <4>1, <4>3, <4>4
    <3> QED BY <1>2, <2>3, <3>1, <3>2
  <2>5. Wanted = c - n + m
    <3>1. (CHOOSE f \in Before : \A g \in Before : f >= g) = c - n + m
      BY <1>3, <2>4, ChosenFrame
    <3> QED BY <1>5, <1>8, <2>4, <3>1, Zenon
  <2>6. ASSUME c - n + m > s PROVE m > 1
    <3>1. SUFFICES ASSUME m = 1 PROVE FALSE
      BY <2>3
    <3>2. n >= 2 /\ 2 * (c - n + 2) < T /\ 2 \in 1 .. n
      BY <1>1, <2>3, <2>6, <3>1
    <3>3. 2 \in before
      BY <1>1, <1>2, <3>2
    <3> QED BY <2>1, <3>1, <3>3
  <2> QED BY <2>2, <2>3, <2>5, <2>6 DEF r, n, s
<1>9. CASE ~goal.preferAfter /\ before = {}
  <2>1. 2 * (c - n + 1) > T
    <3>1. 1 \in 1 .. n
      BY <1>1
    <3> QED BY <1>1, <1>2, <1>9, <3>1
  <2>2. n = c - s + 1 /\ r[1] = s
    BY <1>1, <2>1
  <2>3. Before = {}
    <3>1. ASSUME NEW g \in Before PROVE FALSE
      <4>1. g \in s .. LastFrame /\ 2 * g <= T
        BY <1>2
      <4> QED BY <1>1, <2>1, <2>2, <4>1
    <3> QED BY <3>1
  <2>4. Wanted = s /\ SelectPreview(t) = 1
    BY <1>4, <1>5, <1>9, <2>3, Zenon
  <2>5. 1 \in 1 .. n /\ ~(s > s)
    BY <1>1
  <2> QED BY <2>2, <2>4, <2>5 DEF r, n, s
<1> QED BY <1>6, <1>7, <1>8, <1>9
-----------------------------------------------------------------------------
(* Publishing. *)

TrackType ==
  [target : Nat \union {NoTarget}, preferAfter : BOOLEAN, reorder : Seq(Nat),
   pending : Seq(Nat), drainRequest : BOOLEAN, postSeek : BOOLEAN,
   state : {"Buffering", "Ready"}, paused : BOOLEAN, ring : RingType]

LEMMA CompletedFields ==
  ASSUME playing \in BOOLEAN, NEW t \in TrackType, NEW p, p = Completed(t)
  PROVE  /\ p \in TrackType
         /\ p.target = NoTarget /\ p.state = "Ready" /\ ~p.postSeek /\ p.drainRequest
         /\ p.ring = t.ring /\ p.pending = t.pending
<1>1. (t.paused \/ ~playing) \in BOOLEAN
  BY DEF TrackType
<1> QED BY <1>1 DEF Completed, TrackType, NoTarget

(* The preview is the frame at the cursor, its predecessor the one behind, *)
(* and what follows is in the ring and then pending.                       *)
Published(p, c) ==
  /\ p \in TrackType
  /\ p.target = NoTarget /\ p.state = "Ready" /\ ~p.postSeek /\ p.drainRequest
  /\ Follows(p.ring, Wanted - 1) /\ p.ring.count > 0 /\ Wanted \in Nat
  /\ Run(p.pending, c)
  /\ Wanted - 1 + p.ring.count + Len(p.pending) = c
  /\ Wanted > goal.start => p.ring.advanced > 0 /\ p.ring.retreated = 0

LEMMA PublishExact ==
  ASSUME WindowSuffices, playing \in BOOLEAN, NEW t \in TrackType, NEW c \in Nat, c <= LastFrame,
         goal.target \in Nat, goal.start \in Nat, goal.start >= 1,
         t.target = goal.target, t.preferAfter = goal.preferAfter, t.ring = NewRing,
         Window(t.reorder, c, goal.target, goal.start), t.reorder # <<>>,
         Pts(c) >= goal.target \/ c = LastFrame
  PROVE  Published(PublishBest(t), c)
<1> DEFINE r == t.reorder
           n == Len(r)
           k == SelectPreview(t)
           free == FreeSlots(t.ring)
           h == IF k > 1 /\ free > 1 THEN 1 ELSE 0
           start == k - h
           end == Lesser(n, start - 1 + Lesser(PreviewWindow + h, free))
           frames == SubSeq(r, start, end)
           e == c - n + start - 1
           pushed == PushAll(t.ring, frames)
           ring == IF h = 1 THEN RingAdvance(pushed) ELSE pushed
           pend == SubSeq(r, end + 1, n)
           p == PublishBest(t)
<1>1. /\ r \in Seq(Nat) /\ n \in Nat
      /\ \A i \in 1 .. n : r[i] \in Nat /\ r[i] = c - n + i
      /\ n <= c - goal.start + 1
  <2>1. r \in Seq(Nat) /\ Run(r, c) /\ n <= c - goal.start + 1
    BY DEF Window
  <2>2. n \in Nat /\ \A i \in 1 .. n : r[i] \in Nat
    BY <2>1
  <2> QED BY <2>1, <2>2 DEF Run
<1>2. k \in 1 .. n /\ r[k] = Wanted /\ (Wanted > goal.start => k > 1)
  BY SelectExact
<1>3. free = MaxCount /\ MaxCount \in Nat /\ MaxCount > 1
  BY NewFollows, Depths DEF FreeSlots
<1>4. p = Completed([t EXCEPT !.ring = ring, !.pending = pend, !.reorder = <<>>])
  <2>1. t.target # NoTarget
    BY DEF NoTarget
  <2>2. free # 0
    BY <1>3
  <2> HIDE DEF Completed, NoTarget
  <2>3. p = PublishWindow(t, k)
    BY <2>1, <2>2 DEF PublishBest
  <2>4. PublishWindow(t, k) =
          Completed([t EXCEPT !.ring = ring, !.pending = pend, !.reorder = <<>>])
    BY Zenon DEF PublishWindow
  <2> QED BY <2>3, <2>4, Zenon
<1> HIDE DEF r, n, k, free, p
<1>5. /\ h \in {0, 1} /\ start \in 1 .. n /\ (h = 1 <=> k > 1) /\ start + h = k
      /\ end \in start + h .. n /\ end - start + 1 <= MaxCount
      /\ e \in Nat
  <2>1. k \in Nat /\ k >= 1 /\ k <= n /\ n \in Nat
    BY <1>1, <1>2
  <2>2. h \in {0, 1} /\ start \in 1 .. n /\ (h = 1 <=> k > 1) /\ start + h = k
    BY <1>3, <2>1
  <2> HIDE DEF h, start
  <2>3. end \in start + h .. n /\ end - start + 1 <= MaxCount
    <3> DEFINE w == Lesser(PreviewWindow + h, free)
    <3>1. w \in Nat /\ w >= h + 1 /\ w <= MaxCount
      BY <1>3, <2>2 DEF Lesser, PreviewWindow
    <3> HIDE DEF w
    <3>2. Lesser(n, start - 1 + w) \in start + h .. n
      BY <2>1, <2>2, <3>1 DEF Lesser
    <3>3. Lesser(n, start - 1 + w) - start + 1 <= MaxCount
      BY <1>3, <2>1, <2>2, <3>1 DEF Lesser
    <3> QED BY <3>2, <3>3 DEF w
  <2>4. e \in Nat
    BY <1>1, <2>1, <2>2
  <2> QED BY <2>2, <2>3, <2>4
<1> HIDE DEF h, start, end
<1>6. /\ frames \in Seq(Nat) /\ Len(frames) = end - start + 1
      /\ Run(frames, e + Len(frames))
  <2>1. start \in Int /\ end \in Int /\ start <= end /\ start >= 1 /\ end <= n
    BY <1>1, <1>5
  <2>2. \A i \in start .. end : r[i] \in Nat
    BY <1>1, <2>1
  <2>3. /\ frames \in Seq(Nat) /\ Len(frames) = end - start + 1
        /\ \A i \in 1 .. end - start + 1 : frames[i] = r[start + i - 1]
    BY <2>1, <2>2, SubSeqProperties
  <2> HIDE DEF frames
  <2>4. ASSUME NEW i \in 1 .. Len(frames)
        PROVE  frames[i] = e + Len(frames) - Len(frames) + i
    <3>1. i \in 1 .. end - start + 1 /\ Len(frames) \in Nat /\ n \in Nat
      BY <1>1, <2>3
    <3>2. start + i - 1 \in 1 .. n
      BY <2>1, <3>1
    <3>3. frames[i] = c - n + (start + i - 1)
      BY <1>1, <2>3, <3>1, <3>2
    <3> QED BY <2>1, <3>1, <3>3
  <2>5. Run(frames, e + Len(frames))
    <3>1. e \in Nat /\ Len(frames) \in Nat
      BY <1>5, <2>3
    <3> HIDE DEF e
    <3> QED BY <2>4, <3>1 DEF Run
  <2> QED BY <2>3, <2>5
<1> HIDE DEF frames
<1>7. /\ Follows(pushed, e) /\ pushed.count = Len(frames)
      /\ pushed.advanced = 0 /\ pushed.retreated = 0
  BY <1>5, <1>6, PushAllFollows
<1> HIDE DEF pushed
<1>8. /\ Follows(ring, Wanted - 1) /\ ring.count = Len(frames) - h /\ ring.count > 0
      /\ (k > 1 => ring.advanced > 0 /\ ring.retreated = 0)
      /\ Wanted \in Nat /\ Wanted - 1 = e + h
  <2>1. Wanted = c - n + k /\ Wanted \in Nat
    BY <1>1, <1>2
  <2>2. Wanted - 1 = e + h
    <3>1. n \in Int /\ start \in Int /\ h \in Int /\ start + h = k
      BY <1>1, <1>5
    <3>2. c - n + (start + h) - 1 = (c - n + start - 1) + h
      BY <3>1
    <3> QED BY <2>1, <3>1, <3>2
  <2>3. CASE h = 1
    <3>1. Len(frames) > 1
      BY <1>1, <1>5, <1>6, <2>3
    <3>2. /\ Follows(RingAdvance(pushed), e + 1)
          /\ RingAdvance(pushed).count = pushed.count - 1
          /\ RingAdvance(pushed).advanced = pushed.advanced + 1
          /\ RingAdvance(pushed).retreated = 0
      <4>1. pushed.count > 0 /\ e \in Int /\ Follows(pushed, e)
        BY <1>5, <1>7, <3>1
      <4> HIDE DEF e
      <4> QED BY <4>1, AdvanceFollows
    <3>3. ring = RingAdvance(pushed)
      BY <2>3
    <3> HIDE DEF ring
    <3>4. pushed.count = Len(frames) /\ pushed.advanced = 0 /\ Wanted - 1 = e + 1
      BY <1>7, <2>2, <2>3
    <3>5. /\ Follows(ring, Wanted - 1) /\ ring.count = Len(frames) - 1
          /\ ring.advanced = 1 /\ ring.retreated = 0
      BY <3>2, <3>3, <3>4
    <3>6. Len(frames) \in Nat
      BY <1>6
    <3> QED BY <2>1, <2>2, <2>3, <3>1, <3>5, <3>6
  <2>4. CASE h = 0
    <3>1. ring = pushed /\ ~(k > 1)
      BY <1>5, <2>4
    <3>2. Len(frames) > 0 /\ Wanted - 1 = e
      BY <1>1, <1>5, <1>6, <2>2, <2>4
    <3> HIDE DEF ring
    <3> QED BY <1>6, <1>7, <2>1, <2>2, <2>4, <3>1, <3>2
  <2> QED BY <1>5, <2>3, <2>4
<1> HIDE DEF ring
<1>9. pend \in Seq(Nat) /\ Len(pend) = n - end /\ Run(pend, c)
  <2>1. end + 1 \in Int /\ n \in Int /\ end \in Nat /\ end <= n /\ end >= 1
    BY <1>1, <1>5
  <2>2. \A i \in end + 1 .. n : r[i] \in Nat
    BY <1>1, <2>1
  <2>3. /\ pend \in Seq(Nat)
        /\ Len(pend) = IF end + 1 <= n THEN n - (end + 1) + 1 ELSE 0
        /\ \A i \in 1 .. n - (end + 1) + 1 : pend[i] = r[end + 1 + i - 1]
    BY <2>1, <2>2, SubSeqProperties
  <2> HIDE DEF pend
  <2>4. Len(pend) = n - end
    BY <2>1, <2>3
  <2>5. ASSUME NEW i \in 1 .. Len(pend) PROVE pend[i] = c - Len(pend) + i
    <3>1. end + 1 + i - 1 \in 1 .. n /\ i \in 1 .. n - (end + 1) + 1
      BY <2>1, <2>4
    <3>2. pend[i] = c - n + (end + 1 + i - 1)
      BY <1>1, <2>3, <3>1
    <3> QED BY <2>1, <2>4, <3>2
  <2> QED BY <2>3, <2>4, <2>5 DEF Run
<1> HIDE DEF pend
<1>10. ring \in RingType
  BY <1>8 DEF Follows
<1>11. /\ p \in TrackType
       /\ p.target = NoTarget /\ p.state = "Ready" /\ ~p.postSeek /\ p.drainRequest
       /\ p.ring = ring /\ p.pending = pend
  <2> DEFINE q == [t EXCEPT !.ring = ring, !.pending = pend, !.reorder = <<>>]
  <2>2. p = Completed(q) /\ q = [t EXCEPT !.ring = ring, !.pending = pend, !.reorder = <<>>]
    BY <1>4
  <2> HIDE DEF q
  <2>3. <<>> \in Seq(Nat)
    OBVIOUS
  <2>1. q \in TrackType /\ q.ring = ring /\ q.pending = pend
    BY <1>9, <1>10, <2>2, <2>3 DEF TrackType
  <2> QED BY <2>1, <2>2, CompletedFields
<1>12. Wanted - 1 + ring.count + Len(pend) = c
  BY <1>1, <1>5, <1>6, <1>8, <1>9
<1>13. Wanted > goal.start => ring.advanced > 0 /\ ring.retreated = 0
  BY <1>2, <1>8
<1>14. Published(p, c)
  BY <1>8, <1>9, <1>11, <1>12, <1>13 DEF Published
<1> QED BY <1>14 DEF p

LEMMA CollectAllWindow ==
  ASSUME WindowSuffices, NEW t, t.target \in Nat, NEW start \in Nat, start >= 1,
         NEW c \in Nat, NEW frames \in Seq(Nat), Run(frames, c + Len(frames)),
         Window(t.reorder, c, t.target, start), Len(t.reorder) + Len(frames) <= MaxReorder
  PROVE  \E r : /\ CollectAll(t, frames) = [t EXCEPT !.reorder = r]
                /\ Window(r, c + Len(frames), t.target, start)
                /\ Len(t.reorder) + Len(frames) > 0 => r # <<>>
<1>1. Len(frames) \in Nat
  OBVIOUS
<1>2. PICK f : /\ f = [n \in 0 .. Len(frames) |->
                        IF n = 0 THEN t.reorder ELSE Collect(t.target, f[n - 1], frames[n])]
               /\ CollectAll(t, frames) = [t EXCEPT !.reorder = f[Len(frames)]]
  BY <1>1, CollectAllIs
<1> DEFINE l == Len(t.reorder)
           Good(n) == /\ Window(f[n], c + n, t.target, start)
                      /\ Len(f[n]) <= l + n
                      /\ l + n > 0 => f[n] # <<>>
           S == {n \in Nat : n <= Len(frames) => Good(n)}
<1>3. l \in Nat /\ (l > 0 => t.reorder # <<>>) /\ MaxReorder \in Nat
  BY SeekAssumption DEF Window
<1>4. 0 \in S
  <2>1. f[0] = t.reorder
    BY <1>1, <1>2
  <2>2. c + 0 = c /\ l + 0 = l
    BY <1>3
  <2> QED BY <1>3, <2>1, <2>2
<1>5. ASSUME NEW n \in Nat, n \in S PROVE n + 1 \in S
  <2>1. CASE n + 1 <= Len(frames)
    <3>1. Good(n)
      BY <1>1, <1>5, <2>1
    <3>2. f[n + 1] = Collect(t.target, f[n], frames[n + 1])
      <4>1. n + 1 \in 0 .. Len(frames) /\ n + 1 # 0 /\ n + 1 - 1 = n
        BY <1>1, <2>1
      <4>2. \A k \in 0 .. Len(frames) :
              f[k] = IF k = 0 THEN t.reorder ELSE Collect(t.target, f[k - 1], frames[k])
        BY <1>2
      <4> DEFINE m == n + 1
      <4>3. m \in 0 .. Len(frames) /\ m # 0 /\ m - 1 = n
        BY <4>1
      <4> HIDE DEF m
      <4>4. f[m] = Collect(t.target, f[n], frames[m])
        BY <4>2, <4>3
      <4> QED BY <4>4 DEF m
    <3>3. n + 1 \in 1 .. Len(frames)
      BY <1>1, <2>1
    <3>4. frames[n + 1] = c + n + 1
      <4>1. frames[n + 1] = c + Len(frames) - Len(frames) + (n + 1)
        BY <3>3 DEF Run
      <4> QED BY <1>1, <4>1
    <3>5. Len(f[n]) < MaxReorder
      <4>1. Len(f[n]) \in Nat /\ Len(f[n]) <= l + n
        BY <3>1 DEF Window
      <4>2. l + Len(frames) <= MaxReorder
        OBVIOUS
      <4> HIDE DEF l
      <4> QED BY <1>1, <1>3, <2>1, <4>1, <4>2
    <3> HIDE DEF l
    <3>6. /\ Window(f[n + 1], c + n + 1, t.target, start)
          /\ Len(f[n + 1]) \in 1 .. Len(f[n]) + 1
      <4>1. c + n \in Nat
        OBVIOUS
      <4> QED BY <3>1, <3>2, <3>4, <3>5, <4>1, CollectWindow
    <3>7. Good(n + 1)
      <4>1. Len(f[n]) \in Nat /\ Len(f[n]) <= l + n
        BY <3>1 DEF Window
      <4>2. Len(f[n + 1]) <= l + (n + 1) /\ c + (n + 1) = c + n + 1 /\ Len(f[n + 1]) >= 1
        <5> DEFINE j == Len(f[n])
                   k == Len(f[n + 1])
        <5>1. j \in Nat /\ j <= l + n /\ k \in 1 .. j + 1 /\ l \in Nat
          BY <1>3, <3>6, <4>1, Zenon
        <5> HIDE DEF j, k
        <5>2. k <= l + (n + 1) /\ k >= 1
          BY <5>1
        <5>3. c + (n + 1) = c + n + 1
          OBVIOUS
        <5> QED BY <5>2, <5>3 DEF k
      <4>3. f[n + 1] # <<>>
        BY <4>2
      <4> QED BY <3>6, <4>2, <4>3
    <3> QED BY <3>7
  <2>2. CASE ~(n + 1 <= Len(frames))
    BY <2>2
  <2> QED BY <2>1, <2>2
<1>6. Len(frames) \in S
  <2> HIDE DEF S
  <2> QED BY <1>1, <1>4, <1>5, Induction
<1>7. Good(Len(frames))
  BY <1>1, <1>6
<1> QED BY <1>2, <1>7
-----------------------------------------------------------------------------
(* Runs. *)

LEMMA EmptyRun ==
  ASSUME NEW f
  PROVE  Run(<<>>, f) /\ <<>> \in Seq(Nat) /\ Len(<<>>) = 0
BY DEF Run

LEMMA ShortRun ==
  ASSUME NEW f \in Int
  PROVE  Run(<<f>>, f)
<1>1. Len(<<f>>) = 1 /\ <<f>>[1] = f
  OBVIOUS
<1> QED BY <1>1 DEF Run

LEMMA EndOfRun ==
  ASSUME NEW s, Len(s) \in Nat, Len(s) >= 1, NEW last \in Int, Run(s, last)
  PROVE  s[Len(s)] = last
<1>1. \A i \in 1 .. Len(s) : s[i] = last - Len(s) + i
  BY DEF Run
<1>2. Len(s) \in 1 .. Len(s) /\ last - Len(s) + Len(s) = last
  OBVIOUS
<1> QED BY <1>1, <1>2

LEMMA GiveRun ==
  ASSUME NEW s \in Seq(Nat), s # <<>>, NEW last \in Int, Run(s, last)
  PROVE  /\ Head(s) \in Nat /\ Head(s) = last - Len(s) + 1
         /\ Tail(s) \in Seq(Nat) /\ Len(Tail(s)) = Len(s) - 1 /\ Len(s) \in Nat
         /\ Run(Tail(s), last)
<1>1. /\ Len(s) \in Nat /\ Len(s) >= 1 /\ Head(s) = s[1] /\ Head(s) \in Nat
      /\ Tail(s) \in Seq(Nat) /\ Len(Tail(s)) = Len(s) - 1
      /\ \A i \in 1 .. Len(s) - 1 : Tail(s)[i] = s[i + 1]
  OBVIOUS
<1>2. \A i \in 1 .. Len(s) : s[i] = last - Len(s) + i
  BY DEF Run
<1>3. Head(s) = last - Len(s) + 1
  BY <1>1, <1>2
<1> DEFINE t == Tail(s)
           l == Len(s)
<1> HIDE DEF t, l
<1>4. ASSUME NEW i \in 1 .. Len(t) PROVE t[i] = last - Len(t) + i
  <2>1. i \in 1 .. l - 1 /\ i + 1 \in 1 .. l /\ Len(t) = l - 1 /\ l \in Nat
    BY <1>1 DEF t, l
  <2>2. t[i] = s[i + 1]
    BY <1>1, <2>1 DEF t, l
  <2>3. s[i + 1] = last - l + (i + 1)
    BY <1>2, <2>1 DEF l
  <2> QED BY <2>1, <2>2, <2>3
<1> QED BY <1>1, <1>3, <1>4 DEF Run, t

LEMMA AppendRun ==
  ASSUME NEW s \in Seq(Nat), NEW last \in Nat, Run(s, last)
  PROVE  /\ Append(s, last + 1) \in Seq(Nat) /\ Len(Append(s, last + 1)) = Len(s) + 1
         /\ Len(s) \in Nat /\ Run(Append(s, last + 1), last + 1)
<1> DEFINE t == Append(s, last + 1)
<1>1. /\ Len(s) \in Nat /\ t \in Seq(Nat) /\ Len(t) = Len(s) + 1
      /\ \A i \in 1 .. Len(s) : t[i] = s[i]
      /\ t[Len(s) + 1] = last + 1
  BY Sequences
<1> HIDE DEF t
<1>2. ASSUME NEW i \in 1 .. Len(t) PROVE t[i] = last + 1 - Len(t) + i
  <2>1. CASE i \in 1 .. Len(s)
    <3>1. t[i] = s[i] /\ s[i] = last - Len(s) + i
      BY <1>1, <2>1 DEF Run
    <3> QED BY <1>1, <3>1
  <2>2. CASE i = Len(s) + 1
    BY <1>1, <2>2
  <2> QED BY <1>1, <2>1, <2>2
<1> QED BY <1>1, <1>2 DEF Run, t

(* A run after the run it continues. *)
LEMMA JoinRuns ==
  ASSUME NEW s \in Seq(Int), NEW t \in Seq(Int), NEW last \in Int,
         Run(s, last - Len(t)), Run(t, last)
  PROVE  /\ s \o t \in Seq(Int) /\ Len(s \o t) = Len(s) + Len(t)
         /\ Len(s) \in Nat /\ Len(t) \in Nat
         /\ Run(s \o t, last)
<1> DEFINE q == s \o t
<1>1. /\ Len(s) \in Nat /\ Len(t) \in Nat /\ q \in Seq(Int) /\ Len(q) = Len(s) + Len(t)
      /\ \A i \in 1 .. Len(s) + Len(t) :
           q[i] = IF i <= Len(s) THEN s[i] ELSE t[i - Len(s)]
  OBVIOUS
<1> HIDE DEF q
<1>2. ASSUME NEW i \in 1 .. Len(q) PROVE q[i] = last - Len(q) + i
  <2>1. CASE i <= Len(s)
    <3>1. i \in 1 .. Len(s) /\ q[i] = s[i]
      BY <1>1, <2>1
    <3>2. s[i] = last - Len(t) - Len(s) + i
      BY <3>1 DEF Run
    <3> QED BY <1>1, <3>1, <3>2
  <2>2. CASE ~(i <= Len(s))
    <3>1. i - Len(s) \in 1 .. Len(t) /\ q[i] = t[i - Len(s)]
      BY <1>1, <2>2
    <3>2. t[i - Len(s)] = last - Len(t) + (i - Len(s))
      BY <3>1 DEF Run
    <3> QED BY <1>1, <3>1, <3>2
  <2> QED BY <2>1, <2>2
<1> QED BY <1>1, <1>2 DEF Run, q

LEMMA LandsOn ==
  ASSUME NEW target \in Nat
  PROVE  LandOn(target) \in Frames
<1> DEFINE before == {k \in Keyframes : Pts(k) <= target}
<1>1. before \subseteq Frames /\ LastFrame \in Nat /\ LastFrame >= 1 /\ 1 \in Frames
  <2>1. LastFrame \in Nat /\ LastFrame >= 1 /\ Keyframes \subseteq Frames
    BY SeekAssumption DEF Frames
  <2>2. 1 \in Frames
    BY <2>1 DEF Frames
  <2>3. before \subseteq Keyframes
    OBVIOUS
  <2> QED BY <2>1, <2>2, <2>3, Zenon
<1>2. CASE before = {}
  BY <1>1, <1>2 DEF LandOn
<1>3. CASE before # {}
  <2>1. \E x \in before : \A y \in before : y <= x
    <3>1. before \in SUBSET Nat /\ \A x \in before : x <= LastFrame
      BY <1>1 DEF Frames
    <3> HIDE DEF before
    <3> QED BY <1>1, <1>3, <3>1, Largest
  <2>2. \E x \in before : \A y \in before : x >= y
    <3>1. PICK x \in before : \A y \in before : y <= x
      BY <2>1
    <3>2. \A y \in before : x >= y
      BY <1>1, <3>1 DEF Frames
    <3> QED BY <3>2
  <2> DEFINE x == CHOOSE k \in before : \A j \in before : k >= j
  <2>3. x \in before
    <3> HIDE DEF before
    <3> QED BY <2>2, Zenon
  <2>4. LandOn(target) = x
    BY <1>3, Zenon DEF LandOn
  <2> QED BY <1>1, <2>3, <2>4
<1> QED BY <1>2, <1>3
-----------------------------------------------------------------------------
(* The inductive invariant. *)

TypeOK ==
  /\ goal \in [target : Nat, preferAfter : BOOLEAN, start : Frames]
  /\ track \in TrackType
  /\ playing \in BOOLEAN /\ eofFlushed \in BOOLEAN /\ moved \in BOOLEAN
  /\ demux \in [read : Nat, eof : BOOLEAN]
  /\ codec \in [sent : Nat, held : Seq(Nat), more : BOOLEAN]
  /\ at \in {"loop", "receive", "received", "drain", "eof"}
  /\ hand \in Seq(Nat) /\ Len(hand) <= 1

(* What is read, sent and held of the frames from the landing on. *)
Sent ==
  /\ goal.start - 1 <= codec.sent /\ codec.sent <= demux.read /\ demux.read <= LastFrame
  /\ demux.eof => demux.read = LastFrame
  /\ Run(codec.held, codec.sent)

(* The last frame the codec has given out. *)
Out == codec.sent - Len(codec.held)

(* Until the preview is out every frame goes into the window, which is     *)
(* published before it holds PreviewWindow of them, and the codec is never *)
(* sent a packet while it has output left.                                 *)
Filling ==
  track.state = "Buffering" =>
    /\ track.target = goal.target /\ track.preferAfter = goal.preferAfter /\ track.postSeek
    /\ track.ring = NewRing /\ track.pending = <<>> /\ hand = <<>>
    /\ ~track.drainRequest /\ ~eofFlushed
    /\ at \in {"loop", "receive", "received"}
    /\ at # "receive" => ~codec.more /\ Len(codec.held) <= CodecDelay
    /\ Len(codec.held) <= CodecDelay + 1
    /\ Window(track.reorder, Out, goal.target, goal.start)
    /\ Len(track.reorder) < PreviewWindow

(* The frame behind the cursor of the ring, if the frames from there to    *)
(* the codec are one run.                                                  *)
Behind == Out - Len(track.pending) - Len(hand) - track.ring.count

(* From then on they are; the codec is drained before it is sent another   *)
(* packet, so that it refuses none.                                        *)
Draining ==
  track.state = "Ready" =>
    /\ track.target = NoTarget
    /\ Run(track.pending, Out) /\ Run(hand, Out - Len(track.pending))
    /\ track.pending # <<>> => at \in {"loop", "received"}
    /\ at = "drain" => track.drainRequest
    /\ at = "eof" => demux.eof /\ QueueEmpty
    /\ codec.more => track.drainRequest \/ at = "receive" \/ (demux.eof /\ QueueEmpty)
    /\ Follows(track.ring, Behind)

Shown ==
  Settled =>
    /\ track.ring.count > 0 /\ Wanted \in Nat /\ Wanted = Behind + 1
    /\ Wanted > goal.start => track.ring.advanced > 0 /\ track.ring.retreated = 0

Inv == TypeOK /\ Sent /\ Filling /\ Draining /\ Shown
-----------------------------------------------------------------------------
(* The seek begins. *)

LEMMA BegunFields ==
  ASSUME WindowSuffices, NEW target \in Nat, NEW preferAfter \in BOOLEAN,
         NEW p, p = Begun(target, preferAfter)
  PROVE  /\ p \in TrackType
         /\ p.target = target /\ p.preferAfter = preferAfter /\ p.postSeek
         /\ p.state = "Buffering" /\ p.ring = NewRing
         /\ p.pending = <<>> /\ p.reorder = <<>> /\ ~p.drainRequest
<1>1. NewRing \in RingType /\ <<>> \in Seq(Nat)
  BY NewFollows DEF Follows
<1> HIDE DEF NewRing, RingType
<1> QED BY <1>1 DEF Begun, TrackType

LEMMA EmptyWindow ==
  ASSUME NEW target \in Nat, NEW start \in Nat
  PROVE  Window(<<>>, start - 1, target, start)
<1>1. Run(<<>>, start - 1) /\ <<>> \in Seq(Nat) /\ Len(<<>>) = 0
  BY EmptyRun, Zenon
<1>2. start - 1 - start + 1 = 0
  OBVIOUS
<1> QED BY <1>1, <1>2 DEF Window

LEMMA InitInv ==
  ASSUME WindowSuffices, Init
  PROVE  Inv
<1>1. PICK target \in Targets, preferAfter \in BOOLEAN, plays \in BOOLEAN :
        /\ goal = [target |-> target, preferAfter |-> preferAfter, start |-> LandOn(target)]
        /\ track = Begun(target, preferAfter)
        /\ playing = plays
        /\ eofFlushed = FALSE
        /\ demux = [read |-> LandOn(target) - 1, eof |-> FALSE]
        /\ codec = [sent |-> LandOn(target) - 1, held |-> <<>>, more |-> FALSE]
        /\ at = "loop" /\ hand = <<>>
        /\ moved = FALSE
  BY DEF Init
<1> DEFINE s == LandOn(target)
<1>2. target \in Nat /\ CodecDelay \in Nat /\ LastFrame \in Nat
  BY SeekAssumption
<1>3. s \in Frames /\ s \in Nat /\ s >= 1 /\ s <= LastFrame /\ s - 1 \in Nat
  BY <1>2, LandsOn DEF Frames
<1> HIDE DEF s
<1>4. /\ Window(<<>>, s - 1, target, s) /\ Run(<<>>, s - 1)
      /\ <<>> \in Seq(Nat) /\ Len(<<>>) = 0
  BY <1>2, <1>3, EmptyWindow, EmptyRun, Zenon
<1>5. /\ goal = [target |-> target, preferAfter |-> preferAfter, start |-> s]
      /\ demux = [read |-> s - 1, eof |-> FALSE]
      /\ codec = [sent |-> s - 1, held |-> <<>>, more |-> FALSE]
  BY <1>1 DEF s
<1>6. /\ track \in TrackType
      /\ track.target = target /\ track.preferAfter = preferAfter /\ track.postSeek
      /\ track.state = "Buffering" /\ track.ring = NewRing
      /\ track.pending = <<>> /\ track.reorder = <<>> /\ ~track.drainRequest
  BY <1>1, <1>2, BegunFields
<1> HIDE DEF TrackType, NewRing
<1>12. /\ goal.target = target /\ goal.preferAfter = preferAfter /\ goal.start = s
       /\ demux.read = s - 1 /\ ~demux.eof
       /\ codec.sent = s - 1 /\ codec.held = <<>> /\ ~codec.more
  BY <1>5
<1>7. TypeOK
  <2>1. /\ goal \in [target : Nat, preferAfter : BOOLEAN, start : Frames]
        /\ demux \in [read : Nat, eof : BOOLEAN]
    BY <1>2, <1>3, <1>5
  <2>2. codec \in [sent : Nat, held : Seq(Nat), more : BOOLEAN]
    BY <1>3, <1>4, <1>5
  <2>3. hand \in Seq(Nat) /\ Len(hand) <= 1
    BY <1>1, <1>4
  <2> QED BY <1>1, <1>6, <2>1, <2>2, <2>3 DEF TypeOK
<1>8. Sent
  <2>1. Run(codec.held, codec.sent)
    BY <1>4, <1>12, Zenon
  <2>2. /\ goal.start - 1 <= codec.sent /\ codec.sent <= demux.read
        /\ demux.read <= LastFrame
    BY <1>2, <1>3, <1>12
  <2> QED BY <1>12, <2>1, <2>2 DEF Sent
<1>9. Out = s - 1
  BY <1>3, <1>5 DEF Out
<1>10. Filling
  <2>1. Len(<<>>) = 0
    OBVIOUS
  <2> QED BY <1>1, <1>2, <1>4, <1>5, <1>6, <1>9, <2>1 DEF Filling, PreviewWindow
<1>11. Draining /\ Shown
  BY <1>6 DEF Draining, Shown, Settled
<1> QED BY <1>7, <1>8, <1>10, <1>11 DEF Inv

LEMMA BeginInv ==
  ASSUME WindowSuffices, Inv, NEW target \in Targets, NEW preferAfter \in BOOLEAN,
         BeginSeek(target, preferAfter)
  PROVE  Inv'
<1> DEFINE s == LandOn(target)
<1>1. /\ goal' = [target |-> target, preferAfter |-> preferAfter, start |-> s]
      /\ track' = Begun(target, preferAfter)
      /\ eofFlushed' = FALSE
      /\ demux' = [read |-> s - 1, eof |-> FALSE]
      /\ codec' = [sent |-> s - 1, held |-> <<>>, more |-> FALSE]
      /\ at' = "loop" /\ hand' = <<>>
      /\ moved' = FALSE
      /\ playing' = playing
  BY DEF BeginSeek
<1>2. target \in Nat /\ CodecDelay \in Nat /\ LastFrame \in Nat /\ playing \in BOOLEAN
  BY SeekAssumption DEF Inv, TypeOK
<1>3. s \in Frames /\ s \in Nat /\ s >= 1 /\ s <= LastFrame /\ s - 1 \in Nat
  BY <1>2, LandsOn DEF Frames
<1> HIDE DEF s
<1>4. /\ Window(<<>>, s - 1, target, s) /\ Run(<<>>, s - 1)
      /\ <<>> \in Seq(Nat) /\ Len(<<>>) = 0
  BY <1>2, <1>3, EmptyWindow, EmptyRun, Zenon
<1>6. /\ track' \in TrackType
      /\ track'.target = target /\ track'.preferAfter = preferAfter /\ track'.postSeek
      /\ track'.state = "Buffering" /\ track'.ring = NewRing
      /\ track'.pending = <<>> /\ track'.reorder = <<>> /\ ~track'.drainRequest
  BY <1>1, <1>2, BegunFields
<1> HIDE DEF TrackType, NewRing
<1>12. /\ goal'.target = target /\ goal'.preferAfter = preferAfter /\ goal'.start = s
       /\ demux'.read = s - 1 /\ ~demux'.eof
       /\ codec'.sent = s - 1 /\ codec'.held = <<>> /\ ~codec'.more
  BY <1>1
<1>7. TypeOK'
  <2>1. /\ goal' \in [target : Nat, preferAfter : BOOLEAN, start : Frames]
        /\ demux' \in [read : Nat, eof : BOOLEAN]
    BY <1>1, <1>2, <1>3
  <2>2. codec' \in [sent : Nat, held : Seq(Nat), more : BOOLEAN]
    BY <1>1, <1>3, <1>4
  <2>3. hand' \in Seq(Nat) /\ Len(hand') <= 1
    BY <1>1, <1>4
  <2> QED BY <1>1, <1>2, <1>6, <2>1, <2>2, <2>3 DEF TypeOK
<1>8. Sent'
  <2>1. Run(codec'.held, codec'.sent)
    BY <1>4, <1>12, Zenon
  <2>2. /\ goal'.start - 1 <= codec'.sent /\ codec'.sent <= demux'.read
        /\ demux'.read <= LastFrame
    BY <1>2, <1>3, <1>12
  <2> QED BY <1>12, <2>1, <2>2 DEF Sent
<1>9. Out' = s - 1
  BY <1>1, <1>3 DEF Out
<1>10. Filling'
  <2>1. Len(<<>>) = 0
    OBVIOUS
  <2> QED BY <1>1, <1>2, <1>4, <1>6, <1>9, <2>1 DEF Filling, PreviewWindow
<1>11. Draining' /\ Shown'
  BY <1>6 DEF Draining, Shown, Settled
<1> QED BY <1>7, <1>8, <1>10, <1>11 DEF Inv
-----------------------------------------------------------------------------
(* The steps that are not the decode thread's. *)

LEMMA SameWanted ==
  ASSUME goal' = goal
  PROVE  Wanted' = Wanted
BY DEF Wanted

(* What is paused is no part of the invariant, nor is what plays. *)
LEMMA ToggleInv ==
  ASSUME Inv, Toggle
  PROVE  Inv'
<1>1. /\ track \in TrackType /\ playing \in BOOLEAN
      /\ track' = [track EXCEPT !.paused = playing] /\ playing' = ~playing
      /\ goal' = goal /\ eofFlushed' = eofFlushed /\ demux' = demux /\ codec' = codec
      /\ at' = at /\ hand' = hand /\ moved' = moved
  BY DEF Toggle, Inv, TypeOK
<1>2. /\ track' \in TrackType
      /\ track'.target = track.target /\ track'.preferAfter = track.preferAfter
      /\ track'.postSeek = track.postSeek /\ track'.state = track.state
      /\ track'.ring = track.ring /\ track'.pending = track.pending
      /\ track'.reorder = track.reorder /\ track'.drainRequest = track.drainRequest
  BY <1>1 DEF TrackType
<1> HIDE DEF TrackType
<1>3. TypeOK' /\ Sent'
  BY <1>1, <1>2 DEF Inv, TypeOK, Sent
<1>4. Out' = Out /\ Behind' = Behind /\ Wanted' = Wanted
  BY <1>1, <1>2, SameWanted DEF Out, Behind
<1>5. Filling'
  BY <1>1, <1>2, <1>4 DEF Inv, Filling
<1>6. Draining'
  BY <1>1, <1>2, <1>4 DEF Inv, Draining, QueueEmpty
<1>7. Shown'
  BY <1>1, <1>2, <1>4 DEF Inv, Shown, Settled
<1> QED BY <1>3, <1>5, <1>6, <1>7 DEF Inv

LEMMA DemuxInv ==
  ASSUME Inv, DemuxNext
  PROVE  Inv'
<1>1. /\ demux \in [read : Nat, eof : BOOLEAN] /\ codec.sent \in Nat /\ LastFrame \in Nat
      /\ goal' = goal /\ track' = track /\ playing' = playing
      /\ eofFlushed' = eofFlushed /\ codec' = codec
      /\ at' = at /\ hand' = hand /\ moved' = moved
  BY SeekAssumption DEF DemuxNext, DemuxRead, DemuxEof, Inv, TypeOK
<1>2. /\ goal.start - 1 <= codec.sent /\ codec.sent <= demux.read /\ demux.read <= LastFrame
      /\ demux.eof => demux.read = LastFrame
      /\ Run(codec.held, codec.sent)
  BY DEF Inv, Sent
<1>3. /\ demux' \in [read : Nat, eof : BOOLEAN]
      /\ codec.sent <= demux'.read /\ demux'.read <= LastFrame
      /\ demux'.eof => demux'.read = LastFrame
      /\ demux.eof /\ QueueEmpty => demux'.eof /\ QueueEmpty'
  <2>1. CASE DemuxRead
    BY <1>1, <1>2, <2>1 DEF DemuxRead, QueueEmpty
  <2>2. CASE DemuxEof
    BY <1>1, <1>2, <2>2 DEF DemuxEof, QueueEmpty
  <2> QED BY <2>1, <2>2 DEF DemuxNext
<1>4. TypeOK' /\ Sent'
  BY <1>1, <1>2, <1>3 DEF Inv, TypeOK, Sent
<1>5. Out' = Out /\ Behind' = Behind /\ Wanted' = Wanted
  BY <1>1, SameWanted DEF Out, Behind
<1>6. Filling'
  BY <1>1, <1>5 DEF Inv, Filling
<1>7. Draining'
  BY <1>1, <1>3, <1>5 DEF Inv, Draining
<1>8. Shown'
  BY <1>1, <1>5 DEF Inv, Shown, Settled
<1> QED BY <1>4, <1>6, <1>7, <1>8 DEF Inv

LEMMA Lengths ==
  ASSUME TypeOK
  PROVE  /\ Len(codec.held) \in Nat /\ Len(track.pending) \in Nat /\ Len(hand) \in Nat
         /\ Len(track.reorder) \in Nat /\ codec.sent \in Nat /\ track.ring.count \in Nat
         /\ Out \in Int /\ Behind \in Int
<1>1. /\ codec.held \in Seq(Nat) /\ track.pending \in Seq(Nat) /\ hand \in Seq(Nat)
      /\ track.reorder \in Seq(Nat) /\ codec.sent \in Nat /\ track.ring.count \in Nat
  BY DEF TypeOK, TrackType, RingType
<1>2. /\ Len(codec.held) \in Nat /\ Len(track.pending) \in Nat /\ Len(hand) \in Nat
      /\ Len(track.reorder) \in Nat
  BY <1>1
<1>3. Out \in Int
  BY <1>1, <1>2 DEF Out
<1> QED BY <1>1, <1>2, <1>3 DEF Behind

(* The ring alone changes, and its cursor moves with what is behind it. *)
LEMMA MoveInv ==
  ASSUME Inv, track.state = "Ready", NEW ring,
         track' = [track EXCEPT !.ring = ring], moved' = TRUE,
         UNCHANGED notByRender,
         Follows(ring, Behind + (track.ring.count - ring.count))
  PROVE  Inv'
<1>1. /\ goal' = goal /\ playing' = playing /\ eofFlushed' = eofFlushed
      /\ demux' = demux /\ codec' = codec /\ at' = at /\ hand' = hand
      /\ track \in TrackType /\ ring \in RingType
  BY DEF notByRender, Inv, TypeOK, Follows
<1>2. /\ track' \in TrackType
      /\ track'.target = track.target /\ track'.state = track.state
      /\ track'.ring = ring /\ track'.pending = track.pending
      /\ track'.drainRequest = track.drainRequest
  BY <1>1 DEF TrackType
<1>3. ring.count \in Nat
  BY <1>1 DEF RingType
<1> HIDE DEF TrackType, RingType
<1>4. TypeOK' /\ Sent'
  BY <1>1, <1>2 DEF Inv, TypeOK, Sent
<1>5. Out' = Out /\ Behind' = Behind + (track.ring.count - ring.count)
  <2>1. Out' = Out
    BY <1>1 DEF Out
  <2> DEFINE a == Out - Len(track.pending) - Len(hand)
             n == track.ring.count
             m == ring.count
  <2>2. Behind = a - n /\ Behind' = a - m
    BY <1>1, <1>2, <2>1, Zenon DEF Behind
  <2>3. a \in Int /\ n \in Nat /\ m \in Nat
    BY <1>3, Lengths DEF Inv
  <2> HIDE DEF a, n, m
  <2>4. a - m = (a - n) + (n - m)
    BY <2>3
  <2>5. Behind' = Behind + (n - m)
    BY <2>2, <2>4, Zenon
  <2> QED BY <2>1, <2>5 DEF n, m
<1>6. Filling' /\ Shown'
  BY <1>2 DEF Filling, Shown, Settled
<1>7. Draining'
  BY <1>1, <1>2, <1>5 DEF Inv, Draining, QueueEmpty
<1> QED BY <1>4, <1>6, <1>7 DEF Inv

LEMMA AdvanceInv ==
  ASSUME WindowSuffices, Inv, Advance
  PROVE  Inv'
<1>1. /\ track.state = "Ready" /\ moved' = TRUE /\ UNCHANGED notByRender
      /\ track' = [track EXCEPT !.ring = RingAdvance(track.ring)]
      /\ TypeOK /\ Follows(track.ring, Behind)
  BY DEF Advance, Inv, Draining
<1>2. track.ring.count \in Nat /\ Behind \in Int
  BY <1>1, Lengths
<1>3. track.ring.count > 0
  BY <1>2 DEF Advance
<1> DEFINE p == RingAdvance(track.ring)
<1>4. Follows(p, Behind + 1) /\ p.count = track.ring.count - 1
  BY <1>1, <1>2, <1>3, AdvanceFollows
<1> HIDE DEF p
<1>5. track.ring.count - p.count = 1
  BY <1>2, <1>4
<1> QED BY <1>1, <1>4, <1>5, MoveInv DEF p

LEMMA RetreatInv ==
  ASSUME WindowSuffices, Inv, Retreat
  PROVE  Inv'
<1>1. /\ track.state = "Ready" /\ moved' = TRUE /\ UNCHANGED notByRender
      /\ track' = [track EXCEPT !.ring = RingRetreat(track.ring)]
      /\ TypeOK /\ Follows(track.ring, Behind) /\ CanRetreat(track.ring)
  BY DEF Retreat, Inv, Draining
<1>2. track.ring.count \in Nat /\ Behind \in Int
  BY <1>1, Lengths
<1> DEFINE p == RingRetreat(track.ring)
<1>4. Follows(p, Behind - 1) /\ p.count = track.ring.count + 1
  BY <1>1, <1>2, RetreatFollows
<1> HIDE DEF p
<1>5. Behind + (track.ring.count - p.count) = Behind - 1
  BY <1>2, <1>4
<1> QED BY <1>1, <1>4, <1>5, MoveInv DEF p
-----------------------------------------------------------------------------
(* The decode thread: what it pushes. *)

(* Two states of the seek, and what is known of each. *)
LEMMA States ==
  ASSUME Inv
  PROVE  /\ track \in TrackType /\ TypeOK /\ Sent
         /\ track.state \in {"Buffering", "Ready"}
         /\ track.state = "Buffering" =>
              /\ track.target = goal.target /\ track.target # NoTarget
              /\ track.pending = <<>> /\ hand = <<>> /\ ~track.drainRequest
              /\ at \in {"loop", "receive", "received"}
         /\ track.state = "Ready" => track.target = NoTarget
<1>1. track \in TrackType /\ TypeOK /\ Sent /\ goal.target \in Nat
  BY DEF Inv, TypeOK
<1>2. track.state \in {"Buffering", "Ready"}
  BY <1>1 DEF TrackType
<1>3. goal.target # NoTarget
  BY <1>1 DEF NoTarget
<1> HIDE DEF NoTarget, TrackType, TypeOK, Sent
<1> QED BY <1>1, <1>2, <1>3 DEF Inv, Filling, Draining

LEMMA PushFrameInv ==
  ASSUME WindowSuffices, Inv, PushFrame
  PROVE  Inv'
<1> DEFINE q == RingPush(track.ring, hand[1])
<1>1. /\ track \in TrackType /\ TypeOK /\ Sent /\ track.state = "Ready"
      /\ hand # <<>> /\ hand \in Seq(Nat) /\ Len(hand) = 1
      /\ CanPush(track.ring)
  <2>1. hand # <<>> /\ hand \in Seq(Nat) /\ Len(hand) <= 1 /\ CanPush(track.ring)
    BY DEF PushFrame, Free, Inv, TypeOK
  <2>2. Len(hand) = 1
    <3> DEFINE l == Len(hand)
    <3>1. l \in Nat \ {0}
      BY <2>1, EmptySeq, Zenon
    <3>2. l <= 1
      BY <2>1
    <3> HIDE DEF l
    <3>3. l = 1
      BY <3>1, <3>2
    <3> QED BY <3>3 DEF l
  <2>3. track.state = "Ready"
    BY <2>1, States, Zenon
  <2> QED BY <2>1, <2>2, <2>3, States, Zenon
<1>2. /\ Run(hand, Out - Len(track.pending)) /\ Run(track.pending, Out)
      /\ Follows(track.ring, Behind)
      /\ track.pending # <<>> => at \in {"loop", "received"}
      /\ at = "drain" => track.drainRequest
      /\ at = "eof" => demux.eof /\ QueueEmpty
      /\ codec.more => track.drainRequest \/ at = "receive" \/ (demux.eof /\ QueueEmpty)
  BY <1>1 DEF Inv, Draining
<1>3. track.ring.count \in Nat /\ Behind \in Int /\ Len(track.pending) \in Nat /\ Out \in Int
  BY <1>1, Lengths
<1>4. hand[1] \in Nat /\ hand[1] = Behind + 1 + track.ring.count
  <2> DEFINE o == Out
             m == Len(track.pending)
             n == track.ring.count
  <2>1. hand[1] = Out - Len(track.pending) - Len(hand) + 1
    BY <1>1, <1>2 DEF Run
  <2>2. hand[1] \in Nat
    BY <1>1
  <2>3. hand[1] = o - m - 1 + 1 /\ Behind = o - m - 1 - n
    BY <1>1, <2>1, Zenon DEF Behind
  <2>4. o \in Int /\ m \in Nat /\ n \in Nat
    BY <1>3
  <2> HIDE DEF o, m, n
  <2>5. o - m - 1 + 1 = (o - m - 1 - n) + 1 + n
    BY <2>4
  <2>6. hand[1] = Behind + 1 + n
    BY <2>3, <2>5, Zenon
  <2> QED BY <2>2, <2>6 DEF n
<1>5. /\ Follows(q, Behind) /\ q.count = track.ring.count + 1
      /\ q.advanced = track.ring.advanced /\ q.retreated = track.ring.retreated
  BY <1>1, <1>2, <1>3, <1>4, PushFollows
<1>6. q \in RingType
  BY <1>5 DEF Follows
<1> HIDE DEF q
<1>7. track' = [track EXCEPT !.ring = q]
  <2> DEFINE p == [track EXCEPT !.ring = q]
  <2>1. p.state = "Ready"
    BY <1>1 DEF TrackType
  <2>2. track' = IF at = "receive" THEN PrerollCompleted(p) ELSE p
    BY DEF PushFrame, q
  <2> HIDE DEF p
  <2>3. PrerollCompleted(p) = p
    BY <2>1 DEF PrerollCompleted
  <2> QED BY <2>2, <2>3 DEF p
<1>8. /\ track' \in TrackType
      /\ track'.target = track.target /\ track'.state = track.state
      /\ track'.ring = q /\ track'.pending = track.pending
      /\ track'.drainRequest = track.drainRequest
  BY <1>1, <1>6, <1>7 DEF TrackType
<1>9. /\ goal' = goal /\ playing' = playing /\ eofFlushed' = eofFlushed /\ moved' = moved
      /\ demux' = demux /\ codec' = codec /\ hand' = <<>>
      /\ at' = at \/ (at = "drain" /\ at' = "loop")
  BY DEF PushFrame, byOthers
<1>10. hand' \in Seq(Nat) /\ Len(hand') = 0 /\ \A x : Run(hand', x)
  BY <1>9, EmptyRun, Zenon
<1> HIDE DEF TrackType
<1>11. TypeOK' /\ Sent'
  BY <1>1, <1>8, <1>9, <1>10 DEF TypeOK, Sent
<1>12. Out' = Out /\ Behind' = Behind /\ Wanted' = Wanted
  <2>1. Out' = Out /\ Wanted' = Wanted
    BY <1>9, SameWanted DEF Out
  <2> DEFINE a == Out - Len(track.pending)
             n == track.ring.count
  <2>2. Behind = a - 1 - n /\ Behind' = a - 0 - (n + 1)
    BY <1>1, <1>5, <1>8, <1>10, <2>1, Zenon DEF Behind
  <2>3. a \in Int /\ n \in Nat
    BY <1>3
  <2> HIDE DEF a, n
  <2>4. a - 1 - n = a - 0 - (n + 1)
    BY <2>3
  <2> QED BY <2>1, <2>2, <2>4, Zenon
<1>13. Filling'
  BY <1>1, <1>8 DEF Filling
<1>14. Draining'
  <2>1. Run(track'.pending, Out') /\ Run(hand', Out' - Len(track'.pending))
    BY <1>2, <1>8, <1>10, <1>12
  <2>2. track'.target = NoTarget
    BY <1>1, <1>8, States
  <2>3. /\ track'.pending # <<>> => at' \in {"loop", "received"}
        /\ at' = "drain" => track'.drainRequest
        /\ at' = "eof" => demux'.eof /\ QueueEmpty'
        /\ codec'.more => track'.drainRequest \/ at' = "receive" \/ (demux'.eof /\ QueueEmpty')
    BY <1>2, <1>8, <1>9 DEF QueueEmpty
  <2>4. Follows(track'.ring, Behind')
    BY <1>5, <1>8, <1>12
  <2> QED BY <2>1, <2>2, <2>3, <2>4 DEF Draining
<1>15. Shown'
  <2>1. SUFFICES ASSUME Settled' PROVE Shown'
    BY DEF Shown
  <2>2. Settled
    BY <1>1, <1>9, <2>1 DEF Settled
  <2> QED BY <1>3, <1>5, <1>8, <1>9, <1>12, <2>2 DEF Shown, Inv
<1> QED BY <1>11, <1>13, <1>14, <1>15 DEF Inv

LEMMA PublishPendingInv ==
  ASSUME Inv, PublishPending
  PROVE  Inv'
<1>1. /\ track \in TrackType /\ TypeOK /\ Sent /\ track.state = "Ready"
      /\ track.target = NoTarget
      /\ at = "loop" /\ hand = <<>> /\ track.pending # <<>>
      /\ track.pending \in Seq(Nat)
  <2>1. at = "loop" /\ hand = <<>> /\ track.pending # <<>>
    BY DEF PublishPending, AtGate, Free
  <2>2. track.pending \in Seq(Nat)
    BY DEF Inv, TypeOK, TrackType
  <2>3. track.state = "Ready"
    BY <2>1, States, Zenon
  <2> QED BY <2>1, <2>2, <2>3, States, Zenon
<1>2. /\ Run(track.pending, Out) /\ Follows(track.ring, Behind)
      /\ codec.more => track.drainRequest \/ at = "receive" \/ (demux.eof /\ QueueEmpty)
  BY <1>1 DEF Inv, Draining
<1>3. track.ring.count \in Nat /\ Behind \in Int /\ Out \in Int
  BY <1>1, Lengths
<1> DEFINE f == Head(track.pending)
           rest == Tail(track.pending)
<1>4. /\ f \in Nat /\ f = Out - Len(track.pending) + 1
      /\ rest \in Seq(Nat) /\ Len(rest) = Len(track.pending) - 1 /\ Len(track.pending) \in Nat
      /\ Run(rest, Out)
  BY <1>1, <1>2, <1>3, GiveRun
<1> HIDE DEF f, rest
<1>5. /\ goal' = goal /\ playing' = playing /\ eofFlushed' = eofFlushed /\ moved' = moved
      /\ demux' = demux /\ codec' = codec /\ at' = at /\ hand' = <<f>>
      /\ track' = [track EXCEPT !.pending = rest]
  BY DEF PublishPending, byOthers, f, rest
<1>6. /\ track' \in TrackType
      /\ track'.target = track.target /\ track'.state = track.state
      /\ track'.ring = track.ring /\ track'.pending = rest
      /\ track'.drainRequest = track.drainRequest
  BY <1>1, <1>4, <1>5 DEF TrackType
<1>7. hand' \in Seq(Nat) /\ Len(hand') = 1 /\ Run(hand', f)
  BY <1>4, <1>5, ShortRun
<1> HIDE DEF TrackType
<1>8. TypeOK' /\ Sent'
  BY <1>1, <1>5, <1>6, <1>7 DEF TypeOK, Sent
<1>9. Out' = Out /\ Behind' = Behind /\ Wanted' = Wanted
  <2>1. Out' = Out /\ Wanted' = Wanted /\ Len(hand) = 0
    BY <1>1, <1>5, SameWanted DEF Out
  <2>2. Behind' = Out' - Len(track'.pending) - Len(hand') - track'.ring.count
    BY DEF Behind
  <2>3. Behind = Out - Len(track.pending) - Len(hand) - track.ring.count
    BY DEF Behind
  <2>4. Len(track'.pending) = Len(track.pending) - 1 /\ track'.ring.count = track.ring.count
    BY <1>4, <1>6
  <2>5. Len(hand') = 1 /\ Len(track.pending) \in Nat
    BY <1>4, <1>7
  <2>6. Out' = Out /\ Len(hand) = 0
    BY <2>1
  <2>7. Behind' = Behind
    <3> DEFINE l == Len(track.pending)
               n == track.ring.count
    <3>1. l \in Nat /\ n \in Int /\ Out \in Int
      BY <1>3, <2>5
    <3>2. Behind' = Out - (l - 1) - 1 - n /\ Behind = Out - l - 0 - n
      BY <2>2, <2>3, <2>4, <2>5, <2>6
    <3> HIDE DEF l, n
    <3> QED BY <3>1, <3>2
  <2> QED BY <2>1, <2>7
<1>10. Filling'
  BY <1>1, <1>6 DEF Filling
<1>11. Draining'
  <2>1. Run(track'.pending, Out') /\ Run(hand', Out' - Len(track'.pending))
    <3>1. Out - Len(rest) = f
      BY <1>3, <1>4
    <3> QED BY <1>4, <1>6, <1>7, <1>9, <3>1
  <2>2. Follows(track'.ring, Behind')
    BY <1>2, <1>6, <1>9
  <2> QED BY <1>1, <1>2, <1>5, <1>6, <2>1, <2>2 DEF Draining, QueueEmpty
<1>12. Shown'
  BY <1>5, <1>6, <1>9 DEF Inv, Shown, Settled
<1> QED BY <1>8, <1>10, <1>11, <1>12 DEF Inv
-----------------------------------------------------------------------------
(* The decode thread: what it gives the codec and takes from it. *)

(* The thread goes to another place of its loop, and nothing else that the *)
(* invariant of a seek that is done speaks of changes.                     *)
LEMMA GoInv ==
  ASSUME Inv, track.state = "Ready", UNCHANGED <<track, codec, hand, byOthers>>,
         eofFlushed' \in BOOLEAN, at' \in {"loop", "receive", "received", "drain", "eof"},
         track.pending # <<>> => at' \in {"loop", "received"},
         at' = "drain" => track.drainRequest,
         at' = "eof" => demux.eof /\ QueueEmpty,
         codec.more => track.drainRequest \/ (demux.eof /\ QueueEmpty)
  PROVE  Inv'
<1>1. /\ goal' = goal /\ track' = track /\ playing' = playing /\ moved' = moved
      /\ demux' = demux /\ codec' = codec /\ hand' = hand
  BY DEF byOthers
<1>2. Out' = Out /\ Behind' = Behind /\ Wanted' = Wanted /\ (QueueEmpty <=> QueueEmpty')
  BY <1>1, SameWanted DEF Out, Behind, QueueEmpty
<1>3. TypeOK' /\ Sent'
  BY <1>1 DEF Inv, TypeOK, Sent
<1>4. Filling'
  BY <1>1 DEF Filling
<1>5. Draining'
  BY <1>1, <1>2 DEF Inv, Draining
<1>6. Shown'
  BY <1>1, <1>2 DEF Inv, Shown, Settled
<1> QED BY <1>3, <1>4, <1>5, <1>6 DEF Inv

LEMMA StartDrainInv ==
  ASSUME Inv, StartDrain
  PROVE  Inv'
<1>1. /\ track.pending = <<>> /\ track.drainRequest /\ at' = "drain"
      /\ UNCHANGED <<track, codec, hand, byOthers>> /\ eofFlushed' = eofFlushed
  BY DEF StartDrain
<1>2. track.state = "Ready"
  BY <1>1, States, Zenon
<1>3. eofFlushed \in BOOLEAN
  BY DEF Inv, TypeOK
<1> QED BY <1>1, <1>2, <1>3, GoInv

LEMMA EofDrainInv ==
  ASSUME Inv, EofDrain
  PROVE  Inv'
<1>1. /\ track.pending = <<>> /\ track.state = "Ready" /\ at' = "eof"
      /\ UNCHANGED <<track, codec, hand, byOthers>> /\ eofFlushed' = eofFlushed
      /\ demux.eof /\ QueueEmpty
  BY DEF EofDrain, GapAtEof, AtPop
<1>2. eofFlushed \in BOOLEAN
  BY DEF Inv, TypeOK
<1> QED BY <1>1, <1>2, GoInv

LEMMA EofDrainedInv ==
  ASSUME Inv, EofDrained
  PROVE  Inv'
<1>1. /\ at = "eof" /\ at' = "loop" /\ eofFlushed' = TRUE
      /\ UNCHANGED <<track, codec, hand, byOthers>>
  BY DEF EofDrained
<1>2. track.state = "Ready"
  BY <1>1, States
<1>3. demux.eof /\ QueueEmpty
  BY <1>1, <1>2 DEF Inv, Draining
<1> QED BY <1>1, <1>2, <1>3, GoInv

(* The codec gives out the frame after the last one it gave out. *)
LEMMA Given ==
  ASSUME Inv, GiveFrame
  PROVE  /\ Head(codec.held) \in Nat /\ Head(codec.held) = Out + 1 /\ Out' = Out + 1
         /\ codec' \in [sent : Nat, held : Seq(Nat), more : BOOLEAN]
         /\ codec'.sent = codec.sent /\ codec'.more
         /\ codec'.held \in Seq(Nat) /\ Run(codec'.held, codec.sent)
         /\ Len(codec'.held) = Len(codec.held) - 1 /\ Len(codec.held) \in Nat
<1>1. /\ codec \in [sent : Nat, held : Seq(Nat), more : BOOLEAN]
      /\ codec.held # <<>> /\ codec.held \in Seq(Nat) /\ codec.sent \in Nat
      /\ Run(codec.held, codec.sent)
      /\ codec' = [codec EXCEPT !.held = Tail(codec.held), !.more = TRUE]
  BY DEF Inv, TypeOK, Sent, GiveFrame
<1> DEFINE f == Head(codec.held)
           rest == Tail(codec.held)
<1>2. /\ f \in Nat /\ f = codec.sent - Len(codec.held) + 1
      /\ rest \in Seq(Nat) /\ Len(rest) = Len(codec.held) - 1 /\ Len(codec.held) \in Nat
      /\ Run(rest, codec.sent)
  BY <1>1, GiveRun
<1> HIDE DEF f, rest
<1>3. /\ codec' \in [sent : Nat, held : Seq(Nat), more : BOOLEAN]
      /\ codec'.sent = codec.sent /\ codec'.more /\ codec'.held = rest
  BY <1>1, <1>2 DEF rest
<1>4. f = Out + 1 /\ Out' = Out + 1
  <2> DEFINE l == Len(codec.held)
  <2>1. Out = codec.sent - l /\ Out' = codec.sent - (l - 1)
    BY <1>2, <1>3 DEF Out
  <2>2. l \in Nat /\ codec.sent \in Nat /\ f = codec.sent - l + 1
    BY <1>1, <1>2
  <2> HIDE DEF l
  <2> QED BY <2>1, <2>2
<1> QED BY <1>2, <1>3, <1>4 DEF f

(* A frame given out goes to the hand once the preview is out. *)
LEMMA GivenInv ==
  ASSUME Inv, track.state = "Ready", GiveFrame, hand = <<>>,
         at \in {"receive", "drain", "eof"},
         hand' = <<Head(codec.held)>>, UNCHANGED <<track, eofFlushed, at, byOthers>>
  PROVE  Inv'
<1>1. /\ goal' = goal /\ track' = track /\ playing' = playing /\ moved' = moved
      /\ demux' = demux /\ at' = at /\ eofFlushed' = eofFlushed
  BY DEF byOthers
<1> DEFINE f == Head(codec.held)
<1>2. /\ f \in Nat /\ f = Out + 1 /\ Out' = Out + 1
      /\ codec' \in [sent : Nat, held : Seq(Nat), more : BOOLEAN]
      /\ codec'.sent = codec.sent /\ codec'.more
      /\ Run(codec'.held, codec.sent)
  BY Given
<1>3. hand' \in Seq(Nat) /\ Len(hand') = 1 /\ Run(hand', f)
  <2>1. hand' = <<f>>
    OBVIOUS
  <2> HIDE DEF f
  <2> QED BY <1>2, <2>1, ShortRun
<1> HIDE DEF f
<1>4. /\ track.target = NoTarget
      /\ track.pending = <<>>
      /\ at = "drain" => track.drainRequest
      /\ at = "eof" => demux.eof /\ QueueEmpty
      /\ Follows(track.ring, Behind)
  BY DEF Inv, Draining
<1>5. TypeOK' /\ Sent'
  BY <1>1, <1>2, <1>3 DEF Inv, TypeOK, Sent
<1>6. /\ Len(track.pending) = 0 /\ Len(hand) = 0 /\ \A x : Run(track.pending, x)
      /\ Out \in Int /\ track.ring.count \in Nat
  BY <1>4, EmptyRun, Lengths DEF Inv
<1>7. Behind' = Behind /\ Wanted' = Wanted
  <2>1. Behind' = Out' - Len(track.pending) - Len(hand') - track.ring.count
    BY <1>1 DEF Behind
  <2>2. Behind = Out - Len(track.pending) - Len(hand) - track.ring.count
    BY DEF Behind
  <2>3. /\ Out' = Out + 1 /\ Len(hand') = 1 /\ Len(track.pending) = 0 /\ Len(hand) = 0
        /\ Out \in Int /\ track.ring.count \in Nat
    BY <1>2, <1>3, <1>6
  <2>5. Behind' = Behind
    <3> DEFINE h == Len(hand')
               l == Len(track.pending)
               g == Len(hand)
               n == track.ring.count
    <3>1. h = 1 /\ l = 0 /\ g = 0 /\ n \in Nat /\ Out \in Int /\ Out' = Out + 1
      BY <2>3
    <3>2. Behind' = Out' - l - h - n /\ Behind = Out - l - g - n
      BY <2>1, <2>2
    <3> HIDE DEF h, l, g, n
    <3> QED BY <3>1, <3>2
  <2> QED BY <1>1, <2>5, SameWanted
<1>8. Filling'
  BY <1>1 DEF Filling
<1>9. Draining'
  <2>1. Run(track'.pending, Out')
    BY <1>1, <1>6
  <2>2. Run(hand', Out' - Len(track'.pending))
    <3>1. Out' - Len(track'.pending) = f
      BY <1>1, <1>2, <1>6
    <3> QED BY <1>3, <3>1
  <2>3. Follows(track'.ring, Behind')
    BY <1>1, <1>4, <1>7
  <2> QED BY <1>1, <1>2, <1>4, <2>1, <2>2, <2>3 DEF Draining, QueueEmpty
<1>10. Shown'
  BY <1>1, <1>7 DEF Inv, Shown, Settled
<1> QED BY <1>5, <1>8, <1>9, <1>10 DEF Inv

LEMMA DrainFrameInv ==
  ASSUME Inv, DrainFrame
  PROVE  Inv'
<1>1. /\ at \in {"receive", "drain", "eof"} /\ at # "receive" /\ hand = <<>> /\ GiveFrame
      /\ hand' = <<Head(codec.held)>> /\ UNCHANGED <<track, eofFlushed, at, byOthers>>
  BY DEF DrainFrame, Free
<1>2. track.state = "Ready"
  BY <1>1, States
<1> QED BY <1>1, <1>2, GivenInv

LEMMA DrainDoneInv ==
  ASSUME Inv, DrainDone
  PROVE  Inv'
<1>1. /\ at = "drain" /\ at' = "loop" /\ UNCHANGED <<eofFlushed, hand, byOthers>>
      /\ codec' = [codec EXCEPT !.more = FALSE]
      /\ track' = [track EXCEPT !.drainRequest = FALSE]
  BY DEF DrainDone, GiveAgain
<1>2. /\ track \in TrackType /\ TypeOK /\ Sent /\ track.state = "Ready"
      /\ codec \in [sent : Nat, held : Seq(Nat), more : BOOLEAN]
  BY <1>1, States DEF TypeOK
<1>3. /\ goal' = goal /\ playing' = playing /\ moved' = moved
      /\ demux' = demux /\ hand' = hand /\ eofFlushed' = eofFlushed
  BY <1>1 DEF byOthers
<1>4. /\ track' \in TrackType
      /\ track'.target = track.target /\ track'.state = track.state
      /\ track'.ring = track.ring /\ track'.pending = track.pending
  BY <1>1, <1>2 DEF TrackType
<1>5. /\ codec' \in [sent : Nat, held : Seq(Nat), more : BOOLEAN]
      /\ codec'.sent = codec.sent /\ codec'.held = codec.held /\ ~codec'.more
  BY <1>1, <1>2
<1> HIDE DEF TrackType
<1>6. TypeOK' /\ Sent'
  BY <1>1, <1>2, <1>3, <1>4, <1>5 DEF TypeOK, Sent
<1>7. Out' = Out /\ Behind' = Behind /\ Wanted' = Wanted
  BY <1>3, <1>4, <1>5, SameWanted DEF Out, Behind
<1>8. Filling'
  BY <1>2, <1>4 DEF Filling
<1>9. Draining'
  BY <1>1, <1>2, <1>3, <1>4, <1>5, <1>7 DEF Inv, Draining
<1>10. Shown'
  BY <1>3, <1>4, <1>7 DEF Inv, Shown, Settled
<1> QED BY <1>6, <1>8, <1>9, <1>10 DEF Inv

LEMMA ReceiveDoneInv ==
  ASSUME Inv, ReceiveDone
  PROVE  Inv'
<1>1. /\ at = "receive" /\ at' = "received" /\ UNCHANGED <<track, eofFlushed, hand, byOthers>>
      /\ codec' = [codec EXCEPT !.more = FALSE] /\ Len(codec.held) <= CodecDelay
      /\ codec \in [sent : Nat, held : Seq(Nat), more : BOOLEAN]
  BY DEF ReceiveDone, GiveAgain, Inv, TypeOK
<1>2. /\ goal' = goal /\ track' = track /\ playing' = playing /\ moved' = moved
      /\ demux' = demux /\ hand' = hand /\ eofFlushed' = eofFlushed
  BY <1>1 DEF byOthers
<1>3. /\ codec' \in [sent : Nat, held : Seq(Nat), more : BOOLEAN]
      /\ codec'.sent = codec.sent /\ codec'.held = codec.held /\ ~codec'.more
  BY <1>1
<1>4. TypeOK' /\ Sent'
  BY <1>1, <1>2, <1>3 DEF Inv, TypeOK, Sent
<1>5. Out' = Out /\ Behind' = Behind /\ Wanted' = Wanted
  BY <1>2, <1>3, SameWanted DEF Out, Behind
<1>6. Filling'
  BY <1>1, <1>2, <1>3, <1>5 DEF Inv, Filling
<1>7. Draining'
  BY <1>1, <1>2, <1>3, <1>5 DEF Inv, Draining
<1>8. Shown'
  BY <1>2, <1>5 DEF Inv, Shown, Settled
<1> QED BY <1>4, <1>6, <1>7, <1>8 DEF Inv

(* No packet is refused, since none is sent while the codec has output left. *)
LEMMA SendPacketInv ==
  ASSUME Inv, SendPacket
  PROVE  Inv'
<1>1. /\ at = "loop" /\ hand = <<>> /\ track.pending = <<>> /\ ~track.drainRequest
      /\ codec.sent # demux.read /\ eofFlushed' = FALSE /\ at' = "receive"
      /\ UNCHANGED <<track, hand, byOthers>>
  BY DEF SendPacket, AtPop, AtGate, Free, QueueEmpty
<1>2. /\ codec \in [sent : Nat, held : Seq(Nat), more : BOOLEAN]
      /\ codec.held \in Seq(Nat) /\ codec.sent \in Nat /\ demux.read \in Nat
      /\ track \in TrackType /\ track.state \in {"Buffering", "Ready"}
      /\ Run(codec.held, codec.sent) /\ codec.sent <= demux.read
      /\ goal.start - 1 <= codec.sent /\ demux.read <= LastFrame /\ goal.start \in Nat
  BY States DEF Inv, TypeOK, Sent, Frames
<1>3. ~codec.more
  <2>1. CASE track.state = "Buffering"
    BY <1>1, <2>1 DEF Inv, Filling
  <2>2. CASE track.state = "Ready"
    BY <1>1, <2>2 DEF Inv, Draining, QueueEmpty
  <2> QED BY <1>2, <2>1, <2>2
<1> DEFINE s == Append(codec.held, codec.sent + 1)
<1>4. /\ s \in Seq(Nat) /\ Len(s) = Len(codec.held) + 1
      /\ Len(codec.held) \in Nat /\ Run(s, codec.sent + 1)
  BY <1>2, AppendRun
<1>5. /\ codec' \in [sent : Nat, held : Seq(Nat), more : BOOLEAN]
      /\ codec'.sent = codec.sent + 1 /\ codec'.held = s /\ ~codec'.more
  <2> DEFINE taken == [codec EXCEPT !.sent = @ + 1]
  <2>1. codec' = [taken EXCEPT !.held = Append(taken.held, taken.sent)]
    BY <1>3 DEF SendPacket
  <2>2. /\ taken \in [sent : Nat, held : Seq(Nat), more : BOOLEAN]
        /\ taken.sent = codec.sent + 1 /\ taken.held = codec.held /\ taken.more = codec.more
    BY <1>2
  <2> HIDE DEF taken, s
  <2>3. codec' = [taken EXCEPT !.held = s]
    BY <2>1, <2>2 DEF s
  <2> QED BY <1>3, <1>4, <2>2, <2>3
<1> HIDE DEF s
<1>6. /\ goal' = goal /\ track' = track /\ playing' = playing /\ moved' = moved
      /\ demux' = demux /\ hand' = hand
  BY <1>1 DEF byOthers
<1>7. TypeOK'
  BY <1>1, <1>5, <1>6 DEF Inv, TypeOK
<1>8. Sent'
  <2>1. /\ goal.start - 1 <= codec.sent + 1 /\ codec.sent + 1 <= demux.read
        /\ demux.eof => demux.read = LastFrame
    BY <1>1, <1>2 DEF Inv, Sent
  <2> QED BY <1>2, <1>4, <1>5, <1>6, <2>1 DEF Sent
<1>9. Out' = Out /\ Behind' = Behind /\ Wanted' = Wanted
  <2>1. Out' = Out
    <3> DEFINE l == Len(codec.held)
               m == Len(codec'.held)
    <3>1. Out' = codec'.sent - m /\ Out = codec.sent - l
      BY DEF Out
    <3>2. codec'.sent = codec.sent + 1 /\ m = l + 1 /\ l \in Nat /\ codec.sent \in Nat
      BY <1>2, <1>4, <1>5
    <3> HIDE DEF l, m
    <3> QED BY <3>1, <3>2
  <2> QED BY <1>6, <2>1, SameWanted DEF Behind
<1>10. Filling'
  <2>1. CASE track.state = "Buffering"
    <3>1. /\ track.target = goal.target /\ track.preferAfter = goal.preferAfter /\ track.postSeek
          /\ track.ring = NewRing
          /\ Len(codec.held) <= CodecDelay
          /\ Window(track.reorder, Out, goal.target, goal.start)
          /\ Len(track.reorder) < PreviewWindow
      BY <1>1, <2>1 DEF Inv, Filling
    <3>2. Len(codec'.held) <= CodecDelay + 1
      <4>1. CodecDelay \in Nat
        BY SeekAssumption
      <4> QED BY <1>4, <1>5, <3>1, <4>1
    <3> QED BY <1>1, <1>5, <1>6, <1>9, <3>1, <3>2 DEF Filling
  <2>2. CASE track.state = "Ready"
    BY <1>6, <2>2 DEF Filling
  <2> QED BY <1>2, <2>1, <2>2
<1>11. Draining'
  BY <1>1, <1>5, <1>6, <1>9 DEF Inv, Draining
<1>12. Shown'
  BY <1>6, <1>9 DEF Inv, Shown, Settled
<1> QED BY <1>7, <1>8, <1>10, <1>11, <1>12 DEF Inv
-----------------------------------------------------------------------------
(* The decode thread: the window fills and is published. *)

LEMMA Candidates ==
  ASSUME WindowSuffices, Inv, track.state = "Buffering"
  PROVE  /\ playing \in BOOLEAN /\ goal.target \in Nat /\ goal.start \in Nat /\ goal.start >= 1
         /\ track.target = goal.target /\ track.preferAfter = goal.preferAfter
         /\ track.target # NoTarget /\ track.postSeek /\ track.ring = NewRing
         /\ track.pending = <<>> /\ hand = <<>> /\ ~track.drainRequest /\ ~eofFlushed
         /\ at \in {"loop", "receive", "received"}
         /\ at # "receive" => ~codec.more /\ Len(codec.held) <= CodecDelay
         /\ Len(codec.held) <= CodecDelay + 1
         /\ Window(track.reorder, Out, goal.target, goal.start)
         /\ Len(track.reorder) \in Nat /\ Len(track.reorder) < 4 /\ Len(codec.held) \in Nat
         /\ CodecDelay \in Nat /\ MaxReorder \in Nat /\ MaxReorder >= CodecDelay + 4
         /\ Out \in Nat /\ goal.start - 1 <= Out /\ Out <= LastFrame /\ LastFrame \in Nat
         /\ codec.sent \in Nat /\ codec.sent <= LastFrame /\ Out + Len(codec.held) = codec.sent
<1>1. /\ playing \in BOOLEAN /\ goal.target \in Nat /\ goal.start \in Nat /\ goal.start >= 1
      /\ codec.held \in Seq(Nat) /\ codec.sent \in Nat /\ codec.sent <= LastFrame
      /\ LastFrame \in Nat /\ CodecDelay \in Nat /\ MaxReorder \in Nat
      /\ demux.read \in Nat
  BY SeekAssumption DEF Inv, TypeOK, Sent, Frames
<1>2. /\ track.target = goal.target /\ track.preferAfter = goal.preferAfter
      /\ track.postSeek /\ track.ring = NewRing
      /\ track.pending = <<>> /\ hand = <<>> /\ ~track.drainRequest /\ ~eofFlushed
      /\ at \in {"loop", "receive", "received"}
      /\ at # "receive" => ~codec.more /\ Len(codec.held) <= CodecDelay
      /\ Len(codec.held) <= CodecDelay + 1
      /\ Window(track.reorder, Out, goal.target, goal.start)
      /\ Len(track.reorder) < 4
  BY DEF Inv, Filling, PreviewWindow
<1>3. track.target # NoTarget
  BY <1>1, <1>2 DEF NoTarget
<1>4. /\ Len(codec.held) \in Nat /\ Len(track.reorder) \in Nat /\ Out \in Int
  BY Lengths DEF Inv
<1>5. MaxReorder >= CodecDelay + 4
  BY DEF WindowSuffices, PreviewWindow
<1>6. Out + Len(codec.held) = codec.sent /\ Out <= codec.sent
  <2> DEFINE l == Len(codec.held)
  <2>1. Out = codec.sent - l /\ l \in Nat
    BY <1>4 DEF Out
  <2> HIDE DEF l
  <2>2. Out + l = codec.sent /\ Out <= codec.sent
    BY <1>1, <2>1
  <2> QED BY <2>2 DEF l
<1>7. goal.start - 1 <= Out
  <2> DEFINE l == Len(track.reorder)
  <2>1. l <= Out - goal.start + 1 /\ l \in Nat
    BY <1>2, <1>4 DEF Window
  <2> HIDE DEF l
  <2> QED BY <1>1, <1>4, <2>1
<1>8. Out \in Nat /\ Out <= LastFrame
  BY <1>1, <1>4, <1>6, <1>7
<1> HIDE DEF NoTarget, NewRing
<1> QED BY <1>1, <1>2, <1>3, <1>4, <1>5, <1>6, <1>7, <1>8

LEMMA PublishedInv ==
  ASSUME Inv, track.state = "Buffering", UNCHANGED <<hand, byOthers>>,
         codec' \in [sent : Nat, held : Seq(Nat), more : BOOLEAN],
         codec'.sent = codec.sent, Run(codec'.held, codec.sent),
         eofFlushed' \in BOOLEAN, at' \in {"loop", "received"},
         Published(track', Out')
  PROVE  Inv'
<1>1. /\ goal' = goal /\ playing' = playing /\ moved' = moved
      /\ demux' = demux /\ hand' = hand
  BY DEF byOthers
<1>2. /\ track' \in TrackType
      /\ track'.target = NoTarget /\ track'.state = "Ready" /\ track'.drainRequest
      /\ Follows(track'.ring, Wanted - 1) /\ track'.ring.count > 0 /\ Wanted \in Nat
      /\ Run(track'.pending, Out')
      /\ Wanted - 1 + track'.ring.count + Len(track'.pending) = Out'
      /\ Wanted > goal.start => track'.ring.advanced > 0 /\ track'.ring.retreated = 0
  BY DEF Published
<1>3. track'.pending \in Seq(Nat) /\ track'.ring.count \in Nat
  BY <1>2 DEF TrackType, RingType
<1> HIDE DEF TrackType
<1>4. TypeOK' /\ Sent'
  BY <1>1, <1>2 DEF Inv, TypeOK, Sent
<1>5. hand' = <<>> /\ Len(hand') = 0 /\ \A x : Run(hand', x)
  BY <1>1, EmptyRun, States, Zenon
<1>6. Behind' = Wanted - 1
  <2> DEFINE l == Len(track'.pending)
             h == Len(hand')
             n == track'.ring.count
  <2>1. Behind' = Out' - l - h - n
    BY DEF Behind
  <2>2. l \in Nat /\ h = 0 /\ n \in Nat /\ Wanted \in Nat /\ Wanted - 1 + n + l = Out'
    BY <1>2, <1>3, <1>5
  <2> HIDE DEF l, h, n
  <2> QED BY <2>1, <2>2
<1>7. Wanted' = Wanted
  BY <1>1, SameWanted
<1>8. Filling'
  BY <1>2 DEF Filling
<1>9. Draining'
  <2>1. Follows(track'.ring, Behind')
    BY <1>2, <1>6
  <2> QED BY <1>2, <1>5, <2>1 DEF Draining
<1>10. Shown'
  <2>1. Wanted' = Behind' + 1
    BY <1>2, <1>6, <1>7
  <2> QED BY <1>1, <1>2, <1>7, <2>1 DEF Shown
<1> QED BY <1>4, <1>8, <1>9, <1>10 DEF Inv

LEMMA ReceiveFrameInv ==
  ASSUME WindowSuffices, Inv, ReceiveFrame
  PROVE  Inv'
<1>1. at = "receive" /\ hand = <<>> /\ GiveFrame /\ UNCHANGED <<eofFlushed, byOthers>>
  BY DEF ReceiveFrame, Free
<1>2. CASE track.state = "Ready"
  <2>1. track.target = NoTarget
    BY <1>2, States
  <2>2. hand' = <<Head(codec.held)>> /\ UNCHANGED <<track, at>>
    BY <2>1 DEF ReceiveFrame
  <2> QED BY <1>1, <1>2, <2>2, GivenInv
<1>3. CASE track.state = "Buffering"
  <2> DEFINE q == Collect(track.target, track.reorder, Out + 1)
             t == [track EXCEPT !.reorder = q]
  <2>1. /\ Head(codec.held) = Out + 1 /\ Out' = Out + 1
        /\ codec' \in [sent : Nat, held : Seq(Nat), more : BOOLEAN]
        /\ codec'.sent = codec.sent /\ codec'.held \in Seq(Nat)
        /\ Run(codec'.held, codec.sent)
        /\ Len(codec'.held) = Len(codec.held) - 1 /\ Len(codec.held) \in Nat
    BY <1>1, Given
  <2>2. /\ playing \in BOOLEAN /\ goal.target \in Nat /\ goal.start \in Nat /\ goal.start >= 1
        /\ track.target = goal.target /\ track.preferAfter = goal.preferAfter
        /\ track.target # NoTarget /\ track.postSeek /\ track.ring = NewRing
        /\ track.pending = <<>> /\ ~track.drainRequest /\ ~eofFlushed
        /\ Len(codec.held) <= CodecDelay + 1
        /\ Window(track.reorder, Out, goal.target, goal.start)
        /\ Len(track.reorder) \in Nat /\ Len(track.reorder) < 4
        /\ CodecDelay \in Nat /\ MaxReorder \in Nat /\ MaxReorder >= CodecDelay + 4
        /\ Out \in Nat /\ LastFrame \in Nat
        /\ codec.sent \in Nat /\ codec.sent <= LastFrame /\ Out + Len(codec.held) = codec.sent
        /\ track \in TrackType
    BY <1>3, Candidates, States, Zenon
  <2>3. /\ Window(q, Out + 1, goal.target, goal.start)
        /\ Len(q) \in 1 .. Len(track.reorder) + 1
        /\ Pts(Out + 1) < goal.target => Len(q) <= 2
    <3>1. Len(track.reorder) < MaxReorder
      BY <2>2
    <3> QED BY <2>2, <3>1, CollectWindow
  <2>4. Out + 1 <= LastFrame /\ Out + 1 \in Nat
    <3> DEFINE l == Len(codec.held)
    <3>1. l \in Nat \ {0}
      <4>1. codec.held # <<>> /\ codec.held \in Seq(Nat)
        BY <1>1 DEF GiveFrame, Inv, TypeOK
      <4> QED BY <4>1, EmptySeq, Zenon
    <3>2. Out + l = codec.sent
      BY <2>2
    <3> HIDE DEF l
    <3> QED BY <2>2, <3>1, <3>2
  <2>5. q \in Seq(Nat) /\ Run(q, Out + 1) /\ Len(q) \in Nat /\ Len(q) >= 1
    BY <2>3 DEF Window
  <2> HIDE DEF q
  <2>6. q[Len(q)] = Out + 1
    <3>1. Out + 1 \in Int
      BY <2>2
    <3> QED BY <2>5, <3>1, EndOfRun, Zenon
  <2>7. /\ t \in TrackType /\ t.target = goal.target /\ t.preferAfter = goal.preferAfter
        /\ t.ring = NewRing /\ t.reorder = q /\ t.postSeek /\ t.pending = <<>>
        /\ ~t.drainRequest /\ t.state = "Buffering"
    BY <1>3, <2>2, <2>5 DEF TrackType
  <2>8. /\ UNCHANGED hand
        /\ IF PreviewWindowReady(t) THEN track' = PublishBest(t) /\ at' = "received"
           ELSE track' = t /\ UNCHANGED at
    BY <2>1, <2>2 DEF ReceiveFrame, q
  <2>9. PreviewWindowReady(t) <=> Len(q) >= 4 /\ Pts(Out + 1) >= goal.target
    BY <2>2, <2>6, <2>7 DEF PreviewWindowReady, PreviewWindow
  <2> HIDE DEF t
  <2>10. CASE PreviewWindowReady(t)
    <3>1. t.reorder # <<>>
      BY <2>5, <2>7
    <3>2. Window(t.reorder, Out + 1, goal.target, goal.start)
      BY <2>3, <2>7
    <3>3. Published(PublishBest(t), Out + 1)
      BY <2>2, <2>4, <2>7, <2>9, <2>10, <3>1, <3>2, PublishExact
    <3>4. Published(track', Out')
      BY <2>1, <2>8, <2>10, <3>3
    <3>5. eofFlushed' \in BOOLEAN
      BY <1>1 DEF Inv, TypeOK
    <3> QED BY <1>1, <1>3, <2>1, <2>8, <2>10, <3>4, <3>5, PublishedInv
  <2>11. CASE ~PreviewWindowReady(t)
    <3>1. track' = t /\ at' = at /\ hand' = hand
      BY <2>8, <2>11
    <3>2. /\ goal' = goal /\ playing' = playing /\ moved' = moved
          /\ demux' = demux /\ eofFlushed' = eofFlushed
      BY <1>1 DEF byOthers
    <3>3. Len(q) < 4
      <4> DEFINE l == Len(q)
      <4>1. l \in Nat /\ (Pts(Out + 1) < goal.target => l <= 2)
            /\ ~(l >= 4 /\ Pts(Out + 1) >= goal.target)
        BY <2>3, <2>5, <2>9, <2>11
      <4>2. Pts(Out + 1) \in Nat /\ goal.target \in Nat
        BY <2>2 DEF Pts
      <4> HIDE DEF l
      <4>3. l < 4
        BY <4>1, <4>2
      <4> QED BY <4>3 DEF l
    <3> HIDE DEF TrackType, NewRing
    <3>4. TypeOK' /\ Sent'
      BY <2>1, <2>7, <3>1, <3>2 DEF Inv, TypeOK, Sent
    <3>5. Len(codec'.held) <= CodecDelay + 1
      <4> DEFINE l == Len(codec.held)
                 m == Len(codec'.held)
      <4>1. l \in Nat /\ m = l - 1 /\ l <= CodecDelay + 1 /\ CodecDelay \in Nat
        BY <2>1, <2>2
      <4> HIDE DEF l, m
      <4>2. m <= CodecDelay + 1
        BY <4>1
      <4> QED BY <4>2 DEF m
    <3>6. Window(track'.reorder, Out', goal'.target, goal'.start)
      BY <2>1, <2>3, <2>7, <3>1, <3>2
    <3>7. Filling'
      BY <1>1, <2>2, <2>7, <3>1, <3>2, <3>3, <3>5, <3>6 DEF Filling, PreviewWindow
    <3>8. Draining' /\ Shown'
      BY <2>7, <3>1 DEF Draining, Shown, Settled
    <3> QED BY <3>4, <3>7, <3>8 DEF Inv
  <2> QED BY <2>10, <2>11
<1> QED BY <1>2, <1>3, States

(* A file that ends while the window fills: the codec is emptied into the  *)
(* window, which then holds the last frame, and is published.              *)
LEMMA Flushed ==
  ASSUME WindowSuffices, Inv, track.state = "Buffering", Len(codec.held) <= CodecDelay,
         demux.eof, QueueEmpty
  PROVE  /\ Published(PublishBest(CollectAll(track, codec.held)), LastFrame)
         /\ codec.sent = LastFrame
<1>1. /\ playing \in BOOLEAN /\ goal.target \in Nat /\ goal.start \in Nat /\ goal.start >= 1
      /\ track.target = goal.target /\ track.preferAfter = goal.preferAfter
      /\ track.ring = NewRing
      /\ Window(track.reorder, Out, goal.target, goal.start)
      /\ Len(track.reorder) \in Nat /\ Len(track.reorder) < 4 /\ Len(codec.held) \in Nat
      /\ CodecDelay \in Nat /\ MaxReorder \in Nat /\ MaxReorder >= CodecDelay + 4
      /\ Out \in Nat /\ LastFrame \in Nat
      /\ Out + Len(codec.held) = codec.sent
      /\ track \in TrackType
  BY Candidates, States, Zenon
<1>2. codec.sent = LastFrame /\ codec.held \in Seq(Nat) /\ Run(codec.held, codec.sent)
      /\ goal.start <= LastFrame
  BY DEF Inv, TypeOK, Sent, QueueEmpty, Frames
<1>3. Out + Len(codec.held) = LastFrame /\ Run(codec.held, Out + Len(codec.held))
  BY <1>1, <1>2
<1>4. Len(track.reorder) + Len(codec.held) <= MaxReorder
  <2> DEFINE l == Len(track.reorder)
             m == Len(codec.held)
  <2>1. l \in Nat /\ m \in Nat /\ l < 4 /\ m <= CodecDelay
    BY <1>1
  <2> HIDE DEF l, m
  <2>2. l + m <= MaxReorder
    BY <1>1, <2>1
  <2> QED BY <2>2 DEF l, m
<1>5. Len(track.reorder) + Len(codec.held) > 0
  <2> DEFINE l == Len(track.reorder)
             m == Len(codec.held)
  <2>1. /\ l \in Nat /\ m \in Nat /\ Out + m = LastFrame /\ goal.start <= LastFrame
        /\ l = Out - goal.start + 1 \/ l >= 2
    BY <1>1, <1>2, <1>3 DEF Window
  <2> HIDE DEF l, m
  <2>2. l + m > 0
    BY <1>1, <2>1
  <2> QED BY <2>2 DEF l, m
<1>6. PICK r : /\ CollectAll(track, codec.held) = [track EXCEPT !.reorder = r]
               /\ Window(r, Out + Len(codec.held), track.target, goal.start)
               /\ Len(track.reorder) + Len(codec.held) > 0 => r # <<>>
  <2>1. track.target \in Nat /\ Window(track.reorder, Out, track.target, goal.start)
    BY <1>1
  <2>2. /\ goal.start \in Nat /\ goal.start >= 1 /\ Out \in Nat /\ codec.held \in Seq(Nat)
        /\ Run(codec.held, Out + Len(codec.held))
        /\ Len(track.reorder) + Len(codec.held) <= MaxReorder
    BY <1>1, <1>2, <1>3, <1>4
  <2> DEFINE held == codec.held
             start == goal.start
             out == Out
  <2>3. /\ track.target \in Nat /\ Window(track.reorder, out, track.target, start)
        /\ start \in Nat /\ start >= 1 /\ out \in Nat /\ held \in Seq(Nat)
        /\ Run(held, out + Len(held))
        /\ Len(track.reorder) + Len(held) <= MaxReorder
    BY <2>1, <2>2
  <2> HIDE DEF held, start, out
  <2>4. \E r : /\ CollectAll(track, held) = [track EXCEPT !.reorder = r]
               /\ Window(r, out + Len(held), track.target, start)
               /\ Len(track.reorder) + Len(held) > 0 => r # <<>>
    BY <2>3, CollectAllWindow
  <2> QED BY <2>4, Zenon DEF held, start, out
<1> DEFINE t == CollectAll(track, codec.held)
<1>7. r # <<>> /\ Window(r, LastFrame, goal.target, goal.start) /\ r \in Seq(Nat)
  <2>1. r # <<>>
    BY <1>5, <1>6
  <2>2. Window(r, LastFrame, goal.target, goal.start)
    BY <1>1, <1>3, <1>6
  <2> QED BY <2>1, <2>2 DEF Window
<1>8. /\ t \in TrackType /\ t.target = goal.target /\ t.preferAfter = goal.preferAfter
      /\ t.ring = NewRing /\ t.reorder = r
  <2>1. t = [track EXCEPT !.reorder = r]
    BY <1>6
  <2> HIDE DEF t
  <2> QED BY <1>1, <1>7, <2>1 DEF TrackType
<1> HIDE DEF t
<1>9. Window(t.reorder, LastFrame, goal.target, goal.start) /\ t.reorder # <<>>
  BY <1>7, <1>8
<1>10. Published(PublishBest(t), LastFrame)
  BY <1>1, <1>8, <1>9, PublishExact
<1> QED BY <1>2, <1>10 DEF t

(* What a flush leaves of the codec. *)
LEMMA FlushFields ==
  ASSUME Inv, codec' = FlushedCodec
  PROVE  /\ codec' \in [sent : Nat, held : Seq(Nat), more : BOOLEAN]
         /\ codec'.sent = codec.sent /\ Run(codec'.held, codec.sent) /\ Out' = codec.sent
<1>1. codec \in [sent : Nat, held : Seq(Nat), more : BOOLEAN] /\ codec.sent \in Nat
  BY DEF Inv, TypeOK
<1>2. Run(<<>>, codec.sent) /\ <<>> \in Seq(Nat) /\ Len(<<>>) = 0
  BY EmptyRun, Zenon
<1>3. /\ codec' \in [sent : Nat, held : Seq(Nat), more : BOOLEAN]
      /\ codec'.sent = codec.sent /\ codec'.held = <<>>
  BY <1>1, <1>2 DEF FlushedCodec
<1>4. Run(codec'.held, codec.sent) /\ Len(codec'.held) = 0
  BY <1>2, <1>3, Zenon
<1>5. Out' = codec.sent
  BY <1>1, <1>3, <1>4 DEF Out
<1> QED BY <1>3, <1>4, <1>5

LEMMA AfterReceiveInv ==
  ASSUME WindowSuffices, Inv, AfterReceive
  PROVE  Inv'
<1> DEFINE candidates == track.target # NoTarget /\ track.reorder # <<>>
           ended == candidates /\ demux.eof /\ QueueEmpty
           drained == CollectAll(track, codec.held)
           t == IF ended THEN PublishBest(IF eofFlushed THEN track ELSE drained)
                ELSE IF candidates /\ PreviewWindowReady(track) THEN PublishBest(track)
                ELSE track
<1>1. /\ at = "received" /\ at' = "loop" /\ UNCHANGED <<hand, byOthers>>
      /\ IF ended /\ ~eofFlushed THEN codec' = FlushedCodec /\ eofFlushed' = TRUE
         ELSE UNCHANGED <<codec, eofFlushed>>
      /\ track' = PrerollCompleted(t)
  BY Zenon DEF AfterReceive
<1>2. CASE track.state = "Ready"
  <2>1. ~candidates
    BY <1>2, States
  <2>2. UNCHANGED <<codec, eofFlushed>> /\ track' = PrerollCompleted(track)
    BY <1>1, <2>1
  <2>3. track' = track
    BY <1>2, <2>2 DEF PrerollCompleted
  <2>4. /\ eofFlushed' \in BOOLEAN
        /\ codec.more => track.drainRequest \/ (demux.eof /\ QueueEmpty)
    BY <1>1, <1>2, <2>2 DEF Inv, TypeOK, Draining
  <2> QED BY <1>1, <1>2, <2>2, <2>3, <2>4, GoInv
<1>3. CASE track.state = "Buffering" /\ ended
  <2>1. ~eofFlushed /\ Len(codec.held) <= CodecDelay
    BY <1>1, <1>3, Candidates
  <2>2. /\ Published(PublishBest(drained), LastFrame) /\ codec.sent = LastFrame
    BY <1>3, <2>1, Flushed
  <2>3. t = PublishBest(drained)
    BY <1>3, <2>1
  <2> HIDE DEF t, drained
  <2>4. track' = t
    BY <1>1, <2>2, <2>3 DEF PrerollCompleted, Published
  <2>5. codec' = FlushedCodec /\ eofFlushed' = TRUE
    BY <1>1, <1>3, <2>1
  <2>6. /\ codec' \in [sent : Nat, held : Seq(Nat), more : BOOLEAN]
        /\ codec'.sent = codec.sent /\ Run(codec'.held, codec.sent) /\ Out' = codec.sent
    BY <2>5, FlushFields
  <2>7. Published(track', Out')
    BY <2>2, <2>3, <2>4, <2>6
  <2> QED BY <1>1, <1>3, <2>5, <2>6, <2>7, PublishedInv
<1>4. CASE track.state = "Buffering" /\ ~ended
  <2>1. /\ track.ring = NewRing /\ Len(track.reorder) \in Nat /\ Len(track.reorder) < 4
        /\ ~codec.more /\ Len(codec.held) <= CodecDelay
    BY <1>1, <1>4, Candidates
  <2>2. ~PreviewWindowReady(track)
    BY <2>1 DEF PreviewWindowReady, PreviewWindow
  <2>3. t = track /\ UNCHANGED <<codec, eofFlushed>>
    BY <1>1, <1>4, <2>2
  <2>4. PrerollCompleted(track) = track
    <3>1. track.ring.count = 0 /\ PrerollTarget >= 1 /\ PrerollTarget \in Nat
      BY <2>1, NewFollows, SeekAssumption
    <3>2. ~(track.ring.count >= PrerollTarget)
      BY <3>1
    <3> QED BY <3>2 DEF PrerollCompleted
  <2>5. /\ track' = track /\ codec' = codec /\ eofFlushed' = eofFlushed
        /\ at' = "loop"
    BY <1>1, <2>3, <2>4
  <2>6. /\ goal' = goal /\ playing' = playing /\ moved' = moved
        /\ demux' = demux /\ hand' = hand
    BY <1>1 DEF byOthers
  <2>7. Out' = Out
    BY <2>5 DEF Out
  <2>8. TypeOK' /\ Sent'
    BY <2>5, <2>6 DEF Inv, TypeOK, Sent
  <2>9. Filling'
    BY <1>4, <2>1, <2>5, <2>6, <2>7 DEF Inv, Filling
  <2>10. Draining' /\ Shown'
    BY <1>4, <2>5 DEF Draining, Shown, Settled
  <2> QED BY <2>8, <2>9, <2>10 DEF Inv
<1> QED BY <1>2, <1>3, <1>4, States

LEMMA EofWhileBufferingInv ==
  ASSUME WindowSuffices, Inv, EofWhileBuffering
  PROVE  Inv'
<1> DEFINE t == PublishBest(CollectAll(track, codec.held))
<1>1. /\ at = "loop" /\ track.state = "Buffering" /\ demux.eof /\ QueueEmpty
      /\ codec' = FlushedCodec /\ eofFlushed' = TRUE
      /\ track' = IF t.postSeek THEN [t EXCEPT !.state = "Ready", !.postSeek = FALSE] ELSE t
      /\ at' = at /\ UNCHANGED <<hand, byOthers>>
  BY Zenon DEF EofWhileBuffering, GapAtEof, AtPop, AtGate
<1>2. Len(codec.held) <= CodecDelay
  BY <1>1, Candidates
<1>3. Published(t, LastFrame) /\ codec.sent = LastFrame
  BY <1>1, <1>2, Flushed
<1> HIDE DEF t
<1>4. track' = t
  BY <1>1, <1>3 DEF Published
<1>5. /\ codec' \in [sent : Nat, held : Seq(Nat), more : BOOLEAN]
      /\ codec'.sent = codec.sent /\ Run(codec'.held, codec.sent) /\ Out' = codec.sent
  BY <1>1, FlushFields
<1>6. Published(track', Out')
  BY <1>3, <1>4, <1>5
<1>7. eofFlushed' \in BOOLEAN /\ at' \in {"loop", "received"}
  BY <1>1
<1> QED BY <1>1, <1>5, <1>6, <1>7, PublishedInv
-----------------------------------------------------------------------------
(* Every step keeps the invariant. *)

LEMMA StutterInv ==
  ASSUME Inv, UNCHANGED vars
  PROVE  Inv'
<1>1. /\ goal' = goal /\ track' = track /\ playing' = playing /\ moved' = moved
      /\ demux' = demux /\ codec' = codec /\ at' = at /\ hand' = hand
      /\ eofFlushed' = eofFlushed
  BY DEF vars
<1>2. Out' = Out /\ Behind' = Behind /\ Wanted' = Wanted
  BY <1>1, SameWanted DEF Out, Behind
<1>3. TypeOK' /\ Sent'
  BY <1>1 DEF Inv, TypeOK, Sent
<1>4. Filling'
  BY <1>1, <1>2 DEF Inv, Filling
<1>5. Draining'
  BY <1>1, <1>2 DEF Inv, Draining, QueueEmpty
<1>6. Shown'
  BY <1>1, <1>2 DEF Inv, Shown, Settled
<1> QED BY <1>3, <1>4, <1>5, <1>6 DEF Inv

LEMMA NextInv ==
  ASSUME WindowSuffices, Inv, [Next]_vars
  PROVE  Inv'
<1>1. ASSUME NEW target \in Targets, NEW preferAfter \in BOOLEAN, BeginSeek(target, preferAfter)
      PROVE  Inv'
  BY <1>1, BeginInv
<1>2. CASE Toggle
  BY <1>2, ToggleInv
<1>3. CASE Advance
  BY <1>3, AdvanceInv
<1>4. CASE Retreat
  BY <1>4, RetreatInv
<1>5. CASE DemuxNext
  BY <1>5, DemuxInv
<1>6. CASE DecodeNext
  <2>1. CASE PushFrame
    BY <2>1, PushFrameInv
  <2>2. CASE PublishPending
    BY <2>2, PublishPendingInv
  <2>3. CASE StartDrain
    BY <2>3, StartDrainInv
  <2>4. CASE DrainFrame
    BY <2>4, DrainFrameInv
  <2>5. CASE DrainDone
    BY <2>5, DrainDoneInv
  <2>6. CASE SendPacket
    BY <2>6, SendPacketInv
  <2>7. CASE ReceiveFrame
    BY <2>7, ReceiveFrameInv
  <2>8. CASE ReceiveDone
    BY <2>8, ReceiveDoneInv
  <2>9. CASE AfterReceive
    BY <2>9, AfterReceiveInv
  <2>10. CASE EofWhileBuffering
    BY <2>10, EofWhileBufferingInv
  <2>11. CASE EofDrain
    BY <2>11, EofDrainInv
  <2>12. CASE EofDrained
    BY <2>12, EofDrainedInv
  <2> QED BY <1>6, <2>1, <2>2, <2>3, <2>4, <2>5, <2>6, <2>7, <2>8, <2>9, <2>10, <2>11, <2>12
          DEF DecodeNext
<1>7. CASE UNCHANGED vars
  BY <1>7, StutterInv
<1> QED BY <1>1, <1>2, <1>3, <1>4, <1>5, <1>6, <1>7 DEF Next

(* What the decoder holds at every point of an exact seek: until the       *)
(* preview is out the candidates are the run of frames ending with the one *)
(* decoded last and too few to choose from; from then on the buffer, the   *)
(* frame in hand, the pending frames and the codec hold one run.           *)
THEOREM SeekInvariant ==
  ASSUME WindowSuffices
  PROVE  Spec => []Inv
<1>1. Init => Inv
  BY InitInv
<1>2. Inv /\ [Next]_vars => Inv'
  BY NextInv
<1> QED BY <1>1, <1>2, PTL DEF Spec
-----------------------------------------------------------------------------
(* What the seek promises. *)

LEMMA InvPreview ==
  ASSUME WindowSuffices, Inv
  PROVE  PreviewExact /\ PredecessorKept
<1>1. SUFFICES ASSUME Settled
               PROVE  /\ track.ring.count > 0 /\ Peek(track.ring, 0) = Wanted
                      /\ Wanted > goal.start =>
                           CanRetreat(track.ring) /\ Peek(track.ring, -1) = Wanted - 1
  BY DEF PreviewExact, PredecessorKept
<1>2. /\ Follows(track.ring, Behind) /\ Behind \in Int /\ track.ring.count \in Nat
      /\ track.ring.count > 0 /\ Wanted \in Nat /\ Wanted = Behind + 1
      /\ Wanted > goal.start => track.ring.advanced > 0 /\ track.ring.retreated = 0
  BY <1>1, Lengths DEF Inv, Draining, Shown, Settled
<1>3. /\ \A i \in 0 .. track.ring.count - 1 : Peek(track.ring, i) = Behind + 1 + i
      /\ CanRetreat(track.ring) => Peek(track.ring, -1) = Behind
  BY <1>2, PeekFollows
<1>4. Peek(track.ring, 0) = Wanted
  <2>1. 0 \in 0 .. track.ring.count - 1
    BY <1>2
  <2>2. Peek(track.ring, 0) = Behind + 1 + 0
    BY <1>3, <2>1, Zenon
  <2> QED BY <1>2, <2>2
<1>5. ASSUME Wanted > goal.start
      PROVE  CanRetreat(track.ring) /\ Peek(track.ring, -1) = Wanted - 1
  <2>1. CanRetreat(track.ring)
    BY <1>2, <1>5 DEF CanRetreat, WindowSuffices
  <2> QED BY <1>2, <1>3, <2>1
<1> QED BY <1>2, <1>4, <1>5

(* PreviewExact: when the seek is done the frame at the cursor is the one  *)
(* a reader of the whole file would name, whichever of the three places of *)
(* the loop published it and however few frames had been decoded by then.  *)
THEOREM PreviewCorrect ==
  ASSUME WindowSuffices
  PROVE  Spec => []PreviewExact
<1>1. Inv => PreviewExact
  BY InvPreview
<1> QED BY <1>1, SeekInvariant, PTL

(* PredecessorKept: unless the preview is the first frame decoded, the     *)
(* frame before it is behind the cursor and may be stepped back to.        *)
THEOREM PredecessorCorrect ==
  ASSUME WindowSuffices
  PROVE  Spec => []PredecessorKept
<1>1. Inv => PredecessorKept
  BY InvPreview
<1> QED BY <1>1, SeekInvariant, PTL

LEMMA InvRun ==
  ASSUME WindowSuffices, Inv
  PROVE  NoFrameLost
<1> DEFINE ahead == Forward(track.ring)
           rest == [i \in 1 .. LastFrame - codec.sent |-> codec.sent + i]
           a == ahead \o hand
           b == a \o track.pending
           d == b \o codec.held
           run == d \o rest
<1>1. SUFFICES ASSUME track.state = "Ready"
               PROVE  run # <<>> => run = [i \in 1 .. Len(run) |-> LastFrame - Len(run) + i]
  BY Zenon DEF NoFrameLost
<1>2. /\ Follows(track.ring, Behind) /\ Behind \in Int /\ Out \in Int
      /\ track.ring.count \in Nat /\ Len(hand) \in Nat /\ Len(track.pending) \in Nat
      /\ Len(codec.held) \in Nat
      /\ Run(track.pending, Out) /\ Run(hand, Out - Len(track.pending))
      /\ Run(codec.held, codec.sent)
      /\ codec.sent \in Nat /\ codec.sent <= LastFrame /\ LastFrame \in Nat
  BY <1>1, Lengths, SeekAssumption DEF Inv, TypeOK, Sent, Draining
<1>3. hand \in Seq(Int) /\ track.pending \in Seq(Int) /\ codec.held \in Seq(Int)
  <2>1. hand \in Seq(Nat) /\ track.pending \in Seq(Nat) /\ codec.held \in Seq(Nat)
    BY DEF Inv, TypeOK, TrackType
  <2> QED BY <2>1
<1>4. /\ ahead \in Seq(Int) /\ Len(ahead) = track.ring.count
      /\ Run(ahead, Behind + track.ring.count)
  <2> DEFINE n == track.ring.count
  <2>1. n \in Nat /\ Behind \in Int /\ \A i \in 0 .. n - 1 : Peek(track.ring, i) = Behind + 1 + i
    BY <1>2, PeekFollows
  <2>2. ahead = [i \in 1 .. n |-> Peek(track.ring, i - 1)]
    BY DEF Forward
  <2> HIDE DEF n, ahead
  <2>3. ASSUME NEW i \in 1 .. n
        PROVE  Peek(track.ring, i - 1) = Behind + i /\ Behind + i \in Int
    <3>1. i - 1 \in 0 .. n - 1
      BY <2>1
    <3>2. Peek(track.ring, i - 1) = Behind + 1 + (i - 1)
      BY <2>1, <3>1
    <3> QED BY <2>1, <3>2
  <2>4. ahead = [i \in 1 .. n |-> Behind + i]
    BY <2>2, <2>3
  <2>5. ahead \in Seq(Int) /\ Len(ahead) = n /\ \A i \in 1 .. n : ahead[i] = Behind + i
    BY <2>1, <2>4
  <2>6. Run(ahead, Behind + n)
    <3>1. ASSUME NEW i \in 1 .. Len(ahead) PROVE ahead[i] = (Behind + n) - Len(ahead) + i
      BY <2>1, <2>5
    <3> QED BY <3>1 DEF Run
  <2> QED BY <2>5, <2>6 DEF n
<1>5. rest \in Seq(Int) /\ Len(rest) = LastFrame - codec.sent /\ Run(rest, LastFrame)
  <2> DEFINE s == codec.sent
             n == LastFrame - s
  <2>1. s \in Nat /\ n \in Nat /\ s + n = LastFrame
    BY <1>2
  <2>2. rest = [i \in 1 .. n |-> s + i]
    OBVIOUS
  <2> HIDE DEF s, n, rest
  <2>3. rest \in Seq(Int) /\ Len(rest) = n /\ \A i \in 1 .. n : rest[i] = s + i
    BY <2>1, <2>2
  <2>4. Run(rest, LastFrame)
    <3>1. ASSUME NEW i \in 1 .. Len(rest) PROVE rest[i] = LastFrame - Len(rest) + i
      BY <2>1, <2>3
    <3> QED BY <3>1 DEF Run
  <2> QED BY <2>3, <2>4 DEF n, s
<1> HIDE DEF ahead, rest
<1>6. /\ Behind + track.ring.count = Out - Len(track.pending) - Len(hand)
      /\ Out = codec.sent - Len(codec.held) /\ codec.sent = LastFrame - Len(rest)
  <2> DEFINE p == Len(track.pending)
             h == Len(hand)
             n == track.ring.count
             l == Len(codec.held)
             m == Len(rest)
  <2>1. Behind = Out - p - h - n /\ Out = codec.sent - l /\ m = LastFrame - codec.sent
    BY <1>5 DEF Behind, Out
  <2>2. /\ p \in Nat /\ h \in Nat /\ n \in Nat /\ l \in Nat /\ Out \in Int
        /\ codec.sent \in Nat /\ LastFrame \in Nat
    BY <1>2
  <2> HIDE DEF p, h, n, l, m
  <2>3. Behind + n = Out - p - h /\ Out = codec.sent - l /\ codec.sent = LastFrame - m
    BY <2>1, <2>2
  <2> QED BY <2>3 DEF p, h, n, l, m
<1>7. a \in Seq(Int) /\ Run(a, Out - Len(track.pending))
  <2>1. Out - Len(track.pending) \in Int
    BY <1>2
  <2>2. Run(ahead, Out - Len(track.pending) - Len(hand))
    BY <1>4, <1>6, Zenon
  <2> QED BY <1>2, <1>3, <1>4, <2>1, <2>2, JoinRuns
<1> HIDE DEF a
<1>8. b \in Seq(Int) /\ Run(b, Out)
  BY <1>2, <1>3, <1>7, JoinRuns
<1> HIDE DEF b
<1>9. d \in Seq(Int) /\ Run(d, codec.sent)
  <2>1. Run(b, codec.sent - Len(codec.held))
    BY <1>6, <1>8, Zenon
  <2>2. codec.sent \in Int
    BY <1>2
  <2> QED BY <1>2, <1>3, <1>8, <2>1, <2>2, JoinRuns
<1> HIDE DEF d
<1>10. run \in Seq(Int) /\ Run(run, LastFrame)
  <2>1. LastFrame \in Int /\ Run(d, LastFrame - Len(rest))
    BY <1>2, <1>6, <1>9
  <2> QED BY <1>5, <1>9, <2>1, JoinRuns
<1> HIDE DEF run
<1>11. run = [i \in 1 .. Len(run) |-> LastFrame - Len(run) + i]
  <2>1. \A i \in 1 .. Len(run) : run[i] = LastFrame - Len(run) + i
    BY <1>10, Zenon DEF Run
  <2>2. run = [i \in 1 .. Len(run) |-> run[i]]
    BY <1>10
  <2> QED BY <2>1, <2>2, Zenon
<1> QED BY <1>11

(* NoFrameLost: once the preview is out, what is buffered, being pushed,   *)
(* pending and inside the codec, and the packets yet to be sent, are one   *)
(* run of frames up to the end of the file: none is dropped, none comes    *)
(* twice, and the codec refuses no packet.                                 *)
THEOREM NoneLost ==
  ASSUME WindowSuffices
  PROVE  Spec => []NoFrameLost
<1>1. Inv => NoFrameLost
  BY InvRun
<1> QED BY <1>1, SeekInvariant, PTL
=============================================================================

----------------------- MODULE HypersyncBucketsProofs -----------------------
(***************************************************************************)
(* Every balance of a finished phase is given away exactly once, at the    *)
(* height of its record, which is a division of its place in the walk, for *)
(* every number of keys and snapshot height.                               *)
(***************************************************************************)
EXTENDS HypersyncBuckets, FiniteSetTheorems, TLAPS

\* The keys recorded at a height.
RecordedAt(h) == {i \in 1..walked : placed[i] = h}

\* While the loop runs, the map holds the keys recorded at the current height,
\* the blocks below hold theirs, and nothing is above.
MapIsCurrent ==
  outcome = "running" =>
    /\ balancesMap = RecordedAt(currentBlockHeight)
    /\ currentCounter =< walked
    /\ currentCounter = 0 => balancesMap = {}
    /\ \A i \in 1..walked : placed[i] =< currentBlockHeight
    /\ \A h \in 1..snapshotBlockHeight :
         bucket[h] = IF h < currentBlockHeight THEN RecordedAt(h) ELSE {}

AllWalked == outcome = "flushed" => walked = totalCount

IInv == TypeOK /\ MapIsCurrent /\ AllWalked /\ GiftsMatchRecords

LEMMA InitInv == Init => IInv
<1> SUFFICES ASSUME Init PROVE IInv
  OBVIOUS
<1>1. /\ totalCount \in Nat /\ snapshotBlockHeight \in Nat \ {0}
      /\ outcome = "running" /\ walked = 0
  BY TotalsAssumption, SnapHeightsAssumption DEF Init
<1>2. 1..walked = {} /\ placed \in [1..walked -> 1..snapshotBlockHeight]
  BY <1>1 DEF Init
<1>3. TypeOK
  BY <1>1, <1>2 DEF Init, TypeOK
<1>4. MapIsCurrent /\ AllWalked /\ GiftsMatchRecords
  BY <1>1, <1>2 DEF Init, MapIsCurrent, RecordedAt, AllWalked, GiftsMatchRecords
<1> QED BY <1>3, <1>4 DEF IInv

LEMMA PutKeyKeepsInvariant == IInv /\ PutKey => IInv'
<1> SUFFICES ASSUME IInv, PutKey PROVE IInv'
  OBVIOUS
<1> DEFINE n == walked + 1
           full == BlockIsFull(currentCounter + 1)
           keys == balancesMap \cup {n}
<1>1. /\ outcome = "running" /\ outcome' = "running" /\ walked < totalCount
      /\ walked' = n
      /\ placed' = [i \in 1..n |->
                      IF i = n THEN currentBlockHeight ELSE placed[i]]
      /\ bucket' = IF full THEN [bucket EXCEPT ![currentBlockHeight] = keys]
                   ELSE bucket
      /\ balancesMap' = IF full THEN {} ELSE keys
      /\ currentBlockHeight' = IF full THEN currentBlockHeight + 1
                               ELSE currentBlockHeight
      /\ currentCounter' = IF full THEN 0 ELSE currentCounter + 1
      /\ UNCHANGED << totalCount, snapshotBlockHeight >>
  BY DEF PutKey
<1>2. /\ totalCount \in Nat /\ walked \in Nat /\ n \in 1..totalCount
      /\ snapshotBlockHeight \in Nat \ {0}
      /\ currentBlockHeight \in 1..snapshotBlockHeight
      /\ currentCounter \in Nat /\ currentCounter =< walked
      /\ placed \in [1..walked -> 1..snapshotBlockHeight]
      /\ bucket \in [1..snapshotBlockHeight -> SUBSET (1..totalCount)]
      /\ balancesMap \subseteq 1..totalCount
      /\ totalCount \in Totals /\ snapshotBlockHeight \in SnapHeights
  BY <1>1, TotalsAssumption, SnapHeightsAssumption DEF IInv, TypeOK, MapIsCurrent
<1>3. full \in BOOLEAN /\ (full => currentBlockHeight < snapshotBlockHeight)
  BY DEF BlockIsFull
<1>4. /\ balancesMap = RecordedAt(currentBlockHeight)
      /\ \A i \in 1..walked : placed[i] =< currentBlockHeight
      /\ \A h \in 1..snapshotBlockHeight :
           bucket[h] = IF h < currentBlockHeight THEN RecordedAt(h) ELSE {}
  BY <1>1 DEF IInv, MapIsCurrent
<1> HIDE DEF full
\* The records of the heights after the step.
<1>5. \A h \in 1..snapshotBlockHeight :
        RecordedAt(h)' = IF h = currentBlockHeight THEN keys ELSE RecordedAt(h)
  BY <1>1, <1>2, <1>4 DEF RecordedAt
<1>6. TypeOK'
  <2>1. placed' \in [1..walked' -> 1..snapshotBlockHeight']
    BY <1>1, <1>2
  <2>2. bucket' \in [1..snapshotBlockHeight' -> SUBSET (1..totalCount')]
    BY <1>1, <1>2
  <2>3. balancesMap' \subseteq 1..totalCount'
    BY <1>1, <1>2
  <2>4. /\ walked' \in 0..totalCount'
        /\ currentBlockHeight' \in 1..snapshotBlockHeight'
        /\ currentCounter' \in 0..totalCount'
    BY <1>1, <1>2, <1>3
  <2> QED BY <1>1, <1>2, <2>1, <2>2, <2>3, <2>4 DEF TypeOK
<1>7. MapIsCurrent'
  <2>1. balancesMap' = RecordedAt(currentBlockHeight)'
    <3>1. CASE full
      <4>1. RecordedAt(currentBlockHeight)' = {}
        BY <1>1, <1>2, <1>3, <1>4, <3>1 DEF RecordedAt
      <4> QED BY <1>1, <3>1, <4>1
    <3>2. CASE ~full
      <4>1. RecordedAt(currentBlockHeight)' = keys
        BY <1>1, <1>2, <1>4, <3>2 DEF RecordedAt
      <4> QED BY <1>1, <3>2, <4>1
    <3> QED BY <1>3, <3>1, <3>2
  <2>2. /\ currentCounter' =< walked'
        /\ currentCounter' = 0 => balancesMap' = {}
    BY <1>1, <1>2, <1>3
  <2>3. \A i \in 1..walked' : placed'[i] =< currentBlockHeight'
    BY <1>1, <1>2, <1>3, <1>4
  <2>4. ASSUME NEW h \in 1..snapshotBlockHeight
        PROVE  bucket'[h] = IF h < currentBlockHeight' THEN RecordedAt(h)' ELSE {}
    <3>1. bucket[h] = IF h < currentBlockHeight THEN RecordedAt(h) ELSE {}
      BY <1>4
    <3>2. RecordedAt(h)' = IF h = currentBlockHeight THEN keys ELSE RecordedAt(h)
      BY <1>5
    <3> HIDE DEF keys
    <3>3. CASE full
      <4>1. CASE h = currentBlockHeight
        <5>1. bucket'[h] = keys
          BY <1>1, <1>2, <3>3, <4>1
        <5>2. h < currentBlockHeight'
          BY <1>1, <1>2, <3>3, <4>1
        <5> QED BY <3>2, <4>1, <5>1, <5>2
      <4>2. CASE h # currentBlockHeight
        <5>1. bucket'[h] = bucket[h]
          BY <1>1, <1>2, <3>3, <4>2
        <5>2. h < currentBlockHeight' <=> h < currentBlockHeight
          BY <1>1, <1>2, <3>3, <4>2
        <5> QED BY <3>1, <3>2, <4>2, <5>1, <5>2
      <4> QED BY <4>1, <4>2
    <3>4. CASE ~full
      <4>1. bucket'[h] = bucket[h] /\ currentBlockHeight' = currentBlockHeight
        BY <1>1, <3>4
      <4>2. h < currentBlockHeight => h # currentBlockHeight
        BY <1>2
      <4> QED BY <3>1, <3>2, <4>1, <4>2
    <3> QED BY <1>3, <3>3, <3>4
  <2> QED BY <1>1, <2>1, <2>2, <2>3, <2>4 DEF MapIsCurrent
<1>8. AllWalked' /\ GiftsMatchRecords'
  BY <1>1 DEF AllWalked, GiftsMatchRecords
<1> QED BY <1>6, <1>7, <1>8 DEF IInv

LEMMA FinishKeepsInvariant == IInv /\ FinishPhase => IInv'
<1> SUFFICES ASSUME IInv, FinishPhase PROVE IInv'
  OBVIOUS
<1>1. /\ outcome = "running" /\ outcome' \in {"flushed", "aborted"}
      /\ walked = totalCount
      /\ bucket' = IF SomethingIsLeft
                   THEN [bucket EXCEPT ![currentBlockHeight] = balancesMap]
                   ELSE bucket
      /\ UNCHANGED << totalCount, snapshotBlockHeight, walked,
                      currentBlockHeight, currentCounter, balancesMap, placed >>
  BY DEF FinishPhase
<1>2. TypeOK'
  BY <1>1 DEF IInv, TypeOK
<1>3. /\ balancesMap = RecordedAt(currentBlockHeight)
      /\ \A i \in 1..walked : placed[i] =< currentBlockHeight
      /\ \A h \in 1..snapshotBlockHeight :
           bucket[h] = IF h < currentBlockHeight THEN RecordedAt(h) ELSE {}
      /\ currentCounter = 0 => balancesMap = {}
      /\ currentCounter \in Nat
      /\ currentBlockHeight \in 1..snapshotBlockHeight
      /\ snapshotBlockHeight \in Nat
      /\ bucket \in [1..snapshotBlockHeight -> SUBSET (1..totalCount)]
      /\ placed \in [1..walked -> 1..snapshotBlockHeight]
  BY <1>1, SnapHeightsAssumption, TotalsAssumption DEF IInv, MapIsCurrent, TypeOK
<1>4. ASSUME NEW h \in 1..snapshotBlockHeight
      PROVE  bucket'[h] = RecordedAt(h)
  <2>1. CASE h < currentBlockHeight
    BY <1>1, <1>3, <2>1
  <2>2. CASE h = currentBlockHeight
    <3>1. CASE SomethingIsLeft
      <4>1. bucket'[h] = balancesMap
        BY <1>1, <1>3, <2>2, <3>1
      <4> QED BY <1>3, <2>2, <4>1
    <3>2. CASE ~SomethingIsLeft
      <4>1. balancesMap = {}
        BY <1>3, <3>2 DEF SomethingIsLeft
      <4>2. bucket'[h] = {}
        BY <1>1, <1>3, <2>2, <3>2
      <4> QED BY <1>3, <2>2, <4>1, <4>2
    <3> QED BY <3>1, <3>2
  <2>3. CASE h > currentBlockHeight
    <3>1. RecordedAt(h) = {}
      BY <1>3, <2>3 DEF RecordedAt
    <3> QED BY <1>1, <1>3, <2>3, <3>1
  <2> QED BY <1>3, <2>1, <2>2, <2>3
<1>5. MapIsCurrent' /\ AllWalked'
  BY <1>1 DEF MapIsCurrent, AllWalked
<1>6. GiftsMatchRecords'
  BY <1>1, <1>4 DEF GiftsMatchRecords, RecordedAt
<1> QED BY <1>2, <1>5, <1>6 DEF IInv

THEOREM Invariance == Spec => []IInv
<1>1. IInv /\ [Next]_vars => IInv'
  <2> SUFFICES ASSUME IInv, [Next]_vars PROVE IInv'
    OBVIOUS
  <2>1. CASE AbortPhase
    BY <2>1 DEF AbortPhase, IInv, TypeOK, MapIsCurrent, AllWalked,
                GiftsMatchRecords
  <2>2. CASE UNCHANGED vars
    BY <2>2 DEF vars, IInv, TypeOK, MapIsCurrent, RecordedAt, AllWalked,
                GiftsMatchRecords
  <2> QED BY <2>1, <2>2, PutKeyKeepsInvariant, FinishKeepsInvariant DEF Next
<1> QED BY InitInv, <1>1, PTL DEF Spec

\* However many balances a phase writes and whatever the snapshot height, a
\* flushed phase gives every balance away in the synthetic block of its
\* record's height and in no other (deso/events.go:82-121).
THEOREM GiftsAreRecorded == Spec => []GiftsMatchRecords
<1>1. IInv => GiftsMatchRecords
  BY DEF IInv
<1> QED BY Invariance, <1>1, PTL

\* Every value keeps its type: the height stays within 1 and the snapshot's,
\* where the maps put by the loop are read (deso/events.go:82-121).
THEOREM TypeCorrect == Spec => []TypeOK
<1>1. IInv => TypeOK
  BY DEF IInv
<1> QED BY Invariance, <1>1, PTL

-----------------------------------------------------------------------------
(* Division.                                                                *)

LEMMA MultiplesGrow ==
  ASSUME NEW b \in Nat, NEW x \in Int, NEW y \in Int, x < y
  PROVE  x * b + b =< y * b
<1>1. PICK d \in Nat : y = x + 1 + d
  <2>1. y - x - 1 \in Nat /\ y = x + 1 + (y - x - 1)
    OBVIOUS
  <2> QED BY <2>1
<1>2. y * b = x * b + b + d * b /\ d * b \in Nat
  BY <1>1
<1>3. x * b \in Int
  OBVIOUS
<1> QED BY <1>2, <1>3

LEMMA Quotient ==
  ASSUME NEW b \in Nat \ {0}, NEW x \in Int
  PROVE  \E d, m \in Int : d = x \div b /\ x = d * b + m /\ 0 =< m /\ m < b
<1>1. /\ x \div b \in Int /\ x % b \in Int
      /\ x = (x \div b) * b + (x % b) /\ 0 =< x % b /\ x % b < b
  OBVIOUS
<1> QED BY <1>1

\* What lies between two multiples of b has the lower one's quotient; what is
\* above a multiple has no smaller one.
LEMMA QuotientAtLeast ==
  ASSUME NEW b \in Nat \ {0}, NEW q \in Int, NEW r \in Nat
  PROVE  (q * b + r) \div b >= q
<1> DEFINE x == q * b + r
<1>1. x \in Int
  OBVIOUS
<1>2. PICK d, m \in Int : d = x \div b /\ x = d * b + m /\ 0 =< m /\ m < b
  <2> HIDE DEF x
  <2> QED BY <1>1, Quotient
<1>3. ~ (d < q)
  <2> SUFFICES ASSUME d < q PROVE FALSE
    OBVIOUS
  <2>1. d * b + b =< q * b
    BY MultiplesGrow
  <2>2. d * b \in Int /\ q * b \in Int
    OBVIOUS
  <2> QED BY <1>2, <2>1, <2>2
<1> QED BY <1>2, <1>3

LEMMA QuotientExact ==
  ASSUME NEW b \in Nat \ {0}, NEW q \in Int, NEW r \in Nat, r < b
  PROVE  (q * b + r) \div b = q
<1> DEFINE x == q * b + r
<1>1. x \in Int
  OBVIOUS
<1>2. PICK d, m \in Int : d = x \div b /\ x = d * b + m /\ 0 =< m /\ m < b
  <2> HIDE DEF x
  <2> QED BY <1>1, Quotient
<1>3. ~ (q < d)
  <2> SUFFICES ASSUME q < d PROVE FALSE
    OBVIOUS
  <2>1. q * b + b =< d * b
    BY MultiplesGrow
  <2>2. d * b \in Int /\ q * b \in Int
    OBVIOUS
  <2> QED BY <1>2, <2>1, <2>2
<1>4. x \div b >= q
  BY QuotientAtLeast
<1> QED BY <1>2, <1>3, <1>4

-----------------------------------------------------------------------------
(* The loop is a division.                                                  *)

\* Before the last height the counter is below the size of a block, and the
\* keys walked are those of the blocks closed and those counted.
CountersDivide ==
  outcome = "running" =>
    /\ walked = (currentBlockHeight - 1) * balancesPerBlock + currentCounter
    /\ currentBlockHeight < snapshotBlockHeight =>
         currentCounter < balancesPerBlock

DivInv == IInv /\ CountersDivide /\ PlacedByDivision

LEMMA BlockSize ==
  ASSUME TypeOK
  PROVE  /\ balancesPerBlock \in Nat \ {0}
         /\ totalCount \in Nat /\ snapshotBlockHeight \in Nat \ {0}
BY TotalsAssumption, SnapHeightsAssumption
DEF TypeOK, balancesPerBlock, BalancesPerBlock

\* The next key is put where the division says.
LEMMA NextKeyDivides ==
  ASSUME DivInv, PutKey
  PROVE  BucketHeight(walked + 1, totalCount, snapshotBlockHeight)
           = currentBlockHeight
<1> DEFINE b == balancesPerBlock
           c == currentBlockHeight - 1
<1>1. /\ b \in Nat \ {0} /\ snapshotBlockHeight \in Nat
      /\ currentBlockHeight \in 1..snapshotBlockHeight
      /\ currentCounter \in Nat /\ walked \in Nat /\ c \in Int
  BY BlockSize, TotalsAssumption, SnapHeightsAssumption DEF DivInv, IInv, TypeOK
<1>2. /\ walked = c * b + currentCounter
      /\ currentBlockHeight < snapshotBlockHeight => currentCounter < b
  BY DEF PutKey, DivInv, CountersDivide
<1>3. BucketHeight(walked + 1, totalCount, snapshotBlockHeight)
        = IF 1 + (walked \div b) =< snapshotBlockHeight
          THEN 1 + (walked \div b) ELSE snapshotBlockHeight
  <2>1. (walked + 1) - 1 = walked
    BY <1>1
  <2> QED BY <2>1 DEF BucketHeight, balancesPerBlock
<1> HIDE DEF b, c
<1>4. CASE currentBlockHeight < snapshotBlockHeight
  <2>1. (c * b + currentCounter) \div b = c
    BY <1>1, <1>2, <1>4, QuotientExact
  <2>2. walked \div b = c
    BY <1>2, <2>1
  <2> QED BY <1>1, <1>3, <1>4, <2>2 DEF c
<1>5. CASE currentBlockHeight = snapshotBlockHeight
  <2>1. (c * b + currentCounter) \div b >= c
    BY <1>1, QuotientAtLeast
  <2>2. walked \div b >= c /\ walked \div b \in Int
    BY <1>1, <1>2, <2>1
  <2> QED BY <1>1, <1>3, <1>5, <2>2 DEF c
<1> QED BY <1>1, <1>4, <1>5

LEMMA PutKeyDivides ==
  ASSUME DivInv, PutKey
  PROVE  CountersDivide' /\ PlacedByDivision'
<1> DEFINE b == balancesPerBlock
           full == BlockIsFull(currentCounter + 1)
<1>1. /\ b \in Nat \ {0} /\ snapshotBlockHeight \in Nat
      /\ currentBlockHeight \in 1..snapshotBlockHeight
      /\ currentCounter \in Nat /\ walked \in Nat
  BY BlockSize, TotalsAssumption, SnapHeightsAssumption DEF DivInv, IInv, TypeOK
<1>2. /\ walked' = walked + 1
      /\ placed' = [i \in 1..walked + 1 |->
                      IF i = walked + 1 THEN currentBlockHeight ELSE placed[i]]
      /\ currentBlockHeight' = IF full THEN currentBlockHeight + 1
                               ELSE currentBlockHeight
      /\ currentCounter' = IF full THEN 0 ELSE currentCounter + 1
      /\ UNCHANGED << totalCount, snapshotBlockHeight >>
  BY DEF PutKey
<1>3. /\ walked = (currentBlockHeight - 1) * b + currentCounter
      /\ currentBlockHeight < snapshotBlockHeight => currentCounter < b
  BY DEF PutKey, DivInv, CountersDivide
<1>4. balancesPerBlock' = b
  BY <1>2 DEF balancesPerBlock
<1>5. full <=> currentCounter + 1 >= b
                 /\ currentBlockHeight < snapshotBlockHeight
  BY DEF BlockIsFull
<1> HIDE DEF b, full
<1>6. CountersDivide'
  <2>1. CASE full
    <3>1. currentCounter + 1 = b
      BY <1>1, <1>3, <1>5, <2>1
    <3>2. (currentBlockHeight - 1) * b + b = ((currentBlockHeight + 1) - 1) * b
      BY <1>1
    <3>3. (currentBlockHeight - 1) * b \in Int
      BY <1>1
    <3>4. walked + 1 = ((currentBlockHeight + 1) - 1) * b + 0
      BY <1>1, <1>3, <3>1, <3>2, <3>3
    <3> QED BY <1>1, <1>2, <1>4, <2>1, <3>4 DEF CountersDivide
  <2>2. CASE ~full
    <3>1. (currentBlockHeight - 1) * b \in Int
      BY <1>1
    <3>2. walked + 1 = (currentBlockHeight - 1) * b + (currentCounter + 1)
      BY <1>1, <1>3, <3>1
    <3>3. currentBlockHeight < snapshotBlockHeight => currentCounter + 1 < b
      BY <1>1, <1>3, <1>5, <2>2
    <3> QED BY <1>2, <1>4, <2>2, <3>2, <3>3 DEF CountersDivide
  <2> QED BY <2>1, <2>2
<1>7. PlacedByDivision'
  <2> SUFFICES ASSUME NEW i \in 1..walked + 1
               PROVE  placed'[i] = BucketHeight(i, totalCount, snapshotBlockHeight)
    BY <1>2 DEF PlacedByDivision
  <2>1. CASE i = walked + 1
    BY <1>2, <2>1, NextKeyDivides
  <2>2. CASE i # walked + 1
    <3>1. i \in 1..walked
      BY <1>1, <2>2
    <3> QED BY <1>2, <2>2, <3>1 DEF DivInv, PlacedByDivision
  <2> QED BY <2>1, <2>2
<1> QED BY <1>6, <1>7

LEMMA StepDivides == DivInv /\ IInv' /\ [Next]_vars => DivInv'
<1> SUFFICES ASSUME DivInv, IInv', [Next]_vars PROVE DivInv'
  OBVIOUS
<1>1. CASE PutKey
  BY <1>1, PutKeyDivides DEF DivInv
<1>2. CASE FinishPhase \/ AbortPhase
  <2>1. outcome' # "running"
        /\ UNCHANGED << totalCount, snapshotBlockHeight, walked, placed >>
    BY <1>2 DEF FinishPhase, AbortPhase
  <2> QED BY <2>1 DEF DivInv, CountersDivide, PlacedByDivision
<1>3. CASE UNCHANGED vars
  BY <1>3 DEF vars, DivInv, CountersDivide, PlacedByDivision, balancesPerBlock
<1> QED BY <1>1, <1>2, <1>3 DEF Next

LEMMA InitDivides == Init => DivInv
<1> SUFFICES ASSUME Init PROVE DivInv
  OBVIOUS
<1>1. IInv
  BY InitInv
<1>2. balancesPerBlock \in Nat \ {0}
  BY <1>1, BlockSize DEF IInv
<1>3. walked = 0 /\ currentBlockHeight = 1 /\ currentCounter = 0
  BY DEF Init
<1>4. CountersDivide
  <2>1. (1 - 1) * balancesPerBlock = 0
    BY <1>2
  <2> QED BY <1>2, <1>3, <2>1 DEF CountersDivide
<1>5. PlacedByDivision
  BY <1>3 DEF PlacedByDivision
<1> QED BY <1>1, <1>4, <1>5 DEF DivInv

LEMMA Division == Spec => []DivInv
BY Invariance, InitDivides, StepDivides, PTL DEF Spec

\* The two counters of the loop put the i-th key at the height that the
\* division of i - 1 by the keys per block gives, or at the snapshot height if
\* that is smaller, for every number of keys and every snapshot height: the
\* definition that IndexSync places its gifts by stands for this loop
\* (deso/events.go:72-121).
THEOREM PlacedAsDivided == Spec => []PlacedByDivision
<1>1. DivInv => PlacedByDivision
  BY DEF DivInv
<1> QED BY Division, <1>1, PTL

\* The keys of a block lie between two multiples of its size; those of the last
\* block lie above one.
LEMMA KeysOfBlock ==
  ASSUME TypeOK, NEW h \in 1..snapshotBlockHeight, NEW i \in 1..totalCount,
         BucketHeight(i, totalCount, snapshotBlockHeight) = h
  PROVE  LET low == (h - 1) * balancesPerBlock
         IN  /\ low < i
             /\ h < snapshotBlockHeight => i =< low + balancesPerBlock
<1> DEFINE b == balancesPerBlock
           c == h - 1
<1>1. /\ b \in Nat \ {0} /\ totalCount \in Nat /\ snapshotBlockHeight \in Nat
      /\ c \in Int /\ i \in Int /\ h \in Int /\ i - 1 \in Int
  BY BlockSize
<1>2. PICK d, m \in Int : /\ d = (i - 1) \div b
                          /\ i - 1 = d * b + m /\ 0 =< m /\ m < b
  <2> HIDE DEF b
  <2> QED BY <1>1, Quotient
<1>3. h = IF 1 + d =< snapshotBlockHeight THEN 1 + d ELSE snapshotBlockHeight
  BY <1>2 DEF BucketHeight, balancesPerBlock
<1>4. c =< d /\ (h < snapshotBlockHeight => c = d)
  BY <1>1, <1>3
<1> HIDE DEF b, c
<1>5. c * b =< d * b /\ c * b \in Int /\ d * b \in Int
  <2>1. CASE c = d
    BY <1>1, <2>1
  <2>2. CASE c < d
    <3>1. c * b + b =< d * b
      BY <1>1, <2>2, MultiplesGrow
    <3> QED BY <1>1, <3>1
  <2> QED BY <1>1, <1>4, <2>1, <2>2
<1>6. c * b < i /\ (h < snapshotBlockHeight => i =< c * b + b)
  BY <1>1, <1>2, <1>4, <1>5
<1> QED BY <1>6 DEF b, c

\* The size of a block is the share, or one more; what the last block gets is
\* that and the remainder.
LEMMA BlockSizeIsShare ==
  ASSUME TypeOK
  PROVE  LET H == snapshotBlockHeight
             share == totalCount \div H
         IN  /\ share \in Nat
             /\ balancesPerBlock =< share + 1
             /\ totalCount - (H - 1) * balancesPerBlock =< share + (H - 1)
<1> DEFINE H == snapshotBlockHeight
           b == balancesPerBlock
           share == totalCount \div H
<1>1. b \in Nat \ {0} /\ totalCount \in Nat /\ H \in Nat \ {0}
  BY BlockSize
<1>2. PICK d, m \in Int : /\ d = share /\ totalCount = d * H + m
                          /\ 0 =< m /\ m < H
  <2> HIDE DEF b
  <2> QED BY <1>1, Quotient
<1>3. share \in Nat
  <2>1. SUFFICES ASSUME d < 0 PROVE FALSE
    BY <1>2
  <2>2. d * H + H =< 0 * H
    BY <1>1, <1>2, <2>1, MultiplesGrow
  <2>3. 0 * H = 0 /\ d * H \in Int
    BY <1>1
  <2> HIDE DEF H
  <2> QED BY <1>1, <1>2, <2>2, <2>3
<1>4. CASE totalCount < H
  <2>1. b = 1
    BY <1>4 DEF balancesPerBlock, BalancesPerBlock
  <2>2. (H - 1) * 1 = H - 1
    BY <1>1
  <2> HIDE DEF b, H, share
  <2>3. b =< share + 1 /\ totalCount - (H - 1) * b =< share + (H - 1)
    BY <1>1, <1>3, <1>4, <2>1, <2>2
  <2> QED BY <1>3, <2>3 DEF b, H, share
<1>5. CASE ~(totalCount < H)
  <2>1. b = share
    BY <1>5 DEF balancesPerBlock, BalancesPerBlock
  <2> HIDE DEF b, H, share
  <2>2. (H - 1) * d = d * H - d /\ d * H \in Int
    BY <1>1, <1>2
  <2>3. b =< share + 1 /\ totalCount - (H - 1) * b =< share + (H - 1)
    BY <1>1, <1>2, <2>1, <2>2
  <2> QED BY <1>3, <2>3 DEF b, H, share
<1> QED BY <1>4, <1>5

LEMMA SubInterval ==
  ASSUME NEW low \in Int, NEW high \in Int, NEW n \in Nat,
         NEW S \in SUBSET (low + 1..high), high - low =< n
  PROVE  Cardinality(S) =< n
<1>1. /\ IsFiniteSet(low + 1..high)
      /\ Cardinality(low + 1..high) = IF low + 1 > high THEN 0 ELSE high - (low + 1) + 1
  BY FS_Interval
<1>2. IsFiniteSet(S) /\ Cardinality(S) =< Cardinality(low + 1..high)
  BY <1>1, FS_Subset
<1>3. Cardinality(S) \in Nat
  BY <1>2, FS_CardinalityType
<1> QED BY <1>1, <1>2, <1>3

\* A flushed phase gives away at most one balance more than an even share in
\* every synthetic block but the last, and there less than the snapshot height
\* more: with every number of keys and every snapshot height
\* (deso/events.go:70-76, 110-119).
THEOREM SharesBounded == Spec => []SharesAreBounded
<1>1. DivInv => SharesAreBounded
  <2> SUFFICES ASSUME DivInv, outcome = "flushed",
                      NEW h \in 1..snapshotBlockHeight
               PROVE  Cardinality(bucket[h]) =<
                        totalCount \div snapshotBlockHeight
                          + IF h < snapshotBlockHeight
                            THEN 1 ELSE snapshotBlockHeight - 1
    BY DEF SharesAreBounded
  <2> DEFINE b == balancesPerBlock
             share == totalCount \div snapshotBlockHeight
             low == (h - 1) * b
  <2>1. TypeOK /\ walked = totalCount
        /\ bucket[h] = {i \in 1..totalCount : placed[i] = h}
    BY DEF DivInv, IInv, AllWalked, GiftsMatchRecords
  <2>2. \A i \in bucket[h] :
          i \in 1..totalCount
          /\ BucketHeight(i, totalCount, snapshotBlockHeight) = h
    BY <2>1 DEF DivInv, PlacedByDivision
  <2>3. /\ b \in Nat \ {0} /\ totalCount \in Nat
        /\ snapshotBlockHeight \in Nat \ {0} /\ h \in Nat
    BY <2>1, BlockSize
  <2>4. low \in Int
    <3> HIDE DEF b
    <3> QED BY <2>3
  <2>5. /\ share \in Nat /\ b =< share + 1
        /\ totalCount - (snapshotBlockHeight - 1) * b
             =< share + (snapshotBlockHeight - 1)
    BY <2>1, BlockSizeIsShare
  <2>6. \A i \in bucket[h] :
          low < i /\ (h < snapshotBlockHeight => i =< low + b)
    BY <2>1, <2>2, KeysOfBlock
  <2>7. CASE h < snapshotBlockHeight
    <3> HIDE DEF b, low, share
    <3>1. bucket[h] \in SUBSET (low + 1..low + b)
      BY <2>2, <2>3, <2>4, <2>6, <2>7
    <3>2. Cardinality(bucket[h]) =< share + 1
      <4>1. low + b \in Int /\ share + 1 \in Nat /\ (low + b) - low =< share + 1
        BY <2>3, <2>4, <2>5
      <4> QED BY <2>4, <3>1, <4>1, SubInterval
    <3> QED BY <2>7, <3>2 DEF share
  <2>8. CASE ~(h < snapshotBlockHeight)
    <3>1. h = snapshotBlockHeight /\ low = (snapshotBlockHeight - 1) * b
      BY <2>3, <2>8
    <3> HIDE DEF b, low, share
    <3>2. bucket[h] \in SUBSET (low + 1..totalCount)
      BY <2>2, <2>3, <2>4, <2>6
    <3>3. totalCount - low =< share + (snapshotBlockHeight - 1)
          /\ share + (snapshotBlockHeight - 1) \in Nat
      BY <2>3, <2>5, <3>1
    <3>4. Cardinality(bucket[h]) =< share + (snapshotBlockHeight - 1)
      <4>1. totalCount \in Int
        BY <2>3
      <4> QED BY <2>4, <3>2, <3>3, <4>1, SubInterval
    <3> QED BY <2>8, <3>4 DEF share
  <2> QED BY <2>7, <2>8
<1> QED BY Division, <1>1, PTL
=============================================================================

-------------------------- MODULE HypersyncBuckets --------------------------
(***************************************************************************)
(* One phase of handleSnapshotCompleted (deso/events.go), an iteration at  *)
(* a time: the keys of one chain index are walked in order, every key is   *)
(* written as a snapshot record at currentBlockHeight and collected in     *)
(* balancesMap, and the map is put as the gifts of the synthetic block of  *)
(* that height whenever it holds balancesPerBlock keys.                    *)
(*                                                                         *)
(* The four phases run the same loop over four indices.  A key is named by *)
(* its position in the iteration, 1..totalCount.                           *)
(***************************************************************************)
EXTENDS BalanceIndex

CONSTANTS
  Totals,        \* the numbers of keys the chain index may hold
  SnapHeights    \* the possible FirstSnapshotBlockHeights, none of them 0

ASSUME TotalsAssumption == Totals \subseteq Nat
ASSUME SnapHeightsAssumption == SnapHeights \subseteq Nat \ {0}

VARIABLES
  totalCount,           \* the keys counted by the first pass
  snapshotBlockHeight,  \* FirstSnapshotBlockHeight
  walked,               \* keys the second pass has processed
  currentBlockHeight,
  currentCounter,
  balancesMap,          \* keys collected for currentBlockHeight
  placed,               \* key -> height of its snapshot record
  bucket,               \* height -> keys put as that block's gifts
  outcome               \* of the View call: running, flushed or aborted

vars == << totalCount, snapshotBlockHeight, walked, currentBlockHeight,
           currentCounter, balancesMap, placed, bucket, outcome >>

\* Mutant: the size for few keys whatever their number.
balancesPerBlock_AlwaysOne == 1

balancesPerBlock == BalancesPerBlock(totalCount, snapshotBlockHeight)

TypeOK ==
  /\ totalCount \in Totals
  /\ snapshotBlockHeight \in SnapHeights
  /\ walked \in 0..totalCount
  /\ currentBlockHeight \in 1..snapshotBlockHeight
  /\ currentCounter \in 0..totalCount
  /\ balancesMap \in SUBSET (1..totalCount)
  /\ placed \in [1..walked -> 1..snapshotBlockHeight]
  /\ bucket \in [1..snapshotBlockHeight -> SUBSET (1..totalCount)]
  /\ outcome \in {"running", "flushed", "aborted"}

Init ==
  /\ totalCount \in Totals
  /\ snapshotBlockHeight \in SnapHeights
  /\ walked = 0
  /\ currentBlockHeight = 1
  /\ currentCounter = 0
  /\ balancesMap = {}
  /\ placed = [i \in 1..0 |-> 1]
  /\ bucket = [h \in 1..snapshotBlockHeight |-> {}]
  /\ outcome = "running"

\* Mutants: the last block closes too; a block closes one key late.
BlockIsFull_LastToo(counter) == counter >= balancesPerBlock
BlockIsFull_Late(counter) ==
  counter > balancesPerBlock /\ currentBlockHeight < snapshotBlockHeight

\* The block is full and is not the last one, which takes every later key.
BlockIsFull(counter) ==
  counter >= balancesPerBlock /\ currentBlockHeight < snapshotBlockHeight

\* One iteration of the second pass.
PutKey ==
  /\ outcome = "running"
  /\ walked < totalCount
  /\ walked' = walked + 1
  /\ placed' = [i \in 1..walked + 1 |->
                  IF i = walked + 1 THEN currentBlockHeight ELSE placed[i]]
  /\ LET full == BlockIsFull(currentCounter + 1)
         keys == balancesMap \cup {walked + 1}
     IN  /\ bucket' = IF full
                      THEN [bucket EXCEPT ![currentBlockHeight] = keys]
                      ELSE bucket
         /\ balancesMap' = IF full THEN {} ELSE keys
         /\ currentBlockHeight' =
              IF full THEN currentBlockHeight + 1 ELSE currentBlockHeight
         /\ currentCounter' = IF full THEN 0 ELSE currentCounter + 1
  /\ UNCHANGED << totalCount, snapshotBlockHeight, outcome >>

\* Mutant: off by one, a single key that is left is not put.
SomethingIsLeft_MoreThanOne == currentCounter > 1

SomethingIsLeft == currentCounter > 0

\* After the loop: put what is left, then flush the batch.
FinishPhase ==
  /\ outcome = "running"
  /\ walked = totalCount
  /\ outcome' \in {"flushed", "aborted"}
  /\ bucket' = IF SomethingIsLeft
               THEN [bucket EXCEPT ![currentBlockHeight] = balancesMap]
               ELSE bucket
  /\ UNCHANGED << totalCount, snapshotBlockHeight, walked, currentBlockHeight,
                  currentCounter, balancesMap, placed >>

\* A key or value that cannot be read or decoded ends the phase without a
\* flush; the error is logged and the next phase runs.
AbortPhase ==
  /\ outcome = "running"
  /\ walked < totalCount
  /\ outcome' = "aborted"
  /\ UNCHANGED << totalCount, snapshotBlockHeight, walked, currentBlockHeight,
                  currentCounter, balancesMap, placed, bucket >>

Next == PutKey \/ FinishPhase \/ AbortPhase

Spec == Init /\ [][Next]_vars

-----------------------------------------------------------------------------
\* Every key is given away by exactly one synthetic block, the one at the
\* height of its snapshot record: the lookup and GetBlock then agree on when
\* an account received its balance (deso/events.go:95-118).  A key left in
\* balancesMap, or put under the height after the increment, breaks it.
GiftsMatchRecords ==
  outcome = "flushed" => \A h \in 1..snapshotBlockHeight :
               bucket[h] = {i \in 1..totalCount : placed[i] = h}

\* The loop's two counters amount to a division: IndexSync places the keys by
\* BucketHeight, which stands for this loop (deso/events.go:110-115).
PlacedByDivision ==
  \A i \in 1..walked :
    placed[i] = BucketHeight(i, totalCount, snapshotBlockHeight)

\* A synthetic block holds at most one balance more than an even share of them.
\* The last block takes whatever the division leaves over, and so up to
\* snapshotBlockHeight - 1 more than its share (deso/events.go:70-76, 110-119).
\* The bound holds for a division that is rounded down and for one rounded up.
SharesAreBounded ==
  outcome = "flushed" =>
    \A h \in 1..snapshotBlockHeight :
      Cardinality(bucket[h]) =<
        totalCount \div snapshotBlockHeight
          + IF h < snapshotBlockHeight THEN 1 ELSE snapshotBlockHeight - 1

\* What the comment at deso/events.go:71 wants ("We'll force a ceiling on this
\* because otherwise the last block could amass O(snapshotBlockHeight)
\* balances").  The division of line 72 rounds down, and the last block does.
LastBlockDoesNotAmass ==
  outcome = "flushed" =>
    Cardinality(bucket[snapshotBlockHeight])
      =< totalCount \div snapshotBlockHeight + 1
=============================================================================

------------------------ MODULE LockedStakeIndexProofs ------------------------
(***************************************************************************)
(* The reverse seek finds the newest record of a locked stake, for every   *)
(* set of stakers, validators and epochs, every amount and every height.   *)
(***************************************************************************)
EXTENDS LockedStakeIndex, TLAPS

\* No record is of a block that is not there yet.
RecordsBelowTip == \A r \in db : r.height =< tip

\* r is the newest record of its stake up to height h.
Newest(r, h) ==
  \A q \in db : q.stake = r.stake /\ q.height =< h =>
                  q = r \/ q.height < r.height

\* A stake with a record up to a height has a newest one, which holds what was
\* locked at that height.
NewestHoldsHistory ==
  \A h \in 0..tip, s \in Stakes :
    (\E r \in db : r.stake = s /\ r.height =< h) =>
      \E r \in db : /\ r.stake = s /\ r.height =< h
                    /\ r.balance = history[h][s]
                    /\ Newest(r, h)

IInv == TypeOK /\ RecordsBelowTip /\ NewestHoldsHistory

-----------------------------------------------------------------------------
(* The invariant is inductive.                                              *)

LEMMA InitInv == Init => IInv
<1> SUFFICES ASSUME Init PROVE IInv
  OBVIOUS
<1>1. TypeOK
  BY HeightAssumption, AmountsAssumption DEF Init, TypeOK, Heights
<1>2. RecordsBelowTip /\ NewestHoldsHistory
  BY DEF Init, RecordsBelowTip, NewestHoldsHistory
<1> QED BY <1>1, <1>2 DEF IInv

\* The records and the amounts after a block that touches the stakes of
\* entries.
NewRecord(entries, s) == [stake |-> s, height |-> tip + 1, balance |-> entries[s]]

LEMMA BlockParts ==
  ASSUME IInv, IndexBlock
  PROVE  /\ tip < MaxHeight /\ tip' = tip + 1
         /\ tip \in Int /\ tip' \in Heights
         /\ \E touched \in SUBSET Stakes : \E entries \in [touched -> Amounts] :
              /\ db' = db \cup {NewRecord(entries, s) : s \in touched}
              /\ history' = [history EXCEPT ![tip'] =
                   [s \in Stakes |->
                      IF s \in touched THEN entries[s]
                      ELSE IF tip = -1 THEN 0 ELSE history[tip][s]]]
<1>1. tip < MaxHeight /\ tip' = tip + 1 /\ tip \in Int /\ tip' \in Heights
  BY HeightAssumption DEF IndexBlock, IInv, TypeOK, Heights
<1>2. PICK touched \in SUBSET Stakes : \E entries \in [touched -> Amounts] :
        /\ db' = db \cup {[stake |-> s, height |-> HeightOf(tip'),
                            balance |-> entries[s]] :
                              s \in BalancesToPut(entries)}
        /\ history' = [history EXCEPT ![tip'] =
             [s \in Stakes |->
                IF s \in touched THEN entries[s]
                ELSE IF tip = -1 THEN 0 ELSE history[tip][s]]]
  BY DEF IndexBlock
<1>3. PICK entries \in [touched -> Amounts] :
        /\ db' = db \cup {[stake |-> s, height |-> HeightOf(tip'),
                            balance |-> entries[s]] :
                              s \in BalancesToPut(entries)}
        /\ history' = [history EXCEPT ![tip'] =
             [s \in Stakes |->
                IF s \in touched THEN entries[s]
                ELSE IF tip = -1 THEN 0 ELSE history[tip][s]]]
  BY <1>2
<1>4. BalancesToPut(entries) = touched /\ HeightOf(tip') = tip + 1
  BY <1>1, <1>3 DEF BalancesToPut, HeightOf
<1> QED BY <1>1, <1>3, <1>4 DEF NewRecord

LEMMA BlockInv ==
  ASSUME IInv, IndexBlock
  PROVE  IInv'
<1>1. /\ tip < MaxHeight /\ tip' = tip + 1
      /\ tip \in Int /\ tip' \in Heights
  BY BlockParts
<1>2. PICK touched \in SUBSET Stakes : \E entries \in [touched -> Amounts] :
        /\ db' = db \cup {NewRecord(entries, s) : s \in touched}
        /\ history' = [history EXCEPT ![tip'] =
             [s \in Stakes |->
                IF s \in touched THEN entries[s]
                ELSE IF tip = -1 THEN 0 ELSE history[tip][s]]]
  BY BlockParts
<1>3. PICK entries \in [touched -> Amounts] :
        /\ db' = db \cup {NewRecord(entries, s) : s \in touched}
        /\ history' = [history EXCEPT ![tip'] =
             [s \in Stakes |->
                IF s \in touched THEN entries[s]
                ELSE IF tip = -1 THEN 0 ELSE history[tip][s]]]
  BY <1>2
<1>4. tip = -1 \/ tip \in Heights
  BY DEF IInv, TypeOK, Heights
<1>5. TypeOK'
  <2>1. db' \subseteq [stake : Stakes, height : Heights, balance : Amounts]
    BY <1>1, <1>3 DEF IInv, TypeOK, NewRecord
  <2>2. [s \in Stakes |->
           IF s \in touched THEN entries[s]
           ELSE IF tip = -1 THEN 0 ELSE history[tip][s]] \in [Stakes -> Amounts]
    BY <1>3, <1>4, AmountsAssumption DEF IInv, TypeOK
  <2>3. history' \in [Heights -> [Stakes -> Amounts]]
    BY <1>3, <2>2 DEF IInv, TypeOK
  <2>4. tip' \in -1..MaxHeight
    BY <1>1, HeightAssumption DEF Heights
  <2> QED BY <2>1, <2>3, <2>4 DEF TypeOK
<1>6. \A r \in db : r.height \in Int /\ r.height =< tip /\ r.height < tip + 1
  BY <1>1, HeightAssumption DEF IInv, RecordsBelowTip, TypeOK, Heights
<1>7. RecordsBelowTip'
  BY <1>1, <1>3, <1>6 DEF RecordsBelowTip, NewRecord
<1>8. \A s \in touched : /\ NewRecord(entries, s) \in db'
                         /\ NewRecord(entries, s).stake = s
                         /\ NewRecord(entries, s).height = tip + 1
                         /\ NewRecord(entries, s).balance = entries[s]
  BY <1>3 DEF NewRecord
<1>9. NewestHoldsHistory'
  <2> SUFFICES ASSUME NEW h \in 0..tip + 1, NEW s \in Stakes,
                      NEW q \in db', q.stake = s, q.height =< h
               PROVE  \E r \in db' : /\ r.stake = s /\ r.height =< h
                                     /\ r.balance = history'[h][s]
                                     /\ Newest(r, h)'
    BY <1>1 DEF NewestHoldsHistory
  <2>1. CASE h < tip + 1
    \* The new records are above h.
    <3>1. h \in 0..tip /\ history'[h] = history[h]
      BY <1>1, <1>3, <2>1 DEF IInv, TypeOK
    <3>2. q \in db
      BY <1>1, <1>3, <2>1 DEF NewRecord
    <3>3. PICK r \in db : /\ r.stake = s /\ r.height =< h
                          /\ r.balance = history[h][s]
                          /\ Newest(r, h)
      BY <3>1, <3>2 DEF IInv, NewestHoldsHistory
    <3>4. Newest(r, h)'
      BY <1>1, <1>3, <2>1, <3>3 DEF Newest, NewRecord
    <3> QED BY <1>3, <3>1, <3>3, <3>4
  <2>2. CASE h = tip + 1
    <3>1. history'[h][s] = IF s \in touched THEN entries[s]
                           ELSE IF tip = -1 THEN 0 ELSE history[tip][s]
      BY <1>1, <1>3, <2>2 DEF IInv, TypeOK
    <3>2. CASE s \in touched
      <4>1. PICK r \in db' : r = NewRecord(entries, s)
        BY <1>8, <3>2
      <4>2. \A p \in db' : p.stake = s => p = r \/ p.height < tip + 1
        BY <1>3, <1>6, <4>1 DEF NewRecord
      <4>3. r.stake = s /\ r.height = tip + 1 /\ r.balance = entries[s]
        BY <1>8, <3>2, <4>1
      <4>4. Newest(r, h)'
        BY <4>2, <4>3 DEF Newest
      <4> QED BY <1>1, <2>2, <3>1, <3>2, <4>3, <4>4
    <3>3. CASE s \notin touched
      <4>1. \A p \in db' : p.stake = s => p \in db
        BY <1>3, <3>3 DEF NewRecord
      <4>2. q \in db /\ q.height =< tip
        BY <1>6, <4>1
      <4>3. tip \in 0..tip /\ tip # -1
        BY <1>1, <4>2, HeightAssumption DEF IInv, TypeOK, Heights
      <4>4. PICK r \in db : /\ r.stake = s /\ r.height =< tip
                            /\ r.balance = history[tip][s]
                            /\ Newest(r, tip)
        BY <4>2, <4>3 DEF IInv, NewestHoldsHistory
      <4>5. Newest(r, h)'
        BY <1>6, <4>1, <4>4 DEF Newest
      <4>6. r \in db' /\ r.height =< h
        BY <1>3, <1>6, <2>2, <4>4
      <4> QED BY <3>1, <3>3, <4>3, <4>4, <4>5, <4>6
    <3> QED BY <3>2, <3>3
  <2> QED BY <1>1, <2>1, <2>2
<1> QED BY <1>5, <1>7, <1>9 DEF IInv

LEMMA StepKeepsInvariant == IInv /\ [Next]_vars => IInv'
<1> SUFFICES ASSUME IInv, [Next]_vars PROVE IInv'
  OBVIOUS
<1>1. CASE UNCHANGED vars
  BY <1>1 DEF vars, IInv, TypeOK, RecordsBelowTip, NewestHoldsHistory, Newest
<1> QED BY <1>1, BlockInv DEF Next

THEOREM Invariance == Spec => []IInv
BY InitInv, StepKeepsInvariant, PTL DEF Spec

\* Every record and every amount keeps its type (deso/events.go:549-571).
THEOREM TypeCorrect == Spec => []TypeOK
<1>1. IInv => TypeOK
  BY DEF IInv
<1> QED BY Invariance, <1>1, PTL
-----------------------------------------------------------------------------
(* The seek.                                                                *)

\* The order of two keys of one staker, part by part.
Below(k, l) ==
  \/ k[2] < l[2]
  \/ k[2] = l[2] /\ k[3] < l[3]
  \/ k[2] = l[2] /\ k[3] = l[3] /\ k[4] < l[4]
  \/ k[2] = l[2] /\ k[3] = l[3] /\ k[4] = l[4] /\ k[5] =< l[5]

Keys == Nat \X Nat \X Nat \X Nat \X Nat

LEMMA KeyOrder ==
  ASSUME NEW k \in Keys, NEW l \in Keys, k[1] = l[1]
  PROVE  NotAbove(k, l) <=> Below(k, l)
<1>1. /\ k[1] \in Nat /\ k[2] \in Nat /\ k[3] \in Nat /\ k[4] \in Nat
      /\ k[5] \in Nat
      /\ l[1] \in Nat /\ l[2] \in Nat /\ l[3] \in Nat /\ l[4] \in Nat
      /\ l[5] \in Nat
  BY DEF Keys
<1>2. k = l <=> /\ k[2] = l[2] /\ k[3] = l[3] /\ k[4] = l[4] /\ k[5] = l[5]
  BY DEF Keys
<1>3. (\E i \in 1..5 : k[i] < l[i] /\ \A j \in 1..i - 1 : k[j] = l[j])
        <=> \/ k[2] < l[2]
            \/ k[2] = l[2] /\ k[3] < l[3]
            \/ k[2] = l[2] /\ k[3] = l[3] /\ k[4] < l[4]
            \/ k[2] = l[2] /\ k[3] = l[3] /\ k[4] = l[4] /\ k[5] < l[5]
  <2> DEFINE Less(i) == k[i] < l[i] /\ \A j \in 1..i - 1 : k[j] = l[j]
  <2>1. 1..5 = {1, 2, 3, 4, 5}
    OBVIOUS
  <2>2. ~Less(1)
    BY <1>1
  <2>3. Less(2) <=> k[2] < l[2]
    <3>1. 1..2 - 1 = {1}
      OBVIOUS
    <3> QED BY <3>1
  <2>4. Less(3) <=> k[2] = l[2] /\ k[3] < l[3]
    <3>1. 1..3 - 1 = {1, 2}
      OBVIOUS
    <3> QED BY <3>1
  <2>5. Less(4) <=> k[2] = l[2] /\ k[3] = l[3] /\ k[4] < l[4]
    <3>1. 1..4 - 1 = {1, 2, 3}
      OBVIOUS
    <3> QED BY <3>1
  <2>6. Less(5) <=> /\ k[2] = l[2] /\ k[3] = l[3] /\ k[4] = l[4]
                    /\ k[5] < l[5]
    <3>1. 1..5 - 1 = {1, 2, 3, 4}
      OBVIOUS
    <3> QED BY <3>1
  <2> HIDE DEF Less
  <2>7. (\E i \in 1..5 : Less(i))
          <=> Less(1) \/ Less(2) \/ Less(3) \/ Less(4) \/ Less(5)
    BY <2>1
  <2> QED BY <2>2, <2>3, <2>4, <2>5, <2>6, <2>7 DEF Less
<1> QED BY <1>1, <1>2, <1>3 DEF NotAbove, Below

\* What a record is made of.
LEMMA RecordParts ==
  ASSUME TypeOK, NEW r \in db
  PROVE  /\ r.stake \in Stakes /\ r.stake \in Nat \X Nat \X Nat
         /\ r.height \in Nat
         /\ r.balance \in Nat /\ r.balance \in Amounts
<1>1. r \in [stake : Stakes, height : Heights, balance : Amounts]
  BY DEF TypeOK
<1>2. r.stake \in Stakes /\ r.height \in Heights /\ r.balance \in Amounts
  BY <1>1
<1>3. r.height \in Nat
  BY <1>2, HeightAssumption DEF Heights
<1>4. r.stake \in Nat \X Nat \X Nat
  BY <1>2, StakesAssumption
<1>5. r.balance \in Nat
  BY <1>2, AmountsAssumption
<1> QED BY <1>2, <1>3, <1>4, <1>5

LEMMA KeyParts ==
  ASSUME TypeOK, NEW r \in db
  PROVE  /\ Key(r) \in Keys
         /\ Key(r)[1] = r.stake[1] /\ Key(r)[2] = r.stake[2]
         /\ Key(r)[3] = r.stake[3]
         /\ Key(r)[4] = r.height /\ Key(r)[5] = r.balance
<1>1. r.stake \in Nat \X Nat \X Nat /\ r.height \in Nat /\ r.balance \in Nat
  BY RecordParts
<1> QED BY <1>1 DEF Key, Keys

\* Two records with one key are one record.
LEMMA KeyIsInjective ==
  ASSUME TypeOK, NEW r \in db, NEW q \in db, Key(r) = Key(q)
  PROVE  r = q
<1>1. /\ r \in [stake : Stakes, height : Heights, balance : Amounts]
      /\ q \in [stake : Stakes, height : Heights, balance : Amounts]
  BY DEF TypeOK
<1>2. r.stake \in Nat \X Nat \X Nat /\ q.stake \in Nat \X Nat \X Nat
  BY <1>1, StakesAssumption
<1>3. /\ r.stake[1] = q.stake[1] /\ r.stake[2] = q.stake[2]
      /\ r.stake[3] = q.stake[3]
      /\ r.height = q.height /\ r.balance = q.balance
  BY KeyParts
<1>4. r.stake = q.stake
  BY <1>2, <1>3
<1> QED BY <1>1, <1>3, <1>4

LEMMA SeekKeyParts ==
  ASSUME NEW s \in Stakes, NEW h \in Nat
  PROVE  /\ SeekKey(s, h) \in Keys
         /\ SeekKey(s, h)[1] = s[1] /\ SeekKey(s, h)[2] = s[2]
         /\ SeekKey(s, h)[3] = s[3]
         /\ SeekKey(s, h)[4] = h /\ SeekKey(s, h)[5] = MaxBalance
         /\ \A b \in Amounts : b =< MaxBalance
<1>1. MaxBalance \in Amounts /\ \A b \in Amounts : b =< MaxBalance
  BY AmountsAssumption DEF MaxBalance
<1>2. s \in Nat \X Nat \X Nat /\ MaxBalance \in Nat
  BY <1>1, StakesAssumption, AmountsAssumption
<1> QED BY <1>1, <1>2 DEF SeekKey, Key, Keys

\* The iterator can stop at the newest record of the stake, and at none above
\* it: a key between the two would be of the stake and newer.
LEMMA SeekStopsAtNewest ==
  ASSUME TypeOK, NEW s \in Stakes, NEW h \in Nat,
         NEW r \in db, r.stake = s, r.height =< h, Newest(r, h)
  PROVE  KeyFound(s, h) = r
<1>1. \A q \in db : /\ q.stake \in Nat \X Nat \X Nat
                    /\ q.height \in Nat /\ q.balance \in Nat
                    /\ q.balance \in Amounts
  BY RecordParts
<1>2. s \in Nat \X Nat \X Nat
  BY StakesAssumption
<1>3. r \in Candidates(s, h)
  <2>1. Below(Key(r), SeekKey(s, h))
    BY <1>1, KeyParts, SeekKeyParts DEF Below
  <2>2. NotAbove(Key(r), SeekKey(s, h))
    BY <2>1, KeyParts, SeekKeyParts, KeyOrder
  <2> QED BY <2>2 DEF Candidates
<1>4. ASSUME NEW q \in Candidates(s, h)
      PROVE  NotAbove(Key(q), Key(r))
  <2>1. q \in db /\ q.stake[1] = s[1] /\ NotAbove(Key(q), SeekKey(s, h))
    BY DEF Candidates
  <2>2. Below(Key(q), SeekKey(s, h))
    BY <2>1, KeyParts, SeekKeyParts, KeyOrder
  <2>3. CASE q.stake[2] = s[2] /\ q.stake[3] = s[3]
    <3>1. q.stake = s
      BY <1>1, <1>2, <2>1, <2>3
    <3>2. q.height =< h
      BY <1>1, <2>1, <2>2, <2>3, KeyParts, SeekKeyParts DEF Below
    <3>3. q = r \/ q.height < r.height
      BY <2>1, <3>1, <3>2 DEF Newest
    <3>4. Below(Key(q), Key(r))
      BY <1>1, <2>1, <2>3, <3>3, KeyParts DEF Below
    <3> QED BY <2>1, <3>4, KeyParts, KeyOrder
  <2>4. CASE ~(q.stake[2] = s[2] /\ q.stake[3] = s[3])
    <3>1. Below(Key(q), Key(r))
      BY <1>1, <1>2, <2>1, <2>2, <2>4, KeyParts, SeekKeyParts DEF Below
    <3> QED BY <2>1, <3>1, KeyParts, KeyOrder
  <2> QED BY <2>3, <2>4
<1>5. ASSUME NEW q \in Candidates(s, h),
             \A p \in Candidates(s, h) : NotAbove(Key(p), Key(q))
      PROVE  q = r
  <2>1. q \in db /\ q.stake[1] = s[1]
    BY DEF Candidates
  <2>2. Below(Key(q), Key(r)) /\ Below(Key(r), Key(q))
    BY <1>3, <1>4, <1>5, <2>1, KeyParts, KeyOrder
  <2>3. Key(q)[2] = Key(r)[2] /\ Key(q)[3] = Key(r)[3]
        /\ Key(q)[4] = Key(r)[4] /\ Key(q)[5] = Key(r)[5]
    BY <1>1, <2>1, <2>2, KeyParts DEF Below
  <2>4. Key(q) = Key(r)
    BY <2>1, <2>3, KeyParts DEF Keys
  <2> QED BY <2>1, <2>4, KeyIsInjective
<1> QED BY <1>3, <1>4, <1>5 DEF KeyFound

\* When a stake has a record at or below a height the reverse seek stops at
\* its newest one, which holds what was locked at that height, whatever other
\* validators and epochs the staker has: with any numbers for the parts of a
\* key and any amounts up to the one that the seek key ends with
\* (deso/index.go:113-124, 396-410, deso/events.go:549-571).
THEOREM SeeksFindNewest == Spec => []SeekFindsNewest
<1>1. IInv => SeekFindsNewest
  <2> SUFFICES ASSUME IInv, NEW h \in 0..tip, NEW s \in Stakes,
                      \E r \in db : r.stake = s /\ r.height =< h
               PROVE  /\ KeyFound(s, h).stake = s
                      /\ KeyFound(s, h).balance = history[h][s]
    BY DEF SeekFindsNewest
  <2>1. h \in Nat
    BY HeightAssumption DEF IInv, TypeOK
  <2>2. PICK r \in db : /\ r.stake = s /\ r.height =< h
                        /\ r.balance = history[h][s]
                        /\ Newest(r, h)
    BY DEF IInv, NewestHoldsHistory
  <2>3. KeyFound(s, h) = r
    BY <2>1, <2>2, SeekStopsAtNewest DEF IInv
  <2> QED BY <2>2, <2>3
<1> QED BY Invariance, <1>1, PTL
=============================================================================

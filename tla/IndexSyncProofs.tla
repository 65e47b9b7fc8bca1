--------------------------- MODULE IndexSyncProofs ---------------------------
(***************************************************************************)
(* Type correctness, the exactness and the finality of lookups, that the   *)
(* index of a block-syncing node implements BalanceBook, and that the      *)
(* gifts of the synthetic blocks add up to the balances looked up, for     *)
(* every set of accounts, every sync type and every bound.                 *)
(***************************************************************************)
EXTENDS IndexSync, FoldLemmas

-----------------------------------------------------------------------------
(* Lookups.                                                                 *)

\* If one record of an account is above all its others up to a height, the
\* reverse seek finds it.
LEMMA LookupLatest ==
  ASSUME NEW D, NEW a, NEW h,
         NEW r \in UpTo(D, a, h),
         \A s \in UpTo(D, a, h) : s.height \in Int /\ s.balance \in Int,
         \A s \in UpTo(D, a, h) \ {r} : s.height < r.height
  PROVE  GetBalanceSnapshot(D, a, h) = r.balance
<1>1. \A s \in UpTo(D, a, h) : NotAfter(s, r)
  BY DEF NotAfter
<1>2. ASSUME NEW q \in UpTo(D, a, h), \A s \in UpTo(D, a, h) : NotAfter(s, q)
      PROVE  q = r
  BY <1>2 DEF NotAfter
<1>3. LastKey(UpTo(D, a, h)) = r
  BY <1>1, <1>2 DEF LastKey
<1> QED BY <1>3 DEF GetBalanceSnapshot

\* A lookup depends on nothing but the records of the account up to the height.
LEMMA LookupSame ==
  ASSUME NEW D, NEW E, NEW a, NEW h, NEW k,
         UpTo(D, a, h) = UpTo(E, a, k)
  PROVE  GetBalanceSnapshot(D, a, h) = GetBalanceSnapshot(E, a, k)
BY DEF GetBalanceSnapshot

LEMMA LookupNone ==
  ASSUME NEW D, NEW a, NEW h, UpTo(D, a, h) = {}
  PROVE  GetBalanceSnapshot(D, a, h) = 0
BY DEF GetBalanceSnapshot

-----------------------------------------------------------------------------
(* The heights of the bootstrap.                                            *)

LEMMA BucketHeightRange ==
  ASSUME NEW T \in Nat, NEW H \in Nat \ {0}, NEW i \in Nat \ {0}
  PROVE  BucketHeight(i, T, H) \in 1..H
<1> DEFINE b == BalancesPerBlock(T, H)
<1>1. b \in Nat \ {0}
  BY DEF BalancesPerBlock
<1>2. (i - 1) \div b \in Nat
  <2> HIDE DEF b
  <2> QED BY <1>1
<1> HIDE DEF b
<1> QED BY <1>2 DEF BucketHeight, b

LEMMA PlacementsRange ==
  ASSUME NEW H \in Nat \ {0}, NEW rows \in SUBSET Accounts,
         NEW place \in Placements(rows, H)
  PROVE  place \in [rows -> 1..H]
<1>1. Cardinality(rows) \in Nat
  BY AccountsAssumption, FS_Subset, FS_CardinalityType
<1>2. PICK pos \in Injection(rows, 1..Cardinality(rows)) :
        place = [a \in rows |-> BucketHeight(pos[a], Cardinality(rows), H)]
  BY DEF Placements
<1>3. \A a \in rows : pos[a] \in Nat \ {0}
  BY <1>1, <1>2 DEF Injection
<1>4. \A a \in rows : BucketHeight(pos[a], Cardinality(rows), H) \in 1..H
  BY <1>1, <1>3, BucketHeightRange
<1> QED BY <1>2, <1>4

-----------------------------------------------------------------------------
(* The inductive invariant.                                                 *)

\* A block event whose height is not answered yet.
NewEvent == event # NoEvent /\ tip \notin answers

\* Between two calls the tip is answered; nothing above it ever is.
TipIsAnswered ==
  /\ answers \subseteq 0..tip
  /\ Idle /\ tip >= 0 => tip \in answers
  /\ event # NoEvent => todo = 0
  /\ ~starting => tip >= 0

\* What the chain holds at the tip is the last page of its history.
LedgerIsHistory ==
  ledger = IF tip = -1 THEN Zero ELSE history[tip]

\* The ledger before the block of an event at a height.
Before(h) == IF h = 0 THEN Zero ELSE history[h - 1]

\* A new event is the tip's, the height below is answered, and its entries
\* lead from that height's ledger to the tip's.  Any other is a historical
\* one, and is ignored.
EventIsNext ==
  event # NoEvent =>
    \/ /\ tip \notin answers
       /\ event.height = tip
       /\ tip = 0 \/ tip - 1 \in answers
       /\ history[tip] = AfterBlock(Before(tip), event)
    \/ /\ tip \in answers
       /\ Ignored(event)

\* No record is above the tip, nor at a tip whose event is still running.
RecordsBelowTip ==
  \A r \in db : r.height =< tip /\ (NewEvent => r.height # tip)

\* Before its phase a type has genesis records only; after it, the lookup at
\* the snapshot height is exact.
SnapshotProgress ==
  todo > 0 =>
    /\ tip = first /\ first > 0
    /\ answers = {}
    /\ \A a \in Accounts, i \in 1..4 : AccountType[a] = SnapshotTypes[i] =>
         IF i < todo
         THEN a \notin stale[first] =>
                GetBalanceSnapshot(db, a, first) = ledger[a]
         ELSE \A r \in db : r.acct = a => r.height = 0

\* The newest record of any account, also of a locked stake, holds the balance
\* the chain had.
RecordsAreExact ==
  \A h \in answers : \A a \in Accounts \ stale[h] :
    GetBalanceSnapshot(db, a, h) = history[h][a]

IInv == /\ TypeOK
        /\ TipIsAnswered
        /\ LedgerIsHistory
        /\ EventIsNext
        /\ RecordsBelowTip
        /\ SnapshotProgress
        /\ RecordsAreExact

-----------------------------------------------------------------------------
(* Types of the parts.                                                      *)

LEMMA PartialType ==
  ASSUME NEW S, NEW T, NEW f \in Partial(S, T)
  PROVE  /\ DOMAIN f \subseteq S
         /\ \A x \in DOMAIN f : f[x] \in T
         /\ f = [x \in DOMAIN f |-> f[x]]
BY DEF Partial

LEMMA PartialIntro ==
  ASSUME NEW S, NEW T, NEW d \in SUBSET S, NEW f \in [d -> T]
  PROVE  f \in Partial(S, T)
BY DEF Partial

\* The parts of an event.
LEMMA EventParts ==
  ASSUME NEW e \in Event
  PROVE  /\ e.height \in Heights
         /\ DOMAIN e.entries \subseteq Accounts
         /\ \A a \in DOMAIN e.entries : e.entries[a].amount \in Amounts
         /\ DOMAIN e.swapped \subseteq Accounts
         /\ \A a \in DOMAIN e.swapped : e.swapped[a] \in Amounts
<1>1. e.entries \in Partial(Accounts, Entry) /\ e.swapped \in Partial(Accounts, Amounts)
  BY DEF Event
<1>2. \A a \in DOMAIN e.entries : e.entries[a] \in Entry
  BY <1>1, PartialType
<1> QED BY <1>1, <1>2, PartialType DEF Event, Entry

\* Every enumerated event is one, and leads from ledgers to ledgers.
LEMMA BlockEventType ==
  ASSUME NEW h \in Heights, NEW l \in Ledgers, NEW e \in BlockEvents(h, l)
  PROVE  e \in Event /\ e.height = h
<1>1. e.entries \in Partial(Accounts, Entry)
  BY DEF BlockEvents, Touches, Partial
<1>2. e.swapped \in Swaps(l)
  BY DEF BlockEvents
<1>3. NoSwap \in Partial(Accounts, Amounts)
  <2>1. NoSwap \in [{} -> Amounts]
    BY DEF NoSwap
  <2> QED BY <2>1, PartialIntro
<1>4. ASSUME NEW x \in OfType(CreatorCoinLockedBalance),
             NEW y \in OfType(CreatorCoinLockedBalance)
      PROVE  Swapped(l, x, y) \in Partial(Accounts, Amounts)
  <2>1. {x, y} \in SUBSET Accounts
    BY DEF OfType
  <2>2. Swapped(l, x, y) \in [{x, y} -> Amounts]
    BY <2>1 DEF Ledgers, Swapped
  <2> QED BY <2>1, <2>2, PartialIntro
<1>5. e.swapped \in Partial(Accounts, Amounts)
  BY <1>2, <1>3, <1>4 DEF Swaps
<1> QED BY <1>1, <1>5, ViewsAssumption DEF BlockEvents, Event

LEMMA AfterBlockType ==
  ASSUME NEW l \in Ledgers, NEW e \in Event
  PROVE  AfterBlock(l, e) \in Ledgers
BY EventParts, AmountsAssumption DEF AfterBlock, Ledgers

\* What is put agrees with the ledger after the block, and what is not put
\* has not changed.
LEMMA BalancesToPutExact ==
  ASSUME NEW l \in Ledgers, NEW e \in Event
  PROVE  /\ DOMAIN BalancesToPut(e) \subseteq Accounts
         /\ \A a \in DOMAIN BalancesToPut(e) :
              /\ BalancesToPut(e)[a] \in Amounts
              /\ BalancesToPut(e)[a] = AfterBlock(l, e)[a]
         /\ \A a \in Accounts \ DOMAIN BalancesToPut(e) :
              AfterBlock(l, e)[a] = l[a]
BY EventParts, AmountsAssumption DEF BalancesToPut, AfterBlock, Ledgers

-----------------------------------------------------------------------------
(* Handling a block event.                                                  *)

\* The types of a record set.
LEMMA RecordType ==
  ASSUME TypeOK, NEW r \in db
  PROVE  r.height \in Nat /\ r.balance \in Nat /\ r.acct \in Accounts
BY AmountsAssumption, HeightAssumption DEF TypeOK, Heights

\* A new event of height tip that puts the balances of kept, all of its own or
\* a part of them, keeps the invariant.
LEMMA AnswerNewEvent ==
  ASSUME IInv, NewEvent,
         NEW kept \in SUBSET DOMAIN BalancesToPut(event),
         db' = PutBalanceSnapshot(db, event.height,
                                  Restrict(BalancesToPut(event), kept)),
         Answer(DOMAIN BalancesToPut(event), kept),
         UNCHANGED << tip, first, starting, todo, buckets,
                      ledger, history, failed >>
  PROVE  IInv'
<1> DEFINE bal == BalancesToPut(event)
<1>1. /\ event \in Event /\ event.height = tip /\ tip \in Nat /\ tip \in Heights
      /\ todo = 0 /\ event' = NoEvent
      /\ history \in [Heights -> Ledgers]
      /\ tip = 0 \/ tip - 1 \in answers
      /\ history[tip] = AfterBlock(Before(tip), event)
  BY EventParts, HeightAssumption
  DEF IInv, TypeOK, NewEvent, EventIsNext, TipIsAnswered, Answer, Heights
<1>2. Before(tip) \in Ledgers
  <2>1. CASE tip = 0
    BY <2>1, AmountsAssumption DEF Before, Ledgers, Zero
  <2>2. CASE tip # 0
    BY <1>1, <2>2, HeightAssumption DEF Before, Heights
  <2> QED BY <2>1, <2>2
<1>3. /\ DOMAIN bal \subseteq Accounts
      /\ \A a \in DOMAIN bal : bal[a] \in Amounts /\ bal[a] = history[tip][a]
      /\ \A a \in Accounts \ DOMAIN bal : history[tip][a] = Before(tip)[a]
  BY <1>1, <1>2, BalancesToPutExact
<1>4. db' = db \cup {Record(a, tip, bal[a]) : a \in kept}
  BY <1>1, <1>3 DEF PutBalanceSnapshot, Restrict
<1>5. \A r \in db : r.height \in Nat /\ r.height < tip
                    /\ r.balance \in Nat /\ r.acct \in Accounts
  BY <1>1, RecordType DEF IInv, RecordsBelowTip
<1>6. /\ answers \subseteq Heights /\ stale \in [Heights -> SUBSET Accounts]
      /\ answers \subseteq 0..tip /\ tip \notin answers
  BY DEF IInv, TypeOK, TipIsAnswered, NewEvent
<1>7. answers' = answers \cup {tip}
  BY <1>1 DEF Answer
<1>8. TypeOK'
  <2>1. db' \subseteq [acct : Accounts, height : Heights, balance : Amounts]
    BY <1>1, <1>3, <1>4 DEF IInv, TypeOK, Record
  <2>2. stale' \in [Heights -> SUBSET Accounts]
    <3>1. (DOMAIN bal \cup IF tip = 0 THEN {} ELSE stale[tip - 1]) \subseteq Accounts
      BY <1>1, <1>3, <1>6
    <3> QED BY <1>1, <1>6, <3>1 DEF Answer
  <2> QED BY <1>1, <1>6, <1>7, <2>1, <2>2 DEF IInv, TypeOK
<1>9. TipIsAnswered' /\ EventIsNext' /\ SnapshotProgress' /\ LedgerIsHistory'
  BY <1>1, <1>6, <1>7 DEF IInv, TipIsAnswered, EventIsNext, SnapshotProgress,
                          LedgerIsHistory, Idle
<1>10. RecordsBelowTip'
  BY <1>1, <1>4, <1>5 DEF RecordsBelowTip, NewEvent, Record
<1>11. RecordsAreExact'
  <2> SUFFICES ASSUME NEW h \in answers', NEW a \in Accounts \ stale'[h]
               PROVE  GetBalanceSnapshot(db', a, h) = history[h][a]
    BY <1>1 DEF RecordsAreExact
  <2>1. CASE h # tip
    <3>1. h \in answers /\ h \in Nat /\ h < tip
      BY <1>1, <1>6, <1>7, <2>1
    <3>2. UpTo(db', a, h) = UpTo(db, a, h)
      BY <1>1, <1>4, <3>1 DEF UpTo, Record
    <3>3. a \notin stale[h]
      BY <1>1, <1>6, <2>1, <3>1 DEF Answer
    <3> QED BY <3>1, <3>2, <3>3, LookupSame DEF IInv, RecordsAreExact
  <2>2. CASE h = tip /\ a \in kept
    <3> DEFINE r == Record(a, tip, bal[a])
    <3>1. r \in UpTo(db', a, h) /\ bal[a] \in Nat
      BY <1>1, <1>3, <1>4, <2>2, AmountsAssumption DEF UpTo, Record
    <3>2. \A s \in UpTo(db', a, h) \ {r} : s \in db
      BY <1>4, <2>2 DEF UpTo, Record
    <3>3. \A s \in UpTo(db', a, h) : s.height \in Int /\ s.balance \in Int
      BY <1>1, <1>5, <3>1, <3>2 DEF Record
    <3>4. \A s \in UpTo(db', a, h) \ {r} : s.height < r.height
      BY <1>5, <3>2 DEF Record
    <3>5. GetBalanceSnapshot(db', a, h) = r.balance
      <4> HIDE DEF r
      <4> QED BY <3>1, <3>3, <3>4, LookupLatest
    <3> QED BY <1>3, <2>2, <3>5 DEF Record
  <2>3. CASE h = tip /\ a \notin kept
    <3>1. a \notin DOMAIN bal /\ (tip # 0 => a \notin stale[tip - 1])
      BY <1>1, <1>6, <2>3 DEF Answer
    <3>2. history[h][a] = Before(tip)[a]
      BY <1>3, <2>3, <3>1
    <3>3. CASE tip = 0
      <4>1. UpTo(db', a, h) = {}
        BY <1>4, <1>5, <2>3, <3>3 DEF UpTo, Record
      <4> QED BY <3>2, <3>3, <4>1, LookupNone DEF Before, Zero
    <3>4. CASE tip # 0
      <4>1. UpTo(db', a, h) = UpTo(db, a, tip - 1)
        BY <1>1, <1>4, <1>5, <2>3 DEF UpTo, Record
      <4>2. GetBalanceSnapshot(db, a, tip - 1) = history[tip - 1][a]
        BY <1>1, <3>1, <3>4 DEF IInv, RecordsAreExact
      <4> QED BY <3>2, <3>4, <4>1, <4>2, LookupSame DEF Before
    <3> QED BY <3>3, <3>4
  <2> QED BY <2>1, <2>2, <2>3
<1> QED BY <1>8, <1>9, <1>10, <1>11 DEF IInv

-----------------------------------------------------------------------------
(* Writing a type of the snapshot.                                          *)

LEMMA SnapshotTypesDistinct ==
  /\ \A i \in 1..4 : SnapshotTypes[i] \in BalanceTypes
  /\ \A i, j \in 1..4 : SnapshotTypes[i] = SnapshotTypes[j] => i = j
  /\ \A t \in BalanceTypes : \E i \in 1..4 : t = SnapshotTypes[i]
<1>1. /\ SnapshotTypes[1] = "DESO"
      /\ SnapshotTypes[2] = "creator coin"
      /\ SnapshotTypes[3] = "validator staked"
      /\ SnapshotTypes[4] = "locked stake"
  BY DEF SnapshotTypes, DESOBalance, CreatorCoinLockedBalance,
         ValidatorStakedDESOBalance, LockedStakeDESOBalance
<1>2. \A i \in 1..4 : i = 1 \/ i = 2 \/ i = 3 \/ i = 4
  OBVIOUS
<1>3. \A i, j \in 1..4 : SnapshotTypes[i] = SnapshotTypes[j] => i = j
  BY <1>1, <1>2
<1> QED BY <1>3 DEF BalanceTypes

\* A phase that puts the records of kept, all rows or a part of them, and any
\* of the gifts keeps the invariant when it marks what it lost.
LEMMA PhaseKeepsInvariant ==
  ASSUME IInv, todo > 0,
         NEW rows \in RowSets(SnapshotTypes[todo]),
         NEW place \in Placements(rows, first),
         NEW kept \in SUBSET rows,
         NEW hs \in SUBSET Range(place),
         db' = db \cup RowRecords(kept, place),
         buckets' = PutGifts(SnapshotTypes[todo], rows, place, hs),
         stale' = [stale EXCEPT ![first] =
                     @ \cup Leftovers(SnapshotTypes[todo], rows)
                       \cup (rows \ kept)],
         failed' \subseteq BalanceTypes,
         NextPhase
  PROVE  IInv'
<1> DEFINE t == SnapshotTypes[todo]
<1>1. /\ tip = first /\ first \in Nat \ {0} /\ first \in Heights
      /\ answers = {} /\ todo \in 1..4 /\ t \in BalanceTypes
      /\ event = NoEvent /\ event' = NoEvent
      /\ ledger = history[first] /\ ledger \in Ledgers
  BY SnapshotTypesDistinct, HeightAssumption
  DEF IInv, TypeOK, SnapshotProgress, TipIsAnswered, LedgerIsHistory,
      Heights, NextPhase
<1>2. rows \subseteq OfType(t) /\ rows \subseteq Accounts
      /\ \A a \in OfType(t) \ rows : ledger[a] = 0
  BY DEF RowSets, OfType
<1>3. place \in [rows -> 1..first]
  BY <1>1, <1>2, PlacementsRange
<1>4. UNCHANGED << tip, first, starting, event, ledger, history >>
  BY DEF NextPhase
<1>5. \A r \in db' \ db :
        /\ r.acct \in kept
        /\ r = Record(r.acct, place[r.acct], ledger[r.acct])
  BY DEF RowRecords, Record
<1>6. \A a \in Accounts : ledger[a] \in Amounts /\ ledger[a] \in Nat
  BY <1>1, AmountsAssumption DEF Ledgers
<1>7. TypeOK'
  <2>1. db' \subseteq [acct : Accounts, height : Heights, balance : Amounts]
    <3>1. \A a \in kept : Record(a, place[a], ledger[a])
                          \in [acct : Accounts, height : Heights, balance : Amounts]
      BY <1>1, <1>2, <1>3, <1>6, HeightAssumption DEF Record, Heights
    <3> QED BY <3>1 DEF RowRecords, IInv, TypeOK
  <2>2. hs \X {t} \subseteq Heights \X BalanceTypes
    BY <1>1, <1>3, HeightAssumption DEF Range, Heights
  <2>3. \A k \in hs \X {t} :
          [a \in {r \in rows : place[r] = k[1]} |-> ledger[a]]
             \in Partial(OfType(k[2]), Amounts)
    <3> TAKE k \in hs \X {t}
    <3>1. {r \in rows : place[r] = k[1]} \in SUBSET OfType(k[2])
      BY <1>2
    <3>2. [a \in {r \in rows : place[r] = k[1]} |-> ledger[a]]
            \in [{r \in rows : place[r] = k[1]} -> Amounts]
      BY <1>2, <1>6
    <3> QED BY <3>1, <3>2, PartialIntro
  <2>4. /\ buckets' = [k \in DOMAIN buckets' |-> buckets'[k]]
        /\ DOMAIN buckets' \subseteq Heights \X BalanceTypes
    BY <2>2 DEF PutGifts, IInv, TypeOK
  <2>5. \A k \in DOMAIN buckets' :
          buckets'[k] \in Partial(OfType(k[2]), Amounts)
    BY <2>3 DEF PutGifts, IInv, TypeOK
  <2>6. stale' \in [Heights -> SUBSET Accounts]
    BY <1>2 DEF IInv, TypeOK, Leftovers, OfType
  <2>7. todo' \in 0..4 /\ answers' \subseteq Heights
    BY <1>1 DEF NextPhase, PhaseAfter
  <2> QED BY <1>4, <2>1, <2>4, <2>5, <2>6, <2>7 DEF IInv, TypeOK
<1>8. TipIsAnswered' /\ EventIsNext' /\ LedgerIsHistory'
  BY <1>1, <1>4 DEF IInv, TipIsAnswered, EventIsNext, LedgerIsHistory, Idle,
                    NextPhase, PhaseAfter
<1>9. RecordsBelowTip'
  BY <1>1, <1>2, <1>3, <1>4, <1>5
  DEF IInv, RecordsBelowTip, NewEvent, Record
\* The exactness of the type just written, and of those written before.
<1>10. ASSUME NEW a \in OfType(t), a \notin stale'[first]
       PROVE  GetBalanceSnapshot(db', a, first) = ledger[a]
  <2>1. \A r \in db : r.acct = a => r.height = 0 /\ r.balance \in Nat
    BY <1>1, <1>10, RecordType DEF IInv, SnapshotProgress, OfType
  <2>2. a \notin Leftovers(t, rows) /\ a \notin rows \ kept
    BY <1>1, <1>10 DEF IInv, TypeOK
  <2>3. CASE a \in kept
    <3> DEFINE r == Record(a, place[a], ledger[a])
    <3>1. r \in UpTo(db', a, first) /\ r.height \in Nat /\ r.height > 0
          /\ r.balance = ledger[a] /\ ledger[a] \in Nat
      BY <1>1, <1>2, <1>3, <1>6, <2>3 DEF UpTo, Record, RowRecords
    <3>2. \A s \in UpTo(db', a, first) \ {r} : s \in db /\ s.acct = a
      BY <1>5 DEF UpTo
    <3> HIDE DEF r
    <3>3. \A s \in UpTo(db', a, first) \ {r} :
            s.height \in Int /\ s.height = 0 /\ s.balance \in Int
      BY <2>1, <3>2
    <3>4. \A s \in UpTo(db', a, first) : s.height \in Int /\ s.balance \in Int
      <4> TAKE s \in UpTo(db', a, first)
      <4>1. CASE s = r
        BY <3>1, <4>1
      <4>2. CASE s # r
        BY <3>3, <4>2
      <4> QED BY <4>1, <4>2
    <3>5. \A s \in UpTo(db', a, first) \ {r} : s.height < r.height
      BY <3>1, <3>3
    <3> QED BY <3>1, <3>4, <3>5, LookupLatest
  <2>4. CASE a \notin kept
    <3>1. a \notin rows /\ ledger[a] = 0
      BY <1>2, <1>10, <2>2, <2>4
    <3>2. UpTo(db, a, first) = {}
      BY <1>10, <2>2, <3>1 DEF Leftovers
    <3>3. UpTo(db', a, first) = {}
      BY <1>5, <2>4, <3>2 DEF UpTo
    <3> QED BY <3>1, <3>3, LookupNone
  <2> QED BY <2>3, <2>4
<1>11. ASSUME NEW a \in Accounts, NEW i \in 1..4,
              AccountType[a] = SnapshotTypes[i], i < todo,
              a \notin stale'[first]
       PROVE  GetBalanceSnapshot(db', a, first) = ledger[a]
  <2>1. a \notin OfType(t)
    BY <1>1, <1>11, SnapshotTypesDistinct DEF OfType
  <2>2. UpTo(db', a, first) = UpTo(db, a, first)
    BY <1>2, <1>5, <2>1 DEF UpTo
  <2>3. a \notin stale[first]
    BY <1>1, <1>11 DEF IInv, TypeOK
  <2>4. GetBalanceSnapshot(db, a, first) = ledger[a]
    BY <1>1, <1>11, <2>3 DEF IInv, SnapshotProgress
  <2> QED BY <2>2, <2>4, LookupSame
<1>12. ASSUME NEW a \in Accounts, NEW i \in 1..4,
              AccountType[a] = SnapshotTypes[i], i > todo
       PROVE  \A r \in db' : r.acct = a => r.height = 0
  <2>1. a \notin OfType(t)
    BY <1>1, <1>12, SnapshotTypesDistinct DEF OfType
  <2>2. \A r \in db' : r.acct = a => r \in db
    BY <1>2, <1>5, <2>1
  <2> QED BY <1>1, <1>12, <2>2 DEF IInv, SnapshotProgress
<1>13. ASSUME NEW a \in Accounts, NEW i \in 1..4,
              AccountType[a] = SnapshotTypes[i], i =< todo,
              a \notin stale'[first]
       PROVE  GetBalanceSnapshot(db', a, first) = ledger[a]
  BY <1>1, <1>10, <1>11, <1>13 DEF OfType
<1>14. SnapshotProgress'
  <2> SUFFICES ASSUME todo' > 0
               PROVE  SnapshotProgress'
    BY DEF SnapshotProgress
  <2>1. todo' = todo + 1 /\ answers' = {}
    BY <1>1 DEF NextPhase, PhaseAfter
  <2>2. ASSUME NEW a \in Accounts, NEW i \in 1..4,
               AccountType[a] = SnapshotTypes[i]
        PROVE  IF i < todo'
               THEN a \notin stale'[first'] =>
                      GetBalanceSnapshot(db', a, first') = ledger'[a]
               ELSE \A r \in db' : r.acct = a => r.height = 0
    <3>1. CASE i =< todo
      <4>1. a \notin stale'[first] => GetBalanceSnapshot(db', a, first) = ledger[a]
        BY <1>13, <2>2, <3>1
      <4>2. i < todo' /\ first' = first /\ ledger' = ledger
        BY <1>1, <1>4, <2>1, <3>1
      <4> QED BY <4>1, <4>2
    <3>2. CASE i > todo
      BY <1>1, <1>12, <2>1, <2>2, <3>2
    <3> QED BY <1>1, <3>1, <3>2
  <2>3. tip' = first' /\ first' > 0
    BY <1>1, <1>4
  <2> QED BY <2>1, <2>2, <2>3, Zenon DEF SnapshotProgress
<1>15. RecordsAreExact'
  <2>1. CASE todo # 4
    BY <2>1 DEF RecordsAreExact, NextPhase
  <2>2. CASE todo = 4
    <3>1. answers' = {first}
      BY <2>2 DEF NextPhase
    <3>2. ASSUME NEW a \in Accounts \ stale'[first]
          PROVE  GetBalanceSnapshot(db', a, first) = history[first][a]
      <4>1. PICK i \in 1..4 : AccountType[a] = SnapshotTypes[i]
        BY AccountsAssumption, SnapshotTypesDistinct
      <4>2. i =< todo
        BY <2>2
      <4>3. GetBalanceSnapshot(db', a, first) = ledger[a]
        BY <1>13, <4>1, <4>2
      <4> QED BY <1>1, <4>3
    <3> QED BY <1>4, <3>1, <3>2 DEF RecordsAreExact
  <2> QED BY <2>1, <2>2
<1> QED BY <1>7, <1>8, <1>9, <1>14, <1>15 DEF IInv

-----------------------------------------------------------------------------
(* The steps of the core library.                                           *)

LEMMA InitInv == Init => IInv
<1> SUFFICES ASSUME Init PROVE IInv
  OBVIOUS
<1>1. TypeOK
  <2>1. Zero \in Ledgers
    BY AmountsAssumption DEF Zero, Ledgers
  <2>2. buckets = [k \in {} |-> Zero] /\ DOMAIN buckets = {}
    BY DEF Init
  <2> QED BY <2>1, <2>2, HeightAssumption DEF Init, TypeOK, Heights
<1>2. TipIsAnswered /\ LedgerIsHistory /\ EventIsNext
      /\ RecordsBelowTip /\ SnapshotProgress /\ RecordsAreExact
  BY DEF Init, TipIsAnswered, LedgerIsHistory, EventIsNext, RecordsBelowTip,
         SnapshotProgress, RecordsAreExact
<1> QED BY <1>1, <1>2 DEF IInv

\* Committing the block above an answered tip, or the genesis block.
LEMMA CommitKeepsInvariant ==
  ASSUME IInv, Idle, tip + 1 \in Heights,
         NEW e \in BlockEvents(tip + 1, ledger), CommitEvent(e)
  PROVE  IInv'
<1>1. e \in Event /\ e.height = tip + 1
  BY BlockEventType DEF IInv, TypeOK
<1>2. /\ tip' = tip + 1 /\ event' = e /\ event' # NoEvent
      /\ tip \in Int /\ tip >= -1 /\ todo = 0
      /\ AfterBlock(ledger, e) \in Ledgers
      /\ ledger' = AfterBlock(ledger, e)
      /\ history' = [history EXCEPT ![tip + 1] = AfterBlock(ledger, e)]
      /\ UNCHANGED << first, starting, todo, db, buckets,
                      answers, stale, failed >>
  BY <1>1, AfterBlockType, NoEventAssumption, HeightAssumption
  DEF CommitEvent, IInv, TypeOK, Idle
<1>3. /\ history \in [Heights -> Ledgers] /\ answers \subseteq 0..tip
      /\ tip + 1 \notin answers
  BY <1>2 DEF IInv, TypeOK, TipIsAnswered
<1>4. TypeOK'
  BY <1>1, <1>2, HeightAssumption DEF IInv, TypeOK, Heights
<1>5. TipIsAnswered' /\ LedgerIsHistory' /\ SnapshotProgress'
  BY <1>2, <1>3 DEF IInv, TipIsAnswered, LedgerIsHistory, SnapshotProgress, Idle
<1>6. EventIsNext'
  <2>1. history'[tip'] = AfterBlock(ledger, e)
    BY <1>2, <1>3
  <2>2. Before(tip)' = ledger
    <3>1. CASE tip = -1
      BY <1>2, <3>1 DEF Before, IInv, LedgerIsHistory
    <3>2. CASE tip # -1
      <4>1. tip' # 0 /\ tip' - 1 = tip /\ tip \in Heights
        BY <1>2, <3>2, HeightAssumption DEF Heights
      <4>2. history'[tip] = history[tip] /\ history[tip] = ledger
        BY <1>2, <1>3, <3>2, <4>1 DEF IInv, LedgerIsHistory
      <4> QED BY <4>1, <4>2 DEF Before
    <3> QED BY <3>1, <3>2
  <2>3. tip' = 0 \/ tip' - 1 \in answers'
    BY <1>2 DEF IInv, TipIsAnswered, Idle
  <2>4. (history[tip] = AfterBlock(Before(tip), event))'
    BY <1>2, <2>1, <2>2
  <2> QED BY <1>1, <1>2, <1>3, <2>3, <2>4 DEF EventIsNext
<1>7. RecordsBelowTip'
  BY <1>2, RecordType DEF IInv, RecordsBelowTip
<1>8. RecordsAreExact'
  BY <1>2, <1>3 DEF IInv, RecordsAreExact
<1> QED BY <1>4, <1>5, <1>6, <1>7, <1>8 DEF IInv

LEMMA CoreKeepsInvariant == IInv /\ Core => IInv'
<1> SUFFICES ASSUME IInv, Core PROVE IInv'
  OBVIOUS
<1>1. CASE CommitGenesis
  <2>1. tip + 1 = 0 /\ 0 \in Heights
    BY <1>1, HeightAssumption DEF CommitGenesis, Heights
  <2> QED BY <1>1, <2>1, CommitKeepsInvariant DEF CommitGenesis
<1>2. CASE NewServerReturns
  <2>1. TypeOK'
    <3>1. first' \in Heights
      BY <1>2, HeightAssumption DEF NewServerReturns, Heights
    <3>2. starting' \in BOOLEAN
      BY <1>2 DEF NewServerReturns
    <3>3. UNCHANGED << tip, event, todo, db, buckets,
                       ledger, history, answers, stale, failed >>
      BY <1>2 DEF NewServerReturns
    <3> QED BY <3>1, <3>2, <3>3 DEF IInv, TypeOK
  <2>2. TipIsAnswered' /\ LedgerIsHistory' /\ EventIsNext' /\ SnapshotProgress'
    BY <1>2 DEF NewServerReturns, IInv, TipIsAnswered, LedgerIsHistory,
                EventIsNext, SnapshotProgress, Idle
  <2>3. RecordsBelowTip' /\ RecordsAreExact'
    BY <1>2 DEF NewServerReturns, IInv, RecordsBelowTip, NewEvent,
                RecordsAreExact
  <2> QED BY <2>1, <2>2, <2>3 DEF IInv
<1>3. CASE CommitBlock
  <2>1. tip + 1 \in Heights
    BY <1>3, HeightAssumption DEF CommitBlock, IInv, TypeOK, Heights
  <2> QED BY <1>3, <2>1, CommitKeepsInvariant DEF CommitBlock
<1>4. CASE CompleteSnapshot
  <2>1. PICK h \in Heights \ {0}, l \in Ledgers :
          /\ tip' = h /\ first' = h /\ ledger' = l
          /\ history' = [history EXCEPT ![h] = l]
          /\ stale' = [stale EXCEPT ![h] = {}]
    BY <1>4 DEF CompleteSnapshot
  <2>2. /\ tip = 0 /\ todo' = 1 /\ answers' = {} /\ failed' = {}
        /\ event = NoEvent /\ event' = NoEvent
        /\ UNCHANGED << starting, db, buckets >>
        /\ h \in Nat /\ h > 0
    BY <1>4, <2>1, HeightAssumption DEF CompleteSnapshot, Idle, Heights
  <2>3. TypeOK'
    BY <2>1, <2>2, HeightAssumption DEF IInv, TypeOK, Heights
  <2>4. TipIsAnswered' /\ LedgerIsHistory' /\ EventIsNext' /\ RecordsAreExact'
    BY <2>1, <2>2 DEF IInv, TypeOK, TipIsAnswered, LedgerIsHistory,
                      EventIsNext, RecordsAreExact, Idle
  <2>5. \A r \in db : r.height = 0
    BY <2>2, RecordType DEF IInv, RecordsBelowTip
  <2>6. RecordsBelowTip' /\ SnapshotProgress'
    BY <2>1, <2>2, <2>5 DEF RecordsBelowTip, NewEvent, SnapshotProgress
  <2> QED BY <2>3, <2>4, <2>6 DEF IInv
<1>5. CASE RedeliverHistorical
  <2>a. PICK h \in 1..first : \E e \in BlockEvents(h, history[h]) : event' = e
    BY <1>5 DEF RedeliverHistorical
  <2>1. PICK e \in BlockEvents(h, history[h]) : event' = e
    BY <2>a
  <2>2. /\ event = NoEvent /\ todo = 0 /\ first > 0 /\ tip >= 0
        /\ SyncType \in HyperSyncTypes
        /\ UNCHANGED << tip, first, starting, todo, db, buckets,
                        ledger, history, answers, stale, failed >>
    BY <1>5 DEF RedeliverHistorical, Idle, IInv, TipIsAnswered, HyperSyncTypes
  <2>3. h \in Heights /\ h =< first /\ history[h] \in Ledgers
    BY <2>1, HeightAssumption DEF IInv, TypeOK, Heights
  <2>4. e \in Event /\ e.height = h
    BY <2>3, BlockEventType
  <2>5. tip \in answers
    BY <2>2 DEF IInv, TipIsAnswered, Idle
  <2>6. Ignored(event)'
    BY <2>1, <2>2, <2>3, <2>4 DEF Ignored
  <2>7. TypeOK'
    BY <2>1, <2>2, <2>4 DEF IInv, TypeOK
  <2>8. TipIsAnswered' /\ LedgerIsHistory' /\ EventIsNext' /\ SnapshotProgress'
    BY <2>2, <2>5, <2>6 DEF IInv, TipIsAnswered, LedgerIsHistory,
                            EventIsNext, SnapshotProgress, Idle
  <2>9. RecordsBelowTip' /\ RecordsAreExact'
    BY <2>2, <2>5 DEF IInv, RecordsBelowTip, NewEvent, RecordsAreExact
  <2> QED BY <2>7, <2>8, <2>9 DEF IInv
<1>6. CASE Erase
  <2>1. TypeOK'
    <3>1. Zero \in Ledgers
      BY AmountsAssumption DEF Zero, Ledgers
    <3>2. (buckets = [k \in {} |-> Zero])' /\ (DOMAIN buckets = {})'
      BY <1>6 DEF Erase
    <3> QED BY <1>6, <3>1, <3>2, HeightAssumption
            DEF Erase, IInv, TypeOK, Heights
  <2>2. TipIsAnswered' /\ LedgerIsHistory' /\ EventIsNext'
        /\ RecordsBelowTip' /\ SnapshotProgress' /\ RecordsAreExact'
    BY <1>6 DEF Erase, Idle, TipIsAnswered, LedgerIsHistory, EventIsNext,
                RecordsBelowTip, SnapshotProgress, RecordsAreExact
  <2> QED BY <2>1, <2>2 DEF IInv
<1> QED BY <1>1, <1>2, <1>3, <1>4, <1>5, <1>6 DEF Core

-----------------------------------------------------------------------------
(* The steps of the handlers.                                               *)

\* A block that is not indexed puts nothing.
LEMMA PutNothing ==
  ASSUME NEW D, NEW h, NEW f
  PROVE  PutBalanceSnapshot(D, h, Restrict(f, {})) = D
BY DEF PutBalanceSnapshot, Restrict

LEMMA HandlersKeepInvariant == IInv /\ Handlers => IInv'
<1> SUFFICES ASSUME IInv, Handlers PROVE IInv'
  OBVIOUS
<1>1. CASE IgnoreBlock
  <2>1. CASE event.height = tip /\ tip \notin answers
    <3>1. db' = PutBalanceSnapshot(db, event.height,
                                   Restrict(BalancesToPut(event), {}))
      BY <1>1, PutNothing DEF IgnoreBlock
    <3> QED BY <1>1, <2>1, <3>1, AnswerNewEvent DEF IgnoreBlock, NewEvent
  <2>2. CASE ~(event.height = tip /\ tip \notin answers)
    <3>1. tip \in answers
      BY <1>1, <2>2 DEF IgnoreBlock, IInv, EventIsNext
    <3>2. /\ event' = NoEvent
          /\ UNCHANGED << tip, first, starting, todo, db, buckets,
                          ledger, history, answers, stale, failed >>
      BY <1>1, <2>2 DEF IgnoreBlock
    <3>3. TypeOK' /\ TipIsAnswered' /\ LedgerIsHistory' /\ EventIsNext'
      BY <3>1, <3>2 DEF IInv, TypeOK, TipIsAnswered, LedgerIsHistory, EventIsNext
    <3>4. RecordsBelowTip' /\ SnapshotProgress' /\ RecordsAreExact'
      BY <3>2 DEF IInv, RecordsBelowTip, NewEvent, SnapshotProgress,
                  RecordsAreExact
    <3> QED BY <3>3, <3>4 DEF IInv
  <2> QED BY <2>1, <2>2
<1>2. CASE DropBlock
  <2>1. NewEvent
    BY <1>2 DEF DropBlock, NewEvent, IInv, EventIsNext
  <2>2. db' = PutBalanceSnapshot(db, event.height,
                                 Restrict(BalancesToPut(event), {}))
    BY <1>2, PutNothing DEF DropBlock
  <2> QED BY <1>2, <2>1, <2>2, AnswerNewEvent DEF DropBlock
<1>3. CASE IndexBlock \/ LoseBlock
  <2>1. PICK kept \in SUBSET DOMAIN BalancesToPut(event) : PutBlock(kept)
    BY <1>3 DEF IndexBlock, LoseBlock
  <2>2. NewEvent
    BY <1>3 DEF IndexBlock, LoseBlock, NewEvent, IInv, EventIsNext
  <2> QED BY <2>1, <2>2, AnswerNewEvent DEF PutBlock
<1>4. CASE WriteSnapshotType
  <2>1. todo > 0 /\ NextPhase /\ failed' = failed
    BY <1>4 DEF WriteSnapshotType
  <2>a. PICK rows \in RowSets(SnapshotTypes[todo]) :
          \E place \in Placements(rows, first) :
            /\ db' = db \cup RowRecords(rows, place)
            /\ buckets' = PutGifts(SnapshotTypes[todo], rows, place, Range(place))
            /\ stale' = [stale EXCEPT ![first] =
                           @ \cup Leftovers(SnapshotTypes[todo], rows)]
    BY <1>4 DEF WriteSnapshotType
  <2>2. PICK place \in Placements(rows, first) :
          /\ db' = db \cup RowRecords(rows, place)
          /\ buckets' = PutGifts(SnapshotTypes[todo], rows, place, Range(place))
          /\ stale' = [stale EXCEPT ![first] =
                         @ \cup Leftovers(SnapshotTypes[todo], rows)]
    BY <2>a
  <2>3. stale' = [stale EXCEPT ![first] =
                    @ \cup Leftovers(SnapshotTypes[todo], rows)
                      \cup (rows \ rows)]
    <3>1. stale[first] \cup Leftovers(SnapshotTypes[todo], rows)
            \cup (rows \ rows)
          = stale[first] \cup Leftovers(SnapshotTypes[todo], rows)
      OBVIOUS
    <3> QED BY <2>2, <3>1
  <2>4. failed' \subseteq BalanceTypes
    BY <2>1 DEF IInv, TypeOK
  <2> QED BY <2>1, <2>2, <2>3, <2>4, PhaseKeepsInvariant
<1>5. CASE FailSnapshotType
  <2>1. todo > 0 /\ NextPhase
    BY <1>5 DEF FailSnapshotType
  <2>2. \E rows \in RowSets(SnapshotTypes[todo]) :
        \E place \in Placements(rows, first) :
        \E kept \in SUBSET rows : \E hs \in SUBSET Range(place) :
          /\ db' = db \cup RowRecords(kept, place)
          /\ buckets' = PutGifts(SnapshotTypes[todo], rows, place, hs)
          /\ stale' = [stale EXCEPT ![first] =
                         @ \cup Leftovers(SnapshotTypes[todo], rows)
                           \cup (rows \ kept)]
          /\ failed' = failed \cup {SnapshotTypes[todo]}
    BY <1>5 DEF FailSnapshotType
  <2>3. todo \in 1..4
    BY <2>1 DEF IInv, TypeOK
  <2>4. failed' \subseteq BalanceTypes
    BY <2>2, <2>3, SnapshotTypesDistinct DEF IInv, TypeOK
  <2> QED BY <2>1, <2>2, <2>4, PhaseKeepsInvariant
<1> QED BY <1>1, <1>2, <1>3, <1>4, <1>5 DEF Handlers

-----------------------------------------------------------------------------
(* What a step may never do.                                                *)

\* A new event writes above every answered height only.
LEMMA PutBlockAboveAnswers ==
  ASSUME IInv, event # NoEvent, ~Ignored(event),
         NEW kept \in SUBSET DOMAIN BalancesToPut(event), PutBlock(kept),
         NEW h \in answers, NEW a
  PROVE  UpTo(db', a, h) = UpTo(db, a, h)
<1>1. event.height = tip /\ tip \notin answers /\ tip \in Int
  BY DEF IInv, EventIsNext, TypeOK
<1>2. h \in Int /\ h < tip
  BY <1>1 DEF IInv, TipIsAnswered
<1>3. db' = db \cup {Record(b, tip, BalancesToPut(event)[b]) :
                      b \in DOMAIN BalancesToPut(event) \cap kept}
  BY <1>1 DEF PutBlock, PutBalanceSnapshot, Restrict
<1>4. \A r \in db' \ db : r.height = tip
  BY <1>3 DEF Record
<1>5. db \subseteq db'
  BY <1>3
<1>6. \A r \in db' : r.height =< h => r \in db
  BY <1>1, <1>2, <1>4
<1> QED BY <1>5, <1>6 DEF UpTo

LEMMA StepKeepsAnswers ==
  ASSUME IInv, Next, NEW h \in answers, h \in answers', NEW a
  PROVE  GetBalanceSnapshot(db', a, h) = GetBalanceSnapshot(db, a, h)
<1>1. CASE IndexBlock \/ LoseBlock
  <2>1. PICK kept \in SUBSET DOMAIN BalancesToPut(event) : PutBlock(kept)
    BY <1>1 DEF IndexBlock, LoseBlock
  <2>2. event # NoEvent /\ ~Ignored(event)
    BY <1>1 DEF IndexBlock, LoseBlock
  <2> QED BY <2>1, <2>2, PutBlockAboveAnswers, LookupSame
<1>2. CASE WriteSnapshotType \/ FailSnapshotType
  BY <1>2 DEF WriteSnapshotType, FailSnapshotType, IInv, SnapshotProgress
<1>3. CASE Erase \/ CompleteSnapshot
  BY <1>3 DEF Erase, CompleteSnapshot
<1>4. CASE \/ CommitGenesis \/ NewServerReturns \/ CommitBlock
           \/ RedeliverHistorical \/ IgnoreBlock \/ DropBlock
  <2>1. db' = db
    BY <1>4 DEF CommitGenesis, NewServerReturns, CommitBlock, CommitEvent,
                RedeliverHistorical, IgnoreBlock, DropBlock
  <2> QED BY <2>1
<1> QED BY <1>1, <1>2, <1>3, <1>4 DEF Next, Core, Handlers

-----------------------------------------------------------------------------
LEMMA StepKeepsInvariant == IInv /\ [Next]_vars => IInv'
<1> SUFFICES ASSUME IInv, [Next]_vars PROVE IInv'
  OBVIOUS
<1>1. CASE Next
  BY <1>1, CoreKeepsInvariant, HandlersKeepInvariant DEF Next
<1>2. CASE UNCHANGED vars
  BY <1>2 DEF vars, IInv, TypeOK, TipIsAnswered, LedgerIsHistory,
              EventIsNext, Before, RecordsBelowTip, NewEvent, SnapshotProgress,
              RecordsAreExact, Idle, Ignored
<1> QED BY <1>1, <1>2

\* The invariant holds in every reachable state.
THEOREM Invariance == Spec => []IInv
BY InitInv, StepKeepsInvariant, PTL DEF Spec

\* Every value keeps its type (the variables of deso/events.go and
\* deso/index.go's key spaces).
THEOREM TypeCorrect == Spec => []TypeOK
<1>1. IInv => TypeOK
  BY DEF IInv
<1> QED BY Invariance, <1>1, PTL

\* At every height whose event has been handled, the lookup returns the
\* balance the chain had there, for every account but those that lost their last
\* write and those without a row in the snapshot that a genesis record still
\* gives a balance: with any accounts, types and sync type, and with every
\* fault of the model (deso/index.go:315-357, deso/events.go:463-577).
THEOREM ExactLookups == Spec => []LookupsAreExact
<1>1. IInv => LookupsAreExact
  BY DEF IInv, RecordsAreExact, LookupsAreExact, Keyed
<1> QED BY Invariance, <1>1, PTL

\* No step changes the balance looked up at a height that stays answered: a
\* block is written above every answered height, a snapshot is written when
\* none is (deso/events.go:476-480, deso/index.go:257-270).
THEOREM FinalAnswers == Spec => AnswersAreFinal
<1>1. IInv /\ [Next]_vars =>
        [\A h \in answers \cap answers' : \A a \in Keyed :
           GetBalanceSnapshot(db', a, h) = GetBalanceSnapshot(db, a, h)]_vars
  BY StepKeepsAnswers
<1> QED BY Invariance, <1>1, PTL DEF Spec, AnswersAreFinal
-----------------------------------------------------------------------------
(* The index of a block-syncing node implements BalanceBook: every step of  *)
(* IndexSync is one of the book or leaves it alone.                         *)
(*                                                                          *)
(* A hypersynced node does not implement the book (a genesis record shows   *)
(* through for an account whose balance is gone by the snapshot), and       *)
(* neither does one that loses a flush or is given an event without a view. *)

\* What a node without a snapshot and without faults never has: a snapshot
\* phase, an event that is not the tip's, or a balance that was lost.
NothingIsLost ==
  /\ todo = 0
  /\ event # NoEvent => event.view = TRUE
  /\ \A h \in Heights : stale[h] = {}

BookInv == IInv /\ NothingIsLost

-----------------------------------------------------------------------------
(* Without a hypersync every event is new, and no step but these is taken.  *)

BlockSyncing == /\ SyncType \notin HyperSyncTypes
                /\ "flush" \notin Faults
                /\ Views = {TRUE}

LEMMA BlockSyncSteps ==
  ASSUME BlockSyncing, BookInv, Next
  PROVE  \/ CommitGenesis \/ CommitBlock
         \/ NewServerReturns
         \/ Erase
         \/ IndexBlock
<1>1. ~Ignored(event)
  BY DEF Ignored, BlockSyncing
<1>2. ~CompleteSnapshot /\ ~RedeliverHistorical
  BY DEF BlockSyncing, CompleteSnapshot, RedeliverHistorical, HyperSyncTypes
<1>3. ~IgnoreBlock /\ ~DropBlock /\ ~LoseBlock
  BY <1>1 DEF IgnoreBlock, DropBlock, LoseBlock, BlockSyncing,
              BookInv, NothingIsLost
<1>4. ~WriteSnapshotType /\ ~FailSnapshotType
  BY DEF WriteSnapshotType, FailSnapshotType, BookInv, NothingIsLost
<1> QED BY <1>2, <1>3, <1>4 DEF Next, Core, Handlers

LEMMA CommitLosesNothing ==
  ASSUME BlockSyncing, BookInv, Idle, tip + 1 \in Heights,
         NEW e \in BlockEvents(tip + 1, ledger), CommitEvent(e)
  PROVE  NothingIsLost'
<1>1. e.view = TRUE
  BY DEF BlockEvents, BlockSyncing
<1>2. event' = e /\ todo' = todo /\ stale' = stale
  BY DEF CommitEvent
<1> QED BY <1>1, <1>2 DEF BookInv, NothingIsLost

LEMMA GenesisHeight ==
  ASSUME BookInv, CommitGenesis \/ CommitBlock
  PROVE  /\ Idle
         /\ tip + 1 \in Heights
         /\ \E e \in BlockEvents(tip + 1, ledger) : CommitEvent(e)
<1>1. CASE CommitGenesis
  <2>1. tip = -1 /\ Idle /\ \E e \in BlockEvents(0, ledger) : CommitEvent(e)
    BY <1>1 DEF CommitGenesis
  <2>2. tip + 1 = 0 /\ 0 \in Heights
    BY <2>1, HeightAssumption DEF Heights
  <2> QED BY <2>1, <2>2
<1>2. CASE CommitBlock
  BY <1>2, HeightAssumption DEF CommitBlock, BookInv, IInv, TypeOK, Heights
<1> QED BY <1>1, <1>2

LEMMA StepLosesNothing ==
  ASSUME BlockSyncing, BookInv, [Next]_vars
  PROVE  NothingIsLost'
<1>1. CASE CommitGenesis \/ CommitBlock
  BY <1>1, GenesisHeight, CommitLosesNothing
<1>2. CASE NewServerReturns
  BY <1>2 DEF NewServerReturns, BookInv, NothingIsLost
<1>3. CASE Erase
  BY <1>3 DEF Erase, Idle, BookInv, NothingIsLost
<1>4. CASE IndexBlock
  <2>1. /\ todo' = todo /\ event' = NoEvent
        /\ Answer(DOMAIN BalancesToPut(event), DOMAIN BalancesToPut(event))
    BY <1>4 DEF IndexBlock, PutBlock, Answer
  <2>2. event \in Event /\ event.height \in Heights
    BY <1>4, EventParts DEF IndexBlock, BookInv, IInv, TypeOK
  <2>3. event.height # 0 => stale[event.height - 1] = {}
    BY <2>2, HeightAssumption DEF BookInv, NothingIsLost, Heights
  <2>4. stale' = [stale EXCEPT ![event.height] = {}]
    BY <2>1, <2>3 DEF Answer
  <2> QED BY <2>1, <2>4 DEF BookInv, IInv, TypeOK, NothingIsLost
<1>5. CASE UNCHANGED vars
  BY <1>5 DEF vars, BookInv, NothingIsLost
<1> QED BY <1>1, <1>2, <1>3, <1>4, <1>5, BlockSyncSteps

-----------------------------------------------------------------------------
(* The pages.                                                               *)

Page(h) == [a \in Keyed |-> GetBalanceSnapshot(db, a, h)]
Pages == [h \in answers |-> Page(h)]
KeyedLedger == Restrict(ledger, Keyed)

\* Without losses a page is the ledger of its height.
PagesAreHistory == \A h \in answers : Page(h) = Restrict(history[h], Keyed)

LEMMA PageIsHistory == BookInv => PagesAreHistory
<1> SUFFICES ASSUME BookInv, NEW h \in answers
             PROVE  Page(h) = Restrict(history[h], Keyed)
  BY DEF PagesAreHistory
<1>1. h \in Heights /\ stale[h] = {} /\ history[h] \in Ledgers
  BY DEF BookInv, IInv, TypeOK, NothingIsLost
<1>2. \A a \in Keyed : GetBalanceSnapshot(db, a, h) = history[h][a]
  BY <1>1 DEF BookInv, IInv, RecordsAreExact, Keyed
<1>3. Keyed \cap DOMAIN history[h] = Keyed
  BY <1>1 DEF Ledgers, Keyed
<1> QED BY <1>2, <1>3 DEF Page, Restrict

LEMMA KeyedLedgerType ==
  ASSUME NEW l \in Ledgers
  PROVE  Restrict(l, Keyed) \in [Keyed -> Amounts]
BY DEF Ledgers, Keyed, Restrict

-----------------------------------------------------------------------------
(* Every step is one of the book.                                           *)

LEMMA CommitIsCommitLedger ==
  ASSUME BookInv, BookInv', CommitGenesis \/ CommitBlock
  PROVE  Book!CommitLedger
<1>1. db' = db /\ answers' = answers
  BY GenesisHeight DEF CommitEvent
<1>2. ledger' \in Ledgers
  BY DEF BookInv, IInv, TypeOK
<1> QED BY <1>1, <1>2, KeyedLedgerType DEF Book!CommitLedger, Book!Ledgers

LEMMA EraseIsReplace ==
  ASSUME BookInv, BookInv', Erase
  PROVE  Book!Replace
<1>1. answers' = {}
  BY DEF Erase
<1>2. ledger' \in Ledgers
  BY DEF BookInv, IInv, TypeOK
<1> QED BY <1>1, <1>2, KeyedLedgerType DEF Book!Replace, Book!Ledgers

LEMMA IndexIsPublish ==
  ASSUME BlockSyncing, BookInv, BookInv', IndexBlock
  PROVE  Book!Publish
<1>1. /\ event.height = tip /\ tip \in 0..MaxHeight /\ tip \notin answers
      /\ answers \subseteq 0..tip
      /\ tip = 0 \/ tip - 1 \in answers
      /\ ledger = history[tip]
  <2>1. event # NoEvent /\ ~Ignored(event)
    BY DEF IndexBlock
  <2>2. /\ event.height = tip /\ tip \notin answers
        /\ tip = 0 \/ tip - 1 \in answers
    BY <2>1 DEF BookInv, IInv, EventIsNext
  <2>3. event.height \in 0..MaxHeight
    BY <2>1, EventParts DEF BookInv, IInv, TypeOK, Heights
  <2> QED BY <2>2, <2>3, HeightAssumption
          DEF BookInv, IInv, LedgerIsHistory, TipIsAnswered
<1>2. /\ UNCHANGED << ledger, history, tip >>
      /\ answers' = answers \cup {tip}
  BY <1>1 DEF IndexBlock, PutBlock, Answer
<1>3. DOMAIN Pages = {} \/ tip - 1 \in DOMAIN Pages
  BY <1>1 DEF Pages
<1>4. tip \notin DOMAIN Pages
  BY <1>1 DEF Pages
<1>5. \A k \in answers : Page(k)' = Page(k)
  <2>1. Next
    BY DEF Next, Handlers
  <2> QED BY <1>2, <2>1, StepKeepsAnswers DEF BookInv, Page
<1>6. Page(tip)' = KeyedLedger
  <2>1. (tip \in answers)'
    BY <1>2
  <2>2. PagesAreHistory'
    BY PageIsHistory, PTL
  <2>3. (Page(tip) = Restrict(history[tip], Keyed))'
    BY <2>1, <2>2 DEF PagesAreHistory
  <2> QED BY <1>1, <1>2, <2>3 DEF KeyedLedger
<1>7. Pages' = [k \in DOMAIN Pages \cup {tip} |->
                  IF k = tip THEN KeyedLedger ELSE Pages[k]]
  <2>1. Pages' = [k \in answers \cup {tip} |-> Page(k)']
    BY <1>2 DEF Pages
  <2> QED BY <1>2, <1>4, <1>5, <1>6, <2>1 DEF Pages
<1>8. UNCHANGED KeyedLedger
  BY <1>2 DEF KeyedLedger
<1> QED BY <1>1, <1>3, <1>4, <1>7, <1>8
        DEF Book!Publish, Pages, Page, KeyedLedger

LEMMA StepIsBookStep ==
  ASSUME BlockSyncing, BookInv, BookInv', [Next]_vars
  PROVE  [Book!Next]_Book!vars
<1>1. CASE CommitGenesis \/ CommitBlock
  BY <1>1, CommitIsCommitLedger DEF Book!Next
<1>2. CASE Erase
  BY <1>2, EraseIsReplace DEF Book!Next
<1>3. CASE IndexBlock
  BY <1>3, IndexIsPublish DEF Book!Next
<1>4. CASE NewServerReturns \/ UNCHANGED vars
  <2>1. UNCHANGED << ledger, answers, db >>
    BY <1>4 DEF NewServerReturns, vars
  <2> QED BY <2>1 DEF Book!vars
<1> QED BY <1>1, <1>2, <1>3, <1>4, BlockSyncSteps

LEMMA InitIsBookInit ==
  ASSUME Init
  PROVE  Book!Init
<1>1. answers = {} /\ ledger = Zero
  BY DEF Init
<1>2. Restrict(Zero, Keyed) = [a \in Keyed |-> 0]
  BY DEF Restrict, Zero, Keyed
<1> QED BY <1>1, <1>2 DEF Book!Init

\* The index of a node that syncs block by block, loses no flush and gets a
\* view with every event is a BalanceBook, with any accounts, amounts and
\* heights, also across an erase of its data directory: the pages it answers
\* from are the ledgers the chain committed, one after the other, and none is
\* ever changed (deso/events.go:463-577, deso/index.go:315-357).
THEOREM BookIsImplemented ==
  ASSUME BlockSyncing
  PROVE  Spec => ImplementsBook
<1>1. Init => BookInv
  BY InitInv DEF Init, BookInv, NothingIsLost
<1>2. BookInv /\ IInv' /\ [Next]_vars => BookInv'
  BY StepLosesNothing DEF BookInv
<1>3. BookInv /\ BookInv' /\ [Next]_vars => [Book!Next]_Book!vars
  BY StepIsBookStep
<1>4. Init => Book!Init
  BY InitIsBookInit
<1> QED BY Invariance, <1>1, <1>2, <1>3, <1>4, PTL
        DEF Spec, ImplementsBook, Book!Spec

-----------------------------------------------------------------------------
(* The gifts of the synthetic blocks: the invariant beside IInv.             *)

\* Only a hypersync sets the first snapshot height.
OnlyHypersync == first > 0 => SyncType \in HyperSyncTypes

\* While lib.NewServer runs there is at most the genesis block.
StartsLow == starting => tip =< 0

\* No gift is written before the first snapshot of a server.
NoGiftsYet == starting \/ first = 0 => DOMAIN buckets = {}

\* An account's gifts: none and no record, or one record and a gift of its
\* balance in the block at its height.
OneGift(a) ==
  \/ /\ UpTo(db, a, first) = {}
     /\ \A k \in 0..first : GiftAt(a, k) = 0
  \/ \E r \in db :
       /\ UpTo(db, a, first) = {r}
       /\ \A k \in 0..first :
            GiftAt(a, k) = IF k = r.height THEN r.balance ELSE 0

\* A type whose phase is still to come gives nothing.
Ungifted(t) == \A k \in Heights : <<k, t>> \notin DOMAIN buckets

\* An account of a type whose phase is over, that did not fail, has one gift,
\* unless a record of the genesis block shows through.
GiftsMatch ==
  first > 0 /\ ~starting =>
    \A a \in Accounts, i \in 1..4 :
      AccountType[a] = SnapshotTypes[i] /\ SnapshotTypes[i] \notin failed =>
        IF todo > 0 /\ i >= todo
        THEN Ungifted(SnapshotTypes[i])
        ELSE UpTo(db, a, 0) = {} => OneGift(a)

GInv == /\ OnlyHypersync
        /\ StartsLow
        /\ NoGiftsYet
        /\ GiftsMatch

-----------------------------------------------------------------------------
(* Gifts and their sums.                                                    *)

\* What a block gives an account, from the block's map.
LEMMA GiftInBlock ==
  ASSUME NEW a, NEW k
  PROVE  LET key == <<k, AccountType[a]>>
         IN  /\ k > 0 /\ key \in DOMAIN buckets' /\ a \in DOMAIN buckets'[key] =>
                  GiftAt(a, k)' = buckets'[key][a]
             /\ (key \in DOMAIN buckets' => a \notin DOMAIN buckets'[key]) =>
                  GiftAt(a, k)' = 0
BY DEF GiftAt, GetHypersyncBlockBalances

LEMMA GiftType ==
  ASSUME TypeOK, NEW a \in Accounts, NEW k
  PROVE  GiftAt(a, k) \in Nat
<1> DEFINE key == <<k, AccountType[a]>>
<1>1. CASE key \in DOMAIN buckets
  <2>1. buckets[key] \in Partial(OfType(key[2]), Amounts)
    BY <1>1 DEF TypeOK
  <2>2. \A b \in DOMAIN buckets[key] : buckets[key][b] \in Amounts
    BY <2>1, PartialType
  <2> QED BY <1>1, <2>2, AmountsAssumption DEF GiftAt, GetHypersyncBlockBalances
<1>2. CASE key \notin DOMAIN buckets
  BY <1>2 DEF GiftAt, GetHypersyncBlockBalances
<1> QED BY <1>1, <1>2

\* With at most one gift, the gifts up to a height are the record found there.
LEMMA GiftsAddUp ==
  ASSUME TypeOK, NEW a \in Accounts, UpTo(db, a, 0) = {}, OneGift(a),
         NEW h \in 0..first
  PROVE  GiftsUpTo(a, h) = GetBalanceSnapshot(db, a, h)
<1> DEFINE f == [k \in 0..h |-> GiftAt(a, k)]
<1>1. first \in Nat /\ h \in Nat /\ h =< first
  BY HeightAssumption DEF TypeOK, Heights
<1>2. IsFiniteSet(0..h) /\ DOMAIN f = 0..h
  BY <1>1, FS_Interval
<1>3. GiftsUpTo(a, h) = SumFunctionOnSet(f, 0..h)
  BY <1>2 DEF GiftsUpTo, SumFunction
<1>4. UpTo(db, a, h) = {r \in UpTo(db, a, first) : r.height =< h}
  <2>1. \A r \in db : r.height \in Nat
    BY RecordType
  <2> QED BY <1>1, <2>1 DEF UpTo
<1>5. ASSUME \A k \in 0..h : GiftAt(a, k) = 0, UpTo(db, a, h) = {}
      PROVE  GiftsUpTo(a, h) = GetBalanceSnapshot(db, a, h)
  <2>1. \A k \in 0..h : f[k] = 0
    BY <1>5
  <2>2. SumFunctionOnSet(f, 0..h) = 0
    <3> HIDE DEF f
    <3> QED BY <1>2, <2>1, SumZero
  <2> QED BY <1>3, <1>5, <2>2, LookupNone
<1>6. CASE UpTo(db, a, first) = {} /\ \A k \in 0..first : GiftAt(a, k) = 0
  <2>1. UpTo(db, a, h) = {}
    BY <1>4, <1>6
  <2>2. \A k \in 0..h : GiftAt(a, k) = 0
    BY <1>1, <1>6
  <2> QED BY <1>5, <2>1, <2>2
<1>7. CASE \E r \in db :
             /\ UpTo(db, a, first) = {r}
             /\ \A k \in 0..first :
                  GiftAt(a, k) = IF k = r.height THEN r.balance ELSE 0
  <2>1. PICK r \in db :
          /\ UpTo(db, a, first) = {r}
          /\ \A k \in 0..first :
               GiftAt(a, k) = IF k = r.height THEN r.balance ELSE 0
    BY <1>7
  <2>2. r.height \in Nat /\ r.balance \in Nat
    BY RecordType
  <2>3. CASE r.height =< h
    <3>1. UpTo(db, a, h) = {r}
      BY <1>4, <2>1, <2>3
    <3>2. GetBalanceSnapshot(db, a, h) = r.balance
      BY <2>2, <3>1, LookupLatest
    <3>3. r.height \in 0..h
      BY <1>1, <2>2, <2>3
    <3>4. f[r.height] = r.balance /\ \A k \in (0..h) \ {r.height} : f[k] = 0
      BY <1>1, <2>1, <3>3
    <3>5. SumFunctionOnSet(f, 0..h) = r.balance
      <4> HIDE DEF f
      <4>1. f[r.height] \in Int
        BY <2>2, <3>4
      <4>2. SumFunctionOnSet(f, 0..h) = f[r.height]
        BY <1>2, <3>3, <3>4, <4>1, SumOfOne
      <4> QED BY <3>4, <4>2
    <3> QED BY <1>3, <3>2, <3>5
  <2>4. CASE ~ (r.height =< h)
    <3>1. UpTo(db, a, h) = {}
      BY <1>4, <2>1, <2>4
    <3>2. \A k \in 0..h : GiftAt(a, k) = 0
      BY <1>1, <2>1, <2>2, <2>4
    <3> QED BY <1>5, <3>1, <3>2
  <2> QED BY <2>3, <2>4
<1> QED BY <1>6, <1>7 DEF OneGift

\* Gifts depend on the buckets of their type, records on the account's own.
LEMMA OneGiftSame ==
  ASSUME NEW a, OneGift(a), first' = first,
         UpTo(db', a, first) = UpTo(db, a, first),
         \A k \in 0..first : GiftAt(a, k)' = GiftAt(a, k)
  PROVE  OneGift(a)'
<1>1. CASE UpTo(db, a, first) = {} /\ \A k \in 0..first : GiftAt(a, k) = 0
  BY <1>1 DEF OneGift
<1>2. CASE \E r \in db :
             /\ UpTo(db, a, first) = {r}
             /\ \A k \in 0..first :
                  GiftAt(a, k) = IF k = r.height THEN r.balance ELSE 0
  <2>1. PICK r \in db :
          /\ UpTo(db, a, first) = {r}
          /\ \A k \in 0..first :
               GiftAt(a, k) = IF k = r.height THEN r.balance ELSE 0
    BY <1>2
  <2>2. r \in db'
    BY <2>1 DEF UpTo
  <2> QED BY <2>1, <2>2 DEF OneGift
<1> QED BY <1>1, <1>2 DEF OneGift

-----------------------------------------------------------------------------
(* Steps that write no gift.                                                *)

\* Nothing that the gifts are compared with changes.
LEMMA GiftsStay ==
  ASSUME GInv, UNCHANGED << first, starting, todo, buckets, failed >>,
         first > 0 /\ ~starting =>
           \A a \in Accounts : /\ UpTo(db', a, 0) = UpTo(db, a, 0)
                               /\ UpTo(db', a, first) = UpTo(db, a, first)
  PROVE  GiftsMatch'
<1> SUFFICES ASSUME first > 0, ~starting, NEW a \in Accounts, NEW i \in 1..4,
                    AccountType[a] = SnapshotTypes[i],
                    SnapshotTypes[i] \notin failed
             PROVE  IF todo > 0 /\ i >= todo
                    THEN Ungifted(SnapshotTypes[i])'
                    ELSE UpTo(db', a, 0) = {} => OneGift(a)'
  BY DEF GiftsMatch
<1>1. IF todo > 0 /\ i >= todo
      THEN Ungifted(SnapshotTypes[i])
      ELSE UpTo(db, a, 0) = {} => OneGift(a)
  BY DEF GInv, GiftsMatch
<1>2. Ungifted(SnapshotTypes[i])' = Ungifted(SnapshotTypes[i])
  BY DEF Ungifted
<1>3. \A k \in 0..first : GiftAt(a, k)' = GiftAt(a, k)
  BY DEF GiftAt
<1>4. OneGift(a) => OneGift(a)'
  BY <1>3, OneGiftSame
<1> QED BY <1>1, <1>2, <1>4

\* A block is indexed above the first snapshot.
LEMMA PutBlockAboveSnapshot ==
  ASSUME IInv, GInv, event # NoEvent, ~Ignored(event), first > 0,
         NEW kept \in SUBSET DOMAIN BalancesToPut(event), PutBlock(kept),
         NEW a, NEW h \in {0, first}
  PROVE  UpTo(db', a, h) = UpTo(db, a, h)
<1>1. /\ event.height \in Nat /\ first \in Nat /\ event.height > first
      /\ h \in Nat /\ h < event.height
  BY EventParts, HeightAssumption
  DEF GInv, OnlyHypersync, Ignored, IInv, TypeOK, Heights
<1>2. db' = db \cup {Record(b, event.height, BalancesToPut(event)[b]) :
                      b \in DOMAIN BalancesToPut(event) \cap kept}
  BY DEF PutBlock, PutBalanceSnapshot, Restrict
<1>3. \A r \in db' \ db : r.height = event.height
  BY <1>2 DEF Record
<1>4. db \subseteq db'
  BY <1>2
<1>5. \A r \in db' : r.height =< h => r \in db
  BY <1>1, <1>3
<1> QED BY <1>4, <1>5 DEF UpTo

-----------------------------------------------------------------------------
(* A phase.                                                                 *)

\* The phase of a type writes one record and one gift for each of its rows.
\* A phase that fails may write only some of them, but is marked.
LEMMA PhaseKeepsGifts ==
  ASSUME IInv, GInv, todo > 0, NextPhase,
         NEW rows \in RowSets(SnapshotTypes[todo]),
         NEW place \in Placements(rows, first),
         NEW kept \in SUBSET rows,
         NEW hs \in SUBSET Range(place),
         db' = db \cup RowRecords(kept, place),
         buckets' = PutGifts(SnapshotTypes[todo], rows, place, hs),
         \/ failed' = failed /\ kept = rows /\ hs = Range(place)
         \/ failed' = failed \cup {SnapshotTypes[todo]}
  PROVE  GInv'
<1> DEFINE t == SnapshotTypes[todo]
<1>1. /\ tip = first /\ first \in Nat \ {0} /\ first \in Heights
      /\ todo \in 1..4 /\ ledger \in Ledgers
  BY HeightAssumption DEF IInv, TypeOK, SnapshotProgress, Heights
<1>2. ~starting /\ SyncType \in HyperSyncTypes
  BY <1>1 DEF GInv, StartsLow, OnlyHypersync
<1>3. UNCHANGED << tip, first, starting, event, ledger, history >>
  BY DEF NextPhase
<1>4. OnlyHypersync' /\ StartsLow' /\ NoGiftsYet'
  BY <1>1, <1>2, <1>3 DEF OnlyHypersync, StartsLow, NoGiftsYet
<1>5. rows \subseteq OfType(t) /\ rows \subseteq Accounts
  BY DEF RowSets, OfType
<1>6. place \in [rows -> 1..first]
  BY <1>1, <1>5, PlacementsRange
<1>7. \A r \in db' \ db :
        /\ r.acct \in kept
        /\ r = Record(r.acct, place[r.acct], ledger[r.acct])
  BY DEF RowRecords, Record
<1>8. \A k : k \in DOMAIN buckets' /\ k \notin hs \X {t} =>
               k \in DOMAIN buckets /\ buckets'[k] = buckets[k]
  BY DEF PutGifts
<1>9. \A k \in DOMAIN buckets \ (hs \X {t}) :
        k \in DOMAIN buckets' /\ buckets'[k] = buckets[k]
  BY DEF PutGifts
\* The other types.
<1>10. ASSUME NEW i \in 1..4, i # todo, NEW k
       PROVE  /\ <<k, SnapshotTypes[i]>> \in DOMAIN buckets'
                   <=> <<k, SnapshotTypes[i]>> \in DOMAIN buckets
              /\ <<k, SnapshotTypes[i]>> \in DOMAIN buckets =>
                   buckets'[<<k, SnapshotTypes[i]>>]
                     = buckets[<<k, SnapshotTypes[i]>>]
  <2>1. SnapshotTypes[i] # t
    BY <1>1, <1>10, SnapshotTypesDistinct
  <2>2. <<k, SnapshotTypes[i]>> \notin hs \X {t}
    BY <2>1
  <2> QED BY <1>8, <1>9, <2>2
<1>11. ASSUME NEW a \in Accounts, NEW i \in 1..4, i # todo,
              AccountType[a] = SnapshotTypes[i]
       PROVE  /\ UpTo(db', a, 0) = UpTo(db, a, 0)
              /\ OneGift(a) => OneGift(a)'
  <2>1. a \notin OfType(t)
    BY <1>1, <1>11, SnapshotTypesDistinct DEF OfType
  <2>2. \A r \in db' : r.acct = a => r \in db
    BY <1>5, <1>7, <2>1
  <2>3. \A h : UpTo(db', a, h) = UpTo(db, a, h)
    BY <2>2 DEF UpTo
  <2>4. \A k \in 0..first : GiftAt(a, k)' = GiftAt(a, k)
    BY <1>10, <1>11 DEF GiftAt, GetHypersyncBlockBalances
  <2> QED BY <1>3, <2>3, <2>4, OneGiftSame
\* The type of the phase.
<1>12. ASSUME NEW a \in Accounts, AccountType[a] = t, t \notin failed',
              UpTo(db', a, 0) = {}
       PROVE  OneGift(a)'
  <2>1. kept = rows /\ hs = Range(place) /\ failed' = failed
    BY <1>12
  <2>2. Ungifted(t)
    BY <1>1, <1>2, <1>12, <2>1 DEF GInv, GiftsMatch
  <2>3. \A r \in db : r.acct # a
    <3>1. \A r \in db : r.acct = a => r.height = 0
      BY <1>1, <1>12 DEF IInv, SnapshotProgress
    <3>2. db \subseteq db'
      OBVIOUS
    <3> QED BY <1>12, <3>1, <3>2 DEF UpTo
  <2>4. \A k \in hs : k \in 1..first
    BY <1>6 DEF Range
  <2>5. \A k \in 0..first : <<k, t>> \in DOMAIN buckets' <=> k \in hs
    <3>1. \A k \in 0..first : k \in Heights
      BY <1>1, HeightAssumption DEF Heights
    <3>2. DOMAIN buckets' = DOMAIN buckets \cup (hs \X {t})
      BY DEF PutGifts
    <3> QED BY <2>2, <3>1, <3>2 DEF Ungifted
  <2>6. \A k \in hs : buckets'[<<k, t>>]
                        = [b \in {r \in rows : place[r] = k} |-> ledger[b]]
    BY DEF PutGifts
  <2>7. CASE a \in rows
    <3> DEFINE r == Record(a, place[a], ledger[a])
    <3>1. r \in db' /\ r.acct = a /\ r.height = place[a] /\ r.balance = ledger[a]
      BY <2>1, <2>7 DEF RowRecords, Record
    <3>2. UpTo(db', a, first) = {r}
      <4>1. place[a] =< first
        BY <1>1, <1>6, <2>7
      <4>2. \A s \in db' : s.acct = a => s = r
        BY <1>7, <2>3
      <4> HIDE DEF r
      <4> QED BY <3>1, <4>1, <4>2 DEF UpTo
    <3>3. \A k \in 0..first :
            GiftAt(a, k)' = IF k = place[a] THEN ledger[a] ELSE 0
      <4> TAKE k \in 0..first
      <4>1. CASE k = place[a]
        <5>1. k \in hs /\ k > 0
          BY <1>1, <1>6, <2>1, <2>7, <4>1 DEF Range
        <5>2. <<k, t>> \in DOMAIN buckets' /\ a \in DOMAIN buckets'[<<k, t>>]
              /\ buckets'[<<k, t>>][a] = ledger[a]
          <6>1. buckets'[<<k, t>>] = [b \in {r0 \in rows : place[r0] = k} |-> ledger[b]]
            BY <2>6, <5>1
          <6>2. a \in {r0 \in rows : place[r0] = k}
            BY <2>7, <4>1
          <6> QED BY <2>5, <5>1, <6>1, <6>2
        <5>3. GiftAt(a, k)' = ledger[a]
          BY <1>12, <5>1, <5>2, GiftInBlock
        <5> QED BY <4>1, <5>3
      <4>2. CASE k # place[a]
        <5>1. k \in hs => a \notin DOMAIN buckets'[<<k, t>>]
          <6>1. a \notin {r0 \in rows : place[r0] = k}
            BY <4>2
          <6>2. k \in hs => DOMAIN buckets'[<<k, t>>] = {r0 \in rows : place[r0] = k}
            BY <2>6
          <6> QED BY <6>1, <6>2
        <5>2. <<k, t>> \in DOMAIN buckets' => a \notin DOMAIN buckets'[<<k, t>>]
          BY <2>5, <5>1
        <5>3. GiftAt(a, k)' = 0
          <6> HIDE DEF r, t
          <6> QED BY <1>12, <5>2, GiftInBlock
        <5> QED BY <4>2, <5>3
      <4> QED BY <4>1, <4>2
    <3> HIDE DEF r
    <3> QED BY <1>3, <3>1, <3>2, <3>3 DEF OneGift
  <2>8. CASE a \notin rows
    <3>1. UpTo(db', a, first) = {}
      BY <1>7, <2>3, <2>8 DEF UpTo
    <3>2. \A k \in 0..first : GiftAt(a, k)' = 0
      <4> TAKE k \in 0..first
      <4>1. k \in hs => a \notin DOMAIN buckets'[<<k, t>>]
        BY <2>6, <2>8
      <4> QED BY <1>12, <2>5, <4>1 DEF GiftAt, GetHypersyncBlockBalances
    <3> QED BY <1>3, <3>1, <3>2 DEF OneGift
  <2> QED BY <2>7, <2>8
<1>13. GiftsMatch'
  <2> SUFFICES ASSUME NEW a \in Accounts, NEW i \in 1..4,
                      AccountType[a] = SnapshotTypes[i],
                      SnapshotTypes[i] \notin failed'
               PROVE  IF todo' > 0 /\ i >= todo'
                      THEN Ungifted(SnapshotTypes[i])'
                      ELSE UpTo(db', a, 0) = {} => OneGift(a)'
    BY DEF GiftsMatch
  <2>1. todo' = IF todo = 4 THEN 0 ELSE todo + 1
    BY DEF NextPhase, PhaseAfter
  <2>2. SnapshotTypes[i] \notin failed
    BY <1>12
  <2>3. IF i >= todo THEN Ungifted(SnapshotTypes[i])
        ELSE UpTo(db, a, 0) = {} => OneGift(a)
    BY <1>1, <1>2, <2>2 DEF GInv, GiftsMatch
  <2>4. CASE i < todo
    <3>1. ~ (todo' > 0 /\ i >= todo')
      BY <1>1, <2>1, <2>4
    <3> QED BY <1>1, <1>11, <2>3, <2>4, <3>1
  <2>5. CASE i = todo
    <3>1. ~ (todo' > 0 /\ i >= todo')
      BY <1>1, <2>1, <2>5
    <3> QED BY <1>12, <2>5, <3>1
  <2>6. CASE i > todo
    <3>1. Ungifted(SnapshotTypes[i])
      BY <1>1, <2>3, <2>6
    <3>2. Ungifted(SnapshotTypes[i])'
      BY <1>1, <1>10, <2>6, <3>1 DEF Ungifted
    <3>3. todo' > 0 /\ i >= todo'
      BY <1>1, <2>1, <2>6
    <3> QED BY <3>2, <3>3
  <2> QED BY <1>1, <2>4, <2>5, <2>6
<1> QED BY <1>4, <1>13 DEF GInv

-----------------------------------------------------------------------------
(* Every step.                                                              *)

LEMMA CoreKeepsGifts == IInv /\ GInv /\ Core => GInv'
<1> SUFFICES ASSUME IInv, GInv, Core PROVE GInv'
  OBVIOUS
<1>1. CASE CommitGenesis \/ CommitBlock
  <2>1. /\ UNCHANGED << first, starting, todo, db, buckets, failed >>
        /\ starting => tip' = 0
    BY <1>1 DEF CommitGenesis, CommitBlock, CommitEvent, BlockEvents
  <2>2. OnlyHypersync' /\ StartsLow' /\ NoGiftsYet'
    BY <2>1 DEF GInv, OnlyHypersync, StartsLow, NoGiftsYet
  <2> QED BY <2>1, <2>2, GiftsStay DEF GInv
<1>2. CASE NewServerReturns
  <2>1. first' = 0 /\ starting' = FALSE /\ buckets' = buckets /\ starting
    BY <1>2 DEF NewServerReturns
  <2> QED BY <2>1 DEF GInv, OnlyHypersync, StartsLow, NoGiftsYet, GiftsMatch
<1>3. CASE CompleteSnapshot
  <2>1. /\ SyncType \in HyperSyncTypes /\ ~starting /\ starting' = starting
        /\ first = 0 /\ first' > 0 /\ todo' = 1 /\ buckets' = buckets
    BY <1>3, HeightAssumption DEF CompleteSnapshot, Heights
  <2>2. DOMAIN buckets' = {}
    BY <2>1 DEF GInv, NoGiftsYet
  <2> QED BY <2>1, <2>2 DEF GInv, OnlyHypersync, StartsLow, NoGiftsYet,
                            GiftsMatch, Ungifted
<1>4. CASE RedeliverHistorical
  <2>1. UNCHANGED << tip, first, starting, todo, db, buckets, failed >>
    BY <1>4 DEF RedeliverHistorical
  <2>2. OnlyHypersync' /\ StartsLow' /\ NoGiftsYet'
    BY <2>1 DEF GInv, OnlyHypersync, StartsLow, NoGiftsYet
  <2> QED BY <2>1, <2>2, GiftsStay DEF GInv
<1>5. CASE Erase
  <2>1. starting' = TRUE /\ tip' = -1 /\ first' = first /\ DOMAIN buckets' = {}
    BY <1>5 DEF Erase
  <2> QED BY <2>1 DEF GInv, OnlyHypersync, StartsLow, NoGiftsYet, GiftsMatch
<1> QED BY <1>1, <1>2, <1>3, <1>4, <1>5 DEF Core

LEMMA HandlersKeepGifts == IInv /\ GInv /\ Handlers => GInv'
<1> SUFFICES ASSUME IInv, GInv, Handlers PROVE GInv'
  OBVIOUS
<1>1. CASE IgnoreBlock \/ DropBlock
  <2>1. UNCHANGED << tip, first, starting, todo, db, buckets, failed >>
    BY <1>1 DEF IgnoreBlock, DropBlock
  <2>2. OnlyHypersync' /\ StartsLow' /\ NoGiftsYet'
    BY <2>1 DEF GInv, OnlyHypersync, StartsLow, NoGiftsYet
  <2> QED BY <2>1, <2>2, GiftsStay DEF GInv
<1>2. CASE IndexBlock \/ LoseBlock
  <2>1. PICK kept \in SUBSET DOMAIN BalancesToPut(event) : PutBlock(kept)
    BY <1>2 DEF IndexBlock, LoseBlock
  <2>2. event # NoEvent /\ ~Ignored(event)
    BY <1>2 DEF IndexBlock, LoseBlock
  <2>3. UNCHANGED << tip, first, starting, todo, buckets, failed >>
    BY <2>1 DEF PutBlock
  <2>4. OnlyHypersync' /\ StartsLow' /\ NoGiftsYet'
    BY <2>3 DEF GInv, OnlyHypersync, StartsLow, NoGiftsYet
  <2>5. first > 0 => \A a \in Accounts :
                       /\ UpTo(db', a, 0) = UpTo(db, a, 0)
                       /\ UpTo(db', a, first) = UpTo(db, a, first)
    BY <2>1, <2>2, PutBlockAboveSnapshot
  <2> QED BY <2>3, <2>4, <2>5, GiftsStay DEF GInv
<1>3. CASE WriteSnapshotType
  <2>1. todo > 0 /\ NextPhase /\ failed' = failed
    BY <1>3 DEF WriteSnapshotType
  <2>a. PICK rows \in RowSets(SnapshotTypes[todo]) :
          \E place \in Placements(rows, first) :
            /\ db' = db \cup RowRecords(rows, place)
            /\ buckets' = PutGifts(SnapshotTypes[todo], rows, place, Range(place))
    BY <1>3 DEF WriteSnapshotType
  <2>2. PICK place \in Placements(rows, first) :
          /\ db' = db \cup RowRecords(rows, place)
          /\ buckets' = PutGifts(SnapshotTypes[todo], rows, place, Range(place))
    BY <2>a
  <2> QED BY <2>1, <2>2, PhaseKeepsGifts
<1>4. CASE FailSnapshotType
  <2>1. todo > 0 /\ NextPhase
    BY <1>4 DEF FailSnapshotType
  <2>2. \E rows \in RowSets(SnapshotTypes[todo]) :
        \E place \in Placements(rows, first) :
        \E kept \in SUBSET rows : \E hs \in SUBSET Range(place) :
          /\ db' = db \cup RowRecords(kept, place)
          /\ buckets' = PutGifts(SnapshotTypes[todo], rows, place, hs)
          /\ failed' = failed \cup {SnapshotTypes[todo]}
    BY <1>4 DEF FailSnapshotType
  <2> QED BY <2>1, <2>2, PhaseKeepsGifts
<1> QED BY <1>1, <1>2, <1>3, <1>4 DEF Handlers

LEMMA GiftsInductive == IInv /\ GInv /\ [Next]_vars => GInv'
<1> SUFFICES ASSUME IInv, GInv, [Next]_vars PROVE GInv'
  OBVIOUS
<1>1. CASE Next
  BY <1>1, CoreKeepsGifts, HandlersKeepGifts DEF Next
<1>2. CASE UNCHANGED vars
  <2>1. UNCHANGED << tip, first, starting, todo, db, buckets, failed >>
    BY <1>2 DEF vars
  <2>2. OnlyHypersync' /\ StartsLow' /\ NoGiftsYet'
    BY <2>1 DEF GInv, OnlyHypersync, StartsLow, NoGiftsYet
  <2> QED BY <2>1, <2>2, GiftsStay DEF GInv
<1> QED BY <1>1, <1>2

LEMMA InitGifts == Init => GInv
<1> SUFFICES ASSUME Init PROVE GInv
  OBVIOUS
<1>1. first = 0 /\ tip = -1 /\ DOMAIN buckets = {}
  BY DEF Init
<1> QED BY <1>1 DEF GInv, OnlyHypersync, StartsLow, NoGiftsYet, GiftsMatch

LEMMA GiftsAreReconciled == IInv /\ GInv => GiftsReconcile
<1> SUFFICES ASSUME IInv, GInv, first \in answers, NEW a \in Keyed,
                    first # 0, AccountType[a] \notin failed, UpTo(db, a, 0) = {},
                    NEW h \in 0..first
             PROVE  GiftsUpTo(a, h) = GetBalanceSnapshot(db, a, h)
  BY DEF GiftsReconcile
<1>1. TypeOK /\ first \in Nat /\ first > 0 /\ a \in Accounts /\ todo \in 0..4
  BY HeightAssumption DEF IInv, TypeOK, Heights, Keyed
<1>2. ~starting
  BY <1>1, HeightAssumption
  DEF GInv, StartsLow, IInv, TypeOK, TipIsAnswered, Heights
<1>3. todo = 0
  BY <1>1 DEF IInv, SnapshotProgress
<1>4. PICK i \in 1..4 : AccountType[a] = SnapshotTypes[i]
  BY <1>1, AccountsAssumption, SnapshotTypesDistinct
<1>5. OneGift(a)
  BY <1>1, <1>2, <1>3, <1>4 DEF GInv, GiftsMatch
<1> QED BY <1>1, <1>5, GiftsAddUp

-----------------------------------------------------------------------------
\* After the bootstrap the gifts of the synthetic blocks up to any height add
\* up to the balance looked up there, for every account of a type whose phase
\* succeeded and without a genesis record: with any number of accounts and
\* heights, any placement of the rows, and with lost flushes, events without a
\* view and erased directories (deso/events.go:32-44, deso/block.go:390-563).
THEOREM GiftsReconciled == Spec => []GiftsReconcile
<1>1. IInv /\ GInv /\ [Next]_vars => GInv'
  BY GiftsInductive
<1> QED BY Invariance, InitGifts, <1>1, GiftsAreReconciled, PTL DEF Spec

-----------------------------------------------------------------------------
(* What is wrong on a node that loses nothing: genesis balances.             *)

NothingFails == /\ "flush" \notin Faults
                /\ "erase" \notin Faults
                /\ Views = {TRUE}

\* Every running event has a view, and the chain above a snapshot is new.
SnapshotIsFirst ==
  /\ event # NoEvent => event.view = TRUE
  /\ starting => first = 0
  /\ first > 0 => tip >= first /\ (NewEvent => tip > first)

\* An account that is wrong at a height has only genesis records up to there,
\* and no balance on the chain.
GenesisOnly ==
  \A h \in Heights : \A a \in stale[h] :
    /\ first \in 1..h
    /\ h =< tip
    /\ history[h][a] = 0
    /\ UpTo(db, a, h) = UpTo(db, a, 0)

\* A type whose phase is to come has no account that is wrong at the snapshot.
NotYetStale ==
  todo > 0 => \A a \in stale[first], i \in 1..4 :
                AccountType[a] = SnapshotTypes[i] => i < todo

OInv == SnapshotIsFirst /\ GenesisOnly /\ NotYetStale

LEMMA InitOutlives == Init => OInv
BY HeightAssumption
DEF Init, OInv, SnapshotIsFirst, GenesisOnly, NotYetStale, Heights

LEMMA CommitOutlives ==
  ASSUME NothingFails, IInv, OInv, Idle, tip + 1 \in Heights,
         NEW e \in BlockEvents(tip + 1, ledger), CommitEvent(e)
  PROVE  OInv'
<1>1. /\ e.view = TRUE /\ e.height = tip + 1
      /\ tip' = tip + 1 /\ event' = e
      /\ UNCHANGED << first, starting, todo, db, answers, stale >>
      /\ \A h \in Heights : h # tip + 1 => history'[h] = history[h]
      /\ tip \in Int /\ first \in Nat /\ todo = 0
  <2>1. e.view = TRUE /\ e.height = tip + 1
    BY DEF NothingFails, BlockEvents
  <2>2. tip' = tip + 1 /\ event' = e
        /\ UNCHANGED << first, starting, todo, db, answers, stale >>
    BY <2>1 DEF CommitEvent
  <2>3. \A h \in Heights : h # tip + 1 => history'[h] = history[h]
    BY <2>1 DEF CommitEvent, IInv, TypeOK
  <2>4. tip \in Int /\ first \in Nat /\ todo = 0
    BY HeightAssumption DEF IInv, TypeOK, Idle, Heights
  <2> QED BY <2>1, <2>2, <2>3, <2>4
<1>2. SnapshotIsFirst' /\ NotYetStale'
  BY <1>1 DEF OInv, SnapshotIsFirst, NotYetStale
<1>3. GenesisOnly'
  <2> SUFFICES ASSUME NEW h \in Heights, NEW a \in stale[h]
               PROVE  /\ first \in 1..h /\ h =< tip + 1 /\ history'[h][a] = 0
                      /\ UpTo(db, a, h) = UpTo(db, a, 0)
    BY <1>1 DEF GenesisOnly
  <2>1. /\ first \in 1..h /\ h =< tip /\ history[h][a] = 0
        /\ UpTo(db, a, h) = UpTo(db, a, 0)
    BY DEF OInv, GenesisOnly
  <2>2. h \in Int
    BY HeightAssumption DEF Heights
  <2> QED BY <1>1, <2>1, <2>2
<1> QED BY <1>2, <1>3 DEF OInv

LEMMA CoreOutlives ==
  ASSUME NothingFails, IInv, OInv, Core
  PROVE  OInv'
<1>1. CASE CommitGenesis
  <2>1. Idle /\ tip + 1 = 0 /\ tip + 1 \in Heights
        /\ \E e \in BlockEvents(tip + 1, ledger) : CommitEvent(e)
    BY <1>1, HeightAssumption DEF CommitGenesis, Heights
  <2> QED BY <2>1, CommitOutlives
<1>2. CASE CommitBlock
  <2>1. Idle /\ tip + 1 \in Heights
        /\ \E e \in BlockEvents(tip + 1, ledger) : CommitEvent(e)
    BY <1>2, HeightAssumption DEF CommitBlock, IInv, TypeOK, Heights
  <2> QED BY <2>1, CommitOutlives
<1>3. CASE NewServerReturns
  <2>1. /\ first' = first /\ starting' = FALSE
        /\ UNCHANGED << tip, event, todo, db, history, answers, stale >>
    BY <1>3 DEF NewServerReturns, OInv, SnapshotIsFirst
  <2> QED BY <2>1 DEF OInv, SnapshotIsFirst, GenesisOnly, NotYetStale, NewEvent
<1>4. CASE CompleteSnapshot
  <2>1. PICK h \in Heights \ {0} :
          /\ tip' = h /\ first' = h
          /\ stale' = [stale EXCEPT ![h] = {}]
    BY <1>4 DEF CompleteSnapshot
  <2>2. ~starting /\ Idle /\ first = 0 /\ event' = event /\ starting' = starting
        /\ todo' = 1
    BY <1>4 DEF CompleteSnapshot
  <2>3. \A k \in Heights : stale[k] = {}
    BY <2>2 DEF OInv, GenesisOnly
  <2>4. \A k \in Heights : stale'[k] = {}
    BY <2>1, <2>3 DEF IInv, TypeOK
  <2>5. h \in Int
    BY <2>1, HeightAssumption DEF Heights
  <2> QED BY <2>1, <2>2, <2>4, <2>5
          DEF OInv, SnapshotIsFirst, GenesisOnly, NotYetStale, NewEvent, Idle
<1>5. CASE RedeliverHistorical
  <2>1. PICK h \in 1..first : \E e \in BlockEvents(h, history[h]) : event' = e
    BY <1>5 DEF RedeliverHistorical
  <2>2. event'.view = TRUE
    BY <2>1 DEF NothingFails, BlockEvents
  <2>3. Idle /\ ~starting
        /\ UNCHANGED << tip, first, starting, todo, db, history, answers, stale >>
    BY <1>5 DEF RedeliverHistorical
  <2>4. tip \in answers
    BY <2>3 DEF IInv, TipIsAnswered
  <2> QED BY <2>2, <2>3, <2>4
          DEF OInv, SnapshotIsFirst, GenesisOnly, NotYetStale, NewEvent
<1>6. ~Erase
  BY DEF NothingFails, Erase
<1> QED BY <1>1, <1>2, <1>3, <1>4, <1>5, <1>6 DEF Core

LEMMA IndexOutlives ==
  ASSUME NothingFails, IInv, OInv, IndexBlock
  PROVE  OInv'
<1> DEFINE bal == BalancesToPut(event)
<1>1. /\ event # NoEvent /\ ~Ignored(event) /\ PutBlock(DOMAIN bal)
      /\ event' = NoEvent
      /\ UNCHANGED << tip, first, starting, todo, history >>
  BY DEF IndexBlock, PutBlock, Answer
<1>2. /\ event \in Event /\ event.height = tip /\ tip \in Nat /\ tip \in Heights
      /\ tip \notin answers /\ todo = 0
      /\ tip = 0 \/ tip - 1 \in answers
      /\ history \in [Heights -> Ledgers]
      /\ history[tip] = AfterBlock(Before(tip), event)
  BY <1>1, EventParts, HeightAssumption
  DEF IInv, TypeOK, EventIsNext, TipIsAnswered, Heights
<1>3. stale' = [stale EXCEPT ![tip] =
                  (DOMAIN bal \cup IF tip = 0 THEN {} ELSE stale[tip - 1])
                     \ DOMAIN bal]
  BY <1>1, <1>2 DEF PutBlock, Answer
<1>4. db' = db \cup {Record(a, tip, bal[a]) : a \in DOMAIN bal}
  BY <1>1, <1>2 DEF PutBlock, PutBalanceSnapshot, Restrict
<1>5. \A r \in db : r.height \in Nat /\ r.height < tip
  BY <1>1, <1>2, RecordType DEF IInv, RecordsBelowTip, NewEvent
<1>6. SnapshotIsFirst' /\ NotYetStale'
  BY <1>1, <1>2 DEF OInv, SnapshotIsFirst, NotYetStale, NewEvent
<1>7. \A h \in Nat : h < tip => \A a : UpTo(db', a, h) = UpTo(db, a, h)
  BY <1>2, <1>4 DEF UpTo, Record
<1>8. GenesisOnly'
  <2> SUFFICES ASSUME NEW h \in Heights, NEW a \in stale'[h]
               PROVE  /\ first \in 1..h /\ h =< tip /\ history[h][a] = 0
                      /\ UpTo(db', a, h) = UpTo(db', a, 0)
    BY <1>1 DEF GenesisOnly
  <2>0. h \in Nat
    BY HeightAssumption DEF Heights
  <2>1. CASE h # tip
    <3>1. a \in stale[h]
      BY <1>2, <1>3, <2>1 DEF IInv, TypeOK
    <3>2. /\ first \in 1..h /\ h =< tip /\ history[h][a] = 0
          /\ UpTo(db, a, h) = UpTo(db, a, 0)
      BY <3>1 DEF OInv, GenesisOnly
    <3>3. h < tip /\ 0 < tip
      BY <1>2, <2>0, <2>1, <3>2
    <3>4. UpTo(db', a, h) = UpTo(db, a, h) /\ UpTo(db', a, 0) = UpTo(db, a, 0)
      BY <1>7, <2>0, <3>3
    <3> QED BY <3>2, <3>4
  <2>2. CASE h = tip
    <3>1. tip # 0 /\ a \in stale[tip - 1] /\ a \notin DOMAIN bal
      BY <1>2, <1>3, <2>2 DEF IInv, TypeOK
    <3>2. tip - 1 \in Heights /\ tip - 1 \in Nat
      BY <1>2, <3>1, HeightAssumption DEF Heights
    <3>3. /\ first \in 1..(tip - 1) /\ history[tip - 1][a] = 0
          /\ UpTo(db, a, tip - 1) = UpTo(db, a, 0)
      BY <3>1, <3>2 DEF OInv, GenesisOnly
    <3>4. a \in Accounts /\ Before(tip) \in Ledgers
      BY <1>2, <3>1, <3>2 DEF IInv, TypeOK, Before
    <3>5. history[tip][a] = 0
      BY <1>2, <3>1, <3>3, <3>4, BalancesToPutExact DEF Before
    <3>6. UpTo(db', a, tip) = UpTo(db, a, tip - 1)
      BY <1>2, <1>4, <1>5, <3>1 DEF UpTo, Record
    <3>7. UpTo(db', a, 0) = UpTo(db, a, 0)
      BY <1>2, <1>7, <3>1
    <3> QED BY <1>2, <2>2, <3>3, <3>5, <3>6, <3>7
  <2> QED BY <2>1, <2>2
<1> QED BY <1>6, <1>8 DEF OInv

LEMMA PhaseOutlives ==
  ASSUME IInv, OInv, todo > 0, NextPhase,
         NEW rows \in RowSets(SnapshotTypes[todo]),
         NEW place \in Placements(rows, first),
         db' = db \cup RowRecords(rows, place),
         stale' = [stale EXCEPT ![first] =
                     @ \cup Leftovers(SnapshotTypes[todo], rows)]
  PROVE  OInv'
<1> DEFINE t == SnapshotTypes[todo]
<1>1. /\ tip = first /\ first \in Nat \ {0} /\ first \in Heights
      /\ todo \in 1..4 /\ event = NoEvent
      /\ ledger = history[first] /\ stale \in [Heights -> SUBSET Accounts]
  BY HeightAssumption
  DEF IInv, TypeOK, SnapshotProgress, TipIsAnswered, LedgerIsHistory, Heights
<1>2. UNCHANGED << tip, first, starting, event, history >>
      /\ todo' = IF todo = 4 THEN 0 ELSE todo + 1
  BY DEF NextPhase, PhaseAfter
<1>3. rows \subseteq OfType(t) /\ \A a \in OfType(t) \ rows : ledger[a] = 0
  BY DEF RowSets
<1>4. SnapshotIsFirst'
  BY <1>1, <1>2 DEF OInv, SnapshotIsFirst, NewEvent
<1>5. \A a \in Leftovers(t, rows) : a \in OfType(t) \ rows /\ a \in Accounts
  BY DEF Leftovers, OfType
<1>6. \A a \in stale'[first] : a \in stale[first] \/ a \in Leftovers(t, rows)
  BY <1>1
<1>7. NotYetStale'
  <2> SUFFICES ASSUME todo' > 0, NEW a \in stale'[first], NEW i \in 1..4,
                      AccountType[a] = SnapshotTypes[i]
               PROVE  i < todo'
    BY <1>2 DEF NotYetStale
  <2>1. todo' = todo + 1
    BY <1>1, <1>2
  <2>2. CASE a \in stale[first]
    BY <1>1, <2>1, <2>2 DEF OInv, NotYetStale
  <2>3. CASE a \in Leftovers(t, rows)
    BY <1>1, <1>5, <2>1, <2>3, SnapshotTypesDistinct DEF OfType
  <2> QED BY <1>6, <2>2, <2>3
<1>8. \A r \in db' \ db : r.acct \in rows
  BY DEF RowRecords, Record
<1>9. \A a : a \notin rows =>
        \A h : UpTo(db', a, h) = UpTo(db, a, h)
  BY <1>8 DEF UpTo
<1>10. GenesisOnly'
  <2> SUFFICES ASSUME NEW h \in Heights, NEW a \in stale'[h]
               PROVE  /\ first \in 1..h /\ h =< tip /\ history[h][a] = 0
                      /\ UpTo(db', a, h) = UpTo(db', a, 0)
    BY <1>2 DEF GenesisOnly
  <2>0. h \in Nat
    BY HeightAssumption DEF Heights
  <2>1. CASE a \in stale[h]
    <3>1. /\ first \in 1..h /\ h =< tip /\ history[h][a] = 0
          /\ UpTo(db, a, h) = UpTo(db, a, 0)
      BY <2>1 DEF OInv, GenesisOnly
    <3>2. h = first
      BY <1>1, <2>0, <3>1
    <3>3. a \notin OfType(t)
      BY <1>1, <2>1, <3>2 DEF OInv, NotYetStale, OfType
    <3> QED BY <1>3, <1>9, <3>1, <3>3
  <2>2. CASE a \notin stale[h]
    <3>1. h = first /\ a \in Leftovers(t, rows)
      BY <1>1, <1>6, <2>2
    <3>2. a \in OfType(t) /\ a \notin rows /\ ledger[a] = 0 /\ a \in Accounts
      BY <1>3, <1>5, <3>1
    <3>3. \A r \in db : r.acct = a => r.height = 0
      BY <1>1, <3>2 DEF IInv, SnapshotProgress, OfType
    <3>4. UpTo(db, a, h) = UpTo(db, a, 0)
      BY <2>0, <3>3 DEF UpTo
    <3> QED BY <1>1, <1>9, <3>1, <3>2, <3>4
  <2> QED BY <2>1, <2>2
<1> QED BY <1>4, <1>7, <1>10 DEF OInv

LEMMA HandlersOutlive ==
  ASSUME NothingFails, IInv, OInv, Handlers
  PROVE  OInv'
<1>1. CASE IgnoreBlock
  <2>1. ~NewEvent
    <3>1. SUFFICES ASSUME NewEvent PROVE FALSE
      OBVIOUS
    <3>2. event.height = tip /\ Ignored(event) /\ first \in Nat /\ tip \in Int
      BY <1>1, <3>1, HeightAssumption
      DEF IgnoreBlock, NewEvent, IInv, EventIsNext, TypeOK, Heights
    <3>3. first > 0 /\ tip =< first
      BY <3>2 DEF Ignored
    <3> QED BY <3>1, <3>2, <3>3 DEF OInv, SnapshotIsFirst
  <2>2. /\ event' = NoEvent
        /\ UNCHANGED << tip, first, starting, todo, db, history, answers, stale >>
    BY <1>1, <2>1 DEF IgnoreBlock, NewEvent
  <2> QED BY <2>2
          DEF OInv, SnapshotIsFirst, GenesisOnly, NotYetStale, NewEvent
<1>2. ~DropBlock
  BY DEF DropBlock, OInv, SnapshotIsFirst
<1>3. CASE IndexBlock
  BY <1>3, IndexOutlives
<1>4. ~LoseBlock /\ ~FailSnapshotType
  BY DEF LoseBlock, FailSnapshotType, NothingFails
<1>5. CASE WriteSnapshotType
  <2>1. todo > 0 /\ NextPhase
    BY <1>5 DEF WriteSnapshotType
  <2>2. \E rows \in RowSets(SnapshotTypes[todo]) :
        \E place \in Placements(rows, first) :
          /\ db' = db \cup RowRecords(rows, place)
          /\ stale' = [stale EXCEPT ![first] =
                          @ \cup Leftovers(SnapshotTypes[todo], rows)]
    BY <1>5 DEF WriteSnapshotType
  <2> QED BY <2>1, <2>2, PhaseOutlives
<1> QED BY <1>1, <1>2, <1>3, <1>4, <1>5 DEF Handlers

LEMMA StepOutlives ==
  ASSUME NothingFails, IInv, OInv, [Next]_vars
  PROVE  OInv'
<1>1. CASE Next
  BY <1>1, CoreOutlives, HandlersOutlive DEF Next
<1>2. CASE UNCHANGED vars
  BY <1>2 DEF vars, OInv, SnapshotIsFirst, GenesisOnly, NotYetStale, NewEvent
<1> QED BY <1>1, <1>2

\* On a node that loses nothing and is not erased, the only wrong lookups are
\* genesis balances that outlive a snapshot, for any accounts, sync type and
\* heights (deso/events.go:467-482, 493-575 and 82-96).
THEOREM OnlyGenesisBalancesOutlive ==
  ASSUME NothingFails
  PROVE  Spec => []OnlyGenesisOutlives
<1>1. IInv /\ OInv /\ [Next]_vars => OInv'
  BY StepOutlives
<1>2. IInv /\ OInv => OnlyGenesisOutlives
  BY DEF IInv, RecordsAreExact, OInv, GenesisOnly, OnlyGenesisOutlives, Keyed,
         TypeOK
<1> QED BY Invariance, InitOutlives, <1>1, <1>2, PTL DEF Spec
=============================================================================

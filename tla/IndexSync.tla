------------------------------ MODULE IndexSync ------------------------------
(***************************************************************************)
(* How the Rosetta index follows the chain (deso/events.go, deso/index.go).*)
(*                                                                         *)
(* The core library commits blocks, or downloads the state at a snapshot   *)
(* height, and calls the node's handlers; the call returns before the core *)
(* goes on.  handleBlockCommitted writes one record for every balance the  *)
(* block's view holds; handleSnapshotCompleted writes every balance of the *)
(* downloaded state, one type after the other, spread over the heights     *)
(* 1..first, and the synthetic blocks that give the same balances away.    *)
(* Nothing is ever deleted from the index, a handler's errors are logged   *)
(* and dropped, and readers see whatever has been flushed.                 *)
(*                                                                         *)
(* The ghosts ledger, history, answers, stale and failed record what the   *)
(* chain really holds and where the index is known to differ; no guard of  *)
(* a handler reads them.                                                   *)
(***************************************************************************)
EXTENDS BalanceIndex, Functions

CONSTANTS
  Accounts,      \* (key, balance type) pairs, named
  AccountType,   \* Accounts -> BalanceTypes
  SyncType,      \* "blocksync", "hypersync" or "hypersync-archival"
  Amounts,       \* the balances that occur, 0 among them
  MaxHeight,     \* bound: no block above this height is committed
  MaxTouched,    \* bound: balances in the view of one block
  Views,         \* {TRUE}, or {TRUE, FALSE} when an event may have no view
  Faults,        \* the faults that may happen: "flush", "erase"
  NoEvent        \* the handler of block events is not running

Heights == 0..MaxHeight
Ledgers == [Accounts -> Amounts]
Partial(S, T) == UNION {[d -> T] : d \in SUBSET S}
HyperSyncTypes == {"hypersync", "hypersync-archival"}

\* An entry of the view.  A deleted one keeps the amount it had.
Entry == [amount : Amounts, isDeleted : BOOLEAN]

\* A BlockEvent: entries are the balances in the view's maps, swapped what
\* GetProfileEntryForPublicKey finds for the keys of PublicKeyToPKIDEntry.
Event == [height  : Heights,
          view    : BOOLEAN,
          entries : Partial(Accounts, Entry),
          swapped : Partial(Accounts, Amounts)]

ASSUME AccountsAssumption ==
  IsFiniteSet(Accounts) /\ AccountType \in [Accounts -> BalanceTypes]
ASSUME AmountsAssumption == Amounts \subseteq Nat /\ 0 \in Amounts
ASSUME HeightAssumption == MaxHeight \in Nat
ASSUME ViewsAssumption == Views \subseteq BOOLEAN
ASSUME NoEventAssumption == NoEvent \notin Event

VARIABLES
  tip,       \* height of the committed tip, -1 before the genesis block
  first,     \* FirstSnapshotBlockHeight as read through node.Server; 0: none
  starting,  \* lib.NewServer has not returned
  event,     \* the block event being handled
  todo,      \* the type handleSnapshotCompleted writes next; 0: not running
  db,        \* snapshot records
  buckets,   \* gifts of the synthetic blocks
  ledger,    \* ghost: the balances at the tip
  history,   \* ghost: the balances at every height
  answers,   \* ghost: the heights whose event has been handled
  stale,     \* ghost: height -> accounts whose last write was lost, or whose
             \* genesis record outlives the snapshot
  failed     \* ghost: types whose snapshot phase failed

vars == << tip, first, starting, event, todo, db, buckets,
           ledger, history, answers, stale, failed >>

OfType(t) == {a \in Accounts : AccountType[a] = t}

\* The balances GetBalanceSnapshot answers for: it refuses the locked stakes,
\* whose own lookup is in LockedStakeIndex.
Keyed == {a \in Accounts : AccountType[a] # LockedStakeDESOBalance}
Zero == [a \in Accounts |-> 0]
Idle == event = NoEvent /\ todo = 0

TypeOK ==
  /\ tip \in -1..MaxHeight
  /\ first \in Heights
  /\ starting \in BOOLEAN
  /\ event \in Event \cup {NoEvent}
  /\ todo \in 0..4
  /\ db \subseteq [acct : Accounts, height : Heights, balance : Amounts]
  /\ buckets = [k \in DOMAIN buckets |-> buckets[k]]
  /\ DOMAIN buckets \subseteq Heights \X BalanceTypes
  /\ \A k \in DOMAIN buckets : buckets[k] \in Partial(OfType(k[2]), Amounts)
  /\ ledger \in Ledgers
  /\ history \in [Heights -> Ledgers]
  /\ answers \subseteq Heights
  /\ stale \in [Heights -> SUBSET Accounts]
  /\ failed \subseteq BalanceTypes

Init ==
  /\ tip = -1
  /\ first = 0
  /\ starting = TRUE
  /\ event = NoEvent
  /\ todo = 0
  /\ db = {}
  /\ buckets = [k \in {} |-> Zero]
  /\ ledger = Zero
  /\ history = [h \in Heights |-> Zero]
  /\ answers = {}
  /\ stale = [h \in Heights |-> {}]
  /\ failed = {}

-----------------------------------------------------------------------------
(* The core library.                                                        *)

\* Balances a block may change: only entries with a tombstone can be deleted,
\* which a DESO balance never is, and the tombstone shows the old amount.
Touches(l) ==
  {en \in UNION {[d -> Entry] : d \in {s \in SUBSET Accounts :
                                         Cardinality(s) =< MaxTouched}} :
     \A a \in DOMAIN en : en[a].isDeleted =>
       AccountType[a] # DESOBalance /\ en[a].amount = l[a]}

\* SwapIdentity exchanges the profiles, and so the locked balances, of two
\* public keys; the view then maps both to a PKID.
Swapped(l, x, y) == [a \in {x, y} |-> IF a = x THEN l[y] ELSE l[x]]
NoSwap == [a \in {} |-> 0]
Swaps(l) ==
  {NoSwap} \cup {Swapped(l, x, y) : x, y \in OfType(CreatorCoinLockedBalance)}

BlockEvents(h, l) ==
  [height : {h}, view : Views, entries : Touches(l), swapped : Swaps(l)]

\* What the block makes of the ledger.
AfterBlock(l, e) ==
  [a \in Accounts |->
     IF a \in DOMAIN e.entries
     THEN IF e.entries[a].isDeleted THEN 0 ELSE e.entries[a].amount
     ELSE IF a \in DOMAIN e.swapped THEN e.swapped[a] ELSE l[a]]

CommitEvent(e) ==
  /\ event' = e
  /\ tip' = e.height
  /\ ledger' = AfterBlock(ledger, e)
  /\ history' = [history EXCEPT ![e.height] = AfterBlock(ledger, e)]
  /\ UNCHANGED << first, starting, todo, db, buckets, answers, stale, failed >>

\* The genesis block of a new chain database, inside lib.NewServer: on a first
\* start node.Server is still nil, after an erase it is the stopped server.
CommitGenesis ==
  /\ starting
  /\ tip = -1
  /\ Idle
  /\ \E e \in BlockEvents(0, ledger) : CommitEvent(e)

\* lib.NewServer returns; the new server has not hypersynced yet.
NewServerReturns ==
  /\ starting
  /\ tip >= 0
  /\ Idle
  /\ starting' = FALSE
  /\ first' = 0
  /\ UNCHANGED << tip, event, todo, db, buckets,
                  ledger, history, answers, stale, failed >>

CommitBlock ==
  /\ ~starting
  /\ Idle
  /\ tip < MaxHeight
  /\ \E e \in BlockEvents(tip + 1, ledger) : CommitEvent(e)

\* A hypersync ends: the chain state is now the one at height h.
CompleteSnapshot ==
  /\ SyncType \in HyperSyncTypes
  /\ ~starting
  /\ Idle
  /\ first = 0
  /\ tip = 0
  /\ \E h \in Heights \ {0}, l \in Ledgers :
       /\ tip' = h
       /\ first' = h
       /\ ledger' = l
       /\ history' = [history EXCEPT ![h] = l]
       /\ stale' = [stale EXCEPT ![h] = {}]
  /\ todo' = 1
  /\ answers' = {}
  /\ failed' = {}
  /\ UNCHANGED << starting, event, db, buckets >>

\* An archival node downloads the blocks below the snapshot afterwards.
RedeliverHistorical ==
  /\ SyncType = "hypersync-archival"
  /\ ~starting
  /\ Idle
  /\ first > 0
  /\ \E h \in 1..first : \E e \in BlockEvents(h, history[h]) : event' = e
  /\ UNCHANGED << tip, first, starting, todo, db, buckets,
                  ledger, history, answers, stale, failed >>

\* A NodeErase message: the node stops, removes its data directory, in which
\* both databases lie, and starts again in the same process.
Erase ==
  /\ "erase" \in Faults
  /\ ~starting
  /\ Idle
  /\ starting' = TRUE
  /\ tip' = -1
  /\ db' = {}
  /\ buckets' = [k \in {} |-> Zero]
  /\ ledger' = Zero
  /\ history' = [h \in Heights |-> Zero]
  /\ answers' = {}
  /\ stale' = [h \in Heights |-> {}]
  /\ failed' = {}
  /\ UNCHANGED << first, event, todo >>

-----------------------------------------------------------------------------
(* handleBlockCommitted.                                                    *)

\* Mutants: the snapshot height itself is indexed; the block after it is not.
Ignored_Below(e) ==
  SyncType \in HyperSyncTypes /\ first # 0 /\ e.height < first
Ignored_Above(e) ==
  SyncType \in HyperSyncTypes /\ first # 0 /\ e.height =< first + 1

\* The block is not above the first snapshot of a hypersynced node.
Ignored(e) ==
  SyncType \in HyperSyncTypes /\ first # 0 /\ e.height =< first

\* Mutants: only the profiles in the view; a tombstone's amount is kept.
BalancesToPut_NoPKIDs(e) ==
  [a \in DOMAIN e.entries |->
     IF e.entries[a].isDeleted THEN 0 ELSE e.entries[a].amount]
BalancesToPut_Tombstones(e) ==
  [a \in DOMAIN e.entries \cup DOMAIN e.swapped |->
     IF a \in DOMAIN e.entries THEN e.entries[a].amount ELSE e.swapped[a]]

\* The balance of every entry in the view, 0 for a deleted one, and of every
\* public key with a PKID mapping; a profile in the view overrides the latter.
BalancesToPut(e) ==
  [a \in DOMAIN e.entries \cup DOMAIN e.swapped |->
     IF a \notin DOMAIN e.entries THEN e.swapped[a]
     ELSE IF e.entries[a].isDeleted THEN 0 ELSE e.entries[a].amount]

\* The event is over: its height is answered, with wrong balances for the
\* accounts that were wrong before or lost a write, and were not written.
Answer(lost, written) ==
  /\ event' = NoEvent
  /\ answers' = answers \cup {event.height}
  /\ stale' = [stale EXCEPT ![event.height] =
                 (lost \cup IF event.height = 0 THEN {}
                            ELSE stale[event.height - 1]) \ written]

\* The early return.  A historical block was answered before; a genesis block
\* judged by the snapshot of the server that was erased was not.
IgnoreBlock ==
  /\ event # NoEvent
  /\ Ignored(event)
  /\ IF event.height = tip /\ tip \notin answers
     THEN Answer(DOMAIN BalancesToPut(event), {})
     ELSE event' = NoEvent /\ UNCHANGED << answers, stale >>
  /\ UNCHANGED << tip, first, starting, todo, db, buckets,
                  ledger, history, failed >>

\* An event without a view is logged and dropped.
DropBlock ==
  /\ event # NoEvent
  /\ ~Ignored(event)
  /\ ~event.view
  /\ Answer(DOMAIN BalancesToPut(event), {})
  /\ UNCHANGED << tip, first, starting, todo, db, buckets,
                  ledger, history, failed >>

\* The batch is flushed.  When the flush fails, which is only logged, or the
\* process dies before it ends, a part of the batch may be in the database.
PutBlock(kept) ==
  LET balances == BalancesToPut(event)
  IN  /\ db' = PutBalanceSnapshot(db, event.height, Restrict(balances, kept))
      /\ Answer(DOMAIN balances, kept)
      /\ UNCHANGED << tip, first, starting, todo, buckets,
                      ledger, history, failed >>

IndexBlock ==
  /\ event # NoEvent
  /\ ~Ignored(event)
  /\ event.view
  /\ PutBlock(DOMAIN BalancesToPut(event))

LoseBlock ==
  /\ "flush" \in Faults
  /\ event # NoEvent
  /\ ~Ignored(event)
  /\ event.view
  /\ \E kept \in SUBSET DOMAIN BalancesToPut(event) : PutBlock(kept)

-----------------------------------------------------------------------------
(* handleSnapshotCompleted, one type at a time.                             *)

\* The rows of the chain index of a type: every balance that is not 0, and
\* whichever zero balances the core library keeps.
RowSets(t) ==
  {s \in SUBSET OfType(t) : \A a \in OfType(t) : ledger[a] # 0 => a \in s}

\* Where the loop of HypersyncBuckets puts the rows, in any key order.
Placements(rows, H) ==
  {[a \in rows |-> BucketHeight(pos[a], Cardinality(rows), H)] :
     pos \in Injection(rows, 1..Cardinality(rows))}

\* Mutant: the records are all put at the first snapshot height.
RowRecords_AtSnapshot(rows, place) ==
  {Record(a, first, ledger[a]) : a \in rows}

RowRecords(rows, place) == {Record(a, place[a], ledger[a]) : a \in rows}

\* The maps of balances put for the heights in hs, the last one of a block.
PutGifts(t, rows, place, hs) ==
  [k \in DOMAIN buckets \cup (hs \X {t}) |->
     IF k \in hs \X {t}
     THEN [a \in {r \in rows : place[r] = k[1]} |-> ledger[a]]
     ELSE buckets[k]]

\* Accounts of the type without a row that an older record gives a balance:
\* the loop walks the rows and puts no 0 for what has none, and nothing deletes
\* the records that the genesis block left.
Leftovers(t, rows) == {a \in OfType(t) \ rows : UpTo(db, a, first) # {}}

\* Mutant: the handler goes on after the last type.
PhaseAfter_NoEnd(i) == i + 1

PhaseAfter(i) == IF i = 4 THEN 0 ELSE i + 1

\* The phase ends, and after the last one the handler.
NextPhase ==
  /\ todo' = PhaseAfter(todo)
  /\ answers' = IF todo = 4 THEN {first} ELSE {}
  /\ UNCHANGED << tip, first, starting, event, ledger, history >>

WriteSnapshotType ==
  /\ todo > 0
  /\ LET t == SnapshotTypes[todo]
     IN  \E rows \in RowSets(t) : \E place \in Placements(rows, first) :
           /\ db' = db \cup RowRecords(rows, place)
           /\ buckets' = PutGifts(t, rows, place, Range(place))
           /\ stale' = [stale EXCEPT ![first] = @ \cup Leftovers(t, rows)]
  /\ UNCHANGED failed
  /\ NextPhase

\* A key cannot be decoded, the flush fails or the process dies: the error is
\* logged, part of the batch may be in the database, and the next type runs.
FailSnapshotType ==
  /\ "flush" \in Faults
  /\ todo > 0
  /\ LET t == SnapshotTypes[todo]
     IN  \E rows \in RowSets(t) : \E place \in Placements(rows, first) :
         \E kept \in SUBSET rows : \E hs \in SUBSET Range(place) :
           /\ db' = db \cup RowRecords(kept, place)
           /\ buckets' = PutGifts(t, rows, place, hs)
           /\ stale' = [stale EXCEPT ![first] =
                          @ \cup Leftovers(t, rows) \cup (rows \ kept)]
           /\ failed' = failed \cup {t}
  /\ NextPhase

-----------------------------------------------------------------------------
Core == \/ CommitGenesis
        \/ NewServerReturns
        \/ CommitBlock
        \/ CompleteSnapshot
        \/ RedeliverHistorical
        \/ Erase

Handlers == \/ IgnoreBlock
            \/ DropBlock
            \/ IndexBlock
            \/ LoseBlock
            \/ WriteSnapshotType
            \/ FailSnapshotType

Next == Core \/ Handlers

Spec == Init /\ [][Next]_vars

-----------------------------------------------------------------------------
\* A lookup at a height whose event has been handled returns the balance the
\* chain had at that height, whether the block touched the account or not
\* (deso/index.go:315-357 over the records of deso/events.go:493-575).  Exempt
\* are, until the next block that touches them, two kinds of accounts: those
\* whose last write was lost, and, with no fault at all, those that a genesis
\* record (indexed while node.Server is nil, deso/events.go:467) gives a balance
\* although the snapshot has no row for them.  The second kind is what
\* NothingBeforeTheSnapshot denies and OnlyGenesisOutlives confines.
LookupsAreExact ==
  \A h \in answers : \A a \in Keyed \ stale[h] :
    GetBalanceSnapshot(db, a, h) = history[h][a]

\* On a node that loses nothing, and is not erased, a lookup is wrong in one
\* case only: the chain of a hypersynced node has no balance of the account any
\* more, no record of it was written since the genesis block, and that one
\* still shows through (deso/events.go:467-482, 493-575 and 82-96).
OnlyGenesisOutlives ==
  \A h \in answers : \A a \in Keyed :
    GetBalanceSnapshot(db, a, h) # history[h][a] =>
      /\ first \in 1..h
      /\ history[h][a] = 0
      /\ UpTo(db, a, h) = UpTo(db, a, 0)

\* What the comment at deso/events.go:49-50 says when the bootstrap begins
\* ("We don't need to worry about ancestral records here because we haven't
\* generated any yet").  The genesis block of the same chain contradicts it.
NothingBeforeTheSnapshot == todo = 1 => db = {}

\* What GetBlock gives an account in the synthetic block of a height
\* (deso/block.go:390-563; nothing in block 0, and a zero gift is left out).
GiftAt(a, h) ==
  LET gifts == GetHypersyncBlockBalances(buckets, h, AccountType[a])
  IN  IF h > 0 /\ a \in DOMAIN gifts THEN gifts[a] ELSE 0

GiftsUpTo(a, h) == SumFunction([k \in 0..h |-> GiftAt(a, k)])

\* After the bootstrap, the gifts of the synthetic blocks up to any height add
\* up to the balance looked up at that height, for every account of a type
\* whose phase succeeded and that had no genesis record: the reconciliation a
\* Rosetta client runs (deso/events.go:32-44, deso/block.go:391-397).
GiftsReconcile ==
  first \in answers =>
    \A a \in Keyed :
      \/ first = 0
      \/ AccountType[a] \in failed
      \/ UpTo(db, a, 0) # {}
      \/ \A h \in 0..first : GiftsUpTo(a, h) = GetBalanceSnapshot(db, a, h)

\* An answer is final: no later event changes the balance looked up at a
\* height that has been answered, until the chain itself is replaced
\* (deso/events.go:476-480, deso/index.go:257-270).
AnswersAreFinal ==
  [][\A h \in answers \cap answers' : \A a \in Keyed :
       GetBalanceSnapshot(db', a, h) = GetBalanceSnapshot(db, a, h)]_vars

\* The index is a BalanceBook whose pages are its lookups.
Book == INSTANCE BalanceBook WITH
          Accounts <- Keyed,
          ledger <- Restrict(ledger, Keyed),
          book <- [h \in answers |->
                     [a \in Keyed |-> GetBalanceSnapshot(db, a, h)]]

\* Without faults every page of the index is the ledger the chain committed at
\* that height (deso/events.go:463-577).
ImplementsBook == Book!Spec
=============================================================================

--------------------------- MODULE RosettaAPIProofs ---------------------------
(***************************************************************************)
(* What a client of the node can rely on, for every set of accounts, sync  *)
(* type and bound: a served balance is of one page, and the sums of the    *)
(* blocks it fetched are the balances it is told.                          *)
(***************************************************************************)
EXTENDS RosettaAPI, IndexSyncProofs

-----------------------------------------------------------------------------
(* The index, beside the invariants of IndexSyncProofs.                     *)

\* There is no gap between the answered heights.
AnswersAreContiguous ==
  \A i, j \in answers : \A k \in Heights : i =< k /\ k =< j => k \in answers

\* No flush fails and no data directory is erased.
Quiet == "flush" \notin Faults /\ "erase" \notin Faults

\* On such a node the snapshot is answered when its phases are over, and only
\* the accounts with a genesis record that has no row are wrong there.
SnapshotIsWhole ==
  /\ failed = {}
  /\ starting => first = 0
  /\ first > 0 => /\ todo = 0 => first \in answers
                  /\ \A a \in stale[first] : UpTo(db, a, 0) # {}

-----------------------------------------------------------------------------
(* The client.                                                              *)

RequestOK == request \in Calls \cup {NoRequest}

\* The client asks for committed blocks only.
ClientIsBehind ==
  /\ next \in 0..tip + 1
  /\ request # NoRequest /\ request.call = "GetBlock" => next =< tip

ClientTypes ==
  /\ open \in BOOLEAN
  /\ computed \in [Accounts -> Int]
  /\ trust \in Trusts

\* A request that was found before the bootstrap is served after it by a
\* client that the bootstrap has marked.
FoundIsServed ==
  trust # "replaced" /\ request # NoRequest
    /\ request.call = "GetBlock" /\ request.stage = "read" =>
      (request.synthetic = TRUE <=> IsSynthetic(next))

\* What the blocks below a height gave an account.
DueAt(a, n) == IF n = 0 THEN 0
               ELSE IF first > 0 /\ n - 1 =< first THEN GiftsUpTo(a, n - 1)
               ELSE history[n - 1][a]

Due(a) == DueAt(a, next)

\* The sums of a client are what was due, and of one that fetched gifts too
\* early not more than what is due by now.
SumsAreDue ==
  /\ trust = "clean" => /\ todo > 0 => next = 0
                        /\ \A a \in Bootstrapped : computed[a] = Due(a)
  /\ trust = "missing" => \A a \in Bootstrapped : computed[a] =< Due(a)

ClientInv == /\ SnapshotIsWhole
             /\ ClientIsBehind
             /\ ClientTypes
             /\ FoundIsServed
             /\ SumsAreDue

-----------------------------------------------------------------------------
(* Served balances.                                                         *)

\* A new event's height is right above the answered ones.
LEMMA AnswerIsContiguous ==
  ASSUME IInv, AnswersAreContiguous, event # NoEvent, tip \notin answers,
         answers' = answers \cup {tip}
  PROVE  AnswersAreContiguous'
<1>1. answers \subseteq 0..tip /\ tip \in Int /\ (tip = 0 \/ tip - 1 \in answers)
  BY DEF IInv, TypeOK, TipIsAnswered, EventIsNext
<1> SUFFICES ASSUME NEW i \in answers', NEW j \in answers', NEW k \in Heights,
                    i =< k, k =< j
             PROVE  k \in answers'
  BY DEF AnswersAreContiguous
<1>2. i \in Int /\ j \in Int /\ k \in Nat /\ j =< tip /\ i >= 0
  BY <1>1, HeightAssumption DEF Heights
<1>3. CASE k = tip
  BY <1>3
<1>4. CASE k # tip
  <2>1. k =< tip - 1 /\ i \in answers /\ tip # 0
    BY <1>1, <1>2, <1>4
  <2> QED BY <1>1, <1>2, <2>1 DEF AnswersAreContiguous
<1> QED BY <1>3, <1>4

LEMMA ContiguousInductive ==
  IInv /\ AnswersAreContiguous /\ [Next]_vars => AnswersAreContiguous'
<1> SUFFICES ASSUME IInv, AnswersAreContiguous, [Next]_vars
             PROVE  AnswersAreContiguous'
  OBVIOUS
<1>1. CASE IgnoreBlock \/ DropBlock \/ IndexBlock \/ LoseBlock
  <2>1. \/ answers' = answers
        \/ /\ event # NoEvent /\ event.height = tip /\ tip \notin answers
           /\ answers' = answers \cup {tip}
    <3>1. CASE IgnoreBlock
      BY <3>1 DEF IgnoreBlock, Answer
    <3>2. CASE DropBlock \/ IndexBlock \/ LoseBlock
      <4>1. event # NoEvent /\ ~Ignored(event)
        BY <3>2 DEF DropBlock, IndexBlock, LoseBlock
      <4>2. answers' = answers \cup {event.height}
        BY <3>2 DEF DropBlock, IndexBlock, LoseBlock, PutBlock, Answer
      <4> QED BY <4>1, <4>2 DEF IInv, EventIsNext
    <3> QED BY <1>1, <3>1, <3>2
  <2> QED BY <2>1, AnswerIsContiguous DEF AnswersAreContiguous
<1>2. CASE WriteSnapshotType \/ FailSnapshotType
  <2>1. NextPhase
    BY <1>2 DEF WriteSnapshotType, FailSnapshotType
  <2>2. first \in Int
    BY HeightAssumption DEF IInv, TypeOK, Heights
  <2>3. answers' = {first} \/ answers' = {}
    BY <2>1 DEF NextPhase
  <2> QED BY <2>2, <2>3, HeightAssumption DEF AnswersAreContiguous, Heights
<1>3. CASE Erase \/ CompleteSnapshot
  BY <1>3 DEF Erase, CompleteSnapshot, AnswersAreContiguous
<1>4. CASE \/ CommitGenesis \/ NewServerReturns \/ CommitBlock
           \/ RedeliverHistorical \/ UNCHANGED vars
  <2>1. answers' = answers
    BY <1>4 DEF CommitGenesis, NewServerReturns, CommitBlock, CommitEvent,
                RedeliverHistorical, vars
  <2> QED BY <2>1 DEF AnswersAreContiguous
<1> QED BY <1>1, <1>2, <1>3, <1>4 DEF Next, Core, Handlers

\* No record is above the last answered height.
LEMMA RecordsAreAnswered ==
  ASSUME IInv, todo = 0, answers # {}, NEW r \in db
  PROVE  \E m \in answers : r.height =< m
<1>1. tip \in Nat /\ r.height \in Nat /\ r.height =< tip
  BY RecordType, HeightAssumption
  DEF IInv, TypeOK, TipIsAnswered, RecordsBelowTip, Heights
<1>2. CASE tip \in answers
  BY <1>1, <1>2
<1>3. CASE tip \notin answers
  <2>1. event # NoEvent
    BY <1>1, <1>3 DEF IInv, TipIsAnswered, Idle
  <2>2. tip = 0 \/ tip - 1 \in answers
    BY <1>3, <2>1 DEF IInv, EventIsNext
  <2>3. tip # 0
    <3>1. PICK m \in answers : TRUE
      OBVIOUS
    <3>2. m \in 0..tip
      BY <3>1 DEF IInv, TipIsAnswered
    <3> QED BY <1>3, <3>1, <3>2
  <2>4. r.height # tip
    BY <1>3, <2>1 DEF IInv, RecordsBelowTip, NewEvent
  <2> QED BY <1>1, <2>2, <2>3, <2>4
<1> QED BY <1>2, <1>3

\* The lookup at any height is the one of the last answered height below it.
LEMMA LookupIsOfPage ==
  ASSUME IInv, AnswersAreContiguous, todo = 0, NEW h \in Nat, NEW a,
         NEW page \in answers, page =< h, \A m \in answers : m =< h => m =< page
  PROVE  GetBalanceSnapshot(db, a, h) = GetBalanceSnapshot(db, a, page)
<1>1. answers \subseteq Heights /\ page \in Nat
  BY HeightAssumption DEF IInv, TypeOK, Heights
<1>2. ASSUME NEW r \in db, r.height =< h
      PROVE  r.height =< page
  <2>1. PICK m \in answers : r.height =< m
    BY RecordsAreAnswered
  <2>2. r.height \in Nat /\ m \in Nat
    BY <1>1, RecordType, HeightAssumption DEF IInv, Heights
  <2>3. CASE m =< h
    BY <1>1, <2>1, <2>2, <2>3
  <2>4. CASE m > h
    <3>1. h \in Heights
      BY <1>1, <2>2, <2>4, HeightAssumption DEF Heights
    <3>2. h \in answers
      BY <2>2, <2>4, <3>1 DEF AnswersAreContiguous
    <3> QED BY <1>1, <1>2, <2>2, <3>2
  <2> QED BY <2>2, <2>3, <2>4
<1>3. \A r \in db : r.height \in Nat
  BY RecordType DEF IInv
<1>4. UpTo(db, a, h) = UpTo(db, a, page)
  BY <1>1, <1>2, <1>3 DEF UpTo
<1> QED BY <1>4, LookupSame

LEMMA ServedIsOfOnePage ==
  IInv /\ AnswersAreContiguous /\ RequestOK => BalanceIsOfOnePage
<1> SUFFICES ASSUME IInv, AnswersAreContiguous, RequestOK,
                    request # NoRequest, request.call = "AccountBalance",
                    open, todo = 0, NEW a \in Keyed,
                    {k \in answers : k =< request.height} # {},
                    a \notin stale[CHOOSE n \in {k \in answers : k =< request.height} :
                                     \A m \in {k \in answers : k =< request.height} :
                                       m =< n]
             PROVE  BalanceServed(a, request.height)
                      = history[CHOOSE n \in {k \in answers : k =< request.height} :
                                  \A m \in {k \in answers : k =< request.height} :
                                    m =< n][a]
  BY DEF BalanceIsOfOnePage
<1> DEFINE h == request.height
           pages == {k \in answers : k =< h}
           page == CHOOSE k \in pages : \A m \in pages : m =< k
<1>1. h \in Nat
  BY HeightAssumption DEF RequestOK, Calls
<1>2. pages \in SUBSET (0..h) /\ pages # {}
  BY <1>1, HeightAssumption DEF IInv, TypeOK, Heights
<1>3. \E k \in pages : \A m \in pages : m =< k
  <2> HIDE DEF pages
  <2> QED BY <1>1, <1>2, NatGreatest
<1>4. page \in pages /\ \A m \in pages : m =< page
  <2> HIDE DEF pages
  <2> QED BY <1>3
<1>5. a \in Accounts /\ a \notin stale[page]
  BY DEF Keyed
<1> HIDE DEF page
<1>6. GetBalanceSnapshot(db, a, h) = GetBalanceSnapshot(db, a, page)
  BY <1>1, <1>4, LookupIsOfPage
<1>7. GetBalanceSnapshot(db, a, page) = history[page][a]
  BY <1>4, <1>5 DEF IInv, RecordsAreExact
<1>8. BalanceServed(a, h) = GetBalanceSnapshot(db, a, h)
  BY DEF BalanceServed
<1> QED BY <1>6, <1>7, <1>8 DEF page

-----------------------------------------------------------------------------
(* Requests.                                                                *)

\* The state of the chain and the index changes by the steps of IndexSync only.
LEMMA ChainOnly == [APINext]_apiVars => ChainStep \/ UNCHANGED vars
BY DEF APINext, apiVars, CloseDatabases, OpenDatabases, AskBlock, FindBlock,
       ServeBlock, StartAnew, AskBalance, ServeBalance

LEMMA RequestInductive == IInv /\ RequestOK /\ [APINext]_apiVars => RequestOK'
<1> SUFFICES ASSUME IInv, RequestOK, [APINext]_apiVars PROVE RequestOK'
  OBVIOUS
<1>1. CASE AskBlock
  BY <1>1 DEF AskBlock, RequestOK, Calls
<1>2. CASE FindBlock
  BY <1>2 DEF FindBlock, IsSynthetic, RequestOK, Calls
<1>3. CASE AskBalance
  <2>1. PICK h \in 0..tip + 1 :
          request' = [call |-> "AccountBalance", height |-> h]
    BY <1>3 DEF AskBalance
  <2>2. h \in 0..MaxHeight + 1
    BY HeightAssumption DEF IInv, TypeOK
  <2> QED BY <2>1, <2>2 DEF RequestOK, Calls
<1>4. CASE ServeBlock \/ ServeBalance
  BY <1>4 DEF ServeBlock, ServeBalance, RequestOK
<1>5. CASE request' = request
  BY <1>5 DEF RequestOK
<1> QED BY <1>1, <1>2, <1>3, <1>4, <1>5
        DEF APINext, ChainStep, CloseDatabases, OpenDatabases, StartAnew,
            apiVars, readers

\* The invariants of IndexSync hold of the composition.
LEMMA ChainInductive ==
  IInv /\ GInv /\ AnswersAreContiguous /\ [APINext]_apiVars =>
    IInv' /\ GInv' /\ AnswersAreContiguous'
<1> SUFFICES ASSUME IInv, GInv, AnswersAreContiguous, [APINext]_apiVars
             PROVE  IInv' /\ GInv' /\ AnswersAreContiguous'
  OBVIOUS
<1>1. [Next]_vars
  BY ChainOnly DEF ChainStep
<1> QED BY <1>1, StepKeepsInvariant, GiftsInductive, ContiguousInductive

ChainInv == IInv /\ GInv /\ AnswersAreContiguous /\ RequestOK

LEMMA InitChain == APIInit => ChainInv
<1> SUFFICES ASSUME APIInit PROVE ChainInv
  OBVIOUS
<1>1. Init /\ request = NoRequest
  BY DEF APIInit
<1>2. AnswersAreContiguous
  BY <1>1 DEF Init, AnswersAreContiguous
<1> QED BY <1>1, <1>2, InitInv, InitGifts DEF ChainInv, RequestOK

LEMMA ChainHolds == APISpec => []ChainInv
<1>1. ChainInv /\ [APINext]_apiVars => ChainInv'
  BY ChainInductive, RequestInductive DEF ChainInv
<1> QED BY InitChain, <1>1, PTL DEF APISpec

-----------------------------------------------------------------------------
\* The balance AccountBalance serves for any block it was asked about, also one
\* being handled or not committed, is the one of the last page the index has
\* below it: with every fault of IndexSync, a restart or an erase between the
\* two reads of the request among them (services/account_service.go:35-90,
\* deso/index.go:315-375).
THEOREM BalancesAreOfOnePage == APISpec => []BalanceIsOfOnePage
<1>1. ChainInv => BalanceIsOfOnePage
  BY ServedIsOfOnePage DEF ChainInv
<1> QED BY ChainHolds, <1>1, PTL

-----------------------------------------------------------------------------
(* The chain under a client, when no data directory is erased.              *)

\* The tip never falls, and what is below it stays, unless a bootstrap ends.
LEMMA ChainGrows ==
  ASSUME IInv, "erase" \notin Faults, Next
  PROVE  /\ tip' >= tip
         /\ CompleteSnapshot \/ \A h \in Heights : h =< tip =>
                                  history'[h] = history[h]
<1>1. tip \in Int
  BY DEF IInv, TypeOK
<1>2. CASE CommitGenesis \/ CommitBlock
  <2>1. PICK e \in BlockEvents(tip + 1, ledger) : CommitEvent(e)
    BY <1>2 DEF CommitGenesis, CommitBlock
  <2>2. /\ e.height = tip + 1 /\ tip' = e.height
        /\ history' = [history EXCEPT ![e.height] = AfterBlock(ledger, e)]
    BY <2>1 DEF CommitEvent, BlockEvents
  <2>3. \A h \in Heights : h \in Int
    BY HeightAssumption DEF Heights
  <2> QED BY <1>1, <2>2, <2>3 DEF IInv, TypeOK
<1>3. CASE CompleteSnapshot
  BY <1>3, HeightAssumption DEF CompleteSnapshot, Heights
<1>4. CASE UNCHANGED << tip, history >>
  BY <1>1, <1>4
<1>5. ~Erase
  BY DEF Erase
<1>6. CASE NewServerReturns \/ RedeliverHistorical \/ Handlers
  BY <1>4, <1>6
  DEF NewServerReturns, RedeliverHistorical, Handlers, IgnoreBlock, DropBlock,
      IndexBlock, LoseBlock, PutBlock, WriteSnapshotType, FailSnapshotType,
      NextPhase
<1> QED BY <1>2, <1>3, <1>5, <1>6 DEF Next, Core

\* The client asks for nothing above the tip, and its place in the chain only
\* moves when it is served a block.
LEMMA BehindInductive ==
  ASSUME IInv, RequestOK, ClientIsBehind, "erase" \notin Faults,
         [APINext]_apiVars
  PROVE  ClientIsBehind'
<1>1. tip \in Int /\ next \in Int /\ next >= 0 /\ next =< tip + 1
  BY DEF IInv, TypeOK, ClientIsBehind
<1>2. CASE ChainStep
  <2>1. tip' >= tip /\ tip' \in Int /\ UNCHANGED << request, next >>
    BY <1>2, ChainGrows, StepKeepsInvariant DEF ChainStep, IInv, TypeOK
  <2>2. next' \in 0..tip' + 1
    <3>1. \A m, n, k \in Int : k >= 0 /\ k =< m + 1 /\ n >= m => k \in 0..n + 1
      OBVIOUS
    <3> QED BY <1>1, <2>1, <3>1
  <2>3. request # NoRequest /\ request.call = "GetBlock" => next =< tip'
    BY <1>1, <2>1 DEF ClientIsBehind
  <2> QED BY <2>1, <2>2, <2>3, Zenon DEF ClientIsBehind
<1>3. CASE UNCHANGED << tip, request, next >>
  BY <1>3 DEF ClientIsBehind
<1>4. CASE AskBlock
  BY <1>1, <1>4 DEF AskBlock, NotTooHigh, vars, ClientIsBehind
<1>5. CASE FindBlock
  BY <1>5 DEF FindBlock, vars, ClientIsBehind
<1>6. CASE ServeBlock
  <2>1. next =< tip
    BY <1>6 DEF ServeBlock, ClientIsBehind
  <2>2. request' = NoRequest /\ tip' = tip /\ (next' = next \/ next' = next + 1)
    BY <1>6 DEF ServeBlock, vars
  <2> QED BY <1>1, <2>1, <2>2 DEF ClientIsBehind
<1>7. CASE StartAnew
  <2>1. next' = 0 /\ tip' = tip /\ request' = NoRequest /\ tip >= -1
    BY <1>7, HeightAssumption DEF StartAnew, vars, IInv, TypeOK
  <2>2. next' \in 0..tip' + 1
    BY <1>1, <2>1
  <2> QED BY <2>1, <2>2 DEF ClientIsBehind
<1>8. CASE AskBalance
  <2>1. request'.call = "AccountBalance" /\ UNCHANGED << next, tip >>
    BY <1>8 DEF AskBalance, vars
  <2> QED BY <2>1 DEF ClientIsBehind
<1>9. CASE ServeBalance
  BY <1>9 DEF ServeBalance, vars, ClientIsBehind
<1> QED BY <1>2, <1>3, <1>4, <1>5, <1>6, <1>7, <1>8, <1>9
        DEF APINext, CloseDatabases, OpenDatabases, apiVars, vars, readers

\* What a block does to an account.
LEMMA DeltaType ==
  ASSUME IInv, NEW h \in Heights, NEW a \in Accounts, NEW s
  PROVE  Delta(h, a, s) \in Int
<1>1. GiftAt(a, h) \in Nat
  BY GiftType DEF IInv
<1>2. \A k \in Heights : history[k][a] \in Nat
  BY AmountsAssumption DEF IInv, TypeOK, Ledgers
<1>3. h # 0 => h - 1 \in Heights
  BY HeightAssumption DEF Heights
<1> QED BY <1>1, <1>2, <1>3 DEF Delta

LEMMA TypesInductive ==
  ASSUME IInv, ClientIsBehind, ClientTypes, [APINext]_apiVars
  PROVE  ClientTypes'
<1>1. CASE ChainStep
  BY <1>1 DEF ChainStep, ClientTypes, Trusts
<1>2. CASE CloseDatabases \/ OpenDatabases
  BY <1>2 DEF CloseDatabases, OpenDatabases, readers, ClientTypes
<1>3. CASE ServeBlock
  <2>1. next \in Heights
    BY <1>3, HeightAssumption DEF ServeBlock, ClientIsBehind, IInv, TypeOK, Heights
  <2>2. \A a \in Accounts : Delta(next, a, request.synthetic) \in Int
    BY <2>1, DeltaType
  <2>3. CASE ~request.synthetic /\ ~open
    BY <1>3, <2>3 DEF ServeBlock, ClientTypes
  <2>4. CASE ~(~request.synthetic /\ ~open)
    <3>1. computed' = [a \in Accounts |->
                         computed[a] + Delta(next, a, request.synthetic)]
      BY <1>3, <2>4 DEF ServeBlock
    <3>2. computed' \in [Accounts -> Int]
      BY <2>2, <3>1 DEF ClientTypes
    <3>3. trust' \in Trusts /\ open' = open
      BY <1>3, <2>4 DEF ServeBlock, ClientTypes, Trusts
    <3> QED BY <3>2, <3>3 DEF ClientTypes
  <2> QED BY <2>3, <2>4
<1>4. CASE StartAnew
  <2>1. Zero \in [Accounts -> Int]
    BY DEF Zero
  <2> QED BY <1>4, <2>1 DEF StartAnew, ClientTypes, Trusts
<1>5. CASE UNCHANGED << open, computed, trust >>
  BY <1>5 DEF ClientTypes
<1> QED BY <1>1, <1>2, <1>3, <1>4, <1>5
        DEF APINext, AskBlock, FindBlock, AskBalance, ServeBalance, apiVars,
            readers

LEMMA InitClient == APIInit => ClientIsBehind /\ ClientTypes
<1> SUFFICES ASSUME APIInit PROVE ClientIsBehind /\ ClientTypes
  OBVIOUS
<1>1. tip = -1 /\ next = 0 /\ request = NoRequest /\ open = TRUE
      /\ computed = Zero /\ trust = "clean"
  BY DEF APIInit, Init
<1>2. Zero \in [Accounts -> Int]
  BY DEF Zero
<1> QED BY <1>1, <1>2 DEF ClientIsBehind, ClientTypes, Trusts

\* Every value of the readers keeps its type, and the client never holds a
\* block above the tip, unless the data directory is erased under it: GetBlock
\* refuses what is not committed (deso/block.go:57-76).
THEOREM APITypeCorrect ==
  ASSUME "erase" \notin Faults
  PROVE  APISpec => []APITypeOK
<1> DEFINE Inv == ClientIsBehind /\ ClientTypes
<1>1. APIInit => Inv
  BY InitClient
<1>2. ChainInv /\ Inv /\ [APINext]_apiVars => Inv'
  BY BehindInductive, TypesInductive DEF ChainInv
<1>3. ChainInv /\ Inv => APITypeOK
  BY DEF ChainInv, RequestOK, ClientIsBehind, ClientTypes, APITypeOK
<1> QED BY ChainHolds, <1>1, <1>2, <1>3, PTL DEF APISpec

-----------------------------------------------------------------------------
(* A snapshot that loses nothing.                                           *)

\* A new block's event leaves the snapshot's page alone.
LEMMA EventIsAboveSnapshot ==
  ASSUME IInv, GInv, SnapshotIsWhole, event # NoEvent, tip \notin answers,
         first > 0
  PROVE  event.height # first
<1>1. todo = 0 /\ event.height = tip
  BY DEF IInv, TipIsAnswered, EventIsNext
<1> QED BY <1>1 DEF SnapshotIsWhole

LEMMA WholeInductive ==
  ASSUME Quiet, IInv, GInv, SnapshotIsWhole, [Next]_vars
  PROVE  SnapshotIsWhole'
<1>0. first \in Nat /\ stale \in [Heights -> SUBSET Accounts]
  BY HeightAssumption DEF IInv, TypeOK, Heights
<1>1. CASE UNCHANGED << first, starting, todo, db, answers, stale, failed >>
  BY <1>1 DEF SnapshotIsWhole
<1>2. CASE CommitGenesis \/ CommitBlock \/ RedeliverHistorical \/ UNCHANGED vars
  BY <1>1, <1>2 DEF CommitGenesis, CommitBlock, CommitEvent,
                    RedeliverHistorical, vars
<1>3. CASE NewServerReturns
  BY <1>3 DEF NewServerReturns, SnapshotIsWhole
<1>4. CASE CompleteSnapshot
  <2>1. PICK h \in Heights \ {0} : first' = h /\ stale' = [stale EXCEPT ![h] = {}]
    BY <1>4 DEF CompleteSnapshot
  <2>2. starting' = starting /\ ~starting /\ todo' = 1 /\ failed' = {}
    BY <1>4 DEF CompleteSnapshot
  <2> QED BY <1>0, <2>1, <2>2 DEF SnapshotIsWhole
<1>5. CASE Answer(DOMAIN BalancesToPut(event), {}) /\ event # NoEvent
           /\ tip \notin answers
           /\ UNCHANGED << first, starting, todo, db, failed >>
  <2>1. first > 0 => stale'[first] = stale[first]
    BY <1>0, <1>5, EventIsAboveSnapshot DEF Answer, IInv, TypeOK
  <2>2. answers \subseteq answers'
    BY <1>5 DEF Answer
  <2> QED BY <1>5, <2>1, <2>2 DEF SnapshotIsWhole
<1>6. CASE IgnoreBlock
  BY <1>1, <1>5, <1>6 DEF IgnoreBlock
<1>7. CASE DropBlock
  <2>1. tip \notin answers
    BY <1>7 DEF DropBlock, IInv, EventIsNext
  <2> QED BY <1>5, <1>7, <2>1 DEF DropBlock
<1>8. CASE IndexBlock
  <2>1. event # NoEvent /\ ~Ignored(event) /\ PutBlock(DOMAIN BalancesToPut(event))
    BY <1>8 DEF IndexBlock
  <2>2. tip \notin answers
    BY <2>1 DEF IInv, EventIsNext
  <2>3. UNCHANGED << first, starting, todo, failed >>
    BY <2>1 DEF PutBlock
  <2>4. first > 0 => stale'[first] = stale[first]
    BY <1>0, <2>1, <2>2, EventIsAboveSnapshot DEF PutBlock, Answer, IInv, TypeOK
  <2>5. answers \subseteq answers'
    BY <2>1 DEF PutBlock, Answer
  <2>6. first > 0 => \A a : UpTo(db', a, 0) = UpTo(db, a, 0)
    BY <2>1, PutBlockAboveSnapshot
  <2> QED BY <2>3, <2>4, <2>5, <2>6 DEF SnapshotIsWhole
<1>9. CASE WriteSnapshotType
  <2>1. todo > 0 /\ NextPhase /\ failed' = failed
    BY <1>9 DEF WriteSnapshotType
  <2>2. PICK rows \in RowSets(SnapshotTypes[todo]) :
          /\ db \subseteq db'
          /\ stale' = [stale EXCEPT ![first] =
                         @ \cup Leftovers(SnapshotTypes[todo], rows)]
    BY <1>9 DEF WriteSnapshotType
  <2>3. first > 0 /\ first \in Heights /\ todo \in 1..4
    BY <2>1 DEF IInv, TypeOK, SnapshotProgress
  <2>4. ASSUME NEW a \in Leftovers(SnapshotTypes[todo], rows)
        PROVE  UpTo(db, a, 0) # {}
    <3>1. a \in Accounts /\ AccountType[a] = SnapshotTypes[todo]
          /\ UpTo(db, a, first) # {}
      BY DEF Leftovers, OfType
    <3>2. \A r \in db : r.acct = a => r.height = 0
      BY <2>1, <2>3, <3>1 DEF IInv, SnapshotProgress
    <3> QED BY <3>1, <3>2 DEF UpTo
  <2>5. \A a : UpTo(db, a, 0) \subseteq UpTo(db', a, 0)
    BY <2>2 DEF UpTo
  <2>6. stale'[first] = stale[first] \cup Leftovers(SnapshotTypes[todo], rows)
    BY <1>0, <2>2, <2>3
  <2>7. \A a \in stale'[first] : UpTo(db', a, 0) # {}
    <3> TAKE a \in stale'[first]
    <3>1. UpTo(db, a, 0) # {}
      BY <2>3, <2>4, <2>6 DEF SnapshotIsWhole
    <3> QED BY <2>5, <3>1
  <2>8. first' = first /\ starting' = starting
        /\ (todo' = 0 => first \in answers')
    BY <2>1, <2>3 DEF NextPhase, PhaseAfter
  <2> QED BY <2>1, <2>7, <2>8 DEF SnapshotIsWhole
<1>10. ~Erase /\ ~LoseBlock /\ ~FailSnapshotType
  BY DEF Quiet, Erase, LoseBlock, FailSnapshotType
<1> QED BY <1>2, <1>3, <1>4, <1>6, <1>7, <1>8, <1>9, <1>10
        DEF Next, Core, Handlers

\* The page of the snapshot is what the chain holds, for every account that
\* the bootstrap leaves consistent.
LEMMA SnapshotPageIsExact ==
  ASSUME ChainInv, SnapshotIsWhole, first > 0, todo = 0, NEW a \in Bootstrapped
  PROVE  /\ \A h \in 0..first : GiftsUpTo(a, h) = GetBalanceSnapshot(db, a, h)
         /\ GiftsUpTo(a, first) = history[first][a]
<1>1. a \in Keyed /\ a \in Accounts /\ UpTo(db, a, 0) = {}
  BY DEF Bootstrapped, Keyed
<1>2. first \in answers /\ first \in Nat /\ AccountType[a] \notin failed
  BY HeightAssumption DEF SnapshotIsWhole, ChainInv, IInv, TypeOK, Heights
<1>3. \A h \in 0..first : GiftsUpTo(a, h) = GetBalanceSnapshot(db, a, h)
  BY <1>1, <1>2, GiftsAreReconciled DEF ChainInv, GiftsReconcile
<1>4. a \notin stale[first]
  BY <1>1 DEF SnapshotIsWhole
<1>5. GetBalanceSnapshot(db, a, first) = history[first][a]
  BY <1>1, <1>2, <1>4 DEF ChainInv, IInv, RecordsAreExact
<1>6. first \in 0..first
  BY <1>2
<1> QED BY <1>3, <1>5, <1>6

-----------------------------------------------------------------------------
(* The sums of a client.                                                    *)

LEMMA GiftsUpToNext ==
  ASSUME TypeOK, NEW a \in Accounts, NEW n \in Nat
  PROVE  /\ GiftsUpTo(a, 0) = 0
         /\ GiftsUpTo(a, n) \in Int
         /\ GiftsUpTo(a, n + 1) = GiftsUpTo(a, n) + GiftAt(a, n + 1)
<1> DEFINE f(m) == [k \in 0..m |-> GiftAt(a, k)]
<1>0. \A m \in Nat : /\ IsFiniteSet(0..m) /\ DOMAIN f(m) = 0..m
                     /\ GiftsUpTo(a, m) = SumFunctionOnSet(f(m), 0..m)
                     /\ \A k \in 0..m : f(m)[k] = GiftAt(a, k)
  BY FS_Interval DEF GiftsUpTo, SumFunction
<1>1. \A k : GiftAt(a, k) \in Nat
  BY GiftType
<1> HIDE DEF f
<1>2. GiftsUpTo(a, 0) = 0
  <2>1. \A k \in 0..0 : f(0)[k] = 0
    <3>1. \A k \in 0..0 : k = 0
      OBVIOUS
    <3>2. GiftAt(a, 0) = 0
      BY DEF GiftAt
    <3> QED BY <1>0, <3>1, <3>2
  <2> QED BY <1>0, <2>1, SumZero
<1>3. GiftsUpTo(a, n) \in Int
  BY <1>0, <1>1, SumType
<1>4. GiftsUpTo(a, n + 1) = GiftsUpTo(a, n) + GiftAt(a, n + 1)
  <2>1. 0..(n + 1) = (0..n) \cup {n + 1} /\ n + 1 \notin 0..n /\ n + 1 \in Nat
    OBVIOUS
  <2>2. \A k \in (0..n) \cup {n + 1} :
          f(n + 1)[k] = GiftAt(a, k) /\ f(n + 1)[k] \in Int
    BY <1>0, <1>1, <2>1
  <2>3. SumFunctionOnSet(f(n + 1), (0..n) \cup {n + 1})
          = SumFunctionOnSet(f(n + 1), 0..n) + f(n + 1)[n + 1]
    <3> DEFINE g == f(n + 1)
               T == 0..n
    <3>1. IsFiniteSet(T) /\ n + 1 \notin T
      BY <1>0, <2>1
    <3>2. \A k \in T \cup {n + 1} : g[k] \in Int
      BY <2>2
    <3>3. SumFunctionOnSet(g, T \cup {n + 1}) = SumFunctionOnSet(g, T) + g[n + 1]
      <4> HIDE DEF g, T
      <4> QED BY <3>1, <3>2, SumAdd
    <3> QED BY <3>3
  <2>4. SumFunctionOnSet(f(n + 1), 0..n) = SumFunctionOnSet(f(n), 0..n)
    <3>1. \A k \in 0..n : f(n + 1)[k] = f(n)[k]
      BY <1>0, <2>2
    <3> QED BY <1>0, <3>1, SumSame
  <2>5. GiftsUpTo(a, n + 1) = SumFunctionOnSet(f(n + 1), (0..n) \cup {n + 1})
    BY <1>0, <2>1, Zenon
  <2>6. f(n + 1)[n + 1] = GiftAt(a, n + 1)
    BY <2>2
  <2>7. GiftsUpTo(a, n) = SumFunctionOnSet(f(n), 0..n)
    BY <1>0
  <2> QED BY <2>3, <2>4, <2>5, <2>6, <2>7, Zenon
<1> QED BY <1>2, <1>3, <1>4

\* No gift is negative.
GiftsAreNat == \A a \in Accounts, k \in Heights : GiftAt(a, k) \in Nat

LEMMA ChainGifts == ChainInv => GiftsAreNat
BY GiftType DEF ChainInv, IInv, GiftsAreNat

\* A phase only adds gifts.
LEMMA PhaseAddsGifts ==
  ASSUME ChainInv, ChainInv', SnapshotIsWhole, WriteSnapshotType,
         NEW a \in Accounts, NEW k \in 0..first
  PROVE  GiftAt(a, k) =< GiftAt(a, k)'
<1> DEFINE t == SnapshotTypes[todo]
<1>1. todo \in 1..4 /\ first > 0 /\ first \in Heights /\ ~starting
  <2>1. todo \in 1..4 /\ tip = first /\ first > 0 /\ first \in Nat
    BY HeightAssumption
    DEF WriteSnapshotType, ChainInv, IInv, TypeOK, SnapshotProgress, Heights
  <2> QED BY <2>1 DEF ChainInv, GInv, StartsLow, IInv, TypeOK
<1>2. k \in Heights
  BY <1>1, HeightAssumption DEF Heights
<1>3. PICK rows \in RowSets(t) : \E place \in Placements(rows, first) :
        buckets' = PutGifts(t, rows, place, Range(place))
  BY DEF WriteSnapshotType
<1>4. PICK place \in Placements(rows, first) :
        buckets' = PutGifts(t, rows, place, Range(place))
  BY <1>3
<1>5. GiftAt(a, k) \in Nat
  BY GiftType DEF ChainInv, IInv
<1>6. CASE AccountType[a] = t
  <2>1. t \notin failed
    BY DEF SnapshotIsWhole
  <2>2. Ungifted(t)
    BY <1>1, <1>6, <2>1 DEF ChainInv, GInv, GiftsMatch
  <2>3. GiftAt(a, k) = 0
    BY <1>2, <1>6, <2>2 DEF Ungifted, GiftAt, GetHypersyncBlockBalances
  <2>4. (GiftAt(a, k) \in Nat)'
    <3>1. GiftsAreNat'
      BY ChainGifts, PTL
    <3> QED BY <1>2, <3>1 DEF GiftsAreNat
  <2> QED BY <2>3, <2>4
<1>7. CASE AccountType[a] # t
  <2>1. <<k, AccountType[a]>> \notin Range(place) \X {t}
    BY <1>7
  <2>2. GiftAt(a, k)' = GiftAt(a, k)
    BY <1>4, <2>1 DEF PutGifts, GiftAt, GetHypersyncBlockBalances
  <2> QED BY <1>5, <2>2
<1> QED BY <1>6, <1>7

LEMMA DueType ==
  ASSUME ChainInv, ClientIsBehind, NEW a \in Accounts
  PROVE  Due(a) \in Int
<1>1. next \in Nat /\ tip \in Int /\ tip =< MaxHeight /\ next =< tip + 1
  BY HeightAssumption DEF ClientIsBehind, ChainInv, IInv, TypeOK
<1>2. next # 0 => next - 1 \in Heights /\ next - 1 \in Nat
  BY <1>1, HeightAssumption DEF Heights
<1>3. next # 0 => history[next - 1][a] \in Int
  BY <1>2, AmountsAssumption DEF ChainInv, IInv, TypeOK, Ledgers
<1>4. next # 0 => GiftsUpTo(a, next - 1) \in Int
  BY <1>2, GiftsUpToNext DEF ChainInv, IInv
<1> QED BY <1>3, <1>4 DEF Due, DueAt

\* What is due does not change but for the gifts that are being written.
LEMMA DueGrows ==
  ASSUME Quiet, ChainInv, ChainInv', ClientIsBehind, SnapshotIsWhole, Next,
         ~CompleteSnapshot, next' = next, NEW a \in Accounts
  PROVE  /\ Due(a) =< Due(a)'
         /\ todo = 0 \/ next = 0 => Due(a)' = Due(a)
<1>0. first' = first
  <2>1. CASE NewServerReturns
    BY <2>1 DEF NewServerReturns, SnapshotIsWhole
  <2>2. CASE ~NewServerReturns
    BY <2>2 DEF Quiet, Next, Core, Handlers, CommitGenesis, CommitBlock,
                CommitEvent, RedeliverHistorical, Erase, IgnoreBlock, DropBlock,
                IndexBlock, LoseBlock, PutBlock, WriteSnapshotType,
                FailSnapshotType, NextPhase
  <2> QED BY <2>1, <2>2
<1>1. next \in Nat /\ tip \in Int /\ tip =< MaxHeight /\ next =< tip + 1
      /\ first \in Nat
  BY HeightAssumption DEF ClientIsBehind, ChainInv, IInv, TypeOK, Heights
<1>2. Due(a) \in Int
  BY DueType
<1>3. CASE next = 0
  BY <1>3, <1>2 DEF Due, DueAt
<1>4. CASE next # 0
  <2>1. next - 1 \in Heights /\ next - 1 \in Nat /\ next - 1 =< tip
    BY <1>1, <1>4, HeightAssumption DEF Heights
  <2>2. history'[next - 1] = history[next - 1]
    BY <2>1, ChainGrows DEF ChainInv, Quiet
  <2>3. CASE WriteSnapshotType /\ first > 0 /\ next - 1 =< first
    <3> DEFINE f == [k \in 0..(next - 1) |-> GiftAt(a, k)]
               e == [k \in 0..(next - 1) |-> GiftAt(a, k)']
    <3>1. \A k \in 0..(next - 1) : f[k] \in Int /\ e[k] \in Int /\ f[k] =< e[k]
      <4> TAKE k \in 0..(next - 1)
      <4>1. k \in 0..first /\ k \in Heights
        BY <1>1, <2>1, <2>3, HeightAssumption DEF Heights
      <4>2. GiftsAreNat /\ GiftsAreNat'
        BY ChainGifts, PTL
      <4>3. GiftAt(a, k) \in Nat /\ GiftAt(a, k)' \in Nat
        BY <4>1, <4>2 DEF GiftsAreNat
      <4>4. GiftAt(a, k) =< GiftAt(a, k)'
        BY <2>3, <4>1, PhaseAddsGifts
      <4> QED BY <4>3, <4>4
    <3>2. IsFiniteSet(0..(next - 1)) /\ DOMAIN f = 0..(next - 1)
          /\ DOMAIN e = 0..(next - 1)
      BY <2>1, FS_Interval
    <3>3. GiftsUpTo(a, next - 1) = SumFunctionOnSet(f, 0..(next - 1))
      BY <3>2 DEF GiftsUpTo, SumFunction
    <3>4. GiftsUpTo(a, next - 1)' = SumFunctionOnSet(e, 0..(next - 1))
      BY <3>2 DEF GiftsUpTo, SumFunction
    <3> HIDE DEF f, e
    <3>5. SumFunctionOnSet(f, 0..(next - 1)) =< SumFunctionOnSet(e, 0..(next - 1))
      BY <3>1, <3>2, SumMonotone
    <3>6. Due(a) = GiftsUpTo(a, next - 1) /\ Due(a)' = GiftsUpTo(a, next - 1)'
      BY <1>0, <1>4, <2>3 DEF Due, DueAt
    <3>7. todo # 0
      BY <2>3 DEF WriteSnapshotType
    <3> QED BY <1>4, <3>3, <3>4, <3>5, <3>6, <3>7
  <2>4. CASE ~(first > 0 /\ next - 1 =< first)
    BY <1>0, <1>2, <2>2, <2>4 DEF Due, DueAt
  <2>5. CASE ~WriteSnapshotType
    <3>1. buckets' = buckets
      BY <2>5 DEF Quiet, Next, Core, Handlers, CommitGenesis, CommitBlock,
                  CommitEvent, NewServerReturns, RedeliverHistorical, Erase,
                  IgnoreBlock, DropBlock, IndexBlock, LoseBlock, PutBlock,
                  FailSnapshotType
    <3>2. GiftsUpTo(a, next - 1)' = GiftsUpTo(a, next - 1)
      BY <3>1 DEF GiftsUpTo, GiftAt
    <3> QED BY <1>0, <1>2, <2>2, <3>2 DEF Due, DueAt
  <2> QED BY <2>3, <2>4, <2>5
<1> QED BY <1>3, <1>4

DuesAreInt == \A a \in Accounts : Due(a) \in Int

LEMMA DuesType == ChainInv /\ ClientIsBehind => DuesAreInt
BY DueType DEF DuesAreInt

\* An account that the bootstrap leaves consistent has always been so.
LEMMA BootstrappedShrinks ==
  ASSUME Quiet, SnapshotIsWhole, Next
  PROVE  Bootstrapped' \subseteq Bootstrapped
<1>1. db \subseteq db'
  BY DEF Quiet, Next, Core, Handlers, CommitGenesis, CommitBlock, CommitEvent,
         NewServerReturns, CompleteSnapshot, RedeliverHistorical, Erase,
         IgnoreBlock, DropBlock, IndexBlock, LoseBlock, PutBlock,
         PutBalanceSnapshot, WriteSnapshotType, FailSnapshotType
<1>2. first # 0 => first' # 0
  BY DEF Quiet, SnapshotIsWhole, Next, Core, Handlers, CommitGenesis,
         CommitBlock, CommitEvent, NewServerReturns, CompleteSnapshot,
         RedeliverHistorical, Erase, IgnoreBlock, DropBlock, IndexBlock,
         LoseBlock, PutBlock, WriteSnapshotType, FailSnapshotType, NextPhase
<1>3. \A a : UpTo(db', a, 0) = {} => UpTo(db, a, 0) = {}
  BY <1>1 DEF UpTo
<1> QED BY <1>2, <1>3 DEF Bootstrapped

\* The chain and the handlers leave the client's sums right.
LEMMA ChainKeepsSums ==
  ASSUME Quiet, ChainInv, ChainInv', ClientInv, ClientIsBehind', ChainStep
  PROVE  SumsAreDue' /\ FoundIsServed'
<1>1. /\ Next /\ UNCHANGED << open, request, next, computed >>
      /\ trust' = IF todo = 0 /\ todo' = 1 /\ (next > 0 \/ request # NoRequest)
                  THEN "replaced" ELSE trust
  BY DEF ChainStep
<1>2. Bootstrapped' \subseteq Bootstrapped /\ Bootstrapped \subseteq Accounts
  BY <1>1, BootstrappedShrinks DEF ClientInv, Bootstrapped, Keyed
<1>3. next \in Nat /\ todo \in 0..4
  BY DEF ClientInv, ClientIsBehind, ChainInv, IInv, TypeOK
<1>4. CASE CompleteSnapshot
  <2>1. CASE trust' = "replaced"
    BY <2>1 DEF SumsAreDue, FoundIsServed
  <2>2. CASE trust' # "replaced"
    <3>1. trust' = trust /\ next = 0 /\ request = NoRequest
      BY <1>1, <1>3, <1>4, <2>2 DEF CompleteSnapshot, Idle
    <3>2. \A a : Due(a) = 0 /\ Due(a)' = 0
      BY <1>1, <3>1 DEF Due, DueAt
    <3>3. SumsAreDue'
      BY <1>1, <1>2, <3>1, <3>2 DEF ClientInv, SumsAreDue
    <3> QED BY <1>1, <3>1, <3>3 DEF FoundIsServed
  <2> QED BY <2>1, <2>2
<1>5. CASE ~CompleteSnapshot
  <2>1. todo' > 0 => todo > 0
    BY <1>1, <1>3, <1>5
    DEF Quiet, Next, Core, Handlers, CommitGenesis, CommitBlock,
        CommitEvent, NewServerReturns, RedeliverHistorical, Erase, IgnoreBlock,
        DropBlock, IndexBlock, LoseBlock, PutBlock, WriteSnapshotType,
        FailSnapshotType
  <2>2. trust' = trust
    BY <1>1, <2>1
  <2>3. first' = first
    BY <1>1, <1>5
    DEF ClientInv, SnapshotIsWhole, Quiet, Next, Core, Handlers, CommitGenesis,
        CommitBlock, CommitEvent, NewServerReturns, RedeliverHistorical, Erase,
        IgnoreBlock, DropBlock, IndexBlock, LoseBlock, PutBlock,
        WriteSnapshotType, FailSnapshotType, NextPhase
  <2>4. FoundIsServed'
    BY <1>1, <2>2, <2>3 DEF ClientInv, FoundIsServed, IsSynthetic
  <2>5. \A a \in Accounts : /\ Due(a) =< Due(a)'
                            /\ todo = 0 \/ next = 0 => Due(a)' = Due(a)
    BY <1>1, <1>5, DueGrows DEF ClientInv
  <2>6. ASSUME trust' = "clean"
        PROVE  /\ todo' > 0 => next' = 0
               /\ \A a \in Bootstrapped' : computed'[a] = Due(a)'
    <3>1. todo = 0 \/ next = 0
      BY <1>3, <2>2, <2>6 DEF ClientInv, SumsAreDue
    <3>2. \A a \in Bootstrapped : computed[a] = Due(a)
      BY <2>2, <2>6 DEF ClientInv, SumsAreDue
    <3>3. todo' > 0 => next' = 0
      BY <1>1, <2>1, <3>1
    <3> QED BY <1>1, <1>2, <2>5, <3>1, <3>2, <3>3
  <2>7. ASSUME trust' = "missing", NEW a \in Bootstrapped'
        PROVE  computed'[a] =< Due(a)'
    <3>1. a \in Bootstrapped /\ a \in Accounts
      BY <1>2
    <3>2. computed[a] =< Due(a) /\ computed[a] \in Int
      BY <2>2, <2>7, <3>1 DEF ClientInv, SumsAreDue, ClientTypes
    <3>3. Due(a) \in Int /\ Due(a)' \in Int
      <4>1. DuesAreInt /\ DuesAreInt'
        <5>1. ClientIsBehind
          BY DEF ClientInv
        <5> QED BY <5>1, DuesType, PTL
      <4> QED BY <3>1, <4>1 DEF DuesAreInt
    <3>4. Due(a) =< Due(a)' /\ computed'[a] = computed[a]
      BY <1>1, <2>5, <3>1
    <3> QED BY <3>2, <3>3, <3>4
  <2> QED BY <2>4, <2>6, <2>7 DEF SumsAreDue
<1> QED BY <1>4, <1>5

\* A synthetic block adds its gift to what is due.
LEMMA SyntheticIsDue ==
  ASSUME ChainInv, NEW a \in Accounts, NEW n \in Nat, IsSynthetic(n)
  PROVE  DueAt(a, n + 1) = DueAt(a, n) + GiftAt(a, n)
<1>1. first \in Nat /\ first > 0 /\ n =< first
  BY HeightAssumption DEF IsSynthetic, ChainInv, IInv, TypeOK, Heights
<1>2. DueAt(a, n + 1) = GiftsUpTo(a, n)
  <2>1. n + 1 # 0 /\ (n + 1) - 1 = n
    OBVIOUS
  <2> QED BY <1>1, <2>1 DEF DueAt
<1>3. CASE n = 0
  <2>1. GiftsUpTo(a, 0) = 0
    BY GiftsUpToNext DEF ChainInv, IInv
  <2>2. GiftAt(a, 0) = 0
    BY DEF GiftAt
  <2>3. DueAt(a, 0) = 0
    BY DEF DueAt
  <2> QED BY <1>2, <1>3, <2>1, <2>2, <2>3
<1>4. CASE n # 0
  <2>1. n - 1 \in Nat /\ (n - 1) + 1 = n /\ n - 1 =< first
    BY <1>1, <1>4
  <2>2. DueAt(a, n) = GiftsUpTo(a, n - 1)
    BY <1>1, <1>4, <2>1 DEF DueAt
  <2>3. GiftsUpTo(a, (n - 1) + 1) = GiftsUpTo(a, n - 1) + GiftAt(a, (n - 1) + 1)
    BY <2>1, GiftsUpToNext DEF ChainInv, IInv
  <2>4. GiftsUpTo(a, n) = GiftsUpTo(a, n - 1) + GiftAt(a, n)
    BY <2>1, <2>3, Zenon
  <2> QED BY <1>2, <2>2, <2>4
<1> QED BY <1>3, <1>4

\* A real block adds its change of the ledger; the first one after a snapshot
\* adds it to the snapshot's page.
LEMMA RealIsDue ==
  ASSUME ChainInv, SnapshotIsWhole, NEW a \in Bootstrapped,
         NEW n \in Nat, n =< tip, ~IsSynthetic(n)
  PROVE  /\ todo = 0
         /\ DueAt(a, n) = IF n = 0 THEN 0 ELSE history[n - 1][a]
         /\ DueAt(a, n + 1) = history[n][a]
<1>1. first \in Nat /\ tip \in Int /\ todo \in 0..4
  BY HeightAssumption DEF ChainInv, IInv, TypeOK, Heights
<1>2. first = 0 \/ n > first
  BY <1>1 DEF IsSynthetic, ChainInv, GInv, OnlyHypersync
<1>3. todo = 0
  BY <1>1, <1>2 DEF ChainInv, IInv, SnapshotProgress
<1>4. DueAt(a, n + 1) = history[n][a]
  <2>1. n + 1 # 0 /\ (n + 1) - 1 = n
    OBVIOUS
  <2> QED BY <1>1, <1>2, <2>1 DEF DueAt
<1>5. CASE n = 0
  BY <1>3, <1>4, <1>5 DEF DueAt
<1>6. CASE n # 0
  <2>1. CASE first > 0 /\ n - 1 =< first
    <3>1. n - 1 = first
      BY <1>1, <1>2, <2>1
    <3>2. GiftsUpTo(a, first) = history[first][a]
      BY <1>3, <2>1, SnapshotPageIsExact
    <3>3. DueAt(a, n) = GiftsUpTo(a, n - 1)
      BY <1>6, <2>1 DEF DueAt
    <3> QED BY <1>3, <1>4, <1>6, <3>1, <3>2, <3>3
  <2>2. CASE ~(first > 0 /\ n - 1 =< first)
    BY <1>3, <1>4, <1>6, <2>2 DEF DueAt
  <2> QED BY <2>1, <2>2
<1> QED BY <1>5, <1>6

\* Serving a block.
LEMMA ServeKeepsSums ==
  ASSUME ChainInv, ClientInv, ServeBlock
  PROVE  SumsAreDue'
<1> DEFINE syn == request.synthetic
<1>1. /\ request.call = "GetBlock" /\ request.stage = "read"
      /\ request # NoRequest /\ UNCHANGED vars /\ open' = open
  BY DEF ServeBlock
<1>2. syn \in BOOLEAN
  BY <1>1 DEF ChainInv, RequestOK, Calls
<1>3. next \in Nat /\ next =< tip /\ next \in Heights
  BY <1>1, HeightAssumption
  DEF ClientInv, ClientIsBehind, ChainInv, IInv, TypeOK, Heights
<1>4. Bootstrapped' = Bootstrapped /\ todo' = todo
  BY <1>1 DEF vars, Bootstrapped
<1>5. \A a, n : DueAt(a, n)' = DueAt(a, n)
  BY <1>1 DEF vars, DueAt, GiftsUpTo, GiftAt
<1>6. CASE ~syn /\ ~open
  <2>1. UNCHANGED << next, computed, trust >>
    BY <1>6 DEF ServeBlock
  <2>2. \A a : Due(a)' = Due(a)
    BY <1>5, <2>1 DEF Due
  <2> QED BY <1>4, <2>1, <2>2 DEF ClientInv, SumsAreDue
<1>7. CASE ~(~syn /\ ~open)
  <2>1. /\ computed' = [a \in Accounts |-> computed[a] + Delta(next, a, syn)]
        /\ next' = next + 1
        /\ trust' = IF syn /\ (todo # 0 \/ ~open) /\ trust = "clean"
                    THEN "missing" ELSE trust
    BY <1>7 DEF ServeBlock
  <2>2. \A a : Due(a)' = DueAt(a, next + 1)
    BY <1>5, <2>1 DEF Due
  <2>3. CASE trust = "replaced"
    BY <2>1, <2>3 DEF SumsAreDue
  <2>4. CASE trust # "replaced"
    <3>1. syn <=> IsSynthetic(next)
      BY <1>1, <1>2, <2>4 DEF ClientInv, FoundIsServed
    <3>2. ASSUME NEW a \in Bootstrapped
          PROVE  /\ a \in Accounts /\ computed'[a] = computed[a] + Delta(next, a, syn)
                 /\ computed[a] \in Int /\ Due(a) \in Int
                 /\ Delta(next, a, syn) \in Int
      <4>1. a \in Accounts
        BY DEF Bootstrapped, Keyed
      <4> QED BY <1>3, <2>1, <4>1, DueType, DeltaType
              DEF ClientInv, ClientTypes, ChainInv
    <3>3. CASE syn
      <4>1. ASSUME NEW a \in Bootstrapped
            PROVE  /\ Due(a)' = Due(a) + GiftAt(a, next)
                   /\ Delta(next, a, syn) = IF open THEN GiftAt(a, next) ELSE 0
                   /\ GiftAt(a, next) \in Nat
        <5>1. DueAt(a, next + 1) = DueAt(a, next) + GiftAt(a, next)
          BY <1>3, <3>1, <3>2, <3>3, SyntheticIsDue
        <5>2. GiftAt(a, next) \in Nat
          BY <3>2, GiftType DEF ChainInv, IInv
        <5> QED BY <2>2, <3>3, <5>1, <5>2 DEF Due, Delta
      <4>2. ASSUME trust' = "clean"
            PROVE  /\ todo' > 0 => next' = 0
                   /\ \A a \in Bootstrapped : computed'[a] = Due(a)'
        <5>1. todo = 0 /\ open /\ trust = "clean"
          BY <2>1, <2>4, <3>3, <4>2
        <5>2. \A a \in Bootstrapped : computed[a] = Due(a)
          BY <5>1 DEF ClientInv, SumsAreDue
        <5> QED BY <1>4, <3>2, <4>1, <5>1, <5>2
      <4>3. ASSUME NEW a \in Bootstrapped
            PROVE  computed'[a] =< Due(a)'
        <5>1. computed[a] =< Due(a)
          BY <2>4, <3>2 DEF ClientInv, ClientTypes, Trusts, SumsAreDue
        <5>2. Delta(next, a, syn) =< GiftAt(a, next)
          BY <4>1
        <5> QED BY <3>2, <4>1, <5>1, <5>2
      <4> QED BY <1>4, <4>2, <4>3 DEF SumsAreDue
    <3>4. CASE ~syn
      <4>1. trust' = trust
        BY <2>1, <3>4
      <4>2. ASSUME NEW a \in Bootstrapped
            PROVE  todo = 0 /\ Due(a)' = Due(a) + Delta(next, a, syn)
        <5>1. /\ todo = 0
              /\ DueAt(a, next) = IF next = 0 THEN 0 ELSE history[next - 1][a]
              /\ DueAt(a, next + 1) = history[next][a]
          BY <1>3, <3>1, <3>4, RealIsDue DEF ClientInv
        <5>2. Delta(next, a, syn) = history[next][a] - Due(a)
          BY <3>4, <5>1 DEF Delta, Due
        <5>3. history[next][a] \in Int
          BY <1>3, <3>2, AmountsAssumption DEF ChainInv, IInv, TypeOK, Ledgers
        <5> QED BY <2>2, <3>2, <5>1, <5>2, <5>3
      <4>3. trust = "clean" => todo = 0
        <5>1. first \in Nat /\ todo \in 0..4
          BY HeightAssumption DEF ChainInv, IInv, TypeOK, Heights
        <5>2. todo > 0 => first > 0 /\ next =< first /\ SyncType \in HyperSyncTypes
          BY <1>3 DEF ChainInv, IInv, SnapshotProgress, GInv, OnlyHypersync
        <5> QED BY <3>1, <3>4, <5>1, <5>2 DEF IsSynthetic
      <4>4. ASSUME trust = "clean", NEW a \in Bootstrapped
            PROVE  computed'[a] = Due(a)'
        BY <3>2, <4>2, <4>4 DEF ClientInv, SumsAreDue
      <4>5. ASSUME trust = "missing", NEW a \in Bootstrapped
            PROVE  computed'[a] =< Due(a)'
        BY <3>2, <4>2, <4>5 DEF ClientInv, SumsAreDue
      <4> QED BY <1>4, <4>1, <4>3, <4>4, <4>5 DEF SumsAreDue
    <3> QED BY <1>2, <3>3, <3>4
  <2> QED BY <2>3, <2>4
<1> QED BY <1>6, <1>7

\* The steps of the readers.
LEMMA ReadersKeepSums ==
  ASSUME ChainInv, ClientInv, APINext, ~ChainStep
  PROVE  SumsAreDue' /\ FoundIsServed'
<1>1. vars' = vars
  BY DEF APINext, CloseDatabases, OpenDatabases, AskBlock, FindBlock,
         ServeBlock, StartAnew, AskBalance, ServeBalance
<1>2. Bootstrapped' = Bootstrapped /\ todo' = todo /\ Bootstrapped \subseteq Accounts
  BY <1>1 DEF vars, Bootstrapped, Keyed
<1>3. IsSynthetic(next)' = IsSynthetic(next')
  BY <1>1 DEF vars, IsSynthetic
<1>4. ASSUME UNCHANGED << next, computed, trust >>
      PROVE  SumsAreDue'
  <2>1. \A a : Due(a)' = Due(a)
    BY <1>1, <1>4 DEF vars, Due, DueAt, GiftsUpTo, GiftAt
  <2> QED BY <1>2, <1>4, <2>1 DEF ClientInv, SumsAreDue
<1>5. CASE CloseDatabases \/ OpenDatabases
  <2>1. UNCHANGED << request, next, computed, trust >>
    BY <1>5 DEF CloseDatabases, OpenDatabases, readers
  <2>2. IsSynthetic(next)' <=> IsSynthetic(next)
    BY <1>1, <2>1 DEF vars, IsSynthetic
  <2> QED BY <1>4, <2>1, <2>2 DEF ClientInv, FoundIsServed
<1>6. CASE AskBlock
  <2>1. request'.stage = "find" /\ UNCHANGED << next, computed, trust >>
    BY <1>6 DEF AskBlock
  <2> QED BY <1>4, <2>1 DEF FoundIsServed
<1>7. CASE FindBlock
  <2>1. /\ request' = [call |-> "GetBlock", stage |-> "read",
                       synthetic |-> IsSynthetic(next)]
        /\ UNCHANGED << next, computed, trust >>
    BY <1>7 DEF FindBlock
  <2>2. request'.synthetic = TRUE <=> IsSynthetic(next)
    BY <2>1 DEF IsSynthetic
  <2>3. IsSynthetic(next)' <=> IsSynthetic(next)
    BY <1>1, <2>1 DEF vars, IsSynthetic
  <2> QED BY <1>4, <2>1, <2>2, <2>3 DEF FoundIsServed
<1>8. CASE ServeBlock
  <2>1. request' = NoRequest
    BY <1>8 DEF ServeBlock
  <2> QED BY <1>8, <2>1, ServeKeepsSums DEF FoundIsServed
<1>9. CASE StartAnew
  <2>1. /\ request = NoRequest /\ request' = NoRequest /\ next' = 0
        /\ computed' = Zero /\ trust' = "clean"
    BY <1>9 DEF StartAnew
  <2>2. \A a \in Accounts : computed'[a] = Due(a)'
    BY <2>1 DEF Due, DueAt, Zero
  <2> QED BY <1>2, <2>1, <2>2 DEF SumsAreDue, FoundIsServed
<1>10. CASE AskBalance
  <2>1. request'.call = "AccountBalance" /\ UNCHANGED << next, computed, trust >>
    BY <1>10 DEF AskBalance
  <2> QED BY <1>4, <2>1 DEF FoundIsServed
<1>11. CASE ServeBalance
  <2>1. request' = NoRequest /\ UNCHANGED << next, computed, trust >>
    BY <1>11 DEF ServeBalance
  <2> QED BY <1>4, <2>1 DEF FoundIsServed
<1> QED BY <1>5, <1>6, <1>7, <1>8, <1>9, <1>10, <1>11 DEF APINext

LEMMA ClientInductive ==
  ASSUME Quiet, ChainInv, ChainInv', ClientInv, [APINext]_apiVars
  PROVE  ClientInv'
<1>1. ClientIsBehind' /\ ClientTypes'
  BY BehindInductive, TypesInductive DEF ChainInv, ClientInv, Quiet
<1>2. [Next]_vars
  BY ChainOnly DEF ChainStep
<1>3. SnapshotIsWhole'
  BY <1>2, WholeInductive DEF ChainInv, ClientInv
<1>4. CASE ChainStep
  BY <1>1, <1>3, <1>4, ChainKeepsSums DEF ClientInv
<1>5. CASE APINext /\ ~ChainStep
  BY <1>1, <1>3, <1>5, ReadersKeepSums DEF ClientInv
<1>6. CASE UNCHANGED apiVars
  <2>1. UNCHANGED << vars, request, next, computed, trust >>
    BY <1>6 DEF apiVars, readers
  <2>2. \A a : Due(a)' = Due(a)
    BY <2>1 DEF vars, Due, DueAt, GiftsUpTo, GiftAt
  <2>3. Bootstrapped' = Bootstrapped /\ todo' = todo
    BY <2>1 DEF vars, Bootstrapped
  <2>4. SumsAreDue'
    BY <2>1, <2>2, <2>3 DEF ClientInv, SumsAreDue
  <2>5. IsSynthetic(next)' <=> IsSynthetic(next)
    BY <2>1 DEF vars, IsSynthetic
  <2>6. FoundIsServed'
    BY <2>1, <2>5 DEF ClientInv, FoundIsServed
  <2> QED BY <1>1, <1>3, <2>4, <2>6 DEF ClientInv
<1> QED BY <1>4, <1>5, <1>6

LEMMA InitSums == APIInit => ClientInv
<1> SUFFICES ASSUME APIInit PROVE ClientInv
  OBVIOUS
<1>1. /\ Init /\ next = 0 /\ request = NoRequest
      /\ computed = Zero /\ trust = "clean"
  BY DEF APIInit
<1>2. SnapshotIsWhole
  BY <1>1 DEF Init, SnapshotIsWhole
<1>3. \A a \in Bootstrapped : computed[a] = Due(a)
  BY <1>1 DEF Bootstrapped, Keyed, Due, DueAt, Zero
<1> QED BY <1>1, <1>2, <1>3, InitClient
        DEF ClientInv, FoundIsServed, SumsAreDue, Init

\* What is due at a page that can be read is the balance served there.
LEMMA DueIsServed ==
  ASSUME ChainInv, ClientInv, open, next > 0, todo = 0,
         next - 1 \in answers \/ next - 1 < first,
         NEW a \in Bootstrapped \ stale[next - 1]
  PROVE  Due(a) = BalanceServed(a, next - 1)
<1>1. next \in Nat /\ first \in Nat /\ a \in Accounts /\ next # 0
  BY HeightAssumption
  DEF ClientInv, ClientIsBehind, ChainInv, IInv, TypeOK, Heights,
      Bootstrapped, Keyed
<1>2. BalanceServed(a, next - 1) = GetBalanceSnapshot(db, a, next - 1)
  BY DEF BalanceServed
<1>3. CASE first > 0 /\ next - 1 =< first
  <2>1. next - 1 \in 0..first
    BY <1>1, <1>3
  <2>2. GiftsUpTo(a, next - 1) = GetBalanceSnapshot(db, a, next - 1)
    BY <1>3, <2>1, SnapshotPageIsExact DEF ClientInv
  <2> QED BY <1>1, <1>2, <1>3, <2>2 DEF Due, DueAt
<1>4. CASE ~(first > 0 /\ next - 1 =< first)
  <2>1. next - 1 \in answers
    BY <1>1, <1>4
  <2>2. GetBalanceSnapshot(db, a, next - 1) = history[next - 1][a]
    BY <1>1, <2>1 DEF ChainInv, IInv, RecordsAreExact
  <2> QED BY <1>1, <1>2, <1>4, <2>2 DEF Due, DueAt
<1> QED BY <1>3, <1>4

LEMMA SumsReconcile == ChainInv /\ ClientInv => ClientReconciles
<1> SUFFICES ASSUME ChainInv, ClientInv, open, next > 0, todo = 0,
                    next - 1 \in answers \/ next - 1 < first,
                    NEW a \in Bootstrapped \ stale[next - 1]
             PROVE  /\ trust = "clean" =>
                         computed[a] = BalanceServed(a, next - 1)
                    /\ trust = "missing" =>
                         computed[a] =< BalanceServed(a, next - 1)
  BY DEF ClientReconciles
<1>1. Due(a) = BalanceServed(a, next - 1)
  BY DueIsServed
<1> QED BY <1>1 DEF ClientInv, SumsAreDue

-----------------------------------------------------------------------------
\* The sums of a client that fetches the blocks in order are the balances it
\* is told at its last block, and those of a client that fetched gifts too
\* early are never above them, whenever the index can be read and that block's
\* handler has run: on every node that loses no flush and is not erased, with
\* any accounts and heights, through a bootstrap, restarts and handlers that
\* are behind (deso/block.go:57-98, services/account_service.go:28-90).
THEOREM ClientsReconcile ==
  ASSUME Quiet
  PROVE  APISpec => []ClientReconciles
<1>1. ChainInv /\ ChainInv' /\ ClientInv /\ [APINext]_apiVars => ClientInv'
  BY ClientInductive
<1> QED BY ChainHolds, InitSums, <1>1, SumsReconcile, PTL DEF APISpec
=============================================================================

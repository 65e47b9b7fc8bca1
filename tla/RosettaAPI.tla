------------------------------ MODULE RosettaAPI ------------------------------
(***************************************************************************)
(* The readers of the index beside its writers: GetBlock (deso/block.go),  *)
(* AccountBalance (services/account_service.go) and a client of both, over *)
(* the chain and the handlers of IndexSync.                                *)
(*                                                                         *)
(* The HTTP server takes no lock, so a request's reads fall between any    *)
(* steps of the core library and the handlers.  The client is the one that *)
(* Rosetta asks for: it fetches the blocks in order from block 0, adds up  *)
(* what their operations do to every account, and compares the sums with   *)
(* the balances it asks for.  It is sequential and may start anew.         *)
(*                                                                         *)
(* A real block's operations are the change it made to the ledger, which   *)
(* is what BlockOperations is about.                                       *)
(***************************************************************************)
EXTENDS IndexSync, Sequences

CONSTANT NoRequest   \* the client is not waiting for an answer

VARIABLES
  open,      \* the databases are open; closed while the node restarts
  request,   \* the request being served
  next,      \* the block the client fetches next
  computed,  \* the client's sums
  trust      \* ghost: what happened while the client fetched its blocks

readers == << request, next, computed, trust >>
apiVars == << vars, open, readers >>

\* Nothing; it fetched gifts that were not all written or not readable; it
\* holds blocks of the chain that the bootstrap replaced.
Trusts == {"clean", "missing", "replaced"}

Calls == [call : {"GetBlock"}, stage : {"find"}]
         \cup [call : {"GetBlock"}, stage : {"read"}, synthetic : BOOLEAN]
         \cup [call : {"AccountBalance"}, height : 0..MaxHeight + 1]

\* The client is never ahead of the chain.
APITypeOK ==
  /\ open \in BOOLEAN
  /\ request \in Calls \cup {NoRequest}
  /\ next \in 0..tip + 1
  /\ computed \in [Accounts -> Int]
  /\ trust \in Trusts

APIInit ==
  /\ Init
  /\ open = TRUE
  /\ request = NoRequest
  /\ next = 0
  /\ computed = Zero
  /\ trust = "clean"

-----------------------------------------------------------------------------
(* The writers.                                                             *)

\* The bootstrap replaces the chain below the snapshot.
ChainStep ==
  /\ open
  /\ Next
  /\ trust' = IF todo = 0 /\ todo' = 1 /\ (next > 0 \/ request # NoRequest)
              THEN "replaced" ELSE trust
  /\ UNCHANGED << open, request, next, computed >>

\* A restart without an erase: Stop closes both databases when the server has
\* stopped, and Start opens them again.
CloseDatabases ==
  /\ open
  /\ ~starting
  /\ Idle
  /\ open' = FALSE
  /\ UNCHANGED << vars, readers >>

OpenDatabases ==
  /\ ~open
  /\ open' = TRUE
  /\ UNCHANGED << vars, readers >>

-----------------------------------------------------------------------------
(* Blocks.                                                                  *)

\* Mutant: the next block of the chain may be asked for, too.
NotTooHigh_ByOne(h) == h =< tip + 1

\* GetBlockAtHeight refuses a height above the committed tip.
NotTooHigh(h) == h =< tip

\* A chain without a genesis block has no tip, and without node.Server the
\* handler of the request panics: neither is answered.
AskBlock ==
  /\ request = NoRequest
  /\ ~starting
  /\ NotTooHigh(next)
  /\ request' = [call |-> "GetBlock", stage |-> "find"]
  /\ UNCHANGED << vars, open, next, computed, trust >>

\* Mutant: the snapshot block is served as a real one.
IsSynthetic_Below(h) == SyncType \in HyperSyncTypes /\ first # 0 /\ h < first

\* GetBlock makes a block up at and below the first snapshot.
IsSynthetic(h) == SyncType \in HyperSyncTypes /\ first # 0 /\ h =< first

\* The snapshot's height is read before the gifts or the block.
FindBlock ==
  /\ request # NoRequest
  /\ request.call = "GetBlock"
  /\ request.stage = "find"
  /\ request' = [call |-> "GetBlock", stage |-> "read", synthetic |-> IsSynthetic(next)]
  /\ UNCHANGED << vars, open, next, computed, trust >>

\* The operations of a block on an account.  The gifts come from one read
\* transaction, which finds nothing if the index is closed.
Delta(h, a, synthetic) ==
  IF synthetic THEN IF open THEN GiftAt(a, h) ELSE 0
  ELSE history[h][a] - IF h = 0 THEN 0 ELSE history[h - 1][a]

\* A real block is not found if the chain's database is closed.
ServeBlock ==
  /\ request # NoRequest
  /\ request.call = "GetBlock"
  /\ request.stage = "read"
  /\ request' = NoRequest
  /\ IF ~request.synthetic /\ ~open
     THEN UNCHANGED << next, computed, trust >>
     ELSE /\ computed' = [a \in Accounts |->
                            computed[a] + Delta(next, a, request.synthetic)]
          /\ next' = next + 1
          /\ trust' = IF request.synthetic /\ (todo # 0 \/ ~open) /\ trust = "clean"
                      THEN "missing" ELSE trust
  /\ UNCHANGED << vars, open >>

\* The client forgets its sums and fetches block 0 again.
StartAnew ==
  /\ request = NoRequest
  /\ next > 0
  /\ next' = 0
  /\ computed' = Zero
  /\ trust' = "clean"
  /\ UNCHANGED << vars, open, request >>

-----------------------------------------------------------------------------
(* Balances.                                                                *)

\* AccountBalance reads the tip and finds the block it was asked about: by its
\* index, which is not above the tip, or by its hash, which may also be that
\* of a block that is not committed yet.
AskBalance ==
  /\ request = NoRequest
  /\ ~starting
  /\ tip >= 0
  /\ \E h \in 0..tip + 1 : request' = [call |-> "AccountBalance", height |-> h]
  /\ UNCHANGED << vars, open, next, computed, trust >>

\* The lookup comes later, and its error is dropped.
BalanceServed(a, h) == IF open THEN GetBalanceSnapshot(db, a, h) ELSE 0

ServeBalance ==
  /\ request # NoRequest
  /\ request.call = "AccountBalance"
  /\ request' = NoRequest
  /\ UNCHANGED << vars, open, next, computed, trust >>

APINext == \/ ChainStep
           \/ CloseDatabases
           \/ OpenDatabases
           \/ AskBlock
           \/ FindBlock
           \/ ServeBlock
           \/ StartAnew
           \/ AskBalance
           \/ ServeBalance

APISpec == APIInit /\ [][APINext]_apiVars

-----------------------------------------------------------------------------
\* The accounts the bootstrap leaves consistent: no genesis record shows through.
Bootstrapped == {a \in Keyed : first = 0 \/ UpTo(db, a, 0) = {}}

\* A client's sums are the balances at its last block, whenever the index can
\* be read and that block's handler has run: through the made-up blocks, the
\* snapshot block and the real blocks after it, restarts, and handlers that are
\* behind.  A client that fetched gifts before they were all written, or while
\* the index was closed, has too little and never too much
\* (deso/block.go:57-98, services/account_service.go:28-90).
ClientReconciles ==
  LET last == next - 1
      \* The pages below a snapshot are complete when its own page is.
      readable == /\ open
                  /\ next > 0
                  /\ todo = 0
                  /\ last \in answers \/ last < first
  IN  readable => \A a \in Bootstrapped \ stale[last] :
        /\ trust = "clean" => computed[a] = BalanceServed(a, last)
        /\ trust = "missing" =>
             computed[a] =< BalanceServed(a, last)

\* A balance that is served for a block that is being handled, or is not even
\* committed, is the balance of the last page before it: never a part of the
\* block's own changes, and never a later one (services/account_service.go:35-90,
\* deso/index.go:315-375).
BalanceIsOfOnePage ==
  request # NoRequest /\ request.call = "AccountBalance" /\ open /\ todo = 0 =>
    \A a \in Keyed :
      LET pages == {k \in answers : k =< request.height}
          page == CHOOSE k \in pages : \A m \in pages : m =< k
      IN  pages # {} /\ a \notin stale[page] =>
            BalanceServed(a, request.height) = history[page][a]
=============================================================================

----------------------------- MODULE BlockLedger -----------------------------
(***************************************************************************)
(* The block that BlockOperations converts, as the core library makes it:  *)
(* each transaction changes the balances and leaves UTXO operations that   *)
(* describe the change.  What Rosetta serves is right when the operations  *)
(* of each transaction are exactly the change it made.                     *)
(*                                                                         *)
(* The core library is external, so the actions are the transactions that  *)
(* the code of BlockOperations tells apart, with the UTXO operations it    *)
(* expects of them.  A block lies entirely below the balance model's fork  *)
(* height, where transactions spend whole outputs and get their change     *)
(* back, or entirely above it.                                             *)
(***************************************************************************)
EXTENDS BlockOperations, Functions

CONSTANTS
  Keys,         \* public keys; a key is also its PKID
  Validators,   \* the keys that are validators
  Epochs,       \* epoch numbers
  Fee,          \* the fee of a transaction in nanos
  Amounts,      \* the amounts a transaction moves
  Royalties,    \* [r, q, circulation]: royalties and coins in circulation
  Rewards,      \* the rewards of an epoch
  SwapRecords,  \* the locked amounts a SwapIdentity may record: those "before"
                \* it, which the operations need, or those "after" it, as
                \* deso/block.go:711-712 says
  MaxBalance,   \* bound: the largest balance
  MaxTxns,      \* bound: transactions in the block
  Start         \* the sub-account balances a block may begin with

ASSUME KeysAssumption == Validators \subseteq Keys /\ IsFiniteSet(Keys)
ASSUME FeeAssumption == Fee \in Nat
ASSUME AmountsAssumption == Amounts \subseteq Nat \ {0}
ASSUME EpochsAssumption == Epochs \subseteq Nat /\ IsFiniteSet(Epochs)
ASSUME RoyaltiesAssumption == Royalties \subseteq [r : Nat, q : Nat, circulation : Nat]
ASSUME RewardsAssumption == Rewards \subseteq Nat
ASSUME SwapRecordsAssumption == SwapRecords \subseteq {"before", "after"}
ASSUME BoundsAssumption == MaxBalance \in Nat /\ MaxTxns \in Nat
ASSUME OutputsAssumption ==
  GenesisOutputs \in Seq([publicKey : Keys, amount : Nat])

Accounts ==
  {Main(k) : k \in Keys} \cup {CreatorCoin(k) : k \in Keys}
  \cup {ValidatorEntry(v) : v \in Validators}
  \cup {LockedStake(s, v, e) : s \in Keys, v \in Validators, e \in Epochs}

VARIABLES
  isBalanceModel, \* the block is above the fork
  txns,           \* the transactions of the block so far
  utxoOps,        \* their UTXO operations, and in the end those of the block
  unspent,        \* [key, publicKey, amount] below the fork, empty above it
  closed,         \* no transaction follows
  ledgers,        \* ghost: the balances before the block and after each txn
  inverted        \* ghost: per transaction, the movements served with the
                  \* inverse sign

vars == << isBalanceModel, txns, utxoOps, unspent, closed, ledgers, inverted >>

ledger == Last(ledgers)

GenesisUnspent ==
  {[key |-> << 0, i - 1 >>, publicKey |-> GenesisOutputs[i].publicKey,
    amount |-> GenesisOutputs[i].amount] : i \in DOMAIN GenesisOutputs}

AmountOf(coins) == SumFunction([c \in coins |-> c.amount])

OwnedBy(k, coins) == {c \in coins : c.publicKey = k}

\* The block begins with balances that the model can hold.
ASSUME StartAssumption ==
  /\ \A s \in Start : \A a \in DOMAIN s :
       s[a] \in 0..MaxBalance /\ a \notin {Main(k) : k \in Keys}
  /\ \A k \in Keys : AmountOf(OwnedBy(k, GenesisUnspent)) =< MaxBalance

Init ==
  /\ isBalanceModel \in BOOLEAN
  /\ txns = <<>>
  /\ utxoOps = <<>>
  /\ unspent = IF isBalanceModel THEN {} ELSE GenesisUnspent
  /\ closed = FALSE
  /\ \E s \in Start :
       ledgers = << [a \in Accounts |->
         IF a \in DOMAIN s THEN s[a]
         ELSE AmountOf({c \in GenesisUnspent : Main(c.publicKey) = a})] >>
  /\ inverted = <<>>

-----------------------------------------------------------------------------
(* How the core library connects a transaction.                             *)

\* A coin a key spends; a credit to a key.
Credit(k, n) == [publicKey |-> k, amount |-> n]

\* The ways to pay n nanos: one balance, or coins that are worth as much.
Payments(k, n) ==
  IF n = 0 THEN {{}}
  ELSE IF isBalanceModel THEN {{[publicKey |-> k, amount |-> n]}}
  ELSE {coins \in SUBSET OwnedBy(k, unspent) : AmountOf(coins) >= n}

SpendOps(coins) ==
  LET s == SetToSeq(coins)
  IN  [i \in DOMAIN s |->
         IF isBalanceModel
         THEN [type |-> "SpendBalance", publicKey |-> s[i].publicKey,
               amount |-> s[i].amount]
         ELSE [type |-> "SpendUtxo", key |-> s[i].key, amount |-> s[i].amount]]

InputKeys(coins) ==
  LET s == SetToSeq(coins)
  IN  IF isBalanceModel THEN <<>> ELSE [i \in DOMAIN s |-> s[i].key]

\* What a payment is worth more than its price comes back.
Change(k, coins, n) ==
  IF AmountOf(coins) > n THEN << Credit(k, AmountOf(coins) - n) >> ELSE <<>>

\* The n-th credit of a transaction has its output index n - 1.
NewCoin(credits, i) ==
  [key |-> << Len(txns) + 1, i - 1 >>, publicKey |-> credits[i].publicKey,
   amount |-> credits[i].amount]

AddOps(credits) ==
  [i \in DOMAIN credits |->
     [type |-> IF isBalanceModel THEN "AddBalance" ELSE "AddUtxo",
      key |-> NewCoin(credits, i).key, publicKey |-> credits[i].publicKey,
      amount |-> credits[i].amount]]

\* The ledger after a sequence of movements.
Move(a, n) == [account |-> a, value |-> n]

After(l, moved) == [a \in DOMAIN l |-> l[a] + ValueOf(moved, a)]

CreditMoves(credits) ==
  [i \in DOMAIN credits |-> Move(Main(credits[i].publicKey), credits[i].amount)]

\* A transaction of key k that pays price, and for which bidder pays bid.
Plain(type, k, price, outputs) ==
  [type |-> type, publicKey |-> k, price |-> price, outputs |-> outputs,
   implicit |-> <<>>, bidder |-> k, bid |-> 0, meta |-> [note |-> type],
   special |-> <<>>, moved |-> <<>>, inverse |-> <<>>]

\* A wrapper stands for the two transactions in it.
Connected ==
  Len(txns) + Cardinality({i \in DOMAIN txns : txns[i].type = "AtomicTxnsWrapper"})

Outputs(t, coins) == t.outputs \o Change(t.publicKey, coins, t.price)
Implicit(t, bids) == t.implicit \o Change(t.bidder, bids, t.bid)
Credits(t, coins, bids) == Outputs(t, coins) \o Implicit(t, bids)

Txn(t, coins, bids) ==
  [type |-> t.type, publicKey |-> t.publicKey, inputs |-> InputKeys(coins),
   outputs |-> Outputs(t, coins), bidderInputs |-> InputKeys(bids), meta |-> t.meta]

UtxoOps(t, coins, bids) ==
  SpendOps(coins) \o SpendOps(bids) \o AddOps(Credits(t, coins, bids)) \o t.special

Moved(t, coins, bids) ==
  << Move(Main(t.publicKey), -AmountOf(coins)), Move(Main(t.bidder), -AmountOf(bids)) >>
  \o CreditMoves(Credits(t, coins, bids)) \o t.moved

Connect(t) ==
  /\ ~closed
  /\ Connected < MaxTxns
  /\ \E coins \in Payments(t.publicKey, t.price) :
     \E bids \in Payments(t.bidder, t.bid) :
       /\ isBalanceModel \/ coins \cap bids = {}
       /\ LET credits == Credits(t, coins, bids)
              after   == After(ledger, Moved(t, coins, bids))
          IN  /\ \A a \in Accounts : after[a] \in 0..MaxBalance
              /\ ledgers' = Append(ledgers, after)
              /\ txns' = Append(txns, Txn(t, coins, bids))
              /\ utxoOps' = Append(utxoOps, UtxoOps(t, coins, bids))
              /\ unspent' = IF isBalanceModel THEN {}
                            ELSE (unspent \ (coins \cup bids))
                                 \cup {NewCoin(credits, i) : i \in DOMAIN credits}
  /\ inverted' = Append(inverted, t.inverse)
  /\ UNCHANGED << isBalanceModel, closed >>

-----------------------------------------------------------------------------
(* The transactions.                                                        *)

BlockReward ==
  \E k \in Keys, n \in Amounts :
    Connect(Plain("BlockReward", k, 0, << Credit(k, n) >>))

BasicTransfer ==
  \E x, y \in Keys, n \in Amounts :
    Connect(Plain("BasicTransfer", x, n + Fee, << Credit(y, n) >>))

BuyCreatorCoin ==
  \E x, y \in Keys, n \in Amounts :
    Connect([Plain("CreatorCoin", x, n + Fee, <<>>) EXCEPT
      !.meta = [profile |-> y, operation |-> "buy"],
      !.special = << [type |-> "CreatorCoin", lockedDiff |-> n] >>,
      !.moved = << Move(CreatorCoin(y), n) >>])

SellCreatorCoin ==
  \E x, y \in Keys, n \in Amounts :
    Connect([Plain("CreatorCoin", x, Fee, <<>>) EXCEPT
      !.implicit = << Credit(x, n) >>,
      !.meta = [profile |-> y, operation |-> "sell"],
      !.special = << [type |-> "CreatorCoin", lockedDiff |-> -n] >>,
      !.moved = << Move(CreatorCoin(y), -n) >>])

SwapRecord(n, m) == [type |-> "SwapIdentity", fromLocked |-> n, toLocked |-> m]

\* Any two public keys, by the key that may update profiles.
SwapIdentity ==
  \E x, from, to \in Keys, record \in SwapRecords :
    LET f == ledger[CreatorCoin(from)]
        t == ledger[CreatorCoin(to)]
        moves == << Move(CreatorCoin(from), t - f), Move(CreatorCoin(to), f - t) >>
    IN  /\ from # to
        /\ Connect([Plain("SwapIdentity", x, Fee, <<>>) EXCEPT
             !.meta = [from |-> from, to |-> to],
             !.special = << IF record = "before" THEN SwapRecord(f, t)
                            ELSE SwapRecord(t, f) >>,
             !.moved = moves,
             !.inverse = IF record = "before" THEN <<>> ELSE moves])

\* An NFT of the creator c is sold for n to the key y: the creator's royalty r is locked in
\* the creator's coin if enough coins circulate, and lost otherwise; the coin
\* of the key d gets a royalty q, and the seller the rest.
NFTSold(type, y, s, c, d) ==
  [type |-> type, bidder |-> y, creator |-> c, royalty |-> s.r, prevCoinEntry |-> TRUE,
   circulation |-> s.circulation, royalties |-> << Credit(d, s.q) >>]

RoyaltiesMoved(s, c, d) ==
  << Move(CreatorCoin(c), IF s.circulation >= Threshold THEN s.r ELSE 0),
     Move(CreatorCoin(d), s.q) >>

AcceptNFTBid ==
  \E x, y, c, d \in Keys, n \in Amounts, s \in Royalties :
    /\ x # y
    /\ s.r + s.q < n
    /\ Connect([Plain("AcceptNFTBid", x, Fee, <<>>) EXCEPT
         !.implicit = << Credit(x, n - s.r - s.q) >>,
         !.bidder = y,
         !.bid = n,
         !.special = << NFTSold("AcceptNFTBid", y, s, c, d) >>,
         !.moved = RoyaltiesMoved(s, c, d)])

\* A bid that buys an NFT of the seller y at once.
BuyNowNFTBid ==
  \E x, y, c, d \in Keys, n \in Amounts, s \in Royalties :
    /\ s.r + s.q < n
    /\ Connect([Plain("NFTBid", x, n + Fee, <<>>) EXCEPT
         !.implicit = << Credit(y, n - s.r - s.q) >>,
         !.special = << NFTSold("NFTBid", x, s, c, d) >>,
         !.moved = RoyaltiesMoved(s, c, d)])

\* A bid that only waits for its acceptance.
NFTBid ==
  \E x \in Keys :
    Connect([Plain("NFTBid", x, Fee, <<>>) EXCEPT
      !.special = << [type |-> "NFTBid", bidder |-> x, creator |-> x, royalty |-> 0,
                      prevCoinEntry |-> FALSE, circulation |-> 0,
                      royalties |-> <<>>] >>])

UpdateProfile ==
  \E x \in Keys : \E lost \in {0, ledger[CreatorCoin(x)]} :
    Connect([Plain("UpdateProfile", x, Fee, <<>>) EXCEPT
      !.special = << [type |-> "UpdateProfile", clobberedLocked |-> lost] >>,
      !.moved = << Move(CreatorCoin(x), -lost) >>])

\* The order of x finds an order of y: x sells for DESO that y's inputs pay,
\* or buys from y for DESO of its own.
DAOCoinLimitOrder ==
  \E x, y \in Keys, n \in Amounts :
    /\ x # y
    /\ \/ Connect([Plain("DAOCoinLimitOrder", x, Fee, <<>>) EXCEPT
            !.implicit = << Credit(x, n) >>,
            !.bidder = y,
            !.bid = n,
            !.meta = [bidder |-> y]])
       \/ Connect([Plain("DAOCoinLimitOrder", x, n + Fee, <<>>) EXCEPT
            !.implicit = << Credit(y, n) >>,
            !.meta = [bidder |-> y]])

Stake ==
  /\ isBalanceModel
  /\ \E x \in Keys, v \in Validators, n \in Amounts :
       Connect([Plain("Stake", x, n + Fee, <<>>) EXCEPT
         !.meta = [amount |-> n],
         !.special = << [type |-> "Stake", validator |-> v] >>,
         !.moved = << Move(ValidatorEntry(v), n) >>])

Unstake ==
  /\ isBalanceModel
  /\ \E x \in Keys, v \in Validators, n \in Amounts, e \in Epochs :
       Connect([Plain("Unstake", x, Fee, <<>>) EXCEPT
         !.meta = [amount |-> n],
         !.special = << [type |-> "Unstake", staker |-> x, validator |-> v,
                         epoch |-> e] >>,
         !.moved = << Move(ValidatorEntry(v), -n), Move(LockedStake(x, v, e), n) >>,
         !.inverse = << Move(ValidatorEntry(v), -n) >>])

\* Every locked stake of x with v in a range of epochs is paid out.
UnlockStake ==
  /\ isBalanceModel
  /\ \E x \in Keys, v \in Validators, first, last \in Epochs :
       LET entries == {a \in {LockedStake(x, v, e) : e \in Epochs \cap first..last} :
                         ledger[a] # 0}
           s == SetToSeq(entries)
           moves == [i \in DOMAIN s |-> Move(s[i], -ledger[s[i]])]
       IN  /\ entries # {}
           /\ Connect([Plain("UnlockStake", x, Fee, <<>>) EXCEPT
                !.implicit = << Credit(x, SumFunctionOnSet(ledger, entries)) >>,
                !.special = << [type |-> "UnlockStake", entries |->
                    [i \in DOMAIN s |-> [account |-> s[i], amount |-> ledger[s[i]]]]] >>,
                !.moved = moves,
                !.inverse = moves])

\* The last two transactions have come in one wrapper.
AtomicTxnsWrapper ==
  LET n == Len(txns)
  IN  /\ isBalanceModel
      /\ ~closed
      /\ n >= 2
      /\ "AtomicTxnsWrapper" \notin {txns[n].type, txns[n - 1].type}
      /\ txns' = Append(SubSeq(txns, 1, n - 2),
                   [type |-> "AtomicTxnsWrapper", publicKey |-> txns[n].publicKey,
                    inputs |-> <<>>, outputs |-> <<>>, bidderInputs |-> <<>>,
                    meta |-> [txns |-> << txns[n - 1], txns[n] >>]])
      /\ utxoOps' = Append(SubSeq(utxoOps, 1, n - 2),
                      << [type |-> "AtomicTxnsWrapper",
                          innerOps |-> << utxoOps[n - 1], utxoOps[n] >>] >>)
      /\ ledgers' = Append(SubSeq(ledgers, 1, n - 1), ledger)
      /\ inverted' = Append(SubSeq(inverted, 1, n - 2), inverted[n - 1] \o inverted[n])
      /\ UNCHANGED << isBalanceModel, unspent, closed >>

\* The block ends, above the fork with operations of its own: the rewards of
\* an epoch, paid to a key k and staked again with a validator v.
EndBlock ==
  /\ ~closed
  /\ closed' = TRUE
  /\ \/ UNCHANGED << utxoOps, ledgers >>
     \/ /\ isBalanceModel
        /\ \E k \in Keys, v \in Validators, n, m \in Rewards :
             LET moved == << Move(Main(k), n), Move(ValidatorEntry(v), m) >>
             IN  /\ \A a \in Accounts : After(ledger, moved)[a] =< MaxBalance
                 /\ ledgers' = Append(ledgers, After(ledger, moved))
                 /\ utxoOps' = Append(utxoOps,
                      << [type |-> "StakeDistributionRestake", validator |-> v,
                          amount |-> m],
                         [type |-> "StakeDistributionPayToBalance", publicKey |-> k,
                          amount |-> n] >>)
  /\ UNCHANGED << isBalanceModel, txns, unspent, inverted >>

Next ==
  \/ BlockReward       \/ BasicTransfer     \/ BuyCreatorCoin
  \/ SellCreatorCoin   \/ SwapIdentity      \/ AcceptNFTBid
  \/ BuyNowNFTBid      \/ NFTBid            \/ UpdateProfile
  \/ DAOCoinLimitOrder \/ Stake             \/ Unstake
  \/ UnlockStake       \/ AtomicTxnsWrapper \/ EndBlock

Spec == Init /\ [][Next]_vars

-----------------------------------------------------------------------------
Served == GetTransactionsForConvertBlock(txns, isBalanceModel, utxoOps)

Inverted(i) == IF i \in DOMAIN inverted THEN inverted[i] ELSE <<>>

\* The served transactions are those of the block, their operations are about
\* accounts that exist, and below the fork a balance is its unspent outputs.
TypeOK ==
  /\ isBalanceModel \in BOOLEAN
  /\ closed \in BOOLEAN
  /\ Connected =< MaxTxns
  /\ \A i \in DOMAIN ledgers : ledgers[i] \in [Accounts -> 0..MaxBalance]
  /\ isBalanceModel \/ \A k \in Keys :
       ledger[Main(k)] = AmountOf(OwnedBy(k, unspent))
  /\ \A i \in DOMAIN Served :
       Served[i] \in Seq([account : Accounts, type : {"INPUT", "OUTPUT"}, value : Int])

\* Each served transaction changes each account as the transaction changed the
\* ledger, but takes the movements of inverse(i) with the inverse sign.
Reconciles(inverse(_)) ==
  LET served == Served
  IN  /\ Len(served) = Len(ledgers) - 1
      /\ \A i \in DOMAIN served : \A a \in Accounts :
           ValueOf(served[i], a)
             = (ledgers[i + 1][a] - ledgers[i][a]) - 2 * ValueOf(inverse(i), a)

\* What is served changes each account as the ledger changed, whatever is spent,
\* returned, locked, lost or wrapped, below and above the fork, and the block's
\* own operations account for the rewards.  The inverse of the change is served
\* for what an Unstake takes from the validator's entry, for what an UnlockStake
\* takes from the locked stakes, and for a SwapIdentity whose record holds the
\* amounts after the swap, and for nothing else (deso/block.go:140-387).
OperationsReconcile == Reconciles(Inverted)

-----------------------------------------------------------------------------
\* deso/block.go:1048: "We need to negate this value because it's an input,
\* which means it's subtracting from the account's balance": the inputs of an
\* Unstake and an UnlockStake, too, take from the account's balance.
InputsSubtract == Reconciles(LAMBDA i : <<>>)

\* Every SwapIdentity changes the balances as its operations do.  This holds for
\* records of the amounts before the swap, and is violated if the amounts "are
\* the total DESO locked for the respective accounts after the swap has
\* occurred" (deso/block.go:711-712).
SwapsReconcile ==
  Reconciles(LAMBDA i : IF i \in DOMAIN txns /\ txns[i].type = "SwapIdentity"
                        THEN <<>> ELSE Inverted(i))
=============================================================================

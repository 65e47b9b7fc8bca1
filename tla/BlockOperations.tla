---------------------------- MODULE BlockOperations ----------------------------
(***************************************************************************)
(* How a block of the chain becomes the transactions and operations that   *)
(* Rosetta serves (deso/block.go:140-387 and 566-1356): pure functions of  *)
(* the block and of the UTXO operations that the core library stored when  *)
(* it connected the block.                                                 *)
(*                                                                         *)
(* A transaction is [type, publicKey, inputs, outputs, bidderInputs,       *)
(* meta]; an input is the key of an unspent output, an output [publicKey,  *)
(* amount], and the bidder inputs are those that the metadata lists.  A    *)
(* UTXO operation is a record with a type and the fields that type uses.   *)
(* An account is a tuple: a public key and its sub-account.  The index of  *)
(* an operation is its place in the sequence, so the numOps parameters of  *)
(* the code have no counterpart.                                           *)
(***************************************************************************)
EXTENDS Integers, Sequences, FiniteSets, SequencesExt, Selections

CONSTANTS
  Threshold,       \* CreatorCoinAutoSellThresholdNanos
  GenesisOutputs   \* the outputs of the genesis transaction, as a sequence

ASSUME ThresholdAssumption == Threshold \in Nat

\* The accounts of the operations.
Main(k)              == << k, "" >>
CreatorCoin(k)       == << k, "CREATOR_COIN" >>
ValidatorEntry(v)    == << v, "VALIDATOR_ENTRY" >>
LockedStake(s, v, e) == << s, "LOCKED_STAKE_ENTRY", v, e >>

Operation(account, type, value) ==
  [account |-> account, type |-> type, value |-> value]
Input(account, value)  == Operation(account, "INPUT", value)
Output(account, value) == Operation(account, "OUTPUT", value)

OfType(utxoOps, types) ==
  Selection(utxoOps, {u \in ToSet(utxoOps) : u.type \in types})

\* The values of the operations of one account, added up.
ValueOf(ops, account) ==
  SumFunction([i \in DOMAIN ops |->
                 IF ops[i].account = account THEN ops[i].value ELSE 0])

-----------------------------------------------------------------------------
(* Inputs and outputs of the transaction itself.                            *)

\* The outputs that any transaction of the block spends, and their amounts.
Spends(utxoOpsForBlock) ==
  {u \in UNION {ToSet(utxoOpsForBlock[i]) : i \in DOMAIN utxoOpsForBlock} :
     u.type = "SpendUtxo"}

\* An output has one amount, so any operation that spends it will do
\* (CoinsRight in BlockLedgerProofs).
SpentUtxos(utxoOpsForBlock) ==
  LET spends == Spends(utxoOpsForBlock)
  IN  [k \in {u.key : u \in spends} |-> (CHOOSE u \in spends : u.key = k).amount]

\* An input that is not found counts 0.
TxInputs(txn, spentUtxos) ==
  [i \in DOMAIN txn.inputs |->
     Input(Main(txn.publicKey),
           IF txn.inputs[i] \in DOMAIN spentUtxos
           THEN -spentUtxos[txn.inputs[i]] ELSE 0)]

\* In the balance model the outputs are taken from the UTXO operations.
TxOutputs(txn, isBalanceModelTxn) ==
  IF isBalanceModelTxn THEN <<>>
  ELSE [i \in DOMAIN txn.outputs |->
          Output(Main(txn.outputs[i].publicKey), txn.outputs[i].amount)]

getBalanceModelSpends(utxoOps) ==
  LET spends == OfType(utxoOps, {"SpendBalance"})
  IN  [i \in DOMAIN spends |->
         Input(Main(spends[i].publicKey), -spends[i].amount)]

\* Outputs that are not in the transaction: those of the balance model, and
\* unspent outputs numbered after the ones the transaction has.
getImplicitOutputs(numOutputs, utxoOps) ==
  LET added == Selection(utxoOps, {u \in ToSet(utxoOps) :
                 \/ u.type = "AddUtxo" /\ u.key[2] >= numOutputs
                 \/ u.type \in {"AddBalance", "StakeDistributionPayToBalance"}})
  IN  [i \in DOMAIN added |->
         Output(Main(added[i].publicKey), added[i].amount)]

\* Genesis transaction 0 has no UTXO operations; its outputs are known.
getInputAmount(key, utxoOps) ==
  IF key[1] = 0 THEN -GenesisOutputs[key[2] + 1].amount
  ELSE -SpentUtxos(<< utxoOps >>)[key]

\* Every input of another key that the metadata lists was spent by this very
\* transaction.  If one was not there are no special operations at all.
InputsAreFound(inputs, utxoOps) ==
  \A i \in DOMAIN inputs :
    inputs[i][1] = 0 \/ inputs[i] \in DOMAIN SpentUtxos(<< utxoOps >>)

BidderInputs(publicKey, inputs, utxoOps) ==
  [i \in DOMAIN inputs |->
     Input(Main(publicKey), getInputAmount(inputs[i], utxoOps))]

-----------------------------------------------------------------------------
(* The special operations of some transaction types.                        *)

\* The difference is negative for a sale and positive for a purchase.
getCreatorCoinOps(txn, utxoOps) ==
  LET found == OfType(utxoOps, {"CreatorCoin"})
  IN  IF \/ txn.type # "CreatorCoin"
         \/ found = <<>>
         \/ txn.meta.operation \notin {"sell", "buy"}
      THEN <<>>
      ELSE << Operation(CreatorCoin(txn.meta.profile),
                        IF txn.meta.operation = "sell" THEN "INPUT" ELSE "OUTPUT",
                        found[1].lockedDiff) >>

\* The locked amount recorded for each profile leaves it and goes to the other.
getSwapIdentityOps(txn, utxoOps) ==
  LET found == OfType(utxoOps, {"SwapIdentity"})
      from  == CreatorCoin(txn.meta.from)
      to    == CreatorCoin(txn.meta.to)
  IN  IF txn.type # "SwapIdentity" \/ found = <<>> THEN <<>>
      ELSE << Input(from, -found[1].fromLocked), Input(to, -found[1].toLocked),
              Output(from, found[1].toLocked), Output(to, found[1].fromLocked) >>

\* Mutant: the royalty of the operation is taken as paid.
CreatorRoyalty_AnyCirculation(u) ==
  IF u.royalty > 0 THEN << Output(CreatorCoin(u.creator), u.royalty) >> ELSE <<>>

\* The royalty is shown only if enough coins circulated for it to be paid.
CreatorRoyalty(u) ==
  IF u.circulation >= Threshold /\ u.royalty > 0
  THEN << Output(CreatorCoin(u.creator), u.royalty) >> ELSE <<>>

addNFTRoyalties(royalties) ==
  LET paid == Selection(royalties, {r \in ToSet(royalties) : r.amount # 0})
  IN  [i \in DOMAIN paid |-> Output(CreatorCoin(paid[i].publicKey), paid[i].amount)]

\* The coin entry of an accepted bid is read without asking if it is there.
getAcceptNFTOps(txn, utxoOps) ==
  LET found == OfType(utxoOps, {"AcceptNFTBid"})
  IN  IF \/ txn.type # "AcceptNFTBid"
         \/ found = <<>>
         \/ ~InputsAreFound(txn.bidderInputs, utxoOps)
      THEN <<>>
      ELSE BidderInputs(found[1].bidder, txn.bidderInputs, utxoOps)
           \o CreatorRoyalty(found[1]) \o addNFTRoyalties(found[1].royalties)

\* A plain bid has no coin entry, and so no circulation.
getBuyNowNFTBidOps(txn, utxoOps) ==
  LET found == OfType(utxoOps, {"NFTBid"})
  IN  IF txn.type # "NFTBid" \/ found = <<>> THEN <<>>
      ELSE (IF found[1].prevCoinEntry THEN CreatorRoyalty(found[1]) ELSE <<>>)
           \o addNFTRoyalties(found[1].royalties)

\* The nanos that an old bug of the core library lost with a profile.
getUpdateProfileOps(txn, utxoOps) ==
  LET found == OfType(utxoOps, {"UpdateProfile"})
  IN  IF \/ txn.type # "UpdateProfile"
         \/ found = <<>>
         \/ found[1].clobberedLocked = 0
      THEN <<>>
      ELSE << Input(CreatorCoin(txn.publicKey), -found[1].clobberedLocked) >>

getDAOCoinLimitOrderOps(txn, utxoOps) ==
  IF \/ txn.type # "DAOCoinLimitOrder"
     \/ ~InputsAreFound(txn.bidderInputs, utxoOps)
  THEN <<>>
  ELSE BidderInputs(txn.meta.bidder, txn.bidderInputs, utxoOps)

\* The input of a stake is among the balance model spends.
getStakeOps(txn, utxoOps) ==
  LET stakes == OfType(utxoOps, {"Stake"})
  IN  IF txn.type # "Stake" THEN <<>>
      ELSE [i \in DOMAIN stakes |->
              Output(ValidatorEntry(stakes[i].validator), txn.meta.amount)]

\* Mutant: the staker and the validator are swapped.
getUnstakeOps_Swapped(txn, utxoOps) ==
  LET unstakes == OfType(utxoOps, {"Unstake"})
  IN  IF txn.type # "Unstake" THEN <<>>
      ELSE FlattenSeq([i \in DOMAIN unstakes |->
             << Input(ValidatorEntry(unstakes[i].validator), txn.meta.amount),
                Output(LockedStake(unstakes[i].validator, unstakes[i].staker,
                                   unstakes[i].epoch), txn.meta.amount) >>])

\* Neither amount is negated.
getUnstakeOps(txn, utxoOps) ==
  LET unstakes == OfType(utxoOps, {"Unstake"})
  IN  IF txn.type # "Unstake" THEN <<>>
      ELSE FlattenSeq([i \in DOMAIN unstakes |->
             << Input(ValidatorEntry(unstakes[i].validator), txn.meta.amount),
                Output(LockedStake(unstakes[i].staker, unstakes[i].validator,
                                   unstakes[i].epoch), txn.meta.amount) >>])

\* The amounts of the entries are not negated either.
getUnlockStakeOps(txn, utxoOps) ==
  LET unlocks == OfType(utxoOps, {"UnlockStake"})
  IN  IF txn.type # "UnlockStake" THEN <<>>
      ELSE FlattenSeq([i \in DOMAIN unlocks |->
             [j \in DOMAIN unlocks[i].entries |->
                Input(unlocks[i].entries[j].account,
                      unlocks[i].entries[j].amount)]])

\* The rewards of an epoch that are staked again.
getStakingRewardDistributionOps(utxoOps) ==
  LET restakes == OfType(utxoOps, {"StakeDistributionRestake"})
  IN  [i \in DOMAIN restakes |->
         Output(ValidatorEntry(restakes[i].validator), restakes[i].amount)]

-----------------------------------------------------------------------------
(* The transaction and the block.                                           *)

SpecialOperations(txn, utxoOps) ==
  getCreatorCoinOps(txn, utxoOps)
  \o getSwapIdentityOps(txn, utxoOps)
  \o getAcceptNFTOps(txn, utxoOps)
  \o getBuyNowNFTBidOps(txn, utxoOps)
  \o getUpdateProfileOps(txn, utxoOps)
  \o getDAOCoinLimitOrderOps(txn, utxoOps)
  \o getStakeOps(txn, utxoOps)
  \o getUnstakeOps(txn, utxoOps)
  \o getUnlockStakeOps(txn, utxoOps)

PlainOperations(txn, isBalanceModelTxn, spentUtxos, utxoOps) ==
  TxInputs(txn, spentUtxos)
  \o TxOutputs(txn, isBalanceModelTxn)
  \o IF utxoOps = <<>> THEN <<>>
     ELSE getBalanceModelSpends(utxoOps)
          \o getImplicitOutputs(Len(txn.outputs), utxoOps)
          \o SpecialOperations(txn, utxoOps)

\* A wrapper has the operations of its inner transactions, none of which is a
\* wrapper itself, and none at all if the UTXO operations do not match them.
getOperationsForTransaction(txn, isBalanceModelTxn, spentUtxos, utxoOps) ==
  IF txn.type # "AtomicTxnsWrapper"
  THEN PlainOperations(txn, isBalanceModelTxn, spentUtxos, utxoOps)
  ELSE LET found == OfType(utxoOps, {"AtomicTxnsWrapper"})
           inner == txn.meta.txns
           opsForInner == IF found = <<>> THEN <<>> ELSE found[1].innerOps
       IN  IF Len(opsForInner) # Len(inner) THEN <<>>
           ELSE FlattenSeq([i \in DOMAIN inner |->
                  PlainOperations(inner[i], isBalanceModelTxn, spentUtxos,
                                  opsForInner[i])])

\* One operation for each account, with the type of its first one.
squashOperations(ops) ==
  LET firsts == Selection([i \in DOMAIN ops |-> i],
                  {i \in DOMAIN ops :
                     \A j \in 1..i - 1 : ops[j].account # ops[i].account})
  IN  [n \in DOMAIN firsts |->
         [ops[firsts[n]] EXCEPT
            !.value = ValueOf(ops, ops[firsts[n]].account)]]

\* The additional UTXO operations of a block are those of the block itself.
BlockLevelOperations(utxoOps) ==
  getImplicitOutputs(0, utxoOps) \o getStakingRewardDistributionOps(utxoOps)

GetTransactionsForConvertBlock(txns, isBalanceModel, utxoOpsForBlock) ==
  LET spentUtxos == SpentUtxos(utxoOpsForBlock)
      utxoOpsForTxn(i) == IF utxoOpsForBlock = <<>> THEN <<>> ELSE utxoOpsForBlock[i]
  IN  [i \in DOMAIN txns |->
         squashOperations(getOperationsForTransaction(
           txns[i], isBalanceModel, spentUtxos, utxoOpsForTxn(i)))]
      \o IF Len(utxoOpsForBlock) = Len(txns) + 1
         THEN << squashOperations(BlockLevelOperations(Last(utxoOpsForBlock))) >>
         ELSE <<>>
=============================================================================

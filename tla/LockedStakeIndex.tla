--------------------------- MODULE LockedStakeIndex ---------------------------
(***************************************************************************)
(* The locked-stake part of the Rosetta index: what handleBlockCommitted   *)
(* writes for the locked stake entries of a block (deso/events.go:549-571) *)
(* and what GetLockedStakeBalanceForPublicKeyAtBlockHeightWithTxn reads    *)
(* back (deso/index.go:377-421).                                           *)
(*                                                                         *)
(* A stake is named by a staker, a validator and an epoch; its key is      *)
(* those, then the height, then the balance, all of fixed width, so the    *)
(* bytes of two keys compare as the tuples do.                             *)
(***************************************************************************)
EXTENDS Integers, Sequences, FiniteSets

CONSTANTS
  Stakes,      \* the (staker, validator, epoch) triples of numbers
  Amounts,     \* the locked amounts, 0 among them
  PKIDBytes,   \* validator -> bytes 8..15 of its PKID as a number
  MaxHeight,   \* bound: no block above this height
  MaxTouched   \* bound: entries in the view of one block

ASSUME StakesAssumption == Stakes \subseteq Nat \X Nat \X Nat
ASSUME AmountsAssumption ==
  /\ Amounts \subseteq Nat /\ 0 \in Amounts
  /\ \E b \in Amounts : \A c \in Amounts : c =< b  \* math.MaxUint64
ASSUME HeightAssumption == MaxHeight \in Nat

VARIABLES
  tip,      \* height of the last block, -1 before the genesis block
  db,       \* the records under PrefixLockedStakeBalanceSnapshots
  history   \* ghost: height -> stake -> locked amount

vars == << tip, db, history >>

Heights == 0..MaxHeight

TypeOK ==
  /\ tip \in -1..MaxHeight
  /\ db \subseteq [stake : Stakes, height : Heights, balance : Amounts]
  /\ history \in [Heights -> [Stakes -> Amounts]]

Init ==
  /\ tip = -1
  /\ db = {}
  /\ history = [h \in Heights |-> [s \in Stakes |-> 0]]

\* Every entry of the view is put, a deleted one (amount 0) too.
BalancesToPut(entries) == DOMAIN entries

\* Mutant: the balances are put as of the next block.
HeightOf_Next(block) == block + 1

\* event.Block.Header.Height.
HeightOf(block) == block

\* A block is committed and its locked stake entries are put at its height.
IndexBlock ==
  /\ tip < MaxHeight
  /\ tip' = tip + 1
  /\ \E touched \in SUBSET Stakes :
       /\ Cardinality(touched) =< MaxTouched
       /\ \E entries \in [touched -> Amounts] :
            /\ db' = db \cup {[stake |-> s, height |-> HeightOf(tip'),
                                balance |-> entries[s]] :
                                  s \in BalancesToPut(entries)}
            /\ history' = [history EXCEPT ![tip'] =
                 [s \in Stakes |->
                    IF s \in touched THEN entries[s]
                    ELSE IF tip = -1 THEN 0 ELSE history[tip][s]]]

Next == IndexBlock

Spec == Init /\ [][Next]_vars

-----------------------------------------------------------------------------
(* The lookup.                                                              *)

\* Mutant: the height before the validator and the epoch.
Key_HeightFirst(r) ==
  << r.stake[1], r.height, r.stake[2], r.stake[3], r.balance >>

Key(r) == << r.stake[1], r.stake[2], r.stake[3], r.height, r.balance >>

\* The byte order of two keys.
NotAbove(k, l) ==
  k = l \/ \E i \in 1..5 : k[i] < l[i] /\ \A j \in 1..i - 1 : k[j] = l[j]

\* The seek key: the greatest balance at the height.
MaxBalance == CHOOSE b \in Amounts : \A c \in Amounts : c =< b
SeekKey(s, h) == Key([stake |-> s, height |-> h, balance |-> MaxBalance])

\* The keys the reverse iterator can stop at: not above the seek key, with its
\* prefix and its staker.
Candidates(s, h) ==
  {r \in db : r.stake[1] = s[1] /\ NotAbove(Key(r), SeekKey(s, h))}

KeyFound(s, h) ==
  CHOOSE r \in Candidates(s, h) :
    \A q \in Candidates(s, h) : NotAbove(Key(q), Key(r))

\* The decoded integer starts 1 + 33 + 8 bytes into the key, which is byte 8
\* of the validator's PKID.
GetLockedStakeBalanceSnapshot(s, h) ==
  IF Candidates(s, h) = {} THEN 0 ELSE PKIDBytes[KeyFound(s, h).stake[2]]

-----------------------------------------------------------------------------
(* The account of a locked stake in the API.                                *)

\* The sub-account that operations give a locked stake, cut at its dashes.
SubAccountOf(s) == << "LOCKED_STAKE_ENTRY", s[2], s[3] >>

\* The validator, from a sub-account of exactly two parts.
GetValidatorPKIDFromSubAccountIdentifier(parts) ==
  IF Len(parts) = 2 THEN {parts[2]} ELSE {}

\* What AccountBalance answers, nothing if it fails: the validator comes from
\* the sub-account, and the epoch is 0.
AccountBalance(staker, parts, h) ==
  {GetLockedStakeBalanceSnapshot(<< staker, v, 0 >>, h) :
     v \in GetValidatorPKIDFromSubAccountIdentifier(parts)}

-----------------------------------------------------------------------------
\* When a stake has a record at or below a height the iterator stops at its
\* newest one, which holds the amount locked at that height: the order of the
\* key's parts and the put of deleted entries make it so, in the presence of
\* the staker's other validators and epochs (deso/index.go:113-124, 399-410).
SeekFindsNewest ==
  \A h \in 0..tip, s \in Stakes :
    (\E r \in db : r.stake = s /\ r.height =< h) =>
      /\ KeyFound(s, h).stake = s
      /\ KeyFound(s, h).balance = history[h][s]

-----------------------------------------------------------------------------
\* deso/block.go:520: "A locked stake entry is unique by the combination of
\* Staker PKID + Validator PKID + LockedAtEpochNumber, so we use Validator PKID +
\* LockedAtEpochNumber as the subaccount identifier": under the sub-account that
\* the operations name, the amount of a locked stake is served.
LockedStakeIsServed ==
  \A h \in 0..tip, s \in Stakes :
    AccountBalance(s[1], SubAccountOf(s), h) = {history[h][s]}
=============================================================================

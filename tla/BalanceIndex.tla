---------------------------- MODULE BalanceIndex ----------------------------
(***************************************************************************)
(* The two key spaces of the Rosetta index (deso/index.go) as values, and  *)
(* what its Put and Get functions do to them.                              *)
(*                                                                         *)
(* A snapshot key is (type, account, height, balance) with no value: the   *)
(* balance is part of the key.  A database is therefore a set of records,  *)
(* a Put never replaces a record of another balance, and a lookup is one   *)
(* step of a reverse iterator over the ordered keys.                       *)
(*                                                                         *)
(* The type prefix is folded into the account: an account here is a public *)
(* key (or a staker, validator and epoch) together with one of the four    *)
(* balance types, so the four prefixes never mix.                          *)
(***************************************************************************)
EXTENDS Integers, FiniteSets

DESOBalance                == "DESO"
CreatorCoinLockedBalance   == "creator coin"
ValidatorStakedDESOBalance == "validator staked"
LockedStakeDESOBalance     == "locked stake"

\* The order in which handleSnapshotCompleted writes the types.
SnapshotTypes == << DESOBalance, CreatorCoinLockedBalance,
                    ValidatorStakedDESOBalance, LockedStakeDESOBalance >>

BalanceTypes == {SnapshotTypes[i] : i \in 1..4}

-----------------------------------------------------------------------------
(* The snapshot key space: one record per (account, height, balance).       *)

Record(a, h, b) == [acct |-> a, height |-> h, balance |-> b]

\* One WriteBatch of balances for one height.
PutBalanceSnapshot(db, h, balances) ==
  db \cup {Record(a, h, balances[a]) : a \in DOMAIN balances}

\* Mutant: the seek key has no height.
UpTo_AnyHeight(db, a, h) == {r \in db : r.acct = a}

\* The records of one account that are not above a height: the keys below the
\* seek key (account, height, MaxUint64) that still have the account's prefix.
UpTo(db, a, h) == {r \in db : r.acct = a /\ r.height =< h}

\* The order of two keys of one account: height first, then balance.
NotAfter(s, r) == \/ s.height < r.height
                  \/ s.height = r.height /\ s.balance =< r.balance

LastKey(found) == CHOOSE r \in found : \A s \in found : NotAfter(s, r)

\* The reverse seek: the balance of the greatest key, or 0 if there is none.
GetBalanceSnapshot(db, a, h) ==
  IF UpTo(db, a, h) = {} THEN 0 ELSE LastKey(UpTo(db, a, h)).balance

-----------------------------------------------------------------------------
(* The hypersync key space: (height, type) -> the balances given away by    *)
(* the synthetic block of that height.                                      *)

\* A missing key is an empty map, not an error.
GetHypersyncBlockBalances(buckets, h, t) ==
  IF <<h, t>> \in DOMAIN buckets THEN buckets[<<h, t>>] ELSE [a \in {} |-> 0]

-----------------------------------------------------------------------------
(* How handleSnapshotCompleted spreads T balances over the heights 1..H.    *)

\* balancesPerBlock of the loop.
BalancesPerBlock(T, H) == IF T < H THEN 1 ELSE T \div H

\* The height that the i-th key of the iteration is written at: the loop
\* advances after every BalancesPerBlock keys and stops advancing at H.
BucketHeight(i, T, H) ==
  LET h == 1 + ((i - 1) \div BalancesPerBlock(T, H))
  IN  IF h =< H THEN h ELSE H
=============================================================================

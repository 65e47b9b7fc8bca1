----------------------------- MODULE BalanceBook -----------------------------
(***************************************************************************)
(* What the Rosetta index promises its readers, without records, keys,     *)
(* views or snapshots: a book of balances with one page per height.  The   *)
(* chain commits a ledger, the book gets exactly that ledger as its next   *)
(* page, and a page is never changed.  The book is only ever given up as a *)
(* whole, when the chain is replaced (a hypersync, an erased directory).   *)
(***************************************************************************)
EXTENDS Integers

CONSTANTS Accounts, Amounts, MaxHeight

VARIABLES
  ledger,   \* the balances the chain has committed
  book      \* height -> (account -> balance), for the heights answered

vars == << ledger, book >>

Ledgers == [Accounts -> Amounts]

Init == /\ ledger = [a \in Accounts |-> 0]
        /\ book = [h \in {} |-> ledger]

\* The chain commits a block; its page is still missing.
CommitLedger ==
  /\ ledger' \in Ledgers
  /\ UNCHANGED book

\* The page of the committed ledger is written: the first page at any height
\* (0, or the snapshot height), every other one right above the last.
Publish ==
  \E h \in 0..MaxHeight :
    /\ DOMAIN book = {} \/ h - 1 \in DOMAIN book
    /\ h \notin DOMAIN book
    /\ book' = [k \in DOMAIN book \cup {h} |->
                  IF k = h THEN ledger ELSE book[k]]
    /\ UNCHANGED ledger

\* The chain is replaced: the book starts again from nothing.
Replace ==
  /\ ledger' \in Ledgers
  /\ book' = [h \in {} |-> ledger]

Next == CommitLedger \/ Publish \/ Replace

Spec == Init /\ [][Next]_vars
=============================================================================

----------------------------- MODULE MCIndexSync -----------------------------
(* Small instances of IndexSync: the accounts and their types.               *)
EXTENDS IndexSync

CONSTANTS d1, d2, c1, c2, v1

\* One DESO balance and two creators who may swap identities.
SwapAccounts == {d1, c1, c2}
SwapTypes == [a \in SwapAccounts |-> IF a = d1 THEN DESOBalance
                                     ELSE CreatorCoinLockedBalance]

\* Two DESO balances to spread over the heights.
SnapAccounts == {d1, d2, v1}
SnapTypes == [a \in SnapAccounts |-> IF a = v1 THEN ValidatorStakedDESOBalance
                                     ELSE DESOBalance]

\* One account of two of the types.
FaultAccounts == {d1, v1}
FaultTypes == [a \in FaultAccounts |-> IF a = d1 THEN DESOBalance
                                       ELSE ValidatorStakedDESOBalance]
=============================================================================

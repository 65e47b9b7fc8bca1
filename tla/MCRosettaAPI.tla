---------------------------- MODULE MCRosettaAPI ----------------------------
(* Two DESO balances to spread over the synthetic blocks.                    *)
EXTENDS RosettaAPI

CONSTANTS d1, d2

MCAccounts == {d1, d2}
MCTypes == [a \in MCAccounts |-> DESOBalance]
=============================================================================

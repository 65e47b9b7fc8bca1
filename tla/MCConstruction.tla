---------------------------- MODULE MCConstruction ----------------------------
(* Two keys, and every combination of the caller's options.                  *)
EXTENDS Construction

CONSTANTS k1, k2

Op(t, k, n) == [type |-> t, account |-> k, amount |-> n]

\* A transfer, one of two inputs, one that also pays the sender, and one of two senders.
MCIntents == { << Op("OUTPUT", k2, 3), Op("INPUT", k1, 3) >>,
               << Op("INPUT", k1, 1), Op("INPUT", k1, 2), Op("OUTPUT", k2, 3) >>,
               << Op("INPUT", k1, 3), Op("OUTPUT", k1, 1), Op("OUTPUT", k2, 2) >>,
               << Op("INPUT", k1, 1), Op("INPUT", k2, 1), Op("OUTPUT", k2, 2) >> }

MCOptions == [partialID : {0, 1}, expiration : {0, 1, 2, 5}, offset : {0, 1, 3},
              feeRate : {0, 1, 3}, txnFee : {0, 1, 4}]
=============================================================================

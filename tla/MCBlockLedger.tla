----------------------------- MODULE MCBlockLedger -----------------------------
(* Two keys, one of them a validator.                                        *)
EXTENDS BlockLedger

CONSTANTS k1, k2

MCKeys == {k1, k2}
MCValidators == {k2}

\* What the genesis transaction gave to the keys.
MCGenesisOutputs == << Credit(k1, 2), Credit(k1, 4), Credit(k2, 4) >>

\* Both royalties paid, and one that is only in the UTXO operation.
MCRoyalties == {[r |-> 1, q |-> 1, circulation |-> 1],
                [r |-> 1, q |-> 0, circulation |-> 0]}

\* Profiles with and without locked DESO, a stake and a locked stake.
MCStart ==
  LET none == [a \in {CreatorCoin(k1), CreatorCoin(k2), ValidatorEntry(k2)} \cup
                 {LockedStake(k, k2, e) : k \in MCKeys, e \in Epochs} |-> 0]
  IN  {none,
       [none EXCEPT ![CreatorCoin(k1)] = 3, ![ValidatorEntry(k2)] = 3,
                    ![LockedStake(k1, k2, 1)] = 2, ![LockedStake(k1, k2, 2)] = 1]}
=============================================================================

-------------------------- MODULE MCLockedStakeIndex --------------------------
(* Two stakers; the first has two validators and two epochs.                 *)
EXTENDS LockedStakeIndex

MCStakes == { <<1, 1, 1>>, <<1, 1, 2>>, <<1, 2, 1>>, <<2, 1, 1>> }
MCPKIDBytes == [v \in {1, 2} |-> 100 + v]
=============================================================================

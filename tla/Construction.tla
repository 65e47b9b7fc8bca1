----------------------------- MODULE Construction -----------------------------
(***************************************************************************)
(* One transfer through the Construction API                               *)
(* (services/construction_service.go): preprocess, metadata, payloads,     *)
(* parse, combine, parse, submit.  Only metadata and submit see the chain; *)
(* everything the caller asked for travels in the options, the metadata    *)
(* and the transaction between calls that share no state.                  *)
(*                                                                         *)
(* Metadata reads the chain three times: the parameters from a view of the *)
(* mempool, what AddInputsAndChangeToTransaction reads, and the block tip. *)
(* Blocks and changes of the parameters may fall between any two reads and *)
(* between any two calls.                                                  *)
(*                                                                         *)
(* A transaction has size 1, so a fee rate is a fee.  The flag of legacy   *)
(* UTXO selection is no part of the model: preprocess never sets it.       *)
(***************************************************************************)
EXTENDS Integers, Sequences, SequencesExt, Selections

CONSTANTS
  Intents,      \* the operations a caller may ask for, as sequences
  Options,      \* the nonce and fee fields of the caller's metadata
  Rates,        \* MinimumNetworkFeeNanosPerKB, 0 if it is not set
  Offsets,      \* MaxNonceExpirationBlockHeightOffset, 0 if it is not set
  MinFeeRate,   \* the rate when it is not set
  DefaultOffset,\* the offset when it is not set
  ForkHeight,   \* the first height of the balance model
  MaxTip,       \* bound: no block above this height
  None          \* no nonce, no transaction

ASSUME IntentsAssumption ==
  \A ops \in Intents :
    /\ ops \in Seq(ToSet(ops))
    /\ \A op \in ToSet(ops) :
         op = [type |-> op.type, account |-> op.account, amount |-> op.amount]
ASSUME RatesAssumption == Rates \subseteq Nat /\ MinFeeRate \in Nat
ASSUME OffsetsAssumption == Offsets \subseteq Nat /\ DefaultOffset \in Nat \ {0}
ASSUME OptionsAssumption ==
  Options \subseteq [partialID : Nat, expiration : Nat, offset : Nat,
                     feeRate : Nat, txnFee : Nat]
ASSUME NoneAssumption == None \notin [partialID : Nat, expiration : Nat]
ASSUME HeightsAssumption == ForkHeight \in Nat /\ MaxTip \in Nat

VARIABLES
  tip,        \* height of the block tip
  params,     \* [rate, offset] of the global parameters
  intent,     \* the operations asked for
  options,    \* what is asked for the nonce and the fee
  stage,      \* the last call, or read of metadata, that is done
  view,       \* the parameters that metadata read
  txn,        \* the transaction so far
  suggested,  \* the suggested fee
  seen,       \* ghost: the tip that the nonce's expiration was made at
  changed     \* ghost: the parameters changed after metadata read them

chain == << tip, params, changed >>
flow == << intent, options, stage, view, txn, suggested, seen >>
vars == << chain, flow >>

Stages == {"asked", "preprocessed", "view read", "inputs added", "metadata",
           "payloads", "combined", "submitted", "rejected", "error"}
Ended == {"submitted", "rejected", "error"}
Built == {"metadata", "payloads", "combined", "submitted", "rejected"}

Params == [rate : Rates, offset : Offsets]

TypeOK ==
  /\ tip \in 0..MaxTip
  /\ params \in Params
  /\ intent \in Intents
  /\ options \in Options
  /\ stage \in Stages
  /\ view \in Params
  /\ suggested \in Nat
  /\ seen \in 0..MaxTip
  /\ changed \in BOOLEAN
  /\ stage \in Built => /\ txn.fee \in Nat
                        /\ txn.nonce # None => txn.nonce.expiration \in Nat
                        /\ txn.signed \in BOOLEAN
                        /\ txn.signed <=> stage \in {"combined", "submitted", "rejected"}

Init ==
  /\ tip = 0
  /\ params \in Params
  /\ intent \in Intents
  /\ options \in Options
  /\ stage = "asked"
  /\ view = params
  /\ txn = None
  /\ suggested = 0
  /\ seen = 0
  /\ changed = FALSE

-----------------------------------------------------------------------------
(* The chain.                                                               *)

BalanceModel == tip + 1 >= ForkHeight

NewBlock ==
  /\ stage \notin Ended
  /\ tip < MaxTip
  /\ tip' = tip + 1
  /\ UNCHANGED << params, changed, flow >>

ChangeParams ==
  /\ stage \notin Ended
  /\ params' \in Params \ {params}
  /\ changed' = TRUE
  /\ UNCHANGED << tip, flow >>

-----------------------------------------------------------------------------
(* Preprocess.                                                              *)

OfType(t) == Selection(intent, {op \in ToSet(intent) : op.type = t})
InputKeys == {op.account : op \in ToSet(OfType("INPUT"))}
Outputs ==
  LET out == OfType("OUTPUT")
  IN  [i \in DOMAIN out |-> [publicKey |-> out[i].account, amount |-> out[i].amount]]

Fail ==
  /\ stage' = "error"
  /\ UNCHANGED << chain, intent, options, view, txn, suggested, seen >>

\* The inputs must be of exactly one key.
Preprocess ==
  /\ stage = "asked"
  /\ \E k \in InputKeys : InputKeys = {k}
  /\ stage' = "preprocessed"
  /\ UNCHANGED << chain, intent, options, view, txn, suggested, seen >>

PreprocessFails ==
  /\ stage = "asked"
  /\ ~\E k \in InputKeys : InputKeys = {k}
  /\ Fail

-----------------------------------------------------------------------------
(* Metadata.                                                                *)

NetworkRate(p) == IF p.rate = 0 THEN MinFeeRate ELSE p.rate
MaxOffset(p) == IF p.offset = 0 THEN DefaultOffset ELSE p.offset

FeeRateIsTooLow(p) == options.feeRate > 0 /\ options.feeRate < NetworkRate(p)

ReadView ==
  /\ stage = "preprocessed"
  /\ ~FeeRateIsTooLow(params)
  /\ view' = params
  /\ changed' = FALSE
  /\ stage' = "view read"
  /\ UNCHANGED << tip, params, intent, options, txn, suggested, seen >>

ReadViewFails ==
  /\ stage = "preprocessed"
  /\ FeeRateIsTooLow(params)
  /\ Fail

feePerKB ==
  IF options.feeRate > NetworkRate(view) THEN options.feeRate ELSE NetworkRate(view)

\* The core library's AddInputsAndChangeToTransaction.  In the balance model it
\* sets a nonce, of the latest expiration, and the fee; below the fork it adds
\* inputs worth the fee, and change to the sender if there is any.
AddInputsAndChange ==
  /\ stage = "view read"
  /\ stage' = "inputs added"
  /\ suggested' = feePerKB
  /\ seen' = tip
  /\ \E from \in InputKeys :
     \E change \in {<<>>, << [publicKey |-> from, amount |-> 1] >>} :
       txn' = IF BalanceModel
              THEN [publicKey |-> from, outputs |-> Outputs, signed |-> FALSE,
                    nonce |-> [partialID |-> 0, expiration |-> tip + MaxOffset(params)],
                    fee |-> feePerKB, spare |-> 0, inputAmounts |-> <<>>]
              ELSE [publicKey |-> from, outputs |-> Outputs \o change,
                    signed |-> FALSE, nonce |-> None, fee |-> 0, spare |-> feePerKB,
                    inputAmounts |-> <<>>]
  /\ UNCHANGED << chain, intent, options, view >>

\* The sender's balance may not cover the outputs and the fee.
InputsFail ==
  /\ stage = "view read"
  /\ Fail

\* Mutant: an expiration that is too high is taken.
ExpirationIsWrong_TooHigh(o) ==
  IF o.offset > 0 THEN o.offset > MaxOffset(view)
  ELSE o.expiration > 0 /\ o.expiration < tip

\* The offset has priority over the height, and both are checked against the
\* block tip, read now, and the view read before.
ExpirationIsWrong(o) ==
  IF o.offset > 0 THEN o.offset > MaxOffset(view)
  ELSE o.expiration > 0 /\ (o.expiration < tip \/ o.expiration > tip + MaxOffset(view))

\* Mutant: the height has priority.
Expiration_HeightFirst(o, default) ==
  IF o.expiration > 0 THEN o.expiration
  ELSE IF o.offset > 0 THEN tip + o.offset ELSE default

Expiration(o, default) ==
  IF o.offset > 0 THEN tip + o.offset
  ELSE IF o.expiration > 0 THEN o.expiration ELSE default

MetadataIsWrong ==
  \/ txn.nonce # None /\ ExpirationIsWrong(options)
  \/ options.txnFee > 0 /\ txn.fee > options.txnFee

\* Below the fork there is no nonce to change.
WithNonce(t) ==
  IF t.nonce = None THEN t
  ELSE [t EXCEPT !.nonce =
          [partialID |-> IF options.partialID > 0 THEN options.partialID ELSE @.partialID,
           expiration |-> Expiration(options, @.expiration)]]

WithFee(t) == IF options.txnFee > 0 THEN [t EXCEPT !.fee = options.txnFee] ELSE t

Metadata ==
  /\ stage = "inputs added"
  /\ ~MetadataIsWrong
  /\ txn' = WithFee(WithNonce(txn))
  /\ suggested' = IF options.txnFee > 0 THEN options.txnFee ELSE suggested
  /\ seen' = IF options.offset > 0 \/ options.expiration > 0 THEN tip ELSE seen
  /\ stage' = "metadata"
  /\ UNCHANGED << chain, intent, options, view >>

MetadataFails ==
  /\ stage = "inputs added"
  /\ MetadataIsWrong
  /\ Fail

-----------------------------------------------------------------------------
(* The offline calls, and submit.                                           *)

\* Payloads keeps the amounts of the inputs beside the transaction: those of
\* the balance model are nowhere else.
Payloads ==
  /\ stage = "metadata"
  /\ txn' = [txn EXCEPT !.inputAmounts =
               [i \in DOMAIN OfType("INPUT") |-> OfType("INPUT")[i].amount]]
  /\ stage' = "payloads"
  /\ UNCHANGED << chain, intent, options, view, suggested, seen >>

\* Mutant: the unsigned bytes are marshalled again.
Combine_Unsigned ==
  /\ stage = "payloads"
  /\ stage' = "combined"
  /\ UNCHANGED << chain, intent, options, view, txn, suggested, seen >>

Combine ==
  /\ stage = "payloads"
  /\ txn' = [txn EXCEPT !.signed = TRUE]
  /\ stage' = "combined"
  /\ UNCHANGED << chain, intent, options, view, suggested, seen >>

\* Mutant: an output to the sender is taken for change above the fork, too.
IsChange_AnyModel(t, output) == output.publicKey = t.publicKey

IsChange(t, output) == output.publicKey = t.publicKey /\ t.nonce = None

\* Parse, of the unsigned and of the signed transaction.
Parse(t) ==
  LET out == Selection(t.outputs, {o \in ToSet(t.outputs) : ~IsChange(t, o)})
  IN  [i \in DOMAIN t.inputAmounts |->
         [type |-> "INPUT", account |-> t.publicKey, amount |-> t.inputAmounts[i]]]
      \o [i \in DOMAIN out |->
            [type |-> "OUTPUT", account |-> out[i].publicKey, amount |-> out[i].amount]]

\* What the network accepts in the next block.
Accepts(t) ==
  /\ t.signed
  /\ (t.nonce # None) = BalanceModel
  /\ t.nonce # None => /\ t.nonce.expiration >= tip + 1
                       /\ t.nonce.expiration =< tip + 1 + MaxOffset(params)
                       /\ t.fee >= params.rate
  /\ t.nonce = None => t.spare >= params.rate

Submit ==
  /\ stage = "combined"
  /\ stage' = IF Accepts(txn) THEN "submitted" ELSE "rejected"
  /\ UNCHANGED << chain, intent, options, view, txn, suggested, seen >>

Next ==
  \/ NewBlock   \/ ChangeParams  \/ Preprocess         \/ PreprocessFails
  \/ ReadView   \/ ReadViewFails \/ AddInputsAndChange
  \/ Metadata   \/ MetadataFails \/ Payloads           \/ Combine
  \/ Submit     \/ InputsFail

Spec == Init /\ [][Next]_vars

-----------------------------------------------------------------------------
\* Above the fork the fee suggested is the fee of the transaction that is
\* signed: it covers the rate that metadata saw and the caller's, and is what the
\* caller asked for (one of the two if both a fixed fee and a rate were given:
\* see FeeRateHasPriority).  The nonce is what the caller asked for, and expires
\* within the greatest offset that metadata saw unless nothing was asked and the
\* parameters changed under metadata; whatever the chain does meanwhile
\* (services/construction_service.go:172-185 and 244-280).
OptionsAreHonoured ==
  stage \in Built /\ txn.nonce # None =>
    /\ txn.fee = suggested
    /\ txn.fee >= NetworkRate(view) /\ txn.fee >= options.feeRate
    /\ options.txnFee > 0 \/ options.feeRate > 0 =>
         txn.fee \in {options.txnFee, options.feeRate} \ {0}
    /\ options.partialID > 0 => txn.nonce.partialID = options.partialID
    /\ options.offset > 0 => txn.nonce.expiration = seen + options.offset
    /\ options.offset = 0 /\ options.expiration > 0 =>
         txn.nonce.expiration = options.expiration
    /\ options.offset > 0 \/ options.expiration > 0 \/ ~changed =>
         txn.nonce.expiration =< seen + MaxOffset(view)

OutputsToOthers ==
  LET out == OfType("OUTPUT")
  IN  Selection(out, {op \in ToSet(out) : op.account \notin InputKeys})

\* Parsing the unsigned or the signed transaction returns the operations that
\* were asked for, inputs first, an output to the sender among them; below the
\* fork the outputs to the sender are lost with the change
\* (services/construction_service.go:318-351 and 457-501).
ParseReturnsIntent ==
  stage \in Built \ {"metadata"} =>
    Parse(txn) = OfType("INPUT") \o
                 (IF txn.nonce # None THEN OfType("OUTPUT") ELSE OutputsToOthers)

\* The height the caller gave is the tip that metadata compared it with.
ExpiresAtTheTip ==
  options.offset = 0 /\ options.expiration = seen /\ txn.nonce.expiration = seen

\* The network rejects a transaction that metadata made only for what happened
\* to the chain after metadata read it: the parameters changed, the fork was
\* crossed, or the tip has passed a nonce that was alive when it was made.  A
\* caller who gives the tip itself as the height, which metadata takes although
\* services/types.go:24 asks for a greater one, is not covered: that
\* transaction is dead when it is made (see ExpiresAfterTheTip)
\* (services/construction_service.go:157-280 and 517-545).
RejectedOnlyIfTheChainMoved ==
  stage = "rejected" =>
    \/ changed
    \/ (txn.nonce = None) = BalanceModel
    \/ txn.nonce # None /\ seen < txn.nonce.expiration
                        /\ txn.nonce.expiration =< tip
    \/ txn.nonce # None /\ ExpiresAtTheTip

-----------------------------------------------------------------------------
(* What services/types.go says of the options and the code does not do.     *)

\* services/types.go:77-78 and 99-100: "only one of FeeRateNanosPerKB and
\* TxnFeeNanos should be specified.  If both are specified, FeeRateNanosPerKB is
\* used."  The code uses the fixed fee (construction_service.go:273-280).
FeeRateHasPriority ==
  stage \in Built /\ txn.nonce # None /\ options.feeRate > 0 =>
    txn.fee = options.feeRate

\* services/types.go:24: the height "must be greater than the current block
\* height".  The code refuses only a lower one (construction_service.go:264).
ExpiresAfterTheTip ==
  stage \in Built /\ txn.nonce # None => txn.nonce.expiration > seen
=============================================================================

-------------------------- MODULE ConstructionProofs --------------------------
(***************************************************************************)
(* Type correctness of Construction, what becomes of the caller's          *)
(* operations and options, and why the network may reject the transaction, *)
(* for every set of intents, options and parameters and every length of    *)
(* the chain.                                                              *)
(*                                                                         *)
(* Viewed is what the first read of metadata establishes, Prepared what    *)
(* the second one leaves to decide on, Finished what submit relies on.     *)
(***************************************************************************)
EXTENDS Construction, FoldLemmas, TLAPS

\* The fields of a transaction.
Fields == {"publicKey", "outputs", "signed", "nonce", "fee", "spare", "inputAmounts"}

IsTxn(t) ==
  /\ Fields \subseteq DOMAIN t
  /\ t = [x \in DOMAIN t |-> t[x]]

AfterView == {"view read", "inputs added"} \cup Built

\* The parameters that metadata read are those of the chain until they change,
\* and the caller's rate was not below theirs.
Viewed ==
  /\ ~changed /\ stage \in AfterView => params = view
  /\ stage \in AfterView => ~FeeRateIsTooLow(view)

\* The tip only grows.
Seen == seen =< tip

\* Not yet changed for the options.
Prepared ==
  stage = "inputs added" =>
    /\ IsTxn(txn)
    /\ txn.signed = FALSE
    /\ txn.fee \in Nat
    /\ suggested = feePerKB
    /\ txn.nonce = None => txn.spare = feePerKB
    /\ txn.nonce # None => /\ txn.fee = feePerKB
                           /\ txn.nonce.partialID \in Nat
                           /\ txn.nonce.expiration \in Nat
                           /\ seen < txn.nonce.expiration
                           /\ ~changed => txn.nonce.expiration =< seen + MaxOffset(view)

\* What Submit needs of the finished transaction.
Finished ==
  stage \in Built =>
    /\ IsTxn(txn)
    /\ txn.nonce = None => txn.spare = feePerKB
    /\ txn.nonce # None => seen < txn.nonce.expiration \/ ExpiresAtTheTip

\* What preprocess checks, and the calls after it pass on.
OneSender == \E k \in InputKeys : InputKeys = {k}

\* The outputs of a transaction, with change below the fork.
OutputsCarried(t) ==
  /\ t.publicKey \in InputKeys
  /\ t.nonce # None => t.outputs = Outputs
  /\ t.nonce = None =>
       \E change \in {<<>>, << [publicKey |-> t.publicKey, amount |-> 1] >>} :
         t.outputs = Outputs \o change

InputAmounts == [i \in DOMAIN OfType("INPUT") |-> OfType("INPUT")[i].amount]

\* What Parse needs.
Carried ==
  /\ stage \notin {"asked", "error"} => OneSender
  /\ stage \in {"inputs added"} \cup Built => OutputsCarried(txn)
  /\ stage \in Built \ {"metadata"} => txn.inputAmounts = InputAmounts

IInv == TypeOK /\ Seen /\ Viewed /\ Prepared /\ Finished /\ OptionsAreHonoured
            /\ RejectedOnlyIfTheChainMoved /\ Carried

-----------------------------------------------------------------------------
\* Rates, offsets and what is made of them are natural numbers.
LEMMA Numbers ==
  ASSUME options \in Options, NEW p \in Params
  PROVE  /\ options.partialID \in Nat /\ options.expiration \in Nat
         /\ options.offset \in Nat /\ options.feeRate \in Nat
         /\ options.txnFee \in Nat
         /\ p.rate \in Nat /\ p.offset \in Nat
         /\ NetworkRate(p) \in Nat /\ MaxOffset(p) \in Nat \ {0}
         /\ NetworkRate(p) >= p.rate
<1>1. options \in [partialID : Nat, expiration : Nat, offset : Nat,
                   feeRate : Nat, txnFee : Nat]
  BY OptionsAssumption
<1>2. p.rate \in Nat /\ p.offset \in Nat
  BY RatesAssumption, OffsetsAssumption DEF Params
<1>. QED
  BY <1>1, <1>2, RatesAssumption, OffsetsAssumption DEF NetworkRate, MaxOffset

\* The rate that metadata uses is the network's or the caller's higher one.
LEMMA Rate ==
  ASSUME options \in Options, view \in Params, ~FeeRateIsTooLow(view)
  PROVE  /\ feePerKB \in Nat
         /\ feePerKB >= NetworkRate(view)
         /\ feePerKB >= options.feeRate
         /\ options.feeRate > 0 => feePerKB = options.feeRate
  BY Numbers DEF feePerKB, FeeRateIsTooLow

LEMMA InitInv == Init => IInv
<1> SUFFICES ASSUME Init PROVE IInv
  OBVIOUS
<1>1. stage = "asked" /\ stage \notin Built \cup AfterView /\ stage \in Stages
  BY DEF Init, Built, AfterView, Stages
<1>2. /\ tip \in 0..MaxTip /\ params \in Params /\ intent \in Intents
      /\ options \in Options /\ view \in Params /\ suggested \in Nat
  BY HeightsAssumption DEF Init
<1>3. changed \in BOOLEAN
  BY DEF Init
<1>4. TypeOK
  <2>1. seen \in 0..MaxTip
    BY HeightsAssumption DEF Init
  <2>. QED
    BY <1>1, <1>2, <1>3, <2>1, Zenon DEF TypeOK
<1>5. Seen
  BY HeightsAssumption DEF Init, Seen
<1>. QED
  BY <1>1, <1>4, <1>5 DEF IInv, Viewed, Prepared, Finished, OptionsAreHonoured,
                    RejectedOnlyIfTheChainMoved, Carried, Built, AfterView

\* What is made of the intent stays while the intent does.
LEMMA SameIntent ==
  ASSUME intent' = intent
  PROVE  /\ OneSender' <=> OneSender
         /\ InputAmounts' = InputAmounts /\ Outputs' = Outputs
         /\ InputKeys' = InputKeys
BY DEF OneSender, InputAmounts, Outputs, InputKeys, OfType

LEMMA SameOutputs ==
  ASSUME intent' = intent, OutputsCarried(txn),
         txn'.publicKey = txn.publicKey, txn'.outputs = txn.outputs,
         txn'.nonce = None <=> txn.nonce = None
  PROVE  OutputsCarried(txn)'
BY SameIntent DEF OutputsCarried

-----------------------------------------------------------------------------
(* The chain moves.                                                         *)

LEMMA ChainInv == ASSUME IInv, NewBlock \/ ChangeParams PROVE IInv'
<1>1. /\ UNCHANGED flow
      /\ tip \in Nat /\ tip' \in 0..MaxTip /\ tip' \in Nat /\ tip' >= tip
      /\ params' \in Params /\ changed' \in BOOLEAN
      /\ ~changed' => ~changed /\ params' = params
      /\ stage \notin Ended
  <2>1. tip \in 0..MaxTip /\ params \in Params /\ changed \in BOOLEAN
    BY Zenon DEF IInv, TypeOK
  <2>2. CASE NewBlock
    BY <2>1, <2>2, HeightsAssumption DEF NewBlock
  <2>3. CASE ChangeParams
    BY <2>1, <2>3, HeightsAssumption DEF ChangeParams
  <2>. QED
    BY <2>2, <2>3
<1>2. /\ options.offset \in Nat /\ MaxOffset(view) \in Nat
      /\ UNCHANGED << MaxOffset(view), feePerKB, NetworkRate(view), FeeRateIsTooLow(view) >>
  BY <1>1, Numbers DEF IInv, TypeOK, flow, MaxOffset, feePerKB, NetworkRate, FeeRateIsTooLow
<1>3. TypeOK'
  BY <1>1 DEF IInv, TypeOK, flow
<1>4. Viewed'
  BY <1>1, <1>2 DEF IInv, Viewed, flow
<1>5. Prepared'
  <2>. SUFFICES ASSUME stage = "inputs added"
                PROVE  Prepared'
    BY <1>1 DEF Prepared, flow
  <2>1. /\ IsTxn(txn) /\ txn.signed = FALSE
        /\ txn.fee \in Nat /\ suggested = feePerKB
        /\ txn.nonce = None => txn.spare = feePerKB
    BY Zenon DEF IInv, Prepared
  <2>2. txn.nonce # None =>
          /\ txn.fee = feePerKB
          /\ txn.nonce.partialID \in Nat /\ txn.nonce.expiration \in Nat
          /\ seen < txn.nonce.expiration
          /\ ~changed' => txn.nonce.expiration =< seen + MaxOffset(view)
    BY <1>1, Zenon DEF IInv, Prepared
  <2>3. UNCHANGED << txn, suggested, seen, feePerKB, MaxOffset(view) >>
    BY <1>1, <1>2 DEF flow
  <2>. QED
    BY <2>1, <2>2, <2>3 DEF Prepared, IsTxn
<1>6. stage \in Built /\ txn.nonce # None => txn.nonce.expiration \in Nat
  BY DEF IInv, TypeOK
<1>7. Finished'
  BY <1>1, <1>2, <1>6 DEF IInv, Finished, ExpiresAtTheTip, flow, IsTxn
<1>8. OptionsAreHonoured'
  BY <1>1, <1>2, <1>6 DEF IInv, OptionsAreHonoured, flow
<1>9. RejectedOnlyIfTheChainMoved'
  BY <1>1 DEF RejectedOnlyIfTheChainMoved, flow, Ended
<1>10. Carried'
  BY <1>1, SameIntent DEF IInv, Carried, OutputsCarried, flow
<1>11. Seen'
  BY <1>1 DEF IInv, TypeOK, Seen, flow
<1>. QED
  BY <1>11, <1>3, <1>4, <1>5, <1>7, <1>8, <1>9, <1>10 DEF IInv

-----------------------------------------------------------------------------
(* Preprocess, and the calls that fail.                                     *)

LEMMA EarlyInv ==
  ASSUME IInv,
         Preprocess \/ PreprocessFails \/ ReadViewFails \/ InputsFail \/ MetadataFails
  PROVE  IInv'
<1>1. /\ stage' \in {"preprocessed", "error"}
      /\ UNCHANGED << chain, intent, options, view, txn, suggested, seen >>
  BY DEF Preprocess, PreprocessFails, ReadViewFails, InputsFail, MetadataFails, Fail
<1>2. stage' \notin Built \cup AfterView /\ stage' \in Stages
  BY <1>1 DEF Built, AfterView, Stages
<1>3. TypeOK'
  BY <1>1, <1>2 DEF IInv, TypeOK, chain
<1>4. Carried'
  <2>1. Preprocess \/ stage' = "error"
    BY DEF PreprocessFails, ReadViewFails, InputsFail, MetadataFails, Fail
  <2>2. Preprocess => OneSender'
    BY <1>1, SameIntent DEF Preprocess, OneSender
  <2>. QED
    BY <1>1, <1>2, <2>1, <2>2 DEF Carried
<1>5. Seen'
  BY <1>1 DEF IInv, Seen, chain
<1>. QED
  BY <1>1, <1>2, <1>3, <1>4, <1>5 DEF IInv, Viewed, Prepared, Finished, OptionsAreHonoured,
                          RejectedOnlyIfTheChainMoved

-----------------------------------------------------------------------------
(* Metadata.                                                                *)

LEMMA ReadViewInv == ASSUME IInv, ReadView PROVE IInv'
<1>1. /\ stage' = "view read" /\ stage' \notin Built /\ stage' \in Stages
      /\ stage' \in AfterView
  BY DEF ReadView, Built, Stages, AfterView
<1>2. TypeOK'
  BY <1>1 DEF IInv, TypeOK, ReadView
<1>3. Viewed'
  BY <1>1 DEF IInv, Viewed, ReadView, FeeRateIsTooLow, NetworkRate
<1>4. Carried'
  BY <1>1, SameIntent DEF IInv, Carried, ReadView
<1>5. Seen'
  BY DEF IInv, Seen, ReadView
<1>. QED
  BY <1>1, <1>2, <1>3, <1>4, <1>5 DEF IInv, Prepared, Finished, OptionsAreHonoured,
                          RejectedOnlyIfTheChainMoved

LEMMA AddInputsInv == ASSUME IInv, AddInputsAndChange PROVE IInv'
<1>1. /\ stage = "view read" /\ stage \in AfterView /\ stage' \in AfterView
      /\ stage' = "inputs added" /\ stage' \notin Built /\ stage' \in Stages
      /\ UNCHANGED << chain, intent, options, view >>
      /\ suggested' = feePerKB /\ seen' = tip
  BY DEF AddInputsAndChange, Built, Stages, AfterView
<1>2. /\ tip \in Nat /\ options \in Options /\ view \in Params /\ params \in Params
      /\ ~FeeRateIsTooLow(view)
      /\ ~changed => params = view
  <2>1. /\ tip \in 0..MaxTip /\ options \in Options /\ view \in Params
        /\ params \in Params
    BY Zenon DEF IInv, TypeOK
  <2>2. ~FeeRateIsTooLow(view) /\ (~changed => params = view)
    BY <1>1, Zenon DEF IInv, Viewed
  <2>. QED
    BY <2>1, <2>2, HeightsAssumption
<1>3. /\ feePerKB \in Nat /\ MaxOffset(params) \in Nat \ {0}
      /\ MaxOffset(view) \in Nat
  BY <1>2, Rate, Numbers
<1>4. /\ UNCHANGED << MaxOffset(view), feePerKB, FeeRateIsTooLow(view) >>
  BY <1>1 DEF MaxOffset, feePerKB, NetworkRate, FeeRateIsTooLow
<1>5. TypeOK'
  BY <1>1, <1>3 DEF IInv, TypeOK, chain
<1>6. Viewed'
  BY <1>1, <1>4 DEF IInv, Viewed, chain
<1>7. Prepared'
  <2>1. PICK from \in InputKeys :
          \E change \in {<<>>, << [publicKey |-> from, amount |-> 1] >>} :
            txn' = IF BalanceModel
                   THEN [publicKey |-> from, outputs |-> Outputs, signed |-> FALSE,
                         nonce |-> [partialID |-> 0, expiration |-> tip + MaxOffset(params)],
                         fee |-> feePerKB, spare |-> 0, inputAmounts |-> <<>>]
                   ELSE [publicKey |-> from, outputs |-> Outputs \o change,
                         signed |-> FALSE, nonce |-> None, fee |-> 0, spare |-> feePerKB,
                         inputAmounts |-> <<>>]
    BY DEF AddInputsAndChange
  <2>2. CASE BalanceModel
    <3>. DEFINE n == [partialID |-> 0, expiration |-> tip + MaxOffset(params)]
                t == [publicKey |-> from, outputs |-> Outputs, signed |-> FALSE,
                      nonce |-> n, fee |-> feePerKB, spare |-> 0, inputAmounts |-> <<>>]
    <3>1. txn' = t
      BY <2>1, <2>2
    <3>2. /\ IsTxn(t) /\ t.signed = FALSE /\ t.nonce = n /\ t.fee = feePerKB
      BY DEF IsTxn, Fields
    <3>3. /\ n.partialID = 0 /\ n.expiration = tip + MaxOffset(params)
          /\ n \in [partialID : Nat, expiration : Nat]
      BY <1>2, <1>3
    <3>4. n # None
      BY <3>3, NoneAssumption
    <3>5. /\ n.expiration \in Nat /\ tip < n.expiration
          /\ ~changed => n.expiration =< tip + MaxOffset(view)
      BY <1>2, <1>3, <3>3
    <3>. HIDE DEF n, t
    <3>. QED
      BY <1>1, <1>3, <1>4, <3>1, <3>2, <3>3, <3>4, <3>5 DEF Prepared, chain
  <2>3. CASE ~BalanceModel
    <3>1. PICK change : 
            txn' = [publicKey |-> from, outputs |-> Outputs \o change,
                    signed |-> FALSE, nonce |-> None, fee |-> 0, spare |-> feePerKB,
                         inputAmounts |-> <<>>]
      BY <2>1, <2>3
    <3>2. /\ IsTxn(txn') /\ txn'.signed = FALSE /\ txn'.nonce = None /\ txn'.fee = 0
          /\ txn'.spare = feePerKB
      BY <3>1 DEF IsTxn, Fields
    <3>3. (0 \in Nat)
      OBVIOUS
    <3>. QED
      BY <1>1, <1>4, <3>2, <3>3, Zenon DEF Prepared
  <2>. QED
    BY <2>2, <2>3
<1>8. Carried'
  <2>1. OneSender'
    BY <1>1, SameIntent DEF IInv, Carried
  <2>2. PICK from \in InputKeys :
          \E change \in {<<>>, << [publicKey |-> from, amount |-> 1] >>} :
            txn' = IF BalanceModel
                   THEN [publicKey |-> from, outputs |-> Outputs, signed |-> FALSE,
                         nonce |-> [partialID |-> 0, expiration |-> tip + MaxOffset(params)],
                         fee |-> feePerKB, spare |-> 0, inputAmounts |-> <<>>]
                   ELSE [publicKey |-> from, outputs |-> Outputs \o change,
                         signed |-> FALSE, nonce |-> None, fee |-> 0, spare |-> feePerKB,
                         inputAmounts |-> <<>>]
    BY DEF AddInputsAndChange
  <2>3. [partialID |-> 0, expiration |-> tip + MaxOffset(params)] # None
    <3>1. [partialID |-> 0, expiration |-> tip + MaxOffset(params)]
            \in [partialID : Nat, expiration : Nat]
      BY <1>2, <1>3
    <3>. QED
      BY <3>1, NoneAssumption
  <2>4. CASE BalanceModel
    <3>1. txn'.publicKey = from /\ txn'.outputs = Outputs /\ txn'.nonce # None
      BY <2>2, <2>3, <2>4
    <3>2. OutputsCarried(txn)'
      BY <1>1, <3>1, SameIntent DEF OutputsCarried
    <3>. QED
      BY <1>1, <2>1, <3>2 DEF Carried
  <2>5. CASE ~BalanceModel
    <3>1. PICK change \in {<<>>, << [publicKey |-> from, amount |-> 1] >>} :
            txn' = [publicKey |-> from, outputs |-> Outputs \o change,
                    signed |-> FALSE, nonce |-> None, fee |-> 0, spare |-> feePerKB,
                    inputAmounts |-> <<>>]
      BY <2>2, <2>5
    <3>2. txn'.publicKey = from /\ txn'.outputs = Outputs \o change
          /\ txn'.nonce = None
      BY <3>1
    <3>3. OutputsCarried(txn)'
      BY <1>1, <3>1, <3>2, SameIntent, Zenon DEF OutputsCarried
    <3>. QED
      BY <1>1, <2>1, <3>3 DEF Carried
  <2>. QED
    BY <2>4, <2>5
<1>9. Seen'
  <2>1. tip' = tip /\ seen' = tip
    BY <1>1 DEF chain
  <2>. QED
    BY <1>2, <2>1 DEF Seen
<1>. QED
  BY <1>1, <1>5, <1>6, <1>7, <1>8, <1>9 DEF IInv, Finished, OptionsAreHonoured,
                                RejectedOnlyIfTheChainMoved

\* The fee of the caller, if there is one, and nothing else.
LEMMA FeeIsSet ==
  ASSUME NEW t, IsTxn(t)
  PROVE  /\ IsTxn(WithFee(t))
         /\ WithFee(t).nonce = t.nonce
         /\ WithFee(t).signed = t.signed
         /\ WithFee(t).spare = t.spare
         /\ WithFee(t).publicKey = t.publicKey
         /\ WithFee(t).outputs = t.outputs
         /\ WithFee(t).fee = IF options.txnFee > 0 THEN options.txnFee ELSE t.fee
<1>1. CASE options.txnFee > 0
  <2>1. WithFee(t) = [t EXCEPT !.fee = options.txnFee]
    BY <1>1 DEF WithFee
  <2>2. /\ IsTxn(WithFee(t)) /\ WithFee(t).fee = options.txnFee
        /\ WithFee(t).nonce = t.nonce /\ WithFee(t).signed = t.signed
        /\ WithFee(t).spare = t.spare
        /\ WithFee(t).publicKey = t.publicKey
        /\ WithFee(t).outputs = t.outputs
    BY <2>1 DEF IsTxn, Fields
  <2>. QED
    BY <1>1, <2>2
<1>2. CASE ~(options.txnFee > 0)
  BY <1>2 DEF WithFee
<1>. QED
  BY <1>1, <1>2

\* The partial ID and the expiration of the caller, where there is a nonce.
LEMMA NonceIsSet ==
  ASSUME NEW t, IsTxn(t)
  PROVE  /\ IsTxn(WithNonce(t))
         /\ WithNonce(t).fee = t.fee
         /\ WithNonce(t).signed = t.signed
         /\ WithNonce(t).spare = t.spare
         /\ WithNonce(t).publicKey = t.publicKey
         /\ WithNonce(t).outputs = t.outputs
         /\ t.nonce = None => WithNonce(t).nonce = None
         /\ t.nonce # None => WithNonce(t).nonce =
              [partialID |-> IF options.partialID > 0 THEN options.partialID
                             ELSE t.nonce.partialID,
               expiration |-> Expiration(options, t.nonce.expiration)]
<1>. DEFINE n == [partialID |-> IF options.partialID > 0 THEN options.partialID
                                ELSE t.nonce.partialID,
                  expiration |-> Expiration(options, t.nonce.expiration)]
<1>1. CASE t.nonce = None
  BY <1>1 DEF WithNonce
<1>2. CASE t.nonce # None
  <2>1. WithNonce(t) = [t EXCEPT !.nonce = n]
    BY <1>2 DEF WithNonce, IsTxn, Fields
  <2>. HIDE DEF n
  <2>2. /\ IsTxn(WithNonce(t)) /\ WithNonce(t).nonce = n
        /\ WithNonce(t).fee = t.fee /\ WithNonce(t).signed = t.signed
        /\ WithNonce(t).spare = t.spare
        /\ WithNonce(t).publicKey = t.publicKey
        /\ WithNonce(t).outputs = t.outputs
    BY <2>1 DEF IsTxn, Fields
  <2>. QED
    BY <1>2, <2>2 DEF n
<1>. QED
  BY <1>1, <1>2

\* The expiration that metadata decides on, unless it fails.
LEMMA Expires ==
  ASSUME options \in Options, view \in Params, tip \in Nat,
         NEW default \in Nat, ~ExpirationIsWrong(options)
  PROVE  /\ Expiration(options, default) \in Nat
         /\ options.offset > 0 =>
              /\ Expiration(options, default) = tip + options.offset
              /\ Expiration(options, default) =< tip + MaxOffset(view)
         /\ options.offset = 0 /\ options.expiration > 0 =>
              /\ Expiration(options, default) = options.expiration
              /\ options.expiration >= tip
              /\ options.expiration =< tip + MaxOffset(view)
         /\ options.offset = 0 /\ options.expiration = 0 =>
              Expiration(options, default) = default
  BY Numbers DEF Expiration, ExpirationIsWrong

LEMMA MetadataInv == ASSUME IInv, Metadata PROVE IInv'
<1>1. /\ stage = "inputs added" /\ stage \in AfterView
      /\ stage' = "metadata" /\ stage' \in AfterView /\ stage' \in Built
      /\ stage' \in Stages /\ stage' \notin {"combined", "submitted", "rejected"}
      /\ UNCHANGED << chain, intent, options, view >>
      /\ ~MetadataIsWrong
  BY DEF Metadata, Built, Stages, AfterView
<1>2. /\ tip \in Nat /\ options \in Options /\ view \in Params
      /\ ~FeeRateIsTooLow(view)
  <2>1. tip \in 0..MaxTip /\ options \in Options /\ view \in Params
    BY Zenon DEF IInv, TypeOK
  <2>2. ~FeeRateIsTooLow(view)
    BY <1>1, Zenon DEF IInv, Viewed
  <2>. QED
    BY <2>1, <2>2, HeightsAssumption
<1>3. /\ feePerKB \in Nat /\ feePerKB >= NetworkRate(view)
      /\ feePerKB >= options.feeRate
      /\ options.feeRate > 0 => feePerKB = options.feeRate
      /\ NetworkRate(view) \in Nat /\ MaxOffset(view) \in Nat
      /\ options.partialID \in Nat /\ options.offset \in Nat
      /\ options.expiration \in Nat /\ options.txnFee \in Nat
      /\ options.feeRate \in Nat
  BY <1>2, Rate, Numbers
<1>4. UNCHANGED << MaxOffset(view), feePerKB, NetworkRate(view), FeeRateIsTooLow(view) >>
  BY <1>1 DEF MaxOffset, feePerKB, NetworkRate, FeeRateIsTooLow
<1>5. /\ IsTxn(txn) /\ txn.signed = FALSE /\ txn.fee \in Nat /\ suggested = feePerKB
      /\ txn.nonce = None => txn.spare = feePerKB
      /\ txn.nonce # None => /\ txn.fee = feePerKB
                             /\ txn.nonce.expiration \in Nat
  BY <1>1, Zenon DEF IInv, Prepared
<1>6. txn.nonce # None =>
        /\ seen < txn.nonce.expiration
        /\ ~changed => txn.nonce.expiration =< seen + MaxOffset(view)
  BY <1>1, Zenon DEF IInv, Prepared
<1>7. /\ IsTxn(txn')
      /\ txn'.signed = FALSE
      /\ txn'.spare = txn.spare
      /\ txn'.publicKey = txn.publicKey /\ txn'.outputs = txn.outputs
      /\ txn'.fee = IF options.txnFee > 0 THEN options.txnFee ELSE txn.fee
      /\ txn.nonce = None => txn'.nonce = None
      /\ txn.nonce # None => txn'.nonce =
           [partialID |-> IF options.partialID > 0 THEN options.partialID
                          ELSE txn.nonce.partialID,
            expiration |-> Expiration(options, txn.nonce.expiration)]
      /\ suggested' = IF options.txnFee > 0 THEN options.txnFee ELSE suggested
      /\ seen' = IF options.offset > 0 \/ options.expiration > 0 THEN tip ELSE seen
  <2>1. /\ txn' = WithFee(WithNonce(txn))
        /\ suggested' = IF options.txnFee > 0 THEN options.txnFee ELSE suggested
        /\ seen' = IF options.offset > 0 \/ options.expiration > 0 THEN tip ELSE seen
    BY DEF Metadata
  <2>2. IsTxn(WithNonce(txn))
    BY <1>5, NonceIsSet
  <2>. QED
    BY <1>5, <2>1, <2>2, NonceIsSet, FeeIsSet
<1>8. ASSUME txn'.nonce # None
      PROVE  /\ txn'.fee = suggested'
             /\ txn'.fee >= NetworkRate(view) /\ txn'.fee >= options.feeRate
             /\ options.txnFee > 0 \/ options.feeRate > 0 =>
                  txn'.fee \in {options.txnFee, options.feeRate} \ {0}
             /\ options.partialID > 0 => txn'.nonce.partialID = options.partialID
             /\ txn'.nonce.expiration \in Nat
             /\ options.offset > 0 => txn'.nonce.expiration = seen' + options.offset
             /\ options.offset = 0 /\ options.expiration > 0 =>
                  txn'.nonce.expiration = options.expiration
             /\ options.offset > 0 \/ options.expiration > 0 \/ ~changed =>
                  txn'.nonce.expiration =< seen' + MaxOffset(view)
             /\ seen' < txn'.nonce.expiration \/ ExpiresAtTheTip'
  <2>1. txn.nonce # None
    BY <1>7, <1>8
  <2>2. /\ ~ExpirationIsWrong(options)
        /\ options.txnFee > 0 => ~(txn.fee > options.txnFee)
    BY <1>1, <2>1 DEF MetadataIsWrong
  <2>3. /\ txn'.nonce.expiration = Expiration(options, txn.nonce.expiration)
        /\ options.partialID > 0 => txn'.nonce.partialID = options.partialID
    BY <1>7, <2>1
  <2>4. /\ txn'.fee = suggested'
        /\ txn'.fee >= NetworkRate(view) /\ txn'.fee >= options.feeRate
        /\ options.txnFee > 0 \/ options.feeRate > 0 =>
             txn'.fee \in {options.txnFee, options.feeRate} \ {0}
    BY <1>3, <1>5, <1>7, <2>1, <2>2
  <2>5. txn.nonce.expiration \in Nat /\ seen \in Nat /\ options' = options
    <3>1. seen \in 0..MaxTip
      BY Zenon DEF IInv, TypeOK
    <3>2. seen \in Nat
      BY <3>1, HeightsAssumption
    <3>3. options' = options /\ txn.nonce.expiration \in Nat
      BY <1>1, <1>5, <2>1, Zenon
    <3>. QED
      BY <3>2, <3>3
  <2>6. CASE options.offset > 0
    <3>1. /\ txn'.nonce.expiration = tip + options.offset /\ seen' = tip
          /\ txn'.nonce.expiration =< tip + MaxOffset(view)
      BY <1>2, <1>7, <2>2, <2>3, <2>5, <2>6, Expires
    <3>. QED
      BY <1>2, <1>3, <2>3, <2>4, <2>6, <3>1
  <2>7. CASE options.offset = 0 /\ options.expiration > 0
    <3>1. /\ txn'.nonce.expiration = options.expiration /\ seen' = tip
          /\ options.expiration >= tip
          /\ options.expiration =< tip + MaxOffset(view)
      BY <1>2, <1>7, <2>2, <2>3, <2>5, <2>7, Expires
    <3>2. tip < options.expiration \/ ExpiresAtTheTip'
      BY <1>2, <1>3, <2>5, <2>7, <3>1 DEF ExpiresAtTheTip
    <3>. QED
      BY <1>2, <1>3, <2>3, <2>4, <2>7, <3>1, <3>2
  <2>8. CASE options.offset = 0 /\ options.expiration = 0
    <3>1. txn'.nonce.expiration = txn.nonce.expiration /\ seen' = seen
      BY <1>2, <1>7, <2>2, <2>3, <2>5, <2>8, Expires
    <3>. QED
      BY <1>6, <2>1, <2>3, <2>4, <2>5, <2>8, <3>1
  <2>. QED
    BY <1>3, <2>6, <2>7, <2>8
<1>9. ASSUME txn.nonce # None PROVE txn'.nonce # None
  <2>1. ~ExpirationIsWrong(options)
    BY <1>1, <1>9 DEF MetadataIsWrong
  <2>2. txn.nonce.partialID \in Nat /\ txn.nonce.expiration \in Nat
    BY <1>1, <1>9, Zenon DEF IInv, Prepared
  <2>3. Expiration(options, txn.nonce.expiration) \in Nat
    BY <1>2, <2>1, <2>2, Expires
  <2>4. txn'.nonce \in [partialID : Nat, expiration : Nat]
    BY <1>3, <1>7, <1>9, <2>2, <2>3
  <2>. QED
    BY <2>4, NoneAssumption
<1>10. TypeOK'
  <2>1. seen' \in 0..MaxTip
    BY <1>7 DEF IInv, TypeOK
  <2>. QED
    BY <1>1, <1>3, <1>5, <1>7, <1>8, <2>1 DEF IInv, TypeOK, chain
<1>11. Viewed'
  BY <1>1, <1>4 DEF IInv, Viewed, chain
<1>12. Finished'
  <2>2. txn'.nonce = None => txn'.spare = feePerKB
    BY <1>5, <1>7, <1>9
  <2>. QED
    BY <1>1, <1>4, <1>7, <1>8, <2>2, Zenon DEF Finished, chain
<1>13. OptionsAreHonoured'
  BY <1>1, <1>4, <1>8 DEF OptionsAreHonoured, chain
<1>14. Carried'
  <2>1. OutputsCarried(txn)'
    <3>1. OutputsCarried(txn) /\ intent' = intent
      BY <1>1 DEF IInv, Carried
    <3>. QED
      BY <1>7, <1>9, <3>1, SameOutputs
  <2>2. OneSender'
    BY <1>1, SameIntent DEF IInv, Carried
  <2>. QED
    BY <1>1, <2>1, <2>2 DEF Carried
<1>15. Seen'
  <2>1. tip' = tip /\ seen' \in {tip, seen}
    BY <1>1, <1>7 DEF chain
  <2>. QED
    BY <1>2, <2>1 DEF IInv, Seen
<1>. QED
  BY <1>1, <1>10, <1>11, <1>12, <1>13, <1>14, <1>15 DEF IInv, Prepared, RejectedOnlyIfTheChainMoved

-----------------------------------------------------------------------------
(* The calls after metadata, and the theorems.                              *)

\* Neither payloads nor combine nor submit touches nonce or fee.
LEMMA LaterInv ==
  ASSUME IInv, Payloads \/ Combine \/ Submit
  PROVE  TypeOK' /\ Seen' /\ Viewed' /\ Prepared' /\ Finished' /\ OptionsAreHonoured'
         /\ Carried'
<1>1. /\ stage \in Built /\ stage \in AfterView
      /\ stage' \in Built /\ stage' \in AfterView /\ stage' \in Stages
      /\ stage' # "inputs added"
      /\ UNCHANGED << chain, intent, options, view, suggested, seen >>
  BY DEF Payloads, Combine, Submit, Built, AfterView, Stages
<1>2. UNCHANGED << MaxOffset(view), feePerKB, NetworkRate(view), FeeRateIsTooLow(view) >>
  BY <1>1 DEF MaxOffset, feePerKB, NetworkRate, FeeRateIsTooLow
<1>3. /\ IsTxn(txn) /\ txn.fee \in Nat
      /\ txn.nonce # None => txn.nonce.expiration \in Nat
      /\ txn.signed <=> stage \in {"combined", "submitted", "rejected"}
      /\ txn.signed \in BOOLEAN
  BY <1>1, Zenon DEF IInv, TypeOK, Finished
<1>4. /\ IsTxn(txn')
      /\ txn'.fee = txn.fee /\ txn'.nonce = txn.nonce /\ txn'.spare = txn.spare
      /\ txn'.publicKey = txn.publicKey /\ txn'.outputs = txn.outputs
      /\ txn'.signed \in BOOLEAN
      /\ txn'.signed <=> stage' \in {"combined", "submitted", "rejected"}
  <2>1. CASE Payloads
    BY <1>3, <2>1 DEF Payloads, IsTxn, Fields
  <2>2. CASE Combine
    BY <1>3, <2>2 DEF Combine, IsTxn, Fields
  <2>3. CASE Submit
    BY <1>3, <2>3 DEF Submit
  <2>. QED
    BY <2>1, <2>2, <2>3
<1>5. TypeOK'
  BY <1>1, <1>3, <1>4 DEF IInv, TypeOK, chain
<1>6. Viewed'
  BY <1>1, <1>2 DEF IInv, Viewed, chain
<1>7. Finished'
  BY <1>1, <1>2, <1>4 DEF IInv, Finished, ExpiresAtTheTip, chain
<1>8. OptionsAreHonoured'
  BY <1>1, <1>2, <1>4 DEF IInv, OptionsAreHonoured, chain
<1>9. Carried'
  <2>1. /\ OneSender /\ OutputsCarried(txn) /\ intent' = intent
        /\ stage \in Built \ {"metadata"} => txn.inputAmounts = InputAmounts
    BY <1>1 DEF IInv, Carried, Built
  <2>2. OutputsCarried(txn)' /\ OneSender'
    BY <1>4, <2>1, SameOutputs, SameIntent
  <2>3. txn'.inputAmounts = InputAmounts'
    <3>1. InputAmounts' = InputAmounts
      BY <2>1, SameIntent
    <3>2. CASE Payloads
      <4>1. txn' = [txn EXCEPT !.inputAmounts = InputAmounts]
        BY <3>2 DEF Payloads, InputAmounts
      <4>. QED
        BY <1>3, <3>1, <4>1 DEF IsTxn, Fields
    <3>3. CASE Combine
      <4>1. txn' = [txn EXCEPT !.signed = TRUE] /\ stage = "payloads"
        BY <3>3 DEF Combine
      <4>2. txn.inputAmounts = InputAmounts
        BY <2>1, <4>1 DEF Built
      <4>. QED
        BY <1>3, <3>1, <4>1, <4>2 DEF IsTxn, Fields
    <3>4. CASE Submit
      BY <2>1, <3>1, <3>4 DEF Submit, Built
    <3>. QED
      BY <3>2, <3>3, <3>4
  <2>. QED
    BY <2>2, <2>3 DEF Carried
<1>10. Seen'
  BY <1>1 DEF IInv, Seen, chain
<1>. QED
  BY <1>1, <1>5, <1>6, <1>7, <1>8, <1>9, <1>10 DEF Prepared

\* Submit rejects only what it may.
LEMMA RejectInv ==
  ASSUME IInv, Payloads \/ Combine \/ Submit
  PROVE  RejectedOnlyIfTheChainMoved'
<1>1. CASE ~Submit
  BY <1>1 DEF Payloads, Combine, RejectedOnlyIfTheChainMoved
<1>2. CASE Submit
  <2>. SUFFICES ASSUME stage' = "rejected", ~changed,
                       ~((txn.nonce = None) = BalanceModel),
                       txn.nonce # None =>
                         /\ ~(/\ seen < txn.nonce.expiration
                              /\ txn.nonce.expiration =< tip)
                         /\ ~ExpiresAtTheTip
                PROVE  FALSE
    BY <1>2 DEF Submit, RejectedOnlyIfTheChainMoved, ExpiresAtTheTip, chain,
                BalanceModel
  <2>1. /\ stage = "combined" /\ stage \in Built /\ stage \in AfterView
        /\ ~Accepts(txn)
    BY <1>2 DEF Submit, Built, AfterView
  <2>2. /\ tip \in 0..MaxTip /\ options \in Options /\ view \in Params
        /\ params = view /\ ~FeeRateIsTooLow(view)
        /\ seen \in 0..MaxTip /\ seen =< tip
        /\ txn.signed
        /\ txn.nonce # None => txn.nonce.expiration \in Nat /\ txn.fee >= NetworkRate(view)
        /\ txn.fee \in Nat
    BY <2>1, Zenon DEF IInv, TypeOK, Seen, Viewed, OptionsAreHonoured
  <2>3. /\ txn.nonce = None => txn.spare = feePerKB
        /\ txn.nonce # None => /\ seen < txn.nonce.expiration \/ ExpiresAtTheTip
                               /\ txn.nonce.expiration =< seen + MaxOffset(view)
    BY <2>1, Zenon DEF IInv, Finished, OptionsAreHonoured
  <2>4. /\ tip \in Nat /\ seen \in Nat /\ view.rate \in Nat
        /\ MaxOffset(view) \in Nat
        /\ NetworkRate(view) \in Nat /\ NetworkRate(view) >= view.rate
        /\ feePerKB \in Nat /\ feePerKB >= NetworkRate(view)
    BY <2>2, HeightsAssumption, Numbers, Rate
  <2>5. CASE txn.nonce = None
    <3>1. txn.spare >= params.rate
      BY <2>2, <2>3, <2>4, <2>5
    <3>. QED
      BY <2>1, <2>2, <2>5, <3>1 DEF Accepts, BalanceModel
  <2>6. CASE txn.nonce # None
    <3>1. /\ txn.nonce.expiration >= tip + 1
          /\ txn.nonce.expiration =< tip + 1 + MaxOffset(params)
          /\ txn.fee >= params.rate
      BY <2>2, <2>3, <2>4, <2>6
    <3>. QED
      BY <2>1, <2>2, <2>6, <3>1 DEF Accepts, BalanceModel
  <2>. QED
    BY <2>5, <2>6
<1>. QED
  BY <1>1, <1>2

LEMMA Inductive == IInv /\ [Next]_vars => IInv'
<1>. SUFFICES ASSUME IInv, [Next]_vars PROVE IInv'
  OBVIOUS
<1>1. CASE NewBlock \/ ChangeParams
  BY <1>1, ChainInv
<1>2. CASE Preprocess \/ PreprocessFails \/ ReadViewFails \/ InputsFail \/ MetadataFails
  BY <1>2, EarlyInv
<1>3. CASE ReadView
  BY <1>3, ReadViewInv
<1>4. CASE AddInputsAndChange
  BY <1>4, AddInputsInv
<1>5. CASE Metadata
  BY <1>5, MetadataInv
<1>6. CASE Payloads \/ Combine \/ Submit
  BY <1>6, LaterInv, RejectInv DEF IInv
<1>7. CASE UNCHANGED vars
  <2>1. UNCHANGED << tip, params, changed, intent, options, stage, view, txn,
                     suggested, seen >>
    BY <1>7 DEF vars, chain, flow
  <2>2. TypeOK' /\ Seen'
    BY <2>1 DEF IInv, TypeOK, Seen
  <2>3. Viewed'
    BY <2>1 DEF IInv, Viewed, FeeRateIsTooLow, NetworkRate
  <2>4. Prepared' /\ Finished'
    BY <2>1 DEF IInv, Prepared, Finished, ExpiresAtTheTip, IsTxn, MaxOffset, NetworkRate, feePerKB
  <2>5. OptionsAreHonoured' /\ RejectedOnlyIfTheChainMoved'
    BY <2>1 DEF IInv, OptionsAreHonoured, RejectedOnlyIfTheChainMoved, BalanceModel,
                ExpiresAtTheTip, MaxOffset, NetworkRate
  <2>6. Carried'
    BY <2>1, SameIntent DEF IInv, Carried, OutputsCarried
  <2>. QED
    BY <2>2, <2>3, <2>4, <2>5, <2>6 DEF IInv
<1>. QED
  BY <1>1, <1>2, <1>3, <1>4, <1>5, <1>6, <1>7 DEF Next

LEMMA Invariant == Spec => []IInv
  BY InitInv, Inductive, PTL DEF Spec

\* Every part of the state keeps its type, and a transaction is signed exactly
\* from combine on (services/construction_service.go:50-545).
THEOREM TypeCorrect == Spec => []TypeOK
<1>1. IInv => TypeOK
  BY DEF IInv
<1>. QED
  BY <1>1, Invariant, PTL

\* Above the fork the transaction carries the nonce the caller asked for, within
\* what metadata saw of the chain, and a fee the caller asked for (the fixed one or
\* the rate's, where both were given), whatever the options, the parameters and the
\* blocks in between (services/construction_service.go:172-185 and 244-280).
THEOREM OptionsHonoured == Spec => []OptionsAreHonoured
<1>1. IInv => OptionsAreHonoured
  BY DEF IInv
<1>. QED
  BY <1>1, Invariant, PTL


-----------------------------------------------------------------------------
(* What parse returns.                                                      *)

\* The operations of a type, and what is asked of an operation.
LEMMA Asked ==
  ASSUME intent \in Intents, NEW type
  PROVE  /\ OfType(type) \in Seq(ToSet(intent))
         /\ OfType(type) \in Seq({op \in ToSet(intent) : op.type = type})
         /\ \A op \in ToSet(intent) :
              op = [type |-> op.type, account |-> op.account,
                    amount |-> op.amount]
<1>. DEFINE A == ToSet(intent)
            S == {op \in ToSet(intent) : op.type = type}
<1>1. intent \in Seq(A)
  BY IntentsAssumption
<1>2. A \cap S = S /\ S \subseteq A
  OBVIOUS
<1>3. OfType(type) \in Seq(S)
  <2>. HIDE DEF A, S
  <2>1. Selection(intent, S) \in Seq(A \cap S)
    BY <1>1, SelectionType
  <2>. QED
    BY <1>2, <2>1 DEF OfType, S
<1>4. OfType(type) \in Seq(A)
  <2>. HIDE DEF A, S
  <2>. QED
    BY <1>2, <1>3
<1>. QED
  BY <1>3, <1>4, IntentsAssumption

\* The inputs of operations, and back.
LEMMA InputsComeBack ==
  ASSUME intent \in Intents, OneSender, txn.publicKey \in InputKeys,
         txn.inputAmounts = InputAmounts
  PROVE  [i \in DOMAIN txn.inputAmounts |->
            [type |-> "INPUT", account |-> txn.publicKey,
             amount |-> txn.inputAmounts[i]]] = OfType("INPUT")
<1>. DEFINE in == OfType("INPUT")
            S == {op \in ToSet(intent) : op.type = "INPUT"}
<1>1. in \in Seq(S)
  BY Asked
<1>2. \A op \in S : op = [type |-> "INPUT", account |-> op.account,
                          amount |-> op.amount]
  BY Asked
<1>3. \A i \in DOMAIN in : in[i].account = txn.publicKey
  <2>. TAKE i \in DOMAIN in
  <2>1. in[i].account \in InputKeys
    BY DEF InputKeys, ToSet
  <2>. QED
    BY <2>1 DEF OneSender
<1>4. \A i \in DOMAIN in : in[i] \in S
  <2>. HIDE DEF S, in
  <2>. QED
    BY <1>1
<1>5. in = [i \in DOMAIN in |-> in[i]]
  <2>. HIDE DEF S, in
  <2>. QED
    BY <1>1
<1>6. \A i \in DOMAIN in :
        in[i] = [type |-> "INPUT", account |-> txn.publicKey,
                 amount |-> in[i].amount]
  <2>. HIDE DEF S, in
  <2>. QED
    BY <1>2, <1>3, <1>4
<1>7. DOMAIN txn.inputAmounts = DOMAIN in
      /\ \A i \in DOMAIN in : txn.inputAmounts[i] = in[i].amount
  BY DEF InputAmounts
<1>. HIDE DEF in
<1>8. [i \in DOMAIN txn.inputAmounts |->
         [type |-> "INPUT", account |-> txn.publicKey,
          amount |-> txn.inputAmounts[i]]]
        = [i \in DOMAIN in |-> in[i]]
  BY <1>6, <1>7
<1>. QED
  BY <1>5, <1>8 DEF in

\* The outputs of operations, and back.
ToOutput == [op \in ToSet(intent) |->
               [publicKey |-> op.account, amount |-> op.amount]]
ToOperations(out) ==
  [i \in DOMAIN out |-> [type |-> "OUTPUT", account |-> out[i].publicKey,
                         amount |-> out[i].amount]]

LEMMA OutputsComeBack ==
  ASSUME intent \in Intents,
         NEW s \in Seq({op \in ToSet(intent) : op.type = "OUTPUT"})
  PROVE  ToOperations([i \in DOMAIN s |-> ToOutput[s[i]]]) = s
<1>. DEFINE S == {op \in ToSet(intent) : op.type = "OUTPUT"}
            out == [i \in DOMAIN s |-> ToOutput[s[i]]]
<1>1. \A op \in S : /\ op = [type |-> "OUTPUT", account |-> op.account,
                             amount |-> op.amount]
                    /\ ToOutput[op] = [publicKey |-> op.account,
                                       amount |-> op.amount]
  BY Asked DEF ToOutput
<1>. HIDE DEF S
<1>2. /\ s = [i \in DOMAIN s |-> s[i]] /\ \A i \in DOMAIN s : s[i] \in S
  BY DEF S
<1>3. \A i \in DOMAIN s : /\ out[i].publicKey = s[i].account
                          /\ out[i].amount = s[i].amount
  <2>. TAKE i \in DOMAIN s
  <2>1. out[i] = ToOutput[s[i]]
    OBVIOUS
  <2>2. s[i] \in S
    BY <1>2
  <2>3. ToOutput[s[i]] = [publicKey |-> s[i].account, amount |-> s[i].amount]
    BY <1>1, <2>2
  <2>. HIDE DEF out
  <2>. QED
    BY <2>1, <2>3
<1>4. DOMAIN out = DOMAIN s
  OBVIOUS
<1>. HIDE DEF out
<1>5. \A i \in DOMAIN s :
        [type |-> "OUTPUT", account |-> out[i].publicKey,
         amount |-> out[i].amount] = s[i]
  <2>. TAKE i \in DOMAIN s
  <2>1. s[i] = [type |-> "OUTPUT", account |-> s[i].account, amount |-> s[i].amount]
    BY <1>1, <1>2
  <2>. QED
    BY <1>3, <2>1
<1>6. ToOperations(out) = [i \in DOMAIN s |-> s[i]]
  BY <1>4, <1>5 DEF ToOperations
<1>. QED
  BY <1>2, <1>6 DEF out

\* The outputs that parse keeps.
ParsedOutputs ==
  Selection(txn.outputs, {o \in ToSet(txn.outputs) : ~IsChange(txn, o)})

LEMMA OutputsAsked ==
  ASSUME intent \in Intents
  PROVE  /\ Outputs = [i \in DOMAIN OfType("OUTPUT") |-> ToOutput[OfType("OUTPUT")[i]]]
         /\ Len(Outputs) = Len(OfType("OUTPUT"))
         /\ Outputs \in Seq(ToSet(Outputs))
<1>. DEFINE out == OfType("OUTPUT")
            A == ToSet(intent)
<1>1. out \in Seq(A)
  BY Asked
<1>2. Outputs = [i \in DOMAIN out |-> [publicKey |-> out[i].account,
                                       amount |-> out[i].amount]]
  BY DEF Outputs
<1>. HIDE DEF out, A
<1>3. \A i \in DOMAIN out : out[i] \in A
  BY <1>1
<1>4. Outputs = [i \in DOMAIN out |-> ToOutput[out[i]]]
  BY <1>2, <1>3 DEF ToOutput, A
<1>5. DOMAIN out = 1..Len(out) /\ Len(out) \in Nat
  BY <1>1
<1>6. \A i \in DOMAIN Outputs : Outputs[i] \in ToSet(Outputs)
  BY DEF ToSet
<1>7. Outputs = [i \in 1..Len(out) |-> Outputs[i]] /\ DOMAIN Outputs = 1..Len(out)
  BY <1>4, <1>5
<1>8. Outputs \in Seq(ToSet(Outputs)) /\ Len(Outputs) = Len(out)
  BY <1>5, <1>6, <1>7
<1>. QED
  BY <1>4, <1>8 DEF out

\* Above the fork parse keeps all outputs.
LEMMA AboveTheFork ==
  ASSUME intent \in Intents, txn.nonce # None, txn.outputs = Outputs
  PROVE  ToOperations(ParsedOutputs) = OfType("OUTPUT")
<1>1. \A i \in 1..Len(Outputs) :
        Outputs[i] \in {o \in ToSet(Outputs) : ~IsChange(txn, o)}
  BY OutputsAsked DEF IsChange, ToSet
<1>2. ParsedOutputs = Outputs
  BY <1>1, OutputsAsked, SelectionOfAll DEF ParsedOutputs
<1>3. OfType("OUTPUT") \in Seq({op \in ToSet(intent) : op.type = "OUTPUT"})
  BY Asked
<1>4. ToOperations([i \in DOMAIN OfType("OUTPUT") |-> ToOutput[OfType("OUTPUT")[i]]])
        = OfType("OUTPUT")
  BY <1>3, OutputsComeBack
<1>. QED
  BY <1>2, <1>4, OutputsAsked

\* Below the fork it keeps those that are not to the sender.
LEMMA BelowTheFork ==
  ASSUME intent \in Intents, OneSender, OutputsCarried(txn), txn.nonce = None
  PROVE  ToOperations(ParsedOutputs) = OutputsToOthers
<1>. DEFINE A == {op \in ToSet(intent) : op.type = "OUTPUT"}
            s == OfType("OUTPUT")
            S == {op \in ToSet(s) : op.account \notin InputKeys}
            R == {o \in ToSet(txn.outputs) : ~IsChange(txn, o)}
<1>1. s \in Seq(A) /\ InputKeys = {txn.publicKey}
  BY Asked DEF OneSender, OutputsCarried
<1>2. PICK change \in {<<>>, << [publicKey |-> txn.publicKey, amount |-> 1] >>} :
        txn.outputs = Outputs \o change
  BY DEF OutputsCarried
<1>3. /\ Len(Outputs) = Len(s) /\ Len(s) \in Nat
      /\ Len(txn.outputs) \in Nat
      /\ Len(s) =< Len(txn.outputs)
      /\ DOMAIN txn.outputs = 1..Len(txn.outputs)
      /\ \A i \in 1..Len(s) : txn.outputs[i] = Outputs[i]
      /\ \A i \in Len(s) + 1..Len(txn.outputs) :
           txn.outputs[i].publicKey = txn.publicKey
  <2>. HIDE DEF s
  <2>1. Outputs \in Seq(ToSet(Outputs)) /\ Len(Outputs) = Len(s)
    BY OutputsAsked DEF s
  <2>2. CASE change = <<>>
    BY <1>2, <2>1, <2>2
  <2>3. CASE change = << [publicKey |-> txn.publicKey, amount |-> 1] >>
    <3>. DEFINE c == [publicKey |-> txn.publicKey, amount |-> 1]
    <3>1. c.publicKey = txn.publicKey
      OBVIOUS
    <3>. HIDE DEF c
    <3>2. txn.outputs = Outputs \o << c >>
      BY <1>2, <2>3 DEF c
    <3>. QED
      BY <2>1, <3>1, <3>2
  <2>. QED
    BY <1>2, <2>2, <2>3
<1>4. \A i \in 1..Len(s) : /\ s[i] \in ToSet(s) /\ s[i] \in ToSet(intent)
                           /\ txn.outputs[i] = ToOutput[s[i]]
                           /\ txn.outputs[i].publicKey = s[i].account
  <2>1. \A i \in 1..Len(s) : i \in DOMAIN s /\ s[i] \in A
    <3>. HIDE DEF s, A
    <3>. QED
      BY <1>1
  <2>2. \A i \in 1..Len(s) : Outputs[i] = ToOutput[s[i]]
    BY <2>1, OutputsAsked
  <2>. QED
    BY <1>3, <2>1, <2>2 DEF ToOutput, ToSet
<1>5. \A i \in 1..Len(s) : s[i] \in S <=> txn.outputs[i] \in R
  <2>. TAKE i \in 1..Len(s)
  <2>1. i \in DOMAIN txn.outputs
    BY <1>3
  <2>2. txn.outputs[i] \in R <=> txn.outputs[i].publicKey # txn.publicKey
    BY <2>1 DEF IsChange, ToSet
  <2>. QED
    BY <1>1, <1>4, <2>2
<1>6. \A i \in Len(s) + 1..Len(txn.outputs) : txn.outputs[i] \notin R
  BY <1>3 DEF IsChange
<1>7. /\ Selection(s, S) \in Seq(A)
      /\ Selection(txn.outputs, R) = [i \in DOMAIN Selection(s, S) |->
                                        ToOutput[Selection(s, S)[i]]]
  <2>. DEFINE u == txn.outputs
              F == ToOutput
  <2>. HIDE DEF s, S, R, A
  <2>1. TakesAs(s, u, S, R, A, F)
    BY <1>1, <1>3, <1>4, <1>5, <1>6 DEF TakesAs
  <2>. HIDE DEF u, F
  <2>4. /\ Selection(s, S) \in Seq(A)
        /\ Selection(u, R) = [i \in DOMAIN Selection(s, S) |->
                                F[Selection(s, S)[i]]]
    BY <2>1, SelectionOfMap
  <2>. QED
    BY <2>4 DEF u, F
<1>8. ToOperations(ParsedOutputs) = Selection(s, S)
  <2>1. \E q : q = Selection(s, S)
    OBVIOUS
  <2>2. PICK q : q = Selection(s, S)
    BY <2>1
  <2>3. q \in Seq({op \in ToSet(intent) : op.type = "OUTPUT"})
        /\ ParsedOutputs = [i \in DOMAIN q |-> ToOutput[q[i]]]
    BY <1>7, <2>2 DEF ParsedOutputs
  <2>. QED
    BY <2>2, <2>3, OutputsComeBack
<1>. QED
  BY <1>8 DEF OutputsToOthers

LEMMA ParsedAsAsked == IInv => ParseReturnsIntent
<1>. SUFFICES ASSUME IInv, stage \in Built \ {"metadata"}
              PROVE  Parse(txn) = OfType("INPUT") \o
                       (IF txn.nonce # None THEN OfType("OUTPUT") ELSE OutputsToOthers)
  BY DEF ParseReturnsIntent
<1>1. /\ OneSender /\ OutputsCarried(txn) /\ txn.inputAmounts = InputAmounts
      /\ intent \in Intents
  BY DEF IInv, Carried, Built, TypeOK
<1>2. Parse(txn) = OfType("INPUT") \o ToOperations(ParsedOutputs)
  BY <1>1, InputsComeBack DEF Parse, ToOperations, ParsedOutputs, OutputsCarried
<1>3. ToOperations(ParsedOutputs)
        = IF txn.nonce # None THEN OfType("OUTPUT") ELSE OutputsToOthers
  BY <1>1, AboveTheFork, BelowTheFork DEF OutputsCarried
<1>. QED
  BY <1>2, <1>3

\* Parsing the unsigned and the signed transaction returns the operations the
\* caller asked for, whatever they are and whatever the chain does meanwhile;
\* below the fork without the outputs to the sender
\* (services/construction_service.go:318-351 and 457-501).
THEOREM ParsesReturnIntent == Spec => []ParseReturnsIntent
  BY ParsedAsAsked, Invariant, PTL

\* A transaction that metadata made is rejected only if the parameters changed
\* since, the fork was crossed or blocks came that passed a nonce which was alive
\* when it was made; or if the caller gave the tip itself as the nonce's height,
\* which metadata takes against services/types.go:24
\* (services/construction_service.go:157-280 and 517-545).
THEOREM RejectionsExplained == Spec => []RejectedOnlyIfTheChainMoved
<1>1. IInv => RejectedOnlyIfTheChainMoved
  BY DEF IInv
<1>. QED
  BY <1>1, Invariant, PTL
=============================================================================

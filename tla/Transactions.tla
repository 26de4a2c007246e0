------------------------------ MODULE Transactions ------------------------------
(***************************************************************************)
(* A single transaction: the shape in which the indexer returns it and     *)
(* which the subscriber works with, the shape in which a block of algod    *)
(* holds it, and the conversion of the second to the first.                *)
(*                                                                         *)
(* A block leaves out what is zero, empty or false, and keeps the effects  *)
(* of a transaction apart from it as its apply data.  A field that may be  *)
(* missing there is a sequence of at most one value.  An address that is   *)
(* missing is None; a number of an asset or app that is missing is 0, as   *)
(* the code takes None and 0 for the same, but for the asset that is       *)
(* configured, where the indexer has 0 for a new one and None is NoId.     *)
(*                                                                         *)
(* `body` has the fields of the type of the transaction:                   *)
(*   pay    [receiver, amount, closeTo, closeAmount]                       *)
(*   axfer  [asset, amount, receiver, closeTo, closeAmount, from]          *)
(*   acfg   [asset, params], params a sequence of at most one              *)
(*          [total, manager]                                               *)
(*   afrz   [asset, target, frozen]                                        *)
(*   appl   [app, onComplete, args, accounts, boxes, access], a box as     *)
(*          [app, name], an entry of the access list as [account, box]     *)
(*   keyreg [nonParticipation]                                             *)
(*   stpf   [type, reveals], reveals as [position, weight]                 *)
(*   hb     [address]                                                      *)
(***************************************************************************)
EXTENDS Integers, Sequences, SequencesExt

CONSTANT Texts      \* the strings that stand for addresses, keys, names, notes and hashes

None == "none"
NoId == -1
ZeroAddress == "zero"

ASSUME TextsAssumption == {None, ZeroAddress, "", "payout", "empty"} \subseteq Texts

Given(optional) == optional # <<>>
OrElse(optional, default) == IF Given(optional) THEN optional[1] ELSE default
Omit(value, zero) == IF value = zero THEN <<>> ELSE <<value>>

\* The lists of a sequence, one after the other.  TLC evaluates them once: the
\* concatenation gives it the lists where it had the expressions for them.
Joined(seqs) == FlattenSeq(<<>> \o seqs)

\* The members of a sequence at some of its places, in their order: what a loop
\* with a condition collects.
Selected(seq, places) ==
    Joined([i \in DOMAIN seq |-> IF i \in places THEN <<seq[i]>> ELSE <<>>])

-------------------------------------------------------------------------------
(* What the filters look at. *)

TxnReceiver(t) == IF t.type \in {"pay", "axfer"} THEN t.body.receiver ELSE None

\* The app that a call creates has its id from the apply data only.
TxnAppId(t) ==
    IF t.type # "appl" THEN NoId
    ELSE IF t.createdApp # 0 THEN t.createdApp ELSE t.body.app

TxnAssetId(t) ==
    IF t.createdAsset # 0 THEN t.createdAsset
    ELSE IF t.type \in {"axfer", "acfg", "afrz"} THEN t.body.asset ELSE NoId

TxnAmount(t) == IF t.type \in {"axfer", "pay"} THEN t.body.amount ELSE 0

TxnOnComplete(t) == IF t.type = "appl" THEN t.body.onComplete ELSE None

\* No arguments and no call are the same to the predicate on arguments.
TxnAppArgs(t) == IF t.type = "appl" THEN t.body.args ELSE <<>>

TxnMethodSelector(t) == IF TxnAppArgs(t) # <<>> THEN TxnAppArgs(t)[1] ELSE None

-------------------------------------------------------------------------------
(* What a chain can hold. *)

Optional(S) == {s \in Seq(S) : Len(s) <= 1}

Boxes == [app : Nat, name : Texts]

TxnTypes == {"pay", "axfer", "acfg", "afrz", "appl", "keyreg", "stpf", "hb"}

Body(type) ==
    CASE type = "pay" -> [receiver : Texts, amount : Nat, closeTo : Texts, closeAmount : Nat]
      [] type = "axfer" -> [asset : Nat, amount : Nat, receiver : Texts, closeTo : Texts,
                            closeAmount : Nat, from : Texts]
      [] type = "acfg" -> [asset : Nat, params : Optional([total : Nat, manager : Texts])]
      [] type = "afrz" -> [asset : Nat, target : Texts, frozen : BOOLEAN]
      [] type = "appl" -> [app : Nat, onComplete : Texts, args : Seq(Texts),
                           accounts : Seq(Texts), boxes : Seq(Boxes),
                           access : Seq([account : Texts, box : Optional(Boxes)])]
      [] type = "keyreg" -> [nonParticipation : BOOLEAN]
      [] type = "stpf" -> [type : Nat, reveals : Optional(Seq([position : Nat, weight : Nat]))]
      [] type = "hb" -> [address : Texts]

\* A box of the app itself, or a reference without name, is one of app 0.
IsBox(app, box) == box.app # 0 => box.app # app /\ box.name # None

\* What a call creates it does not name, and what is there is not empty; a
\* payment or transfer is to some account, and the configuration of no asset
\* creates one.
IsBody(t) ==
    /\ t.body \in Body(t.type)
    /\ t.type \in {"pay", "axfer"} => t.body.receiver # None
    /\ t.type = "acfg" =>
          /\ t.createdAsset # 0 <=> t.body.asset = 0
          /\ \A p \in Range(t.body.params) : p.total # 0 \/ p.manager # None
    /\ t.type = "appl" =>
          /\ t.createdApp # 0 => t.body.app = 0
          /\ \A box \in Range(t.body.boxes) : IsBox(TxnAppId(t), box)
          /\ \A entry \in Range(t.body.access) :
                \A box \in Range(entry.box) : IsBox(TxnAppId(t), box)
    /\ t.type = "stpf" => \A reveals \in Range(t.body.reveals) : reveals # <<>>

\* A root has a genesis hash, and the genesis id or not; only an app call changes
\* local state, and only the configuration of an asset creates one.
IsTransaction(t) ==
    /\ t \in [type : TxnTypes, sender : Texts, fee : Nat, note : Seq(Texts),
              genesis : {<<>>, <<"id", "hash">>, <<None, "hash">>}, sig : Texts,
              createdAsset : Nat, createdApp : Nat, logs : Seq([prefix : Texts, decodable : BOOLEAN]),
              globals : Seq([key : Texts, uint : Nat]), locals : Seq(Texts), body : {t.body}]
    /\ t.sender # None
    /\ IsBody(t)
    /\ t.type # "appl" => t.locals = <<>>
    /\ t.type # "acfg" => t.createdAsset = 0

\* Of the transactions in a block only a state proof has no signature that can
\* be missing.
IsSigned(t) == t.type = "stpf" <=> t.sig = "empty"

-------------------------------------------------------------------------------
(* The transaction in a block. *)

\* The accounts that the deltas of local state count from 0: those named by the
\* call, then those that are available to it through its group.
SharedAccounts(t) ==
    Selected(t.locals, {i \in DOMAIN t.locals :
        t.locals[i] # t.sender /\ ~Contains(t.body.accounts, t.locals[i])})

AccountReferences(sender, accounts, shared) == <<sender>> \o accounts \o shared

\* The box of app 0 is one of the app itself.
EncodedBox(app, box) == IF box.app = 0 THEN [box EXCEPT !.app = app] ELSE box

EncodedAccess(app, entry) ==
    [entry EXCEPT !.box = [k \in DOMAIN @ |-> EncodedBox(app, @[k])]]

EncodedKeyreg(body) == [nonParticipation |-> Omit(body.nonParticipation, FALSE)]

EncodedReveal(reveal) == [reveal EXCEPT !.weight = Omit(@, 0)]

EncodedBody(t) ==
    CASE t.type = "pay" ->
           [receiver |-> t.body.receiver, amount |-> t.body.amount, closeTo |-> t.body.closeTo]
      [] t.type = "axfer" ->
           [asset |-> t.body.asset, receiver |-> t.body.receiver, amount |-> t.body.amount,
            closeTo |-> t.body.closeTo, from |-> t.body.from]
      [] t.type = "acfg" ->
           [asset |-> Omit(t.body.asset, 0),
            total |-> IF Given(t.body.params) THEN Omit(t.body.params[1].total, 0) ELSE <<>>,
            manager |-> IF Given(t.body.params) THEN t.body.params[1].manager ELSE None]
      [] t.type = "appl" ->
           [t.body EXCEPT
               !.boxes = [i \in DOMAIN @ |-> EncodedBox(TxnAppId(t), @[i])],
               !.access = [i \in DOMAIN @ |-> EncodedAccess(TxnAppId(t), @[i])]]
      [] t.type = "keyreg" -> EncodedKeyreg(t.body)
      [] t.type = "stpf" ->
           [type |-> Omit(t.body.type, 0),
            reveals |-> IF Given(t.body.reveals)
                        THEN [i \in DOMAIN t.body.reveals[1] |-> EncodedReveal(t.body.reveals[1][i])]
                        ELSE <<>>]
      [] t.type = "hb" -> [address |-> Omit(t.body.address, ZeroAddress)]
      [] OTHER -> t.body

ApplyData(t) ==
    [closing |-> IF t.type = "pay" THEN Omit(t.body.closeAmount, 0) ELSE <<>>,
     assetClosing |-> IF t.type = "axfer" THEN Omit(t.body.closeAmount, 0) ELSE <<>>,
     configAsset |-> Omit(t.createdAsset, 0),
     applicationId |-> Omit(t.createdApp, 0),
     logs |-> t.logs,
     globals |-> [i \in DOMAIN t.globals |-> [t.globals[i] EXCEPT !.uint = Omit(@, 0)]],
     shared |-> IF t.type = "appl" THEN SharedAccounts(t) ELSE <<>>,
     locals |-> IF t.type # "appl" THEN <<>>
                ELSE LET refs == AccountReferences(t.sender, t.body.accounts, SharedAccounts(t))
                     IN  [i \in DOMAIN t.locals |->
                             (CHOOSE k \in DOMAIN refs : refs[k] = t.locals[i]) - 1]]

\* The block's header has the genesis id and hash of its transactions; an inner
\* transaction has none.
Encoded(t) ==
    [type |-> t.type, sender |-> t.sender, fee |-> Omit(t.fee, 0), note |-> t.note,
     genesis |-> <<>>, hasGenesisId |-> t.genesis # <<>> /\ t.genesis[1] # None,
     sig |-> IF t.sig = "empty" THEN None ELSE t.sig,
     body |-> EncodedBody(t), applied |-> ApplyData(t)]

-------------------------------------------------------------------------------
(* The conversion. *)

\* _get_normalized_txn, for the transactions of the block but not for their
\* inner ones.  A block that requires genesis hashes sends no has_genesis_hash.
Normalized(raw) ==
    [raw EXCEPT !.genesis = <<IF raw.hasGenesisId THEN "id" ELSE None, "hash">>]

\* As in the indexer, a state proof has an empty signature instead of none.
ConvertedSignature(raw) ==
    IF raw.sig = None /\ raw.type = "stpf" THEN "empty" ELSE raw.sig

\* A box of the app itself, or a reference without name, is one of app 0.
ConvertedBox(app, ref) ==
    [app |-> IF app = ref.app \/ ref.name = None THEN 0 ELSE ref.app, name |-> ref.name]

\* A change of a state to 0 says no number in the block.
ConvertedDelta(delta) == [delta EXCEPT !.uint = OrElse(@, 0)]

ConvertedGlobals(raw) ==
    [i \in DOMAIN raw.applied.globals |-> ConvertedDelta(raw.applied.globals[i])]

ConvertedLocals(raw) ==
    IF raw.type # "appl" THEN <<>>
    ELSE LET refs == AccountReferences(raw.sender, raw.body.accounts, raw.applied.shared)
         IN  [i \in DOMAIN raw.applied.locals |-> refs[raw.applied.locals[i] + 1]]

ConvertedPay(raw) ==
    [receiver |-> raw.body.receiver, amount |-> raw.body.amount, closeTo |-> raw.body.closeTo,
     closeAmount |-> OrElse(raw.applied.closing, 0)]

ConvertedTransfer(raw) ==
    [asset |-> raw.body.asset, receiver |-> raw.body.receiver, amount |-> raw.body.amount,
     closeTo |-> raw.body.closeTo, closeAmount |-> OrElse(raw.applied.assetClosing, 0),
     from |-> raw.body.from]

\* The parameters are there when any of them is; the id of a created asset is 0.
ConvertedConfig(raw) ==
    [asset |-> IF Given(raw.applied.configAsset) THEN 0 ELSE OrElse(raw.body.asset, NoId),
     params |-> IF Given(raw.body.total) \/ raw.body.manager # None
                THEN <<[total |-> OrElse(raw.body.total, 0), manager |-> raw.body.manager]>>
                ELSE <<>>]

\* An entry of the access list may be a box of the app as well.
ConvertedAccess(app, ref) ==
    [ref EXCEPT !.box = [k \in DOMAIN @ |-> ConvertedBox(app, @[k])]]

ConvertedCall(raw) ==
    LET app == IF raw.body.app = 0 THEN OrElse(raw.applied.applicationId, 0) ELSE raw.body.app
    IN  [raw.body EXCEPT !.boxes = [i \in DOMAIN @ |-> ConvertedBox(app, @[i])],
                         !.access = [i \in DOMAIN @ |-> ConvertedAccess(app, @[i])]]

ConvertedFreeze(raw) == raw.body

ConvertedKeyreg(raw) == [nonParticipation |-> OrElse(raw.body.nonParticipation, FALSE)]

ConvertedHeartbeat(raw) == [address |-> OrElse(raw.body.address, ZeroAddress)]

ConvertedReveal(reveal) == [reveal EXCEPT !.weight = OrElse(@, 0)]

\* No reveals at all are None instead of an empty list.
ConvertedReveals(raw) ==
    Omit([i \in DOMAIN raw.body.reveals |-> ConvertedReveal(raw.body.reveals[i])], <<>>)

ConvertedProof(raw) ==
    [type |-> OrElse(raw.body.type, 0), reveals |-> ConvertedReveals(raw)]

ConvertedBody(raw) ==
    CASE raw.type = "pay" -> ConvertedPay(raw)
      [] raw.type = "axfer" -> ConvertedTransfer(raw)
      [] raw.type = "acfg" -> ConvertedConfig(raw)
      [] raw.type = "afrz" -> ConvertedFreeze(raw)
      [] raw.type = "appl" -> ConvertedCall(raw)
      [] raw.type = "keyreg" -> ConvertedKeyreg(raw)
      [] raw.type = "stpf" -> ConvertedProof(raw)
      [] raw.type = "hb" -> ConvertedHeartbeat(raw)

\* _get_indexer_transaction_from_algod_transaction, for what a transaction has
\* of its own; the inner transactions and the numbers are in TxnTree.
Converted(raw) ==
    [type |-> raw.type, sender |-> raw.sender, fee |-> OrElse(raw.fee, 0), note |-> raw.note,
     genesis |-> raw.genesis, sig |-> ConvertedSignature(raw),
     createdAsset |-> OrElse(raw.applied.configAsset, 0),
     createdApp |-> OrElse(raw.applied.applicationId, 0),
     logs |-> raw.applied.logs, globals |-> ConvertedGlobals(raw),
     locals |-> ConvertedLocals(raw), body |-> ConvertedBody(raw)]

FeeSink(header) == IF header.feeSink = None THEN ZeroAddress ELSE header.feeSink

\* The payout to the proposer of a block is a payment of the fee sink that the
\* block does not hold; both sources make one up, with an empty signature.
Payout(header) ==
    LET raw == [type |-> "pay", sender |-> FeeSink(header), fee |-> <<>>,
                note |-> <<"payout">>, genesis |-> <<"id", "hash">>, hasGenesisId |-> FALSE,
                sig |-> None,
                body |-> [receiver |-> header.proposer, amount |-> header.payout, closeTo |-> None],
                applied |-> [closing |-> <<>>, assetClosing |-> <<>>, configAsset |-> <<>>,
                             applicationId |-> <<>>, logs |-> <<>>, globals |-> <<>>,
                             shared |-> <<>>, locals |-> <<>>]]
    IN  [Converted(raw) EXCEPT !.sig = "empty"]
===============================================================================

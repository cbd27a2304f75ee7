------------------------------- MODULE Codec -------------------------------
(***************************************************************************)
(* The protobuf conversions of the remote ExEx (remote/src/codec.rs).      *)
(*                                                                         *)
(* Data is abstract: the content of a byte string is one opaque value, and *)
(* what the conversions test is its length.  A record of the node and its  *)
(* protobuf message have the same field names, as in the code; a field the *)
(* message has no place for is missing in it.  A map of the code is the    *)
(* set of its entries (the order of the list it is sent as is arbitrary).  *)
(* Encoding cannot fail on values of the node; decoding gives Err, and one *)
(* Err inside a message is the result of the whole (the `?` operator).     *)
(* Next to each conversion is the type of the node's values it is for.     *)
(***************************************************************************)
EXTENDS Integers, SequencesExt

CONSTANTS
  Values, \* contents of fields that the conversions do not look into
  None,   \* Option::None
  Err     \* a conversion failed

Opt(S) == S \cup {None}

-----------------------------------------------------------------------------
(***************************************************************************)
(* External: byte strings and the conversions of alloy and ruint.          *)
(***************************************************************************)

\* to_vec, to_le_bytes: a value of a type of w bytes.
Bytes(w, v) == [len |-> w, val |-> v]

\* Address::try_from(slice), uN::from_le_bytes(slice.try_into()?) ...
Fixed(w, b) == IF b.len = w THEN b.val ELSE Err

\* U256::try_from_le_slice.
LeSlice(b) == IF b.len <= 32 THEN b.val ELSE Err

\* .map(Op) and .map(Op).transpose()? on an Option, .ok_or_eyre(..)? before Op.
OptMap(Op(_), v) == IF v = None THEN None ELSE Op(v)
Require(Op(_), v) == IF v = None THEN Err ELSE Op(v)

\* .iter().map(Op).collect() of a list and of a map.
Each(Op(_), s) == [i \in DOMAIN s |-> Op(s[i])]
EachEntry(Op(_), S) == {Op(x) : x \in S}

\* The fields of a message, or Err when one of them is; the same for a list
\* and for a map.
Try(r) == IF \E f \in DOMAIN r : r[f] = Err THEN Err ELSE r
TryEach(Op(_), s) == Try(Each(Op, s))
TryEachEntry(Op(_), S) == IF Err \in EachEntry(Op, S) THEN Err ELSE EachEntry(Op, S)

Hash(v) == Bytes(32, v)
Address(v) == Bytes(20, v)
OptHash(v) == OptMap(Hash, v)
TryHash(b) == Fixed(32, b)
TryAddress(b) == Fixed(20, b)
TryOptHash(b) == OptMap(TryHash, b)

-----------------------------------------------------------------------------
(***************************************************************************)
(* Headers.                                                                *)
(***************************************************************************)
HashFields == {"parent_hash", "ommers_hash", "state_root", "transactions_root",
               "receipts_root", "mix_hash"}
OptHashFields == {"withdrawals_root", "parent_beacon_block_root"}
PlainFields == {"number", "gas_limit", "gas_used", "timestamp", "base_fee_per_gas",
                "blob_gas_used", "excess_blob_gas", "extra_data"}

HeaderFields ==
  HashFields \cup OptHashFields \cup PlainFields
    \cup {"beneficiary", "logs_bloom", "difficulty", "nonce"}

\* Which of the plain fields are optional makes no difference.
HeaderType ==
  {h \in [HeaderFields \cup {"requests_hash"} -> Opt(Values)] :
     \A f \in HashFields \cup {"beneficiary", "logs_bloom", "difficulty", "nonce"} :
       h[f] \in Values}

EncodeHeaderField(f, v) ==
  CASE f \in HashFields    -> Hash(v)
    [] f \in OptHashFields -> OptHash(v)
    [] f \in PlainFields   -> v
    [] f = "beneficiary"   -> Address(v)
    [] f = "logs_bloom"    -> Bytes(256, v)
    [] f = "difficulty"    -> Bytes(32, v)
    [] f = "nonce"         -> Bytes(8, v)

DecodeHeaderField(f, b) ==
  CASE f \in HashFields    -> TryHash(b)
    [] f \in OptHashFields -> TryOptHash(b)
    [] f \in PlainFields   -> b
    [] f = "beneficiary"   -> TryAddress(b)
    [] f = "logs_bloom"    -> Fixed(256, b)
    [] f = "difficulty"    -> LeSlice(b)
    [] f = "nonce"         -> Fixed(8, b)

EncodeHeader(h) == [f \in HeaderFields |-> EncodeHeaderField(f, h[f])]

\* requests_hash is not sent and comes back as None.
DecodeHeader(p) ==
  Try([f \in HeaderFields \cup {"requests_hash"} |->
         IF f = "requests_hash" THEN None ELSE DecodeHeaderField(f, p[f])])

-----------------------------------------------------------------------------
(***************************************************************************)
(* Transactions: t.kind is the variant, t.tx its fields.                   *)
(***************************************************************************)
OpaqueFields == {"chain_id", "nonce", "input"}
FeeFields == {"gas_price", "max_fee_per_gas", "max_priority_fee_per_gas",
              "max_fee_per_blob_gas"}

\* The variants whose `to` may be a creation; the others hold an address.
WithTxKind == {"Legacy", "Eip2930", "Eip1559"}

TxKindType == [kind : {"Create"}] \cup [kind : {"Call"}, address : Values]

EncodeTxKind(k) ==
  IF k.kind = "Create" THEN k ELSE [kind |-> "Call", address |-> Address(k.address)]

DecodeTxKind(p) ==
  IF p.kind = "Create" THEN p
  ELSE Try([kind |-> "Call", address |-> TryAddress(p.address)])

AccessListItemType == [address : Values, storage_keys : Seq(Values)]

EncodeAccessListItem(item) ==
  [address |-> Address(item.address), storage_keys |-> Each(Hash, item.storage_keys)]

DecodeAccessListItem(p) ==
  Try([address |-> TryAddress(p.address), storage_keys |-> TryEach(TryHash, p.storage_keys)])

AuthorizationType ==
  [chain_id : Values, address : Values, nonce : Values, r : Values, s : Values,
   y_parity : 0 .. 255]

EncodeAuthorization(a) ==
  [authorization |-> [chain_id |-> Bytes(32, a.chain_id), address |-> Address(a.address),
                      nonce |-> a.nonce],
   signature |-> [r |-> Bytes(32, a.r), s |-> Bytes(32, a.s), y_parity |-> a.y_parity]]

\* y_parity is a u8 in the node, a u32 in the message and is cut back to a u8.
AuthorizationOf(sig, auth) ==
  Try([chain_id |-> Fixed(32, auth.chain_id), address |-> TryAddress(auth.address),
       nonce |-> auth.nonce, r |-> LeSlice(sig.r), s |-> LeSlice(sig.s),
       y_parity |-> sig.y_parity % 256])

DecodeAuthorization(p) ==
  Require(LAMBDA sig : Require(LAMBDA auth : AuthorizationOf(sig, auth), p.authorization),
          p.signature)

SignatureType == [r : Values, s : Values, v : BOOLEAN]

EncodeSignature(g) ==
  [r |-> Bytes(32, g.r), s |-> Bytes(32, g.s), y_parity |-> IF g.v THEN 1 ELSE 0]

DecodeSignature(p) ==
  IF p.y_parity > 1 THEN Err
  ELSE Try([r |-> LeSlice(p.r), s |-> LeSlice(p.s), v |-> p.y_parity = 1])

LegacyType ==
  [chain_id : Opt(Values), nonce : Values, gas_limit : Values, value : Values,
   input : Values, gas_price : Values, to : TxKindType]

Eip2930Type ==
  [chain_id : Values, nonce : Values, gas_limit : Values, value : Values, input : Values,
   gas_price : Values, to : TxKindType, access_list : Seq(AccessListItemType)]

Eip1559Type ==
  [chain_id : Values, nonce : Values, gas_limit : Values, value : Values, input : Values,
   max_fee_per_gas : Values, max_priority_fee_per_gas : Values, to : TxKindType,
   access_list : Seq(AccessListItemType)]

Eip4844Type ==
  [chain_id : Values, nonce : Values, gas_limit : Values, value : Values, input : Values,
   max_fee_per_gas : Values, max_priority_fee_per_gas : Values, to : Values,
   access_list : Seq(AccessListItemType), blob_versioned_hashes : Seq(Values),
   max_fee_per_blob_gas : Values]

Eip7702Type ==
  [chain_id : Values, nonce : Values, gas_limit : Values, value : Values, input : Values,
   max_fee_per_gas : Values, max_priority_fee_per_gas : Values, to : Values,
   access_list : Seq(AccessListItemType), authorization_list : Seq(AuthorizationType)]

TransactionType ==
  LET Variant(kind, type) ==
        [hash : Values, kind : {kind}, tx : type, signature : SignatureType]
  IN  Variant("Legacy", LegacyType) \cup Variant("Eip2930", Eip2930Type)
        \cup Variant("Eip1559", Eip1559Type) \cup Variant("Eip4844", Eip4844Type)
        \cup Variant("Eip7702", Eip7702Type)

EncodeTxField(kind, f, v) ==
  CASE f \in OpaqueFields          -> v
    [] f \in FeeFields             -> Bytes(16, v)
    [] f = "access_list"           -> Each(EncodeAccessListItem, v)
    [] f = "blob_versioned_hashes" -> Each(Hash, v)
    [] f = "authorization_list"    -> Each(EncodeAuthorization, v)
    [] f = "gas_limit"             -> Bytes(8, v)
    [] f = "value"                 -> Bytes(32, v)
    [] f = "to"                    -> IF kind \in WithTxKind THEN EncodeTxKind(v) ELSE Address(v)

DecodeTxField(kind, f, b) ==
  CASE f \in OpaqueFields          -> b
    [] f \in FeeFields             -> Fixed(16, b)
    [] f = "access_list"           -> TryEach(DecodeAccessListItem, b)
    [] f = "blob_versioned_hashes" -> TryEach(TryHash, b)
    [] f = "authorization_list"    -> TryEach(DecodeAuthorization, b)
    [] f = "gas_limit"             -> Fixed(8, b)
    [] f = "value"                 -> LeSlice(b)
    [] f = "to"                    -> IF kind \in WithTxKind THEN Require(DecodeTxKind, b)
                                      ELSE TryAddress(b)

EncodeTx(kind, tx) == [f \in DOMAIN tx |-> EncodeTxField(kind, f, tx[f])]
DecodeTx(kind, p) == Try([f \in DOMAIN p |-> DecodeTxField(kind, f, p[f])])

EncodeTransaction(t) ==
  [hash |-> Hash(t.hash), kind |-> t.kind, tx |-> EncodeTx(t.kind, t.tx),
   signature |-> EncodeSignature(t.signature)]

DecodeTransaction(p) ==
  Try([hash |-> TryHash(p.hash), kind |-> p.kind, tx |-> DecodeTx(p.kind, p.tx),
       signature |-> Require(DecodeSignature, p.signature)])

-----------------------------------------------------------------------------
(***************************************************************************)
(* The bundle: accounts, contracts and reverts.                            *)
(***************************************************************************)
AccountStatus ==
  <<"LoadedNotExisting", "Loaded", "LoadedEmptyEIP161", "InMemoryChange", "Changed",
    "Destroyed", "DestroyedChanged", "DestroyedAgain">>

\* `as i32` and try_from(i32).
EncodeStatus(s) == (CHOOSE i \in DOMAIN AccountStatus : AccountStatus[i] = s) - 1

\* Mutant of DecodeStatus: one arm of the match names the wrong status.
DecodeStatusConfused(n) ==
  IF n = 7 THEN "DestroyedChanged" ELSE AccountStatus[n + 1]

DecodeStatus(n) == IF n + 1 \in DOMAIN AccountStatus THEN AccountStatus[n + 1] ELSE Err

\* What the decoder makes of a bytecode other than a delegation is opaque.
BytecodeType ==
  [kind : {"LegacyAnalyzed"}, bytecode : Values, original_len : Values,
   jump_table : Values, jump_table_len : Values]
    \cup [kind : {"Eip7702"}, address : Values]

\* The raw bytes of a delegation are made of its address, and so is the
\* bytecode that the decoder builds: it ignores raw and version.
EncodeBytecode(b) ==
  IF b.kind = "Eip7702"
  THEN [kind |-> "Eip7702", delegated_address |-> Address(b.address),
        raw |-> Bytes(23, b.address), version |-> 0]
  ELSE b

DecodeBytecode(p) ==
  IF p.kind = "Eip7702"
  THEN Try([kind |-> "Eip7702", address |-> TryAddress(p.delegated_address)])
  ELSE p

AccountInfoType ==
  [account_id : Opt(Values), balance : Values, nonce : Values, code_hash : Values,
   code : Opt(BytecodeType)]

EncodeAccountInfo(a) ==
  [balance |-> Bytes(32, a.balance), nonce |-> a.nonce, code_hash |-> Hash(a.code_hash),
   code |-> OptMap(EncodeBytecode, a.code)]

\* account_id is not sent and comes back as None.
DecodeAccountInfo(p) ==
  Try([account_id |-> None, balance |-> LeSlice(p.balance), nonce |-> p.nonce,
       code_hash |-> TryHash(p.code_hash), code |-> OptMap(DecodeBytecode, p.code)])

SlotFields == {"key", "previous_or_original_value", "present_value"}

BundleAccountType ==
  [address : Values, info : Opt(AccountInfoType), original_info : Opt(AccountInfoType),
   storage : SUBSET [SlotFields -> Values], status : ToSet(AccountStatus)]

EncodeSlot(s) == [f \in SlotFields |-> Bytes(32, s[f])]
DecodeSlot(p) == Try([f \in SlotFields |-> LeSlice(p[f])])

EncodeBundleAccount(a) ==
  [address |-> Address(a.address), info |-> OptMap(EncodeAccountInfo, a.info),
   original_info |-> OptMap(EncodeAccountInfo, a.original_info),
   storage |-> EachEntry(EncodeSlot, a.storage), status |-> EncodeStatus(a.status)]

DecodeBundleAccount(p) ==
  Try([address |-> TryAddress(p.address), info |-> OptMap(DecodeAccountInfo, p.info),
       original_info |-> OptMap(DecodeAccountInfo, p.original_info),
       storage |-> TryEachEntry(DecodeSlot, p.storage), status |-> DecodeStatus(p.status)])

\* The value is there for Some, the account for RevertTo; the types are wider.
RevertToSlotType == [key : Values, kind : {"Some", "Destroyed"}, value : Opt(Values)]

EncodeRevertToSlot(s) ==
  [key |-> Bytes(32, s.key), kind |-> s.kind, value |-> OptMap(LAMBDA v : Bytes(32, v), s.value)]

DecodeRevertToSlot(p) ==
  Try([key |-> LeSlice(p.key), kind |-> p.kind, value |-> OptMap(LeSlice, p.value)])

AccountRevertType ==
  [kind : {"DoNothing", "DeleteIt", "RevertTo"}, info : Opt(AccountInfoType)]

EncodeAccountRevert(a) == [kind |-> a.kind, info |-> OptMap(EncodeAccountInfo, a.info)]
DecodeAccountRevert(p) == Try([kind |-> p.kind, info |-> OptMap(DecodeAccountInfo, p.info)])

RevertType ==
  [address : Values, account : AccountRevertType, storage : Seq(RevertToSlotType),
   previous_status : ToSet(AccountStatus), wipe_storage : BOOLEAN]

EncodeRevert(r) ==
  [address |-> Address(r.address), account |-> EncodeAccountRevert(r.account),
   storage |-> Each(EncodeRevertToSlot, r.storage),
   previous_status |-> EncodeStatus(r.previous_status), wipe_storage |-> r.wipe_storage]

DecodeRevert(p) ==
  Try([address |-> TryAddress(p.address), account |-> Require(DecodeAccountRevert, p.account),
       storage |-> TryEach(DecodeRevertToSlot, p.storage),
       previous_status |-> DecodeStatus(p.previous_status),
       wipe_storage |-> p.wipe_storage])

-----------------------------------------------------------------------------
(***************************************************************************)
(* Receipts.                                                               *)
(***************************************************************************)
TxType == <<"Legacy", "Eip2930", "Eip1559", "Eip4844", "Eip7702">>

LogType == [address : Values, topics : Seq(Values), data : Values]

EncodeLog(l) ==
  [address |-> Address(l.address), data |-> [topics |-> Each(Hash, l.topics), data |-> l.data]]

LogOf(l, d) ==
  Try([address |-> TryAddress(l.address), topics |-> TryEach(TryHash, d.topics),
       data |-> d.data])

DecodeLog(p) == Require(LAMBDA d : LogOf(p, d), p.data)

EncodeTxType(t) == (CHOOSE i \in DOMAIN TxType : TxType[i] = t) - 1
DecodeTxType(n) == IF n + 1 \in DOMAIN TxType THEN TxType[n + 1] ELSE Err

ReceiptType ==
  [tx_type : ToSet(TxType), success : BOOLEAN, cumulative_gas_used : Values,
   logs : Seq(LogType)]

EncodeReceipt(r) ==
  [kind |-> "NonEmpty",
   receipt |-> [tx_type |-> EncodeTxType(r.tx_type), success |-> r.success,
                cumulative_gas_used |-> r.cumulative_gas_used,
                logs |-> Each(EncodeLog, r.logs)]]

DecodeReceipt(p) ==
  LET r == p.receipt
  IN  IF p.kind = "Empty" THEN Err
      ELSE Try([tx_type |-> DecodeTxType(r.tx_type), success |-> r.success,
                cumulative_gas_used |-> r.cumulative_gas_used,
                logs |-> TryEach(DecodeLog, r.logs)])

-----------------------------------------------------------------------------
(***************************************************************************)
(* Blocks, chains and notifications.                                       *)
(***************************************************************************)
BlockType ==
  [hash : Values, header : HeaderType, transactions : Seq(TransactionType),
   ommers : Seq(HeaderType), withdrawals : Opt(Values), senders : Seq(Values)]

EncodeBlock(b) ==
  [header |-> [hash |-> Hash(b.hash), header |-> EncodeHeader(b.header)],
   body |-> Each(EncodeTransaction, b.transactions), ommers |-> Each(EncodeHeader, b.ommers),
   senders |-> Each(Address, b.senders)]

\* The withdrawals of the body are not sent and come back as None; the hash
\* is taken from the message, not computed from the header.
BlockOf(sealed, p) ==
  Try([hash |-> TryHash(sealed.hash), header |-> Require(DecodeHeader, sealed.header),
       transactions |-> TryEach(DecodeTransaction, p.body),
       ommers |-> TryEach(DecodeHeader, p.ommers), withdrawals |-> None,
       senders |-> TryEach(TryAddress, p.senders)])

DecodeBlock(p) == Require(LAMBDA sealed : BlockOf(sealed, p), p.header)

ContractType == [hash : Values, bytecode : BytecodeType]

EncodeContract(e) == [hash |-> Hash(e.hash), bytecode |-> EncodeBytecode(e.bytecode)]
DecodeContract(p) ==
  Try([hash |-> TryHash(p.hash), bytecode |-> Require(DecodeBytecode, p.bytecode)])

BundleType ==
  [state : SUBSET BundleAccountType, contracts : SUBSET ContractType,
   reverts : Seq(Seq(RevertType)), state_size : Values, reverts_size : Values]

EncodeReverts(rs) == Each(EncodeRevert, rs)
DecodeReverts(ps) == TryEach(DecodeRevert, ps)

EncodeBundle(b) ==
  [state |-> EachEntry(EncodeBundleAccount, b.state),
   contracts |-> EachEntry(EncodeContract, b.contracts),
   reverts |-> Each(EncodeReverts, b.reverts),
   state_size |-> b.state_size, reverts_size |-> b.reverts_size]

DecodeBundle(p) ==
  Try([state |-> TryEachEntry(DecodeBundleAccount, p.state),
       contracts |-> TryEachEntry(DecodeContract, p.contracts),
       reverts |-> TryEach(DecodeReverts, p.reverts),
       state_size |-> p.state_size, reverts_size |-> p.reverts_size])

OutcomeType ==
  [bundle : BundleType, receipts : Seq(Seq(ReceiptType)), first_block : Values,
   requests : Seq(Values)]

EncodeReceipts(rs) == Each(EncodeReceipt, rs)
DecodeReceipts(ps) == TryEach(DecodeReceipt, ps)

EncodeOutcome(o) ==
  [bundle |-> EncodeBundle(o.bundle), receipts |-> Each(EncodeReceipts, o.receipts),
   first_block |-> o.first_block]

\* The requests of the outcome are not sent.
DecodeOutcome(p) ==
  Try([bundle |-> Require(DecodeBundle, p.bundle),
       receipts |-> TryEach(DecodeReceipts, p.receipts),
       first_block |-> p.first_block, requests |-> <<>>])

ChainType == [blocks : Seq(BlockType), execution_outcome : OutcomeType, trie : Seq(Values)]

EncodeChain(c) ==
  [blocks |-> Each(EncodeBlock, c.blocks),
   execution_outcome |-> EncodeOutcome(c.execution_outcome)]

\* The trie data of the chain are not sent.
DecodeChain(p) ==
  Try([blocks |-> TryEach(DecodeBlock, p.blocks),
       execution_outcome |-> Require(DecodeOutcome, p.execution_outcome), trie |-> <<>>])

NotificationType ==
  [kind : {"ChainCommitted"}, old : {None}, new : ChainType]
    \cup [kind : {"ChainReorged"}, old : ChainType, new : ChainType]
    \cup [kind : {"ChainReverted"}, old : ChainType, new : {None}]

\* A notification has the chains its kind names; the others are None.
EncodeNotification(n) ==
  [kind |-> n.kind, old |-> OptMap(EncodeChain, n.old), new |-> OptMap(EncodeChain, n.new)]

DecodeNotification(p) ==
  Try([kind |-> p.kind,
       old |-> IF p.kind = "ChainCommitted" THEN None ELSE Require(DecodeChain, p.old),
       new |-> IF p.kind = "ChainReverted" THEN None ELSE Require(DecodeChain, p.new)])

-----------------------------------------------------------------------------
(***************************************************************************)
(* What a notification is expected to be after the wire: the fields the    *)
(* messages have a place for, and defaults for the others.                 *)
(***************************************************************************)
KeptHeader(h) == [h EXCEPT !["requests_hash"] = None]

KeptInfo(a) == OptMap(LAMBDA i : [i EXCEPT !.account_id = None], a)

KeptAccount(a) == [a EXCEPT !.info = KeptInfo(@), !.original_info = KeptInfo(@)]

KeptBlock(b) ==
  [b EXCEPT !.header = KeptHeader(@), !.ommers = Each(KeptHeader, @), !.withdrawals = None]

KeptAccountRevert(a) == [a EXCEPT !.info = KeptInfo(@)]

KeptRevert(r) == [r EXCEPT !.account = KeptAccountRevert(@)]

KeptReverts(rs) == Each(KeptRevert, rs)

KeptBundle(b) ==
  [b EXCEPT !.state = EachEntry(KeptAccount, @), !.reverts = Each(KeptReverts, @)]

KeptOutcome(o) == [o EXCEPT !.bundle = KeptBundle(@), !.requests = <<>>]

KeptChain(c) ==
  [c EXCEPT !.blocks = Each(KeptBlock, @), !.trie = <<>>,
            !.execution_outcome = KeptOutcome(@)]

Kept(n) == [n EXCEPT !.old = OptMap(KeptChain, @), !.new = OptMap(KeptChain, @)]

-----------------------------------------------------------------------------
\* External: the names of the enums' variants.
Variants ==
  ToSet(AccountStatus) \cup ToSet(TxType)
    \cup {"Create", "Call", "LegacyAnalyzed", "Some", "DoNothing", "DeleteIt", "RevertTo",
          "ChainCommitted", "ChainReorged", "ChainReverted"}

\* None and Err are no values of fields.
ASSUME CodecConstants ==
  /\ None \notin Values
  /\ Err \notin Opt(Values) \cup Variants \cup BOOLEAN \cup Nat
=============================================================================

------------------------------ MODULE MCRemote ------------------------------
(***************************************************************************)
(* Remote for TLC: one reader, one consumer that may stop reading, and     *)
(* notifications that between them hold every variant the codec knows.     *)
(* The content of a field is its name, so that no two fields are alike.    *)
(***************************************************************************)
EXTENDS Remote, TLC

CONSTANTS c1, c2

\* What Values stands for.
Contents == STRING

Symbolic(fields) == [f \in fields |-> f]

Header ==
  Symbolic(HashFields \cup OptHashFields \cup PlainFields
             \cup {"beneficiary", "logs_bloom", "difficulty", "nonce", "requests_hash"})

\* A header from before the forks that added the optional fields.
OldHeader ==
  [Header EXCEPT !.withdrawals_root = None, !.parent_beacon_block_root = None,
                 !.base_fee_per_gas = None, !.blob_gas_used = None,
                 !.excess_blob_gas = None, !.requests_hash = None]

Create == [kind |-> "Create"]
Call == [kind |-> "Call", address |-> "callee"]
AccessList == <<[address |-> "touched", storage_keys |-> <<"k1", "k2">>]>>
Authorizations ==
  <<Symbolic({"chain_id", "address", "nonce", "r", "s"}) @@ [y_parity |-> 1],
    Symbolic({"chain_id", "address", "nonce", "r", "s"}) @@ [y_parity |-> 27]>>

Common == Symbolic({"chain_id", "nonce", "gas_limit", "value", "input"})
Fees == Symbolic({"max_fee_per_gas", "max_priority_fee_per_gas"})

Transaction(kind, v, tx) ==
  [hash |-> "hash", signature |-> [r |-> "r", s |-> "s", v |-> v], kind |-> kind, tx |-> tx]

Transactions ==
  <<Transaction("Legacy", TRUE, [Common EXCEPT !.chain_id = None]
                                  @@ [gas_price |-> "gas_price", to |-> Create]),
    Transaction("Eip2930", FALSE, Common @@ [gas_price |-> "gas_price", to |-> Call,
                                             access_list |-> AccessList]),
    Transaction("Eip1559", TRUE, Common @@ Fees @@ [to |-> Call, access_list |-> <<>>]),
    Transaction("Eip4844", FALSE, Common @@ Fees
                                    @@ [to |-> "to", access_list |-> AccessList,
                                        blob_versioned_hashes |-> <<"b1", "b2">>,
                                        max_fee_per_blob_gas |-> "max_fee_per_blob_gas"]),
    Transaction("Eip7702", TRUE, Common @@ Fees
                                   @@ [to |-> "to", access_list |-> <<>>,
                                       authorization_list |-> Authorizations])>>

Block ==
  [hash |-> "hash", header |-> Header, transactions |-> Transactions,
   ommers |-> <<OldHeader>>, withdrawals |-> "withdrawals",
   senders |-> <<"s1", "s2", "s3", "s4", "s5">>]

Analyzed ==
  [kind |-> "LegacyAnalyzed"]
    @@ Symbolic({"bytecode", "original_len", "jump_table", "jump_table_len"})
Delegation == [kind |-> "Eip7702", address |-> "delegate"]

Info(code) ==
  Symbolic({"account_id", "balance", "nonce", "code_hash"}) @@ [code |-> code]

Account(status) ==
  [address |-> status, status |-> status, info |-> Info(Analyzed),
   original_info |-> IF status = "Changed" THEN None ELSE Info(Delegation),
   storage |-> {Symbolic({"key", "previous_or_original_value", "present_value"})}]

Revert(account, status) ==
  [address |-> "address", account |-> account, previous_status |-> status,
   storage |-> <<[key |-> "k1", kind |-> "Some", value |-> "value"],
                 [key |-> "k2", kind |-> "Destroyed", value |-> None]>>,
   wipe_storage |-> status = "Destroyed"]

Reverts ==
  <<Revert([kind |-> "DoNothing", info |-> None], "Loaded"),
    Revert([kind |-> "DeleteIt", info |-> None], "Destroyed"),
    Revert([kind |-> "RevertTo", info |-> Info(None)], "DestroyedAgain")>>

Receipt(type) ==
  [tx_type |-> type, success |-> type = "Legacy", cumulative_gas_used |-> "gas",
   logs |-> <<[address |-> "address", topics |-> <<"t1", "t2">>, data |-> "data"]>>]

Chain(blocks) ==
  [blocks |-> blocks,
   execution_outcome |->
     [bundle |-> [state |-> {Account(s) : s \in Range(AccountStatus)},
                  contracts |-> {[hash |-> "h1", bytecode |-> Analyzed],
                                 [hash |-> "h2", bytecode |-> Delegation]},
                  reverts |-> <<Reverts, <<>>>>,
                  state_size |-> "state_size", reverts_size |-> "reverts_size"],
      receipts |-> <<[i \in DOMAIN TxType |-> Receipt(TxType[i])], <<>>>>,
      first_block |-> "first_block", requests |-> <<"requests">>],
   trie |-> <<"trie">>]

Notifications ==
  <<[kind |-> "ChainCommitted", old |-> None, new |-> Chain(<<Block>>)],
    [kind |-> "ChainReorged", old |-> Chain(<<Block>>), new |-> Chain(<<Block, Block>>)],
    [kind |-> "ChainReverted", old |-> Chain(<<Block, Block>>), new |-> None],
    [kind |-> "ChainCommitted", old |-> None, new |-> Chain(<<Block>>)]>>
=============================================================================

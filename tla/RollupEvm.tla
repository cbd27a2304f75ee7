------------------------------ MODULE RollupEvm -----------------------------
(***************************************************************************)
(* What the rollup uses of revm (execute_transactions, external code): the *)
(* effect of a block body on the accounts and the storage read from the    *)
(* database.  A body is the one state change that its valid transactions   *)
(* amount to.  A transaction that cannot run is skipped, so its body has   *)
(* the empty effect.                                                       *)
(*                                                                         *)
(*   none      no transaction, or only invalid ones                        *)
(*   transfer  addr pays 1 to peer                                         *)
(*   deploy    a contract is created at addr, its constructor sets key     *)
(*   store     the contract at addr sets key                               *)
(*   destroy   the contract at addr self-destructs in favour of peer (the  *)
(*             chain spec stops at Shanghai, so its storage is wiped)      *)
(*   recreate  addr self-destructs and is deployed again in one block      *)
(***************************************************************************)
EXTENDS RollupDb

CONSTANT Bodies

Ops == {"none", "transfer", "deploy", "store", "destroy", "recreate"}

BodyType ==
  [op : Ops, addr : Addresses, peer : Addresses, key : Keys,
   value : Values, code : Codes \ {NoCode}]

ASSUME BodiesAssumption == Bodies \subseteq BodyType

\* The state an execution leaves behind.
PostType ==
  [account : AccountTable, slot : StorageView, wiped : SUBSET Addresses]

\* What addr pays to peer.
Paid(b) ==
  IF b.op = "transfer" THEN 1
  ELSE IF b.op \in {"destroy", "recreate"} THEN Balance(account[b.addr])
  ELSE 0

Runs(b) ==
  /\ b.op # "none"
  /\ b.addr # b.peer
  /\ b.op = "deploy" => Code(account[b.addr]) = NoCode
  /\ b.op \in {"store", "destroy", "recreate"} => Code(account[b.addr]) # NoCode
  /\ Balance(account[b.addr]) >= Paid(b)
  /\ Balance(account[b.peer]) + Paid(b) < BalanceModulus

\* The account of the peer; being paid nothing does not touch it.
Credited(b) ==
  IF Paid(b) = 0 THEN account[b.peer]
  ELSE [balance |-> Balance(account[b.peer]) + Paid(b),
        code    |-> Code(account[b.peer])]

\* The account at addr; a self-destructed one is gone.
Debited(b) ==
  IF b.op = "destroy" THEN None
  ELSE [balance |-> Balance(account[b.addr]) - Paid(b),
        code    |-> IF b.op \in {"deploy", "recreate"} THEN b.code
                    ELSE Code(account[b.addr])]

AccountsAfter(b) ==
  IF b.op = "store" THEN account
  ELSE [account EXCEPT ![b.addr] = Debited(b), ![b.peer] = Credited(b)]

Wiped(b) == IF b.op \in {"destroy", "recreate"} THEN {b.addr} ELSE {}

Written(b) ==
  IF b.op \in {"deploy", "store", "recreate"} THEN {<<b.addr, b.key>>} ELSE {}

SlotsAfter(b) ==
  [s \in Slots |-> IF s \in Written(b) THEN b.value
                   ELSE IF s[1] \in Wiped(b) THEN 0
                   ELSE View(storage)[s]]

Unchanged ==
  [account |-> account, slot |-> View(storage), wiped |-> {}]

Execute(b) ==
  IF Runs(b)
  THEN [account |-> AccountsAfter(b), slot |-> SlotsAfter(b),
        wiped |-> Wiped(b)]
  ELSE Unchanged
=============================================================================

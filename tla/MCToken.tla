------------------------------ MODULE MCToken ------------------------------
(* A small ledger for TLC: four accounts a key can sign for, one account of *)
(* another program whose data imitates the token program's, balances 0..2.  *)
EXTENDS Token, TLC

CONSTANTS f

\* Look-alike data: a rich fungible holding, an empty master, a mintable definition.
MCSpoofed ==
    {[kind |-> "Fungible", definition_id |-> id, balance |-> U128_MAX] :
        id \in AccountId \ Foreign}
    \union
    {[kind |-> "NftMaster", definition_id |-> id, print_balance |-> 0] :
        id \in AccountId \ Foreign}
    \union
    {[kind |-> "FungibleDefinition", total_supply |-> U128_MAX, authority |-> f,
      metadata_id |-> NONE]}

Symmetry == Permutations(AccountId \ Foreign)
=============================================================================

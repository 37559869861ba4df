------------------------------- MODULE Token -------------------------------
(***************************************************************************)
(* The token program (programs/token): definitions, holdings and metadata  *)
(* accounts, and the ten instructions that create and change them.         *)
(*                                                                         *)
(* One action is one transaction: the runtime executes one instruction     *)
(* over the accounts it names, and a panic in the handler discards it      *)
(* whole, so an aborted transaction is a step that is not taken.  Names,   *)
(* URIs, creators and the metadata standard are payload nothing reads and  *)
(* are left out; account data is a tagged record instead of Borsh bytes.   *)
(*                                                                         *)
(* A definition under "Slip:" is the next one with a plausible mistake the *)
(* properties are there to notice; no action uses it.                      *)
(***************************************************************************)
EXTENDS Integers, FiniteSets, Functions

CONSTANTS
    AccountId,   \* the accounts of the ledger
    Foreign,     \* those owned by some other program
    Spoofed,     \* token-shaped data a foreign account may hold
    NONE,        \* Option::None
    ZeroId,      \* the all-zero id, which no key and no seed derives
    U128_MAX     \* the largest balance

\* An account id is 32 bytes, and a ledger holds finitely many accounts.
ASSUME LedgerAssumption == IsFiniteSet(AccountId)
ASSUME ForeignAssumption == Foreign \subseteq AccountId
ASSUME NoneAssumption == NONE \notin AccountId /\ ZeroId \notin AccountId /\ NONE # ZeroId
ASSUME MaxAssumption == U128_MAX \in Nat

Amount == 0..U128_MAX

---------------------------------------------------------------------------
(* Account data                                                            *)

Default == [kind |-> "Default"]

FungibleDefinition ==
    [kind : {"FungibleDefinition"}, total_supply : Amount,
     authority : AccountId \union {NONE}, metadata_id : AccountId \union {NONE}]

NonFungibleDefinition ==
    [kind : {"NonFungibleDefinition"}, printable_supply : Amount, metadata_id : AccountId]

FungibleHolding ==
    [kind : {"Fungible"}, definition_id : AccountId, balance : Amount]

NftMaster ==
    [kind : {"NftMaster"}, definition_id : AccountId, print_balance : Amount]

NftPrintedCopy ==
    [kind : {"NftPrintedCopy"}, definition_id : AccountId, owned : BOOLEAN]

TokenMetadata == [kind : {"Metadata"}, definition_id : AccountId]

TokenDefinition == FungibleDefinition \union NonFungibleDefinition
TokenHolding == FungibleHolding \union NftMaster \union NftPrintedCopy
AccountData == {Default} \union TokenDefinition \union TokenHolding \union TokenMetadata

ASSUME SpoofedAssumption == Spoofed \subseteq AccountData

---------------------------------------------------------------------------

VARIABLES
    account,     \* what each account holds
    authorized   \* the accounts that authorised the last transaction

vars == <<account, authorized>>

IsHolding(a) == a.kind \in {"Fungible", "NftMaster", "NftPrintedCopy"}
IsDefinition(a) == a.kind \in {"FungibleDefinition", "NonFungibleDefinition"}

\* Owned by the token program: it wrote the data, nobody else did.
TokenOwned(id) == id \notin Foreign /\ account[id] # Default

\* The units a holding carries: its balance, its remaining prints, or one copy.
Units(h) ==
    CASE h.kind = "Fungible"       -> h.balance
      [] h.kind = "NftMaster"      -> h.print_balance
      [] h.kind = "NftPrintedCopy" -> IF h.owned THEN 1 ELSE 0
      [] OTHER                     -> 0

WithUnits(h, n) ==
    CASE h.kind = "Fungible"       -> [h EXCEPT !.balance = n]
      [] h.kind = "NftMaster"      -> [h EXCEPT !.print_balance = n]
      [] h.kind = "NftPrintedCopy" -> [h EXCEPT !.owned = n > 0]

\* The units a definition says are outstanding.
Supply(d) == IF d.kind = "FungibleDefinition" THEN d.total_supply ELSE d.printable_supply

WithSupply(d, n) ==
    IF d.kind = "FungibleDefinition" THEN [d EXCEPT !.total_supply = n]
                                     ELSE [d EXCEPT !.printable_supply = n]

\* Slip: the clone keeps what it was cloned from.
zeroized_clone_from_Cloned(h) == h

\* The empty holding a transfer creates for a recipient that has none.
zeroized_clone_from(h) == WithUnits(h, 0)

\* The empty holding of a definition: of a non-fungible one, an unowned copy.
zeroized_from_definition(id, d) ==
    IF d.kind = "FungibleDefinition"
    THEN [kind |-> "Fungible", definition_id |-> id, balance |-> 0]
    ELSE [kind |-> "NftPrintedCopy", definition_id |-> id, owned |-> FALSE]

\* The runtime's part of a transaction over a set of accounts: it names each
\* account once, any of them may have authorised it, and only accounts of the
\* executing program, or that nobody owns yet, may end up changed.
Distinct(a, b, c) == a # b /\ b # c /\ a # c
Transaction(accounts) == authorized' \in SUBSET accounts
OwnershipRespected == \A id \in Foreign : account'[id] = account[id]

---------------------------------------------------------------------------
(* Transfer                                                                *)

\* Slip: the definition ids are not compared.
SameToken_Unchecked(from, to) == TRUE
SameToken(from, to) == from.definition_id = to.definition_id

\* Slip: a master is split like a balance.
Transferable_SplitMaster(from, to, amount) ==
    /\ from.kind = to.kind
    /\ Units(from) >= amount /\ Units(to) + amount <= U128_MAX
    /\ from.kind = "NftPrintedCopy" => amount = 1 /\ ~to.owned

\* A master moves whole, to a holding with no prints; a copy moves alone, to a
\* holding that has none.
Transferable(from, to, amount) ==
    /\ from.kind = to.kind
    /\ CASE from.kind = "Fungible"       -> /\ from.balance >= amount
                                            /\ to.balance + amount <= U128_MAX
         [] from.kind = "NftMaster"      -> to.print_balance = 0 /\ from.print_balance = amount
         [] from.kind = "NftPrintedCopy" -> amount = 1 /\ from.owned /\ ~to.owned

Transfer(sender, recipient, amount) ==
    LET from == account[sender]
        to   == IF account[recipient] = Default
                THEN zeroized_clone_from(from) ELSE account[recipient]
    IN  /\ sender # recipient
        /\ IsHolding(from)
        /\ IsHolding(to)
        /\ SameToken(from, to)
        /\ Transferable(from, to, amount)
        /\ Transaction({sender, recipient})
        /\ sender \in authorized'
        /\ account' = [account EXCEPT ![sender] = WithUnits(from, Units(from) - amount),
                                      ![recipient] = WithUnits(to, Units(to) + amount)]
        /\ OwnershipRespected

---------------------------------------------------------------------------
(* Creating definitions and holdings                                       *)

\* Slip: any id is accepted.
validate_mint_authority_Skipped(a) == TRUE

\* Also the check set_authority makes of the authority it is given.
validate_mint_authority(a) == a # ZeroId

NewFungibleDefinition(definition, holding, total_supply, mint_authority) ==
    /\ definition # holding
    /\ account[definition] = Default /\ account[holding] = Default
    /\ Transaction({definition, holding})
    /\ {definition, holding} \subseteq authorized'
    /\ validate_mint_authority(mint_authority)
    /\ account' = [account EXCEPT
          ![definition] = [kind |-> "FungibleDefinition", total_supply |-> total_supply,
                           authority |-> mint_authority, metadata_id |-> NONE],
          ![holding] = [kind |-> "Fungible", definition_id |-> definition,
                        balance |-> total_supply]]
    /\ OwnershipRespected

\* Both arms of NewTokenDefinition; only the fungible one carries an authority.
NewDefinitionWithMetadata(definition, holding, metadata, fungible, supply, mint_authority) ==
    /\ Distinct(definition, holding, metadata)
    /\ \A id \in {definition, holding, metadata} : account[id] = Default
    /\ Transaction({definition, holding, metadata})
    /\ {definition, holding, metadata} \subseteq authorized'
    /\ fungible => validate_mint_authority(mint_authority)
    /\ account' = [account EXCEPT
          ![definition] =
              IF fungible
              THEN [kind |-> "FungibleDefinition", total_supply |-> supply,
                    authority |-> mint_authority, metadata_id |-> metadata]
              ELSE [kind |-> "NonFungibleDefinition", printable_supply |-> supply,
                    metadata_id |-> metadata],
          ![holding] =
              IF fungible
              THEN [kind |-> "Fungible", definition_id |-> definition, balance |-> supply]
              ELSE [kind |-> "NftMaster", definition_id |-> definition,
                    print_balance |-> supply],
          ![metadata] = [kind |-> "Metadata", definition_id |-> definition]]
    /\ OwnershipRespected

InitializeAccount(definition, target) ==
    /\ definition # target
    /\ account[target] = Default
    /\ TokenOwned(definition)
    /\ IsDefinition(account[definition])
    /\ Transaction({definition, target})
    /\ target \in authorized'
    /\ account' = [account EXCEPT
          ![target] = zeroized_from_definition(definition, account[definition])]
    /\ OwnershipRespected

---------------------------------------------------------------------------
(* Burn, mint and print                                                    *)

\* The pairs of definition and holding types the handlers accept together.
KindsMatch(d, h) ==
    \/ d.kind = "FungibleDefinition" /\ h.kind = "Fungible"
    \/ d.kind = "NonFungibleDefinition" /\ h.kind \in {"NftMaster", "NftPrintedCopy"}

\* No owner check on the definition: a changed supply of another program's
\* account is what the runtime refuses.
Burn(definition, holder, amount) ==
    LET d == account[definition]
        h == account[holder]
    IN  /\ definition # holder
        /\ KindsMatch(d, h)
        /\ h.definition_id = definition
        /\ h.kind = "NftPrintedCopy" => amount = 1
        /\ Units(h) >= amount
        /\ Supply(d) >= amount
        /\ Transaction({definition, holder})
        /\ holder \in authorized'
        /\ account' = [account EXCEPT ![definition] = WithSupply(d, Supply(d) - amount),
                                      ![holder] = WithUnits(h, Units(h) - amount)]
        /\ OwnershipRespected

\* Slip: naming the authority is enough.
ProvesAuthority_Unsigned(d, authority) == d.authority # NONE /\ authority = d.authority
\* Slip: no authority means anyone.
ProvesAuthority_NoneIsAnyone(d, authority) ==
    authority \in authorized' /\ d.authority \in {NONE, authority}

\* The stored authority took part, and authorised the transaction.
ProvesAuthority(d, authority) ==
    /\ d.authority # NONE
    /\ authority \in authorized'
    /\ authority = d.authority

\* The account proving authority is the definition itself or a separate one.
\* Every pair of types but the fungible one panics.
mint_inner(definition, holder, authority, amount) ==
    LET d == account[definition]
        h == IF account[holder] = Default
             THEN zeroized_from_definition(definition, d) ELSE account[holder]
    IN  /\ TokenOwned(definition)
        /\ d.kind = "FungibleDefinition"
        /\ h.kind = "Fungible"
        /\ h.definition_id = definition
        /\ h.balance + amount <= U128_MAX
        /\ d.total_supply + amount <= U128_MAX
        /\ Transaction({definition, holder, authority})
        /\ ProvesAuthority(d, authority)
        /\ account' = [account EXCEPT
              ![definition] = WithSupply(d, d.total_supply + amount),
              ![holder] = WithUnits(h, h.balance + amount)]
        /\ OwnershipRespected

Mint(definition, holder, amount) ==
    /\ definition # holder
    /\ mint_inner(definition, holder, definition, amount)

MintWithAuthority(definition, holder, authority, amount) ==
    /\ Distinct(definition, holder, authority)
    /\ mint_inner(definition, holder, authority, amount)

\* Slip: only the printed account has to sign.
PrintNft_MasterUnsigned(master, printed) ==
    LET m == account[master]
    IN  /\ account[printed] = Default
        /\ m.kind = "NftMaster" /\ m.print_balance > 1
        /\ authorized' = {printed}
        /\ account' = [account EXCEPT
              ![master] = WithUnits(m, m.print_balance - 1),
              ![printed] = [kind |-> "NftPrintedCopy", definition_id |-> m.definition_id,
                            owned |-> TRUE]]
        /\ OwnershipRespected

\* One print is reserved for the master copy itself.
PrintNft(master, printed) ==
    LET m == account[master]
    IN  /\ master # printed
        /\ account[printed] = Default
        /\ m.kind = "NftMaster"
        /\ m.print_balance > 1
        /\ Transaction({master, printed})
        /\ {master, printed} \subseteq authorized'
        /\ account' = [account EXCEPT
              ![master] = WithUnits(m, m.print_balance - 1),
              ![printed] = [kind |-> "NftPrintedCopy", definition_id |-> m.definition_id,
                            owned |-> TRUE]]
        /\ OwnershipRespected

---------------------------------------------------------------------------
(* Rotating and renouncing the mint authority                              *)

set_authority_inner(definition, authority, new_authority) ==
    LET d == account[definition]
    IN  /\ TokenOwned(definition)
        /\ d.kind = "FungibleDefinition"
        /\ Transaction({definition, authority})
        /\ ProvesAuthority(d, authority)
        /\ validate_mint_authority(new_authority)
        /\ account' = [account EXCEPT ![definition] = [d EXCEPT !.authority = new_authority]]
        /\ OwnershipRespected

SetAuthority(definition, new_authority) ==
    set_authority_inner(definition, definition, new_authority)

SetAuthorityWithAuthority(definition, authority, new_authority) ==
    /\ definition # authority
    /\ set_authority_inner(definition, authority, new_authority)

---------------------------------------------------------------------------

Init ==
    /\ \E spoof \in [Foreign -> Spoofed] :
          account = [id \in AccountId |-> IF id \in Foreign THEN spoof[id] ELSE Default]
    /\ authorized = {}

\* A definition is only ever created in these.
Unused == {id \in AccountId : account[id] = Default}

AccountNext ==
    \/ \E a, b \in AccountId, n \in Amount : Transfer(a, b, n)
    \/ \E a, b \in Unused, n \in Amount, m \in AccountId \union {NONE, ZeroId} :
          NewFungibleDefinition(a, b, n, m)
    \/ \E a, b, c \in Unused, n \in Amount :
          \/ NewDefinitionWithMetadata(a, b, c, FALSE, n, NONE)
          \/ \E m \in AccountId \union {NONE, ZeroId} :
                NewDefinitionWithMetadata(a, b, c, TRUE, n, m)
    \/ \E a, b \in AccountId : InitializeAccount(a, b)

SupplyNext ==
    \/ \E a, b \in AccountId, n \in Amount : Burn(a, b, n)
    \/ \E a, b \in AccountId, n \in Amount : Mint(a, b, n)
    \/ \E a, b, c \in AccountId, n \in Amount : MintWithAuthority(a, b, c, n)
    \/ \E a, b \in AccountId : PrintNft(a, b)
    \/ \E a \in AccountId, m \in AccountId \union {NONE, ZeroId} : SetAuthority(a, m)
    \/ \E a, b \in AccountId, m \in AccountId \union {NONE, ZeroId} :
          SetAuthorityWithAuthority(a, b, m)

Next == AccountNext \/ SupplyNext

Spec == Init /\ [][Next]_vars

---------------------------------------------------------------------------
(* Properties                                                              *)

\* Every account holds nothing, or data one of the token program's types decodes;
\* a stored mint authority is a real account, never the all-zero id.
TypeOK ==
    /\ account \in [AccountId -> AccountData]
    /\ authorized \subseteq AccountId

\* The definition a holding names is the token program's, and of its kind.
Backed(id) ==
    LET def == account[id].definition_id
    IN  /\ TokenOwned(def)
        /\ account[def].kind = IF account[id].kind = "Fungible"
                               THEN "FungibleDefinition" ELSE "NonFungibleDefinition"

\* A holding the token program wrote that carries value belongs to a definition
\* the token program wrote, of the kind that holding is a holding of.  Burn and
\* transfer never look at who owns the accounts they are given, and a transfer
\* of nothing out of another program's look-alike holding does create an (empty)
\* holding of whatever definition id that look-alike names.
ValueIsBacked ==
    \A id \in AccountId :
        TokenOwned(id) /\ IsHolding(account[id]) /\ Units(account[id]) > 0 => Backed(id)

HoldsPrints(id) ==
    TokenOwned(id) /\ account[id].kind = "NftMaster" /\ account[id].print_balance > 0

\* The print rights of an NFT are in one place: at most one master holding of a
\* definition has a print balance left, however often masters are transferred,
\* initialised or partly burned.
UniqueMaster ==
    \A i, j \in AccountId :
        HoldsPrints(i) /\ HoldsPrints(j) /\ account[i].definition_id = account[j].definition_id
        => i = j

\* The units of a definition that an account holds for the token program.
UnitsOf(def, id) ==
    IF TokenOwned(id) /\ IsHolding(account[id]) /\ account[id].definition_id = def
    THEN Units(account[id]) ELSE 0

\* A definition's supply is the sum of what the token program's holdings of it
\* carry: fungible balances, or the master's remaining prints plus the owned
\* copies.  Mint, burn, print and the three kinds of transfer each move both
\* sides, or neither.
SupplyConserved ==
    \A def \in AccountId :
        TokenOwned(def) /\ IsDefinition(account[def]) =>
            Supply(account[def]) =
                SumFunctionOnSet([id \in AccountId |-> UnitsOf(def, id)], AccountId)

\* Value leaves a holding only if that holding authorised the transaction: no
\* instruction debits, burns or prints from an account that merely takes part.
NoDebitWithoutAuthorization ==
    [][\A id \in AccountId :
         TokenOwned(id) /\ Units(account'[id]) < Units(account[id]) => id \in authorized']_vars

\* A definition's supply grows, and its mint authority changes, only in a
\* transaction its current mint authority authorised.
AuthorityControlsSupply ==
    [][\A id \in AccountId :
         TokenOwned(id) /\ account[id].kind = "FungibleDefinition" =>
             \/ account[id].authority \in authorized'
             \/ /\ account'[id].authority = account[id].authority
                /\ account'[id].total_supply <= account[id].total_supply]_vars

\* A fixed supply stays fixed: once the authority is renounced (or was never
\* given) no sequence of instructions brings it back or mints again.
RenouncedForever ==
    [][\A id \in AccountId :
         (TokenOwned(id) /\ account[id].kind = "FungibleDefinition"
                         /\ account[id].authority = NONE) =>
             /\ account'[id].kind = "FungibleDefinition"
             /\ account'[id].authority = NONE
             /\ account'[id].total_supply <= account[id].total_supply]_vars

\* What the guest's documentation of transfer and mint says: a fresh recipient
\* is explicitly authorized in the same transaction.
FreshRecipientAuthorized ==
    [][\A id \in AccountId :
         account[id] = Default /\ IsHolding(account'[id]) => id \in authorized']_vars
=============================================================================

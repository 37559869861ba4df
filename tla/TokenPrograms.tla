--------------------------- MODULE TokenPrograms ---------------------------
(***************************************************************************)
(* The two programs that hold authority over token accounts without a key: *)
(* the associated token accounts (programs/ata), one holding per owner and *)
(* definition at a derived address, and the faucet (token_mint_authority), *)
(* which mints a fixed amount to whoever asks, once per cooldown.  Both    *)
(* chain one instruction of the token program and authorise in it one      *)
(* derived address, by its seed.                                           *)
(*                                                                         *)
(* "authorized" of Token is what the token program sees: for a user's own  *)
(* transaction its signers, for a chained call the derived address.        *)
(* "signed" is who signed the transaction; more signers than a program     *)
(* asks for change nothing, so it is exactly those.  Hashing a seed is     *)
(* injective.  The faucet's allowance account, which only the faucet can   *)
(* write, is the time of the last grant.                                   *)
(***************************************************************************)
EXTENDS Token

CONSTANTS
    Key,                \* the accounts a user holds a key of
    associated,         \* the derived address of an owner and a definition
    MintAuthority,      \* the faucet's derived address
    FAUCET_MINT_AMOUNT,
    MINT_COOLDOWN_MS,
    OpeningAuthority,   \* bound of the model: the mint authority the first token may have
    MAX_TIME            \* bound of the model: the clock

ASSUME DerivedAssumption ==
    /\ DOMAIN associated \subseteq Key \X AccountId
    /\ Key \subseteq AccountId \ Foreign
    /\ \A p \in DOMAIN associated : associated[p] \in AccountId \ (Key \cup Foreign)
    /\ \A p, q \in DOMAIN associated : associated[p] = associated[q] => p = q
    /\ MintAuthority \in AccountId \ Key
    /\ \A p \in DOMAIN associated : associated[p] # MintAuthority
ASSUME FaucetAssumption ==
    /\ FAUCET_MINT_AMOUNT \in Amount
    /\ MINT_COOLDOWN_MS \in Nat
    /\ OpeningAuthority \subseteq AccountId \union {NONE}

VARIABLES
    signed,         \* who signed the last transaction
    clock,          \* the system's clock account
    last_mint_ms    \* the allowance of a recipient and a definition

allVars == <<vars, signed, clock, last_mint_ms>>

---------------------------------------------------------------------------
(* Associated token accounts                                               *)

\* Slip: the owner is not part of the seed.
verify_ata_AnyOwner(ata, owner, definition) ==
    \E p \in DOMAIN associated : p[2] = definition /\ ata = associated[p]

verify_ata(ata, owner, definition) ==
    <<owner, definition>> \in DOMAIN associated /\ ata = associated[<<owner, definition>>]

\* Nobody has to sign.  A live account is left as it is, whoever created it.
CreateAssociated(owner, definition, ata) ==
    /\ Distinct(owner, definition, ata)
    /\ TokenOwned(definition) /\ IsDefinition(account[definition])
    /\ verify_ata(ata, owner, definition)
    /\ signed' = {}
    /\ \/ /\ account[ata] # Default
          /\ TokenOwned(ata) /\ IsHolding(account[ata])
          /\ account[ata].definition_id = definition
          /\ authorized' = {}
          /\ UNCHANGED account
       \/ /\ account[ata] = Default
          /\ authorized' = {ata}
          /\ InitializeAccount(definition, ata)
    /\ UNCHANGED <<clock, last_mint_ms>>

\* The owner signs, and the address is the one of its holding's own definition.
OwnerMoves(owner, ata) ==
    /\ owner \in Key
    /\ signed' = {owner}
    /\ authorized' = {ata}
    /\ TokenOwned(ata) /\ IsHolding(account[ata])
    /\ verify_ata(ata, owner, account[ata].definition_id)
    /\ UNCHANGED <<clock, last_mint_ms>>

\* Unlike the token program's own transfer, never to a fresh recipient.
TransferAssociated(owner, ata, recipient, amount) ==
    /\ Distinct(owner, ata, recipient)
    /\ OwnerMoves(owner, ata)
    /\ TokenOwned(recipient) /\ IsHolding(account[recipient])
    /\ account[recipient].definition_id = account[ata].definition_id
    /\ Transfer(ata, recipient, amount)

BurnAssociated(owner, ata, definition, amount) ==
    /\ Distinct(owner, ata, definition)
    /\ OwnerMoves(owner, ata)
    /\ TokenOwned(definition)
    /\ account[ata].definition_id = definition
    /\ Burn(definition, ata, amount)

---------------------------------------------------------------------------
(* The faucet                                                              *)

\* Slip: the allowance is the holding's, not the recipient's.
Allowance_OfHolding(recipient, holding, definition) == <<holding, definition>>
Allowance(recipient, holding, definition) == <<recipient, definition>>

Since(t) == IF clock > t THEN clock - t ELSE 0

\* Only a fungible definition that names the faucet as its authority is served.
\* Anyone may fund an existing holding; a fresh one has to agree.
FaucetMint(recipient, holding, definition) ==
    LET spent == Allowance(recipient, holding, definition)
    IN  /\ Distinct(recipient, holding, definition)
        /\ signed' = {recipient} \cup IF account[holding] = Default THEN {holding} ELSE {}
        /\ signed' \subseteq Key
        /\ TokenOwned(definition)
        /\ account[definition].kind = "FungibleDefinition"
        /\ account[definition].authority = MintAuthority
        /\ account[holding] # Default => TokenOwned(holding)
        /\ last_mint_ms[spent] # NONE => Since(last_mint_ms[spent]) >= MINT_COOLDOWN_MS
        /\ last_mint_ms' = [last_mint_ms EXCEPT ![spent] = clock]
        /\ authorized' = {MintAuthority}
        /\ MintWithAuthority(definition, holding, MintAuthority, FAUCET_MINT_AMOUNT)
        /\ UNCHANGED clock

---------------------------------------------------------------------------

\* A user's own transaction with the token program.
UserStep ==
    /\ Next
    /\ authorized' \subseteq Key
    /\ signed' = authorized'
    /\ UNCHANGED <<clock, last_mint_ms>>

Tick ==
    /\ clock < MAX_TIME
    /\ clock' = clock + 1
    /\ UNCHANGED <<vars, signed, last_mint_ms>>

ProgramsNext ==
    \/ UserStep
    \/ \E owner, definition, ata \in AccountId : CreateAssociated(owner, definition, ata)
    \/ \E owner \in Key, ata, recipient \in AccountId, n \in Amount :
          TransferAssociated(owner, ata, recipient, n)
    \/ \E owner \in Key, ata, definition \in AccountId, n \in Amount :
          BurnAssociated(owner, ata, definition, n)
    \/ \E recipient \in Key, holding, definition \in AccountId :
          FaucetMint(recipient, holding, definition)
    \/ Tick

\* A fungible definition with associated accounts was just created by its holder;
\* a definition signs for itself, so none is at an associated address.
ProgramsInit ==
    /\ \E p \in DOMAIN associated, n \in Amount, a \in OpeningAuthority :
          /\ p[2] \notin Foreign \union Range(associated)
          /\ account = [id \in AccountId |->
              CASE id = p[2] -> [kind |-> "FungibleDefinition", total_supply |-> n,
                                 authority |-> a, metadata_id |-> NONE]
                [] id = p[1] -> [kind |-> "Fungible", definition_id |-> p[2], balance |-> n]
                [] OTHER -> Default]
    /\ authorized = {} /\ signed = {}
    /\ clock = 0
    /\ last_mint_ms = [p \in AccountId \X AccountId |-> NONE]

ProgramsSpec == ProgramsInit /\ [][ProgramsNext]_allVars

---------------------------------------------------------------------------
(* Properties                                                              *)

\* What sits at an owner's associated address moves only in a transaction that
\* owner signed, and stays a holding of the same definition: neither the address
\* nor another owner's seed gives anyone else authority over it (ata transfer, burn;
\* verify_ata_and_get_seed).
OnlyTheOwnerMoves ==
    [][\A p \in DOMAIN associated :
         LET a == associated[p]
         IN  TokenOwned(a) =>
               /\ account'[a].kind = account[a].kind
               /\ account'[a].definition_id = account[a].definition_id
               /\ Units(account'[a]) < Units(account[a]) => p[1] \in signed']_allVars

\* A token whose authority is the faucet grows by single grants only, each to a
\* signer who got none of that token for a whole cooldown, whatever holdings are
\* named and whatever is transferred or burned in between; and it stays the
\* faucet's (faucet_mint, mint_with_authority, set_authority).
FaucetSupplyIsRationed ==
    [][\A d \in AccountId :
         (account[d].kind = "FungibleDefinition" /\ account[d].authority = MintAuthority) =>
           /\ account'[d].authority = MintAuthority
           /\ \/ account'[d].total_supply <= account[d].total_supply
              \/ /\ account'[d].total_supply = account[d].total_supply + FAUCET_MINT_AMOUNT
                 /\ \E r \in signed' :
                      /\ last_mint_ms[<<r, d>>] # NONE =>
                            last_mint_ms[<<r, d>>] + MINT_COOLDOWN_MS <= clock
                      /\ last_mint_ms'[<<r, d>>] = clock]_allVars
=============================================================================

------------------------ MODULE TokenProgramsProofs ------------------------
(***************************************************************************)
(* What the programs that act for token accounts without a key guarantee,  *)
(* for any set of owners, definitions and derived addresses, any grant and *)
(* any cooldown, among all the token program's own instructions.           *)
(*                                                                         *)
(* ProgramsInv is the inductive invariant.  A derived address never signs  *)
(* for itself, so nothing but a holding can appear at it                   *)
(* (AssociatedAreHoldings); and no allowance is dated in the future, so    *)
(* the cooldown it starts is a whole one.                                  *)
(***************************************************************************)
EXTENDS TokenPrograms, TokenProofs

USE NoneAssumption, MaxAssumption

AssociatedAreHoldings ==
    \A p \in DOMAIN associated :
        account[associated[p]] = Default \/ IsHolding(account[associated[p]])

AllowancesArePast ==
    /\ clock \in Nat
    /\ last_mint_ms \in [AccountId \X AccountId -> Nat \union {NONE}]
    /\ \A a \in AccountId \X AccountId : last_mint_ms[a] # NONE => last_mint_ms[a] <= clock

ProgramsInv == TypeOK /\ AssociatedAreHoldings /\ AllowancesArePast

---------------------------------------------------------------------------
(* The token program's part of a step                                      *)

\* A holding stays a holding of its definition.
LEMMA HoldingsStay ==
    ASSUME TypeOK, [Next]_vars, NEW id \in AccountId, TokenOwned(id), IsHolding(account[id])
    PROVE  /\ account'[id].kind = account[id].kind
           /\ account'[id].definition_id = account[id].definition_id
  <1> DEFINE Kept == /\ account'[id].kind = account[id].kind
                     /\ account'[id].definition_id = account[id].definition_id
  <1>1. account'[id] = account[id] => Kept
    OBVIOUS
  <1>2. UNCHANGED vars => Kept
    BY DEF vars
  <1>3. account[id] # Default /\ ~IsDefinition(account[id])
    BY DEF TokenOwned, IsDefinition, IsHolding
  <1>4. ASSUME NEW s \in AccountId, NEW r \in AccountId, NEW n \in Amount, Transfer(s, r, n)
        PROVE  Kept
    BY <1>1, <1>3, <1>4, TransferEffect
  <1>5. ASSUME NEW x \in AccountId, NEW y \in AccountId, NEW n \in Amount, Burn(x, y, n)
        PROVE  Kept
    BY <1>1, <1>3, <1>5, BurnEffect
  <1>6. ASSUME NEW x \in AccountId, NEW y \in AccountId, NEW z \in AccountId,
               NEW n \in Amount, x # y, mint_inner(x, y, z, n)
        PROVE  Kept
    <2>1. id # x
      BY <1>3, <1>6, MintEffect DEF IsDefinition
    <2> QED BY <1>1, <1>3, <1>6, <2>1, MintEffect
  <1>7. ASSUME NEW x \in AccountId, NEW y \in AccountId,
               NEW m \in AccountId \union {NONE, ZeroId}, set_authority_inner(x, y, m)
        PROVE  Kept
    BY <1>1, <1>3, <1>7, SetAuthorityEffect DEF IsDefinition
  <1>8. ASSUME NEW x \in AccountId, NEW y \in AccountId, NEW z \in AccountId,
               NEW n \in Amount, NEW m \in AccountId \union {NONE, ZeroId},
               NEW fungible \in BOOLEAN,
               \/ NewFungibleDefinition(x, y, n, m)
               \/ NewDefinitionWithMetadata(x, y, z, fungible, n, m)
        PROVE  Kept
    BY <1>1, <1>3, <1>8, NewDefinitionEffect
  <1>9. ASSUME NEW x \in AccountId, NEW y \in AccountId, InitializeAccount(x, y)
        PROVE  Kept
    BY <1>1, <1>3, <1>9, InitializeEffect
  <1>10. ASSUME NEW x \in AccountId, NEW y \in AccountId, PrintNft(x, y)
         PROVE  Kept
    BY <1>1, <1>3, <1>10, PrintEffect
  <1> QED BY <1>2, <1>4, <1>5, <1>6, <1>7, <1>8, <1>9, <1>10, StepCases

\* What appears at an unused account is a holding, or that account authorised it.
LEMMA OnlyHoldingsAppear ==
    ASSUME TypeOK, [Next]_vars, NEW id \in AccountId, account[id] = Default,
           account'[id] # Default
    PROVE  IsHolding(account'[id]) \/ id \in authorized'
  <1> DEFINE Fine == IsHolding(account'[id]) \/ id \in authorized'
  <1>1. ~IsHolding(Default) /\ ~IsDefinition(Default) /\ Default.kind # "FungibleDefinition"
    BY DEF IsHolding, IsDefinition, Default
  <1>2. ~UNCHANGED vars
    BY DEF vars
  <1>3. ASSUME NEW s \in AccountId, NEW r \in AccountId, NEW n \in Amount, Transfer(s, r, n)
        PROVE  Fine
    BY <1>3, TransferEffect DEF IsHolding
  <1>4. ASSUME NEW x \in AccountId, NEW y \in AccountId, NEW n \in Amount, Burn(x, y, n)
        PROVE  Fine
    BY <1>1, <1>4, BurnEffect
  <1>5. ASSUME NEW x \in AccountId, NEW y \in AccountId, NEW z \in AccountId,
               NEW n \in Amount, x # y, mint_inner(x, y, z, n)
        PROVE  Fine
    BY <1>1, <1>5, MintEffect DEF IsHolding
  <1>6. ASSUME NEW x \in AccountId, NEW y \in AccountId,
               NEW m \in AccountId \union {NONE, ZeroId}, set_authority_inner(x, y, m)
        PROVE  Fine
    BY <1>1, <1>6, SetAuthorityEffect
  <1>7. ASSUME NEW x \in AccountId, NEW y \in AccountId, NEW n \in Amount,
               NEW m \in AccountId \union {NONE, ZeroId}, NewFungibleDefinition(x, y, n, m)
        PROVE  Fine
    <2>1. id \in {x, y}
      BY <1>7 DEF NewFungibleDefinition, TypeOK
    <2> QED BY <1>7, <2>1 DEF NewFungibleDefinition
  <1>8. ASSUME NEW x \in AccountId, NEW y \in AccountId, NEW z \in AccountId,
               NEW n \in Amount, NEW m \in AccountId \union {NONE, ZeroId},
               NEW fungible \in BOOLEAN, NewDefinitionWithMetadata(x, y, z, fungible, n, m)
        PROVE  Fine
    <2>1. id \in {x, y, z}
      BY <1>8 DEF NewDefinitionWithMetadata, TypeOK
    <2> QED BY <1>8, <2>1 DEF NewDefinitionWithMetadata
  <1>9. ASSUME NEW x \in AccountId, NEW y \in AccountId, InitializeAccount(x, y)
        PROVE  Fine
    BY <1>9, InitializeEffect
  <1>10. ASSUME NEW x \in AccountId, NEW y \in AccountId, PrintNft(x, y)
         PROVE  Fine
    BY <1>10, PrintEffect DEF IsHolding
  <1> QED BY <1>2, <1>3, <1>4, <1>5, <1>6, <1>7, <1>8, <1>9, <1>10, StepCases

---------------------------------------------------------------------------
(* Who acts in a step                                                      *)

\* A step over the programs is a step of the token program, which sees keys or one
\* derived address as authorised, or leaves all accounts alone.
LEMMA WhoActs ==
    ASSUME [ProgramsNext]_allVars
    PROVE  \/ account' = account /\ authorized' \subseteq authorized
           \/ [Next]_vars /\ authorized' \subseteq Key /\ signed' = authorized'
           \/ \E owner, definition, ata \in AccountId :
                 /\ InitializeAccount(definition, ata)
                 /\ verify_ata(ata, owner, definition)
                 /\ [Next]_vars /\ authorized' = {ata}
           \/ \E owner, definition, ata \in AccountId :
                 /\ owner \in signed' /\ TokenOwned(ata)
                 /\ verify_ata(ata, owner, definition)
                 /\ [Next]_vars /\ authorized' = {ata}
           \/ \E recipient, holding, definition \in AccountId :
                 /\ FaucetMint(recipient, holding, definition)
                 /\ [Next]_vars /\ authorized' = {MintAuthority}
  <1>1. CASE UNCHANGED allVars
    BY <1>1 DEF allVars, vars
  <1>2. CASE UserStep
    BY <1>2 DEF UserStep
  <1>3. ASSUME NEW owner \in AccountId, NEW definition \in AccountId, NEW ata \in AccountId,
               CreateAssociated(owner, definition, ata)
        PROVE  \/ account' = account /\ authorized' \subseteq authorized
               \/ /\ InitializeAccount(definition, ata)
                  /\ verify_ata(ata, owner, definition)
                  /\ [Next]_vars /\ authorized' = {ata}
    BY <1>3 DEF CreateAssociated, Next, AccountNext, Unused
  <1>4. ASSUME NEW owner \in AccountId, NEW ata \in AccountId, NEW recipient \in AccountId,
               NEW n \in Amount, TransferAssociated(owner, ata, recipient, n)
        PROVE  \E definition \in AccountId :
                 /\ owner \in signed' /\ TokenOwned(ata)
                 /\ verify_ata(ata, owner, definition)
                 /\ [Next]_vars /\ authorized' = {ata}
    <2>1. /\ account[ata].definition_id \in AccountId
          /\ verify_ata(ata, owner, account[ata].definition_id)
      BY <1>4, DerivedAssumption DEF TransferAssociated, OwnerMoves, verify_ata
    <2> QED BY <1>4, <2>1 DEF TransferAssociated, OwnerMoves, Next, AccountNext, Unused
  <1>5. ASSUME NEW owner \in AccountId, NEW ata \in AccountId, NEW definition \in AccountId,
               NEW n \in Amount, BurnAssociated(owner, ata, definition, n)
        PROVE  /\ owner \in signed' /\ TokenOwned(ata)
               /\ verify_ata(ata, owner, definition)
               /\ [Next]_vars /\ authorized' = {ata}
    BY <1>5 DEF BurnAssociated, OwnerMoves, Next, SupplyNext
  <1>6. ASSUME NEW recipient \in AccountId, NEW holding \in AccountId,
               NEW definition \in AccountId, FaucetMint(recipient, holding, definition)
        PROVE  [Next]_vars /\ authorized' = {MintAuthority}
    BY <1>6, FaucetAssumption, DerivedAssumption DEF FaucetMint, Next, SupplyNext
  <1>7. CASE Tick
    BY <1>7 DEF Tick, vars
  <1>8. \A k \in Key : k \in AccountId
    BY DerivedAssumption
  <1> QED BY <1>1, <1>2, <1>3, <1>4, <1>5, <1>6, <1>7, <1>8 DEF ProgramsNext

\* An associated address is nobody's key and one owner's alone.
LEMMA DerivedIsRead ==
    ASSUME NEW p \in DOMAIN associated
    PROVE  /\ associated[p] \in AccountId /\ associated[p] \notin Key
           /\ associated[p] \notin Foreign /\ associated[p] # MintAuthority
           /\ p[1] \in Key /\ p[2] \in AccountId
           /\ \A owner, definition : verify_ata(associated[p], owner, definition) =>
                 owner = p[1] /\ definition = p[2]
  BY DerivedAssumption DEF verify_ata

---------------------------------------------------------------------------
(* The invariant                                                           *)

\* It holds of a token just created,
LEMMA ProgramsInitInv == ProgramsInit => ProgramsInv
  <1> SUFFICES ASSUME ProgramsInit PROVE ProgramsInv
    OBVIOUS
  <1>1. PICK p \in DOMAIN associated, n \in Amount, a \in OpeningAuthority :
          /\ p[2] \notin Foreign \union Range(associated)
          /\ account = [id \in AccountId |->
              CASE id = p[2] -> [kind |-> "FungibleDefinition", total_supply |-> n,
                                 authority |-> a, metadata_id |-> NONE]
                [] id = p[1] -> [kind |-> "Fungible", definition_id |-> p[2], balance |-> n]
                [] OTHER -> Default]
    BY Zenon DEF ProgramsInit
  <1> DEFINE coin == [kind |-> "FungibleDefinition", total_supply |-> n, authority |-> a,
                      metadata_id |-> NONE]
             all == [kind |-> "Fungible", definition_id |-> p[2], balance |-> n]
  <1>2. coin \in FungibleDefinition /\ all \in FungibleHolding
    BY FaucetAssumption, DerivedIsRead DEF FungibleDefinition, FungibleHolding
  <1>3. coin \in AccountData /\ all \in AccountData /\ Default \in AccountData
    BY <1>2 DEF AccountData, TokenDefinition, TokenHolding
  <1>4. account \in [AccountId -> AccountData]
    BY <1>1, <1>3
  <1>5. \A q \in DOMAIN associated : account[associated[q]] = Default
    <2> TAKE q \in DOMAIN associated
    <2>1. associated[q] # p[2]
      BY <1>1 DEF Range
    <2>2. associated[q] # p[1] /\ associated[q] \in AccountId
      BY DerivedIsRead
    <2> QED BY <1>1, <2>1, <2>2
  <1> QED BY <1>4, <1>5 DEF ProgramsInit, ProgramsInv, TypeOK, AssociatedAreHoldings,
             AllowancesArePast

\* and no step breaks it.
LEMMA ProgramsNextInv == ProgramsInv /\ [ProgramsNext]_allVars => ProgramsInv'
  <1> SUFFICES ASSUME ProgramsInv, [ProgramsNext]_allVars PROVE ProgramsInv'
    OBVIOUS
  <1>1. TypeOK'
    <2>1. account' = account /\ authorized' \subseteq authorized => TypeOK'
      BY DEF ProgramsInv, TypeOK
    <2> QED BY <2>1, WhoActs, StepTypes DEF ProgramsInv
  <1>2. AssociatedAreHoldings'
    <2> SUFFICES ASSUME NEW p \in DOMAIN associated, account'[associated[p]] # Default
                 PROVE  IsHolding(account'[associated[p]])
      BY DEF AssociatedAreHoldings
    <2>1. PICK a \in AccountId : a = associated[p]
      BY DerivedIsRead
    <2>2. a \notin Foreign /\ a \notin Key /\ a # MintAuthority
      BY <2>1, DerivedIsRead
    <2>3. account[a] = Default \/ IsHolding(account[a])
      BY <2>1 DEF ProgramsInv, AssociatedAreHoldings
    <2>4. account' = account => IsHolding(account'[a])
      BY <2>1, <2>3
    <2>5. CASE account[a] # Default
      <3>1. [Next]_vars => IsHolding(account'[a])
        BY <2>2, <2>3, <2>5, HoldingsStay DEF ProgramsInv, TokenOwned, IsHolding
      <3> QED BY <2>1, <2>4, <3>1, WhoActs
    <2>6. CASE account[a] = Default
      <3>1. [Next]_vars => IsHolding(account'[a]) \/ a \in authorized'
        BY <2>1, <2>6, OnlyHoldingsAppear DEF ProgramsInv
      <3>2. CASE account' = account
        BY <2>1, <2>4, <3>2
      <3>3. CASE [Next]_vars /\ a \notin authorized'
        BY <2>1, <3>1, <3>3
      <3>4. ASSUME NEW owner \in AccountId, NEW definition \in AccountId, NEW ata \in AccountId,
                   InitializeAccount(definition, ata), [Next]_vars, authorized' = {ata}
            PROVE  IsHolding(account'[a])
        BY <2>1, <3>1, <3>4, InitializeEffect DEF ProgramsInv
      <3>5. ASSUME NEW owner \in AccountId, NEW definition \in AccountId, NEW ata \in AccountId,
                   TokenOwned(ata), [Next]_vars, authorized' = {ata}
            PROVE  IsHolding(account'[a])
        BY <2>1, <2>6, <3>1, <3>5 DEF TokenOwned
      <3> QED BY <2>1, <2>2, <3>2, <3>3, <3>4, <3>5, WhoActs
    <2> QED BY <2>5, <2>6
  <1>3. AllowancesArePast'
    <2>1. \/ clock' = clock /\ last_mint_ms' = last_mint_ms
          \/ clock' = clock + 1 /\ last_mint_ms' = last_mint_ms
          \/ \E recipient, holding, definition \in AccountId :
                FaucetMint(recipient, holding, definition)
      BY DerivedAssumption
      DEF ProgramsNext, UserStep, CreateAssociated, TransferAssociated, BurnAssociated,
         OwnerMoves, Tick, allVars
    <2>2. CASE clock' = clock /\ last_mint_ms' = last_mint_ms
      BY <2>2 DEF ProgramsInv, AllowancesArePast
    <2>3. CASE clock' = clock + 1 /\ last_mint_ms' = last_mint_ms
      BY <2>3 DEF ProgramsInv, AllowancesArePast
    <2>4. ASSUME NEW recipient \in AccountId, NEW holding \in AccountId,
                 NEW definition \in AccountId, FaucetMint(recipient, holding, definition)
          PROVE  AllowancesArePast'
      <3>1. /\ last_mint_ms' = [last_mint_ms EXCEPT ![<<recipient, definition>>] = clock]
            /\ clock' = clock
        BY <2>4 DEF FaucetMint, Allowance
      <3> QED BY <3>1 DEF ProgramsInv, AllowancesArePast
    <2> QED BY <2>1, <2>2, <2>3, <2>4
  <1> QED BY <1>1, <1>2, <1>3 DEF ProgramsInv

\* Nothing but a holding is ever at an associated address, and no grant is dated in
\* the future (verify_ata_and_get_seed, faucet_mint).
THEOREM ProgramsAreSound == ProgramsSpec => []ProgramsInv
  <1>1. ProgramsInit => ProgramsInv
    BY ProgramsInitInv
  <1>2. ProgramsInv /\ [ProgramsNext]_allVars => ProgramsInv'
    BY ProgramsNextInv
  <1> QED BY <1>1, <1>2, PTL DEF ProgramsSpec

---------------------------------------------------------------------------
(* Theorems                                                                *)

\* One step, seen from one associated address.
LEMMA OwnerStep ==
    ASSUME ProgramsInv, [ProgramsNext]_allVars, NEW p \in DOMAIN associated,
           TokenOwned(associated[p])
    PROVE  /\ account'[associated[p]].kind = account[associated[p]].kind
           /\ account'[associated[p]].definition_id = account[associated[p]].definition_id
           /\ Units(account'[associated[p]]) < Units(account[associated[p]]) => p[1] \in signed'
  <1>1. PICK a \in AccountId : a = associated[p]
    BY DerivedIsRead
  <1>2. a \notin Key /\ a # MintAuthority /\ TokenOwned(a) /\ IsHolding(account[a])
    BY <1>1, DerivedIsRead DEF ProgramsInv, AssociatedAreHoldings, TokenOwned
  <1>3. account' = account \/ [Next]_vars
    BY WhoActs
  <1>4. account'[a].kind = account[a].kind /\ account'[a].definition_id = account[a].definition_id
    BY <1>2, <1>3, HoldingsStay DEF ProgramsInv
  <1>5. ASSUME Units(account'[a]) < Units(account[a])
        PROVE  p[1] \in signed'
    <2>1. Units(account[a]) \in Nat
      BY UnitsType DEF ProgramsInv, TypeOK
    <2>2. account' # account
      BY <1>5, <2>1
    <2>3. [Next]_vars => a \in authorized'
      BY <1>2, <1>5, DebitStep DEF ProgramsInv
    <2>4. ASSUME NEW owner \in AccountId, NEW definition \in AccountId, NEW ata \in AccountId,
                 InitializeAccount(definition, ata), [Next]_vars, authorized' = {ata}
          PROVE  FALSE
      BY <1>2, <2>3, <2>4, InitializeEffect DEF ProgramsInv, TokenOwned
    <2>5. ASSUME NEW owner \in AccountId, NEW definition \in AccountId, NEW ata \in AccountId,
                 owner \in signed', verify_ata(ata, owner, definition), [Next]_vars,
                 authorized' = {ata}
          PROVE  p[1] \in signed'
      BY <1>1, <2>3, <2>5, DerivedIsRead
    <2> QED BY <1>2, <2>2, <2>3, <2>4, <2>5, WhoActs
  <1> QED BY <1>1, <1>4, <1>5

\* What is at an owner's associated address leaves it only when that owner signed, whatever
\* else anybody signs or chains (ata transfer, burn; verify_ata_and_get_seed).
THEOREM OwnersAlone == ProgramsSpec => OnlyTheOwnerMoves
  <1>1. ProgramsInv /\ [ProgramsNext]_allVars =>
          [\A p \in DOMAIN associated :
             LET a == associated[p]
             IN  TokenOwned(a) =>
                   /\ account'[a].kind = account[a].kind
                   /\ account'[a].definition_id = account[a].definition_id
                   /\ Units(account'[a]) < Units(account[a]) => p[1] \in signed']_allVars
    BY OwnerStep
  <1> QED BY <1>1, ProgramsAreSound, PTL DEF ProgramsSpec, OnlyTheOwnerMoves

\* The grant, if it is one of this definition.
LEMMA GrantStep ==
    ASSUME ProgramsInv, NEW recipient \in AccountId, NEW holding \in AccountId,
           NEW d \in AccountId, FaucetMint(recipient, holding, d)
    PROVE  /\ account'[d].authority = account[d].authority
           /\ account'[d].total_supply = account[d].total_supply + FAUCET_MINT_AMOUNT
           /\ recipient \in signed'
           /\ last_mint_ms[<<recipient, d>>] # NONE =>
                 last_mint_ms[<<recipient, d>>] + MINT_COOLDOWN_MS <= clock
           /\ last_mint_ms'[<<recipient, d>>] = clock
  <1>1. mint_inner(d, holding, MintAuthority, FAUCET_MINT_AMOUNT) /\ d # holding
    BY DEF FaucetMint, MintWithAuthority, Distinct
  <1>2. /\ account[d].kind = "FungibleDefinition" /\ account'[d].kind = account[d].kind
        /\ account'[d].authority = account[d].authority
        /\ Supply(account'[d]) = Supply(account[d]) + FAUCET_MINT_AMOUNT
    BY <1>1, FaucetAssumption, DerivedAssumption, MintEffect DEF ProgramsInv
  <1>3. account'[d].total_supply = account[d].total_supply + FAUCET_MINT_AMOUNT
    BY <1>2 DEF Supply
  <1>4. /\ last_mint_ms[<<recipient, d>>] # NONE =>
              Since(last_mint_ms[<<recipient, d>>]) >= MINT_COOLDOWN_MS
        /\ last_mint_ms' = [last_mint_ms EXCEPT ![<<recipient, d>>] = clock]
        /\ recipient \in signed'
    BY DEF FaucetMint, Allowance
  <1>5. last_mint_ms'[<<recipient, d>>] = clock
    BY <1>4 DEF ProgramsInv, AllowancesArePast
  <1>6. last_mint_ms[<<recipient, d>>] # NONE =>
           last_mint_ms[<<recipient, d>>] \in Nat /\ last_mint_ms[<<recipient, d>>] <= clock
    BY DEF ProgramsInv, AllowancesArePast
  <1>7. clock \in Nat /\ MINT_COOLDOWN_MS \in Nat
    BY FaucetAssumption DEF ProgramsInv, AllowancesArePast
  <1> QED BY <1>2, <1>3, <1>4, <1>5, <1>6, <1>7 DEF Since

\* One step, seen from one definition of the faucet's.
LEMMA RationStep ==
    ASSUME ProgramsInv, [ProgramsNext]_allVars, NEW d \in AccountId,
           account[d].kind = "FungibleDefinition", account[d].authority = MintAuthority
    PROVE  /\ account'[d].authority = MintAuthority
           /\ \/ account'[d].total_supply <= account[d].total_supply
              \/ /\ account'[d].total_supply = account[d].total_supply + FAUCET_MINT_AMOUNT
                 /\ \E r \in signed' :
                      /\ last_mint_ms[<<r, d>>] # NONE =>
                            last_mint_ms[<<r, d>>] + MINT_COOLDOWN_MS <= clock
                      /\ last_mint_ms'[<<r, d>>] = clock
  <1>1. account[d].total_supply \in Nat
    BY KindsAreTagged DEF ProgramsInv, TypeOK, FungibleDefinition, Amount
  <1>2. account'[d] = account[d] =>
          /\ account'[d].authority = MintAuthority
          /\ account'[d].total_supply <= account[d].total_supply
    BY <1>1
  <1>3. CASE d \in Foreign
    <2>1. account' = account \/ [Next]_vars
      BY WhoActs
    <2> QED BY <1>2, <1>3, <2>1, ForeignStays
  <1>4. CASE d \notin Foreign
    <2>1. TokenOwned(d) /\ IsDefinition(account[d]) /\ ~IsHolding(account[d])
      BY <1>4 DEF TokenOwned, Default, IsDefinition, IsHolding
    <2>2. ASSUME [Next]_vars, MintAuthority \notin authorized'
          PROVE  /\ account'[d].authority = MintAuthority
                 /\ account'[d].total_supply <= account[d].total_supply
      BY <2>1, <2>2, DefinitionsStay DEF ProgramsInv
    <2>3. ASSUME NEW owner, NEW definition, NEW ata, verify_ata(ata, owner, definition)
          PROVE  ata # MintAuthority
      BY <2>3, DerivedAssumption DEF verify_ata
    <2>4. ASSUME NEW recipient \in AccountId, NEW holding \in AccountId,
                 NEW definition \in AccountId, FaucetMint(recipient, holding, definition),
                 d # definition
          PROVE  account'[d] = account[d]
      <3>1. /\ mint_inner(definition, holding, MintAuthority, FAUCET_MINT_AMOUNT)
            /\ definition # holding
        BY <2>4 DEF FaucetMint, MintWithAuthority, Distinct
      <3>2. /\ \A id \in AccountId \ {definition, holding} : account'[id] = account[id]
            /\ account[holding] # Default => account[holding].kind = "Fungible"
        BY <3>1, FaucetAssumption, DerivedAssumption, MintEffect DEF ProgramsInv
      <3>3. d # holding
        BY <3>2 DEF Default
      <3> QED BY <2>4, <3>2, <3>3
    <2>5. MintAuthority \notin Key
      BY DerivedAssumption
    <2>6. ASSUME NEW recipient \in AccountId, NEW holding \in AccountId,
                 NEW definition \in AccountId, FaucetMint(recipient, holding, definition)
          PROVE  d = definition \/ account'[d] = account[d]
      BY <2>4, <2>6
    <2>7. CASE \E recipient, holding \in AccountId : FaucetMint(recipient, holding, d)
      BY <2>7, GrantStep
    <2> QED BY <1>2, <2>2, <2>3, <2>5, <2>6, <2>7, WhoActs
  <1> QED BY <1>3, <1>4

\* The faucet's tokens grow by single grants, each a whole cooldown after the one before to the
\* same signer, and stay the faucet's (faucet_mint, mint_with_authority, set_authority).
THEOREM FaucetIsRationed == ProgramsSpec => FaucetSupplyIsRationed
  <1>1. ProgramsInv /\ [ProgramsNext]_allVars =>
          [\A d \in AccountId :
             (account[d].kind = "FungibleDefinition" /\ account[d].authority = MintAuthority) =>
               /\ account'[d].authority = MintAuthority
               /\ \/ account'[d].total_supply <= account[d].total_supply
                  \/ /\ account'[d].total_supply = account[d].total_supply + FAUCET_MINT_AMOUNT
                     /\ \E r \in signed' :
                          /\ last_mint_ms[<<r, d>>] # NONE =>
                                last_mint_ms[<<r, d>>] + MINT_COOLDOWN_MS <= clock
                          /\ last_mint_ms'[<<r, d>>] = clock]_allVars
    BY RationStep
  <1> QED BY <1>1, ProgramsAreSound, PTL DEF ProgramsSpec, FaucetSupplyIsRationed
=============================================================================

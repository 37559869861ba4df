---------------------------- MODULE TokenProofs ----------------------------
(* Theorems of the token program, for every ledger and every balance width. *)
EXTENDS Token, NumberTheorems

USE NoneAssumption, MaxAssumption

\* The data of each kind, from the tag alone.
LEMMA KindsAreTagged ==
    ASSUME NEW a \in AccountData
    PROVE  /\ a.kind = "Fungible" => a \in FungibleHolding
           /\ a.kind = "NftMaster" => a \in NftMaster
           /\ a.kind = "NftPrintedCopy" => a \in NftPrintedCopy
           /\ a.kind = "FungibleDefinition" => a \in FungibleDefinition
           /\ a.kind = "NonFungibleDefinition" => a \in NonFungibleDefinition
           /\ a = Default \/ a.kind \in {"Fungible", "NftMaster", "NftPrintedCopy",
                 "FungibleDefinition", "NonFungibleDefinition", "Metadata"}
           /\ IsHolding(a) <=> a \in TokenHolding
           /\ IsDefinition(a) <=> a \in TokenDefinition
           /\ ~IsHolding(Default) /\ ~IsDefinition(Default)
  BY DEF AccountData, TokenDefinition, TokenHolding, TokenMetadata, Default, FungibleHolding,
         NftMaster, NftPrintedCopy, FungibleDefinition, NonFungibleDefinition, IsHolding,
         IsDefinition

\* Setting the units of a holding changes nothing else about it.
LEMMA WithUnitsType ==
    ASSUME NEW h \in TokenHolding, NEW n \in Amount
    PROVE  /\ WithUnits(h, n) \in TokenHolding
           /\ WithUnits(h, n).kind = h.kind
           /\ WithUnits(h, n).definition_id = h.definition_id
           /\ Units(h) \in Nat
           /\ h.kind # "NftPrintedCopy" => Units(WithUnits(h, n)) = n
           /\ h.kind = "NftPrintedCopy" => Units(WithUnits(h, n)) = IF n > 0 THEN 1 ELSE 0
  <1>1. CASE h \in FungibleHolding
    BY <1>1 DEF WithUnits, Units, TokenHolding, FungibleHolding, Amount
  <1>2. CASE h \in NftMaster
    BY <1>2 DEF WithUnits, Units, TokenHolding, NftMaster, Amount
  <1>3. CASE h \in NftPrintedCopy
    <2>1. WithUnits(h, n) = [h EXCEPT !.owned = n > 0]
      BY <1>3 DEF WithUnits, NftPrintedCopy
    <2>2. h = [kind |-> "NftPrintedCopy", definition_id |-> h.definition_id, owned |-> h.owned]
      BY <1>3 DEF NftPrintedCopy
    <2>3. [h EXCEPT !.owned = n > 0]
            = [kind |-> "NftPrintedCopy", definition_id |-> h.definition_id, owned |-> n > 0]
      BY <2>2
    <2>4. (n > 0) \in BOOLEAN
      OBVIOUS
    <2>5. WithUnits(h, n) \in NftPrintedCopy /\ WithUnits(h, n).owned = (n > 0)
      BY <1>3, <2>1, <2>3, <2>4 DEF NftPrintedCopy
    <2> QED BY <1>3, <2>1, <2>3, <2>5 DEF WithUnits, Units, TokenHolding, NftPrintedCopy, Amount
  <1> QED BY <1>1, <1>2, <1>3 DEF TokenHolding

\* Setting the supply of a definition changes nothing else about it.
LEMMA WithSupplyType ==
    ASSUME NEW d \in TokenDefinition, NEW n \in Amount
    PROVE  /\ WithSupply(d, n) \in TokenDefinition
           /\ WithSupply(d, n).kind = d.kind
           /\ Supply(d) \in Nat
           /\ Supply(WithSupply(d, n)) = n
           /\ d.kind = "FungibleDefinition" =>
                 /\ d.authority \in AccountId \union {NONE}
                 /\ d.total_supply \in Amount
                 /\ WithSupply(d, n).authority = d.authority
                 /\ WithSupply(d, n).total_supply = n
                 /\ Supply(d) = d.total_supply
  <1>1. CASE d \in FungibleDefinition
    BY <1>1 DEF WithSupply, Supply, TokenDefinition, FungibleDefinition, Amount
  <1>2. CASE d \in NonFungibleDefinition
    BY <1>2 DEF WithSupply, Supply, TokenDefinition, NonFungibleDefinition, Amount
  <1> QED BY <1>1, <1>2 DEF TokenDefinition

\* A fresh holding of a definition is a holding of it, and empty.
LEMMA FreshHoldingType ==
    ASSUME NEW id \in AccountId, NEW d
    PROVE  /\ zeroized_from_definition(id, d) \in TokenHolding
           /\ zeroized_from_definition(id, d).definition_id = id
           /\ Units(zeroized_from_definition(id, d)) = 0
           /\ zeroized_from_definition(id, d).kind =
                 IF d.kind = "FungibleDefinition" THEN "Fungible" ELSE "NftPrintedCopy"
           /\ IsHolding(zeroized_from_definition(id, d))
  BY DEF zeroized_from_definition, TokenHolding, FungibleHolding, NftPrintedCopy, Units,
         Amount, IsHolding

\* The recipient side of a transfer: what it held, or an empty copy.
LEMMA ClonedHoldingType ==
    ASSUME NEW h \in TokenHolding
    PROVE  /\ zeroized_clone_from(h) \in TokenHolding
           /\ zeroized_clone_from(h).kind = h.kind
           /\ zeroized_clone_from(h).definition_id = h.definition_id
           /\ Units(zeroized_clone_from(h)) = 0
  <1>1. 0 \in Amount
    BY DEF Amount
  <1> QED BY <1>1, WithUnitsType DEF zeroized_clone_from

---------------------------------------------------------------------------
(* Type correctness                                                        *)

\* Two accounts at most are written with new data; the other ones keep theirs.
LEMMA WritesKeepTypes ==
    ASSUME TypeOK, authorized' \subseteq AccountId,
           NEW x \in AccountId, NEW y \in AccountId, NEW A \in AccountData, NEW B \in AccountData,
           account' = [account EXCEPT ![x] = A, ![y] = B]
    PROVE  TypeOK'
  BY DEF TypeOK

\* What a transfer does: the same units leave one holding and reach another of
\* the same kind and token; another program's account can only give nothing.
LEMMA TransferEffect ==
    ASSUME TypeOK, NEW s \in AccountId, NEW r \in AccountId, NEW n \in Amount, Transfer(s, r, n)
    PROVE  /\ TypeOK'
           /\ s # r /\ s \in authorized'
           /\ \A id \in AccountId \ {s, r} : account'[id] = account[id]
           /\ IsHolding(account[s])
           /\ account'[s].kind = account[s].kind /\ account'[r].kind = account[s].kind
           /\ account'[s].definition_id = account[s].definition_id
           /\ account'[r].definition_id = account[s].definition_id
           /\ Units(account'[s]) = Units(account[s]) - n
           /\ account[r] = Default => Units(account'[r]) = n
           /\ account[r] # Default =>
                 /\ account[r].kind = account[s].kind
                 /\ account[r].definition_id = account[s].definition_id
                 /\ Units(account'[r]) = Units(account[r]) + n
           /\ account[s].kind = "NftMaster" =>
                 n = Units(account[s]) /\ (account[r] = Default \/ Units(account[r]) = 0)
           /\ s \in Foreign => n = 0
  <1> DEFINE from == account[s]
             to == IF account[r] = Default THEN zeroized_clone_from(from) ELSE account[r]
             A == WithUnits(from, Units(from) - n)
             B == WithUnits(to, Units(to) + n)
  <1>1. from \in TokenHolding /\ to \in TokenHolding
    BY KindsAreTagged, ClonedHoldingType DEF Transfer, TypeOK
  <1>2. /\ Transferable(from, to, n) /\ IsHolding(from) /\ IsHolding(to) /\ s # r
        /\ from.definition_id = to.definition_id /\ from.kind = to.kind
    BY DEF Transfer, SameToken, Transferable
  <1>3. /\ Units(from) - n \in Amount /\ Units(to) + n \in Amount
        /\ from.kind = "NftPrintedCopy" => n = 1 /\ Units(from) = 1 /\ Units(to) = 0
        /\ from.kind = "NftMaster" => n = Units(from) /\ Units(to) = 0
    <2>1. CASE from.kind = "Fungible"
      <3>1. from \in FungibleHolding /\ to \in FungibleHolding
        BY <1>1, <1>2, <2>1 DEF TokenHolding, FungibleHolding, NftMaster, NftPrintedCopy
      <3>2. Units(from) = from.balance /\ Units(to) = to.balance
        BY <1>2, <2>1 DEF Units
      <3>3. from.balance >= n /\ to.balance + n <= U128_MAX
        BY <1>2, <2>1 DEF Transferable
      <3> HIDE DEF from, to
      <3> QED BY <2>1, <3>1, <3>2, <3>3 DEF FungibleHolding, Amount
    <2>2. CASE from.kind = "NftMaster"
      <3>1. Units(from) = from.print_balance /\ Units(to) = to.print_balance
        BY <1>2, <2>2 DEF Units
      <3>2. to.print_balance = 0 /\ from.print_balance = n
        BY <1>2, <2>2 DEF Transferable
      <3> QED BY <2>2, <3>1, <3>2 DEF Amount
    <2>3. CASE from.kind = "NftPrintedCopy"
      <3>1. n = 1 /\ from.owned /\ ~to.owned
        BY <1>2, <2>3 DEF Transferable
      <3>2. Units(from) = 1
        <4> HIDE DEF from, to
        <4> QED BY <2>3, <3>1, Zenon DEF Units
      <3>3. Units(to) = 0
        <4> HIDE DEF from, to
        <4> QED BY <1>2, <2>3, <3>1, Zenon DEF Units
      <3>4. n = 1
        BY <3>1
      <3> HIDE DEF from, to
      <3> QED BY <2>3, <3>2, <3>3, <3>4 DEF Amount
    <2> QED BY <1>2, <2>1, <2>2, <2>3 DEF IsHolding
  <1>4. /\ A \in TokenHolding /\ A.kind = from.kind /\ A.definition_id = from.definition_id
        /\ Units(A) = Units(from) - n
    <2> HIDE DEF from, to
    <2>1. /\ A \in TokenHolding /\ A.kind = from.kind /\ A.definition_id = from.definition_id
          /\ from.kind # "NftPrintedCopy" => Units(A) = Units(from) - n
          /\ from.kind = "NftPrintedCopy" => Units(A) = IF Units(from) - n > 0 THEN 1 ELSE 0
      BY <1>1, <1>3, WithUnitsType
    <2> QED BY <1>3, <2>1
  <1>5. /\ B \in TokenHolding /\ B.kind = to.kind /\ B.definition_id = to.definition_id
        /\ Units(B) = Units(to) + n
    <2> HIDE DEF from, to
    <2>1. /\ B \in TokenHolding /\ B.kind = to.kind /\ B.definition_id = to.definition_id
          /\ to.kind # "NftPrintedCopy" => Units(B) = Units(to) + n
          /\ to.kind = "NftPrintedCopy" => Units(B) = IF Units(to) + n > 0 THEN 1 ELSE 0
      BY <1>1, <1>3, WithUnitsType
    <2> QED BY <1>2, <1>3, <2>1
  <1>6. account' = [account EXCEPT ![s] = A, ![r] = B] /\ authorized' \subseteq AccountId
        /\ s \in authorized'
    BY DEF Transfer, Transaction
  <1> HIDE DEF A, B
  <1>7. TypeOK'
    BY <1>4, <1>5, <1>6, WritesKeepTypes DEF AccountData
  <1>8. /\ account'[s] = A /\ account'[r] = B
        /\ \A id \in AccountId \ {s, r} : account'[id] = account[id]
    BY <1>2, <1>6 DEF TypeOK
  <1>9. account[r] = Default => Units(to) = 0
    BY <1>1, ClonedHoldingType
  <1>10. s \in Foreign => n = 0
    <2>1. s \in Foreign => A = from
      BY <1>8 DEF Transfer, OwnershipRespected
    <2>2. Units(from) \in Nat
      BY <1>1, WithUnitsType
    <2> QED BY <1>4, <2>1, <2>2 DEF Amount
  <1>11. account[r] = Default => Units(account'[r]) = n
    BY <1>5, <1>8, <1>9 DEF Amount
  <1> QED BY <1>2, <1>3, <1>4, <1>5, <1>6, <1>7, <1>8, <1>10, <1>11

\* What a burn does: a holding of the definition and its supply both shrink.
LEMMA BurnEffect ==
    ASSUME TypeOK, NEW x \in AccountId, NEW y \in AccountId, NEW n \in Amount, Burn(x, y, n)
    PROVE  /\ TypeOK'
           /\ x # y /\ y \in authorized'
           /\ \A id \in AccountId \ {x, y} : account'[id] = account[id]
           /\ IsDefinition(account[x]) /\ account'[x].kind = account[x].kind
           /\ account[x].kind = "FungibleDefinition" =>
                 /\ account'[x].authority = account[x].authority
                 /\ account'[x].total_supply <= account[x].total_supply
           /\ IsHolding(account[y]) /\ account'[y].kind = account[y].kind
           /\ account[y].definition_id = x /\ account'[y].definition_id = x
           /\ Units(account'[y]) = Units(account[y]) - n
           /\ Supply(account'[x]) = Supply(account[x]) - n
  <1> DEFINE d == account[x]
             h == account[y]
             A == WithSupply(d, Supply(d) - n)
             B == WithUnits(h, Units(h) - n)
  <1>1. d \in TokenDefinition /\ h \in TokenHolding /\ IsDefinition(d) /\ IsHolding(h)
    BY KindsAreTagged DEF Burn, KindsMatch, TypeOK, IsHolding, IsDefinition
  <1>2. Supply(d) - n \in Amount /\ Supply(d) >= n
    BY <1>1 DEF Burn, Supply, TokenDefinition, FungibleDefinition, NonFungibleDefinition, Amount
  <1>3. Units(h) - n \in Amount /\ (h.kind = "NftPrintedCopy" => n = 1 /\ Units(h) = 1)
    <2>1. Units(h) >= n /\ (h.kind = "NftPrintedCopy" => n = 1)
      BY DEF Burn
    <2>2. CASE h \in FungibleHolding \union NftMaster
      BY <2>1, <2>2 DEF Units, FungibleHolding, NftMaster, Amount
    <2>3. CASE h \in NftPrintedCopy
      <3>1. h.kind = "NftPrintedCopy"
        BY <2>3 DEF NftPrintedCopy
      <3>2. Units(h) \in {0, 1}
        BY <3>1 DEF Units
      <3> QED BY <3>1, <3>2, <2>1 DEF Amount
    <2> QED BY <1>1, <2>2, <2>3 DEF TokenHolding
  <1>4. account' = [account EXCEPT ![x] = A, ![y] = B] /\ x # y /\ y \in authorized'
        /\ authorized' \subseteq AccountId /\ h.definition_id = x
    BY DEF Burn, Transaction
  <1> HIDE DEF d, h
  <1>5. /\ A \in AccountData /\ A.kind = d.kind /\ Supply(A) = Supply(d) - n
        /\ d.kind = "FungibleDefinition" =>
              A.authority = d.authority /\ A.total_supply <= d.total_supply
    <2>1. A \in TokenDefinition /\ A.kind = d.kind /\ Supply(A) = Supply(d) - n
      BY <1>1, <1>2, WithSupplyType
    <2>2. CASE d.kind = "FungibleDefinition"
      <3>1. /\ A.authority = d.authority /\ A.total_supply = Supply(d) - n
            /\ Supply(d) = d.total_supply
        BY <1>1, <1>2, <2>2, WithSupplyType
      <3> HIDE DEF A
      <3> QED BY <1>1, <2>1, <3>1, WithSupplyType DEF AccountData, Amount
    <2> QED BY <2>1, <2>2 DEF AccountData
  <1>6. /\ B \in AccountData /\ B.kind = h.kind /\ B.definition_id = h.definition_id
        /\ Units(B) = Units(h) - n
    <2>1. /\ B \in TokenHolding /\ B.kind = h.kind /\ B.definition_id = h.definition_id
          /\ h.kind # "NftPrintedCopy" => Units(B) = Units(h) - n
          /\ h.kind = "NftPrintedCopy" => Units(B) = IF Units(h) - n > 0 THEN 1 ELSE 0
      BY <1>1, <1>3, WithUnitsType
    <2> QED BY <1>3, <2>1 DEF AccountData
  <1> HIDE DEF A, B
  <1>7. TypeOK'
    BY <1>4, <1>5, <1>6, WritesKeepTypes
  <1>8. /\ account'[x] = A /\ account'[y] = B
        /\ \A id \in AccountId \ {x, y} : account'[id] = account[id]
    BY <1>4 DEF TypeOK
  <1> QED BY <1>1, <1>4, <1>5, <1>6, <1>7, <1>8 DEF d, h

\* What a mint does: under the stored authority, a fungible holding of the
\* definition (a fresh one, or one it has) grows with the supply.
LEMMA MintEffect ==
    ASSUME TypeOK, NEW x \in AccountId, NEW y \in AccountId, NEW z \in AccountId,
           NEW n \in Amount, mint_inner(x, y, z, n), x # y
    PROVE  /\ TypeOK'
           /\ \A id \in AccountId \ {x, y} : account'[id] = account[id]
           /\ TokenOwned(x) /\ account[x].kind = "FungibleDefinition"
           /\ account'[x].kind = account[x].kind
           /\ account'[x].authority = account[x].authority
           /\ account[x].authority \in authorized'
           /\ account'[y].kind = "Fungible" /\ account'[y].definition_id = x
           /\ account[y] # Default =>
                 /\ account[y].kind = "Fungible" /\ account[y].definition_id = x
                 /\ Units(account'[y]) >= Units(account[y])
           /\ account[x].authority # NONE
           /\ Supply(account'[x]) = Supply(account[x]) + n
           /\ Units(account'[y]) = n + IF account[y] = Default THEN 0 ELSE Units(account[y])
  <1> DEFINE d == account[x]
             h == IF account[y] = Default THEN zeroized_from_definition(x, d) ELSE account[y]
             A == WithSupply(d, d.total_supply + n)
             B == WithUnits(h, h.balance + n)
  <1>1. d \in FungibleDefinition /\ h \in FungibleHolding
    BY KindsAreTagged, FreshHoldingType DEF mint_inner, TypeOK, zeroized_from_definition,
       FungibleHolding, Amount
  <1>2. /\ d.kind = "FungibleDefinition" /\ h.kind = "Fungible" /\ h.definition_id = x
        /\ account' = [account EXCEPT ![x] = A, ![y] = B] /\ authorized' \subseteq AccountId
        /\ TokenOwned(x) /\ d.authority \in authorized' /\ d.authority # NONE
    BY DEF mint_inner, ProvesAuthority, Transaction
  <1>3. d.total_supply + n \in Amount /\ h.balance + n \in Amount
    BY <1>1 DEF mint_inner, FungibleDefinition, FungibleHolding, Amount
  <1>4. /\ account[y] # Default => h = account[y]
        /\ account[y] = Default => Units(h) = 0
    BY FreshHoldingType
  <1>5. Units(h) = h.balance /\ h.balance + n >= h.balance
    <2> HIDE DEF h
    <2> QED BY <1>1, <1>2 DEF Units, FungibleHolding, Amount
  <1> HIDE DEF d, h
  <1>6. /\ A \in TokenDefinition /\ A.kind = d.kind /\ A.authority = d.authority
        /\ Supply(A) = Supply(d) + n
    BY <1>1, <1>2, <1>3, WithSupplyType DEF TokenDefinition
  <1>7. /\ B \in TokenHolding /\ B.kind = h.kind /\ B.definition_id = h.definition_id
        /\ Units(B) = h.balance + n /\ Units(B) = n + h.balance
    <2>1. /\ B \in TokenHolding /\ B.kind = h.kind /\ B.definition_id = h.definition_id
          /\ Units(B) = h.balance + n
      BY <1>1, <1>2, <1>3, WithUnitsType DEF TokenHolding
    <2>2. h.balance + n = n + h.balance
      BY <1>1 DEF FungibleHolding, Amount
    <2> QED BY <2>1, <2>2
  <1> HIDE DEF A, B
  <1>8. TypeOK'
    BY <1>2, <1>6, <1>7, WritesKeepTypes DEF AccountData
  <1>9. /\ account'[x] = A /\ account'[y] = B
        /\ \A id \in AccountId \ {x, y} : account'[id] = account[id]
    BY <1>2 DEF TypeOK
  <1> QED BY <1>2, <1>4, <1>5, <1>6, <1>7, <1>8, <1>9 DEF d

\* What setting the authority does: one definition changes, under the authority
\* it had.
LEMMA SetAuthorityEffect ==
    ASSUME TypeOK, NEW x \in AccountId, NEW y \in AccountId,
           NEW m \in AccountId \union {NONE, ZeroId}, set_authority_inner(x, y, m)
    PROVE  /\ TypeOK'
           /\ \A id \in AccountId \ {x} : account'[id] = account[id]
           /\ account[x].kind = "FungibleDefinition" /\ account'[x].kind = account[x].kind
           /\ account[x].authority \in authorized' /\ account[x].authority # NONE
           /\ Supply(account'[x]) = Supply(account[x])
  <1>1. account[x] \in FungibleDefinition
    BY KindsAreTagged DEF set_authority_inner, TypeOK
  <1>2. [account[x] EXCEPT !.authority = m] \in FungibleDefinition
    BY <1>1 DEF set_authority_inner, validate_mint_authority, FungibleDefinition
  <1> QED BY <1>1, <1>2 DEF set_authority_inner, ProvesAuthority, Transaction, TypeOK,
             FungibleDefinition, AccountData, TokenDefinition, Supply

\* What defining a token does: a definition and one holding of it appear on
\* accounts that were empty.
LEMMA NewDefinitionEffect ==
    ASSUME TypeOK, NEW x \in AccountId, NEW y \in AccountId, NEW z \in AccountId,
           NEW n \in Amount, NEW m \in AccountId \union {NONE, ZeroId},
           NEW fungible \in BOOLEAN,
           \/ NewFungibleDefinition(x, y, n, m)
           \/ NewDefinitionWithMetadata(x, y, z, fungible, n, m)
    PROVE  /\ TypeOK'
           /\ x # y /\ x \notin Foreign /\ account[x] = Default /\ account[y] = Default
           /\ \A id \in AccountId : account[id] # Default => account'[id] = account[id]
           /\ \A id \in AccountId \ {y} : IsHolding(account'[id]) => account'[id] = account[id]
           /\ IsHolding(account'[y]) /\ account'[y].definition_id = x
           /\ account'[x].kind = IF account'[y].kind = "Fungible"
                                 THEN "FungibleDefinition" ELSE "NonFungibleDefinition"
           /\ \A id \in AccountId \ {x} : IsDefinition(account'[id]) => account'[id] = account[id]
           /\ Supply(account'[x]) = n /\ Units(account'[y]) = n
  <1>1. CASE NewFungibleDefinition(x, y, n, m)
    <2>1. TypeOK'
      BY <1>1 DEF NewFungibleDefinition, TypeOK, Transaction, AccountData, TokenDefinition,
         TokenHolding, FungibleDefinition, FungibleHolding, validate_mint_authority
    <2> QED BY <1>1, <2>1 DEF NewFungibleDefinition, TypeOK, IsHolding, OwnershipRespected,
            Default, IsDefinition, Supply, Units
  <1>2. CASE NewDefinitionWithMetadata(x, y, z, fungible, n, m)
    <2>1. CASE fungible
      <3>1. TypeOK'
        BY <1>2, <2>1 DEF NewDefinitionWithMetadata, TypeOK, Transaction, AccountData,
           TokenDefinition, TokenHolding, FungibleDefinition, FungibleHolding, TokenMetadata,
           validate_mint_authority, Distinct
      <3> QED BY <1>2, <2>1, <3>1 DEF NewDefinitionWithMetadata, TypeOK, IsHolding,
              OwnershipRespected, Default, Distinct, IsDefinition, Supply, Units
    <2>2. CASE ~fungible
      <3>1. TypeOK'
        BY <1>2, <2>2 DEF NewDefinitionWithMetadata, TypeOK, Transaction, AccountData,
           TokenDefinition, TokenHolding, NonFungibleDefinition, NftMaster, TokenMetadata,
           Distinct
      <3> QED BY <1>2, <2>2, <3>1 DEF NewDefinitionWithMetadata, TypeOK, IsHolding,
              OwnershipRespected, Default, Distinct, IsDefinition, Supply, Units
    <2> QED BY <2>1, <2>2
  <1> QED BY <1>1, <1>2

\* What initialising a holding does: an empty holding appears on an empty account.
LEMMA InitializeEffect ==
    ASSUME TypeOK, NEW x \in AccountId, NEW y \in AccountId, InitializeAccount(x, y)
    PROVE  /\ TypeOK'
           /\ account[y] = Default
           /\ \A id \in AccountId \ {y} : account'[id] = account[id]
           /\ IsHolding(account'[y]) /\ Units(account'[y]) = 0
  <1>1. zeroized_from_definition(x, account[x]) \in AccountData
    BY FreshHoldingType DEF AccountData
  <1>2. account' = [account EXCEPT ![y] = zeroized_from_definition(x, account[x])]
        /\ account[y] = Default /\ authorized' \subseteq AccountId
    BY DEF InitializeAccount, Transaction
  <1> QED BY <1>1, <1>2, FreshHoldingType DEF TypeOK

\* What printing does: a master with prints to spare gives one to a new copy.
LEMMA PrintEffect ==
    ASSUME TypeOK, NEW x \in AccountId, NEW y \in AccountId, PrintNft(x, y)
    PROVE  /\ TypeOK'
           /\ x # y /\ x \in authorized' /\ x \notin Foreign /\ account[y] = Default
           /\ \A id \in AccountId \ {x, y} : account'[id] = account[id]
           /\ account[x].kind = "NftMaster" /\ account'[x].kind = "NftMaster"
           /\ account'[x].definition_id = account[x].definition_id
           /\ Units(account[x]) > 1 /\ Units(account'[x]) = Units(account[x]) - 1
           /\ account'[y].kind = "NftPrintedCopy" /\ Units(account'[y]) = 1
           /\ account'[y].definition_id = account[x].definition_id
  <1> DEFINE m == account[x]
             A == WithUnits(m, m.print_balance - 1)
             B == [kind |-> "NftPrintedCopy", definition_id |-> m.definition_id, owned |-> TRUE]
  <1>1. m \in NftMaster /\ m.kind = "NftMaster" /\ Units(m) = m.print_balance
    BY KindsAreTagged DEF PrintNft, TypeOK, Units
  <1>2. m.print_balance - 1 \in Amount /\ m.print_balance > 1
    BY <1>1 DEF PrintNft, NftMaster, Amount
  <1>3. /\ A \in TokenHolding /\ A.kind = "NftMaster" /\ A.definition_id = m.definition_id
        /\ Units(A) = m.print_balance - 1
    BY <1>1, <1>2, WithUnitsType DEF TokenHolding
  <1>4. B \in TokenHolding
    BY <1>1 DEF TokenHolding, NftPrintedCopy, NftMaster
  <1>5. /\ account' = [account EXCEPT ![x] = A, ![y] = B] /\ authorized' \subseteq AccountId
        /\ x # y /\ x \in authorized' /\ account[y] = Default
    BY DEF PrintNft, Transaction
  <1>6. B.kind = "NftPrintedCopy" /\ B.definition_id = m.definition_id /\ Units(B) = 1
    BY DEF Units
  <1> HIDE DEF A, B
  <1>7. TypeOK'
    BY <1>3, <1>4, <1>5, WritesKeepTypes DEF AccountData
  <1>8. /\ account'[x] = A /\ account'[y] = B
        /\ \A id \in AccountId \ {x, y} : account'[id] = account[id]
    BY <1>5 DEF TypeOK
  <1>9. x \notin Foreign
    <2>1. x \in Foreign => A = m
      BY <1>8 DEF PrintNft, OwnershipRespected
    <2> HIDE DEF m
    <2>2. m.print_balance \in Nat
      BY <1>1 DEF NftMaster, Amount
    <2> QED BY <1>1, <1>3, <2>1, <2>2
  <1> QED BY <1>1, <1>2, <1>3, <1>5, <1>6, <1>7, <1>8, <1>9

---------------------------------------------------------------------------
(* Theorems of the specification                                           *)

\* The kinds of step a proof has to look at.
LEMMA StepCases ==
    ASSUME [Next]_vars
    PROVE  \/ UNCHANGED vars
           \/ \E s, r \in AccountId, n \in Amount : Transfer(s, r, n)
           \/ \E x, y \in AccountId, n \in Amount : Burn(x, y, n)
           \/ \E x, y, z \in AccountId, n \in Amount : x # y /\ mint_inner(x, y, z, n)
           \/ \E x, y \in AccountId, m \in AccountId \union {NONE, ZeroId} :
                 set_authority_inner(x, y, m)
           \/ \E x, y, z \in AccountId, n \in Amount, m \in AccountId \union {NONE, ZeroId},
                 fungible \in BOOLEAN :
                 \/ NewFungibleDefinition(x, y, n, m)
                 \/ NewDefinitionWithMetadata(x, y, z, fungible, n, m)
           \/ \E x, y \in AccountId : InitializeAccount(x, y)
           \/ \E x, y \in AccountId : PrintNft(x, y)
  BY DEF Next, AccountNext, Unused, SupplyNext, Mint, MintWithAuthority, SetAuthority,
         SetAuthorityWithAuthority, Distinct

\* No step writes data of any other type.
LEMMA StepTypes == TypeOK /\ [Next]_vars => TypeOK'
  <1> SUFFICES ASSUME TypeOK, [Next]_vars PROVE TypeOK'
    OBVIOUS
  <1>1. CASE UNCHANGED vars
    BY <1>1 DEF vars, TypeOK
  <1> QED BY <1>1, StepCases, TransferEffect, BurnEffect, MintEffect, SetAuthorityEffect,
             NewDefinitionEffect, InitializeEffect, PrintEffect

\* Every account keeps data of one of the program's types, and no definition is
\* ever given the all-zero authority.
THEOREM TypeCorrect == Spec => []TypeOK
  <1>1. Init => TypeOK
    BY SpoofedAssumption DEF Init, TypeOK, AccountData
  <1> QED BY <1>1, StepTypes, PTL DEF Spec

\* A definition stays a definition of its kind, and what it stores about minting
\* changes only under the authority it has.
LEMMA DefinitionsStay ==
    ASSUME TypeOK, [Next]_vars, NEW id \in AccountId, TokenOwned(id), IsDefinition(account[id])
    PROVE  /\ TokenOwned(id)' /\ account'[id].kind = account[id].kind
           /\ account[id].kind = "FungibleDefinition" =>
                 \/ account[id].authority # NONE /\ account[id].authority \in authorized'
                 \/ /\ account'[id].authority = account[id].authority
                    /\ account'[id].total_supply <= account[id].total_supply
  <1> DEFINE Kept == /\ account'[id].kind = account[id].kind
                     /\ account[id].kind = "FungibleDefinition" =>
                           \/ account[id].authority # NONE /\ account[id].authority \in authorized'
                           \/ /\ account'[id].authority = account[id].authority
                              /\ account'[id].total_supply <= account[id].total_supply
  <1>1. account'[id] = account[id] => Kept
    <2>1. account[id].kind = "FungibleDefinition" => account[id].total_supply \in Nat
      BY KindsAreTagged DEF TypeOK, FungibleDefinition, Amount
    <2> QED BY <2>1
  <1>2. UNCHANGED vars => Kept
    BY <1>1 DEF vars
  <1>3. ASSUME NEW s \in AccountId, NEW r \in AccountId, NEW n \in Amount, Transfer(s, r, n)
        PROVE  Kept
    <2>1. id \notin {s, r}
      BY <1>3, TransferEffect DEF IsDefinition, IsHolding, TokenOwned
    <2> QED BY <1>1, <1>3, <2>1, TransferEffect
  <1>4. ASSUME NEW x \in AccountId, NEW y \in AccountId, NEW n \in Amount, Burn(x, y, n)
        PROVE  Kept
    <2>1. id # y
      BY <1>4, BurnEffect DEF IsDefinition, IsHolding
    <2> QED BY <1>1, <1>4, <2>1, BurnEffect
  <1>5. ASSUME NEW x \in AccountId, NEW y \in AccountId, NEW z \in AccountId,
               NEW n \in Amount, x # y, mint_inner(x, y, z, n)
        PROVE  Kept
    <2>1. id # y
      BY <1>5, MintEffect DEF IsDefinition, TokenOwned
    <2> QED BY <1>1, <1>5, <2>1, MintEffect
  <1>6. ASSUME NEW x \in AccountId, NEW y \in AccountId,
               NEW m \in AccountId \union {NONE, ZeroId}, set_authority_inner(x, y, m)
        PROVE  Kept
    BY <1>1, <1>6, SetAuthorityEffect
  <1>7. ASSUME NEW x \in AccountId, NEW y \in AccountId, NEW z \in AccountId,
               NEW n \in Amount, NEW m \in AccountId \union {NONE, ZeroId},
               NEW fungible \in BOOLEAN,
               \/ NewFungibleDefinition(x, y, n, m)
               \/ NewDefinitionWithMetadata(x, y, z, fungible, n, m)
        PROVE  Kept
    BY <1>1, <1>7, NewDefinitionEffect DEF TokenOwned
  <1>8. ASSUME NEW x \in AccountId, NEW y \in AccountId, InitializeAccount(x, y)
        PROVE  Kept
    BY <1>1, <1>8, InitializeEffect DEF TokenOwned
  <1>9. ASSUME NEW x \in AccountId, NEW y \in AccountId, PrintNft(x, y)
        PROVE  Kept
    <2>1. id \notin {x, y}
      BY <1>9, PrintEffect DEF IsDefinition, TokenOwned
    <2> QED BY <1>1, <1>9, <2>1, PrintEffect
  <1>10. Kept
    BY <1>2, <1>3, <1>4, <1>5, <1>6, <1>7, <1>8, <1>9, StepCases
  <1>11. account'[id] # Default
    BY <1>10 DEF Default, IsDefinition
  <1> QED BY <1>10, <1>11 DEF TokenOwned

\* The supply and the mint authority of a definition answer to that authority.
THEOREM AuthorityIsObeyed == Spec => AuthorityControlsSupply
  <1>1. TypeOK /\ [Next]_vars =>
          [\A id \in AccountId :
             TokenOwned(id) /\ account[id].kind = "FungibleDefinition" =>
                 \/ account[id].authority \in authorized'
                 \/ /\ account'[id].authority = account[id].authority
                    /\ account'[id].total_supply <= account[id].total_supply]_vars
    BY DefinitionsStay DEF IsDefinition
  <1> QED BY <1>1, TypeCorrect, PTL DEF Spec, AuthorityControlsSupply

\* A renounced authority never returns, and nothing is minted without one.
THEOREM RenouncingIsFinal == Spec => RenouncedForever
  <1>1. TypeOK /\ [Next]_vars =>
          [\A id \in AccountId :
             (TokenOwned(id) /\ account[id].kind = "FungibleDefinition"
                             /\ account[id].authority = NONE) =>
                 /\ account'[id].kind = "FungibleDefinition"
                 /\ account'[id].authority = NONE
                 /\ account'[id].total_supply <= account[id].total_supply]_vars
    BY DefinitionsStay DEF IsDefinition
  <1> QED BY <1>1, TypeCorrect, PTL DEF Spec, RenouncedForever

\* The units of every kind of account are a number.
LEMMA UnitsType ==
    ASSUME NEW a \in AccountData
    PROVE  /\ Units(a) \in Nat
           /\ ~IsHolding(a) => Units(a) = 0
           /\ a = Default => Units(a) = 0
  <1>1. CASE IsHolding(a)
    BY <1>1, KindsAreTagged, WithUnitsType DEF Amount
  <1>2. CASE ~IsHolding(a)
    BY <1>2 DEF Units, IsHolding
  <1> QED BY <1>1, <1>2, KindsAreTagged

\* One step that takes value from a holding, authorized by that holding.
LEMMA DebitStep ==
    ASSUME TypeOK, [Next]_vars, NEW id \in AccountId, TokenOwned(id),
           Units(account'[id]) < Units(account[id])
    PROVE  id \in authorized'
  <1>1. account'[id] # account[id] /\ account[id] # Default /\ IsHolding(account[id])
    <2>1. Units(account[id]) \in Nat /\ (~IsHolding(account[id]) => Units(account[id]) = 0)
      BY UnitsType DEF TypeOK
    <2>2. TypeOK' => Units(account'[id]) \in Nat
      BY UnitsType DEF TypeOK
    <2>3. TypeOK'
      BY StepTypes
    <2> QED BY <2>1, <2>2, <2>3 DEF TokenOwned
  <1>2. Units(account[id]) \in Nat
    BY UnitsType DEF TypeOK
  <1>3. ASSUME NEW s \in AccountId, NEW r \in AccountId, NEW n \in Amount, Transfer(s, r, n)
        PROVE  id \in authorized'
    <2>1. id # r
      BY <1>1, <1>2, <1>3, TransferEffect DEF Amount
    <2> QED BY <1>1, <1>3, <2>1, TransferEffect
  <1>4. ASSUME NEW x \in AccountId, NEW y \in AccountId, NEW n \in Amount, Burn(x, y, n)
        PROVE  id \in authorized'
    <2>1. id # x
      BY <1>1, <1>4, BurnEffect DEF IsHolding, IsDefinition
    <2> QED BY <1>1, <1>4, <2>1, BurnEffect
  <1>5. ASSUME NEW x \in AccountId, NEW y \in AccountId, NEW z \in AccountId,
               NEW n \in Amount, x # y, mint_inner(x, y, z, n)
        PROVE  FALSE
    <2>1. id # x
      BY <1>1, <1>5, MintEffect DEF IsHolding
    <2>2. id = y
      BY <1>1, <1>5, <2>1, MintEffect
    <2>3. Units(account'[y]) >= Units(account[y]) /\ TypeOK'
      BY <1>1, <1>5, <2>2, MintEffect
    <2>4. Units(account'[y]) \in Nat
      BY <2>3, UnitsType DEF TypeOK
    <2> QED BY <1>2, <2>2, <2>3, <2>4
  <1>6. ASSUME NEW x \in AccountId, NEW y \in AccountId,
               NEW m \in AccountId \union {NONE, ZeroId}, set_authority_inner(x, y, m)
        PROVE  FALSE
    BY <1>1, <1>6, SetAuthorityEffect DEF IsHolding
  <1>7. ASSUME NEW x \in AccountId, NEW y \in AccountId, NEW z \in AccountId,
               NEW n \in Amount, NEW m \in AccountId \union {NONE, ZeroId},
               NEW fungible \in BOOLEAN,
               \/ NewFungibleDefinition(x, y, n, m)
               \/ NewDefinitionWithMetadata(x, y, z, fungible, n, m)
        PROVE  FALSE
    BY <1>1, <1>7, NewDefinitionEffect
  <1>8. ASSUME NEW x \in AccountId, NEW y \in AccountId, InitializeAccount(x, y)
        PROVE  FALSE
    BY <1>1, <1>8, InitializeEffect
  <1>9. ASSUME NEW x \in AccountId, NEW y \in AccountId, PrintNft(x, y)
        PROVE  id \in authorized'
    BY <1>1, <1>9, PrintEffect
  <1>10. ~UNCHANGED vars
    BY <1>1 DEF vars
  <1> QED BY <1>3, <1>4, <1>5, <1>6, <1>7, <1>8, <1>9, <1>10, StepCases

\* Value leaves a holding only under that holding's authorization.
THEOREM DebitsAreAuthorized == Spec => NoDebitWithoutAuthorization
  <1>1. TypeOK /\ [Next]_vars =>
          [\A id \in AccountId :
             TokenOwned(id) /\ Units(account'[id]) < Units(account[id]) => id \in authorized']_vars
    BY DebitStep
  <1> QED BY <1>1, TypeCorrect, PTL DEF Spec, NoDebitWithoutAuthorization

---------------------------------------------------------------------------
(* What stands behind a holding                                            *)

\* Where value comes from: a holding of the token that has some, or a definition
\* that is there when it appears.
LEMMA ValueHasAnOrigin ==
    ASSUME TypeOK, [Next]_vars, NEW id \in AccountId, TokenOwned(id)',
           IsHolding(account'[id]), Units(account'[id]) > 0
    PROVE  \/ \E j \in AccountId :
                 /\ TokenOwned(j) /\ IsHolding(account[j]) /\ Units(account[j]) > 0
                 /\ account[j].definition_id = account'[id].definition_id
                 /\ (account[j].kind = "Fungible") <=> (account'[id].kind = "Fungible")
           \/ Backed(id)'
  <1> DEFINE Origin == \E j \in AccountId :
                 /\ TokenOwned(j) /\ IsHolding(account[j]) /\ Units(account[j]) > 0
                 /\ account[j].definition_id = account'[id].definition_id
                 /\ (account[j].kind = "Fungible") <=> (account'[id].kind = "Fungible")
  <1>1. id \notin Foreign /\ account'[id] # Default
    BY DEF TokenOwned
  <1>2. account'[id] = account[id] => Origin
    BY <1>1 DEF TokenOwned
  <1>3. \A j \in AccountId : Units(account[j]) \in Nat
    BY UnitsType DEF TypeOK
  <1>4. UNCHANGED vars => Origin
    BY <1>2 DEF vars
  <1>5. ASSUME NEW s \in AccountId, NEW r \in AccountId, NEW n \in Amount, Transfer(s, r, n)
        PROVE  Origin
    <2>1. CASE id = s
      <3>1. account[s] # Default /\ Units(account[s]) > 0
        BY <1>3, <1>5, <2>1, TransferEffect DEF Amount, IsHolding, Default
      <3> QED BY <1>1, <1>5, <2>1, <3>1, TransferEffect DEF TokenOwned
    <2>2. CASE id = r
      <3>1. CASE account[r] # Default /\ Units(account[r]) > 0
        BY <1>1, <1>5, <2>2, <3>1, TransferEffect DEF TokenOwned, IsHolding
      <3>2. CASE ~(account[r] # Default /\ Units(account[r]) > 0)
        <4>1. n > 0
          BY <1>3, <1>5, <2>2, <3>2, TransferEffect DEF Amount
        <4>2. s \notin Foreign /\ account[s] # Default /\ IsHolding(account[s])
          BY <1>5, <4>1, TransferEffect DEF IsHolding, Default
        <4>3. Units(account'[s]) \in Nat
          <5>1. TypeOK'
            BY <1>5, TransferEffect
          <5> QED BY <5>1, UnitsType DEF TypeOK
        <4>4. Units(account[s]) > 0
          BY <1>3, <1>5, <4>1, <4>3, TransferEffect DEF Amount
        <4> QED BY <1>5, <2>2, <4>2, <4>4, TransferEffect DEF TokenOwned
      <3> QED BY <3>1, <3>2
    <2>3. CASE id \notin {s, r}
      BY <1>2, <1>5, <2>3, TransferEffect
    <2> QED BY <2>1, <2>2, <2>3
  <1>6. ASSUME NEW x \in AccountId, NEW y \in AccountId, NEW n \in Amount, Burn(x, y, n)
        PROVE  Origin
    <2>1. id # x
      BY <1>6, BurnEffect DEF IsHolding, IsDefinition
    <2>2. CASE id = y
      <3>1. account[y] # Default /\ Units(account[y]) > 0
        BY <1>3, <1>6, <2>2, BurnEffect DEF Amount, IsHolding, Default
      <3> QED BY <1>1, <1>6, <2>2, <3>1, BurnEffect DEF TokenOwned
    <2> QED BY <1>2, <1>6, <2>1, <2>2, BurnEffect
  <1>7. ASSUME NEW x \in AccountId, NEW y \in AccountId, NEW z \in AccountId,
               NEW n \in Amount, x # y, mint_inner(x, y, z, n)
        PROVE  Origin \/ Backed(id)'
    <2>1. id # x
      BY <1>7, MintEffect DEF IsHolding
    <2>2. CASE id = y
      <3>1. TokenOwned(x)'
        BY <1>7, MintEffect DEF TokenOwned, Default
      <3> QED BY <1>7, <2>2, <3>1, MintEffect DEF Backed
    <2> QED BY <1>2, <1>7, <2>1, <2>2, MintEffect
  <1>8. ASSUME NEW x \in AccountId, NEW y \in AccountId,
               NEW m \in AccountId \union {NONE, ZeroId}, set_authority_inner(x, y, m)
        PROVE  Origin
    BY <1>2, <1>8, SetAuthorityEffect DEF IsHolding
  <1>9. ASSUME NEW x \in AccountId, NEW y \in AccountId, NEW z \in AccountId,
               NEW n \in Amount, NEW m \in AccountId \union {NONE, ZeroId},
               NEW fungible \in BOOLEAN,
               \/ NewFungibleDefinition(x, y, n, m)
               \/ NewDefinitionWithMetadata(x, y, z, fungible, n, m)
        PROVE  Origin \/ Backed(id)'
    <2>1. CASE id = y
      <3>1. TokenOwned(x)'
        BY <1>9, NewDefinitionEffect DEF TokenOwned, Default
      <3> QED BY <1>9, <2>1, <3>1, NewDefinitionEffect DEF Backed
    <2> QED BY <1>2, <1>9, <2>1, NewDefinitionEffect
  <1>10. ASSUME NEW x \in AccountId, NEW y \in AccountId, InitializeAccount(x, y)
         PROVE  Origin
    BY <1>2, <1>10, InitializeEffect
  <1>11. ASSUME NEW x \in AccountId, NEW y \in AccountId, PrintNft(x, y)
         PROVE  Origin
    <2>1. TokenOwned(x) /\ IsHolding(account[x]) /\ Units(account[x]) > 0
      BY <1>3, <1>11, PrintEffect DEF TokenOwned, IsHolding, Default
    <2>2. CASE id \in {x, y}
      BY <1>11, <2>1, <2>2, PrintEffect
    <2> QED BY <1>2, <1>11, <2>2, PrintEffect
  <1> QED BY <1>4, <1>5, <1>6, <1>7, <1>8, <1>9, <1>10, <1>11, StepCases

\* No step takes the definition away from under a holding with value.
LEMMA BackingStep == TypeOK /\ ValueIsBacked /\ [Next]_vars => ValueIsBacked'
  <1> SUFFICES ASSUME TypeOK, ValueIsBacked, [Next]_vars,
                      NEW id \in AccountId, TokenOwned(id)', IsHolding(account'[id]),
                      Units(account'[id]) > 0
               PROVE  Backed(id)'
    BY DEF ValueIsBacked, Backed
  <1>1. ASSUME NEW j \in AccountId, TokenOwned(j), IsHolding(account[j]), Units(account[j]) > 0,
               account[j].definition_id = account'[id].definition_id,
               (account[j].kind = "Fungible") <=> (account'[id].kind = "Fungible")
        PROVE  Backed(id)'
    <2>1. account[j].definition_id \in AccountId
      BY <1>1, KindsAreTagged DEF TypeOK, TokenHolding, FungibleHolding, NftMaster,
         NftPrintedCopy
    <2>2. PICK def \in AccountId : def = account[j].definition_id
      BY <2>1
    <2>3. TokenOwned(def) /\ account[def].kind = IF account[j].kind = "Fungible"
                             THEN "FungibleDefinition" ELSE "NonFungibleDefinition"
      BY <1>1, <2>2 DEF ValueIsBacked, Backed
    <2>4. TokenOwned(def)' /\ account'[def].kind = account[def].kind
      BY <2>3, DefinitionsStay DEF IsDefinition
    <2> QED BY <1>1, <2>2, <2>3, <2>4 DEF Backed
  <1> QED BY <1>1, ValueHasAnOrigin

\* Every holding with value belongs to a definition the token program wrote, of
\* the kind the holding is of.
THEOREM ValueStaysBacked == Spec => []ValueIsBacked
  <1>1. Init => ValueIsBacked
    BY DEF Init, ValueIsBacked, TokenOwned
  <1>2. TypeOK /\ ValueIsBacked /\ [Next]_vars => ValueIsBacked'
    BY BackingStep
  <1> QED BY <1>1, <1>2, TypeCorrect, PTL DEF Spec

---------------------------------------------------------------------------
(* One master per token                                                    *)

\* Print rights seen as units.
LEMMA PrintsAreUnits ==
    ASSUME TypeOK, NEW id \in AccountId
    PROVE  HoldsPrints(id) <=> /\ TokenOwned(id) /\ account[id].kind = "NftMaster"
                              /\ IsHolding(account[id]) /\ Units(account[id]) > 0
  BY DEF HoldsPrints, IsHolding, Units

\* But for a transfer and a new definition, whoever has print rights after a step
\* had them, for the same token, before it.
LEMMA PrintsAreNotCreated ==
    ASSUME TypeOK, [Next]_vars, NEW id \in AccountId, HoldsPrints(id)',
           ~\E s, r \in AccountId, n \in Amount : Transfer(s, r, n),
           ~\E x, y, z \in AccountId, n \in Amount, m \in AccountId \union {NONE, ZeroId},
               fungible \in BOOLEAN :
               \/ NewFungibleDefinition(x, y, n, m)
               \/ NewDefinitionWithMetadata(x, y, z, fungible, n, m)
    PROVE  HoldsPrints(id) /\ account'[id].definition_id = account[id].definition_id
  <1> DEFINE Had == HoldsPrints(id) /\ account'[id].definition_id = account[id].definition_id
  <1>1. TypeOK' /\ (HoldsPrints(id)' <=> /\ TokenOwned(id)' /\ account'[id].kind = "NftMaster"
                             /\ IsHolding(account'[id]) /\ Units(account'[id]) > 0)
    BY StepTypes, PrintsAreUnits DEF HoldsPrints, IsHolding, Units
  <1>2. account'[id] = account[id] => Had
    BY DEF HoldsPrints, TokenOwned
  <1>3. UNCHANGED vars => Had
    BY <1>2 DEF vars
  <1>4. Units(account[id]) \in Nat /\ id \notin Foreign
    BY UnitsType DEF TypeOK, HoldsPrints, TokenOwned
  <1>5. ASSUME NEW x \in AccountId, NEW y \in AccountId, NEW n \in Amount, Burn(x, y, n)
        PROVE  Had
    <2>1. id # x
      BY <1>1, <1>5, BurnEffect DEF IsDefinition
    <2>2. CASE id = y
      <3>1. Units(account[id]) > 0 /\ IsHolding(account[id]) /\ account[id].kind = "NftMaster"
        BY <1>1, <1>4, <1>5, <2>2, BurnEffect DEF Amount
      <3>2. TokenOwned(id)
        BY <1>4, <3>1 DEF TokenOwned, IsHolding, Default
      <3> QED BY <1>5, <2>2, <3>1, <3>2, BurnEffect, PrintsAreUnits
    <2> QED BY <1>2, <1>5, <2>1, <2>2, BurnEffect
  <1>6. ASSUME NEW x \in AccountId, NEW y \in AccountId, NEW z \in AccountId,
               NEW n \in Amount, x # y, mint_inner(x, y, z, n)
        PROVE  Had
    BY <1>1, <1>2, <1>6, MintEffect
  <1>7. ASSUME NEW x \in AccountId, NEW y \in AccountId,
               NEW m \in AccountId \union {NONE, ZeroId}, set_authority_inner(x, y, m)
        PROVE  Had
    BY <1>1, <1>2, <1>7, SetAuthorityEffect
  <1>8. ASSUME NEW x \in AccountId, NEW y \in AccountId, InitializeAccount(x, y)
        PROVE  Had
    BY <1>1, <1>2, <1>8, InitializeEffect
  <1>9. ASSUME NEW x \in AccountId, NEW y \in AccountId, PrintNft(x, y)
        PROVE  Had
    <2>1. TokenOwned(x) /\ IsHolding(account[x]) /\ Units(account[x]) > 0
      BY <1>9, PrintEffect, UnitsType DEF TokenOwned, IsHolding, Default, TypeOK
    <2>2. CASE id = x
      BY <1>9, <2>1, <2>2, PrintEffect, PrintsAreUnits
    <2>3. id # y
      BY <1>1, <1>9, PrintEffect
    <2> QED BY <1>2, <1>9, <2>2, <2>3, PrintEffect
  <1> QED BY <1>3, <1>5, <1>6, <1>7, <1>8, <1>9, StepCases

\* A step leaves at most one master with print rights for each token.
LEMMA MasterStep == TypeOK /\ ValueIsBacked /\ UniqueMaster /\ [Next]_vars => UniqueMaster'
  <1> SUFFICES ASSUME TypeOK, ValueIsBacked, UniqueMaster, [Next]_vars,
                      NEW i \in AccountId, NEW j \in AccountId,
                      HoldsPrints(i)', HoldsPrints(j)',
                      account'[i].definition_id = account'[j].definition_id
               PROVE  i = j
    BY DEF UniqueMaster
  <1> DEFINE Same(id) == HoldsPrints(id) /\ account'[id].definition_id = account[id].definition_id
  <1>1. Same(i) /\ Same(j) => i = j
    BY DEF UniqueMaster
  <1>2. \A id \in AccountId : HoldsPrints(id)' /\ account'[id] = account[id] => Same(id)
    BY DEF HoldsPrints, TokenOwned
  <1>3. \A id \in AccountId : HoldsPrints(id)' =>
          id \notin Foreign /\ account'[id].kind = "NftMaster" /\ Units(account'[id]) > 0
    BY DEF HoldsPrints, TokenOwned, Units
  <1>4. ASSUME NEW s \in AccountId, NEW r \in AccountId, NEW n \in Amount, Transfer(s, r, n)
        PROVE  i = j
    <2>1. CASE account[s].kind = "NftMaster"
      <3>1. i # s /\ j # s
        <4>1. Units(account'[s]) = Units(account[s]) - n /\ n = Units(account[s])
          BY <1>4, <2>1, TransferEffect
        <4>2. Units(account'[s]) = 0
          BY <4>1 DEF Amount
        <4> QED BY <1>3, <4>2
      <3>2. HoldsPrints(r)' => HoldsPrints(s)
        <4>1. HoldsPrints(r)' => n > 0
          BY <1>3, <1>4, <2>1, TransferEffect DEF Amount
        <4>2. s \in Foreign => n = 0
          BY <1>4, TransferEffect
        <4>3. Units(account[s]) = n /\ IsHolding(account[s]) /\ account[s] # Default
          BY <1>4, <2>1, TransferEffect DEF Default
        <4> QED BY <2>1, <4>1, <4>2, <4>3, PrintsAreUnits DEF TokenOwned
      <3>3. account'[r].definition_id = account[s].definition_id
        BY <1>4, TransferEffect
      <3>4. \A id \in AccountId \ {s, r} : HoldsPrints(id)' => Same(id)
        BY <1>2, <1>4, TransferEffect
      <3> QED BY <3>1, <3>2, <3>3, <3>4 DEF UniqueMaster
    <2>2. CASE account[s].kind # "NftMaster"
      <3>1. i \notin {s, r} /\ j \notin {s, r}
        BY <1>3, <1>4, <2>2, TransferEffect
      <3> QED BY <1>1, <1>2, <1>4, <3>1, TransferEffect
    <2> QED BY <2>1, <2>2
  <1>5. ASSUME NEW x \in AccountId, NEW y \in AccountId, NEW z \in AccountId,
               NEW n \in Amount, NEW m \in AccountId \union {NONE, ZeroId},
               NEW fungible \in BOOLEAN,
               \/ NewFungibleDefinition(x, y, n, m)
               \/ NewDefinitionWithMetadata(x, y, z, fungible, n, m)
        PROVE  i = j
    <2>1. \A id \in AccountId \ {y} : HoldsPrints(id)' => Same(id)
      <3>1. \A id \in AccountId \ {y} : HoldsPrints(id)' => account'[id] = account[id]
        BY <1>3, <1>5, NewDefinitionEffect DEF IsHolding
      <3> QED BY <1>2, <3>1
    <2>2. \A id \in AccountId : Same(id) => account[id].definition_id # x
      <3>1. \A id \in AccountId : HoldsPrints(id) => TokenOwned(account[id].definition_id)
        BY PrintsAreUnits DEF ValueIsBacked, Backed
      <3>2. ~TokenOwned(x)
        BY <1>5, NewDefinitionEffect DEF TokenOwned
      <3> QED BY <3>1, <3>2
    <2>3. account'[y].definition_id = x
      BY <1>5, NewDefinitionEffect
    <2> QED BY <1>1, <2>1, <2>2, <2>3
  <1> QED BY <1>1, <1>4, <1>5, PrintsAreNotCreated

\* The print rights of a token never multiply.
THEOREM MasterStaysUnique == Spec => []UniqueMaster
  <1>1. Init => UniqueMaster
    BY DEF Init, UniqueMaster, HoldsPrints, TokenOwned
  <1>2. TypeOK /\ ValueIsBacked /\ UniqueMaster /\ [Next]_vars => UniqueMaster'
    BY MasterStep
  <1> QED BY <1>1, <1>2, TypeCorrect, ValueStaysBacked, PTL DEF Spec

---------------------------------------------------------------------------
(* The supply is what the holdings carry                                   *)

\* What an account contributes to a supply is a number, the units it holds or
\* nothing, and does not change while the account does not.
LEMMA UnitsOfType ==
    ASSUME TypeOK, TypeOK', NEW def \in AccountId, NEW id \in AccountId
    PROVE  /\ UnitsOf(def, id) \in Nat /\ UnitsOf(def, id)' \in Nat
           /\ account'[id] = account[id] => UnitsOf(def, id)' = UnitsOf(def, id)
           /\ ~IsHolding(account[id]) => UnitsOf(def, id) = 0
           /\ ~IsHolding(account'[id]) => UnitsOf(def, id)' = 0
           /\ account[id].definition_id # def => UnitsOf(def, id) = 0
           /\ account'[id].definition_id # def => UnitsOf(def, id)' = 0
           /\ id \in Foreign => UnitsOf(def, id) = 0 /\ UnitsOf(def, id)' = 0
           /\ (id \notin Foreign /\ IsHolding(account[id]) /\ account[id].definition_id = def) =>
                 UnitsOf(def, id) = Units(account[id])
           /\ (id \notin Foreign /\ IsHolding(account'[id]) /\ account'[id].definition_id = def) =>
                 UnitsOf(def, id)' = Units(account'[id])
  <1>1. Units(account[id]) \in Nat /\ Units(account'[id]) \in Nat
    BY UnitsType DEF TypeOK
  <1>2. account'[id] = account[id] => UnitsOf(def, id)' = UnitsOf(def, id)
    BY DEF UnitsOf, TokenOwned
  <1>3. ~IsHolding(Default)
    BY DEF IsHolding, Default
  <1> QED BY <1>1, <1>2, <1>3 DEF UnitsOf, TokenOwned

\* The sum over the ledger before and after a step, when what the accounts
\* contribute changes at one account only, or moves between two.
LEMMA SupplySums ==
    ASSUME TypeOK, TypeOK', NEW def \in AccountId, NEW y \in AccountId, NEW z \in AccountId
    PROVE  LET before == SumFunctionOnSet([id \in AccountId |-> UnitsOf(def, id)], AccountId)
               after  == SumFunctionOnSet([id \in AccountId |-> UnitsOf(def, id)'], AccountId)
           IN  /\ before \in Int
               /\ (\A id \in AccountId : UnitsOf(def, id) = 0) => before = 0
               /\ (\A id \in AccountId \ {y} : UnitsOf(def, id)' = UnitsOf(def, id)) =>
                     after = before + UnitsOf(def, y)' - UnitsOf(def, y)
               /\ (/\ y # z
                   /\ \A id \in AccountId \ {y, z} : UnitsOf(def, id)' = UnitsOf(def, id)
                   /\ UnitsOf(def, y) + UnitsOf(def, z) = UnitsOf(def, y)' + UnitsOf(def, z)') =>
                     after = before
  <1> DEFINE f == [id \in AccountId |-> UnitsOf(def, id)]
             g == [id \in AccountId |-> UnitsOf(def, id)']
  <1>1. /\ \A id \in AccountId : f[id] = UnitsOf(def, id) /\ g[id] = UnitsOf(def, id)'
        /\ \A id \in AccountId : f[id] \in Int /\ g[id] \in Int
    BY UnitsOfType
  <1> HIDE DEF f, g
  <1>2. SumFunctionOnSet(f, AccountId) \in Int
    BY <1>1, LedgerAssumption, SumOfIntegers
  <1>3. (\A id \in AccountId : UnitsOf(def, id) = 0) => SumFunctionOnSet(f, AccountId) = 0
    BY <1>1, LedgerAssumption, SumOfZeros
  <1>4. (\A id \in AccountId \ {y} : UnitsOf(def, id)' = UnitsOf(def, id)) =>
           SumFunctionOnSet(g, AccountId) = SumFunctionOnSet(f, AccountId) + g[y] - f[y]
    BY <1>1, LedgerAssumption, SumChangesByTheTerm
  <1>5. (/\ y # z
         /\ \A id \in AccountId \ {y, z} : UnitsOf(def, id)' = UnitsOf(def, id)
         /\ UnitsOf(def, y) + UnitsOf(def, z) = UnitsOf(def, y)' + UnitsOf(def, z)') =>
           SumFunctionOnSet(g, AccountId) = SumFunctionOnSet(f, AccountId)
    BY <1>1, LedgerAssumption, SumIsMovedAround
  <1>6. g[y] = UnitsOf(def, y)' /\ f[y] = UnitsOf(def, y)
    BY <1>1
  <1> QED BY <1>2, <1>3, <1>4, <1>5, <1>6 DEF f, g

\* No step changes an account of another program.
LEMMA ForeignStays ==
    ASSUME [Next]_vars, NEW id \in Foreign
    PROVE  account'[id] = account[id]
  <1>1. \A s, r, n : Transfer(s, r, n) => OwnershipRespected
    BY DEF Transfer
  <1>2. \A x, y, n : Burn(x, y, n) => OwnershipRespected
    BY DEF Burn
  <1>3. \A x, y, z, n : mint_inner(x, y, z, n) => OwnershipRespected
    BY DEF mint_inner
  <1>4. \A x, y, m : set_authority_inner(x, y, m) => OwnershipRespected
    BY DEF set_authority_inner
  <1>5. /\ \A x, y, n, m : NewFungibleDefinition(x, y, n, m) => OwnershipRespected
        /\ \A x, y, z, fungible, n, m :
              NewDefinitionWithMetadata(x, y, z, fungible, n, m) => OwnershipRespected
    BY DEF NewFungibleDefinition, NewDefinitionWithMetadata
  <1>6. /\ \A x, y : InitializeAccount(x, y) => OwnershipRespected
        /\ \A x, y : PrintNft(x, y) => OwnershipRespected
    BY DEF InitializeAccount, PrintNft
  <1>7. UNCHANGED vars \/ OwnershipRespected
    BY <1>1, <1>2, <1>3, <1>4, <1>5, <1>6, StepCases
  <1> QED BY <1>7 DEF vars, OwnershipRespected

\* No step moves a supply without the holdings, or the holdings without it.
LEMMA SupplyStep == TypeOK /\ ValueIsBacked /\ SupplyConserved /\ [Next]_vars => SupplyConserved'
  <1> SUFFICES ASSUME TypeOK, ValueIsBacked, SupplyConserved, [Next]_vars,
                      NEW def \in AccountId, TokenOwned(def)', IsDefinition(account'[def])
               PROVE  Supply(account'[def]) =
                         SumFunctionOnSet([id \in AccountId |-> UnitsOf(def, id)'], AccountId)
    BY DEF SupplyConserved
  <1> DEFINE before == SumFunctionOnSet([id \in AccountId |-> UnitsOf(def, id)], AccountId)
             after  == SumFunctionOnSet([id \in AccountId |-> UnitsOf(def, id)'], AccountId)
             Kept   == Supply(account'[def]) = after
             old(id) == UnitsOf(def, id)
             new(id) == UnitsOf(def, id)'
  <1>1. TypeOK' /\ def \notin Foreign /\ ~IsHolding(account'[def])
    BY StepTypes DEF TokenOwned, IsHolding, IsDefinition
  <1>2. \A id \in AccountId :
          /\ old(id) \in Nat /\ new(id) \in Nat
          /\ account'[id] = account[id] => new(id) = old(id)
          /\ ~IsHolding(account[id]) => old(id) = 0
          /\ ~IsHolding(account'[id]) => new(id) = 0
          /\ account[id].definition_id # def => old(id) = 0
          /\ account'[id].definition_id # def => new(id) = 0
          /\ id \in Foreign => old(id) = 0 /\ new(id) = 0
          /\ (id \notin Foreign /\ IsHolding(account[id]) /\ account[id].definition_id = def) =>
                old(id) = Units(account[id])
          /\ (id \notin Foreign /\ IsHolding(account'[id]) /\ account'[id].definition_id = def) =>
                new(id) = Units(account'[id])
    BY <1>1, UnitsOfType
  <1>3. /\ before \in Int
        /\ (\A id \in AccountId : old(id) = 0) => before = 0
        /\ \A y \in AccountId :
             (\A id \in AccountId \ {y} : new(id) = old(id)) => after = before + new(y) - old(y)
        /\ \A y, z \in AccountId :
             (/\ y # z
              /\ \A id \in AccountId \ {y, z} : new(id) = old(id)
              /\ old(y) + old(z) = new(y) + new(z)) => after = before
    BY <1>1, SupplySums
  <1>4. (TokenOwned(def) /\ IsDefinition(account[def])) => Supply(account[def]) = before
    BY DEF SupplyConserved
  <1>5. account[def].kind = account'[def].kind => TokenOwned(def) /\ IsDefinition(account[def])
    BY <1>1 DEF TokenOwned, IsDefinition, Default
  <1> HIDE DEF before, after, old, new
  <1>6. ASSUME account'[def] = account[def], \A id \in AccountId : new(id) = old(id)
        PROVE  Kept
    <2>1. after = before + new(def) - old(def)
      BY <1>3, <1>6
    <2>2. after = before
      BY <1>2, <1>3, <1>6, <2>1
    <2> QED BY <1>4, <1>5, <1>6, <2>2
  <1>7. UNCHANGED vars => Kept
    BY <1>2, <1>6 DEF vars
  <1>8. \A id \in AccountId : Units(account[id]) \in Nat /\ Units(account'[id]) \in Nat
    BY <1>1, UnitsType DEF TypeOK
  <1>9. ASSUME NEW s \in AccountId, NEW r \in AccountId, NEW n \in Amount, Transfer(s, r, n)
        PROVE  Kept
    <2>1. def \notin {s, r}
      BY <1>1, <1>9, TransferEffect DEF IsDefinition, IsHolding
    <2>2. /\ account'[def] = account[def] /\ s # r
          /\ \A id \in AccountId \ {s, r} : new(id) = old(id)
      BY <1>2, <1>9, <2>1, TransferEffect
    <2>3. IsHolding(account[s]) /\ IsHolding(account'[s]) /\ IsHolding(account'[r])
      BY <1>9, TransferEffect DEF IsHolding
    <2>4. account[r] # Default => IsHolding(account[r])
      BY <1>9, <2>3, TransferEffect DEF IsHolding
    <2>5. account[r] = Default => r \notin Foreign /\ old(r) = 0
      <3>1. ~IsHolding(Default)
        BY DEF IsHolding, Default
      <3> QED BY <1>2, <2>3, <3>1, ForeignStays
    <2>6. r \in Foreign => n = 0
      BY <1>8, <1>9, <2>5, ForeignStays, TransferEffect DEF Amount
    <2>7. CASE account[s].definition_id = def
      <3>1. new(s) = old(s) - n
        <4>1. CASE s \in Foreign
          <5>1. old(s) = 0 /\ new(s) = 0 /\ n = 0
            BY <1>2, <1>9, <4>1, TransferEffect
          <5> QED BY <5>1
        <4>2. CASE s \notin Foreign
          <5>1. old(s) = Units(account[s]) /\ new(s) = Units(account'[s])
            BY <1>2, <1>9, <2>3, <2>7, <4>2, TransferEffect
          <5> QED BY <1>9, <5>1, TransferEffect
        <4> QED BY <4>1, <4>2
      <3>2. new(r) = old(r) + n
        <4>1. CASE r \in Foreign
          <5>1. old(r) = 0 /\ new(r) = 0 /\ n = 0
            BY <1>2, <2>6, <4>1
          <5> QED BY <5>1
        <4>2. CASE r \notin Foreign
          <5>1. new(r) = Units(account'[r])
            BY <1>2, <1>9, <2>3, <2>7, <4>2, TransferEffect
          <5>2. account[r] # Default => old(r) = Units(account[r])
            BY <1>2, <1>9, <2>4, <2>7, <4>2, TransferEffect
          <5>3. CASE account[r] = Default
            <6>1. old(r) = 0 /\ Units(account'[r]) = n
              BY <1>9, <2>5, <5>3, TransferEffect
            <6> QED BY <5>1, <6>1 DEF Amount
          <5>4. CASE account[r] # Default
            BY <1>9, <5>1, <5>2, <5>4, TransferEffect
          <5> QED BY <5>3, <5>4
        <4> QED BY <4>1, <4>2
      <3>3. old(s) + old(r) = new(s) + new(r)
        BY <1>2, <3>1, <3>2 DEF Amount
      <3>4. after = before
        BY <1>3, <2>2, <3>3
      <3> QED BY <1>4, <1>5, <2>2, <3>4
    <2>8. CASE account[s].definition_id # def
      <3>1. old(s) = 0 /\ new(s) = 0 /\ new(r) = 0
        BY <1>2, <1>9, <2>8, TransferEffect
      <3>2. old(r) = 0
        BY <1>2, <1>9, <2>5, <2>8, TransferEffect
      <3> QED BY <1>6, <2>2, <3>1, <3>2
    <2> QED BY <2>7, <2>8
  <1>10. ASSUME NEW x \in AccountId, NEW y \in AccountId, NEW n \in Amount, Burn(x, y, n)
         PROVE  Kept
    <2>1. /\ IsHolding(account[y]) /\ IsHolding(account'[y]) /\ ~IsHolding(account[x])
          /\ ~IsHolding(account'[x]) /\ x # y /\ IsDefinition(account[x]) /\ def # y
      BY <1>1, <1>10, BurnEffect DEF IsHolding, IsDefinition
    <2>2. \A id \in AccountId \ {y} : new(id) = old(id)
      BY <1>2, <1>10, <2>1, BurnEffect
    <2>3. CASE def = x
      <3>1. new(y) = old(y) - n
        <4>1. CASE y \in Foreign
          <5>1. n = 0
            BY <1>8, <1>10, <4>1, BurnEffect, ForeignStays DEF Amount
          <5> QED BY <1>2, <4>1, <5>1
        <4>2. CASE y \notin Foreign
          <5>1. old(y) = Units(account[y]) /\ new(y) = Units(account'[y])
            BY <1>2, <1>10, <2>1, <2>3, <4>2, BurnEffect
          <5> QED BY <1>10, <5>1, BurnEffect
        <4> QED BY <4>1, <4>2
      <3>2. after = before + new(y) - old(y)
        BY <1>3, <2>2
      <3>3. after = before - n
        BY <1>2, <1>3, <3>1, <3>2 DEF Amount
      <3>4. Supply(account'[def]) = Supply(account[def]) - n /\ Supply(account[def]) = before
        BY <1>4, <1>5, <1>10, <2>3, BurnEffect
      <3> QED BY <3>3, <3>4
    <2>4. CASE def # x
      <3>1. old(y) = 0 /\ new(y) = 0 /\ account'[def] = account[def]
        BY <1>2, <1>10, <2>1, <2>4, BurnEffect
      <3> QED BY <1>6, <2>2, <3>1
    <2> QED BY <2>3, <2>4
  <1>11. ASSUME NEW x \in AccountId, NEW y \in AccountId, NEW z \in AccountId,
                NEW n \in Amount, x # y, mint_inner(x, y, z, n)
         PROVE  Kept
    <2>1. /\ IsHolding(account'[y]) /\ ~IsHolding(account[x]) /\ ~IsHolding(account'[x])
          /\ def # y
      BY <1>1, <1>11, MintEffect DEF IsHolding
    <2>2. account[y] # Default => IsHolding(account[y]) /\ account[y].definition_id = x
      BY <1>11, MintEffect DEF IsHolding
    <2>3. account[y] = Default => y \notin Foreign /\ old(y) = 0
      <3>1. ~IsHolding(Default)
        BY DEF IsHolding, Default
      <3> QED BY <1>2, <2>1, <3>1, ForeignStays
    <2>4. \A id \in AccountId \ {y} : new(id) = old(id)
      BY <1>2, <1>11, <2>1, MintEffect
    <2>5. CASE def = x
      <3>1. new(y) = old(y) + n
        <4>1. CASE y \in Foreign
          <5>1. n = 0
            BY <1>8, <1>11, <2>3, <4>1, MintEffect, ForeignStays DEF Amount
          <5> QED BY <1>2, <4>1, <5>1
        <4>2. CASE y \notin Foreign
          <5>1. new(y) = Units(account'[y])
            BY <1>2, <1>11, <2>1, <2>5, <4>2, MintEffect
          <5>2. account[y] # Default => old(y) = Units(account[y])
            BY <1>2, <2>2, <2>5, <4>2
          <5>3. new(y) = n + old(y)
            BY <1>11, <2>3, <5>1, <5>2, MintEffect
          <5> QED BY <1>2, <5>3 DEF Amount
        <4> QED BY <4>1, <4>2
      <3>2. after = before + new(y) - old(y)
        BY <1>3, <2>4
      <3>3. after = before + n
        BY <1>2, <1>3, <3>1, <3>2 DEF Amount
      <3>4. Supply(account'[def]) = Supply(account[def]) + n /\ Supply(account[def]) = before
        BY <1>4, <1>5, <1>11, <2>5, MintEffect
      <3> QED BY <3>3, <3>4
    <2>6. CASE def # x
      <3>1. old(y) = 0 /\ new(y) = 0 /\ account'[def] = account[def]
        BY <1>2, <1>11, <2>1, <2>2, <2>3, <2>6, MintEffect
      <3> QED BY <1>6, <2>4, <3>1
    <2> QED BY <2>5, <2>6
  <1>12. ASSUME NEW x \in AccountId, NEW y \in AccountId,
                NEW m \in AccountId \union {NONE, ZeroId}, set_authority_inner(x, y, m)
         PROVE  Kept
    <2>1. \A id \in AccountId : new(id) = old(id)
      BY <1>2, <1>12, SetAuthorityEffect DEF IsHolding
    <2>2. Supply(account'[def]) = Supply(account[def]) /\ account'[def].kind = account[def].kind
      BY <1>12, SetAuthorityEffect
    <2>3. after = before + new(def) - old(def)
      BY <1>3, <2>1
    <2>4. after = before
      BY <1>2, <1>3, <2>1, <2>3
    <2> QED BY <1>4, <1>5, <2>2, <2>4
  <1>13. ASSUME NEW x \in AccountId, NEW y \in AccountId, NEW z \in AccountId,
                NEW n \in Amount, NEW m \in AccountId \union {NONE, ZeroId},
                NEW fungible \in BOOLEAN,
                \/ NewFungibleDefinition(x, y, n, m)
                \/ NewDefinitionWithMetadata(x, y, z, fungible, n, m)
         PROVE  Kept
    <2>1. ~IsHolding(Default)
      BY DEF IsHolding, Default
    <2>2. /\ account[x] = Default /\ account[y] = Default /\ x # y /\ x \notin Foreign
          /\ IsHolding(account'[y]) /\ account'[y].definition_id = x
          /\ Supply(account'[x]) = n /\ Units(account'[y]) = n
          /\ \A id \in AccountId : account[id] # Default => account'[id] = account[id]
          /\ \A id \in AccountId \ {y} : IsHolding(account'[id]) => account'[id] = account[id]
          /\ \A id \in AccountId \ {x} : IsDefinition(account'[id]) => account'[id] = account[id]
      BY <1>13, NewDefinitionEffect
    <2>3. y \notin Foreign /\ old(y) = 0
      BY <1>2, <2>1, <2>2, ForeignStays
    <2>4. \A id \in AccountId \ {y} : new(id) = old(id)
      BY <1>2, <2>1, <2>2
    <2>5. CASE def = x
      <3>1. \A id \in AccountId : old(id) = 0
        <4> SUFFICES ASSUME NEW id \in AccountId, old(id) # 0 PROVE FALSE
          OBVIOUS
        <4>1. /\ id \notin Foreign /\ IsHolding(account[id]) /\ account[id].definition_id = def
              /\ old(id) = Units(account[id])
          BY <1>2
        <4>2. TokenOwned(id) /\ Units(account[id]) > 0
          BY <1>8, <2>1, <4>1 DEF TokenOwned
        <4>3. TokenOwned(def)
          BY <4>1, <4>2 DEF ValueIsBacked, Backed
        <4> QED BY <2>2, <2>5, <4>3 DEF TokenOwned
      <3>2. new(y) = n
        BY <1>2, <2>2, <2>3, <2>5
      <3>3. after = before + new(y) - old(y) /\ before = 0
        BY <1>3, <2>4, <3>1
      <3>4. after = n
        BY <2>3, <3>2, <3>3 DEF Amount
      <3> QED BY <2>2, <2>5, <3>4
    <2>6. CASE def # x
      <3>1. new(y) = 0 /\ account'[def] = account[def]
        BY <1>2, <2>2, <2>6
      <3> QED BY <1>6, <2>3, <2>4, <3>1
    <2> QED BY <2>5, <2>6
  <1>14. ASSUME NEW x \in AccountId, NEW y \in AccountId, InitializeAccount(x, y)
         PROVE  Kept
    <2>1. ~IsHolding(Default)
      BY DEF IsHolding, Default
    <2>2. def # y /\ old(y) = 0
      BY <1>1, <1>2, <1>14, <2>1, InitializeEffect
    <2>3. new(y) = 0
      <3>1. y \notin Foreign
        BY <1>14, <2>1, InitializeEffect, ForeignStays
      <3> QED BY <1>2, <1>14, <3>1, InitializeEffect
    <2>4. account'[def] = account[def] /\ \A id \in AccountId : new(id) = old(id)
      BY <1>2, <1>14, <2>2, <2>3, InitializeEffect
    <2> QED BY <1>6, <2>4
  <1>15. ASSUME NEW x \in AccountId, NEW y \in AccountId, PrintNft(x, y)
         PROVE  Kept
    <2>1. /\ IsHolding(account[x]) /\ IsHolding(account'[x]) /\ IsHolding(account'[y])
          /\ ~IsHolding(account[y]) /\ x # y /\ def \notin {x, y}
      BY <1>1, <1>15, PrintEffect DEF IsHolding, Default
    <2>2. x \notin Foreign /\ y \notin Foreign /\ old(y) = 0
      BY <1>2, <1>15, <2>1, PrintEffect, ForeignStays
    <2>3. account'[def] = account[def] /\ \A id \in AccountId \ {x, y} : new(id) = old(id)
      BY <1>2, <1>15, <2>1, PrintEffect
    <2>4. CASE account[x].definition_id = def
      <3>1. old(x) = Units(account[x]) /\ new(x) = Units(account'[x]) /\ new(y) = Units(account'[y])
        BY <1>2, <1>15, <2>1, <2>2, <2>4, PrintEffect
      <3>2. new(x) = old(x) - 1 /\ new(y) = 1
        BY <1>15, <3>1, PrintEffect
      <3>3. old(x) + old(y) = new(x) + new(y)
        BY <1>2, <2>2, <3>2
      <3>4. after = before
        BY <1>3, <2>1, <2>3, <3>3
      <3> QED BY <1>4, <1>5, <2>3, <3>4
    <2>5. CASE account[x].definition_id # def
      <3>1. old(x) = 0 /\ new(x) = 0 /\ new(y) = 0
        BY <1>2, <1>15, <2>5, PrintEffect
      <3> QED BY <1>6, <2>2, <2>3, <3>1
    <2> QED BY <2>4, <2>5
  <1>16. Kept
    BY <1>7, <1>9, <1>10, <1>11, <1>12, <1>13, <1>14, <1>15, StepCases
  <1> QED BY <1>16 DEF after

\* No instruction makes or loses units: a definition's stored supply is always
\* what the token program's holdings of it add up to.
THEOREM SupplyIsConserved == Spec => []SupplyConserved
  <1>1. Init => SupplyConserved
    BY DEF Init, SupplyConserved, TokenOwned
  <1>2. TypeOK /\ ValueIsBacked /\ SupplyConserved /\ [Next]_vars => SupplyConserved'
    BY SupplyStep
  <1> QED BY <1>1, <1>2, TypeCorrect, ValueStaysBacked, PTL DEF Spec
=============================================================================

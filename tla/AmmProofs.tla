------------------------------ MODULE AmmProofs ------------------------------
(***************************************************************************)
(* What the AMM program guarantees whatever the users, balances, fees and  *)
(* amounts: Amm's invariants and action properties as theorems of its      *)
(* specification.                                                          *)
(*                                                                         *)
(* PoolInv is the inductive invariant.  Solvency alone is not inductive:   *)
(* that the reserves keep covering what is paid out rests on the fees      *)
(* being a part of the input (FeesAreValid), which holds because a pool is *)
(* only opened in an initialized namespace (NamespaceFirst), and the LP    *)
(* ledger a pool opens on must be empty (NoSharesYet).  A pool has its     *)
(* vaults (VaultsExist), which its handlers ask for.                       *)
(***************************************************************************)
EXTENDS Amm, NumberTheorems

FeesAreValid == config.initialized => ValidFees(config.swap_fee_bps, config.protocol_fee_bps)
NamespaceFirst == initialized => config.initialized
NoSharesYet ==
    ~initialized => lp_total_supply = 0 /\ \A h \in Holder : holding["lp"][h] = 0

VaultsExist == initialized => HoldingsExist(VAULT)

PoolInv ==
    /\ TypeOK
    /\ VaultsExist
    /\ FeesAreValid
    /\ NamespaceFirst
    /\ NoSharesYet
    /\ PoolIsSolvent
    /\ TickFollowsReserves

---------------------------------------------------------------------------
(* Operators                                                               *)

LEMMA HolderIsFinite == IsFiniteSet(Holder)
<1>1. IsFiniteSet(((User \union {VAULT}) \union {FEES}) \union {LOCK})
  BY UserAssumption, FS_AddElement
<1>2. Holder = ((User \union {VAULT}) \union {FEES}) \union {LOCK}
  BY DEF Holder
<1> QED BY <1>1, <1>2

LEMMA OtherSide ==
  ASSUME NEW s \in Side
  PROVE  Other(s) \in Side /\ Other(s) # s /\ Other(Other(s)) = s /\ Side = {s, Other(s)}
BY DEF Side, Other

LEMMA TransferMoves ==
  ASSUME NEW h \in [Holder -> Amount], NEW from \in Holder, NEW to \in Holder, from # to,
         NEW n \in Nat, Transferable(h, from, to, n)
  PROVE  /\ Transferred(h, from, to, n) \in [Holder -> Amount]
         /\ Transferred(h, from, to, n)[from] = h[from] - n
         /\ Transferred(h, from, to, n)[to] = h[to] + n
         /\ \A x \in Holder \ {from, to} : Transferred(h, from, to, n)[x] = h[x]
<1>1. h[from] - n \in Amount /\ h[to] + n \in Amount
  BY NumberAssumption DEF Amount, Transferable
<1> QED BY <1>1 DEF Transferred

LEMMA TransferKeepsTheTotal ==
  ASSUME NEW h \in [Holder -> Amount], NEW from \in Holder, NEW to \in Holder, from # to,
         NEW n \in Nat, Transferable(h, from, to, n)
  PROVE  SumFunctionOnSet(Transferred(h, from, to, n), Holder) = SumFunctionOnSet(h, Holder)
<1> DEFINE g == Transferred(h, from, to, n)
<1>1. /\ g \in [Holder -> Amount] /\ g[from] = h[from] - n /\ g[to] = h[to] + n
      /\ \A x \in Holder \ {from, to} : h[x] = g[x]
  BY TransferMoves
<1>2. \A x \in Holder : h[x] \in Int /\ g[x] \in Int
  BY <1>1 DEF Amount
<1>3. h[from] + h[to] = g[from] + g[to]
  BY <1>1, <1>2
<1>4. SumFunctionOnSet(g, Holder) = SumFunctionOnSet(h, Holder)
  <2> HIDE DEF g
  <2> QED BY <1>1, <1>2, <1>3, HolderIsFinite, SumIsMovedAround
<1> QED BY <1>4

\* The tick of positive reserves is a tick.
LEMMA SpotTickIsInt ==
  ASSUME NEW r \in [Side -> Amount], r["a"] # 0
  PROVE  SpotTick(r) \in Int
<1> DEFINE p == mul_div_floor(r["b"], Q64, r["a"])
<1>1. r["a"] \in Nat \ {0} /\ r["b"] \in Nat
  BY DEF Side, Amount
<1>2. p \in Nat
  BY <1>1, NumberAssumption, ProductIsNat, FloorIsRead DEF mul_div_floor
<1>3. Min2(p, U128_MAX) \in Amount
  BY <1>2, NumberAssumption DEF Min2, Amount
<1> QED BY <1>3, TickAssumption DEF SpotTick, spot_price_q64_64

\* The protocol's cut is part of the fee.
LEMMA CutIsPartOfTheFee ==
  ASSUME NEW x \in Nat, NEW p \in Nat, p <= FEE_BPS_DENOMINATOR
  PROVE  protocol_fee_amount(x, p) \in Nat /\ protocol_fee_amount(x, p) <= x
<1> DEFINE D == FEE_BPS_DENOMINATOR
           fee == (x * p) \div D
<1>1. D \in Nat \ {0}
  BY NumberAssumption
<1>2. fee \in Nat /\ fee * D <= x * p
  BY <1>1, ProductIsNat, FloorIsRead
<1>3. x * p <= x * D
  BY <1>1, ProductsAreOrdered
<1>4. fee * D <= x * D
  BY <1>1, <1>2, <1>3
<1>5. fee <= x
  BY <1>1, <1>2, <1>4, FactorCancels
<1> QED BY <1>2, <1>5 DEF protocol_fee_amount, mul_div_floor

\* What is left of an input after a valid fee is part of it.
LEMMA EffectiveIsPartOfTheInput ==
  ASSUME NEW x \in Nat, NEW f \in Nat, f < FEE_BPS_DENOMINATOR
  PROVE  effective_amount_in(x, f) \in Nat /\ effective_amount_in(x, f) <= x
<1> DEFINE D == FEE_BPS_DENOMINATOR
           e == (x * (D - f)) \div D
<1>1. D \in Nat \ {0} /\ D - f \in Nat /\ D - f <= D
  BY NumberAssumption
<1>2. e \in Nat /\ e * D <= x * (D - f)
  BY <1>1, ProductIsNat, FloorIsRead
<1>3. x * (D - f) <= x * D
  BY <1>1, ProductsAreOrdered
<1>4. e * D <= x * D
  BY <1>1, <1>2, <1>3, ProductIsNat
<1>5. e <= x
  BY <1>1, <1>2, <1>4, FactorCancels
<1> QED BY <1>2, <1>5 DEF effective_amount_in, mul_div_floor

\* Nor does charging the fee on top make an input smaller.
LEMMA RequiredCoversTheEffective ==
  ASSUME NEW e \in Nat, NEW f \in Nat, f < FEE_BPS_DENOMINATOR
  PROVE  /\ required_in(e, f) \in Nat
         /\ e <= required_in(e, f)
         /\ e * FEE_BPS_DENOMINATOR <= required_in(e, f) * (FEE_BPS_DENOMINATOR - f)
         /\ required_in(e, f) * (FEE_BPS_DENOMINATOR - f)
               < e * FEE_BPS_DENOMINATOR + (FEE_BPS_DENOMINATOR - f)
<1> DEFINE D == FEE_BPS_DENOMINATOR
           n == (e * D + (D - f) - 1) \div (D - f)
<1>1. D \in Nat \ {0} /\ D - f \in Nat \ {0} /\ D - f <= D
  BY NumberAssumption
<1>2. n \in Nat /\ e * D <= n * (D - f) /\ n * (D - f) < e * D + (D - f)
  BY <1>1, ProductIsNat, CeilIsRead
<1>3. n * (D - f) <= n * D
  BY <1>1, <1>2, ProductsAreOrdered
<1>4. e * D <= n * D
  BY <1>1, <1>2, <1>3, ProductIsNat
<1>5. e <= n
  BY <1>1, <1>2, <1>4, FactorCancels
<1> QED BY <1>2, <1>5 DEF required_in, mul_div_ceil

---------------------------------------------------------------------------
(* Prices: what the constant product pays for an input                     *)

LEMMA OutputIsCovered ==
  ASSUME NEW rin \in Nat \ {0}, NEW rout \in Nat \ {0}, NEW e \in Nat
  PROVE  LET out == amount_out(rin, rout, e)
         IN  out \in Nat /\ out < rout /\ rin * out <= e * (rout - out)
<1> DEFINE q == (rout * e) \div (rin + e)
<1>1. rin + e \in Nat \ {0}
  OBVIOUS
<1>2. q \in Nat /\ q * (rin + e) <= rout * e
  BY <1>1, ProductIsNat, FloorIsRead
<1>3. q * (rin + e) = rin * q + e * q /\ e * (rout - q) = rout * e - e * q
  BY <1>2
<1>4. rin * q <= e * (rout - q)
  <2>1. rin * q \in Int /\ e * q \in Int /\ rout * e \in Int
    BY <1>2
  <2> HIDE DEF q
  <2> QED BY <1>2, <1>3, <2>1
<1>5. q < rout
  <2>1. rout * e < rout * (rin + e)
    OBVIOUS
  <2>2. q * (rin + e) < rout * (rin + e)
    <3>1. q * (rin + e) \in Int /\ rout * e \in Int /\ rout * (rin + e) \in Int
      BY <1>2
    <3> HIDE DEF q
    <3> QED BY <1>2, <2>1, <3>1
  <2> HIDE DEF q
  <2> QED BY <1>1, <1>2, <2>2, FactorCancels
<1>6. 0 < rout /\ rin * 0 <= e * (rout - 0)
  BY ProductIsNat
<1> QED BY <1>2, <1>4, <1>5, <1>6 DEF amount_out, mul_div_floor

LEMMA InputIsCovered ==
  ASSUME NEW rin \in Nat \ {0}, NEW rout \in Nat, NEW out \in Nat \ {0}, out < rout
  PROVE  LET e == effective_in_min(out, rin, rout)
         IN  /\ e \in Nat \ {0}
             /\ rin * out <= e * (rout - out)
             /\ e * (rout - out) < rin * out + (rout - out)
<1> DEFINE e == (rin * out + (rout - out) - 1) \div (rout - out)
<1>1. rout - out \in Nat \ {0}
  OBVIOUS
<1>2. /\ e \in Nat /\ rin * out <= e * (rout - out)
      /\ e * (rout - out) < rin * out + (rout - out)
  BY <1>1, ProductIsNat, CeilIsRead
<1>3. 0 < rin * out
  OBVIOUS
<1>4. e # 0
  BY <1>2, <1>3
<1> QED BY <1>2, <1>4 DEF effective_in_min, mul_div_ceil

\* The product of the reserves does not fall.
LEMMA SwapKeepsTheProduct ==
  ASSUME NEW rin \in Nat, NEW rout \in Nat, NEW out \in Nat, out <= rout,
         NEW e \in Nat, NEW net \in Nat, e <= net, rin * out <= e * (rout - out)
  PROVE  rin * rout <= (rin + net) * (rout - out)
<1>1. e * (rout - out) <= net * (rout - out)
  BY ProductsAreOrdered
<1>2. (rin + net) * (rout - out) = rin * rout - rin * out + net * (rout - out)
  OBVIOUS
<1>3. /\ rin * rout \in Int /\ rin * out \in Int
      /\ net * (rout - out) \in Int /\ e * (rout - out) \in Int
  OBVIOUS
<1> QED BY <1>1, <1>2, <1>3

\* Neither does the product per squared share.
LEMMA SharesKeepTheirWorth ==
  ASSUME NEW ra \in Nat, NEW rb \in Nat, NEW l \in Nat,
         NEW sa \in Nat, NEW sb \in Nat, NEW k \in Nat,
         ra * k <= sa * l, rb * k <= sb * l
  PROVE  (ra * rb) * (k * k) <= (sa * sb) * (l * l)
<1>1. (ra * k) * (rb * k) <= (sa * l) * (sb * l)
  BY ProductIsNat, ProductsAreOrdered
<1>2. (ra * k) * (rb * k) = (ra * rb) * (k * k) /\ (sa * l) * (sb * l) = (sa * sb) * (l * l)
  OBVIOUS
<1> QED BY <1>1, <1>2

---------------------------------------------------------------------------
(* What the transactions move                                              *)

\* The LP total after one holding changed by n.
LEMMA SharesChangeBy ==
  ASSUME NEW h \in [Holder -> Amount], NEW g \in [Holder -> Amount], NEW x \in Holder,
         NEW n \in Int, g[x] = h[x] + n, \A y \in Holder \ {x} : g[y] = h[y]
  PROVE  SumFunctionOnSet(g, Holder) = SumFunctionOnSet(h, Holder) + n
<1>1. \A y \in Holder : h[y] \in Int /\ g[y] \in Int
  BY DEF Amount
<1>2. \A y \in Holder \ {x} : h[y] = g[y]
  OBVIOUS
<1>3. SumFunctionOnSet(g, Holder) = SumFunctionOnSet(h, Holder) + g[x] - h[x]
  BY <1>1, <1>2, HolderIsFinite, SumChangesByTheTerm
<1>4. SumFunctionOnSet(h, Holder) \in Int
  BY <1>1, HolderIsFinite, SumOfIntegers
<1> QED BY <1>1, <1>3, <1>4

LEMMA DepositMoves ==
  ASSUME TypeOK, NEW u \in User, NEW to \in User \union {LOCK},
         NEW amount \in [Side -> Amount], NEW minted \in Nat,
         CanDeposit(u, to, amount, minted), Deposit(u, to, amount, minted)
  PROVE  /\ holding' \in [Token -> [Holder -> Amount]]
         /\ \A s \in Side : holding'[s][u] = holding[s][u] - amount[s]
         /\ \A s \in Side : holding'[s][VAULT] = holding[s][VAULT] + amount[s]
         /\ holding'["lp"][to] = holding["lp"][to] + minted
         /\ \A h \in Holder \ {to} : holding'["lp"][h] = holding["lp"][h]
         /\ reserve' \in [Side -> Amount]
         /\ \A s \in Side : reserve'[s] = reserve[s] + amount[s]
         /\ lp_total_supply' \in Amount /\ lp_total_supply' = lp_total_supply + minted
         /\ liquidity_pool_supply' \in Amount
         /\ liquidity_pool_supply' = liquidity_pool_supply + minted
         /\ tick' \in Int /\ tick' = SpotTick(reserve')
<1>1. /\ u \in Holder /\ VAULT \in Holder /\ u # VAULT /\ to \in Holder
      /\ "lp" \in Token /\ "lp" \notin Side /\ Side \subseteq Token
  BY HolderAssumption DEF Holder, Token, Side
<1>2. ASSUME NEW s \in Side
      PROVE  /\ holding'[s] = Transferred(holding[s], u, VAULT, amount[s])
             /\ holding[s] \in [Holder -> Amount] /\ amount[s] \in Nat
             /\ Transferable(holding[s], u, VAULT, amount[s])
  BY <1>1 DEF Deposit, CanDeposit, TypeOK, Amount
<1>3. ASSUME NEW s \in Side
      PROVE  /\ holding'[s] \in [Holder -> Amount]
             /\ holding'[s][u] = holding[s][u] - amount[s]
             /\ holding'[s][VAULT] = holding[s][VAULT] + amount[s]
  BY <1>1, <1>2, TransferMoves
<1>4. /\ holding["lp"] \in [Holder -> Amount]
      /\ holding'["lp"] = [holding["lp"] EXCEPT ![to] = @ + minted]
      /\ holding["lp"][to] + minted <= U128_MAX
  BY <1>1 DEF Deposit, CanDeposit, TypeOK
<1>5. holding["lp"][to] + minted \in Amount
  BY <1>1, <1>4 DEF Amount
<1>6. /\ holding'["lp"] \in [Holder -> Amount]
      /\ holding'["lp"][to] = holding["lp"][to] + minted
      /\ \A h \in Holder \ {to} : holding'["lp"][h] = holding["lp"][h]
  BY <1>1, <1>4, <1>5
<1>7. holding' \in [Token -> [Holder -> Amount]]
  <2>1. holding' = [t \in Token |-> holding'[t]]
    BY DEF Deposit
  <2>2. \A t \in Token : holding'[t] \in [Holder -> Amount]
    BY <1>3, <1>6 DEF Token
  <2> QED BY <2>1, <2>2
<1>8. \A s \in Side : reserve[s] + amount[s] \in Amount
  BY DEF CanDeposit, TypeOK, Amount
<1>9. reserve' \in [Side -> Amount] /\ \A s \in Side : reserve'[s] = reserve[s] + amount[s]
  BY <1>8 DEF Deposit
<1>10. /\ lp_total_supply' \in Amount /\ lp_total_supply' = lp_total_supply + minted
       /\ liquidity_pool_supply' \in Amount
       /\ liquidity_pool_supply' = liquidity_pool_supply + minted
  BY DEF Deposit, CanDeposit, TypeOK, Amount
<1>11. tick' \in Int /\ tick' = SpotTick(reserve')
  BY <1>9, SpotTickIsInt DEF Deposit, CanDeposit, HasSpotPrice, RefreshTick
<1> QED BY <1>3, <1>6, <1>7, <1>9, <1>10, <1>11

LEMMA PayOutMoves ==
  ASSUME TypeOK, NEW u \in User, NEW n \in Nat, n <= holding["lp"][u],
         n <= liquidity_pool_supply, NEW amount \in [Side -> Nat],
         CanPayOut(u, n, amount), PayOut(u, n, amount)
  PROVE  /\ holding' \in [Token -> [Holder -> Amount]]
         /\ \A s \in Side : holding'[s][u] = holding[s][u] + amount[s]
         /\ \A s \in Side : holding'[s][VAULT] = holding[s][VAULT] - amount[s]
         /\ holding'["lp"][u] = holding["lp"][u] - n
         /\ \A h \in Holder \ {u} : holding'["lp"][h] = holding["lp"][h]
         /\ reserve' \in [Side -> Amount]
         /\ \A s \in Side : reserve'[s] = reserve[s] - amount[s]
         /\ lp_total_supply' \in Amount /\ lp_total_supply' = lp_total_supply - n
         /\ liquidity_pool_supply' \in Amount
         /\ liquidity_pool_supply' = liquidity_pool_supply - n
         /\ tick' \in Int /\ tick' = SpotTick(reserve')
<1>1. /\ u \in Holder /\ VAULT \in Holder /\ u # VAULT
      /\ "lp" \in Token /\ "lp" \notin Side /\ Side \subseteq Token
  BY HolderAssumption DEF Holder, Token, Side
<1>2. ASSUME NEW s \in Side
      PROVE  /\ holding'[s] = Transferred(holding[s], VAULT, u, amount[s])
             /\ holding[s] \in [Holder -> Amount] /\ amount[s] \in Nat
             /\ Transferable(holding[s], VAULT, u, amount[s])
  BY <1>1 DEF PayOut, CanPayOut, TypeOK
<1>3. ASSUME NEW s \in Side
      PROVE  /\ holding'[s] \in [Holder -> Amount]
             /\ holding'[s][u] = holding[s][u] + amount[s]
             /\ holding'[s][VAULT] = holding[s][VAULT] - amount[s]
  BY <1>1, <1>2, TransferMoves
<1>4. /\ holding["lp"] \in [Holder -> Amount]
      /\ holding'["lp"] = [holding["lp"] EXCEPT ![u] = @ - n]
  BY <1>1 DEF PayOut, TypeOK
<1>5. holding["lp"][u] - n \in Amount
  BY <1>1, <1>4, NumberAssumption DEF Amount
<1>6. /\ holding'["lp"] \in [Holder -> Amount]
      /\ holding'["lp"][u] = holding["lp"][u] - n
      /\ \A h \in Holder \ {u} : holding'["lp"][h] = holding["lp"][h]
  BY <1>1, <1>4, <1>5
<1>7. holding' \in [Token -> [Holder -> Amount]]
  <2>1. holding' = [t \in Token |-> holding'[t]]
    BY DEF PayOut
  <2>2. \A t \in Token : holding'[t] \in [Holder -> Amount]
    BY <1>3, <1>6 DEF Token
  <2> QED BY <2>1, <2>2
<1>8. \A s \in Side : reserve[s] - amount[s] \in Amount
  BY NumberAssumption DEF CanPayOut, TypeOK, Amount
<1>9. reserve' \in [Side -> Amount] /\ \A s \in Side : reserve'[s] = reserve[s] - amount[s]
  BY <1>8 DEF PayOut
<1>10. /\ lp_total_supply' \in Amount /\ lp_total_supply' = lp_total_supply - n
       /\ liquidity_pool_supply' \in Amount
       /\ liquidity_pool_supply' = liquidity_pool_supply - n
  BY NumberAssumption DEF PayOut, CanPayOut, TypeOK, Amount
<1>11. tick' \in Int /\ tick' = SpotTick(reserve')
  BY <1>9, SpotTickIsInt DEF PayOut, CanPayOut, HasSpotPrice, RefreshTick
<1> QED BY <1>3, <1>6, <1>7, <1>9, <1>10, <1>11

LEMMA SwapMoves ==
  ASSUME TypeOK, FeesAreValid, config.initialized, NEW u \in User, NEW s \in Side,
         NEW amount_in \in Nat, NEW e \in Nat, e <= amount_in, NEW out \in Nat,
         CanExecuteSwap(u, s, amount_in, e, out), ExecuteSwap(u, s, amount_in, e, out)
  PROVE  \E net \in Nat :
         /\ e <= net
         /\ holding' \in [Token -> [Holder -> Amount]]
         /\ holding'["lp"] = holding["lp"]
         /\ holding'[s][u] = holding[s][u] - amount_in
         /\ holding'[Other(s)][u] = holding[Other(s)][u] + out
         /\ holding'[s][VAULT] = holding[s][VAULT] + net
         /\ holding'[Other(s)][VAULT] = holding[Other(s)][VAULT] - out
         /\ reserve' \in [Side -> Amount]
         /\ reserve'[s] = reserve[s] + net
         /\ reserve'[Other(s)] = reserve[Other(s)] - out
         /\ out <= reserve[Other(s)]
         /\ reserve'["a"] # 0
         /\ tick' \in Int /\ tick' = SpotTick(reserve')
<1> DEFINE o   == Other(s)
           fee == protocol_fee_amount(amount_in - e, config.protocol_fee_bps)
           net == amount_in - fee
           paid == Transferred(holding[s], u, VAULT, amount_in)
           left == Transferred(paid, VAULT, FEES, fee)
           got  == Transferred(holding[o], VAULT, u, out)
<1>1. /\ u \in Holder /\ VAULT \in Holder /\ FEES \in Holder /\ u # VAULT /\ VAULT # FEES
      /\ u # FEES /\ s \in Token /\ o \in Token /\ "lp" \in Token
      /\ s # "lp" /\ o # "lp" /\ s # o /\ o \in Side /\ Side = {s, o}
  BY HolderAssumption, OtherSide DEF Holder, Token, Side
<1>2. config.protocol_fee_bps \in Nat /\ config.protocol_fee_bps <= FEE_BPS_DENOMINATOR
  BY DEF TypeOK, FeesAreValid, ValidFees
<1>3. amount_in - e \in Nat
  OBVIOUS
<1>4. fee \in Nat /\ fee <= amount_in - e
  BY <1>2, <1>3, CutIsPartOfTheFee
<1>5. net \in Nat /\ e <= net
  <2> HIDE DEF fee
  <2> QED BY <1>3, <1>4
<1>6. holding[s] \in [Holder -> Amount] /\ holding[o] \in [Holder -> Amount]
  BY <1>1 DEF TypeOK
<1>7. /\ Transferable(holding[s], u, VAULT, amount_in)
      /\ Transferable(holding[o], VAULT, u, out)
      /\ Transferable(paid, VAULT, FEES, fee)
      /\ holding' = [holding EXCEPT ![s] = left, ![o] = got]
      /\ reserve[s] + net <= U128_MAX /\ out <= reserve[o]
      /\ HasSpotPrice([reserve EXCEPT ![s] = @ + net, ![o] = @ - out])
      /\ reserve' = [reserve EXCEPT ![s] = @ + net, ![o] = @ - out]
      /\ RefreshTick
  BY DEF ExecuteSwap, CanExecuteSwap, cut, Paid, net_deposit
<1>8. /\ paid \in [Holder -> Amount] /\ paid[VAULT] = holding[s][VAULT] + amount_in
      /\ paid[u] = holding[s][u] - amount_in
  BY <1>1, <1>6, <1>7, TransferMoves
<1>9. left \in [Holder -> Amount] /\ left[VAULT] = paid[VAULT] - fee /\ left[u] = paid[u]
  <2> HIDE DEF fee, paid
  <2> QED BY <1>1, <1>4, <1>7, <1>8, TransferMoves
<1>10. /\ got \in [Holder -> Amount] /\ got[VAULT] = holding[o][VAULT] - out
       /\ got[u] = holding[o][u] + out
  BY <1>1, <1>6, <1>7, TransferMoves
<1> HIDE DEF fee, paid, left, got
<1>11. left[VAULT] = holding[s][VAULT] + net
  BY <1>1, <1>4, <1>6, <1>8, <1>9 DEF Amount
<1>12. /\ holding' \in [Token -> [Holder -> Amount]]
       /\ holding'[s] = left /\ holding'[o] = got /\ holding'["lp"] = holding["lp"]
  BY <1>1, <1>7, <1>9, <1>10 DEF TypeOK
<1>13. /\ reserve[s] + net <= U128_MAX /\ out <= reserve[o]
       /\ reserve' = [reserve EXCEPT ![s] = @ + net, ![o] = @ - out]
       /\ HasSpotPrice(reserve') /\ RefreshTick
  BY <1>7
<1>14. reserve[s] + net \in Amount /\ reserve[o] - out \in Amount
  <2> HIDE DEF net, o
  <2> QED BY <1>1, <1>5, <1>13, NumberAssumption DEF TypeOK, Amount
<1>15. /\ reserve' \in [Side -> Amount]
       /\ reserve'[s] = reserve[s] + net /\ reserve'[o] = reserve[o] - out
  <2> HIDE DEF net, o
  <2> QED BY <1>1, <1>13, <1>14 DEF TypeOK
<1>16. reserve'["a"] # 0 /\ tick' \in Int /\ tick' = SpotTick(reserve')
  BY <1>13, <1>15, SpotTickIsInt DEF RefreshTick, HasSpotPrice
<1> HIDE DEF net, o
<1>17. /\ holding'[s][u] = holding[s][u] - amount_in
       /\ holding'[o][u] = holding[o][u] + out
       /\ holding'[s][VAULT] = holding[s][VAULT] + net
       /\ holding'[o][VAULT] = holding[o][VAULT] - out
  BY <1>8, <1>9, <1>10, <1>11, <1>12
<1> QED BY <1>5, <1>12, <1>13, <1>15, <1>16, <1>17 DEF o

---------------------------------------------------------------------------
(* What the instructions decide                                            *)

LEMMA PoolIsOpen ==
  ASSUME PoolInv, initialized
  PROVE  /\ config.initialized
         /\ config.swap_fee_bps \in Nat /\ config.swap_fee_bps < FEE_BPS_DENOMINATOR
         /\ \A s \in Side : reserve[s] \in Nat \ {0} /\ reserve[s] <= holding[s][VAULT]
         /\ liquidity_pool_supply \in Nat \ {0}
         /\ liquidity_pool_supply >= MINIMUM_LIQUIDITY
BY NumberAssumption
   DEF PoolInv, TypeOK, FeesAreValid, ValidFees, NamespaceFirst, PoolIsSolvent,
       VaultsCoverReserves, LiquidityStaysLocked, Amount

\* A share of a deposit, or of the reserves, rounded down.
LEMMA ShareIsCovered ==
  ASSUME NEW x \in Nat, NEW y \in Nat, NEW z \in Nat \ {0}
  PROVE  mul_div_floor(x, y, z) \in Nat /\ mul_div_floor(x, y, z) * z <= x * y
BY ProductIsNat, FloorIsRead DEF mul_div_floor

\* The LP tokens a deposit earns are covered by either side of it.
LEMMA MintIsCovered ==
  ASSUME NEW l \in Nat, NEW r \in [Side -> Nat \ {0}], NEW amount \in [Side -> Nat]
  PROVE  /\ delta_lp(l, r, amount) \in Nat
         /\ \A s \in Side : r[s] * delta_lp(l, r, amount) <= amount[s] * l
<1> DEFINE share(s) == lp_share(l, r, amount, s)
           m == delta_lp(l, r, amount)
<1>1. ASSUME NEW s \in Side
      PROVE  share(s) \in Nat /\ share(s) * r[s] <= l * amount[s]
  BY ShareIsCovered DEF lp_share
<1>2. m \in Nat /\ \A s \in Side : m <= share(s)
  <2>1. "a" \in Side /\ "b" \in Side /\ \A s \in Side : s = "a" \/ s = "b"
    BY DEF Side
  <2> QED BY <1>1, <2>1 DEF delta_lp, Min2
<1>3. ASSUME NEW s \in Side
      PROVE  r[s] * m <= amount[s] * l
  <2> HIDE DEF m, share
  <2>1. m * r[s] <= share(s) * r[s]
    BY <1>1, <1>2, ProductsAreOrdered
  <2>2. /\ m * r[s] = r[s] * m /\ l * amount[s] = amount[s] * l
        /\ r[s] * m \in Int /\ share(s) * r[s] \in Int /\ amount[s] * l \in Int
    BY <1>1, <1>2
  <2> QED BY <1>1, <2>1, <2>2
<1> QED BY <1>2, <1>3

LEMMA AddLiquidityDeposits ==
  ASSUME PoolInv, NEW u \in User, NEW to \in User \union {LOCK}, NEW max \in [Side -> Input],
         NEW l, AddLiquidity(u, to, max, l)
  PROVE  /\ initialized
         /\ \E amount \in [Side -> Amount], minted \in Nat :
               /\ CanDeposit(u, to, amount, minted) /\ Deposit(u, to, amount, minted)
               /\ \A s \in Side : reserve[s] * minted <= amount[s] * liquidity_pool_supply
<1> DEFINE amount == actual_amount(reserve, max)
           minted == delta_lp(liquidity_pool_supply, reserve, amount)
<1>1. initialized /\ CanDeposit(u, to, amount, minted) /\ Deposit(u, to, amount, minted)
  BY DEF AddLiquidity, CanAddLiquidity, minted_lp
<1>2. /\ reserve \in [Side -> Nat \ {0}] /\ max \in [Side -> Amount]
      /\ liquidity_pool_supply \in Nat
  BY <1>1, PoolIsOpen, NumberAssumption DEF PoolInv, TypeOK
<1>3. ASSUME NEW s \in Side
      PROVE  ideal(reserve, max, s) \in Nat /\ ideal(reserve, max, s) <= U128_MAX
  BY <1>2, OtherSide, ShareIsCovered DEF ideal, AddLiquidity, CanAddLiquidity, minted_lp, Amount
<1>4. amount \in [Side -> Amount]
  BY <1>2, <1>3 DEF actual_amount, Min2, Amount
<1>5. minted \in Nat /\ \A s \in Side : reserve[s] * minted <= amount[s] * liquidity_pool_supply
  <2> HIDE DEF amount
  <2>1. amount \in [Side -> Nat]
    BY <1>4 DEF Amount
  <2> QED BY <1>2, <2>1, MintIsCovered
<1> QED BY <1>1, <1>4, <1>5

LEMMA RemoveLiquidityPays ==
  ASSUME PoolInv, NEW u \in User, NEW n \in Input, NEW min, RemoveLiquidity(u, n, min)
  PROVE  /\ initialized
         /\ n \in Nat /\ n <= holding["lp"][u] /\ n <= liquidity_pool_supply - MINIMUM_LIQUIDITY
         /\ \E amount \in [Side -> Nat] :
               /\ CanPayOut(u, n, amount) /\ PayOut(u, n, amount)
               /\ \A s \in Side : amount[s] * liquidity_pool_supply <= reserve[s] * n
<1> DEFINE amount == withdraw_amount(liquidity_pool_supply, reserve, n)
<1>1. /\ initialized /\ CanPayOut(u, n, amount) /\ PayOut(u, n, amount)
      /\ n <= holding["lp"][u] /\ n <= liquidity_pool_supply - MINIMUM_LIQUIDITY
  BY DEF RemoveLiquidity, CanRemoveLiquidity, unlocked_liquidity
<1>2. reserve \in [Side -> Nat] /\ n \in Nat /\ liquidity_pool_supply \in Nat \ {0}
  BY <1>1, PoolIsOpen, NumberAssumption DEF PoolInv, TypeOK, Amount
<1>3. ASSUME NEW s \in Side
      PROVE  amount[s] \in Nat /\ amount[s] * liquidity_pool_supply <= reserve[s] * n
  BY <1>2, ShareIsCovered DEF withdraw_amount
<1>4. amount \in [Side -> Nat]
  BY <1>3 DEF withdraw_amount
<1> QED BY <1>1, <1>2, <1>3, <1>4

\* Either swap: what is paid, what of it is priced, and what is bought.
SwapIsPriced(u, s, paid, e, out) ==
    /\ e <= paid
    /\ out < reserve[Other(s)]
    /\ reserve[s] * out <= e * (reserve[Other(s)] - out)
    /\ CanExecuteSwap(u, s, paid, e, out) /\ ExecuteSwap(u, s, paid, e, out)

LEMMA SwapExactInputIsPriced ==
  ASSUME PoolInv, NEW u \in User, NEW s \in Side, NEW n \in Input, NEW l,
         SwapExactInput(u, s, n, l)
  PROVE  initialized /\ \E e \in Nat, out \in Nat : n \in Nat /\ SwapIsPriced(u, s, n, e, out)
<1> DEFINE e == effective_amount_in(n, config.swap_fee_bps)
           out == amount_out(reserve[s], reserve[Other(s)], e)
<1>1. initialized /\ CanExecuteSwap(u, s, n, e, out) /\ ExecuteSwap(u, s, n, e, out)
  BY DEF SwapExactInput, CanSwapExactInput, priced_in, swap_output, validate_swap_setup
<1>2. n \in Nat /\ reserve[s] \in Nat \ {0} /\ reserve[Other(s)] \in Nat \ {0}
  BY <1>1, PoolIsOpen, OtherSide, NumberAssumption DEF Amount
<1>3. e \in Nat /\ e <= n
  BY <1>1, <1>2, PoolIsOpen, EffectiveIsPartOfTheInput
<1>4. /\ out \in Nat /\ out < reserve[Other(s)]
      /\ reserve[s] * out <= e * (reserve[Other(s)] - out)
  <2> HIDE DEF e
  <2> QED BY <1>2, <1>3, OutputIsCovered
<1> QED BY <1>1, <1>2, <1>3, <1>4 DEF SwapIsPriced

LEMMA SwapExactOutputIsPriced ==
  ASSUME PoolInv, NEW u \in User, NEW s \in Side, NEW out \in Input, NEW l,
         SwapExactOutput(u, s, out, l)
  PROVE  initialized /\ \E e \in Nat, n \in Nat : out \in Nat /\ SwapIsPriced(u, s, n, e, out)
<1> DEFINE e == effective_in_min(out, reserve[s], reserve[Other(s)])
           n == required_in(e, config.swap_fee_bps)
<1>1. /\ initialized /\ CanExecuteSwap(u, s, n, e, out) /\ ExecuteSwap(u, s, n, e, out)
      /\ out # 0 /\ out < reserve[Other(s)]
  BY DEF SwapExactOutput, CanSwapExactOutput, priced_out, swap_input, validate_swap_setup
<1>2. out \in Nat \ {0} /\ reserve[s] \in Nat \ {0} /\ reserve[Other(s)] \in Nat
  BY <1>1, PoolIsOpen, OtherSide, NumberAssumption DEF Amount
<1>3. e \in Nat /\ reserve[s] * out <= e * (reserve[Other(s)] - out)
  BY <1>1, <1>2, InputIsCovered
<1>4. n \in Nat /\ e <= n
  <2> HIDE DEF e
  <2> QED BY <1>1, <1>3, PoolIsOpen, RequiredCoversTheEffective
<1> QED BY <1>1, <1>2, <1>3, <1>4 DEF SwapIsPriced

---------------------------------------------------------------------------
(* The addresses                                                           *)

\* What every step leaves of them, whatever it does to the pool.
AddressesKept ==
    opened' \subseteq Token \X Holder /\ taken' \subseteq Derived /\ VaultsExist'

\* Holdings are made and derived addresses taken, and no step unmakes either; the pool
\* is opened together with its vaults.
LEMMA HoldingsAreAdded ==
  ASSUME TypeOK, VaultsExist, NEW made \in SUBSET (Token \X Holder),
         opened' = opened \union made, taken' = taken, initialized' = initialized
  PROVE  AddressesKept
BY DEF TypeOK, AddressesKept, VaultsExist, HoldingsExist

LEMMA AddressesAreLeft ==
  ASSUME TypeOK, VaultsExist, UNCHANGED <<addresses, initialized>>
  PROVE  AddressesKept
BY DEF TypeOK, AddressesKept, VaultsExist, HoldingsExist, addresses

LEMMA NewDefinitionKeepsAddresses ==
  ASSUME TypeOK, NEW u \in User, NEW amount, NEW lp, NewDefinition(u, amount, lp)
  PROVE  AddressesKept
<1>1. /\ opened' = opened \union (Side \X {VAULT}) \union ({"lp"} \X {LOCK, u})
      /\ taken' = taken
  BY DEF NewDefinition, OpenPool
<1>2. opened' \subseteq Token \X Holder
  BY <1>1 DEF TypeOK, Token, Holder
<1>3. \A s \in Side : <<s, VAULT>> \in opened'
  BY <1>1
<1> QED BY <1>1, <1>2, <1>3 DEF TypeOK, AddressesKept, VaultsExist, HoldingsExist

LEMMA AddKeepsAddresses ==
  ASSUME TypeOK, VaultsExist, NEW u, NEW to \in User \union {LOCK}, NEW max, NEW l,
         AddLiquidity(u, to, max, l)
  PROVE  AddressesKept
<1>1. {<<"lp", to>>} \in SUBSET (Token \X Holder)
  BY DEF Token, Holder
<1> QED BY <1>1, HoldingsAreAdded DEF AddLiquidity, Deposit

LEMMA RemoveKeepsAddresses ==
  ASSUME TypeOK, VaultsExist, NEW u, NEW n, NEW min, RemoveLiquidity(u, n, min)
  PROVE  AddressesKept
BY AddressesAreLeft DEF RemoveLiquidity, PayOut

LEMMA SwapKeepsAddresses ==
  ASSUME TypeOK, VaultsExist, NEW u, NEW s \in Side, NEW n, NEW e, NEW out,
         ExecuteSwap(u, s, n, e, out)
  PROVE  AddressesKept
<1>1. /\ {} \in SUBSET (Token \X Holder) /\ {<<s, FEES>>} \in SUBSET (Token \X Holder)
      /\ opened = opened \union {}
  BY DEF Token, Holder
<1>2. /\ opened' = opened \union {} \/ opened' = opened \union {<<s, FEES>>}
      /\ taken' = taken /\ initialized' = initialized
  BY <1>1 DEF ExecuteSwap
<1> QED BY <1>1, <1>2, HoldingsAreAdded

LEMMA TransferKeepsAddresses ==
  ASSUME TypeOK, VaultsExist, NEW t \in Token, NEW u, NEW h \in Holder, NEW n,
         TokenTransfer(t, u, h, n)
  PROVE  AddressesKept
<1>1. {<<t, h>>} \in SUBSET (Token \X Holder)
  OBVIOUS
<1> QED BY <1>1, HoldingsAreAdded DEF TokenTransfer

LEMMA OpeningKeepsAddresses ==
  ASSUME TypeOK, VaultsExist, NEW t \in Token, NEW u \in User, OpenHolding(u, t)
  PROVE  AddressesKept
<1>1. {<<t, u>>} \in SUBSET (Token \X Holder)
  BY DEF Holder
<1> QED BY <1>1, HoldingsAreAdded DEF OpenHolding

LEMMA SquattingKeepsAddresses ==
  ASSUME TypeOK, VaultsExist, NEW x \in Derived, Squat(x)
  PROVE  AddressesKept
BY DEF TypeOK, Squat, AddressesKept, VaultsExist, HoldingsExist

LEMMA NextKeepsAddresses == TypeOK /\ VaultsExist /\ [Next]_vars => AddressesKept
<1> SUFFICES ASSUME TypeOK, VaultsExist, [Next]_vars PROVE AddressesKept
  OBVIOUS
<1>1. CASE NamespaceNext
  BY <1>1, AddressesAreLeft
     DEF NamespaceNext, Initialize, UpdateConfig, WithdrawProtocolFees
<1>2. CASE LiquidityNext
  BY <1>2, NewDefinitionKeepsAddresses, AddKeepsAddresses, RemoveKeepsAddresses
     DEF LiquidityNext
<1>3. CASE SwapNext
  BY <1>3, SwapKeepsAddresses, AddressesAreLeft
     DEF SwapNext, SwapExactInput, SwapExactOutput, SyncReserves
<1>4. CASE TokenNext
  BY <1>4, TransferKeepsAddresses, AddressesAreLeft, OpeningKeepsAddresses,
     SquattingKeepsAddresses
     DEF TokenNext, BurnLp
<1>5. CASE UNCHANGED vars
  BY <1>5, AddressesAreLeft DEF vars
<1> QED BY <1>1, <1>2, <1>3, <1>4, <1>5 DEF Next

---------------------------------------------------------------------------
(* The invariant                                                           *)

LEMMA InitPoolInv == Init => PoolInv
<1> SUFFICES ASSUME Init PROVE PoolInv
  OBVIOUS
<1>1. 0 \in Amount /\ Side \subseteq Token /\ "lp" \in Token
  BY NumberAssumption DEF Amount, Token
<1>2. TypeOK
  <2>1. holding \in [Token -> [Holder -> Amount]]
    <3>1. ASSUME NEW t \in Token, NEW h \in Holder
          PROVE  (IF t # "lp" /\ h \in User THEN InitialBalance[t][h] ELSE 0) \in Amount
      BY <1>1, BalanceAssumption DEF Token
    <3> QED BY <3>1 DEF Init
  <2>2. config \in [initialized : BOOLEAN, authority : Authority \union {NONE},
                    swap_fee_bps : Nat, protocol_fee_bps : Nat]
    BY DEF Init
  <2>3. opened \subseteq Token \X Holder /\ taken \subseteq Derived
    BY <1>1 DEF Init, Holder
  <2> QED BY <1>1, <2>1, <2>2, <2>3 DEF Init, TypeOK
<1>3. \A h \in Holder : holding["lp"][h] = 0
  BY <1>1 DEF Init
<1>4. SumFunctionOnSet(holding["lp"], Holder) = 0
  BY <1>3, HolderIsFinite, SumOfZeros
<1> QED BY <1>2, <1>3, <1>4
        DEF Init, PoolInv, VaultsExist, FeesAreValid, NamespaceFirst, NoSharesYet, PoolIsSolvent,
            VaultsCoverReserves, LiquidityStaysLocked, LpSupplyIsTracked, TickFollowsReserves

\* Only the config account changes.
LEMMA NamespaceKeepsPoolInv ==
  ASSUME PoolInv, AddressesKept,
         \/ \E x \in Authority, f \in SwapFee, p \in ProtocolFee : Initialize(x, f, p)
         \/ \E x : \E y \in Authority : UpdateConfig(x, y)
  PROVE  PoolInv'
<1>1. /\ UNCHANGED <<holding, lp_total_supply, initialized, liquidity_pool_supply, reserve, tick>>
      /\ config' \in [initialized : BOOLEAN, authority : Authority \union {NONE},
                      swap_fee_bps : Nat, protocol_fee_bps : Nat]
      /\ config'.initialized /\ ValidFees(config'.swap_fee_bps, config'.protocol_fee_bps)
  <2>1. CASE \E x \in Authority, f \in SwapFee, p \in ProtocolFee : Initialize(x, f, p)
    BY <2>1, NumberAssumption DEF Initialize, ValidFees
  <2>2. CASE \E x : \E y \in Authority : UpdateConfig(x, y)
    BY <2>2 DEF UpdateConfig, ValidFees, PoolInv, TypeOK, FeesAreValid
  <2> QED BY <2>1, <2>2
<1>2. TypeOK'
  BY <1>1 DEF AddressesKept, PoolInv, TypeOK
<1>3. FeesAreValid' /\ NamespaceFirst'
  BY <1>1 DEF FeesAreValid, NamespaceFirst
<1>4. NoSharesYet' /\ PoolIsSolvent' /\ TickFollowsReserves'
  BY <1>1 DEF PoolInv, NoSharesYet, PoolIsSolvent, VaultsCoverReserves, LiquidityStaysLocked,
              LpSupplyIsTracked, TickFollowsReserves, SpotTick
<1> QED BY <1>2, <1>3, <1>4 DEF AddressesKept, PoolInv

\* A plain transfer: between users, to a vault, or out of the fee holdings.
LEMMA TransferKeepsPoolInv ==
  ASSUME PoolInv, AddressesKept,
         NEW t \in Token, NEW from \in Holder \ {VAULT, LOCK}, NEW to \in Holder,
         from # to, NEW n \in Nat, Transferable(holding[t], from, to, n),
         t = "lp" => from \in User,
         holding' = [holding EXCEPT ![t] = Transferred(@, from, to, n)],
         UNCHANGED <<lp_total_supply, initialized, liquidity_pool_supply, reserve, config, tick>>
  PROVE  PoolInv'
<1>1. holding[t] \in [Holder -> Amount] /\ Side \subseteq Token /\ "lp" \in Token
      /\ VAULT \in Holder /\ LOCK \in Holder
  BY DEF PoolInv, TypeOK, Token, Holder
<1>2. /\ holding'[t] \in [Holder -> Amount]
      /\ holding'[t][from] = holding[t][from] - n
      /\ holding'[t][to] = holding[t][to] + n
      /\ \A x \in Holder \ {from, to} : holding'[t][x] = holding[t][x]
      /\ SumFunctionOnSet(holding'[t], Holder) = SumFunctionOnSet(holding[t], Holder)
  <2>1. holding'[t] = Transferred(holding[t], from, to, n)
    BY DEF PoolInv, TypeOK
  <2> QED BY <1>1, <2>1, TransferMoves, TransferKeepsTheTotal
<1>3. /\ holding' \in [Token -> [Holder -> Amount]]
      /\ \A q \in Token \ {t} : holding'[q] = holding[q]
  BY <1>2 DEF PoolInv, TypeOK
<1>4. TypeOK'
  BY <1>3 DEF AddressesKept, PoolInv, TypeOK
<1>5. \A q \in Token : /\ holding[q][VAULT] <= holding'[q][VAULT]
                       /\ holding[q][LOCK] <= holding'[q][LOCK]
                       /\ SumFunctionOnSet(holding'[q], Holder)
                            = SumFunctionOnSet(holding[q], Holder)
  <2>1. ASSUME NEW q \in Token, NEW x \in {VAULT, LOCK}
        PROVE  holding[q][x] <= holding'[q][x]
    BY <1>1, <1>2, <1>3 DEF PoolInv, TypeOK, Amount
  <2> QED BY <1>2, <1>3, <2>1
<1>6. NoSharesYet'
  <2>1. CASE initialized
    BY <2>1 DEF NoSharesYet
  <2>2. CASE ~initialized /\ t # "lp"
    BY <1>1, <1>3, <2>2 DEF PoolInv, NoSharesYet
  <2>3. CASE ~initialized /\ t = "lp"
    <3>1. lp_total_supply = 0 /\ \A h \in Holder : holding["lp"][h] = 0
      BY <2>3 DEF PoolInv, NoSharesYet
    <3>2. n = 0
      BY <2>3, <3>1 DEF Transferable
    <3>3. \A h \in Holder : holding'["lp"][h] = 0
      BY <1>2, <2>3, <3>1, <3>2
    <3> QED BY <3>1, <3>3 DEF NoSharesYet
  <2> QED BY <2>1, <2>2, <2>3
<1>7. VaultsCoverReserves'
  <2>1. ASSUME initialized, NEW s \in Side
        PROVE  reserve[s] <= holding'[s][VAULT]
    <3>1. /\ reserve[s] \in Int /\ holding[s][VAULT] \in Int /\ holding'[s][VAULT] \in Int
      BY <1>1, <1>3 DEF PoolInv, TypeOK, Amount
    <3> QED BY <1>1, <1>5, <2>1, <3>1, PoolIsOpen
  <2> QED BY <2>1 DEF VaultsCoverReserves
<1>8. LiquidityStaysLocked'
  <2>1. holding["lp"][LOCK] \in Int /\ holding'["lp"][LOCK] \in Int
    BY <1>1, <1>3 DEF PoolInv, TypeOK, Amount
  <2> QED BY <1>1, <1>5, <2>1, NumberAssumption
          DEF PoolInv, PoolIsSolvent, LiquidityStaysLocked
<1>9. LpSupplyIsTracked'
  BY <1>1, <1>5 DEF PoolInv, PoolIsSolvent, LpSupplyIsTracked
<1>10. FeesAreValid' /\ NamespaceFirst' /\ TickFollowsReserves'
  BY DEF PoolInv, FeesAreValid, NamespaceFirst, TickFollowsReserves, SpotTick
<1> QED BY <1>4, <1>6, <1>7, <1>8, <1>9, <1>10 DEF AddressesKept, PoolInv, PoolIsSolvent

LEMMA BurnKeepsPoolInv ==
  ASSUME PoolInv, AddressesKept, NEW u \in User, NEW n \in Input, BurnLp(u, n)
  PROVE  PoolInv'
<1>1. /\ holding["lp"] \in [Holder -> Amount] /\ u \in Holder /\ u # LOCK /\ u # VAULT
      /\ n \in Nat /\ n <= holding["lp"][u] /\ Side \subseteq Token /\ "lp" \in Token
      /\ "lp" \notin Side /\ LOCK \in Holder
  BY HolderAssumption, NumberAssumption
     DEF BurnLp, PoolInv, TypeOK, Token, Holder, Side, Amount
<1>2. holding["lp"][u] - n \in Amount
  BY <1>1, NumberAssumption DEF Amount
<1>3. /\ holding' \in [Token -> [Holder -> Amount]]
      /\ holding'["lp"] \in [Holder -> Amount]
      /\ holding'["lp"][u] = holding["lp"][u] - n
      /\ \A h \in Holder \ {u} : holding'["lp"][h] = holding["lp"][h]
      /\ \A s \in Side : holding'[s] = holding[s]
  BY <1>1, <1>2 DEF BurnLp, PoolInv, TypeOK
<1>4. lp_total_supply' \in Amount /\ lp_total_supply' = lp_total_supply - n
  BY <1>1, NumberAssumption DEF BurnLp, PoolInv, TypeOK, Amount
<1>5. TypeOK'
  BY <1>3, <1>4 DEF AddressesKept, BurnLp, PoolInv, TypeOK
<1>6. FeesAreValid' /\ NamespaceFirst' /\ TickFollowsReserves'
  BY DEF BurnLp, PoolInv, FeesAreValid, NamespaceFirst, TickFollowsReserves, SpotTick
<1>7. NoSharesYet'
  <2>1. ASSUME ~initialized
        PROVE  lp_total_supply' = 0 /\ \A h \in Holder : holding'["lp"][h] = 0
    <3>1. lp_total_supply = 0 /\ \A h \in Holder : holding["lp"][h] = 0
      BY <2>1 DEF PoolInv, NoSharesYet
    <3>2. n = 0
      BY <1>1, <3>1
    <3> QED BY <1>1, <1>3, <1>4, <3>1, <3>2
  <2> QED BY <2>1 DEF NoSharesYet, BurnLp
<1>8. VaultsCoverReserves' /\ LiquidityStaysLocked'
  BY <1>1, <1>3 DEF BurnLp, PoolInv, PoolIsSolvent, VaultsCoverReserves, LiquidityStaysLocked
<1>9. LpSupplyIsTracked'
  <2>1. SumFunctionOnSet(holding'["lp"], Holder) = SumFunctionOnSet(holding["lp"], Holder) + (0 - n)
    <3>1. 0 - n \in Int /\ holding'["lp"][u] = holding["lp"][u] + (0 - n)
      BY <1>1, <1>3 DEF Amount
    <3> QED BY <1>1, <1>3, <3>1, SharesChangeBy
  <2>2. SumFunctionOnSet(holding["lp"], Holder) = lp_total_supply
    BY DEF PoolInv, PoolIsSolvent, LpSupplyIsTracked
  <2>3. lp_total_supply' <= liquidity_pool_supply'
    BY <1>1, <1>4 DEF BurnLp, PoolInv, TypeOK, PoolIsSolvent, LpSupplyIsTracked, Amount
  <2> QED BY <1>1, <1>4, <2>1, <2>2, <2>3 DEF PoolInv, TypeOK, LpSupplyIsTracked, Amount
<1> QED BY <1>5, <1>6, <1>7, <1>8, <1>9 DEF AddressesKept, PoolInv, PoolIsSolvent

LEMMA NewDefinitionKeepsPoolInv ==
  ASSUME PoolInv, AddressesKept,
         NEW u \in User, NEW amount \in [Side -> Nat], NEW lp \in Amount,
         NewDefinition(u, amount, lp)
  PROVE  PoolInv'
<1> DEFINE rest == user_lp(lp)
<1>1. /\ u \in Holder /\ VAULT \in Holder /\ LOCK \in Holder /\ u # VAULT /\ u # LOCK
      /\ "lp" \in Token /\ "lp" \notin Side /\ Side \subseteq Token /\ "a" \in Side
  BY HolderAssumption DEF Holder, Token, Side
<1>2. /\ amount \in [Side -> Amount] /\ \A s \in Side : amount[s] \in Nat \ {0}
  <2>1. ASSUME NEW s \in Side PROVE amount[s] \in Amount /\ amount[s] # 0
    <3>1. amount[s] <= holding[s][u] /\ holding[s][u] \in Amount /\ amount[s] # 0
      BY <1>1 DEF NewDefinition, CanNewDefinition, OpenPool, Transferable, PoolInv, TypeOK
    <3> QED BY <3>1, NumberAssumption DEF Amount
  <2>2. amount \in [Side -> Amount]
    BY <2>1
  <2> QED BY <2>1, <2>2 DEF Amount
<1>3. /\ rest \in Nat /\ rest = lp - MINIMUM_LIQUIDITY /\ MINIMUM_LIQUIDITY + rest = lp
      /\ MINIMUM_LIQUIDITY \in Amount /\ rest \in Amount /\ MINIMUM_LIQUIDITY < lp
  BY NumberAssumption DEF NewDefinition, CanNewDefinition, user_lp, Amount
<1>4. /\ ~initialized /\ config.initialized /\ initialized' = TRUE /\ config' = config
      /\ liquidity_pool_supply' = lp /\ lp_total_supply' = lp
      /\ reserve' = amount /\ tick' = SpotTick(amount)
  BY <1>3 DEF NewDefinition, CanNewDefinition, OpenPool
<1>5. lp_total_supply = 0 /\ \A h \in Holder : holding["lp"][h] = 0
  BY <1>4 DEF PoolInv, NoSharesYet
<1>6. ASSUME NEW s \in Side
      PROVE  /\ holding'[s] = Transferred(holding[s], u, VAULT, amount[s])
             /\ holding[s] \in [Holder -> Amount]
             /\ Transferable(holding[s], u, VAULT, amount[s])
  BY <1>1 DEF NewDefinition, CanNewDefinition, OpenPool, PoolInv, TypeOK
<1>7. ASSUME NEW s \in Side
      PROVE  /\ holding'[s] \in [Holder -> Amount]
             /\ holding'[s][VAULT] = holding[s][VAULT] + amount[s]
  BY <1>1, <1>2, <1>6, TransferMoves
<1>8. /\ holding["lp"] \in [Holder -> Amount]
      /\ holding'["lp"] = [holding["lp"] EXCEPT ![LOCK] = MINIMUM_LIQUIDITY, ![u] = @ + rest]
  BY <1>1 DEF NewDefinition, CanNewDefinition, OpenPool, PoolInv, TypeOK
<1>9. /\ holding'["lp"] \in [Holder -> Amount]
      /\ holding'["lp"][LOCK] = MINIMUM_LIQUIDITY /\ holding'["lp"][u] = rest
      /\ \A h \in Holder \ {LOCK, u} : holding'["lp"][h] = 0
  <2>1. holding["lp"][u] + rest = rest
    BY <1>1, <1>3, <1>5
  <2> HIDE DEF rest
  <2> QED BY <1>1, <1>3, <1>5, <1>8, <2>1
<1>10. holding' \in [Token -> [Holder -> Amount]]
  <2>1. holding' = [t \in Token |-> holding'[t]]
    BY DEF NewDefinition, CanNewDefinition, OpenPool
  <2>2. \A t \in Token : holding'[t] \in [Holder -> Amount]
    BY <1>7, <1>9 DEF Token
  <2> QED BY <2>1, <2>2
<1>11. tick' \in Int
  BY <1>1, <1>2, <1>4, SpotTickIsInt
<1>12. TypeOK'
  BY <1>2, <1>3, <1>4, <1>10, <1>11 DEF AddressesKept, PoolInv, TypeOK, Amount
<1>13. FeesAreValid' /\ NamespaceFirst' /\ NoSharesYet' /\ TickFollowsReserves'
  BY <1>4 DEF PoolInv, FeesAreValid, NamespaceFirst, NoSharesYet, TickFollowsReserves, SpotTick
<1>14. VaultsCoverReserves'
  <2>1. ASSUME NEW s \in Side PROVE amount[s] <= holding'[s][VAULT]
    BY <1>1, <1>2, <1>6, <1>7 DEF Amount
  <2> QED BY <1>4, <2>1 DEF VaultsCoverReserves
<1>15. LiquidityStaysLocked'
  BY <1>2, <1>3, <1>4, <1>9, NumberAssumption DEF LiquidityStaysLocked, Amount
<1>16. LpSupplyIsTracked'
  <2> DEFINE g == [h \in Holder |-> IF h = LOCK THEN MINIMUM_LIQUIDITY ELSE 0]
             z == [h \in Holder |-> 0]
  <2>1. 0 \in Amount /\ g \in [Holder -> Amount] /\ z \in [Holder -> Amount]
    BY <1>3, NumberAssumption DEF Amount
  <2>2. SumFunctionOnSet(z, Holder) = 0
    BY HolderIsFinite, SumOfZeros
  <2>3. SumFunctionOnSet(g, Holder) = SumFunctionOnSet(z, Holder) + MINIMUM_LIQUIDITY
    <3>1. /\ g[LOCK] = z[LOCK] + MINIMUM_LIQUIDITY /\ MINIMUM_LIQUIDITY \in Int
          /\ \A h \in Holder \ {LOCK} : g[h] = z[h]
      BY <1>1, NumberAssumption
    <3> HIDE DEF g, z
    <3> QED BY <1>1, <2>1, <3>1, SharesChangeBy
  <2>4. SumFunctionOnSet(holding'["lp"], Holder) = SumFunctionOnSet(g, Holder) + rest
    <3>1. /\ holding'["lp"][u] = g[u] + rest /\ rest \in Int
          /\ \A h \in Holder \ {u} : holding'["lp"][h] = g[h]
      BY <1>1, <1>3, <1>9
    <3> HIDE DEF g, rest
    <3> QED BY <1>1, <1>9, <2>1, <3>1, SharesChangeBy
  <2>5. SumFunctionOnSet(holding'["lp"], Holder) = lp
    <3> HIDE DEF g, z, rest
    <3> QED BY <1>3, <2>2, <2>3, <2>4, NumberAssumption
  <2> QED BY <1>3, <1>4, <2>5 DEF LpSupplyIsTracked, Amount
<1> QED BY <1>12, <1>13, <1>14, <1>15, <1>16 DEF AddressesKept, PoolInv, PoolIsSolvent

LEMMA DepositKeepsPoolInv ==
  ASSUME PoolInv, AddressesKept, initialized, NEW u \in User, NEW to \in User \union {LOCK},
         NEW amount \in [Side -> Amount], NEW minted \in Nat,
         CanDeposit(u, to, amount, minted), Deposit(u, to, amount, minted)
  PROVE  PoolInv'
<1>1. /\ TypeOK /\ to \in Holder /\ LOCK \in Holder /\ initialized' = initialized
      /\ config' = config /\ "lp" \in Token /\ Side \subseteq Token /\ VAULT \in Holder
  BY DEF Deposit, PoolInv, Holder, Token
<1>2. /\ holding' \in [Token -> [Holder -> Amount]]
      /\ \A s \in Side : holding'[s][VAULT] = holding[s][VAULT] + amount[s]
      /\ holding'["lp"][to] = holding["lp"][to] + minted
      /\ \A h \in Holder \ {to} : holding'["lp"][h] = holding["lp"][h]
      /\ reserve' \in [Side -> Amount]
      /\ \A s \in Side : reserve'[s] = reserve[s] + amount[s]
      /\ lp_total_supply' \in Amount /\ lp_total_supply' = lp_total_supply + minted
      /\ liquidity_pool_supply' \in Amount
      /\ liquidity_pool_supply' = liquidity_pool_supply + minted
      /\ tick' \in Int /\ tick' = SpotTick(reserve')
  BY <1>1, DepositMoves
<1>3. /\ TypeOK'
  BY <1>1, <1>2 DEF AddressesKept, TypeOK
<1>4. FeesAreValid' /\ NamespaceFirst' /\ NoSharesYet' /\ TickFollowsReserves'
  BY <1>1, <1>2
     DEF PoolInv, FeesAreValid, NamespaceFirst, NoSharesYet, TickFollowsReserves, SpotTick
<1>5. ASSUME NEW s \in Side
      PROVE  reserve'[s] <= holding'[s][VAULT] /\ reserve'[s] > 0
  <2>1. reserve[s] \in Nat \ {0} /\ reserve[s] <= holding[s][VAULT]
        /\ holding[s][VAULT] \in Nat /\ amount[s] \in Nat
    BY <1>1, PoolIsOpen DEF TypeOK, Amount
  <2>2. /\ reserve'[s] = reserve[s] + amount[s]
        /\ holding'[s][VAULT] = holding[s][VAULT] + amount[s]
    BY <1>2
  <2> QED BY <2>1, <2>2
<1>6. holding'["lp"][LOCK] >= MINIMUM_LIQUIDITY /\ liquidity_pool_supply' >= MINIMUM_LIQUIDITY
  <2>1. /\ holding["lp"][LOCK] \in Nat /\ holding["lp"][LOCK] >= MINIMUM_LIQUIDITY
        /\ liquidity_pool_supply \in Nat /\ liquidity_pool_supply >= MINIMUM_LIQUIDITY
    BY <1>1 DEF PoolInv, TypeOK, PoolIsSolvent, LiquidityStaysLocked, Amount
  <2>2. \/ holding'["lp"][LOCK] = holding["lp"][LOCK] + minted
        \/ holding'["lp"][LOCK] = holding["lp"][LOCK]
    BY <1>1, <1>2
  <2> QED BY <1>2, <2>1, <2>2, NumberAssumption
<1>7. LpSupplyIsTracked'
  <2>1. holding["lp"] \in [Holder -> Amount] /\ holding'["lp"] \in [Holder -> Amount]
    BY <1>1, <1>2 DEF TypeOK
  <2>2. /\ to \in Holder /\ minted \in Int
        /\ holding'["lp"][to] = holding["lp"][to] + minted
        /\ \A h \in Holder \ {to} : holding'["lp"][h] = holding["lp"][h]
    BY <1>1, <1>2
  <2>3. SumFunctionOnSet(holding'["lp"], Holder) = SumFunctionOnSet(holding["lp"], Holder) + minted
    BY <2>1, <2>2, SharesChangeBy
  <2>4. /\ lp_total_supply' = lp_total_supply + minted
        /\ liquidity_pool_supply' = liquidity_pool_supply + minted
    BY <1>2
  <2> QED BY <1>1, <2>3, <2>4
          DEF PoolInv, TypeOK, PoolIsSolvent, LpSupplyIsTracked, Amount
<1> QED BY <1>3, <1>4, <1>5, <1>6, <1>7
        DEF AddressesKept, PoolInv, PoolIsSolvent, VaultsCoverReserves, LiquidityStaysLocked

\* Whoever withdraws less than all the shares leaves something of each reserve.
LEMMA WithdrawalLeavesReserves ==
  ASSUME NEW r \in Nat \ {0}, NEW l \in Nat, NEW n \in Nat, n < l,
         NEW x \in Nat, x * l <= r * n
  PROVE  x < r
<1>1. r * n < r * l
  OBVIOUS
<1>2. x * l < r * l
  BY <1>1, ProductIsNat
<1> QED BY <1>2, FactorCancels

LEMMA PayOutKeepsPoolInv ==
  ASSUME PoolInv, AddressesKept, initialized, NEW u \in User, NEW n \in Nat, n <= holding["lp"][u],
         n <= liquidity_pool_supply - MINIMUM_LIQUIDITY, NEW amount \in [Side -> Nat],
         CanPayOut(u, n, amount), PayOut(u, n, amount),
         \A s \in Side : amount[s] * liquidity_pool_supply <= reserve[s] * n
  PROVE  PoolInv'
<1>1. /\ TypeOK /\ u \in Holder /\ LOCK \in Holder /\ u # LOCK /\ initialized' = initialized
      /\ config' = config /\ "lp" \in Token /\ Side \subseteq Token /\ VAULT \in Holder
  BY HolderAssumption DEF PayOut, PoolInv, Holder, Token
<1>2. /\ liquidity_pool_supply \in Nat /\ MINIMUM_LIQUIDITY \in Nat \ {0}
      /\ n < liquidity_pool_supply
  BY PoolIsOpen, NumberAssumption
<1>3. /\ holding' \in [Token -> [Holder -> Amount]]
      /\ \A s \in Side : holding'[s][VAULT] = holding[s][VAULT] - amount[s]
      /\ holding'["lp"][u] = holding["lp"][u] - n
      /\ \A h \in Holder \ {u} : holding'["lp"][h] = holding["lp"][h]
      /\ reserve' \in [Side -> Amount]
      /\ \A s \in Side : reserve'[s] = reserve[s] - amount[s]
      /\ lp_total_supply' \in Amount /\ lp_total_supply' = lp_total_supply - n
      /\ liquidity_pool_supply' \in Amount
      /\ liquidity_pool_supply' = liquidity_pool_supply - n
      /\ tick' \in Int /\ tick' = SpotTick(reserve')
  BY <1>1, <1>2, PayOutMoves
<1>4. TypeOK'
  BY <1>1, <1>3 DEF AddressesKept, TypeOK
<1>5. FeesAreValid' /\ NamespaceFirst' /\ NoSharesYet' /\ TickFollowsReserves'
  BY <1>1, <1>3
     DEF PoolInv, FeesAreValid, NamespaceFirst, NoSharesYet, TickFollowsReserves, SpotTick
<1>6. ASSUME NEW s \in Side
      PROVE  reserve'[s] <= holding'[s][VAULT] /\ reserve'[s] > 0
  <2>1. reserve[s] \in Nat \ {0} /\ reserve[s] <= holding[s][VAULT]
        /\ holding[s][VAULT] \in Nat /\ amount[s] \in Nat
    BY <1>1, PoolIsOpen DEF TypeOK, Amount
  <2>2. amount[s] < reserve[s]
    BY <1>2, <2>1, WithdrawalLeavesReserves
  <2> QED BY <1>3, <2>1, <2>2
<1>7. holding'["lp"][LOCK] >= MINIMUM_LIQUIDITY /\ liquidity_pool_supply' >= MINIMUM_LIQUIDITY
  BY <1>1, <1>2, <1>3 DEF PoolInv, PoolIsSolvent, LiquidityStaysLocked
<1>8. LpSupplyIsTracked'
  <2>1. holding["lp"] \in [Holder -> Amount] /\ holding'["lp"] \in [Holder -> Amount]
    BY <1>1, <1>3 DEF TypeOK
  <2>2. 0 - n \in Int /\ holding'["lp"][u] = holding["lp"][u] + (0 - n)
    BY <1>1, <1>3, <2>1 DEF Amount
  <2>3. SumFunctionOnSet(holding'["lp"], Holder) = SumFunctionOnSet(holding["lp"], Holder) + (0 - n)
    BY <1>1, <1>3, <2>1, <2>2, SharesChangeBy
  <2> QED BY <1>1, <1>3, <2>3
          DEF PoolInv, TypeOK, PoolIsSolvent, LpSupplyIsTracked, Amount
<1> QED BY <1>4, <1>5, <1>6, <1>7, <1>8
        DEF AddressesKept, PoolInv, PoolIsSolvent, VaultsCoverReserves, LiquidityStaysLocked

\* The LP ledger, the namespace and whether there is a pool are as they were.
LEMMA SwapKeepsTheShares ==
  ASSUME PoolInv, initialized, holding'["lp"] = holding["lp"],
         UNCHANGED <<lp_total_supply, initialized, liquidity_pool_supply, config>>,
         tick' = SpotTick(reserve')
  PROVE  /\ FeesAreValid' /\ NamespaceFirst' /\ NoSharesYet' /\ TickFollowsReserves'
         /\ LpSupplyIsTracked'
         /\ holding'["lp"][LOCK] >= MINIMUM_LIQUIDITY
         /\ liquidity_pool_supply' >= MINIMUM_LIQUIDITY
BY DEF PoolInv, FeesAreValid, NamespaceFirst, NoSharesYet, TickFollowsReserves, SpotTick,
       PoolIsSolvent, LpSupplyIsTracked, LiquidityStaysLocked

LEMMA SwapKeepsPoolInv ==
  ASSUME PoolInv, AddressesKept, initialized, NEW u \in User, NEW s \in Side, NEW n \in Nat,
         NEW e \in Nat, NEW out \in Nat, SwapIsPriced(u, s, n, e, out)
  PROVE  PoolInv'
<1> DEFINE o == Other(s)
<1>1. /\ TypeOK /\ FeesAreValid /\ config.initialized
      /\ e <= n /\ out < reserve[o]
      /\ CanExecuteSwap(u, s, n, e, out) /\ ExecuteSwap(u, s, n, e, out)
      /\ UNCHANGED <<lp_total_supply, initialized, liquidity_pool_supply, config>>
  BY PoolIsOpen DEF PoolInv, SwapIsPriced, ExecuteSwap
<1>2. s \in Side /\ o \in Side /\ s # o /\ Side = {s, o} /\ Side \subseteq Token
      /\ VAULT \in Holder
  BY OtherSide DEF Token, Holder
<1>3. PICK net \in Nat :
         /\ holding' \in [Token -> [Holder -> Amount]]
         /\ holding'["lp"] = holding["lp"]
         /\ holding'[s][VAULT] = holding[s][VAULT] + net
         /\ holding'[o][VAULT] = holding[o][VAULT] - out
         /\ reserve' \in [Side -> Amount]
         /\ reserve'[s] = reserve[s] + net
         /\ reserve'[o] = reserve[o] - out
         /\ tick' \in Int /\ tick' = SpotTick(reserve')
  BY <1>1, SwapMoves
<1>4. TypeOK'
  BY <1>1, <1>3 DEF AddressesKept, TypeOK
<1>5. \A q \in Side : /\ reserve[q] \in Nat \ {0} /\ holding[q][VAULT] \in Nat
                      /\ reserve[q] <= holding[q][VAULT]
  BY <1>1, <1>2, PoolIsOpen DEF TypeOK, Amount
<1>6. \A q \in Side : reserve'[q] <= holding'[q][VAULT] /\ reserve'[q] > 0
  <2> HIDE DEF o
  <2> QED BY <1>1, <1>2, <1>3, <1>5
<1> QED BY <1>1, <1>3, <1>4, <1>6, SwapKeepsTheShares
        DEF AddressesKept, PoolInv, PoolIsSolvent, VaultsCoverReserves, LiquidityStaysLocked

LEMMA SyncKeepsPoolInv ==
  ASSUME PoolInv, AddressesKept, SyncReserves
  PROVE  PoolInv'
<1>1. /\ TypeOK /\ initialized /\ Side \subseteq Token /\ VAULT \in Holder
      /\ reserve' = [s \in Side |-> holding[s][VAULT]]
      /\ UNCHANGED <<holding, lp_total_supply, initialized, liquidity_pool_supply, config>>
      /\ HasSpotPrice(reserve') /\ RefreshTick
  BY DEF PoolInv, SyncReserves, validate_swap_setup, Token, Holder
<1>2. reserve' \in [Side -> Amount]
  BY <1>1 DEF TypeOK
<1>3. tick' \in Int /\ tick' = SpotTick(reserve')
  BY <1>1, <1>2, SpotTickIsInt DEF RefreshTick, HasSpotPrice
<1>4. TypeOK'
  BY <1>1, <1>2, <1>3 DEF AddressesKept, TypeOK
<1>5. ASSUME NEW s \in Side
      PROVE  reserve'[s] <= holding'[s][VAULT] /\ reserve'[s] > 0
  <2>1. reserve[s] \in Nat \ {0} /\ reserve[s] <= holding[s][VAULT] /\ holding[s][VAULT] \in Nat
    BY <1>1, PoolIsOpen DEF TypeOK, Amount
  <2> QED BY <1>1, <2>1
<1> QED BY <1>1, <1>3, <1>4, <1>5, SwapKeepsTheShares
        DEF AddressesKept, PoolInv, PoolIsSolvent, VaultsCoverReserves, LiquidityStaysLocked

\* A step of the addresses only.
LEMMA PoolAlone ==
  ASSUME PoolInv, AddressesKept,
         UNCHANGED <<holding, lp_total_supply, initialized, liquidity_pool_supply, reserve,
                     config, tick>>
  PROVE  PoolInv'
BY DEF AddressesKept, PoolInv, TypeOK, FeesAreValid, NamespaceFirst, NoSharesYet, PoolIsSolvent,
   VaultsCoverReserves, LiquidityStaysLocked, LpSupplyIsTracked, TickFollowsReserves, SpotTick

LEMMA NextKeepsPoolInv == PoolInv /\ [Next]_vars => PoolInv'
<1> SUFFICES ASSUME PoolInv, [Next]_vars PROVE PoolInv'
  OBVIOUS
<1>0. AddressesKept
  BY NextKeepsAddresses DEF PoolInv
<1>1. CASE NamespaceNext
  <2>1. ASSUME NEW x \in Authority, NEW s \in Side, NEW d \in User \union {VAULT},
               NEW n \in Input, WithdrawProtocolFees(x, s, d, n)
        PROVE  PoolInv'
    <3>1. /\ s \in Token /\ s # "lp" /\ FEES \in Holder \ {VAULT, LOCK} /\ d \in Holder
          /\ FEES # d /\ n \in Nat
      BY HolderAssumption, NumberAssumption DEF Side, Token, Holder, Amount
    <3>2. /\ Transferable(holding[s], FEES, d, n)
          /\ holding' = [holding EXCEPT ![s] = Transferred(@, FEES, d, n)]
          /\ UNCHANGED <<lp_total_supply, initialized, liquidity_pool_supply>>
          /\ UNCHANGED <<reserve, config, tick>>
      BY <2>1 DEF WithdrawProtocolFees
    <3> QED BY <1>0, <3>1, <3>2, TransferKeepsPoolInv
  <2> QED BY <1>0, <1>1, <2>1, NamespaceKeepsPoolInv DEF NamespaceNext
<1>2. CASE LiquidityNext
  <2>1. ASSUME NEW u \in User, NEW amount \in [Side -> Input], NEW lp \in Amount,
               NewDefinition(u, amount, lp)
        PROVE  PoolInv'
    <3>1. Input \subseteq Nat
      BY NumberAssumption DEF Amount
    <3>2. amount \in [Side -> Nat]
      BY <3>1
    <3> QED BY <1>0, <2>1, <3>2, NewDefinitionKeepsPoolInv
  <2>2. ASSUME NEW u \in User, NEW to \in User \union {LOCK}, NEW max \in [Side -> Input],
               NEW l \in Limit, AddLiquidity(u, to, max, l)
        PROVE  PoolInv'
    BY <1>0, <2>2, AddLiquidityDeposits, DepositKeepsPoolInv
  <2>3. ASSUME NEW u \in User, NEW n \in Input, NEW min \in [Side -> Limit],
               RemoveLiquidity(u, n, min)
        PROVE  PoolInv'
    BY <1>0, <2>3, RemoveLiquidityPays, PayOutKeepsPoolInv
  <2> QED BY <1>2, <2>1, <2>2, <2>3 DEF LiquidityNext
<1>3. CASE SwapNext
  <2>1. ASSUME NEW u \in User, NEW s \in Side, NEW n \in Input, NEW l \in Limit,
               SwapExactInput(u, s, n, l) \/ SwapExactOutput(u, s, n, l)
        PROVE  PoolInv'
    BY <1>0, <2>1, SwapExactInputIsPriced, SwapExactOutputIsPriced, SwapKeepsPoolInv
  <2> QED BY <1>0, <1>3, <2>1, SyncKeepsPoolInv DEF SwapNext
<1>4. CASE TokenNext
  <2>1. ASSUME NEW t \in Token, NEW u \in User, NEW h \in Holder, NEW n \in Input,
               TokenTransfer(t, u, h, n)
        PROVE  PoolInv'
    <3>1. u \in Holder \ {VAULT, LOCK} /\ h \in Holder /\ u # h /\ n \in Nat
      BY <2>1, HolderAssumption, NumberAssumption DEF TokenTransfer, Holder, Amount
    <3>2. /\ Transferable(holding[t], u, h, n)
          /\ holding' = [holding EXCEPT ![t] = Transferred(@, u, h, n)]
          /\ UNCHANGED <<lp_total_supply, initialized, liquidity_pool_supply>>
          /\ UNCHANGED <<reserve, config, tick>>
      BY <2>1 DEF TokenTransfer
    <3> QED BY <1>0, <3>1, <3>2, TransferKeepsPoolInv
  <2>2. ASSUME \/ \E u \in User, q \in Token : OpenHolding(u, q)
               \/ \E x \in Derived : Squat(x)
        PROVE  PoolInv'
    <3>1. UNCHANGED <<holding, lp_total_supply, initialized, liquidity_pool_supply, reserve,
                      config, tick>>
      BY <2>2 DEF OpenHolding, Squat
    <3> QED BY <1>0, <3>1, PoolAlone
  <2> QED BY <1>0, <1>4, <2>1, <2>2, BurnKeepsPoolInv DEF TokenNext
<1>5. CASE UNCHANGED vars
  BY <1>0, <1>5, PoolAlone DEF vars
<1> QED BY <1>1, <1>2, <1>3, <1>4, <1>5 DEF Next

---------------------------------------------------------------------------
(* Theorems                                                                *)

\* What solvency needs to be inductive, in every reachable state.
THEOREM PoolIsSound == Spec => []PoolInv
<1> QED BY InitPoolInv, NextKeepsPoolInv, PTL DEF Spec

\* Balances, supplies and reserves stay u128 values through every instruction, chained
\* call and direct token transfer (checked_add, checked_sub, the u128 conversions).
THEOREM TypeCorrect == Spec => []TypeOK
<1>1. PoolInv => TypeOK
  BY DEF PoolInv
<1> QED BY <1>1, PoolIsSound, PTL

\* The vaults cover the reserves, the minimum liquidity and both reserves stay, and the
\* pool knows of every LP token (add_liquidity, remove_liquidity, swap, sync_reserves).
THEOREM SolventForever == Spec => []PoolIsSolvent
<1>1. PoolInv => PoolIsSolvent
  BY DEF PoolInv
<1> QED BY <1>1, PoolIsSound, PTL

\* The current-tick account never lags behind the reserves (the chained UpdateCurrentTick of
\* add_liquidity, remove_liquidity, the swaps and sync_reserves).
THEOREM TickIsCurrent == Spec => []TickFollowsReserves
<1>1. PoolInv => TickFollowsReserves
  BY DEF PoolInv
<1> QED BY <1>1, PoolIsSound, PTL

---------------------------------------------------------------------------
(* Action properties                                                       *)

ShareStep ==
    initialized =>
        (reserve["a"] * reserve["b"]) * (liquidity_pool_supply' * liquidity_pool_supply')
          <= (reserve'["a"] * reserve'["b"]) * (liquidity_pool_supply * liquidity_pool_supply)

SurplusStep ==
    (initialized /\ \E s \in Side : surplus(s)' < surplus(s)) =>
        /\ UNCHANGED <<holding, lp_total_supply, liquidity_pool_supply>>
        /\ \A s \in Side : surplus(s)' = 0

\* The numbers the two speak of are naturals.
LEMMA PoolNumbers ==
  ASSUME TypeOK
  PROVE  /\ reserve["a"] \in Nat /\ reserve["b"] \in Nat /\ liquidity_pool_supply \in Nat
         /\ \A s \in Side : reserve[s] \in Nat /\ holding[s][VAULT] \in Nat
BY DEF TypeOK, Amount, Side, Token, Holder

\* A step that leaves the reserves and the shares alone.
LEMMA ReservesAlone ==
  ASSUME PoolInv, UNCHANGED <<reserve, liquidity_pool_supply>>
  PROVE  ShareStep
BY PoolNumbers, ProductIsNat DEF ShareStep, PoolInv

\* A step that spends no surplus.
LEMMA SurplusAlone ==
  ASSUME \A s \in Side : /\ holding[s][VAULT] - reserve[s] \in Int
                         /\ holding'[s][VAULT] - reserve'[s] \in Int
                         /\ holding[s][VAULT] - reserve[s] <= holding'[s][VAULT] - reserve'[s]
  PROVE  SurplusStep
BY DEF SurplusStep, surplus

LEMMA DepositIsFair ==
  ASSUME PoolInv, initialized, NEW u \in User, NEW to \in User \union {LOCK},
         NEW amount \in [Side -> Amount], NEW minted \in Nat,
         CanDeposit(u, to, amount, minted), Deposit(u, to, amount, minted),
         \A s \in Side : reserve[s] * minted <= amount[s] * liquidity_pool_supply
  PROVE  ShareStep /\ SurplusStep
<1> DEFINE l == liquidity_pool_supply
<1>1. TypeOK /\ l \in Nat /\ \A s \in Side : reserve[s] \in Nat /\ holding[s][VAULT] \in Nat
  BY PoolNumbers DEF PoolInv
<1>2. ASSUME NEW s \in Side
      PROVE  /\ reserve'[s] = reserve[s] + amount[s] /\ reserve'[s] \in Nat
             /\ holding'[s][VAULT] = holding[s][VAULT] + amount[s]
             /\ liquidity_pool_supply' = l + minted /\ amount[s] \in Nat
  <2>1. /\ reserve'[s] = reserve[s] + amount[s]
        /\ holding'[s][VAULT] = holding[s][VAULT] + amount[s]
        /\ liquidity_pool_supply' = l + minted
    BY <1>1, DepositMoves
  <2>2. reserve[s] \in Nat /\ amount[s] \in Nat
    BY <1>1 DEF Amount
  <2> QED BY <2>1, <2>2
<1>3. ASSUME NEW s \in Side
      PROVE  reserve[s] * (l + minted) <= reserve'[s] * l
  <2>1. /\ reserve[s] * (l + minted) = reserve[s] * l + reserve[s] * minted
        /\ (reserve[s] + amount[s]) * l = reserve[s] * l + amount[s] * l
        /\ reserve[s] * l \in Int /\ reserve[s] * minted \in Int /\ amount[s] * l \in Int
    BY <1>1, <1>2
  <2>2. reserve[s] * minted <= amount[s] * l
    OBVIOUS
  <2> QED BY <1>2, <2>1, <2>2
<1>4. ShareStep
  <2>1. /\ "a" \in Side /\ "b" \in Side /\ l + minted \in Nat
        /\ liquidity_pool_supply' = l + minted
    BY <1>1, <1>2 DEF Side
  <2> QED BY <1>1, <1>2, <1>3, <2>1, SharesKeepTheirWorth DEF ShareStep
<1>5. SurplusStep
  BY <1>1, <1>2, SurplusAlone
<1> QED BY <1>4, <1>5

LEMMA PayOutIsFair ==
  ASSUME PoolInv, initialized, NEW u \in User, NEW n \in Nat, n <= holding["lp"][u],
         n <= liquidity_pool_supply - MINIMUM_LIQUIDITY, NEW amount \in [Side -> Nat],
         CanPayOut(u, n, amount), PayOut(u, n, amount),
         \A s \in Side : amount[s] * liquidity_pool_supply <= reserve[s] * n
  PROVE  ShareStep /\ SurplusStep
<1> DEFINE l == liquidity_pool_supply
<1>1. /\ TypeOK /\ l \in Nat /\ n <= l
      /\ \A s \in Side : reserve[s] \in Nat /\ holding[s][VAULT] \in Nat
  BY PoolNumbers, NumberAssumption DEF PoolInv
<1>2. ASSUME NEW s \in Side
      PROVE  /\ reserve'[s] = reserve[s] - amount[s] /\ reserve'[s] \in Nat
             /\ holding'[s][VAULT] = holding[s][VAULT] - amount[s]
             /\ liquidity_pool_supply' = l - n
  BY <1>1, PayOutMoves DEF Amount
<1>3. ASSUME NEW s \in Side
      PROVE  reserve[s] * (l - n) <= reserve'[s] * l
  <2>1. /\ reserve[s] * (l - n) = reserve[s] * l - reserve[s] * n
        /\ (reserve[s] - amount[s]) * l = reserve[s] * l - amount[s] * l
        /\ reserve[s] * l \in Int /\ reserve[s] * n \in Int /\ amount[s] * l \in Int
    BY <1>1, <1>2
  <2>2. amount[s] * l <= reserve[s] * n
    OBVIOUS
  <2> QED BY <1>2, <2>1, <2>2
<1>4. ShareStep
  <2>1. /\ "a" \in Side /\ "b" \in Side /\ l - n \in Nat
        /\ liquidity_pool_supply' = l - n
    BY <1>1, <1>2 DEF Side
  <2> QED BY <1>1, <1>2, <1>3, <2>1, SharesKeepTheirWorth DEF ShareStep
<1>5. SurplusStep
  BY <1>1, <1>2, SurplusAlone
<1> QED BY <1>4, <1>5

LEMMA SwapIsFair ==
  ASSUME PoolInv, initialized, NEW u \in User, NEW s \in Side, NEW n \in Nat,
         NEW e \in Nat, NEW out \in Nat, SwapIsPriced(u, s, n, e, out)
  PROVE  ShareStep /\ SurplusStep
<1> DEFINE o == Other(s)
           l == liquidity_pool_supply
<1>1. /\ TypeOK /\ FeesAreValid /\ config.initialized
      /\ e <= n /\ out < reserve[o]
      /\ CanExecuteSwap(u, s, n, e, out) /\ ExecuteSwap(u, s, n, e, out)
  BY PoolIsOpen DEF PoolInv, SwapIsPriced
<1>2. s \in Side /\ o \in Side /\ Side = {s, o} /\ s # o
  BY OtherSide
<1>3. PICK net \in Nat :
         /\ e <= net
         /\ holding' \in [Token -> [Holder -> Amount]]
         /\ holding'[s][VAULT] = holding[s][VAULT] + net
         /\ holding'[o][VAULT] = holding[o][VAULT] - out
         /\ reserve' \in [Side -> Amount]
         /\ reserve'[s] = reserve[s] + net
         /\ reserve'[o] = reserve[o] - out
  BY <1>1, SwapMoves
<1>4. reserve[s] * out <= e * (reserve[o] - out) /\ liquidity_pool_supply' = l
  BY DEF SwapIsPriced, ExecuteSwap
<1>5. /\ l \in Nat /\ \A q \in Side : reserve[q] \in Nat /\ holding[q][VAULT] \in Nat
      /\ \A q \in Side : reserve'[q] \in Nat
  BY <1>1, <1>3, PoolNumbers DEF Amount
<1>6. reserve[s] * reserve[o] <= reserve'[s] * reserve'[o]
  <2>1. reserve[s] * reserve[o] <= (reserve[s] + net) * (reserve[o] - out)
    <3>1. /\ reserve[s] \in Nat /\ reserve[o] \in Nat /\ out <= reserve[o] /\ e <= net
          /\ reserve[s] * out <= e * (reserve[o] - out)
      BY <1>1, <1>2, <1>3, <1>4, <1>5
    <3> HIDE DEF o
    <3> QED BY <3>1, SwapKeepsTheProduct
  <2> QED BY <1>3, <2>1
<1>7. reserve["a"] * reserve["b"] <= reserve'["a"] * reserve'["b"]
  <2>1. (s = "a" /\ o = "b") \/ (s = "b" /\ o = "a")
    BY DEF Side, Other
  <2>2. CASE s = "a" /\ o = "b"
    BY <1>6, <2>2
  <2>3. CASE s = "b" /\ o = "a"
    <3>1. /\ reserve["a"] * reserve["b"] = reserve["b"] * reserve["a"]
          /\ reserve'["a"] * reserve'["b"] = reserve'["b"] * reserve'["a"]
      BY <1>2, <1>5, <2>3
    <3> QED BY <1>6, <2>3, <3>1
  <2> QED BY <2>1, <2>2, <2>3
<1>8. ShareStep
  <2>1. /\ reserve["a"] * reserve["b"] \in Nat /\ reserve'["a"] * reserve'["b"] \in Nat
        /\ l * l \in Nat
    BY <1>5, ProductIsNat DEF Side
  <2> HIDE DEF l
  <2>2. l * l <= l * l
    BY <2>1
  <2>3. (reserve["a"] * reserve["b"]) * (l * l) <= (reserve'["a"] * reserve'["b"]) * (l * l)
    BY <1>7, <2>1, <2>2, ProductsAreOrdered
  <2> QED BY <1>4, <2>3 DEF ShareStep, l
<1>9. SurplusStep
  <2> HIDE DEF o
  <2>1. \A q \in Side : q = s \/ q = o
    BY <1>2
  <2>2. ASSUME NEW q \in Side
        PROVE  /\ holding[q][VAULT] - reserve[q] \in Int
               /\ holding'[q][VAULT] - reserve'[q] = holding[q][VAULT] - reserve[q]
    <3>1. reserve[q] \in Nat /\ holding[q][VAULT] \in Nat
      BY <1>5
    <3>2. CASE q = s
      <4>1. holding'[q][VAULT] = holding[q][VAULT] + net /\ reserve'[q] = reserve[q] + net
        BY <1>3, <3>2
      <4> QED BY ONLY net \in Nat, <3>1, <4>1
    <3>3. CASE q = o
      <4>1. holding'[q][VAULT] = holding[q][VAULT] - out /\ reserve'[q] = reserve[q] - out
        BY <1>3, <3>3
      <4> QED BY ONLY out \in Nat, <3>1, <4>1
    <3> QED BY <2>1, <3>2, <3>3
  <2> QED BY <2>2, SurplusAlone
<1> QED BY <1>8, <1>9

LEMMA SyncIsFair ==
  ASSUME PoolInv, SyncReserves
  PROVE  ShareStep /\ SurplusStep
<1> DEFINE l == liquidity_pool_supply
<1>1. /\ TypeOK /\ initialized /\ liquidity_pool_supply' = l /\ holding' = holding
      /\ \A s \in Side : reserve'[s] = holding[s][VAULT]
  BY DEF PoolInv, SyncReserves, validate_swap_setup
<1>2. /\ l \in Nat
      /\ \A s \in Side : /\ reserve[s] \in Nat /\ holding[s][VAULT] \in Nat
                         /\ reserve[s] <= holding[s][VAULT]
  BY <1>1, PoolNumbers, PoolIsOpen
<1>3. reserve["a"] * reserve["b"] <= reserve'["a"] * reserve'["b"]
  BY <1>1, <1>2, ProductsAreOrdered DEF Side
<1>4. (reserve["a"] * reserve["b"]) * (l * l) <= (reserve'["a"] * reserve'["b"]) * (l * l)
  <2>1. /\ reserve["a"] * reserve["b"] \in Nat /\ reserve'["a"] * reserve'["b"] \in Nat
        /\ l * l \in Nat
    BY <1>1, <1>2, ProductIsNat DEF Side
  <2> HIDE DEF l
  <2>2. l * l <= l * l
    BY <2>1
  <2> QED BY <1>3, <2>1, <2>2, ProductsAreOrdered
<1>5. UNCHANGED <<holding, lp_total_supply, liquidity_pool_supply>>
  BY DEF SyncReserves
<1>6. \A s \in Side : holding'[s][VAULT] - reserve'[s] = 0
  BY <1>1, <1>2
<1> QED BY <1>1, <1>4, <1>5, <1>6 DEF ShareStep, SurplusStep, surplus

\* A step that touches neither the pool nor what is in its vaults, but to add to them.
LEMMA DonationIsFair ==
  ASSUME PoolInv, UNCHANGED <<reserve, liquidity_pool_supply>>,
         \A s \in Side : /\ holding'[s][VAULT] \in Int
                         /\ holding[s][VAULT] <= holding'[s][VAULT]
  PROVE  ShareStep /\ SurplusStep
<1>1. \A s \in Side : /\ reserve[s] \in Int /\ holding[s][VAULT] \in Int
                      /\ reserve'[s] = reserve[s]
  BY PoolNumbers DEF PoolInv
<1> QED BY <1>1, ReservesAlone, SurplusAlone

LEMMA TransferIsFair ==
  ASSUME PoolInv, NEW t \in Token, NEW from \in Holder \ {VAULT}, NEW to \in Holder,
         from # to, NEW n \in Nat, Transferable(holding[t], from, to, n),
         holding' = [holding EXCEPT ![t] = Transferred(@, from, to, n)],
         UNCHANGED <<reserve, liquidity_pool_supply>>
  PROVE  ShareStep /\ SurplusStep
<1>1. holding[t] \in [Holder -> Amount] /\ Side \subseteq Token /\ VAULT \in Holder
  BY DEF PoolInv, TypeOK, Token, Holder
<1>2. /\ holding'[t] = Transferred(holding[t], from, to, n)
      /\ \A s \in Token \ {t} : holding'[s] = holding[s]
  BY DEF PoolInv, TypeOK
<1>3. /\ holding'[t][to] = holding[t][to] + n
      /\ \A x \in Holder \ {from, to} : holding'[t][x] = holding[t][x]
  BY <1>1, <1>2, TransferMoves
<1>4. ASSUME NEW s \in Side
      PROVE  holding'[s][VAULT] \in Int /\ holding[s][VAULT] <= holding'[s][VAULT]
  <2>1. holding[s][VAULT] \in Int
    BY PoolNumbers DEF PoolInv
  <2> QED BY <1>1, <1>2, <1>3, <2>1
<1> QED BY <1>4, DonationIsFair

LEMMA NextIsFair == PoolInv /\ [Next]_vars => [ShareStep /\ SurplusStep]_vars
<1> SUFFICES ASSUME PoolInv, Next PROVE ShareStep /\ SurplusStep
  OBVIOUS
<1>1. \A s \in Side : holding[s][VAULT] \in Int
  BY PoolNumbers DEF PoolInv
<1>2. CASE NamespaceNext
  <2>1. ASSUME NEW x \in Authority, NEW s \in Side, NEW d \in User \union {VAULT},
               NEW n \in Input, WithdrawProtocolFees(x, s, d, n)
        PROVE  ShareStep /\ SurplusStep
    <3>1. /\ s \in Token /\ FEES \in Holder \ {VAULT} /\ d \in Holder /\ FEES # d /\ n \in Nat
      BY HolderAssumption, NumberAssumption DEF Token, Holder, Amount
    <3>2. /\ Transferable(holding[s], FEES, d, n)
          /\ holding' = [holding EXCEPT ![s] = Transferred(@, FEES, d, n)]
          /\ UNCHANGED <<reserve, liquidity_pool_supply>>
      BY <2>1 DEF WithdrawProtocolFees
    <3> QED BY <3>1, <3>2, TransferIsFair
  <2>2. ASSUME \/ \E x \in Authority, f \in SwapFee, p \in ProtocolFee : Initialize(x, f, p)
               \/ \E x, y \in Authority : UpdateConfig(x, y)
        PROVE  ShareStep /\ SurplusStep
    <3>1. UNCHANGED <<holding, reserve, liquidity_pool_supply>>
      BY <2>2 DEF Initialize, UpdateConfig
    <3> QED BY <1>1, <3>1, DonationIsFair
  <2> QED BY <1>2, <2>1, <2>2 DEF NamespaceNext
<1>3. CASE LiquidityNext
  <2>1. ASSUME NEW u \in User, NEW amount \in [Side -> Input], NEW lp \in Amount,
               NewDefinition(u, amount, lp)
        PROVE  ShareStep /\ SurplusStep
    BY <2>1 DEF NewDefinition, CanNewDefinition, ShareStep, SurplusStep
  <2>2. ASSUME NEW u \in User, NEW to \in User \union {LOCK}, NEW max \in [Side -> Input],
               NEW l \in Limit, AddLiquidity(u, to, max, l)
        PROVE  ShareStep /\ SurplusStep
    BY <2>2, AddLiquidityDeposits, DepositIsFair
  <2>3. ASSUME NEW u \in User, NEW n \in Input, NEW min \in [Side -> Limit],
               RemoveLiquidity(u, n, min)
        PROVE  ShareStep /\ SurplusStep
    BY <2>3, RemoveLiquidityPays, PayOutIsFair
  <2> QED BY <1>3, <2>1, <2>2, <2>3 DEF LiquidityNext
<1>4. CASE SwapNext
  <2>1. ASSUME NEW u \in User, NEW s \in Side, NEW n \in Input, NEW l \in Limit,
               SwapExactInput(u, s, n, l) \/ SwapExactOutput(u, s, n, l)
        PROVE  ShareStep /\ SurplusStep
    BY <2>1, SwapExactInputIsPriced, SwapExactOutputIsPriced, SwapIsFair
  <2> QED BY <1>4, <2>1, SyncIsFair DEF SwapNext
<1>5. CASE TokenNext
  <2>1. ASSUME NEW t \in Token, NEW u \in User, NEW h \in Holder, NEW n \in Input,
               TokenTransfer(t, u, h, n)
        PROVE  ShareStep /\ SurplusStep
    <3>1. u \in Holder \ {VAULT} /\ h \in Holder /\ u # h /\ n \in Nat
      BY <2>1, HolderAssumption, NumberAssumption DEF TokenTransfer, Holder, Amount
    <3>2. /\ Transferable(holding[t], u, h, n)
          /\ holding' = [holding EXCEPT ![t] = Transferred(@, u, h, n)]
          /\ UNCHANGED <<reserve, liquidity_pool_supply>>
      BY <2>1 DEF TokenTransfer
    <3> QED BY <3>1, <3>2, TransferIsFair
  <2>2. ASSUME NEW u \in User, NEW n \in Input, BurnLp(u, n)
        PROVE  ShareStep /\ SurplusStep
    <3>1. UNCHANGED <<reserve, liquidity_pool_supply>> /\ \A s \in Side : holding'[s] = holding[s]
      BY <2>2 DEF BurnLp, PoolInv, TypeOK, Side, Token
    <3> QED BY <1>1, <3>1, DonationIsFair
  <2>3. ASSUME \/ \E u \in User, t \in Token : OpenHolding(u, t)
               \/ \E x \in Derived : Squat(x)
        PROVE  ShareStep /\ SurplusStep
    <3>1. UNCHANGED <<holding, reserve, liquidity_pool_supply>>
      BY <2>3 DEF OpenHolding, Squat
    <3> QED BY <1>1, <3>1, DonationIsFair
  <2> QED BY <1>5, <2>1, <2>2, <2>3 DEF TokenNext
<1> QED BY <1>2, <1>3, <1>4, <1>5 DEF Next

\* No deposit, withdrawal, swap, sync or burn makes a share of the reserves worth less
\* (the roundings of add_liquidity, remove_liquidity and swap_logic).
THEOREM SharesNeverLose == Spec => ShareValueNeverFalls
<1>1. PoolInv /\ [Next]_vars =>
        [initialized =>
           (reserve["a"] * reserve["b"]) * (liquidity_pool_supply' * liquidity_pool_supply')
             <= (reserve'["a"] * reserve'["b"])
                   * (liquidity_pool_supply * liquidity_pool_supply)]_vars
  BY NextIsFair DEF ShareStep
<1> QED BY <1>1, PoolIsSound, PTL DEF Spec, ShareValueNeverFalls

\* What is in a vault beyond the reserves stays beyond reach until sync_reserves, which
\* pays nobody, takes all of it in.
THEOREM SurplusIsSafe == Spec => SurplusLeavesOnlyBySync
<1>1. PoolInv /\ [Next]_vars =>
        [(initialized /\ \E s \in Side : surplus(s)' < surplus(s)) =>
            /\ UNCHANGED <<holding, lp_total_supply, liquidity_pool_supply>>
            /\ \A s \in Side : surplus(s)' = 0]_vars
  BY NextIsFair DEF SurplusStep
<1> QED BY <1>1, PoolIsSound, PTL DEF Spec, SurplusLeavesOnlyBySync

---------------------------------------------------------------------------
(* Rounding                                                                *)

\* One side: what a share of the grown reserve is worth, against what it cost.
LEMMA ShareWorthIsPaidFor ==
  ASSUME NEW l \in Nat \ {0}, NEW m \in Nat, NEW r \in Nat, NEW x \in Nat, r * m <= x * l
  PROVE  mul_div_floor(r + x, m, l + m) <= x
<1> DEFINE w == mul_div_floor(r + x, m, l + m)
<1>1. l + m \in Nat \ {0} /\ r + x \in Nat
  OBVIOUS
<1>2. w \in Nat /\ w * (l + m) <= (r + x) * m
  BY <1>1, ShareIsCovered
<1>3. (r + x) * m <= x * (l + m)
  <2>1. (r + x) * m = r * m + x * m /\ x * (l + m) = x * l + x * m
    OBVIOUS
  <2>2. r * m \in Int /\ x * m \in Int /\ x * l \in Int
    OBVIOUS
  <2> QED BY <2>1, <2>2
<1>4. w * (l + m) <= x * (l + m)
  <2>1. w * (l + m) \in Int /\ (r + x) * m \in Int /\ x * (l + m) \in Int
    BY <1>2
  <2> QED BY <1>2, <1>3, <2>1
<1> HIDE DEF w
<1>5. w <= x
  BY <1>1, <1>2, <1>4, FactorCancels
<1> QED BY <1>5 DEF w

LEMMA AddingThenRemoving == PoolInv => AddThenRemoveNeverProfits
<1> SUFFICES ASSUME PoolInv, initialized, NEW max \in [Side -> Input \ {0}], NEW s \in Side
             PROVE  LET amount == actual_amount(reserve, max)
                        minted == delta_lp(liquidity_pool_supply, reserve, amount)
                        out    == withdraw_amount(liquidity_pool_supply + minted,
                                                  [q \in Side |-> reserve[q] + amount[q]], minted)
                    IN  out[s] <= amount[s]
  BY DEF AddThenRemoveNeverProfits
<1> DEFINE amount == actual_amount(reserve, max)
           minted == delta_lp(liquidity_pool_supply, reserve, amount)
<1>1. reserve \in [Side -> Nat \ {0}] /\ liquidity_pool_supply \in Nat \ {0}
  BY PoolIsOpen DEF PoolInv, TypeOK
<1>2. amount \in [Side -> Nat]
  <2>1. ASSUME NEW q \in Side
        PROVE  max[q] \in Nat /\ ideal(reserve, max, q) \in Nat
    <3>1. \A y \in Side : max[y] \in Nat
      <4>1. \A y \in Side : max[y] \in Input
        OBVIOUS
      <4>2. \A y \in Side : max[y] \in Amount
        BY <4>1, NumberAssumption
      <4> QED BY <4>2 DEF Amount
    <3> QED BY <1>1, <3>1, OtherSide, ShareIsCovered DEF ideal
  <2> QED BY <2>1 DEF actual_amount, Min2
<1> HIDE DEF amount
<1>3. minted \in Nat /\ reserve[s] * minted <= amount[s] * liquidity_pool_supply
  BY <1>1, <1>2, MintIsCovered
<1> HIDE DEF minted
<1>4. mul_div_floor(reserve[s] + amount[s], minted, liquidity_pool_supply + minted) <= amount[s]
  BY <1>1, <1>2, <1>3, ShareWorthIsPaidFor
<1> QED BY <1>4 DEF withdraw_amount, amount, minted

\* There and back: out was bought with e of n, of which net stayed; back is what of out
\* is priced on the way back.
LEMMA BackIsWorthLess ==
  ASSUME NEW rs \in Nat \ {0}, NEW ro \in Nat \ {0}, NEW e \in Nat, NEW n \in Nat, e <= n,
         NEW out \in Nat, out < ro, rs * out <= e * (ro - out),
         NEW net \in Nat, net <= n, NEW back \in Nat, back <= out
  PROVE  amount_out(ro - out, rs + net, back) <= n
<1> DEFINE k == ((rs + net) * back) \div (ro - out + back)
<1>1. ro - out \in Nat \ {0} /\ ro - out + back \in Nat \ {0} /\ rs + net \in Nat
  OBVIOUS
<1>2. k \in Nat /\ k * (ro - out + back) <= (rs + net) * back
  BY <1>1, ProductIsNat, FloorIsRead
<1>3. rs * back <= n * (ro - out)
  <2>1. rs * back <= rs * out
    BY ProductsAreOrdered
  <2>2. e * (ro - out) <= n * (ro - out)
    BY <1>1, ProductsAreOrdered
  <2>3. /\ rs * back \in Int /\ rs * out \in Int
        /\ e * (ro - out) \in Int /\ n * (ro - out) \in Int
    BY <1>1
  <2> QED BY <2>1, <2>2, <2>3
<1>4. (rs + net) * back <= n * (ro - out + back)
  <2>1. net * back <= n * back
    BY ProductsAreOrdered
  <2>2. /\ (rs + net) * back = rs * back + net * back
        /\ n * (ro - out + back) = n * (ro - out) + n * back
    OBVIOUS
  <2>3. /\ rs * back \in Int /\ net * back \in Int
        /\ n * (ro - out) \in Int /\ n * back \in Int
    BY <1>1
  <2> QED BY <1>3, <2>1, <2>2, <2>3
<1>5. k <= n
  <2>1. /\ k * (ro - out + back) \in Int /\ (rs + net) * back \in Int
        /\ n * (ro - out + back) \in Int
    BY <1>1, <1>2
  <2>2. k * (ro - out + back) <= n * (ro - out + back)
    BY <1>2, <1>4, <2>1
  <2> HIDE DEF k
  <2> QED BY <1>1, <1>2, <2>2, FactorCancels
<1> QED BY <1>5 DEF amount_out, mul_div_floor

LEMMA SwappingBack == PoolInv => SwapBackNeverProfits
<1> SUFFICES ASSUME PoolInv, initialized, NEW s \in Side, NEW n \in Input
             PROVE  LET o    == Other(s)
                        eff  == effective_amount_in(n, config.swap_fee_bps)
                        out  == amount_out(reserve[s], reserve[o], eff)
                        fee  == protocol_fee_amount(n - eff, config.protocol_fee_bps)
                        back == effective_amount_in(out, config.swap_fee_bps)
                    IN  amount_out(reserve[o] - out, reserve[s] + net_deposit(n, fee), back) <= n
  BY DEF SwapBackNeverProfits
<1> DEFINE o    == Other(s)
           eff  == effective_amount_in(n, config.swap_fee_bps)
           out  == amount_out(reserve[s], reserve[o], eff)
           fee  == protocol_fee_amount(n - eff, config.protocol_fee_bps)
           back == effective_amount_in(out, config.swap_fee_bps)
           net  == net_deposit(n, fee)
<1>1. /\ reserve[s] \in Nat \ {0} /\ reserve[o] \in Nat \ {0} /\ n \in Nat
      /\ config.swap_fee_bps \in Nat /\ config.swap_fee_bps < FEE_BPS_DENOMINATOR
      /\ config.protocol_fee_bps \in Nat /\ config.protocol_fee_bps <= FEE_BPS_DENOMINATOR
  BY PoolIsOpen, OtherSide, NumberAssumption
     DEF PoolInv, TypeOK, FeesAreValid, ValidFees, Amount
<1> HIDE DEF o
<1>2. eff \in Nat /\ eff <= n
  BY <1>1, EffectiveIsPartOfTheInput
<1> HIDE DEF eff
<1>3. out \in Nat /\ out < reserve[o] /\ reserve[s] * out <= eff * (reserve[o] - out)
  BY <1>1, <1>2, OutputIsCovered
<1> HIDE DEF out
<1>4. fee \in Nat /\ fee <= n - eff
  <2>1. n - eff \in Nat
    BY <1>1, <1>2
  <2> QED BY <1>1, <2>1, CutIsPartOfTheFee
<1> HIDE DEF fee
<1>5. net \in Nat /\ net <= n
  BY <1>1, <1>2, <1>4 DEF net_deposit
<1>6. back \in Nat /\ back <= out
  BY <1>1, <1>3, EffectiveIsPartOfTheInput
<1> HIDE DEF net, back
<1>7. amount_out(reserve[o] - out, reserve[s] + net, back) <= n
  BY <1>1, <1>2, <1>3, <1>5, <1>6, BackIsWorthLess
<1> QED BY <1>7 DEF o, eff, out, fee, back, net

\* An effective input at least the required one buys the output; one that falls short
\* of it does not.
LEMMA OutputIsReached ==
  ASSUME NEW rs \in Nat \ {0}, NEW ro \in Nat, NEW out \in Nat, out < ro, NEW e \in Nat,
         rs * out <= e * (ro - out), rs + e <= U128_MAX
  PROVE  out <= amount_out(rs, ro, e)
<1> DEFINE q == (ro * e) \div (rs + e)
<1>1. rs + e \in Nat \ {0} /\ ro - out \in Nat
  OBVIOUS
<1>2. q \in Nat /\ ro * e < q * (rs + e) + (rs + e)
  BY <1>1, ProductIsNat, FloorIsRead
<1>3. out * (rs + e) <= ro * e
  <2>1. /\ out * (rs + e) = rs * out + e * out /\ ro * e = e * (ro - out) + e * out
        /\ rs * out \in Int /\ e * out \in Int /\ e * (ro - out) \in Int
    BY <1>1
  <2> QED BY <2>1
<1>4. out * (rs + e) < (q + 1) * (rs + e)
  <2>1. /\ (q + 1) * (rs + e) = q * (rs + e) + (rs + e) /\ q * (rs + e) \in Int
        /\ out * (rs + e) \in Int /\ ro * e \in Int
    <3> HIDE DEF q
    <3>1. /\ q * (rs + e) \in Nat /\ out * (rs + e) \in Nat /\ ro * e \in Nat
      BY <1>1, <1>2, ProductIsNat
    <3>2. (q + 1) * (rs + e) = q * (rs + e) + (rs + e)
      BY <1>2
    <3> QED BY <3>1, <3>2
  <2> HIDE DEF q
  <2> QED BY <1>2, <1>3, <2>1
<1>5. out < q + 1
  <2>1. q + 1 \in Int
    BY <1>2
  <2> HIDE DEF q
  <2> QED BY <1>1, <1>4, <2>1, FactorCancels
<1>6. out <= q
  BY <1>2, <1>5
<1>7. amount_out(rs, ro, e) = q
  BY <1>1, NumberAssumption DEF amount_out, mul_div_floor
<1> QED BY <1>6, <1>7

LEMMA OutputIsMissed ==
  ASSUME NEW rs \in Nat \ {0}, NEW ro \in Nat, NEW out \in Nat \ {0}, out < ro, NEW e \in Nat,
         e * (ro - out) < rs * out
  PROVE  amount_out(rs, ro, e) < out
<1> DEFINE q == (ro * e) \div (rs + e)
<1>1. rs + e \in Nat \ {0} /\ ro - out \in Nat
  OBVIOUS
<1>2. q \in Nat /\ q * (rs + e) <= ro * e
  BY <1>1, ProductIsNat, FloorIsRead
<1>3. ro * e < out * (rs + e)
  <2>1. /\ out * (rs + e) = rs * out + e * out /\ ro * e = e * (ro - out) + e * out
        /\ rs * out \in Int /\ e * out \in Int /\ e * (ro - out) \in Int
    BY <1>1
  <2> QED BY <2>1
<1>4. q * (rs + e) < out * (rs + e)
  <2> HIDE DEF q
  <2>1. q * (rs + e) \in Nat /\ out * (rs + e) \in Nat /\ ro * e \in Nat
    BY <1>1, <1>2, ProductIsNat
  <2> QED BY <1>2, <1>3, <2>1
<1>5. q < out
  <2> HIDE DEF q
  <2> QED BY <1>1, <1>2, <1>4, FactorCancels
<1> QED BY <1>5 DEF amount_out, mul_div_floor

LEMMA ExactOutputCharges == PoolInv => ExactOutputIsTight
<1> SUFFICES ASSUME PoolInv, initialized, NEW s \in Side,
                    NEW out \in 1..(reserve[Other(s)] - 1)
             PROVE  LET n == required_in(effective_in_min(out, reserve[s], reserve[Other(s)]),
                                         config.swap_fee_bps)
                        bought(m) == amount_out(reserve[s], reserve[Other(s)],
                                                effective_amount_in(m, config.swap_fee_bps))
                    IN  reserve[s] + n <= U128_MAX => bought(n) >= out /\ bought(n - 1) < out
  BY DEF ExactOutputIsTight
<1> DEFINE rs == reserve[s]
           ro == reserve[Other(s)]
           f  == config.swap_fee_bps
           D  == FEE_BPS_DENOMINATOR
           e0 == effective_in_min(out, rs, ro)
           n  == required_in(e0, f)
           e(m) == effective_amount_in(m, f)
<1>1. /\ rs \in Nat \ {0} /\ ro \in Nat \ {0} /\ out \in Nat \ {0} /\ out < ro
      /\ f \in Nat /\ f < D /\ D \in Nat \ {0} /\ D - f \in Nat \ {0}
  BY PoolIsOpen, OtherSide, NumberAssumption
<1> HIDE DEF rs, ro, f, D
<1>2. /\ e0 \in Nat \ {0} /\ rs * out <= e0 * (ro - out)
      /\ e0 * (ro - out) < rs * out + (ro - out)
  BY <1>1, InputIsCovered
<1> HIDE DEF e0
<1>3. /\ n \in Nat /\ e0 <= n /\ e0 * D <= n * (D - f)
      /\ n * (D - f) < e0 * D + (D - f)
  BY <1>1, <1>2, RequiredCoversTheEffective DEF D
<1> HIDE DEF n
<1>4. ASSUME NEW m \in Nat
      PROVE  e(m) \in Nat /\ e(m) <= m /\ e(m) * D <= m * (D - f) /\ m * (D - f) < e(m) * D + D
  <2>1. e(m) = (m * (D - f)) \div D
    BY DEF effective_amount_in, mul_div_floor, D
  <2>2. e(m) \in Nat /\ e(m) <= m
    BY <1>1, EffectiveIsPartOfTheInput DEF D
  <2>3. m * (D - f) \in Nat
    BY <1>1, ProductIsNat
  <2> QED BY <1>1, <2>1, <2>2, <2>3, FloorIsRead
<1>5. e(n) \in Nat /\ e(n) <= n /\ n * (D - f) < e(n) * D + D
  BY <1>3, <1>4
<1>6. n - 1 \in Nat /\ e(n - 1) \in Nat /\ e(n - 1) * D <= (n - 1) * (D - f)
  <2>1. n - 1 \in Nat
    BY <1>2, <1>3
  <2> QED BY <1>4, <2>1
<1> HIDE DEF e
<1>7. e0 <= e(n)
  <2>1. e0 * D < (e(n) + 1) * D
    <3>1. (e(n) + 1) * D = e(n) * D + D /\ e(n) * D \in Int /\ e0 * D \in Int
          /\ n * (D - f) \in Int /\ D \in Int
      BY <1>1, <1>2, <1>3, <1>5
    <3> QED BY <1>3, <1>5, <3>1
  <2>2. e0 < e(n) + 1
    BY <1>1, <1>2, <1>5, <2>1, FactorCancels
  <2> QED BY <1>2, <1>5, <2>2
<1>8. e(n - 1) < e0
  <2>1. e(n - 1) * D < e0 * D
    <3>1. (n - 1) * (D - f) = n * (D - f) - (D - f) /\ n * (D - f) \in Int
          /\ e(n - 1) * D \in Int /\ e0 * D \in Int /\ D - f \in Int
      BY <1>1, <1>2, <1>3, <1>6
    <3> QED BY <1>3, <1>6, <3>1
  <2> QED BY <1>1, <1>2, <1>6, <2>1, FactorCancels
<1>9. ASSUME rs + n <= U128_MAX
      PROVE  out <= amount_out(rs, ro, e(n))
  <2>1. e0 * (ro - out) <= e(n) * (ro - out)
    BY <1>1, <1>2, <1>5, <1>7, ProductsAreOrdered
  <2>2. rs * out <= e(n) * (ro - out)
    <3>1. /\ rs * out \in Int /\ e0 * (ro - out) \in Int /\ e(n) * (ro - out) \in Int
      BY <1>1, <1>2, <1>5
    <3> QED BY <1>2, <2>1, <3>1
  <2>3. rs + e(n) <= U128_MAX
    BY <1>1, <1>3, <1>5, <1>9, NumberAssumption
  <2> QED BY <1>1, <1>5, <2>2, <2>3, OutputIsReached
<1>10. amount_out(rs, ro, e(n - 1)) < out
  <2>1. e(n - 1) * (ro - out) <= (e0 - 1) * (ro - out)
    <3>1. e(n - 1) <= e0 - 1 /\ e0 - 1 \in Nat /\ ro - out \in Nat
      BY <1>1, <1>2, <1>6, <1>8
    <3> QED BY <1>6, <3>1, ProductsAreOrdered
  <2>2. e(n - 1) * (ro - out) < rs * out
    <3>1. /\ (e0 - 1) * (ro - out) = e0 * (ro - out) - (ro - out) /\ rs * out \in Int
          /\ e0 * (ro - out) \in Int /\ e(n - 1) * (ro - out) \in Int /\ ro - out \in Int
      BY <1>1, <1>2, <1>6
    <3> QED BY <1>2, <2>1, <3>1
  <2> QED BY <1>1, <1>6, <2>2, OutputIsMissed
<1>11. amount_out(rs, ro, e(n)) \in Int
  BY <1>1, <1>5, OutputIsCovered
<1> QED BY <1>1, <1>9, <1>10, <1>11 DEF n, e, e0, rs, ro, f, D

\* No rounding pays the caller: adding and removing, swapping there and back, and the two
\* ways to swap, at any reserves, shares, fees and amounts the pool can come to.
THEOREM RoundingIsThePools == Spec => []RoundingFavoursThePool
<1>1. PoolInv => RoundingFavoursThePool
  BY AddingThenRemoving, SwappingBack, ExactOutputCharges DEF RoundingFavoursThePool
<1> QED BY <1>1, PoolIsSound, PTL
=============================================================================

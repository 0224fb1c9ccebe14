---------------------------- MODULE MarketProofs ----------------------------
(***************************************************************************)
(* Theorems about what trading and analyses take from the market, for any  *)
(* number of requests, threads, stocks and providers: only sales can       *)
(* overdraw a paper account, and requests one after another keep its       *)
(* books; requests that share a service of quotes share its fetches; the   *)
(* chosen source of Chinese stocks is restored, and a request fails only   *)
(* when every source it could ask has, each called at most twice.          *)
(***************************************************************************)
EXTENDS PaperTrading, ForeignQuotes, DataSources, FoldLemmas,
        SequenceTheorems, FunctionTheorems, FiniteSetTheorems, TLAPS

-----------------------------------------------------------------------------
\* Paper trading.

\* A request past the reading of the price knows what it trades.
Priced == {"debit", "hold", "holding", "counting", "bought", "credit", "sold",
           "order", "trade"}

\* What is missing in an account is what sales have cost.
Solvent(cash, lost) ==
    /\ cash \in Seq(Int) /\ lost \in Nat
    /\ \A i \in DOMAIN cash : cash[i] + lost >= 0

\* Only what the cash depends on: the balances, those in the collection and
\* those a request still remembers, and what each order is charged.
CashInv ==
    /\ Solvent(accounts, losses)
    /\ DOMAIN at = Requests /\ DOMAIN mine = Requests
    /\ \A r \in Requests :
         /\ DOMAIN mine[r] = DOMAIN Unsent
         /\ mine[r].cash \in Int
         /\ mine[r].commission \in Nat
         /\ mine[r].side \in {"buy", "sell", "reset"}
         /\ mine[r].side \in {"buy", "sell"} => mine[r].quantity \in Quantities
         /\ at[r] \in {"rules", "position"} \cup Priced => mine[r].side \in {"buy", "sell"}
         /\ at[r] \in {"position"} \cup Priced => mine[r].price \in Prices

\* The fields of what a request remembers.
LEMMA Fields ==
    DOMAIN Unsent = {"side", "quantity", "price", "cash", "commission", "position", "total"}
BY DEF Unsent

\* The greater of zero and another number.
LEMMA GreatestIs ==
    ASSUME NEW k \in Int
    PROVE  Max({0, k}) = IF k < 0 THEN 0 ELSE k
<1>1. PICK x \in {0, k} : \A y \in {0, k} : x >= y
  <2>1. CASE k < 0
    BY <2>1
  <2>2. CASE ~ k < 0
    BY <2>2
  <2> QED BY <2>1, <2>2
<1>2. Max({0, k}) \in {0, k} /\ \A y \in {0, k} : Max({0, k}) >= y
  BY <1>1 DEF Max
<1> QED BY <1>2

\* Setting the oldest balance to one that is covered keeps all covered.
LEMMA FirstSet ==
    ASSUME Solvent(accounts, losses), accounts # <<>>, NEW c \in Int, NEW l \in Nat,
           l >= losses, c + l >= 0
    PROVE  Solvent([accounts EXCEPT ![1] = c], l)
<1>1. PICK n \in Nat : n = Len(accounts) /\ DOMAIN accounts = 1 .. n
  BY LenProperties DEF Solvent
<1> DEFINE s == [accounts EXCEPT ![1] = c]
<1>2. s \in Seq(Int) /\ DOMAIN s = DOMAIN accounts
  BY EmptySeq, LenProperties, ElementOfSeq, ExceptSeq DEF Solvent
<1>3. ASSUME NEW i \in DOMAIN s
      PROVE  s[i] + l >= 0
  <2>1. accounts[i] \in Int /\ losses \in Nat /\ accounts[i] + losses >= 0
    BY <1>2, <1>3, ElementOfSeq, LenProperties DEF Solvent
  <2>2. s[i] = IF i = 1 THEN c ELSE accounts[i]
    BY <1>2, <1>3
  <2> QED BY <2>1, <2>2
<1> QED BY <1>2, <1>3 DEF Solvent

\* What an order is worth is a whole number.
LEMMA OrderWorth ==
    ASSUME PaperAssumption, NEW r, mine[r].price \in Prices, mine[r].quantity \in Quantities,
           mine[r].commission \in Nat
    PROVE  /\ Notional(r) \in Nat /\ Cost(r) \in Nat /\ Proceeds(r) \in Int
<1>1. mine[r].price \in Nat /\ mine[r].quantity \in Nat
  BY DEF PaperAssumption
<1>2. Notional(r) \in Nat
  BY <1>1 DEF Notional
<1> QED BY <1>2 DEF Cost, Proceeds

\* What a request may remember when it comes to an await.
Remembers(await, read) ==
    /\ DOMAIN read = DOMAIN Unsent
    /\ read.cash \in Int
    /\ read.commission \in Nat
    /\ read.side \in {"buy", "sell", "reset"}
    /\ read.side \in {"buy", "sell"} => read.quantity \in Quantities
    /\ await \in {"rules", "position"} \cup Priced => read.side \in {"buy", "sell"}
    /\ await \in {"position"} \cup Priced => read.price \in Prices

LEMMA Moved ==
    ASSUME CashInv, Solvent(accounts, losses)', NEW r \in Requests, NEW await, NEW read,
           Keep(r, await, read), Remembers(await, read)
    PROVE  CashInv'
BY DEF CashInv, Keep, Go, Remembers

\* ... or it stays as it was.
LEMMA MovedOn ==
    ASSUME CashInv, Solvent(accounts, losses)', NEW r \in Requests, NEW await,
           Go(r, await), UNCHANGED mine, at[r] \in Priced \/ await \notin {"rules", "position"} \cup Priced
    PROVE  CashInv'
BY DEF CashInv, Go

LEMMA RequestOver ==
    ASSUME CashInv, Solvent(accounts, losses)', NEW r \in Requests, Answer(r)
    PROVE  CashInv'
<1>1. Remembers("idle", Unsent)
  BY DEF Remembers, Unsent, Priced
<1> QED BY <1>1, Moved DEF Answer

\* A step that leaves the accounts alone.
LEMMA BalancesStay ==
    ASSUME CashInv, UNCHANGED <<accounts, losses>>
    PROVE  Solvent(accounts, losses)'
BY DEF CashInv, Solvent

\* What one step of a request does to what it remembers and to the balances.
LEMMA RequestStep ==
    ASSUME CashInv, PaperAssumption, NEW r \in Requests,
           \/ SendOrder(r) \/ FindAccount(r) \/ CreateAccount(r)
           \/ FindRules(r) \/ FindPosition(r)
           \/ Buy(r) \/ Sell(r) \/ InsertOrder(r) \/ InsertTrade(r)
           \/ Reset(r) \/ OrderFault(r)
    PROVE  CashInv'
<1>a. /\ DOMAIN mine[r] = DOMAIN Unsent /\ mine[r].cash \in Int /\ mine[r].commission \in Nat
      /\ mine[r].side \in {"buy", "sell", "reset"}
      /\ mine[r].side \in {"buy", "sell"} => mine[r].quantity \in Quantities
      /\ at[r] \in {"rules", "position"} \cup Priced => mine[r].side \in {"buy", "sell"}
      /\ at[r] \in {"position"} \cup Priced => mine[r].price \in Prices
  BY DEF CashInv
<1>1. CASE SendOrder(r)
  <2>1. Solvent(accounts, losses)'
    BY <1>1, BalancesStay DEF SendOrder, books
  <2>2. CASE \E side \in {"buy", "sell"}, quantity \in Quantities :
               Keep(r, "account", [Unsent EXCEPT !.side = side, !.quantity = quantity])
    <3>1. PICK side \in {"buy", "sell"}, quantity \in Quantities :
               Keep(r, "account", [Unsent EXCEPT !.side = side, !.quantity = quantity])
      BY <2>2
    <3>2. PICK new : new = [Unsent EXCEPT !.side = side, !.quantity = quantity]
      OBVIOUS
    <3>3. /\ DOMAIN new = DOMAIN Unsent /\ new.cash = 0 /\ new.commission = 0
          /\ new.side = side /\ new.quantity = quantity
      BY <3>2 DEF Unsent
    <3>4. Remembers("account", new)
      BY <3>3 DEF Remembers, Priced
    <3> QED BY <2>1, <3>1, <3>2, <3>4, Moved
  <2>3. CASE Keep(r, "accounts", Unsent)
    <3>1. Remembers("accounts", Unsent)
      BY DEF Remembers, Priced, Unsent
    <3> QED BY <2>1, <2>3, <3>1, Moved
  <2> QED BY <1>1, <2>2, <2>3 DEF SendOrder
<1>2. CASE FindAccount(r)
  <2>1. Solvent(accounts, losses)'
    BY <1>2, BalancesStay DEF FindAccount, books
  <2>2. CASE accounts = <<>>
    <3>1. Go(r, "create") /\ UNCHANGED mine
      BY <1>2, <2>2 DEF FindAccount
    <3> QED BY <2>1, <3>1, MovedOn DEF Priced
  <2>3. CASE accounts # <<>> /\ mine[r].side = "reset"
    BY <1>2, <2>1, <2>3, RequestOver DEF FindAccount
  <2>4. CASE accounts # <<>> /\ mine[r].side # "reset"
    <3>1. Head(accounts) \in Int
      BY <2>4, HeadTailProperties DEF CashInv, Solvent
    <3>2. PICK new : new = [mine[r] EXCEPT !.cash = Head(accounts)]
      OBVIOUS
    <3>3. /\ DOMAIN new = DOMAIN Unsent /\ new.cash \in Int
          /\ new.commission = mine[r].commission
          /\ new.side = mine[r].side /\ new.quantity = mine[r].quantity
      BY <1>a, <3>1, <3>2, Fields
    <3>4. Keep(r, "rules", new)
      BY <1>2, <2>4, <3>2 DEF FindAccount
    <3>5. Remembers("rules", new)
      BY <1>a, <2>4, <3>3 DEF Remembers, Priced
    <3> QED BY <2>1, <3>4, <3>5, Moved
  <2> QED BY <2>2, <2>3, <2>4
<1>3. CASE CreateAccount(r)
  <2>1. Solvent(accounts, losses)'
    <3>1. /\ accounts' = Append(accounts, InitialCash) /\ losses' = losses
          /\ InitialCash \in Nat /\ losses \in Nat /\ accounts \in Seq(Int)
      BY <1>3 DEF CreateAccount, PaperAssumption, CashInv, Solvent
    <3>2. PICK n \in Nat : n = Len(accounts) /\ DOMAIN accounts = 1 .. n
      BY <3>1, LenProperties
    <3>3. /\ accounts' \in Seq(Int) /\ Len(accounts') = n + 1 /\ accounts'[n + 1] = InitialCash
          /\ \A i \in 1 .. n : accounts'[i] = accounts[i]
      BY <3>1, <3>2, AppendProperties
    <3>4. DOMAIN accounts' = 1 .. n + 1
      BY <3>3, LenProperties
    <3>5. ASSUME NEW i \in DOMAIN accounts'
          PROVE  accounts'[i] + losses' >= 0
      <4>1. CASE i = n + 1
        BY <3>1, <3>3, <4>1
      <4>2. CASE i \in 1 .. n
        BY <3>1, <3>2, <3>3, <4>2 DEF CashInv, Solvent
      <4> QED BY <3>4, <4>1, <4>2
    <3> QED BY <3>1, <3>3, <3>5 DEF Solvent
  <2>2. CASE mine[r].side = "reset"
    BY <1>3, <2>1, <2>2, RequestOver DEF CreateAccount
  <2>3. CASE mine[r].side # "reset"
    <3>1. PICK new : new = [mine[r] EXCEPT !.cash = InitialCash]
      OBVIOUS
    <3>2. /\ DOMAIN new = DOMAIN Unsent /\ new.cash \in Int
          /\ new.commission = mine[r].commission
          /\ new.side = mine[r].side /\ new.quantity = mine[r].quantity
      BY <1>a, <3>1, Fields DEF PaperAssumption
    <3>3. Keep(r, "rules", new)
      BY <1>3, <2>3, <3>1 DEF CreateAccount
    <3>4. Remembers("rules", new)
      BY <1>a, <2>3, <3>2 DEF Remembers, Priced
    <3> QED BY <2>1, <3>3, <3>4, Moved
  <2> QED BY <2>2, <2>3
<1>4. CASE FindRules(r)
  <2>1. at[r] = "rules" /\ Solvent(accounts, losses)'
    BY <1>4, BalancesStay DEF FindRules, books
  <2>2. CASE Answer(r)
    BY <2>1, <2>2, RequestOver
  <2>3. ASSUME NEW price \in Prices,
               Keep(r, "position", [mine[r] EXCEPT !.price = price, !.commission = Charged])
        PROVE  CashInv'
    <3>1. PICK new : new = [mine[r] EXCEPT !.price = price, !.commission = Charged]
      OBVIOUS
    <3>2. Charged \in Nat
      BY DEF Charged, PaperAssumption
    <3>3. /\ DOMAIN new = DOMAIN Unsent /\ new.cash = mine[r].cash
          /\ new.price = price /\ new.commission = Charged
          /\ new.side = mine[r].side /\ new.quantity = mine[r].quantity
      BY <1>a, <3>1, Fields
    <3>4. Remembers("position", new)
      BY <1>a, <2>1, <3>2, <3>3 DEF Remembers
    <3> QED BY <2>1, <2>3, <3>1, <3>4, Moved
  <2> QED BY <1>4, <2>2, <2>3 DEF FindRules
<1>5. CASE FindPosition(r)
  <2>1. at[r] = "position" /\ Solvent(accounts, losses)'
    BY <1>5, BalancesStay DEF FindPosition, books
  <2>2. PICK position : position = IF positions = <<>> THEN NoPosition ELSE Head(positions)
    OBVIOUS
  <2>3. PICK await : await = IF mine[r].side = "buy" THEN "debit" ELSE "hold"
    OBVIOUS
  <2>4. PICK new : new = [mine[r] EXCEPT !.position = position]
    OBVIOUS
  <2>5. Keep(r, await, new)
    BY <1>5, <2>2, <2>3, <2>4 DEF FindPosition
  <2>6. /\ DOMAIN new = DOMAIN Unsent /\ new.cash = mine[r].cash
        /\ new.price = mine[r].price /\ new.commission = mine[r].commission
        /\ new.side = mine[r].side /\ new.quantity = mine[r].quantity
    BY <1>a, <2>4, Fields
  <2>7. Remembers(await, new)
    BY <1>a, <2>1, <2>6 DEF Remembers
  <2> QED BY <2>1, <2>5, <2>7, Moved
<1>6. CASE Debit(r)
  <2>1. at[r] = "debit" /\ Cost(r) \in Nat
    BY <1>6, <1>a, OrderWorth DEF Debit, Priced
  <2>2. CASE mine[r].cash < Cost(r)
    BY <1>6, <2>2, RequestOver, BalancesStay DEF Debit
  <2>3. CASE ~(mine[r].cash < Cost(r))
    <3>1. PICK c \in Int : c = mine[r].cash - Cost(r)
      BY <1>a, <2>1
    <3>2. c >= 0
      BY <1>a, <2>1, <2>3, <3>1
    <3>3. losses \in Nat /\ losses' = losses
      BY <1>6 DEF Debit, CashInv, Solvent
    <3>4. accounts' = IF accounts = <<>> THEN <<>> ELSE [accounts EXCEPT ![1] = c]
      BY <1>6, <2>3, <3>1 DEF Debit, Debited
    <3>5. Solvent(accounts', losses)
      <4>1. CASE accounts = <<>>
        BY <3>4, <4>1 DEF CashInv
      <4>2. CASE accounts # <<>>
        <5>1. c + losses >= 0 /\ losses >= losses
          BY <3>2, <3>3
        <5> QED BY <3>3, <3>4, <4>2, <5>1, FirstSet DEF CashInv
      <4> QED BY <4>1, <4>2
    <3>6. Solvent(accounts, losses)'
      BY <3>3, <3>5
    <3>7. Go(r, "bought") /\ UNCHANGED mine
      BY <1>6, <2>3 DEF Debit
    <3> QED BY <2>1, <3>6, <3>7, MovedOn DEF Priced
  <2> QED BY <2>2, <2>3
<1>7. CASE TakeShares(r)
  <2>1. at[r] = "bought" /\ Go(r, "order") /\ UNCHANGED <<accounts, losses, mine>>
    BY <1>7 DEF TakeShares
  <2> QED BY <2>1, BalancesStay, MovedOn DEF Priced
<1>8. CASE ReadHolding(r)
  <2>1. PICK total : total = IF positions = <<>> THEN 0 ELSE Head(positions).quantity
    OBVIOUS
  <2>2. PICK new : new = [mine[r] EXCEPT !.total = total]
    OBVIOUS
  <2>3. at[r] = "hold" /\ Keep(r, "holding", new) /\ UNCHANGED <<accounts, losses>>
    BY <1>8, <2>1, <2>2 DEF ReadHolding, books
  <2>4. /\ DOMAIN new = DOMAIN Unsent /\ new.cash = mine[r].cash
        /\ new.price = mine[r].price /\ new.commission = mine[r].commission
        /\ new.side = mine[r].side /\ new.quantity = mine[r].quantity
    BY <1>a, <2>2, Fields
  <2>5. Remembers("holding", new)
    BY <1>a, <2>3, <2>4 DEF Remembers, Priced
  <2> QED BY <2>3, <2>5, BalancesStay, Moved
<1>9. CASE CheckRules(r) \/ CountBuys(r)
  <2>1. at[r] \in Priced /\ UNCHANGED <<accounts, losses>>
    BY <1>9 DEF CheckRules, CountBuys, books, Priced
  <2>2. \/ Answer(r)
        \/ Go(r, "counting") /\ UNCHANGED mine
        \/ Go(r, "credit") /\ UNCHANGED mine
    BY <1>9 DEF CheckRules, CountBuys, Decide
  <2> QED BY <2>1, <2>2, BalancesStay, RequestOver, MovedOn
<1>10. CASE Credit(r)
  <2>1. /\ at[r] = "credit" /\ Go(r, "sold") /\ UNCHANGED mine
        /\ accounts \in Seq(Int) /\ losses \in Nat
    BY <1>10 DEF Credit, CashInv, Solvent
  <2>2. PICK p \in Int : p = Proceeds(r)
    BY <1>a, <2>1, OrderWorth DEF Priced
  <2>3. Solvent(accounts, losses)'
    <3>1. CASE accounts = <<>>
      BY <1>10, <3>1, BalancesStay DEF Credit
    <3>2. CASE accounts # <<>>
      <4>1. accounts[1] \in Int /\ accounts[1] + losses >= 0
        BY <2>1, <3>2, EmptySeq, LenProperties, ElementOfSeq DEF CashInv, Solvent
      <4>2. PICK a \in Int : a = accounts[1]
        BY <4>1
      <4>3. PICK l \in Nat : l = losses + IF - p < 0 THEN 0 ELSE - p
        BY <2>1
      <4>4. accounts' = [accounts EXCEPT ![1] = a + p] /\ losses' = losses + Max({0, - p})
        BY <1>10, <2>2, <3>2, <4>2 DEF Credit
      <4>5. losses' = l
        BY <4>3, <4>4, GreatestIs
      <4>6. a + p \in Int /\ l >= losses /\ a + p + l >= 0
        BY <2>1, <4>1, <4>2, <4>3
      <4>7. Solvent([accounts EXCEPT ![1] = a + p], l)
        BY <3>2, <4>6, FirstSet DEF CashInv
      <4> QED BY <4>4, <4>5, <4>7
    <3> QED BY <3>1, <3>2
  <2> QED BY <2>1, <2>3, MovedOn DEF Priced
<1>11. CASE GiveShares(r)
  <2>1. at[r] = "sold" /\ Go(r, "order") /\ UNCHANGED <<accounts, losses, mine>>
    BY <1>11 DEF GiveShares
  <2> QED BY <2>1, BalancesStay, MovedOn DEF Priced
<1>12. CASE InsertOrder(r)
  <2>1. at[r] = "order" /\ Go(r, "trade") /\ UNCHANGED <<accounts, losses, mine>>
    BY <1>12 DEF InsertOrder
  <2> QED BY <2>1, BalancesStay, MovedOn DEF Priced
<1>13. CASE InsertTrade(r)
  BY <1>13, BalancesStay, RequestOver DEF InsertTrade
<1>14. CASE Reset(r)
  <2>1. CASE DeleteAccounts(r)
    <3>1. accounts' = <<>> /\ losses' = 0 /\ Go(r, "positions") /\ UNCHANGED mine
      BY <2>1 DEF DeleteAccounts
    <3>2. Solvent(accounts, losses)'
      BY <3>1, EmptySeq DEF Solvent
    <3> QED BY <3>1, <3>2, MovedOn DEF Priced
  <2>2. CASE DeletePositions(r) \/ DeleteOrders(r) \/ DeleteTrades(r)
    <3>1. UNCHANGED <<accounts, losses, mine>>
      BY <2>2 DEF DeletePositions, DeleteOrders, DeleteTrades
    <3>2. PICK await \in {"orders", "trades", "account"} : Go(r, await)
      BY <2>2 DEF DeletePositions, DeleteOrders, DeleteTrades
    <3> QED BY <3>1, <3>2, BalancesStay, MovedOn DEF Priced
  <2> QED BY <1>14, <2>1, <2>2 DEF Reset
<1>15. CASE OrderFault(r)
  BY <1>15, BalancesStay, RequestOver DEF OrderFault, books
<1> QED
  BY <1>1, <1>2, <1>3, <1>4, <1>5, <1>6, <1>7, <1>8, <1>9, <1>10, <1>11, <1>12, <1>13, <1>14,
     <1>15 DEF Buy, Sell

LEMMA CashStep ==
    ASSUME CashInv, PaperAssumption, [PaperNext]_paperVars
    PROVE  CashInv'
<1>1. CASE NewDay \/ InsertRules \/ DeleteRules \/ UNCHANGED paperVars
  BY <1>1 DEF NewDay, InsertRules, DeleteRules, CashInv, Solvent, paperVars, books, request
<1> QED BY <1>1, RequestStep DEF PaperNext

\* However orders and resets interleave, wherever they fail and whenever the
\* rules change, an account is in the red by no more than what its sales
\* earned less than their commission (place_order checks the cash it read and
\* sets it to the rest; it adds what a sale brings without a check).
THEOREM OnlySalesOverdraw == PaperSpec => []OverdrawnBySalesOnly
<1> USE PaperAssumption
<1>1. PaperInit => CashInv
  BY Fields, EmptySeq DEF PaperInit, CashInv, Solvent, Unsent, Priced
<1>2. CashInv /\ [PaperNext]_paperVars => CashInv'
  BY CashStep
<1>3. CashInv => OverdrawnBySalesOnly
  BY DEF CashInv, Solvent, OverdrawnBySalesOnly
<1> QED BY <1>1, <1>2, <1>3, PTL DEF PaperSpec

-----------------------------------------------------------------------------
\* The books of an account, for any number of orders, resets and days.

\* What the numbers of a sequence add up to, one after another.
Sums(f, s) ==
    /\ f \in [0 .. Len(s) -> Int] /\ f[0] = 0
    /\ \A i \in 1 .. Len(s) : f[i] = f[i - 1] + s[i]

LEMMA SumSteps ==
    ASSUME NEW s \in Seq(Int)
    PROVE  \E f : Sums(f, s) /\ f[Len(s)] = SumOf(s)
<1>1. PICK n \in Nat : n = Len(s)
  BY LenProperties
<1>2. DOMAIN s = 1 .. n /\ \A i \in 1 .. n : s[i] \in Int
  BY <1>1, LenProperties, ElementOfSeq
<1> DEFINE Op(total, x) == total + x
           step == [p \in Int \X (1 .. n) |-> Op(p[1], s[p[2]])]
           Folded(F) == F = [t \in SUBSET DOMAIN s |->
                IF t = {} THEN 0 ELSE Op(F[t \ {Max(t)}], s[Max(t)])]
<1>3. 0 \in Int /\ \A v \in Int, x \in Int : Op(v, x) \in Int
  OBVIOUS
<1>4. step \in [Int \X (1 .. n) -> Int] /\ \A v \in Int, i \in 1 .. n : step[<<v, i>>] = Op(v, s[i])
  BY <1>2, <1>3
<1>5. \A t \in SUBSET (1 .. n) : t # {} => Max(t) \in 1 .. n
  BY MaxIsIn
<1>6. PICK F : Folded(F) /\ SumOf(s) = F[1 .. n]
  <2>1. PICK G : IsFoldFunction(G, Int, n, 0, step)
    <3> HIDE DEF step
    <3> QED BY <1>3, <1>4, FoldFunctionExists, Zenon
  <2> HIDE DEF Op, step
  <2>2. Folded(G)
    BY <1>2, <1>4, <1>5, <2>1 DEF IsFoldFunction
  <2> USE DEF Op
  <2> QED BY <1>2, <2>2 DEF SumOf, FoldLeft, MapThenFoldSet
<1> HIDE DEF Op, step
<1>7. FoldsWith(F, Int, n, 0, step)
  BY <1>2, <1>4, <1>5, <1>6 DEF FoldsWith
<1>8. PICK f : RunsThrough(f, F, Int, n, 0, step)
  <2> HIDE DEF Folded
  <2> QED BY <1>3, <1>4, <1>7, FoldPlaces
<1>9. \A i \in 1 .. n : f[i] = Op(f[i - 1], s[i])
  <2>1. \A i \in 1 .. n : i - 1 \in 0 .. n
    OBVIOUS
  <2> QED BY <1>4, <1>8, <2>1 DEF RunsThrough
<1>10. f \in [0 .. n -> Int] /\ f[0] = 0 /\ f[n] = SumOf(s)
  BY <1>6, <1>8 DEF RunsThrough
<1> QED BY <1>1, <1>9, <1>10 DEF Op, Sums

\* Whatever adds them up one after another comes to their sum.
LEMMA SumIs ==
    ASSUME NEW s \in Seq(Int), NEW g, Sums(g, s)
    PROVE  SumOf(s) = g[Len(s)]
<1>1. PICK n \in Nat : n = Len(s)
  BY LenProperties
<1>2. PICK f : Sums(f, s) /\ f[n] = SumOf(s)
  BY <1>1, SumSteps
<1> DEFINE P == {i \in 0 .. n : f[i] = g[i]}
<1>3. 0 \in P
  BY <1>2 DEF Sums
<1>4. ASSUME NEW i \in 1 .. n, i - 1 \in P
      PROVE  i \in P
  BY <1>1, <1>2, <1>4 DEF Sums
<1> HIDE DEF P
<1>5. 0 .. n \subseteq P
  BY <1>3, <1>4, UpTo
<1>6. n \in P
  BY <1>5
<1> QED BY <1>1, <1>2, <1>6 DEF P

LEMMA SumIsInt ==
    ASSUME NEW s \in Seq(Int)
    PROVE  SumOf(s) \in Int
<1>1. Len(s) \in Nat
  BY LenProperties
<1> QED BY <1>1, SumSteps DEF Sums

LEMMA SumOfNone == SumOf(<<>>) = 0
<1>1. <<>> \in Seq(Int) /\ Len(<<>>) = 0
  BY EmptySeq
<1>2. Sums([i \in 0 .. 0 |-> 0], <<>>)
  BY <1>1 DEF Sums
<1> QED BY <1>1, <1>2, SumIs

LEMMA SumAppended ==
    ASSUME NEW s \in Seq(Int), NEW x \in Int, NEW t \in Seq(Int), Len(t) = Len(s) + 1,
           t[Len(s) + 1] = x, \A i \in 1 .. Len(s) : t[i] = s[i]
    PROVE  SumOf(t) = SumOf(s) + x
<1>1. PICK n \in Nat : n = Len(s)
  BY LenProperties
<1>2. PICK f : Sums(f, s) /\ f[n] = SumOf(s)
  BY <1>1, SumSteps
<1>3. t \in Seq(Int) /\ Len(t) = n + 1 /\ t[n + 1] = x /\ \A i \in 1 .. n : t[i] = s[i]
  BY <1>1
<1>4. PICK g : g = [i \in 0 .. n + 1 |-> IF i = n + 1 THEN f[n] + x ELSE f[i]]
  OBVIOUS
<1>5. f \in [0 .. n -> Int] /\ f[0] = 0 /\ \A i \in 1 .. n : f[i] = f[i - 1] + s[i]
  BY <1>1, <1>2 DEF Sums
<1>6. g \in [0 .. n + 1 -> Int] /\ g[0] = 0 /\ g[n + 1] = f[n] + x
  <2>1. \A i \in 0 .. n + 1 : i = n + 1 \/ i \in 0 .. n
    OBVIOUS
  <2>2. f[n] + x \in Int /\ 0 # n + 1
    BY <1>5
  <2> QED BY <1>4, <1>5, <2>1, <2>2
<1>7. \A i \in 1 .. n + 1 : g[i] = g[i - 1] + t[i]
  <2>1. ASSUME NEW i \in 1 .. n
        PROVE  g[i] = g[i - 1] + t[i]
    <3>1. g[i] = f[i] /\ g[i - 1] = f[i - 1]
      BY <1>4
    <3> QED BY <1>3, <1>5, <3>1
  <2>2. g[n + 1] = g[n] + t[n + 1]
    <3>1. g[n] = f[n]
      BY <1>4
    <3> QED BY <1>3, <1>6, <3>1
  <2>3. \A i \in 1 .. n + 1 : i \in 1 .. n \/ i = n + 1
    OBVIOUS
  <2>4. n + 1 - 1 = n
    OBVIOUS
  <2> QED BY <2>1, <2>2, <2>3, <2>4
<1>8. Sums(g, t)
  BY <1>3, <1>6, <1>7 DEF Sums
<1> QED BY <1>2, <1>3, <1>6, <1>8, SumIs

LEMMA SumsAdd ==
    ASSUME NEW s \in Seq(Int), NEW t \in Seq(Int), NEW u \in Seq(Int),
           Len(t) = Len(s), Len(u) = Len(s), \A i \in 1 .. Len(s) : u[i] = s[i] + t[i]
    PROVE  SumOf(u) = SumOf(s) + SumOf(t)
<1>1. PICK n \in Nat : n = Len(s)
  BY LenProperties
<1>2. PICK f : Sums(f, s) /\ f[n] = SumOf(s)
  BY <1>1, SumSteps
<1>3. PICK g : Sums(g, t) /\ g[n] = SumOf(t)
  BY <1>1, SumSteps
<1>4. PICK h : h = [i \in 0 .. n |-> f[i] + g[i]]
  OBVIOUS
<1>5. f \in [0 .. n -> Int] /\ g \in [0 .. n -> Int]
  BY <1>1, <1>2, <1>3 DEF Sums
<1>6. h \in [0 .. n -> Int] /\ h[0] = 0 /\ h[n] = f[n] + g[n]
  <2>1. f[0] = 0 /\ g[0] = 0
    BY <1>2, <1>3 DEF Sums
  <2> QED BY <1>4, <1>5, <2>1
<1>7. \A i \in 1 .. n : h[i] = h[i - 1] + u[i]
  <2>1. SUFFICES ASSUME NEW i \in 1 .. n PROVE h[i] = h[i - 1] + u[i]
    OBVIOUS
  <2>2. f[i] = f[i - 1] + s[i] /\ g[i] = g[i - 1] + t[i]
    BY <1>1, <1>2, <1>3 DEF Sums
  <2>3. s[i] \in Int /\ t[i] \in Int
    BY <1>1, ElementOfSeq
  <2>4. h[i] = f[i] + g[i] /\ h[i - 1] = f[i - 1] + g[i - 1]
    BY <1>4
  <2>5. f[i - 1] \in Int /\ g[i - 1] \in Int
    BY <1>5
  <2>6. u[i] = s[i] + t[i]
    BY <1>1
  <2> QED BY <2>2, <2>3, <2>4, <2>5, <2>6
<1>8. Sums(h, u)
  BY <1>1, <1>6, <1>7 DEF Sums
<1> QED BY <1>1, <1>2, <1>3, <1>6, <1>8, SumIs

LEMMA SumIsNat ==
    ASSUME NEW s \in Seq(Nat)
    PROVE  SumOf(s) \in Nat
<1>1. PICK n \in Nat : n = Len(s)
  BY LenProperties
<1>2. s \in Seq(Int) /\ \A i \in 1 .. n : s[i] \in Nat
  BY <1>1, ElementOfSeq
<1>3. PICK f : Sums(f, s) /\ f[n] = SumOf(s)
  BY <1>1, <1>2, SumSteps
<1> DEFINE P == {i \in 0 .. n : f[i] \in Nat}
<1>4. 0 \in P
  BY <1>3 DEF Sums
<1>5. ASSUME NEW i \in 1 .. n, i - 1 \in P
      PROVE  i \in P
  BY <1>1, <1>2, <1>3, <1>5 DEF Sums
<1> HIDE DEF P
<1>6. 0 .. n \subseteq P
  BY <1>4, <1>5, UpTo
<1>7. n \in P
  BY <1>6
<1> QED BY <1>3, <1>7 DEF P

LEMMA SumOfZeroes ==
    ASSUME NEW s \in Seq(Int), \A i \in 1 .. Len(s) : s[i] = 0
    PROVE  SumOf(s) = 0
<1>1. PICK n \in Nat : n = Len(s)
  BY LenProperties
<1>2. PICK g : g = [i \in 0 .. n |-> 0]
  OBVIOUS
<1>3. Sums(g, s) /\ g[n] = 0
  BY <1>1, <1>2 DEF Sums
<1> QED BY <1>1, <1>3, SumIs

-----------------------------------------------------------------------------
\* What the trades and the positions are.
TradeType == [side : {"buy", "sell"}, quantity : Nat, price : Nat, day : Nat,
              commission : Nat]

PositionType == [id : Nat \ {0}, quantity : Int, available : Int]

\* A user's collections before the first order and after a reset.
Blank == accounts = <<>> /\ positions = <<>> /\ orders = 0 /\ trades = <<>>

\* The one position is of n shares, and none is left without shares.
Holds(n) ==
    IF n = 0 THEN positions = <<>>
    ELSE /\ Len(positions) = 1 /\ positions[1].quantity = n
         /\ market = "US" => positions[1].available = n

\* The books when the last entries, of this much money, so many shares and so
\* many orders, are not among the trades yet.
Kept(money, shares, more) ==
    /\ accounts = <<InitialCash + CashFlow + money>>
    /\ Holds(Holding + shares)
    /\ orders = Len(trades) + more

\* The position an order reads.
First == IF positions = <<>> THEN NoPosition ELSE Head(positions)

\* What the trade of an order will add to the account and to the holding.
Money(r)  == IF mine[r].side = "buy" THEN - Cost(r) ELSE Proceeds(r)
Shares(r) == IF mine[r].side = "buy" THEN mine[r].quantity ELSE - mine[r].quantity

\* T+1 is applied today.
Settling == market = "CN" /\ ruledAllDay

\* What is sold is held, and on T+1 not bought today.
Covered(r) ==
    /\ mine[r].quantity <= Holding
    /\ Settling => mine[r].quantity <= Holding - Bought(day)

\* What an order carries before and after it knows the price and the rules.
Asked(r) == mine[r].side \in {"buy", "sell"} /\ mine[r].quantity \in Quantities

Decided(r) == Asked(r) /\ mine[r].price \in Prices /\ mine[r].commission \in Nat

\* An order with what it has decided on, and what it has read.
Deciding(r, side) == Kept(0, 0, 0) /\ Decided(r) /\ mine[r].side = side /\ mine[r].position = First

\* How the books stand while a request waits: every step of an order moves one
\* of them, and the trade, inserted last, squares them all.
StageHolds(r) ==
    /\ at[r] = "account"   => (Blank \/ Kept(0, 0, 0)) /\ (mine[r].side = "reset" \/ Asked(r))
    /\ at[r] = "create"    => Blank /\ (mine[r].side = "reset" \/ Asked(r))
    /\ at[r] = "rules"     => Kept(0, 0, 0) /\ Asked(r) /\ mine[r].cash = Head(accounts)
    /\ at[r] = "position"  => Kept(0, 0, 0) /\ Decided(r) /\ mine[r].cash = Head(accounts)
    /\ at[r] = "debit"     => Deciding(r, "buy") /\ mine[r].cash = Head(accounts)
    /\ at[r] = "bought"    => /\ Kept(Money(r), 0, 0) /\ Decided(r) /\ mine[r].side = "buy"
                              /\ mine[r].position = First
    /\ at[r] = "hold"      => Deciding(r, "sell")
    /\ at[r] = "holding"   => Deciding(r, "sell") /\ mine[r].total = Holding
    /\ at[r] = "counting"  => Deciding(r, "sell") /\ mine[r].total = Holding
    /\ at[r] = "credit"    => Deciding(r, "sell") /\ Covered(r)
    /\ at[r] = "sold"      => /\ Kept(Money(r), 0, 0) /\ Decided(r) /\ mine[r].side = "sell"
                              /\ mine[r].position = First /\ Covered(r)
    /\ at[r] = "order"     => /\ Kept(Money(r), Shares(r), 0) /\ Decided(r)
                              /\ mine[r].side = "sell" => Covered(r)
    /\ at[r] = "trade"     => /\ Kept(Money(r), Shares(r), 1) /\ Decided(r)
                              /\ mine[r].side = "sell" => Covered(r)
    /\ at[r] = "accounts"  => mine[r].side = "reset"
    /\ at[r] = "positions" => mine[r].side = "reset" /\ accounts = <<>>
    /\ at[r] = "orders"    => mine[r].side = "reset" /\ accounts = <<>> /\ positions = <<>>
    /\ at[r] = "trades"    => /\ mine[r].side = "reset" /\ accounts = <<>> /\ positions = <<>>
                              /\ orders = 0

\* What the books hold.
BooksTyped ==
    /\ trades \in Seq(TradeType) /\ positions \in Seq(PositionType)
    /\ day \in Nat /\ orders \in Nat /\ made \in Nat /\ market \in Markets
    /\ rules \in BOOLEAN /\ ruledAllDay \in BOOLEAN /\ (ruledAllDay => rules)
    /\ \A i \in DOMAIN trades : trades[i].day <= day
    /\ at \in [Requests -> Awaits] /\ mine = [r \in Requests |-> mine[r]]
    /\ \A r \in Requests : DOMAIN mine[r] = DOMAIN Unsent

\* Nothing is sold that was not held, or that was bought the same day on T+1.
NeverShort == 0 <= Holding /\ (Settling => Bought(day) <= Holding)

\* No request is in flight with another, and each finds the books as it left
\* them.
BooksGood ==
    /\ BooksTyped /\ NeverShort
    /\ \A q, r \in Requests : at[q] # "idle" /\ at[r] # "idle" => q = r
    /\ PaperAtRest => Blank \/ Kept(0, 0, 0)
    /\ \A r \in Requests : StageHolds(r)

BooksInv == errors \in Nat /\ (~ overlapped /\ errors = 0 => BooksGood)

\* What the sums over the trades are as one is added.
LEMMA TradedIs ==
    ASSUME BooksTyped, NEW side, NEW days
    PROVE  Traded(side, days) \in Nat
<1> DEFINE s == [i \in DOMAIN trades |-> IF trades[i].side = side /\ trades[i].day \in days
                                         THEN trades[i].quantity ELSE 0]
<1>1. Len(trades) \in Nat /\ DOMAIN trades = 1 .. Len(trades)
      /\ \A i \in DOMAIN trades : trades[i] \in TradeType
  BY LenProperties, ElementOfSeq DEF BooksTyped
<1>2. \A i \in DOMAIN trades : trades[i].quantity \in Nat
  BY <1>1 DEF TradeType
<1>3. s \in [1 .. Len(trades) -> Nat]
  BY <1>1, <1>2
<1>4. s \in Seq(Nat)
  BY <1>1, <1>3
<1> HIDE DEF s
<1>5. SumOf(s) \in Nat
  BY <1>4, SumIsNat
<1> QED BY <1>5 DEF s, Traded

LEMMA TradedAppended ==
    ASSUME BooksTyped, NEW t \in TradeType, trades' = Append(trades, t), NEW side, NEW days
    PROVE  Traded(side, days)' =
             Traded(side, days) + IF t.side = side /\ t.day \in days THEN t.quantity ELSE 0
<1> DEFINE Of(k) == IF k.side = side /\ k.day \in days THEN k.quantity ELSE 0
           s == [i \in DOMAIN trades |-> Of(trades[i])]
           u == [i \in DOMAIN trades' |-> Of(trades'[i])]
<1>1. PICK n \in Nat : n = Len(trades)
  BY LenProperties DEF BooksTyped
<1>2. DOMAIN trades = 1 .. n /\ \A i \in DOMAIN trades : trades[i] \in TradeType
  BY <1>1, LenProperties, ElementOfSeq DEF BooksTyped
<1>3. /\ trades' \in Seq(TradeType) /\ Len(trades') = n + 1 /\ trades'[n + 1] = t
      /\ \A i \in 1 .. n : trades'[i] = trades[i]
  BY <1>1, AppendProperties DEF BooksTyped
<1>4. DOMAIN trades' = 1 .. n + 1
  BY <1>3, LenProperties
<1>5. \A k \in TradeType : Of(k) \in Int
  BY DEF TradeType
<1> HIDE DEF Of
<1>6. s \in [1 .. n -> Int] /\ Of(t) \in Int
  BY <1>2, <1>5
<1>7. s \in Seq(Int) /\ Len(s) = n
  BY <1>6
<1>8. u \in Seq(Int) /\ Len(u) = n + 1 /\ u[n + 1] = Of(t) /\ \A i \in 1 .. n : u[i] = s[i]
  <2>1. u \in [1 .. n + 1 -> Int]
    BY <1>3, <1>4, <1>5, ElementOfSeq
  <2> QED BY <1>2, <1>3, <1>4, <2>1
<1>9. SumOf(u) = SumOf(s) + Of(t)
  <2> HIDE DEF s, u
  <2> QED BY <1>6, <1>7, <1>8, SumAppended
<1>10. Traded(side, days) = SumOf(s) /\ Traded(side, days)' = SumOf(u)
  BY DEF Traded, Of
<1> QED BY <1>9, <1>10 DEF Of

LEMMA EarnedIs ==
    ASSUME NEW t \in TradeType
    PROVE  Earned(t) \in Int
<1>1. t.price * t.quantity \in Int /\ t.commission \in Nat
  BY DEF TradeType
<1>2. PICK m \in Int : m = t.price * t.quantity
  BY <1>1
<1>3. PICK c \in Nat : c = t.commission
  BY <1>1
<1>4. Earned(t) = (IF t.side = "sell" THEN m ELSE - m) - c
  BY <1>2, <1>3 DEF Earned
<1> QED BY <1>2, <1>3, <1>4

LEMMA CashFlowIs ==
    ASSUME BooksTyped
    PROVE  CashFlow \in Int
<1> DEFINE s == [i \in DOMAIN trades |-> Earned(trades[i])]
<1>1. Len(trades) \in Nat /\ DOMAIN trades = 1 .. Len(trades)
      /\ \A i \in DOMAIN trades : trades[i] \in TradeType
  BY LenProperties, ElementOfSeq DEF BooksTyped
<1>2. s \in [1 .. Len(trades) -> Int]
  BY <1>1, EarnedIs
<1>3. s \in Seq(Int)
  BY <1>1, <1>2
<1> HIDE DEF s
<1>4. SumOf(s) \in Int
  BY <1>3, SumIsInt
<1> QED BY <1>4 DEF s, CashFlow

LEMMA CashFlowAppended ==
    ASSUME BooksTyped, NEW t \in TradeType, trades' = Append(trades, t)
    PROVE  CashFlow' = CashFlow + Earned(t)
<1> DEFINE s == [i \in DOMAIN trades |-> Earned(trades[i])]
           u == [i \in DOMAIN trades' |-> Earned(trades'[i])]
<1>1. PICK n \in Nat : n = Len(trades)
  BY LenProperties DEF BooksTyped
<1>2. DOMAIN trades = 1 .. n /\ \A i \in DOMAIN trades : trades[i] \in TradeType
  BY <1>1, LenProperties, ElementOfSeq DEF BooksTyped
<1>3. /\ trades' \in Seq(TradeType) /\ Len(trades') = n + 1 /\ trades'[n + 1] = t
      /\ \A i \in 1 .. n : trades'[i] = trades[i]
  BY <1>1, AppendProperties DEF BooksTyped
<1>4. DOMAIN trades' = 1 .. n + 1
  BY <1>3, LenProperties
<1>5. \A k \in TradeType : Earned(k) \in Int
  BY EarnedIs
<1>6. s \in [1 .. n -> Int] /\ Earned(t) \in Int
  BY <1>2, <1>5
<1>7. s \in Seq(Int) /\ Len(s) = n
  BY <1>6
<1>8. u \in Seq(Int) /\ Len(u) = n + 1 /\ u[n + 1] = Earned(t) /\ \A i \in 1 .. n : u[i] = s[i]
  <2>1. u \in [1 .. n + 1 -> Int]
    BY <1>3, <1>4, <1>5, ElementOfSeq
  <2> QED BY <1>2, <1>3, <1>4, <2>1
<1>9. SumOf(u) = SumOf(s) + Earned(t)
  <2> HIDE DEF s, u
  <2> QED BY <1>6, <1>7, <1>8, SumAppended
<1>10. CashFlow = SumOf(s) /\ CashFlow' = SumOf(u)
  BY DEF CashFlow, Earned
<1> QED BY <1>9, <1>10

\* Nothing else is sold or bought in a step that leaves trades, day and market.
LEMMA TradesStay ==
    ASSUME UNCHANGED <<trades, day>>
    PROVE  /\ CashFlow' = CashFlow /\ Holding' = Holding
           /\ Bought(day)' = Bought(day)
  BY DEF CashFlow, Holding, Bought, Traded

LEMMA BooksStay ==
    ASSUME UNCHANGED <<trades, day, market, accounts, positions, orders>>
    PROVE  /\ Blank' = Blank /\ First' = First
           /\ \A money, shares, more : Kept(money, shares, more)' = Kept(money, shares, more)
<1>1. CashFlow' = CashFlow /\ Holding' = Holding
  BY TradesStay
<1> QED BY <1>1 DEF Blank, First, Kept, Holds

LEMMA HoldingIs ==
    ASSUME BooksTyped
    PROVE  Holding \in Int /\ Bought(day) \in Nat
  BY TradedIs DEF Holding, Bought

\* Without trades nothing has moved.
LEMMA NothingMoved ==
    ASSUME trades = <<>>
    PROVE  CashFlow = 0 /\ Holding = 0 /\ Bought(day) = 0
<1>1. DOMAIN trades = {}
  BY EmptySeq
<1>2. [i \in DOMAIN trades |-> Earned(trades[i])] = <<>>
  BY <1>1
<1>3. \A side, days : [i \in DOMAIN trades |->
           IF trades[i].side = side /\ trades[i].day \in days
           THEN trades[i].quantity ELSE 0] = <<>>
  BY <1>1
<1>4. CashFlow = 0
  BY <1>2, SumOfNone DEF CashFlow
<1>5. \A side, days : Traded(side, days) = 0
  BY <1>3, SumOfNone DEF Traded
<1> QED BY <1>4, <1>5 DEF Holding, Bought

\* What an order is worth.
LEMMA WorthAt ==
    ASSUME PaperAssumption, NEW r \in Requests, Decided(r)
    PROVE  /\ mine[r].quantity \in Nat \ {0} /\ mine[r].price \in Nat
           /\ Notional(r) \in Int /\ Cost(r) \in Int /\ Proceeds(r) \in Int
           /\ Money(r) \in Int /\ Shares(r) \in Int
<1>1. mine[r].quantity \in Nat \ {0} /\ mine[r].price \in Nat /\ mine[r].commission \in Nat
  BY DEF PaperAssumption, Decided, Asked
<1>2. Notional(r) \in Int
  BY <1>1 DEF Notional
<1>3. Cost(r) \in Int /\ Proceeds(r) \in Int
  BY <1>1, <1>2 DEF Cost, Proceeds
<1> QED BY <1>1, <1>2, <1>3 DEF Money, Shares

\* The books stand when one request moves and no other is in flight.
LEMMA OneMoves ==
    ASSUME BooksTyped, NEW r \in Requests, NEW w \in Awaits, NEW m,
           \A q \in Requests \ {r} : at[q] = "idle",
           DOMAIN m = DOMAIN Unsent,
           at' = [at EXCEPT ![r] = w], mine' = [mine EXCEPT ![r] = m],
           UNCHANGED <<market, rules, ruledAllDay, day>>,
           trades' \in Seq(TradeType), positions' \in Seq(PositionType),
           orders' \in Nat, made' \in Nat,
           \A i \in DOMAIN trades' : trades'[i].day <= day,
           NeverShort', StageHolds(r)', w = "idle" => (Blank \/ Kept(0, 0, 0))'
    PROVE  BooksGood'
<1>1. /\ at' \in [Requests -> Awaits] /\ at'[r] = w
      /\ \A q \in Requests \ {r} : at'[q] = "idle"
  BY DEF BooksTyped
<1>2. /\ mine' = [q \in Requests |-> mine'[q]] /\ mine'[r] = m
      /\ \A q \in Requests \ {r} : mine'[q] = mine[q]
  BY DEF BooksTyped
<1>3. BooksTyped'
  BY <1>1, <1>2 DEF BooksTyped
<1>4. \A q, s \in Requests : at'[q] # "idle" /\ at'[s] # "idle" => q = s
  BY <1>1
<1>5. PaperAtRest' => (Blank \/ Kept(0, 0, 0))'
  BY <1>1 DEF PaperAtRest
<1>6. \A q \in Requests : StageHolds(q)'
  <2>1. ASSUME NEW q \in Requests \ {r}
        PROVE  StageHolds(q)'
    BY <1>1, <2>1, Zenon DEF StageHolds
  <2> QED BY <2>1
<1> QED BY <1>3, <1>4, <1>5, <1>6 DEF BooksGood

\* ... and it leaves the books alone.
LEMMA OneReads ==
    ASSUME BooksGood, NEW r \in Requests, NEW w \in Awaits, NEW m,
           \A q \in Requests \ {r} : at[q] = "idle",
           DOMAIN m = DOMAIN Unsent,
           at' = [at EXCEPT ![r] = w], mine' = [mine EXCEPT ![r] = m],
           UNCHANGED <<books, market, rules, ruledAllDay, day>>,
           StageHolds(r)', w = "idle" => Blank \/ Kept(0, 0, 0)
    PROVE  BooksGood'
<1>1. UNCHANGED <<trades, day, market, rules, ruledAllDay, accounts, positions, orders, made>>
  BY DEF books
<1>2. NeverShort'
  BY <1>1, TradesStay DEF NeverShort, Settling, BooksGood
<1>3. w = "idle" => (Blank \/ Kept(0, 0, 0))'
  BY <1>1, BooksStay
<1> QED BY <1>1, <1>2, <1>3, OneMoves DEF BooksGood, BooksTyped

\* The request that is in flight is alone.
LEMMA Alone ==
    ASSUME BooksGood, NEW r \in Requests, at[r] # "idle"
    PROVE  \A q \in Requests \ {r} : at[q] = "idle"
  BY DEF BooksGood

\* Where a request stands and what it has read, after a step of it.
LEMMA Stands ==
    ASSUME BooksTyped, NEW r \in Requests, NEW w, NEW m,
           at' = [at EXCEPT ![r] = w], mine' = [mine EXCEPT ![r] = m]
    PROVE  at'[r] = w /\ mine'[r] = m
  BY DEF BooksTyped

\* A request that ends leaves no trace of itself.
LEMMA OneEnds ==
    ASSUME BooksGood, NEW r \in Requests, at[r] # "idle", Answer(r),
           UNCHANGED <<books, market, rules, ruledAllDay, day>>, Blank \/ Kept(0, 0, 0)
    PROVE  BooksGood'
<1>1. \A q \in Requests \ {r} : at[q] = "idle"
  BY Alone
<1>2. at' = [at EXCEPT ![r] = "idle"] /\ mine' = [mine EXCEPT ![r] = Unsent]
  BY DEF Answer, Keep, Go
<1>3. at'[r] = "idle"
  BY <1>2, Stands DEF BooksGood
<1>4. StageHolds(r)'
  BY <1>3, Zenon DEF StageHolds
<1>5. "idle" \in Awaits
  BY DEF Awaits
<1> QED BY <1>1, <1>2, <1>4, <1>5, OneReads

LEMMA SendKeepsBooks ==
    ASSUME BooksGood, NEW r \in Requests, SendOrder(r), ~ overlapped'
    PROVE  BooksGood'
<1>1. \A q \in Requests \ {r} : at[q] = "idle"
  BY DEF SendOrder
<1>2. PaperAtRest
  BY <1>1 DEF SendOrder, PaperAtRest
<1>3. Blank \/ Kept(0, 0, 0)
  BY <1>2 DEF BooksGood
<1>4. UNCHANGED <<books, market, rules, ruledAllDay, day>>
  BY DEF SendOrder
<1>5. (Blank \/ Kept(0, 0, 0))'
  BY <1>3, <1>4, BooksStay DEF books
<1>6. CASE Keep(r, "accounts", Unsent)
  <2>1. at' = [at EXCEPT ![r] = "accounts"] /\ mine' = [mine EXCEPT ![r] = Unsent]
    BY <1>6 DEF Keep, Go
  <2>2. at'[r] = "accounts" /\ mine'[r] = Unsent
    BY <2>1, Stands DEF BooksGood
  <2>3. mine'[r].side = "reset"
    BY <2>2 DEF Unsent
  <2>4. StageHolds(r)'
    BY <2>2, <2>3, Zenon DEF StageHolds
  <2> QED BY <1>1, <1>4, <2>1, <2>4, OneReads DEF Awaits
<1>7. ASSUME NEW side \in {"buy", "sell"}, NEW quantity \in Quantities,
             Keep(r, "account", [Unsent EXCEPT !.side = side, !.quantity = quantity])
      PROVE  BooksGood'
  <2>1. PICK m : m = [Unsent EXCEPT !.side = side, !.quantity = quantity]
    OBVIOUS
  <2>2. at' = [at EXCEPT ![r] = "account"] /\ mine' = [mine EXCEPT ![r] = m]
    BY <1>7, <2>1 DEF Keep, Go
  <2>3. at'[r] = "account" /\ mine'[r] = m
    BY <2>2, Stands DEF BooksGood
  <2>4. DOMAIN m = DOMAIN Unsent /\ m.side = side /\ m.quantity = quantity
    BY <2>1 DEF Unsent
  <2>5. Asked(r)'
    BY <2>3, <2>4 DEF Asked
  <2>6. StageHolds(r)'
    BY <1>5, <2>3, <2>5, Zenon DEF StageHolds
  <2> QED BY <1>1, <1>4, <2>2, <2>4, <2>6, OneReads DEF Awaits
<1> QED BY <1>6, <1>7 DEF SendOrder

LEMMA FindAccountKeepsBooks ==
    ASSUME BooksGood, NEW r \in Requests, FindAccount(r)
    PROVE  BooksGood'
<1>1. at[r] = "account" /\ UNCHANGED <<books, market, rules, ruledAllDay, day>>
  BY DEF FindAccount, Still, history
<1>2. \A q \in Requests \ {r} : at[q] = "idle"
  BY <1>1, Alone
<1>3. (Blank \/ Kept(0, 0, 0)) /\ (mine[r].side = "reset" \/ Asked(r))
  BY <1>1, Zenon DEF BooksGood, StageHolds
<1>4. mine = [q \in Requests |-> mine[q]] /\ DOMAIN mine[r] = DOMAIN Unsent
  BY DEF BooksGood, BooksTyped
<1>5. CASE accounts = <<>>
  <2>1. Blank
    BY <1>3, <1>5 DEF Kept
  <2>2. at' = [at EXCEPT ![r] = "create"] /\ mine' = mine
    BY <1>5 DEF FindAccount, Go
  <2>3. mine' = [mine EXCEPT ![r] = mine[r]]
    BY <1>4, <2>2
  <2>4. at'[r] = "create" /\ mine'[r] = mine[r]
    BY <2>2, Stands, <2>3 DEF BooksGood
  <2>5. Blank' /\ (mine'[r].side = "reset" \/ Asked(r)')
    BY <1>1, <1>3, <2>1, <2>4, BooksStay DEF books, Asked
  <2>6. StageHolds(r)'
    BY <2>4, <2>5, Zenon DEF StageHolds
  <2> QED BY <1>1, <1>2, <1>4, <2>2, <2>3, <2>6, OneReads DEF Awaits
<1>6. CASE accounts # <<>>
  <2>1. Kept(0, 0, 0)
    BY <1>3, <1>6 DEF Blank
  <2>2. CASE mine[r].side = "reset"
    BY <1>1, <1>6, <2>1, <2>2, OneEnds DEF FindAccount
  <2>3. CASE mine[r].side # "reset"
    <3>1. PICK m : m = [mine[r] EXCEPT !.cash = Head(accounts)]
      OBVIOUS
    <3>2. at' = [at EXCEPT ![r] = "rules"] /\ mine' = [mine EXCEPT ![r] = m]
      BY <1>6, <2>3, <3>1 DEF FindAccount, Keep, Go
    <3>3. at'[r] = "rules" /\ mine'[r] = m
      BY <3>2, Stands DEF BooksGood
    <3>4. /\ DOMAIN m = DOMAIN Unsent /\ m.side = mine[r].side
          /\ m.quantity = mine[r].quantity /\ m.cash = Head(accounts)
      BY <1>4, <3>1 DEF Unsent
    <3>5. Asked(r)' /\ Kept(0, 0, 0)' /\ mine'[r].cash = Head(accounts')
      BY <1>1, <1>3, <2>1, <2>3, <3>3, <3>4, BooksStay DEF books, Asked
    <3>6. StageHolds(r)'
      BY <3>3, <3>5, Zenon DEF StageHolds
    <3> QED BY <1>1, <1>2, <3>2, <3>4, <3>6, OneReads DEF Awaits
  <2> QED BY <2>2, <2>3
<1> QED BY <1>5, <1>6

LEMMA CreateAccountKeepsBooks ==
    ASSUME PaperAssumption, BooksGood, NEW r \in Requests, CreateAccount(r)
    PROVE  BooksGood'
<1>1. /\ at[r] = "create"
      /\ UNCHANGED <<positions, orders, trades, made, market, rules, ruledAllDay, day>>
  BY DEF CreateAccount, Still, history
<1>2. \A q \in Requests \ {r} : at[q] = "idle"
  BY <1>1, Alone
<1>3. Blank /\ (mine[r].side = "reset" \/ Asked(r))
  BY <1>1, Zenon DEF BooksGood, StageHolds
<1>4. mine = [q \in Requests |-> mine[q]] /\ DOMAIN mine[r] = DOMAIN Unsent
  BY DEF BooksGood, BooksTyped
<1>5. accounts' = <<InitialCash>> /\ InitialCash \in Nat
  BY <1>3 DEF CreateAccount, Blank, PaperAssumption
<1>6. CashFlow' = 0 /\ Holding' = 0
  BY <1>1, <1>3, NothingMoved, TradesStay DEF Blank
<1>7. Kept(0, 0, 0)'
  <2>1. Len(trades') = 0 /\ orders' = 0 /\ positions' = <<>>
    BY <1>1, <1>3, EmptySeq DEF Blank
  <2>2. accounts' = <<InitialCash + CashFlow' + 0>> /\ Holding' + 0 = 0
    BY <1>5, <1>6
  <2> QED BY <2>1, <2>2 DEF Kept, Holds
<1>8. NeverShort'
  BY <1>1, TradesStay DEF NeverShort, Settling, BooksGood
<1>9. ASSUME NEW w \in Awaits, NEW m, DOMAIN m = DOMAIN Unsent,
             at' = [at EXCEPT ![r] = w], mine' = [mine EXCEPT ![r] = m], StageHolds(r)'
      PROVE  BooksGood'
  BY <1>1, <1>2, <1>7, <1>8, <1>9, OneMoves DEF BooksGood, BooksTyped
<1>10. CASE mine[r].side = "reset"
  <2>1. at' = [at EXCEPT ![r] = "idle"] /\ mine' = [mine EXCEPT ![r] = Unsent]
    BY <1>10 DEF CreateAccount, Answer, Keep, Go
  <2>2. at'[r] = "idle"
    BY <2>1, Stands DEF BooksGood
  <2>3. StageHolds(r)'
    BY <2>2, Zenon DEF StageHolds
  <2> QED BY <1>9, <2>1, <2>3 DEF Awaits
<1>11. CASE mine[r].side # "reset"
  <2>1. PICK m : m = [mine[r] EXCEPT !.cash = InitialCash]
    OBVIOUS
  <2>2. at' = [at EXCEPT ![r] = "rules"] /\ mine' = [mine EXCEPT ![r] = m]
    BY <1>11, <2>1 DEF CreateAccount, Keep, Go
  <2>3. at'[r] = "rules" /\ mine'[r] = m
    BY <2>2, Stands DEF BooksGood
  <2>4. /\ DOMAIN m = DOMAIN Unsent /\ m.side = mine[r].side
        /\ m.quantity = mine[r].quantity /\ m.cash = InitialCash
    BY <1>4, <2>1 DEF Unsent
  <2>5. Asked(r)'
    BY <1>3, <1>11, <2>3, <2>4 DEF Asked
  <2>6. mine'[r].cash = Head(accounts')
    BY <1>5, <2>3, <2>4
  <2>7. StageHolds(r)'
    BY <1>7, <2>3, <2>5, <2>6, Zenon DEF StageHolds
  <2> QED BY <1>9, <2>2, <2>4, <2>7 DEF Awaits
<1> QED BY <1>10, <1>11

LEMMA FindRulesKeepsBooks ==
    ASSUME PaperAssumption, BooksGood, NEW r \in Requests, FindRules(r)
    PROVE  BooksGood'
<1>1. at[r] = "rules" /\ UNCHANGED <<books, market, rules, ruledAllDay, day>>
  BY DEF FindRules, Still, history
<1>2. \A q \in Requests \ {r} : at[q] = "idle"
  BY <1>1, Alone
<1>3. Kept(0, 0, 0) /\ Asked(r) /\ mine[r].cash = Head(accounts)
  BY <1>1, Zenon DEF BooksGood, StageHolds
<1>4. CASE Answer(r)
  BY <1>1, <1>3, <1>4, OneEnds
<1>5. ASSUME NEW price \in Prices,
             Keep(r, "position", [mine[r] EXCEPT !.price = price, !.commission = Charged])
      PROVE  BooksGood'
  <2>1. PICK m : m = [mine[r] EXCEPT !.price = price, !.commission = Charged]
    OBVIOUS
  <2>2. at' = [at EXCEPT ![r] = "position"] /\ mine' = [mine EXCEPT ![r] = m]
    BY <1>5, <2>1 DEF Keep, Go
  <2>3. at'[r] = "position" /\ mine'[r] = m
    BY <2>2, Stands DEF BooksGood
  <2>4. DOMAIN mine[r] = DOMAIN Unsent
    BY DEF BooksGood, BooksTyped
  <2>5. /\ DOMAIN m = DOMAIN Unsent /\ m.side = mine[r].side
        /\ m.quantity = mine[r].quantity /\ m.cash = mine[r].cash
        /\ m.price = price /\ m.commission = Charged
    BY <2>1, <2>4 DEF Unsent
  <2>6. Charged \in Nat
    BY DEF Charged, PaperAssumption
  <2>7. Kept(0, 0, 0)' /\ accounts' = accounts
    BY <1>1, <1>3, BooksStay DEF books
  <2>8. Decided(r)' /\ mine'[r].cash = Head(accounts')
    BY <1>3, <2>3, <2>5, <2>6, <2>7 DEF Decided, Asked
  <2>9. StageHolds(r)'
    BY <2>3, <2>7, <2>8, Zenon DEF StageHolds
  <2>10. "position" \in Awaits /\ "position" # "idle"
    BY DEF Awaits
  <2> QED BY <1>1, <1>2, <2>2, <2>5, <2>9, <2>10, OneReads
<1> QED BY <1>4, <1>5 DEF FindRules

LEMMA FindPositionKeepsBooks ==
    ASSUME BooksGood, NEW r \in Requests, FindPosition(r)
    PROVE  BooksGood'
<1>1. at[r] = "position" /\ UNCHANGED <<books, market, rules, ruledAllDay, day>>
  BY DEF FindPosition, Still, history
<1>2. \A q \in Requests \ {r} : at[q] = "idle"
  BY <1>1, Alone
<1>3. Kept(0, 0, 0) /\ Decided(r) /\ mine[r].cash = Head(accounts)
  BY <1>1, Zenon DEF BooksGood, StageHolds
<1>4. PICK w : w = (IF mine[r].side = "buy" THEN "debit" ELSE "hold")
  OBVIOUS
<1>5. PICK m : m = [mine[r] EXCEPT !.position = First]
  OBVIOUS
<1>6. at' = [at EXCEPT ![r] = w] /\ mine' = [mine EXCEPT ![r] = m]
  BY <1>4, <1>5 DEF FindPosition, First, Keep, Go
<1>7. at'[r] = w /\ mine'[r] = m
  BY <1>6, Stands DEF BooksGood
<1>8. DOMAIN mine[r] = DOMAIN Unsent
  BY DEF BooksGood, BooksTyped
<1>9. /\ DOMAIN m = DOMAIN Unsent /\ m.side = mine[r].side
      /\ m.quantity = mine[r].quantity /\ m.cash = mine[r].cash
      /\ m.price = mine[r].price /\ m.commission = mine[r].commission /\ m.position = First
  BY <1>5, <1>8 DEF Unsent
<1>10. Kept(0, 0, 0)' /\ First' = First /\ accounts' = accounts
  BY <1>1, <1>3, BooksStay DEF books
<1>11. Decided(r)' /\ mine'[r].position = First' /\ mine'[r].cash = Head(accounts')
       /\ mine'[r].side = mine[r].side
  BY <1>3, <1>7, <1>9, <1>10 DEF Decided, Asked
<1>12. (mine[r].side = "buy" /\ w = "debit") \/ (mine[r].side = "sell" /\ w = "hold")
  BY <1>3, <1>4 DEF Decided, Asked
<1>13. StageHolds(r)'
  BY <1>7, <1>10, <1>11, <1>12, Zenon DEF StageHolds, Deciding
<1>14. w \in Awaits /\ w # "idle"
  BY <1>12 DEF Awaits
<1> QED BY <1>1, <1>2, <1>6, <1>9, <1>13, <1>14, OneReads

\* The position that is read is the one there is.
LEMMA PositionHeld ==
    ASSUME BooksTyped, NEW n \in Int, Holds(n)
    PROVE  /\ n = 0 => positions = <<>> /\ First = NoPosition
           /\ n # 0 => /\ positions # <<>> /\ Len(positions) = 1 /\ DOMAIN positions = {1}
                       /\ First = positions[1] /\ First # NoPosition
                       /\ First \in PositionType /\ First.quantity = n
                       /\ market = "US" => First.available = n
<1>1. CASE n = 0
  BY <1>1 DEF Holds, First
<1>2. CASE n # 0
  <2>1. Len(positions) = 1 /\ positions[1].quantity = n /\ (market = "US" => positions[1].available = n)
    BY <1>2 DEF Holds
  <2>2. DOMAIN positions = {1} /\ positions \in Seq(PositionType)
    BY <2>1, LenProperties DEF BooksTyped
  <2>3. positions[1] \in PositionType
    <3>1. 1 \in 1..Len(positions)
      BY <2>1
    <3> QED BY <2>2, <3>1, ElementOfSeq
  <2>4. positions # <<>> /\ Head(positions) = positions[1]
    <3>1. positions # <<>>
      BY <2>1, EmptySeq
    <3> QED BY <2>2, <3>1
  <2>5. positions[1] # NoPosition
    BY <2>3 DEF PositionType, NoPosition
  <2> QED BY <1>2, <2>1, <2>2, <2>3, <2>4, <2>5 DEF First
<1> QED BY <1>1, <1>2

LEMMA DebitKeepsBooks ==
    ASSUME PaperAssumption, BooksGood, NEW r \in Requests, Debit(r)
    PROVE  BooksGood'
<1>1. /\ at[r] = "debit"
      /\ UNCHANGED <<positions, orders, trades, made, market, rules, ruledAllDay, day>>
  BY DEF Debit, Still, history
<1>2. \A q \in Requests \ {r} : at[q] = "idle"
  BY <1>1, Alone
<1>3. Kept(0, 0, 0) /\ Decided(r) /\ mine[r].side = "buy" /\ mine[r].position = First
      /\ mine[r].cash = Head(accounts)
  BY <1>1, Zenon DEF BooksGood, StageHolds, Deciding
<1>4. CASE mine[r].cash < Cost(r)
  BY <1>1, <1>3, <1>4, OneEnds DEF Debit, books
<1>5. CASE ~ mine[r].cash < Cost(r)
  <2>1. accounts' = Debited(r) /\ at' = [at EXCEPT ![r] = "bought"] /\ mine' = mine
    BY <1>5 DEF Debit, Go
  <2>2. mine' = [mine EXCEPT ![r] = mine[r]] /\ DOMAIN mine[r] = DOMAIN Unsent
    BY <2>1 DEF BooksGood, BooksTyped
  <2>3. at'[r] = "bought" /\ mine'[r] = mine[r]
    BY <2>1, <2>2, Stands DEF BooksGood
  <2>4. /\ Cost(r) \in Int /\ Money(r) = - Cost(r) /\ InitialCash \in Int
        /\ CashFlow \in Int /\ Holding \in Int
    <3>1. Cost(r) \in Int /\ Money(r) = - Cost(r)
      BY <1>3, WorthAt DEF Money
    <3>2. InitialCash \in Nat
      BY DEF PaperAssumption
    <3> QED BY <3>1, <3>2, CashFlowIs, HoldingIs DEF BooksGood
  <2>5. accounts = <<InitialCash + CashFlow>>
    BY <1>3, <2>4 DEF Kept
  <2>6. accounts' = <<InitialCash + CashFlow + Money(r)>>
    BY <1>3, <2>1, <2>4, <2>5 DEF Debited
  <2>7. /\ CashFlow' = CashFlow /\ Holding' = Holding /\ Money(r)' = Money(r)
        /\ First' = First /\ Decided(r)'
    BY <1>1, <1>3, <2>1, TradesStay DEF Money, Cost, Proceeds, Notional, First, Decided, Asked
  <2>8. Kept(Money(r), 0, 0)'
    BY <1>1, <1>3, <2>6, <2>7 DEF Kept, Holds
  <2>9. StageHolds(r)'
    BY <1>3, <2>1, <2>3, <2>7, <2>8, Zenon DEF StageHolds
  <2>10. NeverShort'
    BY <1>1, TradesStay DEF NeverShort, Settling, BooksGood
  <2>11. "bought" \in Awaits /\ "bought" # "idle"
    BY DEF Awaits
  <2> QED BY <1>1, <1>2, <2>1, <2>2, <2>9, <2>10, <2>11, OneMoves DEF BooksGood, BooksTyped
<1> QED BY <1>4, <1>5

\* A step of an order that has read what it needs, and that moves the shares.
LEMMA SharesMove ==
    ASSUME PaperAssumption, BooksGood, NEW r \in Requests, at[r] # "idle", Decided(r),
           Kept(Money(r), 0, 0), mine[r].side = "sell" => Covered(r),
           UNCHANGED <<accounts, orders, trades, mine, market, rules, ruledAllDay, day>>, Go(r, "order"),
           positions' \in Seq(PositionType), made' \in Nat, Holds(Holding + Shares(r))'
    PROVE  BooksGood'
<1>1. \A q \in Requests \ {r} : at[q] = "idle"
  BY Alone
<1>2. mine' = [mine EXCEPT ![r] = mine[r]] /\ DOMAIN mine[r] = DOMAIN Unsent
  BY DEF BooksGood, BooksTyped
<1>3. at' = [at EXCEPT ![r] = "order"]
  BY DEF Go
<1>4. at'[r] = "order" /\ mine'[r] = mine[r]
  BY <1>2, <1>3, Stands DEF BooksGood
<1>5. CashFlow' = CashFlow /\ Holding' = Holding /\ Bought(day)' = Bought(day)
  BY TradesStay
<1>6. Money(r)' = Money(r) /\ Decided(r)' /\ mine'[r].side = mine[r].side
  BY DEF Money, Cost, Proceeds, Notional, Decided, Asked
<1>7. mine[r].side = "sell" => Covered(r)'
  BY <1>5 DEF Covered, Settling
<1>8. Kept(Money(r), Shares(r), 0)'
  BY <1>5, <1>6 DEF Kept
<1>9. StageHolds(r)'
  BY <1>4, <1>6, <1>7, <1>8, Zenon DEF StageHolds
<1>10. NeverShort'
  BY <1>5 DEF NeverShort, Settling, BooksGood
<1>11. "order" \in Awaits /\ "order" # "idle"
  BY DEF Awaits
<1> QED BY <1>1, <1>2, <1>3, <1>9, <1>10, <1>11, OneMoves DEF BooksGood, BooksTyped

LEMMA TakeKeepsBooks ==
    ASSUME PaperAssumption, BooksGood, NEW r \in Requests, TakeShares(r)
    PROVE  BooksGood'
<1>1. /\ at[r] = "bought" /\ Go(r, "order")
      /\ UNCHANGED <<accounts, orders, trades, mine, market, rules, ruledAllDay, day>>
  BY DEF TakeShares, Still, history
<1>2. Kept(Money(r), 0, 0) /\ Decided(r) /\ mine[r].side = "buy" /\ mine[r].position = First
  BY <1>1, Zenon DEF BooksGood, StageHolds
<1>3. PICK q \in Nat \ {0} : q = mine[r].quantity
  BY <1>2, WorthAt
<1>4. PICK n \in Nat : n = Holding /\ Holding' = n
  BY <1>1, HoldingIs, TradesStay DEF NeverShort, Settling, BooksGood
<1>5. Holds(n)
  BY <1>2, <1>4 DEF Kept
<1>6. Shares(r) = q /\ Shares(r)' = q /\ (Holding + Shares(r))' = n + q
  BY <1>1, <1>2, <1>3, <1>4 DEF Shares
<1>7. made \in Nat /\ made + 1 \in Nat /\ at[r] # "idle" /\ (mine[r].side = "sell" => Covered(r))
  BY <1>1, <1>2 DEF BooksGood, BooksTyped
<1>8. CASE First = NoPosition
  <2>1. n = 0 /\ positions = <<>>
    BY <1>5, <1>8, PositionHeld DEF BooksGood
  <2>2. PICK p : p = [id |-> made + 1, quantity |-> q,
                      available |-> IF market = "CN" THEN 0 ELSE q]
    OBVIOUS
  <2>3. positions' = <<p>> /\ made' = made + 1
    BY <1>2, <1>3, <1>8, <2>1, <2>2 DEF TakeShares
  <2>4. p \in PositionType /\ p.quantity = q /\ (market = "US" => p.available = q)
    BY <1>7, <2>2 DEF PositionType
  <2>5. positions' \in Seq(PositionType) /\ Len(positions') = 1 /\ positions'[1] = p
    BY <2>3, <2>4
  <2>6. Holds(Holding + Shares(r))'
    BY <1>1, <1>6, <2>1, <2>4, <2>5 DEF Holds
  <2> QED BY <1>1, <1>2, <1>7, <2>3, <2>5, <2>6, SharesMove
<1>9. CASE First # NoPosition
  <2>1. /\ n # 0 /\ DOMAIN positions = {1} /\ Len(positions) = 1 /\ First = positions[1]
        /\ First \in PositionType /\ First.quantity = n
    BY <1>5, <1>9, PositionHeld DEF BooksGood
  <2>2. PICK v : v = IF market = "CN" THEN First.available ELSE n + q
    OBVIOUS
  <2>3. positions' = Updated(First, n + q, v) /\ made' = made
    BY <1>2, <1>3, <1>9, <2>1, <2>2 DEF TakeShares
  <2>4. PICK f : f = First
    OBVIOUS
  <2>5. PICK p : p = [f EXCEPT !.quantity = n + q, !.available = v]
    OBVIOUS
  <2>6. p \in PositionType /\ p.quantity = n + q /\ p.available = v
    <3>1. f \in PositionType
      BY <2>1, <2>4
    <3>2. v \in Int
      BY <2>2, <2>4, <3>1 DEF PositionType
    <3>3. p.id = f.id /\ p.quantity = n + q /\ p.available = v
      BY <2>5, <3>1 DEF PositionType
    <3>4. p = [id |-> f.id, quantity |-> n + q, available |-> v]
      BY <2>5, <3>1 DEF PositionType
    <3>5. f.id \in Nat \ {0} /\ n + q \in Int
      BY <3>1 DEF PositionType
    <3> QED BY <3>2, <3>3, <3>4, <3>5 DEF PositionType
  <2>7. positions' = [i \in 1 .. 1 |-> p]
    BY <2>1, <2>3, <2>4, <2>5 DEF Updated
  <2>8. positions' \in Seq(PositionType) /\ Len(positions') = 1 /\ positions'[1] = p
    BY <2>6, <2>7
  <2>9. market = "US" => v = n + q
    BY <2>2
  <2>10. Holds(Holding + Shares(r))'
    BY <1>1, <1>6, <2>6, <2>8, <2>9 DEF Holds
  <2> QED BY <1>1, <1>2, <1>7, <2>3, <2>8, <2>10, SharesMove
<1> QED BY <1>8, <1>9

LEMMA ReadHoldingKeepsBooks ==
    ASSUME BooksGood, NEW r \in Requests, ReadHolding(r)
    PROVE  BooksGood'
<1>1. at[r] = "hold" /\ UNCHANGED <<books, market, rules, ruledAllDay, day>>
  BY DEF ReadHolding, Still, history
<1>2. \A q \in Requests \ {r} : at[q] = "idle"
  BY <1>1, Alone
<1>3. Kept(0, 0, 0) /\ Decided(r) /\ mine[r].side = "sell" /\ mine[r].position = First
  BY <1>1, Zenon DEF BooksGood, StageHolds, Deciding
<1>4. PICK n \in Int : n = Holding /\ Holding' = n
  BY <1>1, HoldingIs, TradesStay DEF books, BooksGood
<1>5. Holds(n)
  BY <1>3, <1>4 DEF Kept
<1>6. (IF positions = <<>> THEN 0 ELSE Head(positions).quantity) = n
  BY <1>5, PositionHeld DEF First, BooksGood
<1>7. PICK m : m = [mine[r] EXCEPT !.total = n]
  OBVIOUS
<1>8. at' = [at EXCEPT ![r] = "holding"] /\ mine' = [mine EXCEPT ![r] = m]
  BY <1>6, <1>7 DEF ReadHolding, Keep, Go
<1>9. at'[r] = "holding" /\ mine'[r] = m
  BY <1>8, Stands DEF BooksGood
<1>10. DOMAIN mine[r] = DOMAIN Unsent
  BY DEF BooksGood, BooksTyped
<1>11. /\ DOMAIN m = DOMAIN Unsent /\ m.side = mine[r].side
       /\ m.quantity = mine[r].quantity /\ m.price = mine[r].price
       /\ m.position = mine[r].position /\ m.total = n /\ m.commission = mine[r].commission
  BY <1>7, <1>10 DEF Unsent
<1>12. Kept(0, 0, 0)' /\ First' = First
  BY <1>1, <1>3, BooksStay DEF books
<1>13. Decided(r)' /\ mine'[r].side = "sell" /\ mine'[r].position = First' /\ mine'[r].total = Holding'
  BY <1>3, <1>4, <1>9, <1>11, <1>12 DEF Decided, Asked
<1>14. StageHolds(r)'
  BY <1>9, <1>12, <1>13, Zenon DEF StageHolds, Deciding
<1>15. "holding" \in Awaits /\ "holding" # "idle"
  BY DEF Awaits
<1> QED BY <1>1, <1>2, <1>8, <1>11, <1>14, <1>15, OneReads

\* A sale that is let through is covered.
LEMMA DecideKeepsBooks ==
    ASSUME PaperAssumption, BooksGood, NEW r \in Requests, at[r] # "idle",
           UNCHANGED <<books, market, rules, ruledAllDay, day>>,
           Deciding(r, "sell"), mine[r].total = Holding, NEW sellable \in Int, Decide(r, sellable),
           mine[r].quantity <= sellable => Covered(r)
    PROVE  BooksGood'
<1>1. \A q \in Requests \ {r} : at[q] = "idle"
  BY Alone
<1>2. Kept(0, 0, 0) /\ Decided(r) /\ mine[r].side = "sell" /\ mine[r].position = First
  BY DEF Deciding
<1>3. CASE Answer(r)
  BY <1>2, <1>3, OneEnds
<1>4. CASE Go(r, "credit") /\ mine' = mine /\ ~ sellable < mine[r].quantity
  <2>1. mine[r].quantity <= sellable
    <3>1. mine[r].quantity \in Int
      BY <1>2, WorthAt
    <3> QED BY <1>4, <3>1
  <2>2. /\ CashFlow' = CashFlow /\ Holding' = Holding /\ Bought(day)' = Bought(day) /\ First' = First
        /\ Kept(0, 0, 0)'
    BY <1>2, TradesStay, BooksStay DEF books
  <2>3. Covered(r)'
    BY <1>4, <2>1, <2>2 DEF Covered, Settling, Settling
  <2>4. Decided(r)' /\ mine'[r].side = "sell" /\ mine'[r].position = First'
    BY <1>2, <1>4, <2>2 DEF Decided, Asked
  <2>5. mine' = [mine EXCEPT ![r] = mine[r]] /\ DOMAIN mine[r] = DOMAIN Unsent
        /\ at' = [at EXCEPT ![r] = "credit"]
    BY <1>4 DEF BooksGood, BooksTyped, Go
  <2>6. at'[r] = "credit"
    BY <2>5, Stands DEF BooksGood
  <2>7. StageHolds(r)'
    BY <2>2, <2>3, <2>4, <2>6, Zenon DEF StageHolds, Deciding
  <2>8. "credit" \in Awaits /\ "credit" # "idle"
    BY DEF Awaits
  <2> QED BY <1>1, <2>5, <2>7, <2>8, OneReads
<1> QED BY <1>3, <1>4 DEF Decide

LEMMA CheckRulesKeepsBooks ==
    ASSUME PaperAssumption, BooksGood, NEW r \in Requests, CheckRules(r)
    PROVE  BooksGood'
<1>1. at[r] = "holding" /\ UNCHANGED <<books, market, rules, ruledAllDay, day>>
  BY DEF CheckRules, Still, history
<1>2. \A q \in Requests \ {r} : at[q] = "idle"
  BY <1>1, Alone
<1>3. Deciding(r, "sell") /\ mine[r].total = Holding
  BY <1>1, Zenon DEF BooksGood, StageHolds
<1>4. CASE market = "CN" /\ rules
  <2>1. mine' = mine /\ at' = [at EXCEPT ![r] = "counting"]
    BY <1>4 DEF CheckRules, Go
  <2>2. mine' = [mine EXCEPT ![r] = mine[r]] /\ DOMAIN mine[r] = DOMAIN Unsent
    BY <2>1 DEF BooksGood, BooksTyped
  <2>3. at'[r] = "counting"
    BY <2>1, <2>2, Stands DEF BooksGood
  <2>4. Kept(0, 0, 0)' /\ First' = First /\ Holding' = Holding
    BY <1>1, <1>3, TradesStay, BooksStay DEF books, Deciding
  <2>5. Deciding(r, "sell")' /\ mine'[r].total = Holding'
    BY <1>3, <2>1, <2>4 DEF Deciding, Decided, Asked
  <2>6. StageHolds(r)'
    BY <2>3, <2>5, Zenon DEF StageHolds
  <2>7. "counting" \in Awaits /\ "counting" # "idle"
    BY DEF Awaits
  <2> QED BY <1>1, <1>2, <2>1, <2>2, <2>6, <2>7, OneReads
<1>5. CASE ~ (market = "CN" /\ rules)
  <2>1. ~ Settling
    BY <1>5 DEF Settling, BooksGood, BooksTyped
  <2>2. mine[r].quantity <= mine[r].total => Covered(r)
    BY <1>3, <2>1 DEF Covered, Settling
  <2>3. mine[r].total \in Int
    BY <1>3, HoldingIs DEF BooksGood
  <2>4. Decide(r, mine[r].total)
    BY <1>5 DEF CheckRules
  <2> QED BY <1>1, <1>3, <2>2, <2>3, <2>4, DecideKeepsBooks
<1> QED BY <1>4, <1>5

LEMMA CountKeepsBooks ==
    ASSUME PaperAssumption, BooksGood, NEW r \in Requests, CountBuys(r)
    PROVE  BooksGood'
<1>1. at[r] = "counting" /\ UNCHANGED <<books, market, rules, ruledAllDay, day>>
      /\ Decide(r, SellableShares(r))
  BY DEF CountBuys, Still, history
<1>2. Deciding(r, "sell") /\ mine[r].total = Holding
  BY <1>1, Zenon DEF BooksGood, StageHolds
<1>3. PICK n \in Int : n = Holding
  BY HoldingIs DEF BooksGood
<1>4. PICK b \in Nat : b = Bought(day)
  BY HoldingIs DEF BooksGood
<1>5. PICK q \in Nat \ {0} : q = mine[r].quantity
  BY <1>2, WorthAt DEF Deciding
<1>6. SellableShares(r) = IF n - b < 0 THEN 0 ELSE n - b
  <2>1. SellableShares(r) = Max({0, n - b})
    BY <1>2, <1>3, <1>4 DEF SellableShares
  <2>2. n - b \in Int
    OBVIOUS
  <2> QED BY <2>1, <2>2, GreatestIs
<1>7. PICK s \in Int : s = SellableShares(r)
  <2>1. CASE n - b < 0
    BY <1>6, <2>1
  <2>2. CASE ~ n - b < 0
    BY <1>6, <2>2
  <2> QED BY <2>1, <2>2
<1>8. q <= s => q <= n /\ q <= n - b
  BY <1>6, <1>7
<1>9. q <= s => Covered(r)
  BY <1>3, <1>4, <1>5, <1>8 DEF Covered, Settling
<1> QED BY <1>1, <1>2, <1>5, <1>7, <1>9, DecideKeepsBooks

LEMMA CreditKeepsBooks ==
    ASSUME PaperAssumption, BooksGood, NEW r \in Requests, Credit(r)
    PROVE  BooksGood'
<1>1. /\ at[r] = "credit" /\ mine' = mine /\ at' = [at EXCEPT ![r] = "sold"]
      /\ UNCHANGED <<positions, orders, trades, made, market, rules, ruledAllDay, day>>
  BY DEF Credit, Still, history, Go
<1>2. \A q \in Requests \ {r} : at[q] = "idle"
  BY <1>1, Alone
<1>3. Kept(0, 0, 0) /\ Decided(r) /\ mine[r].side = "sell" /\ mine[r].position = First
      /\ Covered(r)
  BY <1>1, Zenon DEF BooksGood, StageHolds, Deciding
<1>4. mine' = [mine EXCEPT ![r] = mine[r]] /\ DOMAIN mine[r] = DOMAIN Unsent
  BY <1>1 DEF BooksGood, BooksTyped
<1>5. at'[r] = "sold"
  BY <1>1, <1>4, Stands DEF BooksGood
<1>6. Proceeds(r) \in Int /\ Money(r) = Proceeds(r)
  BY <1>3, WorthAt DEF Money
<1>7. CashFlow \in Int /\ InitialCash \in Nat
  BY CashFlowIs DEF BooksGood, PaperAssumption
<1>8. accounts = <<InitialCash + CashFlow>>
  BY <1>3, <1>7 DEF Kept
<1>9. accounts' = <<InitialCash + CashFlow + Money(r)>>
  BY <1>6, <1>7, <1>8 DEF Credit
<1>10. /\ CashFlow' = CashFlow /\ Holding' = Holding /\ Bought(day)' = Bought(day)
       /\ Money(r)' = Money(r) /\ First' = First /\ Decided(r)'
  BY <1>1, <1>3, TradesStay DEF Money, Cost, Proceeds, Notional, First, Decided, Asked
<1>11. Kept(Money(r), 0, 0)' /\ Covered(r)'
  BY <1>1, <1>3, <1>9, <1>10 DEF Kept, Holds, Covered, Settling
<1>12. StageHolds(r)'
  BY <1>1, <1>3, <1>5, <1>10, <1>11, Zenon DEF StageHolds
<1>13. NeverShort'
  BY <1>1, <1>10 DEF NeverShort, Settling, BooksGood
<1>14. "sold" \in Awaits /\ "sold" # "idle"
  BY DEF Awaits
<1> QED BY <1>1, <1>2, <1>4, <1>12, <1>13, <1>14, OneMoves DEF BooksGood, BooksTyped

LEMMA GiveKeepsBooks ==
    ASSUME PaperAssumption, BooksGood, NEW r \in Requests, GiveShares(r)
    PROVE  BooksGood'
<1>1. /\ at[r] = "sold" /\ Go(r, "order")
      /\ UNCHANGED <<accounts, orders, trades, made, mine, market, rules, ruledAllDay, day>>
  BY DEF GiveShares, Still, history
<1>2. Kept(Money(r), 0, 0) /\ Decided(r) /\ mine[r].side = "sell" /\ mine[r].position = First
      /\ Covered(r)
  BY <1>1, Zenon DEF BooksGood, StageHolds
<1>3. PICK q \in Nat \ {0} : q = mine[r].quantity
  BY <1>2, WorthAt
<1>4. PICK n \in Nat : n = Holding /\ Holding' = n
  BY <1>1, HoldingIs, TradesStay DEF NeverShort, Settling, BooksGood
<1>5. Holds(n) /\ q <= n
  BY <1>2, <1>3, <1>4 DEF Kept, Covered, Settling
<1>6. Shares(r) = - q /\ Shares(r)' = - q /\ (Holding + Shares(r))' = n - q
  BY <1>1, <1>2, <1>3, <1>4 DEF Shares
<1>7. made' \in Nat /\ at[r] # "idle"
  BY <1>1 DEF BooksGood, BooksTyped
<1>8. /\ n # 0 /\ DOMAIN positions = {1} /\ Len(positions) = 1 /\ First = positions[1]
      /\ First \in PositionType /\ First.quantity = n /\ (market = "US" => First.available = n)
  BY <1>5, PositionHeld DEF BooksGood
<1>9. PICK f : f = First
  OBVIOUS
<1>10. CASE n = q
  <2>1. positions' = RemoveFirstMatch(positions, LAMBDA p : p.id = f.id)
    BY <1>2, <1>3, <1>8, <1>9, <1>10 DEF GiveShares
  <2>2. positions = <<f>>
    BY <1>8, <1>9 DEF BooksGood, BooksTyped
  <2> DEFINE I == {i \in 1 .. Len(positions) : positions[i].id = f.id}
  <2>3. I = {1}
    BY <1>8, <1>9
  <2>4. Min({1}) = 1
    BY DEF Min
  <2>5. positions' = RemoveAt(positions, 1)
    BY <1>8, <1>9, <2>1, <2>3, <2>4 DEF RemoveFirstMatch, SelectInSeq
  <2>6. SubSeq(positions, 1, 0) = <<>> /\ SubSeq(positions, 2, 1) = <<>>
    BY <1>8 DEF BooksGood, BooksTyped
  <2>7. positions' = <<>>
    BY <1>8, <2>5, <2>6 DEF RemoveAt
  <2>8. positions' \in Seq(PositionType)
    BY <2>7, EmptySeq
  <2>9. Holds(Holding + Shares(r))'
    BY <1>6, <1>10, <2>7 DEF Holds
  <2> QED BY <1>1, <1>2, <1>7, <2>8, <2>9, SharesMove
<1>11. CASE n # q
  <2>1. PICK v : v = LeftAvailable(r)
    OBVIOUS
  <2>2. positions' = Updated(f, n - q, v)
    BY <1>2, <1>3, <1>8, <1>9, <1>11, <2>1 DEF GiveShares
  <2>3. PICK p : p = [f EXCEPT !.quantity = n - q, !.available = v]
    OBVIOUS
  <2>4. f.available \in Int /\ f.id \in Nat \ {0}
    BY <1>8, <1>9 DEF PositionType
  <2>5. PICK k \in Int : k = f.available - q
    BY <2>4
  <2>6. v = IF k < 0 THEN 0 ELSE k
    <3>1. v = Max({0, k})
      BY <1>2, <1>3, <1>9, <2>1, <2>5 DEF LeftAvailable
    <3> QED BY <3>1, GreatestIs
  <2>7. v \in Int /\ (market = "US" => v = n - q)
    BY <1>5, <1>8, <1>9, <2>5, <2>6
  <2>8. p = [id |-> f.id, quantity |-> n - q, available |-> v]
    BY <1>8, <1>9, <2>3 DEF PositionType
  <2>9. p \in PositionType
    BY <2>4, <2>7, <2>8 DEF PositionType
  <2>10. positions' = [i \in 1 .. 1 |-> p]
    BY <1>8, <1>9, <2>2, <2>3 DEF Updated
  <2>11. positions' \in Seq(PositionType) /\ Len(positions') = 1 /\ positions'[1] = p
    BY <2>9, <2>10
  <2>12. p.quantity = n - q /\ p.available = v /\ n - q # 0
    BY <1>11, <2>8
  <2>13. Holds(Holding + Shares(r))'
    BY <1>1, <1>6, <2>7, <2>11, <2>12 DEF Holds
  <2> QED BY <1>1, <1>2, <1>7, <2>11, <2>13, SharesMove
<1> QED BY <1>10, <1>11

LEMMA InsertOrderKeepsBooks ==
    ASSUME BooksGood, NEW r \in Requests, InsertOrder(r)
    PROVE  BooksGood'
<1>1. /\ at[r] = "order" /\ mine' = mine /\ at' = [at EXCEPT ![r] = "trade"]
      /\ orders' = orders + 1
      /\ UNCHANGED <<accounts, positions, trades, made, market, rules, ruledAllDay, day>>
  BY DEF InsertOrder, Still, history, Go
<1>2. \A q \in Requests \ {r} : at[q] = "idle"
  BY <1>1, Alone
<1>3. /\ Kept(Money(r), Shares(r), 0) /\ Decided(r)
      /\ mine[r].side = "sell" => Covered(r)
  BY <1>1, Zenon DEF BooksGood, StageHolds
<1>4. mine' = [mine EXCEPT ![r] = mine[r]] /\ DOMAIN mine[r] = DOMAIN Unsent
  BY <1>1 DEF BooksGood, BooksTyped
<1>5. at'[r] = "trade"
  BY <1>1, <1>4, Stands DEF BooksGood
<1>6. /\ CashFlow' = CashFlow /\ Holding' = Holding /\ Bought(day)' = Bought(day)
      /\ Money(r)' = Money(r) /\ Shares(r)' = Shares(r) /\ Decided(r)'
  BY <1>1, <1>3, TradesStay DEF Money, Shares, Cost, Proceeds, Notional, Decided, Asked
<1>7. Kept(Money(r), Shares(r), 1)'
  <2>1. Len(trades) \in Nat
    BY LenProperties DEF BooksGood, BooksTyped
  <2>2. orders' = Len(trades') + 1
    BY <1>1, <1>3, <2>1 DEF Kept
  <2> QED BY <1>1, <1>3, <1>6, <2>2 DEF Kept, Holds
<1>8. (mine[r].side = "sell" => Covered(r))'
  BY <1>1, <1>3, <1>6 DEF Covered, Settling
<1>9. StageHolds(r)'
  BY <1>5, <1>6, <1>7, <1>8, Zenon DEF StageHolds
<1>10. NeverShort' /\ orders' \in Nat
  BY <1>1, <1>6 DEF NeverShort, Settling, BooksGood, BooksTyped
<1>11. "trade" \in Awaits /\ "trade" # "idle"
  BY DEF Awaits
<1> QED BY <1>1, <1>2, <1>4, <1>9, <1>10, <1>11, OneMoves DEF BooksGood, BooksTyped

LEMMA InsertTradeKeepsBooks ==
    ASSUME PaperAssumption, BooksGood, NEW r \in Requests, InsertTrade(r)
    PROVE  BooksGood'
<1>1. /\ at[r] = "trade"
      /\ at' = [at EXCEPT ![r] = "idle"] /\ mine' = [mine EXCEPT ![r] = Unsent]
      /\ UNCHANGED <<accounts, positions, orders, made, market, rules, ruledAllDay, day>>
  BY DEF InsertTrade, Still, history, Answer, Keep, Go
<1>2. \A q \in Requests \ {r} : at[q] = "idle"
  BY <1>1, Alone
<1>3. /\ Kept(Money(r), Shares(r), 1) /\ Decided(r) /\ mine[r].side \in {"buy", "sell"}
      /\ mine[r].side = "sell" => Covered(r)
  BY <1>1, Zenon DEF BooksGood, StageHolds, Decided, Asked
<1>4. PICK t : t = [side |-> mine[r].side, quantity |-> mine[r].quantity,
                    price |-> mine[r].price, day |-> day,
                    commission |-> mine[r].commission]
  OBVIOUS
<1>5. PICK q \in Nat \ {0} : q = mine[r].quantity
  BY <1>3, WorthAt
<1>6. PICK v \in Int : v = Money(r)
  BY <1>3, WorthAt
<1>7. /\ trades' = Append(trades, t) /\ day \in Nat /\ t.day = day /\ t.quantity = q
      /\ t.side = mine[r].side
  BY <1>4, <1>5 DEF InsertTrade, BooksGood, BooksTyped
<1>8. t \in TradeType
  <2>1. mine[r].price \in Nat /\ mine[r].commission \in Nat
    BY <1>3, WorthAt DEF Decided
  <2> QED BY <1>3, <1>4, <1>5, <1>7, <2>1 DEF TradeType
<1>9. Earned(t) = v
  <2>1. mine[r].commission \in Nat /\ Notional(r) \in Int
    BY <1>3, WorthAt DEF Decided
  <2>2. t.price * t.quantity = Notional(r)
    BY <1>4 DEF Notional
  <2>3. Earned(t) = (IF mine[r].side = "sell" THEN Notional(r) ELSE - Notional(r))
                      - mine[r].commission
    BY <1>4, <1>7, <2>2 DEF Earned
  <2>4. CASE mine[r].side = "sell"
    BY <1>6, <2>1, <2>3, <2>4 DEF Money, Proceeds
  <2>5. CASE mine[r].side = "buy"
    BY <1>6, <2>1, <2>3, <2>5 DEF Money, Cost
  <2> QED BY <1>3, <2>4, <2>5
<1>10. CashFlow' = CashFlow + v /\ CashFlow \in Int /\ InitialCash \in Nat
  BY <1>7, <1>8, <1>9, CashFlowAppended, CashFlowIs DEF BooksGood, PaperAssumption
<1>11. PICK n \in Nat : n = Holding
  BY HoldingIs DEF BooksGood, NeverShort
<1>12. PICK b \in Nat : b = Bought(day)
  BY HoldingIs DEF BooksGood
<1> DEFINE more(side) == IF t.side = side THEN q ELSE 0
<1>13. \A side : /\ Traded(side, 0 .. day)' = Traded(side, 0 .. day) + more(side)
                 /\ Traded(side, {day})' = Traded(side, {day}) + more(side)
                 /\ Traded(side, 0 .. day) \in Nat /\ Traded(side, {day}) \in Nat
  <2>1. SUFFICES ASSUME NEW side
                 PROVE  /\ Traded(side, 0 .. day)' = Traded(side, 0 .. day) + more(side)
                        /\ Traded(side, {day})' = Traded(side, {day}) + more(side)
                        /\ Traded(side, 0 .. day) \in Nat /\ Traded(side, {day}) \in Nat
    OBVIOUS
  <2>2. PICK d \in Nat : d = day /\ day' = d
    BY <1>1, <1>7
  <2>3. Traded(side, 0 .. d)' = Traded(side, 0 .. d) + more(side)
    <3>1. t.day \in 0 .. d
      BY <1>7, <2>2
    <3> QED BY <1>7, <1>8, <3>1, TradedAppended DEF BooksGood
  <2>4. Traded(side, {d})' = Traded(side, {d}) + more(side)
    <3>1. t.day \in {d}
      BY <1>7, <2>2
    <3> QED BY <1>7, <1>8, <3>1, TradedAppended DEF BooksGood
  <2>5. Traded(side, 0 .. d)' = Traded(side, 0 .. day)' /\ Traded(side, {d})' = Traded(side, {day})'
    BY <2>2 DEF Traded
  <2>6. Traded(side, 0 .. day) \in Nat /\ Traded(side, {day}) \in Nat
    BY TradedIs DEF BooksGood
  <2> QED BY <2>2, <2>3, <2>4, <2>5, <2>6
<1>14. ASSUME mine[r].side = "sell"
       PROVE  NeverShort' /\ Holding' + 0 = Holding + Shares(r)
  <2>1. more("buy") = 0 /\ more("sell") = q
    BY <1>7, <1>14
  <2>2. Holding' = n - q /\ Bought(day)' = b
    <3>1. /\ Traded("buy", 0 .. day)' = Traded("buy", 0 .. day) + 0
          /\ Traded("sell", 0 .. day)' = Traded("sell", 0 .. day) + q
          /\ Traded("buy", {day})' = Traded("buy", {day}) + 0
      BY <1>13, <2>1
    <3> QED BY <1>11, <1>12, <1>13, <3>1 DEF Holding, Bought
  <2>3. q <= n /\ (Settling => q <= n - b) /\ Shares(r) = - q
    BY <1>3, <1>5, <1>11, <1>12, <1>14 DEF Covered, Settling, Shares
  <2>4. NeverShort'
    BY <1>1, <2>2, <2>3 DEF NeverShort, Settling
  <2>5. Holding' + 0 = Holding + Shares(r)
    BY <1>11, <2>2, <2>3
  <2> QED BY <2>4, <2>5
<1>15. ASSUME mine[r].side = "buy"
       PROVE  NeverShort' /\ Holding' + 0 = Holding + Shares(r)
  <2>1. more("buy") = q /\ more("sell") = 0
    BY <1>7, <1>15
  <2>2. Holding' = n + q /\ Bought(day)' = b + q
    <3>1. /\ Traded("buy", 0 .. day)' = Traded("buy", 0 .. day) + q
          /\ Traded("sell", 0 .. day)' = Traded("sell", 0 .. day) + 0
          /\ Traded("buy", {day})' = Traded("buy", {day}) + q
      BY <1>13, <2>1
    <3> QED BY <1>11, <1>12, <1>13, <3>1 DEF Holding, Bought
  <2>3. Settling => b <= n
    BY <1>11, <1>12 DEF NeverShort, Settling, BooksGood
  <2>4. Shares(r) = q
    BY <1>5, <1>15 DEF Shares
  <2>5. NeverShort'
    BY <1>1, <2>2, <2>3 DEF NeverShort, Settling
  <2>6. Holding' + 0 = Holding + Shares(r)
    BY <1>11, <2>2, <2>4
  <2> QED BY <2>5, <2>6
<1>16. NeverShort' /\ Holding' + 0 = Holding + Shares(r)
  BY <1>3, <1>14, <1>15
<1>17. /\ trades' \in Seq(TradeType) /\ Len(trades') = Len(trades) + 1
       /\ \A i \in DOMAIN trades' : trades'[i].day <= day
  <2>1. trades \in Seq(TradeType) /\ \A i \in DOMAIN trades : trades[i].day <= day
    BY DEF BooksGood, BooksTyped
  <2>2. PICK k \in Nat : k = Len(trades)
    BY <2>1, LenProperties
  <2>3. /\ trades' \in Seq(TradeType) /\ Len(trades') = k + 1 /\ trades'[k + 1] = t
        /\ \A i \in 1 .. k : trades'[i] = trades[i]
    BY <1>7, <1>8, <2>1, <2>2, AppendProperties
  <2>4. DOMAIN trades' = 1 .. k + 1 /\ DOMAIN trades = 1 .. k
    BY <2>1, <2>2, <2>3, LenProperties
  <2>5. \A i \in DOMAIN trades' : i = k + 1 \/ i \in 1 .. k
    BY <2>4
  <2> QED BY <1>7, <2>1, <2>2, <2>3, <2>4, <2>5
<1>18. Kept(0, 0, 0)'
  <2>1. accounts' = <<InitialCash + CashFlow' + 0>>
    BY <1>1, <1>3, <1>6, <1>10 DEF Kept
  <2>2. orders' = Len(trades') + 0
    <3>1. Len(trades) \in Nat
      BY LenProperties DEF BooksGood, BooksTyped
    <3> QED BY <1>1, <1>3, <1>17, <3>1 DEF Kept
  <2> QED BY <1>1, <1>3, <1>16, <2>1, <2>2 DEF Kept, Holds
<1>19. at'[r] = "idle"
  BY <1>1, Stands DEF BooksGood
<1>20. StageHolds(r)'
  BY <1>19, Zenon DEF StageHolds
<1>21. "idle" \in Awaits
  BY DEF Awaits
<1> QED BY <1>1, <1>2, <1>16, <1>17, <1>18, <1>20, <1>21, OneMoves DEF BooksGood, BooksTyped

LEMMA ResetKeepsBooks ==
    ASSUME BooksGood, NEW r \in Requests, Reset(r)
    PROVE  BooksGood'
<1>1. at[r] # "idle" /\ mine' = mine /\ UNCHANGED <<made, market, rules, ruledAllDay, day>>
  BY DEF Reset, DeleteAccounts, DeletePositions, DeleteOrders, DeleteTrades, Still, history
<1>2. \A q \in Requests \ {r} : at[q] = "idle"
  BY <1>1, Alone
<1>3. mine' = [mine EXCEPT ![r] = mine[r]] /\ DOMAIN mine[r] = DOMAIN Unsent
  BY <1>1 DEF BooksGood, BooksTyped
<1>4. ASSUME NEW w \in Awaits, w # "idle", Go(r, w), UNCHANGED trades, StageHolds(r)',
             positions' \in Seq(PositionType), orders' \in Nat
      PROVE  BooksGood'
  <2>1. NeverShort'
    BY <1>1, <1>4, TradesStay DEF NeverShort, Settling, BooksGood
  <2>2. at' = [at EXCEPT ![r] = w]
    BY <1>4 DEF Go
  <2> QED BY <1>1, <1>2, <1>3, <1>4, <2>1, <2>2, OneMoves DEF BooksGood, BooksTyped
<1>5. \A w : Go(r, w) => at'[r] = w
  BY DEF Go, BooksGood, BooksTyped
<1>6. CASE DeleteAccounts(r)
  <2>1. /\ at[r] = "accounts" /\ accounts' = <<>> /\ Go(r, "positions")
        /\ UNCHANGED <<positions, orders, trades>>
    BY <1>6 DEF DeleteAccounts
  <2>2. mine'[r].side = "reset"
    BY <1>1, <2>1, Zenon DEF BooksGood, StageHolds
  <2>3. at'[r] = "positions"
    BY <1>5, <2>1
  <2>4. StageHolds(r)'
    BY <2>1, <2>2, <2>3, Zenon DEF StageHolds
  <2> QED BY <1>4, <2>1, <2>4 DEF Awaits, BooksGood, BooksTyped
<1>7. CASE DeletePositions(r)
  <2>1. /\ at[r] = "positions" /\ positions' = <<>> /\ Go(r, "orders")
        /\ UNCHANGED <<accounts, orders, trades>>
    BY <1>7 DEF DeletePositions
  <2>2. mine'[r].side = "reset" /\ accounts' = <<>>
    BY <1>1, <2>1, Zenon DEF BooksGood, StageHolds
  <2>3. at'[r] = "orders"
    BY <1>5, <2>1
  <2>4. StageHolds(r)'
    BY <2>1, <2>2, <2>3, Zenon DEF StageHolds
  <2>5. positions' \in Seq(PositionType) /\ orders' \in Nat
    BY <2>1, EmptySeq DEF BooksGood, BooksTyped
  <2> QED BY <1>4, <2>1, <2>4, <2>5 DEF Awaits
<1>8. CASE DeleteOrders(r)
  <2>1. /\ at[r] = "orders" /\ orders' = 0 /\ Go(r, "trades")
        /\ UNCHANGED <<accounts, positions, trades>>
    BY <1>8 DEF DeleteOrders
  <2>2. mine'[r].side = "reset" /\ accounts' = <<>> /\ positions' = <<>>
    BY <1>1, <2>1, Zenon DEF BooksGood, StageHolds
  <2>3. at'[r] = "trades"
    BY <1>5, <2>1
  <2>4. StageHolds(r)'
    BY <2>1, <2>2, <2>3, Zenon DEF StageHolds
  <2> QED BY <1>4, <2>1, <2>4 DEF Awaits, BooksGood, BooksTyped
<1>9. CASE DeleteTrades(r)
  <2>1. /\ at[r] = "trades" /\ trades' = <<>> /\ Go(r, "account")
        /\ UNCHANGED <<accounts, positions, orders>>
    BY <1>9 DEF DeleteTrades
  <2>2. mine'[r].side = "reset" /\ Blank'
    BY <1>1, <2>1, Zenon DEF BooksGood, StageHolds, Blank
  <2>3. at'[r] = "account" /\ at' = [at EXCEPT ![r] = "account"]
    BY <1>5, <2>1 DEF Go
  <2>4. StageHolds(r)'
    BY <2>2, <2>3, Zenon DEF StageHolds
  <2>5. (trades = <<>> => Holding = 0 /\ Bought(day) = 0)'
    BY NothingMoved, PTL
  <2>6. NeverShort'
    BY <2>1, <2>5 DEF NeverShort, Settling
  <2>7. trades' \in Seq(TradeType) /\ DOMAIN trades' = {}
    BY <2>1, EmptySeq
  <2> QED BY <1>1, <1>2, <1>3, <2>1, <2>3, <2>4, <2>6, <2>7, OneMoves DEF Awaits, BooksGood, BooksTyped
<1> QED BY <1>6, <1>7, <1>8, <1>9 DEF Reset

LEMMA NewDayKeepsBooks ==
    ASSUME BooksGood, NewDay
    PROVE  BooksGood'
<1>1. /\ day' = day + 1 /\ rules' = rules /\ ruledAllDay' = rules
      /\ UNCHANGED <<market, accounts, positions, orders, trades, made, at, mine>>
      /\ \A r \in Requests : at[r] = "idle"
  BY DEF NewDay, books, request
<1>2. /\ day \in Nat /\ \A i \in DOMAIN trades : trades[i].day \in Nat /\ trades[i].day <= day
  <2>1. \A i \in DOMAIN trades : trades[i] \in TradeType
    BY LenProperties, ElementOfSeq DEF BooksGood, BooksTyped
  <2> QED BY <2>1 DEF BooksGood, BooksTyped, TradeType
<1>3. \A i \in DOMAIN trades : trades[i].day \in 0 .. day /\ trades[i].day \in 0 .. day + 1
                               /\ trades[i].day \notin {day + 1}
  BY <1>2
<1>4. \A side : Traded(side, 0 .. day)' = Traded(side, 0 .. day)
  <2>1. SUFFICES ASSUME NEW side
                 PROVE  Traded(side, 0 .. day)' = Traded(side, 0 .. day)
    OBVIOUS
  <2>2. Traded(side, 0 .. day)' =
          SumOf([i \in DOMAIN trades |->
                   IF trades[i].side = side /\ trades[i].day \in 0 .. day + 1
                   THEN trades[i].quantity ELSE 0])
    BY <1>1 DEF Traded
  <2>3. [i \in DOMAIN trades |-> IF trades[i].side = side /\ trades[i].day \in 0 .. day + 1
                                 THEN trades[i].quantity ELSE 0]
        = [i \in DOMAIN trades |-> IF trades[i].side = side /\ trades[i].day \in 0 .. day
                                   THEN trades[i].quantity ELSE 0]
    BY <1>3
  <2> QED BY <2>2, <2>3 DEF Traded
<1>5. Bought(day)' = 0
  <2> DEFINE s == [i \in DOMAIN trades |->
                     IF trades[i].side = "buy" /\ trades[i].day \in {day + 1}
                     THEN trades[i].quantity ELSE 0]
  <2>1. Bought(day)' = SumOf(s)
    BY <1>1 DEF Bought, Traded
  <2>2. \A i \in DOMAIN trades : s[i] = 0
    BY <1>3
  <2>3. PICK n \in Nat : n = Len(trades) /\ DOMAIN trades = 1 .. n
    BY LenProperties DEF BooksGood, BooksTyped
  <2>4. s \in [1 .. n -> Int]
    BY <2>2, <2>3
  <2>5. s \in Seq(Int) /\ Len(s) = n
    BY <2>3, <2>4
  <2> HIDE DEF s
  <2>6. SumOf(s) = 0
    BY <2>2, <2>3, <2>5, SumOfZeroes
  <2> QED BY <2>1, <2>6
<1>6. Holding' = Holding /\ CashFlow' = CashFlow
  BY <1>1, <1>4 DEF Holding, CashFlow
<1>7. NeverShort'
  <2>1. Holding \in Int
    BY HoldingIs DEF BooksGood
  <2> QED BY <1>5, <1>6, <2>1 DEF NeverShort, Settling, BooksGood
<1>8. BooksTyped'
  <2>1. day' \in Nat /\ \A i \in DOMAIN trades' : trades'[i].day <= day'
    BY <1>1, <1>2
  <2> QED BY <1>1, <2>1 DEF BooksTyped, BooksGood
<1>9. (Blank \/ Kept(0, 0, 0))'
  <2>1. Blank \/ Kept(0, 0, 0)
    BY <1>1 DEF PaperAtRest, BooksGood
  <2> QED BY <1>1, <1>6, <2>1 DEF Blank, Kept, Holds
<1>10. \A r \in Requests : StageHolds(r)'
  <2>1. ASSUME NEW r \in Requests
        PROVE  StageHolds(r)'
    <3>1. at'[r] = "idle"
      BY <1>1
    <3> QED BY <3>1, Zenon DEF StageHolds
  <2> QED BY <2>1
<1> QED BY <1>1, <1>7, <1>8, <1>9, <1>10 DEF BooksGood

\* The trades to the end of a day are those before it and those of it.
LEMMA TradedSplits ==
    ASSUME BooksTyped, NEW side
    PROVE  Traded(side, 0 .. day) = Traded(side, 0 .. day - 1) + Traded(side, {day})
<1> DEFINE Of(days) == [i \in DOMAIN trades |->
                          IF trades[i].side = side /\ trades[i].day \in days
                          THEN trades[i].quantity ELSE 0]
<1>1. PICK n \in Nat : n = Len(trades)
  BY LenProperties DEF BooksTyped
<1>2. DOMAIN trades = 1 .. n /\ \A i \in 1 .. n : trades[i] \in TradeType
  BY <1>1, LenProperties, ElementOfSeq DEF BooksTyped
<1>3. \A i \in 1 .. n : trades[i].quantity \in Nat /\ trades[i].day \in Nat
  BY <1>2 DEF TradeType
<1>4. \A days : Of(days) \in Seq(Int) /\ Len(Of(days)) = n
  <2>1. \A days : Of(days) \in [1 .. n -> Int]
    BY <1>2, <1>3
  <2> QED BY <2>1
<1>5. \A i \in 1 .. n : Of(0 .. day)[i] = Of(0 .. day - 1)[i] + Of({day})[i]
  <2>1. SUFFICES ASSUME NEW i \in 1 .. n
                 PROVE  Of(0 .. day)[i] = Of(0 .. day - 1)[i] + Of({day})[i]
    OBVIOUS
  <2>2. day \in Nat /\ trades[i].day \in Nat
    BY <1>3 DEF BooksTyped
  <2>3. PICK d \in Nat : d = trades[i].day
    BY <2>2
  <2>4. d \in 0 .. day <=> d \in 0 .. day - 1 \/ d \in {day}
    BY <2>2
  <2>5. ~ (d \in 0 .. day - 1 /\ d \in {day})
    BY <2>2
  <2>6. PICK q \in Nat : q = trades[i].quantity
    BY <1>3
  <2>7. \A days : Of(days)[i] = IF trades[i].side = side /\ d \in days THEN q ELSE 0
    BY <1>2, <2>3, <2>6
  <2> DEFINE within(days) == IF trades[i].side = side /\ d \in days THEN q ELSE 0
  <2>8. /\ Of(0 .. day)[i] = within(0 .. day) /\ Of({day})[i] = within({day})
        /\ Of(0 .. day - 1)[i] = within(0 .. day - 1)
    BY <2>7
  <2>9. within(0 .. day) = within(0 .. day - 1) + within({day})
    <3>1. CASE trades[i].side = side
      <4>1. CASE d \in {day}
        BY <2>4, <2>5, <3>1, <4>1
      <4>2. CASE d \notin {day}
        BY <2>4, <3>1, <4>2
      <4> QED BY <4>1, <4>2
    <3>2. CASE trades[i].side # side
      BY <3>2
    <3> QED BY <3>1, <3>2
  <2> QED BY <2>8, <2>9
<1>6. \A days : Traded(side, days) = SumOf(Of(days))
  BY DEF Traded
<1> HIDE DEF Of
<1>7. PICK s, t, u : s = Of(0 .. day - 1) /\ t = Of({day}) /\ u = Of(0 .. day)
  OBVIOUS
<1>8. /\ s \in Seq(Int) /\ t \in Seq(Int) /\ u \in Seq(Int)
      /\ Len(s) = n /\ Len(t) = n /\ Len(u) = n
  BY <1>4, <1>7
<1>9. \A i \in 1 .. Len(s) : u[i] = s[i] + t[i]
  BY <1>5, <1>7, <1>8
<1>10. Len(t) = Len(s) /\ Len(u) = Len(s)
  BY <1>8
<1>11. SumOf(u) = SumOf(s) + SumOf(t)
  BY <1>8, <1>9, <1>10, SumsAdd, Zenon
<1> QED BY <1>6, <1>7, <1>11

\* The script writes the rules between two steps of the requests.
LEMMA RulesMove ==
    ASSUME BooksGood,
           UNCHANGED <<market, accounts, positions, orders, trades, made, day, at, mine>>,
           rules' \in BOOLEAN, ruledAllDay' \in BOOLEAN,
           ruledAllDay' => rules' /\ ruledAllDay
    PROVE  BooksGood'
<1>1. /\ First' = First /\ Blank' = Blank /\ Holding' = Holding /\ Bought(day)' = Bought(day)
      /\ \A money, shares, more : Kept(money, shares, more)' = Kept(money, shares, more)
  BY BooksStay, TradesStay
<1>2. Settling' => Settling
  BY DEF Settling
<1>3. BooksTyped' /\ NeverShort' /\ (PaperAtRest' => (Blank \/ Kept(0, 0, 0))')
  BY <1>1, <1>2 DEF BooksGood, BooksTyped, NeverShort, PaperAtRest
<1>4. ASSUME NEW r \in Requests
      PROVE  StageHolds(r)'
  <2>1. /\ Money(r)' = Money(r) /\ Shares(r)' = Shares(r) /\ Asked(r)' = Asked(r)
        /\ Decided(r)' = Decided(r) /\ (Covered(r) => Covered(r)')
    BY <1>1, <1>2 DEF Money, Shares, Cost, Proceeds, Notional, Asked, Decided, Covered
  <2>2. \A side : Deciding(r, side)' = Deciding(r, side)
    BY <1>1, <2>1 DEF Deciding
  <2>3. StageHolds(r)
    BY DEF BooksGood
  <2> QED BY <1>1, <2>1, <2>2, <2>3 DEF StageHolds
<1>5. \A q, r \in Requests : at'[q] # "idle" /\ at'[r] # "idle" => q = r
  BY DEF BooksGood
<1> QED BY <1>3, <1>4, <1>5 DEF BooksGood

LEMMA PaperStepKeepsBooks ==
    ASSUME PaperAssumption, BooksInv, [PaperNext]_paperVars
    PROVE  BooksInv'
<1>1. errors' \in Nat /\ (errors' = 0 => errors = 0)
  <2>1. errors \in Nat /\ (errors' = errors \/ errors' = errors + 1)
    BY DEF BooksInv, PaperNext, paperVars, history, NewDay, InsertRules, DeleteRules, SendOrder, FindAccount,
           CreateAccount, FindRules, FindPosition, Buy, Debit, TakeShares, Sell, ReadHolding,
           CheckRules, CountBuys, Credit, GiveShares, InsertOrder, InsertTrade, Reset,
           DeleteAccounts, DeletePositions, DeleteOrders, DeleteTrades, OrderFault, Still
  <2> QED BY <2>1
<1>2. ~ overlapped' => ~ overlapped
  BY DEF PaperNext, paperVars, history, NewDay, InsertRules, DeleteRules, SendOrder, FindAccount,
           CreateAccount, FindRules, FindPosition, Buy, Debit, TakeShares, Sell, ReadHolding,
           CheckRules, CountBuys, Credit, GiveShares, InsertOrder, InsertTrade, Reset,
           DeleteAccounts, DeletePositions, DeleteOrders, DeleteTrades, OrderFault, Still
<1>3. SUFFICES ASSUME ~ overlapped', errors' = 0
               PROVE  BooksGood'
  BY <1>1 DEF BooksInv
<1>4. BooksGood
  BY <1>1, <1>2, <1>3 DEF BooksInv
<1>5. CASE UNCHANGED paperVars \/ InsertRules \/ DeleteRules
  <2>1. UNCHANGED <<market, accounts, positions, orders, trades, made, day, at, mine>>
    BY <1>5 DEF paperVars, books, request, InsertRules, DeleteRules
  <2>2. /\ rules' \in BOOLEAN /\ ruledAllDay' \in BOOLEAN
        /\ ruledAllDay' => rules' /\ ruledAllDay
    <3>1. rules \in BOOLEAN /\ ruledAllDay \in BOOLEAN /\ (ruledAllDay => rules)
      BY <1>4 DEF BooksGood, BooksTyped
    <3>2. CASE UNCHANGED paperVars
      BY <3>1, <3>2 DEF paperVars, history
    <3>3. CASE InsertRules
      BY <3>1, <3>3 DEF history, InsertRules
    <3>4. CASE DeleteRules
      BY <3>1, <3>4 DEF DeleteRules
    <3> QED BY <1>5, <3>2, <3>3, <3>4
  <2> QED BY <1>4, <2>1, <2>2, RulesMove
<1>6. CASE NewDay
  BY <1>4, <1>6, NewDayKeepsBooks
<1>7. ASSUME NEW r \in Requests,
             \/ SendOrder(r) \/ FindAccount(r) \/ CreateAccount(r)
             \/ FindRules(r) \/ FindPosition(r)
             \/ Buy(r) \/ Sell(r) \/ InsertOrder(r) \/ InsertTrade(r)
             \/ Reset(r) \/ OrderFault(r)
      PROVE  BooksGood'
  <2>1. CASE SendOrder(r)
    BY <1>3, <1>4, <2>1, SendKeepsBooks
  <2>2. CASE FindAccount(r)
    BY <1>4, <2>2, FindAccountKeepsBooks
  <2>3. CASE CreateAccount(r)
    BY <1>4, <2>3, CreateAccountKeepsBooks
  <2>4. CASE FindRules(r) \/ FindPosition(r)
    BY <1>4, <2>4, FindRulesKeepsBooks, FindPositionKeepsBooks
  <2>5. CASE Buy(r)
    BY <1>4, <2>5, DebitKeepsBooks, TakeKeepsBooks DEF Buy
  <2>6. CASE Sell(r)
    BY <1>4, <2>6, ReadHoldingKeepsBooks, CheckRulesKeepsBooks, CountKeepsBooks,
       CreditKeepsBooks, GiveKeepsBooks DEF Sell
  <2>7. CASE InsertOrder(r)
    BY <1>4, <2>7, InsertOrderKeepsBooks
  <2>8. CASE InsertTrade(r)
    BY <1>4, <2>8, InsertTradeKeepsBooks
  <2>9. CASE Reset(r)
    BY <1>4, <2>9, ResetKeepsBooks
  <2>10. CASE OrderFault(r)
    <3>1. errors' = errors + 1 /\ errors \in Nat
      BY <2>10 DEF OrderFault, BooksInv
    <3> QED BY <1>3, <3>1
  <2> QED BY <1>7, <2>1, <2>2, <2>3, <2>4, <2>5, <2>6, <2>7, <2>8, <2>9, <2>10
<1> QED BY <1>5, <1>6, <1>7 DEF PaperNext

\* Orders and resets that come one after another and do not fail keep the books,
\* on any number of days: at rest the cash is the initial cash and what the
\* trades brought, each with what it was charged, the position what they left,
\* and on a day that has the T+1 rules from its beginning the sales are covered
\* by what was held then, whenever the rules came (place_order, reset_account).
THEOREM BooksAreKept == PaperSpec => []BooksKept
<1> USE PaperAssumption
<1>1. PaperInit => BooksInv
  <2> SUFFICES ASSUME PaperInit PROVE BooksInv
    OBVIOUS
  <2>1. trades = <<>> /\ positions = <<>> /\ Blank
    BY DEF PaperInit, Blank
  <2>2. Holding = 0 /\ Bought(day) = 0
    BY <2>1, NothingMoved
  <2>3. NeverShort
    BY <2>2 DEF NeverShort
  <2>4. BooksTyped
    <3>1. trades \in Seq(TradeType) /\ positions \in Seq(PositionType) /\ DOMAIN trades = {}
      BY <2>1, EmptySeq
    <3>2. "idle" \in Awaits
      BY DEF Awaits
    <3> QED BY <3>1, <3>2 DEF BooksTyped, PaperInit
  <2>5. \A r \in Requests : at[r] = "idle"
    BY DEF PaperInit
  <2>6. ASSUME NEW r \in Requests
        PROVE  StageHolds(r)
    <3>1. at[r] = "idle"
      BY <2>5
    <3> QED BY <3>1, Zenon DEF StageHolds
  <2>7. errors \in Nat
    BY DEF PaperInit
  <2> QED BY <2>1, <2>3, <2>4, <2>5, <2>6, <2>7 DEF BooksInv, BooksGood
<1>2. BooksInv /\ [PaperNext]_paperVars => BooksInv'
  BY PaperStepKeepsBooks
<1>3. BooksInv => BooksKept
  <2> SUFFICES ASSUME BooksInv, ~ overlapped, errors = 0
               PROVE  /\ PaperAtRest => BooksBalance
                      /\ Settling => Sold(day) <= Opening
    BY DEF Settling, BooksKept, BooksBalance, SalesCoveredByOpening
  <2>1. BooksGood /\ BooksTyped
    BY DEF BooksInv, BooksGood
  <2>2. CashFlow \in Int /\ Holding \in Int /\ InitialCash \in Nat
    BY <2>1, CashFlowIs, HoldingIs DEF PaperAssumption
  <2>3. ASSUME Blank
        PROVE  BooksBalance
    <3>1. Holding = 0 /\ Len(trades) = 0 /\ DOMAIN positions = {}
      BY <2>3, NothingMoved, EmptySeq DEF Blank
    <3> QED BY <2>3, <3>1 DEF BooksBalance, Blank
  <2>4. ASSUME Kept(0, 0, 0)
        PROVE  BooksBalance
    <3>1. Len(trades) \in Nat
      BY <2>1, LenProperties DEF BooksTyped
    <3>2. accounts = <<InitialCash + CashFlow>> /\ orders = Len(trades) /\ Holds(Holding)
      BY <2>2, <2>4, <3>1 DEF Kept
    <3>3. CASE Holding = 0
      <4>1. positions = <<>> /\ DOMAIN positions = {}
        BY <3>2, <3>3, EmptySeq DEF Holds
      <4> QED BY <3>2, <3>3, <4>1 DEF BooksBalance
    <3>4. CASE Holding # 0
      <4>1. /\ Len(positions) = 1 /\ DOMAIN positions = {1}
            /\ Head(positions) = positions[1] /\ positions[1].quantity = Holding
            /\ market = "US" => positions[1].available = Holding
        BY <2>1, <2>2, <3>2, <3>4, PositionHeld DEF First
      <4> QED BY <3>2, <3>4, <4>1 DEF BooksBalance
    <3> QED BY <3>3, <3>4
  <2>5. PaperAtRest => BooksBalance
    BY <2>1, <2>3, <2>4 DEF BooksGood
  <2>6. ASSUME Settling
        PROVE  Sold(day) <= Opening
    <3>1. Bought(day) <= Holding
      BY <2>1, <2>6 DEF NeverShort, BooksGood
    <3>2. /\ Traded("buy", 0 .. day) = Traded("buy", 0 .. day - 1) + Bought(day)
          /\ Traded("sell", 0 .. day) = Traded("sell", 0 .. day - 1) + Sold(day)
      BY <2>1, TradedSplits DEF Bought, Sold
    <3>3. /\ Bought(day) \in Nat /\ Sold(day) \in Nat
          /\ \A side, days : Traded(side, days) \in Nat
      BY <2>1, TradedIs DEF Bought, Sold
    <3>4. /\ Traded("buy", 0 .. day - 1) \in Nat /\ Traded("sell", 0 .. day - 1) \in Nat
      BY <3>3
    <3> QED BY <3>1, <3>2, <3>3, <3>4 DEF Opening, Holding
  <2> QED BY <2>5, <2>6
<1> QED BY <1>1, <1>2, <1>3, PTL DEF PaperSpec
-----------------------------------------------------------------------------
\* Quotes of foreign stocks.

Askers == [at : {"idle", "lock", "order", "fetch"}, stock : Stocks \cup {"none"},
           force : BOOLEAN, locks : BOOLEAN, queue : Seq(STRING), covered : BOOLEAN]

QuotesTyped ==
    /\ shared \in BOOLEAN /\ cached \in [Stocks -> {"none", "new", "old"}]
    /\ asker \in [QuoteRequests -> Askers]
    /\ \A r \in QuoteRequests : asker[r].at # "idle" => asker[r].stock \in Stocks
    /\ \A r \in QuoteRequests : asker[r].at = "fetch" => asker[r].queue # <<>>

\* Who is covered still waits for its lock, and would take what is cached when
\* it gets it; that is what makes WaitersShare inductive.
CoveredServed ==
    \A r \in QuoteRequests : asker[r].covered =>
        /\ asker[r].at = "lock"
        /\ GoodEnough(asker[r].force, cached[asker[r].stock])

QuotesInv == QuotesTyped /\ OneFetchPerLock /\ CoveredServed

LEMMA QuotesStart == QuotesInit => QuotesInv
BY DEF QuotesInit, QuotesInv, QuotesTyped, OneFetchPerLock, CoveredServed, Askers,
       NoRequest, Fetches

\* A request with another value of its own: what the others have is unchanged,
\* so that the lock and the coverage have to be looked at for this one only.
LEMMA AskerMoves ==
    ASSUME QuotesInv, UNCHANGED <<shared, cached>>,
           NEW r \in QuoteRequests, NEW new \in Askers,
           asker' = [asker EXCEPT ![r] = new],
           new.at # "idle" => new.stock \in Stocks,
           new.at = "fetch" => new.queue # <<>>,
           ~ new.covered,
           new.at \in {"order", "fetch"} /\ new.locks =>
              \/ Fetches(r) /\ new.stock = asker[r].stock /\ new.force = asker[r].force
                 /\ asker[r].locks
              \/ /\ asker[r].locks /\ LockIsFree(r)
                 /\ new.stock = asker[r].stock /\ new.force = asker[r].force
    PROVE  QuotesInv'
<1>1. QuotesTyped'
  BY DEF QuotesInv, QuotesTyped
<1>2. CoveredServed'
  BY DEF QuotesInv, QuotesTyped, CoveredServed, GoodEnough
<1>3. OneFetchPerLock'
  <2> SUFFICES ASSUME shared, NEW p \in QuoteRequests, NEW q \in QuoteRequests,
                      p # q, asker'[p].locks, asker'[q].locks,
                      asker'[p].at \in {"order", "fetch"}, asker'[q].at \in {"order", "fetch"},
                      asker'[p].stock = asker'[q].stock
               PROVE  asker'[p].force # asker'[q].force
    BY DEF OneFetchPerLock, Fetches
  <2>1. CASE p # r /\ q # r
    BY <2>1 DEF QuotesInv, QuotesTyped, OneFetchPerLock, Fetches
  <2>2. CASE p = r
    BY <2>2 DEF QuotesInv, QuotesTyped, OneFetchPerLock, Fetches, LockIsFree, SameLock
  <2>3. CASE q = r
    BY <2>3 DEF QuotesInv, QuotesTyped, OneFetchPerLock, Fetches, LockIsFree, SameLock
  <2> QED BY <2>1, <2>2, <2>3
<1> QED BY <1>1, <1>2, <1>3 DEF QuotesInv

LEMMA Nobody == NoRequest \in Askers /\ NoRequest.at = "idle" /\ ~ NoRequest.covered
BY DEF NoRequest, Askers

\* A record with what AskQuote puts into it.
Filling(a, stage, s, force, locks) ==
    [a EXCEPT !.at = stage, !.stock = s, !.force = force, !.locks = locks]

LEMMA Filled ==
    ASSUME NEW a \in Askers, NEW stage \in {"lock", "order"}, NEW s \in Stocks,
           NEW force \in BOOLEAN, NEW locks \in BOOLEAN
    PROVE  /\ Filling(a, stage, s, force, locks) \in Askers
           /\ Filling(a, stage, s, force, locks).at = stage
           /\ Filling(a, stage, s, force, locks).stock = s
           /\ Filling(a, stage, s, force, locks).locks = locks
           /\ Filling(a, stage, s, force, locks).covered = a.covered
BY DEF Askers, Filling

LEMMA QuoteRequestStep ==
    ASSUME QuotesInv, QuotesAssumption, NEW r \in QuoteRequests,
           \/ \E s \in Stocks, force, locks \in BOOLEAN : AskQuote(r, s, force, locks)
           \/ QuoteStep(r)
    PROVE  QuotesInv'
<1>a. asker[r] \in Askers
  BY DEF QuotesInv, QuotesTyped
<1>1. ASSUME NEW s \in Stocks, NEW force \in BOOLEAN, NEW locks \in BOOLEAN,
             AskQuote(r, s, force, locks)
      PROVE  QuotesInv'
  <2>1. CASE UNCHANGED asker
    BY <1>1, <2>1 DEF AskQuote, QuotesInv, QuotesTyped, OneFetchPerLock, CoveredServed, Fetches
  <2>2. CASE ~ UNCHANGED asker
    <3> DEFINE stage == IF locks THEN "lock" ELSE "order"
               new == Filling(NoRequest, stage, s, force, locks)
    <3>1. stage \in {"lock", "order"} /\ (stage = "order" => ~ locks)
      OBVIOUS
    <3>2. asker' = [asker EXCEPT ![r] = new] /\ UNCHANGED <<shared, cached>>
      BY <1>1, <2>2 DEF AskQuote, Filling
    <3> HIDE DEF stage
    <3>3. /\ new \in Askers /\ new.stock \in Stocks /\ new.at \in {"lock", "order"}
          /\ ~ new.covered /\ (new.at = "order" => ~ new.locks)
      BY <3>1, Nobody, Filled
    <3> HIDE DEF new
    <3> QED BY <3>3, <3>2, AskerMoves
  <2> QED BY <2>1, <2>2
<1>2. CASE TakeLock(r)
  <2>1. CASE GoodEnough(asker[r].force, cached[asker[r].stock])
    BY <1>2, <2>1, Nobody, AskerMoves DEF TakeLock, RequestEnds
  <2>2. CASE ~ GoodEnough(asker[r].force, cached[asker[r].stock])
    <3> DEFINE new == [asker[r] EXCEPT !.at = "order"]
    <3>1. /\ new \in Askers /\ new.at = "order" /\ new.covered = asker[r].covered
          /\ new.stock = asker[r].stock /\ new.force = asker[r].force
          /\ new.locks = asker[r].locks
      BY <1>a DEF Askers
    <3>2. /\ asker' = [asker EXCEPT ![r] = new] /\ UNCHANGED <<shared, cached>>
          /\ asker[r].at = "lock" /\ LockIsFree(r)
      BY <1>2, <2>2 DEF TakeLock, QuotesInv, QuotesTyped
    <3>3. ~ asker[r].covered /\ asker[r].stock \in Stocks
      BY <2>2, <3>2 DEF QuotesInv, QuotesTyped, CoveredServed
    <3> HIDE DEF new
    <3> QED BY <3>1, <3>2, <3>3, AskerMoves
  <2> QED BY <2>1, <2>2
<1>3. CASE GetOrder(r)
  <2>1. PICK o \in ProviderOrders :
             asker' = [asker EXCEPT ![r].at = "fetch", ![r].queue = o]
    BY <1>3 DEF GetOrder
  <2> DEFINE new == [asker[r] EXCEPT !.at = "fetch", !.queue = o]
  <2>2. o \in Seq(STRING) /\ o # <<>>
    BY DEF QuotesAssumption
  <2>3. /\ new \in Askers /\ new.at = "fetch" /\ new.covered = asker[r].covered
        /\ new.stock = asker[r].stock /\ new.force = asker[r].force
        /\ new.locks = asker[r].locks /\ new.queue = o
    BY <1>a, <2>2 DEF Askers
  <2>4. /\ asker' = [asker EXCEPT ![r] = new] /\ UNCHANGED <<shared, cached>>
        /\ asker[r].at = "order"
    BY <1>3, <2>1 DEF GetOrder, QuotesInv, QuotesTyped
  <2>5. ~ asker[r].covered /\ asker[r].stock \in Stocks /\ Fetches(r)
    BY <2>4 DEF QuotesInv, QuotesTyped, CoveredServed, Fetches
  <2> HIDE DEF new
  <2> QED BY <2>2, <2>3, <2>4, <2>5, AskerMoves
<1>4. CASE FetchSucceeds(r)
  <2>1. CASE ~ asker[r].locks
    BY <1>4, <2>1, Nobody, AskerMoves DEF FetchSucceeds, RequestEnds
  <2>2. CASE asker[r].locks
    <3>1. /\ asker[r].at = "fetch" /\ UNCHANGED shared
          /\ cached' = [cached EXCEPT ![asker[r].stock] = "new"]
          /\ asker' = Covers([asker EXCEPT ![r] = NoRequest], asker[r].stock)
      BY <1>4, <2>2 DEF FetchSucceeds
    <3>2. asker[r].stock \in Stocks
      BY <3>1 DEF QuotesInv, QuotesTyped
    <3>3. /\ asker[r].locks /\ asker \in [QuoteRequests -> Askers] /\ asker[r].at # "lock"
      BY <2>2, <3>1 DEF QuotesInv, QuotesTyped
    <3> DEFINE freed == [asker EXCEPT ![r] = NoRequest]
    <3>4. freed \in [QuoteRequests -> Askers] /\ freed[r] = NoRequest
          /\ \A q \in QuoteRequests \ {r} : freed[q] = asker[q]
      BY <3>3, Nobody
    <3>5. asker' = [q \in QuoteRequests |->
                       IF freed[q].stock = asker[r].stock /\ freed[q].at = "lock"
                       THEN [freed[q] EXCEPT !.covered = TRUE] ELSE freed[q]]
      BY <3>1 DEF Covers
    <3> HIDE DEF freed
    <3>6. \A a \in Askers :
             /\ [a EXCEPT !.covered = TRUE] \in Askers
             /\ [a EXCEPT !.covered = TRUE].at = a.at
             /\ [a EXCEPT !.covered = TRUE].stock = a.stock
             /\ [a EXCEPT !.covered = TRUE].force = a.force
             /\ [a EXCEPT !.covered = TRUE].locks = a.locks
             /\ [a EXCEPT !.covered = TRUE].queue = a.queue
      BY DEF Askers
    <3>7. asker'[r] = NoRequest
      BY <3>4, <3>5, Nobody
    <3>8. \A q \in QuoteRequests \ {r} :
             /\ asker'[q] \in Askers
             /\ asker'[q].at = asker[q].at /\ asker'[q].stock = asker[q].stock
             /\ asker'[q].force = asker[q].force /\ asker'[q].locks = asker[q].locks
             /\ asker'[q].queue = asker[q].queue
             /\ asker'[q].covered =>
                   asker[q].covered \/ (asker[q].at = "lock" /\ asker[q].stock = asker[r].stock)
      BY <3>3, <3>4, <3>5, <3>6
    <3>9. asker' \in [QuoteRequests -> Askers]
      BY <3>7, <3>8, <3>5, Nobody
    <3>10. QuotesTyped'
      BY <3>1, <3>2, <3>7, <3>8, <3>9, Nobody DEF QuotesInv, QuotesTyped
    <3>11. asker'[r].at = "idle" /\ ~ asker'[r].covered /\ shared' = shared
      BY <3>1, <3>7, Nobody
    <3>12. OneFetchPerLock'
      <4>1. OneFetchPerLock
        BY DEF QuotesInv
      <4> QED BY <3>8, <3>11, <4>1 DEF OneFetchPerLock, Fetches
    <3>13. CoveredServed'
      <4> SUFFICES ASSUME NEW q \in QuoteRequests, asker'[q].covered
                   PROVE  /\ asker'[q].at = "lock"
                          /\ GoodEnough(asker'[q].force, cached'[asker'[q].stock])
        BY DEF CoveredServed
      <4>1. q \in QuoteRequests \ {r}
        BY <3>11
      <4>2. CASE asker[q].at = "lock" /\ asker[q].stock = asker[r].stock
        BY <3>1, <3>2, <3>8, <4>1, <4>2 DEF QuotesInv, QuotesTyped, GoodEnough
      <4>3. CASE asker[q].covered /\ asker[q].stock # asker[r].stock
        <5>1. /\ asker[q].at = "lock" /\ GoodEnough(asker[q].force, cached[asker[q].stock])
              /\ asker[q].stock \in Stocks
          BY <4>3 DEF QuotesInv, QuotesTyped, CoveredServed
        <5>2. cached'[asker[q].stock] = cached[asker[q].stock]
          BY <3>1, <3>2, <4>3, <5>1 DEF QuotesInv, QuotesTyped
        <5>3. asker'[q].at = "lock" /\ asker'[q].force = asker[q].force
              /\ asker'[q].stock = asker[q].stock
          BY <3>8, <4>1, <5>1
        <5> QED BY <5>1, <5>2, <5>3
      <4>4. asker[q].covered => asker[q].at = "lock"
        BY DEF QuotesInv, CoveredServed
      <4> QED BY <3>8, <4>1, <4>2, <4>3, <4>4
    <3> QED BY <3>10, <3>12, <3>13 DEF QuotesInv
  <2> QED BY <2>1, <2>2
<1>5. CASE FetchFails(r)
  <2>1. CASE Len(asker[r].queue) = 1
    BY <1>5, <2>1, Nobody, AskerMoves DEF FetchFails, RequestEnds
  <2>2. CASE Len(asker[r].queue) # 1
    <3> DEFINE new == [asker[r] EXCEPT !.queue = Tail(asker[r].queue)]
    <3>1. asker[r].at = "fetch" /\ asker[r].queue \in Seq(STRING) /\ asker[r].queue # <<>>
      BY <1>5, <1>a DEF FetchFails, QuotesInv, QuotesTyped, Askers
    <3>2. Tail(asker[r].queue) \in Seq(STRING) /\ Tail(asker[r].queue) # <<>>
      <4>1. Len(asker[r].queue) \in Nat \ {0}
        BY <3>1, EmptySeq
      <4>2. /\ Tail(asker[r].queue) \in Seq(STRING)
            /\ Len(Tail(asker[r].queue)) = Len(asker[r].queue) - 1
        BY <3>1, HeadTailProperties
      <4>3. Len(Tail(asker[r].queue)) # 0
        BY <2>2, <4>1, <4>2
      <4> QED BY <4>2, <4>3, EmptySeq
    <3>3. /\ new \in Askers /\ new.at = asker[r].at /\ new.covered = asker[r].covered
          /\ new.stock = asker[r].stock /\ new.force = asker[r].force
          /\ new.locks = asker[r].locks /\ new.queue # <<>>
      BY <1>a, <3>2 DEF Askers
    <3>4. asker' = [asker EXCEPT ![r] = new] /\ UNCHANGED <<shared, cached>>
      BY <1>5, <2>2 DEF FetchFails, QuotesInv, QuotesTyped
    <3>5. ~ asker[r].covered /\ asker[r].stock \in Stocks /\ Fetches(r)
      BY <3>1 DEF QuotesInv, QuotesTyped, CoveredServed, Fetches
    <3> HIDE DEF new
    <3> QED BY <3>1, <3>3, <3>4, <3>5, AskerMoves
  <2> QED BY <2>1, <2>2
<1> QED BY <1>1, <1>2, <1>3, <1>4, <1>5 DEF QuoteStep

\* When a cached quote grows older, who is not served by it is covered no more.
LEMMA OlderStep ==
    ASSUME QuotesInv, NEW s \in Stocks, Older(s)
    PROVE  QuotesInv'
<1>1. /\ UNCHANGED shared
      /\ cached' = [cached EXCEPT ![s] = IF @ = "new" THEN "old" ELSE "none"]
  BY DEF Older
<1>2. \A r \in QuoteRequests :
         /\ asker'[r] \in Askers
         /\ asker'[r].at = asker[r].at /\ asker'[r].stock = asker[r].stock
         /\ asker'[r].force = asker[r].force /\ asker'[r].locks = asker[r].locks
         /\ asker'[r].queue = asker[r].queue
         /\ asker'[r].covered => /\ asker[r].covered
                                 /\ asker[r].stock = s =>
                                      GoodEnough(asker[r].force, cached'[s])
  <2> SUFFICES ASSUME NEW r \in QuoteRequests
               PROVE  /\ asker'[r] \in Askers
                      /\ asker'[r].at = asker[r].at /\ asker'[r].stock = asker[r].stock
                      /\ asker'[r].force = asker[r].force
                      /\ asker'[r].locks = asker[r].locks
                      /\ asker'[r].queue = asker[r].queue
                      /\ asker'[r].covered => /\ asker[r].covered
                                              /\ asker[r].stock = s =>
                                                   GoodEnough(asker[r].force, cached'[s])
    OBVIOUS
  <2> DEFINE still == asker[r].covered
                        /\ (asker[r].stock = s => GoodEnough(asker[r].force, cached'[s]))
  <2>1. asker'[r] = [asker[r] EXCEPT !.covered = still]
    BY DEF Older
  <2>2. still \in BOOLEAN /\ asker[r] \in Askers
    BY DEF QuotesInv, QuotesTyped
  <2>3. still => asker[r].covered /\ (asker[r].stock = s => GoodEnough(asker[r].force, cached'[s]))
    OBVIOUS
  <2> HIDE DEF still
  <2>4. /\ asker'[r] \in Askers /\ asker'[r].covered = still
        /\ asker'[r].at = asker[r].at /\ asker'[r].stock = asker[r].stock
        /\ asker'[r].force = asker[r].force /\ asker'[r].locks = asker[r].locks
        /\ asker'[r].queue = asker[r].queue
    BY <2>1, <2>2 DEF Askers
  <2> QED BY <2>3, <2>4
<1>3. asker' = [r \in QuoteRequests |-> asker'[r]]
  BY DEF Older
<1>4. QuotesTyped'
  BY <1>1, <1>2, <1>3 DEF QuotesInv, QuotesTyped
<1>5. OneFetchPerLock'
  BY <1>1, <1>2 DEF QuotesInv, OneFetchPerLock, Fetches
<1>6. CoveredServed'
  BY <1>1, <1>2 DEF QuotesInv, QuotesTyped, CoveredServed, GoodEnough
<1> QED BY <1>4, <1>5, <1>6 DEF QuotesInv

LEMMA QuotesStep ==
    ASSUME QuotesInv, QuotesAssumption, [QuotesNext]_quoteVars
    PROVE  QuotesInv'
<1>1. CASE UNCHANGED quoteVars
  BY <1>1 DEF quoteVars, QuotesInv, QuotesTyped, OneFetchPerLock, CoveredServed, Fetches
<1> QED BY <1>1, QuoteRequestStep, OlderStep DEF QuotesNext

\* Requests that share a service and the force flag never ask providers for one
\* stock at the same time, and nobody asks for a quote that another saved while
\* it waited and that is still good enough (the lock and the second look at the
\* cache of _get_hk_quote and _get_us_quote).
THEOREM RequestsShareFetches == QuotesSpec => []FetchesShared
<1> USE QuotesAssumption
<1>1. QuotesInit => QuotesInv
  BY QuotesStart
<1>2. QuotesInv /\ [QuotesNext]_quoteVars => QuotesInv'
  BY QuotesStep
<1>3. QuotesInv => FetchesShared
  BY DEF QuotesInv, CoveredServed, FetchesShared, WaitersShare
<1> QED BY <1>1, <1>2, <1>3, PTL DEF QuotesSpec

-----------------------------------------------------------------------------
\* The data sources.

SwapStages == {"save", "set", "swapped", "restore"}

\* The sources of list that have the stock are still to be tried.
Awaited(list, queue) == \A s \in ToSet(list) : Gives(s) = "data" => s \in ToSet(queue)

\* What a calm request has found out by its stage: current_source is not among
\* the comparisons made, then it is the source called, then it is known not to
\* have the stock; of an order, what has the stock is still in the queue.
FoundOut(k) ==
    /\ k.at = "choose" => \A i \in 1 .. 4 : i < k.pos => Chain[i] # currentSource
    /\ k.at = "own" => k.of = currentSource
    /\ k.at \in {"fall", "try"} => Gives(currentSource) # "data"
    /\ k.at = "try" /\ k.op = "data" => \E o \in Orders : Awaited(o, k.queue)
    /\ k.at = "try" /\ k.op = "frame" => Awaited(Available, k.queue)
    /\ k.at = "failed" /\ k.op = "data" =>
          \E o \in Orders : \A s \in ToSet(o) \cup {currentSource} : Gives(s) # "data"
    /\ k.at = "failed" /\ k.op = "frame" =>
          \/ Gives(currentSource) = "error"
          \/ \A s \in ToSet(Available) : Gives(s) # "data"

SoundAsk(k) ==
    /\ DOMAIN k = DOMAIN NoAsk
    /\ k.pos \in Nat /\ k.queue \in Seq(Sources) /\ k.calm \in BOOLEAN
    /\ k.at \in {"choose", "own", "fall", "try"} => k.op \in {"data", "frame"}
    /\ k.at \in SwapStages => k.op \in Swaps
    /\ k.at \in SwapStages \ {"save"} => k.saved \in Sources
    /\ k.at \in {"served", "failed"} \cup SwapStages \cup {"idle", "choose", "own", "fall", "try"}
    /\ k.calm => FoundOut(k)

\* Unless swaps have clashed there is one at a time, what it has saved is the
\* source chosen, and it alone explains another current_source.
OneSwap ==
    ~ clashed =>
        /\ \A t, u \in Threads : ask[t].at \in SwapStages /\ ask[u].at \in SwapStages => t = u
        /\ \A t \in Threads : ask[t].at \in SwapStages \ {"save"} => ask[t].saved = chosen
        /\ (\A t \in Threads : ask[t].at \notin {"swapped", "restore"}) => currentSource = chosen

SourcesInv ==
    /\ currentSource \in Sources /\ chosen \in Sources /\ clashed \in BOOLEAN
    /\ DOMAIN ask = Threads
    /\ \A t \in Threads : SoundAsk(ask[t])
    /\ OneSwap

LEMMA AskFields ==
    DOMAIN NoAsk = {"op", "at", "of", "pos", "queue", "again", "saved", "tried", "calm"}
BY DEF NoAsk

LEMMA ChainIs ==
    /\ Len(Chain) = 4 /\ Sources = {"mongodb", "tushare", "akshare", "baostock"}
    /\ \A i \in 1 .. 4 : Chain[i] \in Sources
    /\ \A s \in Sources : \E i \in 1 .. 4 : Chain[i] = s
<1>1. /\ Len(Chain) = 4 /\ DOMAIN Chain = 1 .. 4
      /\ Chain[1] = "mongodb" /\ Chain[2] = "tushare"
      /\ Chain[3] = "akshare" /\ Chain[4] = "baostock"
  BY DEF Chain
<1>2. Sources = {Chain[i] : i \in 1 .. 4}
  BY <1>1 DEF Sources, ToSet
<1> QED BY <1>1, <1>2

LEMMA NothingAsked == SoundAsk(NoAsk) /\ NoAsk.at = "idle"
<1>1. /\ NoAsk.at = "idle" /\ NoAsk.pos = 0 /\ NoAsk.queue = <<>> /\ NoAsk.calm = TRUE
  BY DEF NoAsk
<1>2. <<>> \in Seq(Sources)
  BY EmptySeq
<1>3. FoundOut(NoAsk)
  BY <1>1 DEF FoundOut
<1>4. NoAsk.at \notin {"choose", "own", "fall", "try"} /\ NoAsk.at \notin SwapStages
  BY <1>1 DEF SwapStages
<1>5. NoAsk.pos \in Nat /\ NoAsk.queue \in Seq(Sources) /\ NoAsk.calm \in BOOLEAN
  <2>1. 0 \in Nat /\ TRUE \in BOOLEAN
    OBVIOUS
  <2> QED BY <1>1, <1>2, <2>1, Zenon
<1> QED BY <1>1, <1>3, <1>4, <1>5, Zenon DEF SoundAsk

\* What a candidate that is passed over leaves to try.
LEMMA OneLess ==
    ASSUME NEW S, NEW q \in Seq(S), q # <<>>
    PROVE  Tail(q) \in Seq(S) /\ ToSet(q) \subseteq {Head(q)} \cup ToSet(Tail(q))
<1>1. Tail(q) \in Seq(S) /\ Len(Tail(q)) = Len(q) - 1 /\ Head(q) = q[1] /\ Len(q) \in Nat
      /\ \A i \in 1 .. Len(q) - 1 : Tail(q)[i] = q[i + 1]
  BY HeadTailProperties, LenProperties
<1>2. ASSUME NEW i \in DOMAIN q, i # 1
      PROVE  q[i] \in ToSet(Tail(q))
  <2>1. DOMAIN q = 1 .. Len(q) /\ DOMAIN Tail(q) = 1 .. Len(Tail(q))
    BY <1>1, LenProperties
  <2>2. i - 1 \in 1 .. Len(q) - 1 /\ i - 1 + 1 = i
    BY <1>1, <1>2, <2>1
  <2>3. Tail(q)[i - 1] = q[i] /\ i - 1 \in DOMAIN Tail(q)
    BY <1>1, <2>1, <2>2
  <2> QED BY <2>3 DEF ToSet
<1> QED BY <1>1, <1>2 DEF ToSet

\* A request with another value of its own, when nothing is switched.
LEMMA AskMoves ==
    ASSUME SourcesInv, UNCHANGED <<has, currentSource, chosen, clashed>>,
           NEW t \in Threads, NEW new, ask' = [ask EXCEPT ![t] = new],
           SoundAsk(new),
           new.at \in SwapStages => ask[t].at \in SwapStages,
           ~ clashed /\ new.at \in SwapStages \ {"save"} => new.saved = chosen,
           ask[t].at \in {"swapped", "restore"} => new.at \in {"swapped", "restore"}
    PROVE  SourcesInv'
<1>1. /\ DOMAIN ask' = Threads /\ ask'[t] = new
      /\ \A u \in Threads \ {t} : ask'[u] = ask[u]
  BY DEF SourcesInv
<1>2. ASSUME NEW k, SoundAsk(k)
      PROVE  SoundAsk(k)'
  BY <1>2 DEF SoundAsk, FoundOut, Awaited, Gives
<1>3. ASSUME NEW u \in Threads
      PROVE  SoundAsk(ask[u])'
  <2>1. PICK k : k = ask'[u]
    OBVIOUS
  <2>2. SoundAsk(k)
    BY <1>1, <2>1 DEF SourcesInv
  <2>3. SoundAsk(k)'
    BY <1>2, <2>2
  <2> QED BY <2>1, <2>3 DEF SoundAsk, FoundOut
<1>4. OneSwap'
  BY <1>1 DEF SourcesInv, OneSwap, SwapStages
<1> QED BY <1>1, <1>3, <1>4 DEF SourcesInv

LEMMA OwnStep ==
    ASSUME SourcesInv, SourcesAssumption, NEW t \in Threads,
           Choose(t) \/ Own(t) \/ Fall(t) \/ Try(t)
    PROVE  SourcesInv'
<1>0. PICK k : k = ask[t]
  OBVIOUS
<1>1. /\ SoundAsk(k) /\ currentSource \in Sources
      /\ DOMAIN k = {"op", "at", "of", "pos", "queue", "again", "saved", "tried", "calm"}
  BY <1>0, AskFields DEF SourcesInv, SoundAsk
<1>2. CASE Choose(t)
  <2>1. k.at = "choose" /\ k.pos \in Nat /\ k.op \in {"data", "frame"} /\ k.queue \in Seq(Sources)
        /\ k.calm \in BOOLEAN
    BY <1>0, <1>1, <1>2 DEF Choose, SoundAsk
  <2>2. k.calm => \A i \in 1 .. 4 : i < k.pos => Chain[i] # currentSource
    BY <1>1, <2>1 DEF SoundAsk, FoundOut
  <2>3. CASE k.pos > Len(Chain)
    <3> DEFINE new == [k EXCEPT !.at = "fall"]
    <3>1. ask' = [ask EXCEPT ![t] = new]
      BY <1>0, <1>2, <2>3 DEF Choose
    <3>2. /\ DOMAIN new = DOMAIN k /\ new.at = "fall" /\ new.op = k.op /\ new.pos = k.pos
          /\ new.queue = k.queue /\ new.calm = k.calm
      BY <1>1
    <3>3. ~ k.calm
      BY <1>1, <2>1, <2>2, <2>3, ChainIs
    <3> HIDE DEF new
    <3>4. SoundAsk(new)
      BY <1>1, <2>1, <3>2, <3>3 DEF SoundAsk, SwapStages
    <3> QED BY <1>0, <1>2, <2>1, <3>1, <3>2, <3>4, AskMoves DEF Choose, SwapStages
  <2>4. CASE k.pos <= Len(Chain) /\ currentSource = Chain[k.pos]
    <3> DEFINE new == [k EXCEPT !.at = "own", !.of = Chain[k.pos]]
    <3>a. ~ (ask[t].pos > Len(Chain)) /\ currentSource = Chain[ask[t].pos]
      BY <1>0, <2>1, <2>4, ChainIs
    <3>1. ask' = [ask EXCEPT ![t] = new]
      BY <1>0, <1>2, <3>a, Zenon DEF Choose
    <3>2. /\ DOMAIN new = DOMAIN k /\ new.at = "own" /\ new.op = k.op /\ new.pos = k.pos
          /\ new.queue = k.queue /\ new.calm = k.calm /\ new.of = currentSource
      BY <1>1, <2>4
    <3> HIDE DEF new
    <3>3. FoundOut(new)
      BY <3>2 DEF FoundOut
    <3>4. SoundAsk(new)
      BY <1>1, <2>1, <3>2, <3>3 DEF SoundAsk, SwapStages
    <3> QED BY <1>0, <1>2, <2>1, <3>1, <3>2, <3>4, AskMoves DEF Choose, SwapStages
  <2>5. CASE k.pos <= Len(Chain) /\ currentSource # Chain[k.pos]
    <3> DEFINE new == [k EXCEPT !.pos = k.pos + 1]
    <3>1. ask' = [ask EXCEPT ![t] = new]
      BY <1>0, <1>2, <2>1, <2>5, ChainIs DEF Choose
    <3>2. /\ DOMAIN new = DOMAIN k /\ new.at = "choose" /\ new.op = k.op /\ new.pos = k.pos + 1
          /\ new.queue = k.queue /\ new.calm = k.calm
      BY <1>1, <2>1
    <3> HIDE DEF new
    <3>3. k.calm => \A i \in 1 .. 4 : i < new.pos => Chain[i] # currentSource
      <4>1. ASSUME k.calm, NEW i \in 1 .. 4, i < k.pos + 1
            PROVE  Chain[i] # currentSource
        <5>1. i < k.pos \/ i = k.pos
          BY <2>1, <4>1
        <5> QED BY <2>2, <2>5, <4>1, <5>1
      <4> QED BY <3>2, <4>1
    <3>5. new.calm => FoundOut(new)
      BY <3>2, <3>3 DEF FoundOut
    <3>4. SoundAsk(new)
      <4>1. new.pos \in Nat
        BY <2>1, <3>2
      <4> QED BY <1>1, <2>1, <3>2, <3>5, <4>1 DEF SoundAsk, SwapStages
    <3> QED BY <1>0, <1>2, <2>1, <3>1, <3>2, <3>4, AskMoves DEF Choose, SwapStages
  <2> QED BY <2>1, <2>3, <2>4, <2>5, ChainIs
<1>3. CASE Own(t)
  <2>1. k.at = "own" /\ k.pos \in Nat /\ k.op \in {"data", "frame"} /\ k.queue \in Seq(Sources)
        /\ k.calm \in BOOLEAN
    BY <1>0, <1>1, <1>3 DEF Own, SoundAsk
  <2>2. k.calm => k.of = currentSource
    BY <1>1, <2>1 DEF SoundAsk, FoundOut
  <2> DEFINE next == CASE Gives(k.of) = "data" -> "served"
                       [] Gives(k.of) = "error" /\ k.op = "frame" -> "failed"
                       [] OTHER -> "fall"
             new == [k EXCEPT !.tried = Append(@, k.of),
                              !.again = k.op = "data" /\ k.of = "mongodb", !.at = next]
  <2>3. ask' = [ask EXCEPT ![t] = new]
    BY <1>0, <1>3, Zenon DEF Own
  <2>4. /\ DOMAIN new = DOMAIN k /\ new.at = next /\ new.op = k.op /\ new.pos = k.pos
        /\ new.queue = k.queue /\ new.calm = k.calm
    BY <1>1
  <2>5. /\ next \in {"served", "failed", "fall"}
        /\ next = "failed" => Gives(k.of) = "error" /\ k.op = "frame"
        /\ next = "fall" => Gives(k.of) # "data"
    OBVIOUS
  <2> HIDE DEF new, next
  <2>6. new.calm => FoundOut(new)
    BY <2>1, <2>2, <2>4, <2>5 DEF FoundOut
  <2>7. SoundAsk(new)
    BY <1>1, <2>1, <2>4, <2>5, <2>6 DEF SoundAsk, SwapStages
  <2> QED BY <1>0, <1>3, <2>1, <2>3, <2>4, <2>5, <2>7, AskMoves DEF Own, SwapStages
<1>4. CASE Fall(t)
  <2>1. k.at = "fall" /\ k.pos \in Nat /\ k.op \in {"data", "frame"} /\ k.calm \in BOOLEAN
    BY <1>0, <1>1, <1>4 DEF Fall, SoundAsk
  <2>2. PICK o \in IF k.op = "data" THEN Orders ELSE {Available} :
               ask' = [ask EXCEPT ![t].at = "try", ![t].queue = o]
    BY <1>0, <1>4 DEF Fall
  <2>3. o \in Seq(Sources)
    <3>1. ToSet(Available) \subseteq Sources
      BY ElementOfSeq, LenProperties DEF SourcesAssumption, ToSet
    <3>2. CASE k.op = "data"
      <4>1. o \in Seq(ToSet(Available) \ {"mongodb"}) /\ ToSet(Available) \ {"mongodb"} \subseteq Sources
        BY <2>2, <3>1, <3>2 DEF SourcesAssumption
      <4> QED BY <4>1, SeqMonotonic
    <3> QED BY <2>2, <3>2 DEF SourcesAssumption
  <2> DEFINE new == [k EXCEPT !.at = "try", !.queue = o]
  <2>4. ask' = [ask EXCEPT ![t] = new]
    BY <1>0, <2>2
  <2>5. /\ DOMAIN new = DOMAIN k /\ new.at = "try" /\ new.op = k.op /\ new.pos = k.pos
        /\ new.queue = o /\ new.calm = k.calm
    BY <1>1
  <2> HIDE DEF new
  <2>6. k.calm => Gives(currentSource) # "data"
    BY <1>1, <2>1 DEF SoundAsk, FoundOut
  <2>7. Awaited(o, o)
    BY DEF Awaited
  <2>8. new.calm => FoundOut(new)
    BY <2>1, <2>2, <2>5, <2>6, <2>7 DEF FoundOut
  <2>9. SoundAsk(new)
    BY <1>1, <2>1, <2>3, <2>5, <2>8 DEF SoundAsk, SwapStages
  <2> QED BY <1>0, <1>4, <2>1, <2>4, <2>5, <2>9, AskMoves DEF Fall, SwapStages
<1>5. CASE Try(t)
  <2>1. k.at = "try" /\ k.pos \in Nat /\ k.op \in {"data", "frame"} /\ k.calm \in BOOLEAN
        /\ k.queue \in Seq(Sources)
    BY <1>0, <1>1, <1>5 DEF Try, SoundAsk
  <2>2. k.calm => /\ Gives(currentSource) # "data"
                  /\ k.op = "data" => \E o \in Orders : Awaited(o, k.queue)
                  /\ k.op = "frame" => Awaited(Available, k.queue)
    BY <1>1, <2>1 DEF SoundAsk, FoundOut
  <2>3. CASE k.queue = <<>> /\ k.again
    <3> DEFINE new == [k EXCEPT !.again = FALSE, !.at = "fall"]
    <3>1. ask' = [ask EXCEPT ![t] = new]
      BY <1>0, <1>5, <2>3 DEF Try, Again
    <3>2. /\ DOMAIN new = DOMAIN k /\ new.at = "fall" /\ new.op = k.op /\ new.pos = k.pos
          /\ new.queue = k.queue /\ new.calm = k.calm
      BY <1>1
    <3> HIDE DEF new
    <3>3. new.calm => FoundOut(new)
      BY <2>2, <3>2 DEF FoundOut
    <3>4. SoundAsk(new)
      BY <1>1, <2>1, <3>2, <3>3 DEF SoundAsk, SwapStages
    <3> QED BY <1>0, <1>5, <2>1, <3>1, <3>2, <3>4, AskMoves DEF Try, SwapStages
  <2>4. CASE k.queue = <<>> /\ ~ k.again
    <3> DEFINE new == [k EXCEPT !.at = "failed", !.queue = <<>>]
    <3>1. ask' = [ask EXCEPT ![t] = new]
      BY <1>0, <1>5, <2>4 DEF Try, Answers
    <3>2. /\ DOMAIN new = DOMAIN k /\ new.at = "failed" /\ new.op = k.op /\ new.pos = k.pos
          /\ new.queue = k.queue /\ new.calm = k.calm
      BY <1>1, <2>4
    <3> HIDE DEF new
    <3>3. \A list : Awaited(list, k.queue) => \A s \in ToSet(list) : Gives(s) # "data"
      BY <2>4 DEF Awaited, ToSet
    <3>4. new.calm => FoundOut(new)
      BY <2>1, <2>2, <3>2, <3>3 DEF FoundOut
    <3>5. SoundAsk(new)
      BY <1>1, <2>1, <3>2, <3>4 DEF SoundAsk, SwapStages
    <3> QED BY <1>0, <1>5, <2>1, <3>1, <3>2, <3>5, AskMoves DEF Try, SwapStages
  <2>5. CASE k.queue # <<>>
    <3>1. /\ Tail(k.queue) \in Seq(Sources)
          /\ ToSet(k.queue) \subseteq {Head(k.queue)} \cup ToSet(Tail(k.queue))
      BY <2>1, <2>5, OneLess
    <3>2. ASSUME NEW list, Awaited(list, k.queue), Gives(Head(k.queue)) # "data"
          PROVE  Awaited(list, Tail(k.queue))
      BY <3>1, <3>2 DEF Awaited
    <3>3. CASE Head(k.queue) = currentSource
      <4> DEFINE new == [k EXCEPT !.queue = Tail(k.queue)]
      <4>1. ask' = [ask EXCEPT ![t] = new]
        BY <1>0, <1>5, <2>5, <3>3 DEF Try
      <4>2. /\ DOMAIN new = DOMAIN k /\ new.at = "try" /\ new.op = k.op /\ new.pos = k.pos
            /\ new.queue = Tail(k.queue) /\ new.calm = k.calm
        BY <1>1, <2>1
      <4> HIDE DEF new
      <4>3. new.calm => FoundOut(new)
        BY <2>1, <2>2, <3>2, <3>3, <4>2 DEF FoundOut
      <4>4. SoundAsk(new)
        BY <1>1, <2>1, <3>1, <4>2, <4>3 DEF SoundAsk, SwapStages
      <4> QED BY <1>0, <1>5, <2>1, <4>1, <4>2, <4>4, AskMoves DEF Try, SwapStages
    <3>4. CASE Head(k.queue) # currentSource /\ Gives(Head(k.queue)) = "data"
      <4> DEFINE new == [k EXCEPT !.tried = Append(@, Head(k.queue)), !.queue = <<>>, !.at = "served"]
      <4>1. ask' = [ask EXCEPT ![t] = new]
        BY <1>0, <1>5, <2>5, <3>4 DEF Try
      <4>2. /\ DOMAIN new = DOMAIN k /\ new.at = "served" /\ new.op = k.op /\ new.pos = k.pos
            /\ new.queue = <<>> /\ new.calm = k.calm
        BY <1>1, <2>1
      <4> HIDE DEF new
      <4>3. new.calm => FoundOut(new)
        BY <4>2 DEF FoundOut
      <4>4. <<>> \in Seq(Sources)
        BY EmptySeq
      <4>5. SoundAsk(new)
        BY <1>1, <2>1, <4>2, <4>3, <4>4 DEF SoundAsk, SwapStages
      <4> QED BY <1>0, <1>5, <2>1, <4>1, <4>2, <4>5, AskMoves DEF Try, SwapStages
    <3>5. CASE Head(k.queue) # currentSource /\ Gives(Head(k.queue)) # "data"
      <4> DEFINE new == [k EXCEPT !.tried = Append(@, Head(k.queue)), !.queue = Tail(k.queue), !.at = @]
      <4>1. ask' = [ask EXCEPT ![t] = new]
        BY <1>0, <1>5, <2>5, <3>5 DEF Try
      <4>2. /\ DOMAIN new = DOMAIN k /\ new.at = "try" /\ new.op = k.op /\ new.pos = k.pos
            /\ new.queue = Tail(k.queue) /\ new.calm = k.calm
        BY <1>1, <2>1
      <4> HIDE DEF new
      <4>3. new.calm => FoundOut(new)
        BY <2>1, <2>2, <3>2, <3>5, <4>2 DEF FoundOut
      <4>4. SoundAsk(new)
        BY <1>1, <2>1, <3>1, <4>2, <4>3 DEF SoundAsk, SwapStages
      <4> QED BY <1>0, <1>5, <2>1, <4>1, <4>2, <4>4, AskMoves DEF Try, SwapStages
    <3> QED BY <3>3, <3>4, <3>5
  <2> QED BY <2>3, <2>4, <2>5
<1> QED BY <1>2, <1>3, <1>4, <1>5

\* Who asked for nothing, or asks no more.
LEMMA AskStep ==
    ASSUME SourcesInv, NEW t \in Threads,
           (\E op \in Swaps \cup {"data", "frame"} : Ask(t, op)) \/ AskEnds(t)
    PROVE  SourcesInv'
<1>1. CASE AskEnds(t)
  <2>1. ask' = [ask EXCEPT ![t] = NoAsk] /\ ask[t].at \in {"served", "failed"}
        /\ UNCHANGED <<has, currentSource, chosen, clashed>>
    BY <1>1 DEF AskEnds
  <2> QED BY <2>1, NothingAsked, AskMoves DEF SwapStages
<1>2. ASSUME NEW op \in Swaps \cup {"data", "frame"}, Ask(t, op)
      PROVE  SourcesInv'
  <2> DEFINE new == [NoAsk EXCEPT !.op = op, !.at = IF op \in Swaps THEN "save" ELSE "choose",
                                  !.pos = 1]
  <2>1. /\ ask' = [ask EXCEPT ![t] = new] /\ ask[t].at = "idle"
        /\ clashed' = (clashed \/ (op \in Swaps /\ \E u \in Threads : Swapping(u)))
        /\ UNCHANGED <<has, currentSource, chosen>>
    BY <1>2 DEF Ask
  <2>2. /\ DOMAIN new = DOMAIN NoAsk /\ new.op = op /\ new.pos = 1 /\ new.queue = <<>>
        /\ new.calm = TRUE
        /\ op \in Swaps => new.at = "save"
        /\ op \notin Swaps => new.at = "choose"
    BY DEF NoAsk
  <2> HIDE DEF new
  <2>3. <<>> \in Seq(Sources)
    BY EmptySeq
  <2>4. new.calm => FoundOut(new)
    BY <2>2 DEF FoundOut
  <2>5. SoundAsk(new)
    <3>1. new.pos \in Nat /\ new.calm \in BOOLEAN
      <4>1. 1 \in Nat /\ TRUE \in BOOLEAN
        OBVIOUS
      <4> QED BY <2>2, <4>1, Zenon
    <3>2. new.at \in {"save", "choose"} /\ (new.at = "save" <=> op \in Swaps)
      BY <2>2
    <3>3. /\ new.at \in {"choose", "own", "fall", "try"} => new.op \in {"data", "frame"}
          /\ new.at \in SwapStages => new.op \in Swaps
          /\ new.at \notin SwapStages \ {"save"}
          /\ new.at \in {"served", "failed"} \cup SwapStages
                          \cup {"idle", "choose", "own", "fall", "try"}
      BY <2>2, <3>2 DEF SwapStages
    <3> QED BY <2>2, <2>3, <2>4, <3>1, <3>3, Zenon DEF SoundAsk
  <2>6. CASE op \notin Swaps
    <3>1. clashed' = clashed
      BY <2>1, <2>6 DEF SourcesInv
    <3> QED BY <2>1, <2>2, <2>5, <2>6, <3>1, AskMoves DEF SwapStages
  <2>7. CASE op \in Swaps
    <3>1. /\ DOMAIN ask' = Threads /\ ask'[t] = new
          /\ \A u \in Threads \ {t} : ask'[u] = ask[u]
      BY <2>1 DEF SourcesInv
    <3>2. ASSUME NEW k, SoundAsk(k)
          PROVE  SoundAsk(k)'
      BY <2>1, <3>2 DEF SoundAsk, FoundOut, Awaited, Gives
    <3>3. ASSUME NEW u \in Threads
          PROVE  SoundAsk(ask[u])'
      <4>1. PICK k : k = ask'[u]
        OBVIOUS
      <4>2. SoundAsk(k)
        BY <2>5, <3>1, <4>1 DEF SourcesInv
      <4>3. SoundAsk(k)'
        BY <3>2, <4>2
      <4> QED BY <4>1, <4>3 DEF SoundAsk, FoundOut
    <3>4. clashed' \in BOOLEAN
      BY <2>1
    <3>5. ASSUME ~ clashed'
          PROVE  ~ clashed /\ \A u \in Threads : ask[u].at \notin SwapStages
      <4>1. ~ clashed /\ \A u \in Threads : ~ Swapping(u)
        BY <2>1, <2>7, <3>5
      <4> QED BY <4>1 DEF SourcesInv, SoundAsk, Swapping, SwapStages
    <3>6. OneSwap'
      BY <2>1, <2>2, <2>7, <3>1, <3>5 DEF SourcesInv, OneSwap, SwapStages
    <3> QED BY <2>1, <3>1, <3>3, <3>4, <3>6 DEF SourcesInv
  <2> QED BY <2>6, <2>7
<1> QED BY <1>1, <1>2

\* What a request looks like after another one, or its own, has set the source.
LEMMA Disturbed ==
    ASSUME NEW k, NEW s, NEW l, SoundAsk(k), s \in Sources, has' = has, currentSource' = s,
           l = [k EXCEPT !.calm = @ /\ s = currentSource]
    PROVE  /\ SoundAsk(l)' /\ l.at = k.at /\ l.op = k.op /\ l.saved = k.saved
<1>1. /\ DOMAIN l = DOMAIN k /\ l.at = k.at /\ l.op = k.op /\ l.saved = k.saved /\ l.of = k.of
      /\ l.pos = k.pos /\ l.queue = k.queue
      /\ l.calm = (k.calm /\ s = currentSource)
  BY AskFields DEF SoundAsk
<1>2. l.calm \in BOOLEAN /\ (l.calm => k.calm /\ currentSource' = currentSource)
  BY <1>1
<1>3. l.calm => FoundOut(k)'
  BY <1>2 DEF SoundAsk, FoundOut, Awaited, Gives
<1>4. l.calm => FoundOut(l)'
  BY <1>1, <1>3 DEF FoundOut, Awaited
<1> QED BY <1>1, <1>2, <1>4 DEF SoundAsk

LEMMA SwapStep ==
    ASSUME SourcesInv, SourcesAssumption, NEW t \in Threads,
           SwapSave(t) \/ SwapSet(t) \/ SwapCall(t) \/ SwapRestore(t)
    PROVE  SourcesInv'
<1>0. PICK k : k = ask[t]
  OBVIOUS
<1>1. /\ SoundAsk(k) /\ currentSource \in Sources
      /\ DOMAIN k = {"op", "at", "of", "pos", "queue", "again", "saved", "tried", "calm"}
  BY <1>0, AskFields DEF SourcesInv, SoundAsk
<1>2. CASE SwapSave(t)
  <2>1. k.at = "save" /\ k.op \in Swaps
    BY <1>0, <1>1, <1>2 DEF SwapSave, SoundAsk, SwapStages
  <2> DEFINE new == [k EXCEPT !.at = "set", !.saved = currentSource]
  <2>2. ask' = [ask EXCEPT ![t] = new] /\ UNCHANGED <<has, currentSource, chosen, clashed>>
    BY <1>0, <1>2 DEF SwapSave
  <2>3. /\ DOMAIN new = DOMAIN k /\ new.at = "set" /\ new.op = k.op /\ new.pos = k.pos
        /\ new.queue = k.queue /\ new.calm = k.calm /\ new.saved = currentSource
    BY <1>1
  <2> HIDE DEF new
  <2>4. FoundOut(new)
    BY <2>3 DEF FoundOut
  <2>5. SoundAsk(new)
    BY <1>1, <2>1, <2>3, <2>4 DEF SoundAsk, SwapStages
  <2>6. ~ clashed => currentSource = chosen
    BY <1>0, <2>1 DEF SourcesInv, OneSwap, SwapStages
  <2> QED BY <1>0, <2>1, <2>2, <2>3, <2>5, <2>6, AskMoves DEF SwapStages
<1>3. CASE SwapCall(t)
  <2>1. k.at = "swapped" /\ k.op \in Swaps
    BY <1>0, <1>1, <1>3 DEF SwapCall, SoundAsk, SwapStages
  <2> DEFINE new == [k EXCEPT !.at = "restore"]
  <2>2. ask' = [ask EXCEPT ![t] = new] /\ UNCHANGED <<has, currentSource, chosen, clashed>>
    BY <1>0, <1>3 DEF SwapCall
  <2>3. /\ DOMAIN new = DOMAIN k /\ new.at = "restore" /\ new.op = k.op /\ new.pos = k.pos
        /\ new.queue = k.queue /\ new.calm = k.calm /\ new.saved = k.saved
    BY <1>1
  <2> HIDE DEF new
  <2>4. FoundOut(new)
    BY <2>3 DEF FoundOut
  <2>5. SoundAsk(new)
    BY <1>1, <2>1, <2>3, <2>4 DEF SoundAsk, SwapStages
  <2>6. ~ clashed => k.saved = chosen
    BY <1>0, <2>1 DEF SourcesInv, OneSwap, SwapStages
  <2> QED BY <1>0, <2>1, <2>2, <2>3, <2>5, <2>6, AskMoves DEF SwapStages
<1>4. CASE SwapSet(t)
  <2>1. k.at = "set" /\ k.op \in Swaps
    BY <1>0, <1>1, <1>4 DEF SwapSet, SoundAsk, SwapStages
  <2>2. PICK s : s = IF k.op = "tushare" THEN "tushare" ELSE "mongodb"
    OBVIOUS
  <2>3. s \in Sources
    BY <2>2, ChainIs
  <2> DEFINE new == [k EXCEPT !.at = "swapped", !.of = s]
  <2>4. PICK asking : asking = [ask EXCEPT ![t].at = "swapped", ![t].of = s]
    OBVIOUS
  <2>5. asking = [ask EXCEPT ![t] = new]
    BY <1>0, <2>4
  <2>6. /\ currentSource' = s /\ UNCHANGED <<has, chosen, clashed>>
        /\ ask' = [u \in Threads |-> [asking[u] EXCEPT !.calm = @ /\ s = currentSource]]
    BY <1>0, <1>4, <2>2, <2>4 DEF SwapSet, Sets
  <2>7. /\ DOMAIN new = DOMAIN k /\ new.at = "swapped" /\ new.op = k.op /\ new.pos = k.pos
        /\ new.queue = k.queue /\ new.calm = k.calm /\ new.saved = k.saved
    BY <1>1
  <2> HIDE DEF new
  <2>8. FoundOut(new)
    BY <2>7 DEF FoundOut
  <2>9. SoundAsk(new)
    BY <1>1, <2>1, <2>7, <2>8 DEF SoundAsk, SwapStages
  <2>10. asking[t] = new /\ \A u \in Threads \ {t} : asking[u] = ask[u]
    BY <2>5 DEF SourcesInv
  <2>11. ASSUME NEW u \in Threads
         PROVE  /\ SoundAsk(ask[u])' /\ ask'[u].at = asking[u].at
                /\ ask'[u].saved = asking[u].saved
    <3>1. PICK j : j = asking[u]
      OBVIOUS
    <3>2. PICK l : l = ask'[u]
      OBVIOUS
    <3>3. SoundAsk(j) /\ l = [j EXCEPT !.calm = @ /\ s = currentSource]
      BY <2>6, <2>9, <2>10, <3>1, <3>2 DEF SourcesInv
    <3>4. SoundAsk(l)' /\ l.at = j.at /\ l.saved = j.saved
      BY <2>3, <2>6, <3>3, Disturbed
    <3> QED BY <3>1, <3>2, <3>4 DEF SoundAsk, FoundOut
  <2>12. DOMAIN ask' = Threads
    BY <2>6
  <2>13. OneSwap'
    <3>1. ~ clashed => k.saved = chosen /\ \A u \in Threads \ {t} : ask[u].at \notin SwapStages
      BY <1>0, <2>1 DEF SourcesInv, OneSwap, SwapStages
    <3>2. ask'[t].at = "swapped" /\ ask'[t].saved = k.saved
      BY <2>7, <2>10, <2>11
    <3>3. \A u \in Threads \ {t} : ask'[u].at = ask[u].at
      BY <2>10, <2>11
    <3> QED BY <2>6, <3>1, <3>2, <3>3 DEF OneSwap, SwapStages
  <2> QED BY <2>3, <2>6, <2>11, <2>12, <2>13 DEF SourcesInv
<1>5. CASE SwapRestore(t)
  <2>1. k.at = "restore" /\ k.op \in Swaps
    BY <1>0, <1>1, <1>5 DEF SwapRestore, SoundAsk, SwapStages
  <2>2. PICK s : s = k.saved
    OBVIOUS
  <2>3. PICK answer \in {"served", "failed"} :
           answer = IF Gives(k.of) = "data" THEN "served" ELSE "failed"
    OBVIOUS
  <2> DEFINE new == [k EXCEPT !.at = answer, !.saved = "none"]
  <2>4. PICK asking : asking = [ask EXCEPT ![t].at = answer, ![t].saved = "none"]
    OBVIOUS
  <2>5. asking = [ask EXCEPT ![t] = new]
    BY <1>0, <2>4
  <2>6. /\ currentSource' = s /\ UNCHANGED <<has, chosen, clashed>>
        /\ ask' = [u \in Threads |-> [asking[u] EXCEPT !.calm = @ /\ s = currentSource]]
    BY <1>0, <1>5, <2>2, <2>3, <2>4 DEF SwapRestore, Sets
  <2>7. /\ DOMAIN new = DOMAIN k /\ new.at = answer /\ new.op = k.op /\ new.pos = k.pos
        /\ new.queue = k.queue /\ new.calm = k.calm
    BY <1>1
  <2> HIDE DEF new
  <2>8. FoundOut(new)
    BY <2>1, <2>3, <2>7 DEF FoundOut, Swaps
  <2>9. SoundAsk(new)
    BY <1>1, <2>1, <2>3, <2>7, <2>8 DEF SoundAsk, SwapStages
  <2>10. asking[t] = new /\ \A u \in Threads \ {t} : asking[u] = ask[u]
    BY <2>5 DEF SourcesInv
  <2>3a. s \in Sources
    BY <1>1, <2>1, <2>2 DEF SoundAsk, SwapStages
  <2>11. ASSUME NEW u \in Threads
         PROVE  /\ SoundAsk(ask[u])' /\ ask'[u].at = asking[u].at
                /\ ask'[u].saved = asking[u].saved
    <3>1. PICK j : j = asking[u]
      OBVIOUS
    <3>2. PICK l : l = ask'[u]
      OBVIOUS
    <3>3. SoundAsk(j) /\ l = [j EXCEPT !.calm = @ /\ s = currentSource]
      BY <2>6, <2>9, <2>10, <3>1, <3>2 DEF SourcesInv
    <3>4. SoundAsk(l)' /\ l.at = j.at /\ l.saved = j.saved
      BY <2>3a, <2>6, <3>3, Disturbed
    <3> QED BY <3>1, <3>2, <3>4 DEF SoundAsk, FoundOut
  <2>12. DOMAIN ask' = Threads
    BY <2>6
  <2>13. OneSwap'
    <3>1. ~ clashed => k.saved = chosen /\ \A u \in Threads \ {t} : ask[u].at \notin SwapStages
      BY <1>0, <2>1 DEF SourcesInv, OneSwap, SwapStages
    <3>2. ask'[t].at \in {"served", "failed"}
      BY <2>3, <2>7, <2>10, <2>11
    <3>3. \A u \in Threads \ {t} : ask'[u].at = ask[u].at
      BY <2>10, <2>11
    <3> QED BY <2>2, <2>6, <3>1, <3>2, <3>3 DEF OneSwap, SwapStages
  <2> QED BY <2>3a, <2>6, <2>11, <2>12, <2>13 DEF SourcesInv
<1> QED BY <1>2, <1>3, <1>4, <1>5

LEMMA SwitchStep ==
    ASSUME SourcesInv, NEW s \in Sources, Switch(s)
    PROVE  SourcesInv'
<1>1. /\ currentSource' = s /\ chosen' = s /\ UNCHANGED has
      /\ ask' = [u \in Threads |-> [ask[u] EXCEPT !.calm = @ /\ s = currentSource]]
      /\ clashed' = (clashed \/ \E t \in Threads : Swapping(t))
  BY DEF Switch, Sets
<1>2. ASSUME NEW u \in Threads
      PROVE  SoundAsk(ask[u])' /\ ask'[u].at = ask[u].at /\ ask'[u].saved = ask[u].saved
  <2>1. PICK j : j = ask[u]
    OBVIOUS
  <2>2. PICK l : l = ask'[u]
    OBVIOUS
  <2>3. SoundAsk(j) /\ l = [j EXCEPT !.calm = @ /\ s = currentSource]
    BY <1>1, <2>1, <2>2 DEF SourcesInv
  <2>4. SoundAsk(l)' /\ l.at = j.at /\ l.saved = j.saved
    BY <1>1, <2>3, Disturbed
  <2> QED BY <2>1, <2>2, <2>4 DEF SoundAsk, FoundOut
<1>3. ASSUME ~ clashed'
      PROVE  \A u \in Threads : ask[u].at \notin SwapStages
  BY <1>1, <1>3 DEF SourcesInv, SoundAsk, Swapping, SwapStages
<1>4. OneSwap'
  BY <1>1, <1>2, <1>3 DEF OneSwap, SwapStages
<1>5. DOMAIN ask' = Threads /\ clashed' \in BOOLEAN
  BY <1>1
<1> QED BY <1>1, <1>2, <1>4, <1>5 DEF SourcesInv

LEMMA SourcesStep ==
    ASSUME SourcesInv, SourcesAssumption, [SourcesNext]_sourceVars
    PROVE  SourcesInv'
<1>1. CASE UNCHANGED sourceVars
  BY <1>1 DEF sourceVars, SourcesInv, OneSwap, SoundAsk, FoundOut, Awaited, Gives
<1>2. CASE SourcesNext
  BY <1>2, OwnStep, AskStep, SwapStep, SwitchStep DEF SourcesNext
<1> QED BY <1>1, <1>2

LEMMA SourcesStart == SourcesAssumption /\ SourcesInit => SourcesInv
BY NothingAsked DEF SourcesAssumption, SourcesInit, SourcesInv, OneSwap, SwapStages

LEMMA SourcesHolds == SourcesSpec => []SourcesInv
<1> USE SourcesAssumption
<1>1. SourcesInit => SourcesInv
  BY SourcesStart
<1>2. SourcesInv /\ [SourcesNext]_sourceVars => SourcesInv'
  BY SourcesStep
<1> QED BY <1>1, <1>2, PTL DEF SourcesSpec

\* For any number of threads and whatever the calls raise: unless swaps
\* overlapped or a switch fell into one, current_source is the source chosen
\* last whenever no swap is under way (the finally of
\* get_china_stock_data_tushare).
THEOREM ChosenSourceKept == SourcesSpec => []SourceKept
<1>1. SourcesInv => SourceKept
  BY DEF SourcesInv, SoundAsk, OneSwap, SourceKept, Swapping, SwapStages
<1> QED BY <1>1, SourcesHolds, PTL

\* Whatever the orders and the sources' answers: a request during which nobody
\* changed current_source fails only if no source it could ask has the stock
\* (_try_fallback_sources, and the data frame's own loop).
THEOREM FallbackTriesAll == SourcesSpec => []FailsOnlyIfAllFail
<1>1. SourcesInv => FailsOnlyIfAllFail
  <2>1. SUFFICES ASSUME SourcesInv, NEW t \in Threads, ask[t].at = "failed", ask[t].calm
                 PROVE  CASE ask[t].op = "data" ->
                                \E o \in Orders : \A s \in ToSet(o) \cup {currentSource} : Gives(s) # "data"
                          [] ask[t].op = "frame" ->
                                \/ Gives(currentSource) = "error"
                                \/ \A s \in ToSet(Available) : Gives(s) # "data"
                          [] OTHER -> TRUE
    BY DEF FailsOnlyIfAllFail
  <2>2. FoundOut(ask[t])
    BY <2>1 DEF SourcesInv, SoundAsk
  <2> QED BY <2>1, <2>2 DEF FoundOut
<1> QED BY <1>1, SourcesHolds, PTL

-----------------------------------------------------------------------------
\* How often a source occurs in a list: Times by the places it has there.

Places(s, list) == {i \in DOMAIN list : list[i] = s}

LEMMA PlacesFinite ==
    ASSUME NEW S, NEW list \in Seq(S), NEW s
    PROVE  IsFiniteSet(Places(s, list)) /\ Times(s, list) = Cardinality(Places(s, list))
           /\ Times(s, list) \in Nat
<1>1. DOMAIN list = 1 .. Len(list) /\ Len(list) \in Nat
  BY LenProperties
<1>2. IsFiniteSet(1 .. Len(list))
  BY <1>1, FS_Interval
<1>3. Places(s, list) \in SUBSET (1 .. Len(list))
  BY <1>1 DEF Places
<1>4. IsFiniteSet(Places(s, list))
  BY <1>2, <1>3, FS_Subset
<1> QED BY <1>4, FS_CardinalityType DEF Times, Places

LEMMA TimesOfNone == \A s : Times(s, <<>>) = 0
<1> SUFFICES ASSUME NEW s PROVE Times(s, <<>>) = 0
  OBVIOUS
<1>1. Places(s, <<>>) = {}
  BY DEF Places
<1> QED BY <1>1, FS_EmptySet DEF Times, Places

LEMMA TimesOfOne == \A s, x : Times(s, <<x>>) = IF x = s THEN 1 ELSE 0
<1> SUFFICES ASSUME NEW s, NEW x PROVE Times(s, <<x>>) = IF x = s THEN 1 ELSE 0
  OBVIOUS
<1>1. DOMAIN <<x>> = {1} /\ <<x>>[1] = x
  OBVIOUS
<1>2. CASE x = s
  <2>1. Places(s, <<x>>) = {1}
    BY <1>1, <1>2 DEF Places
  <2> QED BY <1>2, <2>1, FS_Singleton DEF Times, Places
<1>3. CASE x # s
  <2>1. Places(s, <<x>>) = {}
    BY <1>1, <1>3 DEF Places
  <2> QED BY <1>3, <2>1, FS_EmptySet DEF Times, Places
<1> QED BY <1>2, <1>3

LEMMA TimesAppended ==
    ASSUME NEW S, NEW list \in Seq(S), NEW x \in S, NEW s
    PROVE  Times(s, Append(list, x)) = Times(s, list) + IF x = s THEN 1 ELSE 0
<1>1. PICK n \in Nat : n = Len(list)
  BY LenProperties
<1>2. PICK l : l = Append(list, x)
  OBVIOUS
<1>3. l \in Seq(S) /\ Len(l) = n + 1 /\ l[n + 1] = x /\ \A i \in 1 .. n : l[i] = list[i]
  BY <1>1, <1>2, AppendProperties
<1>4. DOMAIN l = 1 .. n + 1 /\ DOMAIN list = 1 .. n
  BY <1>1, <1>3, LenProperties
<1>5. IsFiniteSet(Places(s, list)) /\ Times(s, list) = Cardinality(Places(s, list))
      /\ Times(s, l) = Cardinality(Places(s, l)) /\ Times(s, list) \in Nat
  BY <1>3, PlacesFinite
<1>6. CASE x = s
  <2>1. Places(s, l) = Places(s, list) \cup {n + 1} /\ n + 1 \notin Places(s, list)
    BY <1>3, <1>4, <1>6 DEF Places
  <2>2. Cardinality(Places(s, list) \cup {n + 1}) = Cardinality(Places(s, list)) + 1
    BY <1>5, <2>1, FS_AddElement
  <2> QED BY <1>2, <1>5, <1>6, <2>1, <2>2
<1>7. CASE x # s
  <2>1. Places(s, l) = Places(s, list)
    BY <1>3, <1>4, <1>7 DEF Places
  <2> QED BY <1>2, <1>5, <1>7, <2>1
<1> QED BY <1>6, <1>7

LEMMA TimesInTail ==
    ASSUME NEW S, NEW list \in Seq(S), list # <<>>, NEW s
    PROVE  Times(s, list) = Times(s, Tail(list)) + IF Head(list) = s THEN 1 ELSE 0
<1>1. PICK n \in Nat : n = Len(list)
  BY LenProperties
<1>2. PICK l : l = Tail(list)
  OBVIOUS
<1>3. /\ l \in Seq(S) /\ Len(l) = n - 1 /\ Head(list) = list[1] /\ n # 0
      /\ \A i \in 1 .. n - 1 : l[i] = list[i + 1]
  BY <1>1, <1>2, HeadTailProperties, EmptySeq
<1>4. DOMAIN l = 1 .. n - 1 /\ DOMAIN list = 1 .. n
  BY <1>1, <1>3, LenProperties
<1>5. IsFiniteSet(Places(s, list)) /\ Times(s, list) = Cardinality(Places(s, list))
      /\ Times(s, list) \in Nat /\ Times(s, l) \in Nat
      /\ IsFiniteSet(Places(s, l)) /\ Times(s, l) = Cardinality(Places(s, l))
  BY <1>3, PlacesFinite
<1>6. Cardinality(Places(s, list) \ {1}) = Cardinality(Places(s, l))
  <2> DEFINE f == [i \in Places(s, l) |-> i + 1]
             T == Places(s, list) \ {1}
  <2>1. f \in [Places(s, l) -> T]
    BY <1>1, <1>3, <1>4 DEF Places
  <2>2. \A i, j \in Places(s, l) : f[i] = f[j] => i = j
    BY <1>4 DEF Places
  <2>3. ASSUME NEW j \in T
        PROVE  \E i \in Places(s, l) : f[i] = j
    <3>1. j - 1 \in Places(s, l) /\ j - 1 + 1 = j
      BY <1>1, <1>3, <1>4 DEF Places
    <3> QED BY <3>1
  <2> HIDE DEF f
  <2>4. f \in Bijection(Places(s, l), T)
    BY <2>1, <2>2, <2>3, Fun_IsBij
  <2>5. ExistsBijection(Places(s, l), T)
    BY <2>4 DEF ExistsBijection
  <2> QED BY <1>5, <2>5, FS_Bijection
<1>7. CASE Head(list) = s
  <2>1. 1 \in Places(s, list)
    BY <1>1, <1>3, <1>4, <1>7 DEF Places
  <2>2. Cardinality(Places(s, list) \ {1}) = Cardinality(Places(s, list)) - 1
    BY <1>5, <2>1, FS_RemoveElement
  <2> QED BY <1>2, <1>5, <1>6, <1>7, <2>2
<1>8. CASE Head(list) # s
  <2>1. Places(s, list) \ {1} = Places(s, list)
    BY <1>3, <1>8 DEF Places
  <2>2. Times(s, list) = Times(s, l)
    BY <1>5, <1>6, <2>1
  <2> QED BY <1>2, <1>5, <1>8, <2>2
<1> QED BY <1>7, <1>8

LEMMA NamedOnce ==
    ASSUME NEW S, NEW list \in Seq(S), IsInjective(list), NEW s
    PROVE  Times(s, list) <= 1
<1>1. IsFiniteSet(Places(s, list)) /\ Times(s, list) = Cardinality(Places(s, list))
  BY PlacesFinite
<1>2. CASE Places(s, list) = {}
  BY <1>1, <1>2, FS_EmptySet
<1>3. CASE Places(s, list) # {}
  <2>1. PICK i \in Places(s, list) : TRUE
    BY <1>3
  <2>2. Places(s, list) = {i}
    BY <2>1 DEF Places, IsInjective
  <2>3. Cardinality(Places(s, list)) = 1
    BY <2>2, FS_Singleton
  <2> QED BY <1>1, <2>3
<1> QED BY <1>2, <1>3

-----------------------------------------------------------------------------
\* No fallback asks a source over and over.

\* No order names the source twice.
Once(s) == ~ \E o \in Orders : Times(s, o) > 1

AskedMongo(k) == "mongodb" \in ToSet(k.tried)

\* Unless it is the current source, which is not called again, one call of a
\* source is all a calm request makes without MongoDB's own fallback.
Sparing(k, s, n) ==
    k.calm /\ ~ AskedMongo(k) => n <= 1 \/ (s = currentSource /\ Times(s, k.tried) <= 1)

\* The calls of a source, those made and those still in the queue.
CallsSound(k, s) ==
    /\ k.at = "fall" =>
         /\ Times(s, k.tried) <= 1
         /\ k.calm /\ ~ AskedMongo(k) => s = currentSource \/ Times(s, k.tried) = 0
    /\ k.at = "try" /\ k.again => Times(s, k.tried) + Times(s, k.queue) <= 1
    /\ k.at = "try" /\ ~ k.again =>
         /\ Times(s, k.tried) + Times(s, k.queue) <= 2
         /\ Sparing(k, s, Times(s, k.tried) + Times(s, k.queue))
    /\ k.at \in {"served", "failed"} =>
         /\ Times(s, k.tried) <= 2
         /\ k.calm /\ ~ AskedMongo(k) => Times(s, k.tried) <= 1

\* A fallback is to be followed by another when MongoDB was called first.
Listed(k) ==
    /\ k.tried \in Seq(Sources) /\ k.again \in BOOLEAN
    /\ k.at = "own" => k.of \in Sources
    /\ k.at \in {"idle", "choose", "own"} \cup SwapStages => k.tried = <<>> /\ ~ k.again
    /\ k.at = "fall" /\ k.again => k.tried = <<"mongodb">> /\ k.op = "data"
    /\ k.at = "try" /\ k.again => AskedMongo(k) /\ k.op = "data"

CallsInv ==
    \A t \in Threads : /\ Listed(ask[t])
                       /\ \A s \in Sources : Once(s) => CallsSound(ask[t], s)

LEMMA CallsMove ==
    ASSUME SourcesInv, CallsInv, UNCHANGED currentSource,
           NEW t \in Threads, NEW new, ask' = [ask EXCEPT ![t] = new],
           Listed(new), \A s \in Sources : Once(s) => CallsSound(new, s)
    PROVE  CallsInv'
<1>1. ask'[t] = new /\ \A u \in Threads \ {t} : ask'[u] = ask[u]
  BY DEF SourcesInv
<1>2. ASSUME NEW k, NEW s, CallsSound(k, s)
      PROVE  CallsSound(k, s)'
  BY <1>2 DEF CallsSound, Sparing, AskedMongo
<1>3. ASSUME NEW u \in Threads, NEW s \in Sources, Once(s)
      PROVE  CallsSound(ask[u], s)'
  <2>1. PICK k : k = ask'[u]
    OBVIOUS
  <2>2. CallsSound(k, s)
    BY <1>1, <1>3, <2>1 DEF CallsInv
  <2>3. CallsSound(k, s)'
    BY <1>2, <2>2
  <2> QED BY <2>1, <2>3 DEF CallsSound, Sparing, AskedMongo
<1>4. \A u \in Threads : Listed(ask[u])'
  BY <1>1 DEF CallsInv, Listed
<1> QED BY <1>3, <1>4 DEF CallsInv, Once

\* A request that has called nothing yet.
LEMMA NothingCalled ==
    ASSUME NEW k, k.tried = <<>>, k.again = FALSE, NEW s, k.at # "try"
    PROVE  /\ CallsSound(k, s)
           /\ (k.at = "own" => k.of \in Sources) => Listed(k)
<1>1. Times(s, k.tried) = 0 /\ <<>> \in Seq(Sources)
  BY TimesOfNone, EmptySeq
<1>2. CallsSound(k, s)
  <2>1. Times(s, k.tried) <= 1 /\ Times(s, k.tried) <= 2
    BY <1>1
  <2> QED BY <1>1, <2>1, Zenon DEF CallsSound
<1>3. (k.at = "own" => k.of \in Sources) => Listed(k)
  BY <1>1 DEF Listed
<1> QED BY <1>2, <1>3

LEMMA ChooseCalls ==
    ASSUME SourcesInv, CallsInv, NEW t \in Threads, Choose(t)
    PROVE  CallsInv'
<1>1. PICK k : k = ask[t]
  OBVIOUS
<1>2. /\ DOMAIN k = {"op", "at", "of", "pos", "queue", "again", "saved", "tried", "calm"}
      /\ k.at = "choose" /\ k.pos \in Nat /\ currentSource \in Sources /\ currentSource' = currentSource
  BY <1>1, AskFields DEF SourcesInv, SoundAsk, Choose
<1>3. PICK new : /\ ask' = [ask EXCEPT ![t] = new] /\ new.tried = k.tried /\ new.again = k.again
                 /\ new.at \in {"choose", "own", "fall"}
                 /\ new.at = "own" => new.of \in Sources
  <2>1. CASE k.pos > Len(Chain)
    <3> DEFINE new == [k EXCEPT !.at = "fall"]
    <3>1. ask' = [ask EXCEPT ![t] = new]
      BY <1>1, <2>1 DEF Choose
    <3>2. new.tried = k.tried /\ new.again = k.again /\ new.at = "fall"
      BY <1>2
    <3> QED BY <3>1, <3>2
  <2>2. CASE ~ k.pos > Len(Chain) /\ currentSource = Chain[k.pos]
    <3> DEFINE new == [k EXCEPT !.at = "own", !.of = Chain[k.pos]]
    <3>1. ask' = [ask EXCEPT ![t] = new]
      BY <1>1, <2>2 DEF Choose
    <3>2. /\ new.tried = k.tried /\ new.again = k.again /\ new.at = "own"
          /\ new.of = currentSource
      BY <1>2, <2>2
    <3> QED BY <1>2, <3>1, <3>2
  <2>3. CASE ~ k.pos > Len(Chain) /\ currentSource # Chain[k.pos]
    <3> DEFINE new == [k EXCEPT !.pos = @ + 1]
    <3>1. ask' = [ask EXCEPT ![t] = new]
      BY <1>1, <2>3 DEF Choose
    <3>2. new.tried = k.tried /\ new.again = k.again /\ new.at = "choose"
      BY <1>2
    <3> QED BY <3>1, <3>2
  <2> QED BY <2>1, <2>2, <2>3
<1>4. k.tried = <<>> /\ k.again = FALSE
  <2>1. Listed(k)
    BY <1>1 DEF CallsInv
  <2> QED BY <1>2, <2>1, Zenon DEF Listed
<1>5. Listed(new) /\ \A s \in Sources : CallsSound(new, s)
  BY <1>3, <1>4, NothingCalled
<1> QED BY <1>2, <1>3, <1>5, CallsMove

LEMMA OwnCalls ==
    ASSUME SourcesInv, CallsInv, NEW t \in Threads, Own(t)
    PROVE  CallsInv'
<1>1. PICK k : k = ask[t]
  OBVIOUS
<1>2. /\ DOMAIN k = {"op", "at", "of", "pos", "queue", "again", "saved", "tried", "calm"}
      /\ k.at = "own" /\ k.calm \in BOOLEAN /\ currentSource' = currentSource
      /\ k.calm => k.of = currentSource
  BY <1>1, AskFields DEF SourcesInv, SoundAsk, FoundOut, Own
<1>3. k.tried = <<>> /\ k.of \in Sources
  <2>1. Listed(k)
    BY <1>1 DEF CallsInv
  <2> QED BY <1>2, <2>1, Zenon DEF Listed
<1> DEFINE next == CASE Gives(k.of) = "data" -> "served"
                     [] Gives(k.of) = "error" /\ k.op = "frame" -> "failed"
                     [] OTHER -> "fall"
           new == [k EXCEPT !.tried = Append(@, k.of),
                            !.again = k.op = "data" /\ k.of = "mongodb", !.at = next]
<1>4. ask' = [ask EXCEPT ![t] = new]
  BY <1>1, Zenon DEF Own
<1>5. next \in {"served", "failed", "fall"}
  OBVIOUS
<1>6. /\ new.at = next /\ new.op = k.op /\ new.calm = k.calm
      /\ new.tried = <<k.of>> /\ new.again = (k.op = "data" /\ k.of = "mongodb")
  BY <1>2, <1>3
<1> HIDE DEF new, next
<1>7. new.tried \in Seq(Sources) /\ \A s : Times(s, new.tried) = IF k.of = s THEN 1 ELSE 0
  <2>1. <<k.of>> \in Seq(Sources)
    BY <1>3
  <2> QED BY <1>6, <2>1, TimesOfOne
<1>8. Listed(new)
  <2>1. new.at \notin {"idle", "choose", "own", "try"} \cup SwapStages
    BY <1>5, <1>6 DEF SwapStages
  <2>2. new.again \in BOOLEAN /\ (new.again => k.op = "data" /\ k.of = "mongodb")
    BY <1>6
  <2> QED BY <1>6, <1>7, <2>1, <2>2 DEF Listed
<1>9. ASSUME NEW s \in Sources
      PROVE  CallsSound(new, s)
  <2>1. Times(s, new.tried) <= 1 /\ Times(s, new.tried) <= 2
    BY <1>7
  <2>2. new.calm => s = currentSource \/ Times(s, new.tried) = 0
    BY <1>2, <1>6, <1>7
  <2>3. new.at # "try"
    BY <1>5, <1>6
  <2> QED BY <2>1, <2>2, <2>3, Zenon DEF CallsSound
<1> QED BY <1>2, <1>4, <1>8, <1>9, CallsMove

LEMMA FallCalls ==
    ASSUME SourcesAssumption, SourcesInv, CallsInv, NEW t \in Threads, Fall(t)
    PROVE  CallsInv'
<1>1. PICK k : k = ask[t]
  OBVIOUS
<1>2. /\ DOMAIN k = {"op", "at", "of", "pos", "queue", "again", "saved", "tried", "calm"}
      /\ k.at = "fall" /\ k.calm \in BOOLEAN /\ currentSource' = currentSource
  BY <1>1, AskFields DEF SourcesInv, SoundAsk, Fall
<1>3. /\ Listed(k) /\ k.tried \in Seq(Sources) /\ k.again \in BOOLEAN
      /\ k.again => k.tried = <<"mongodb">> /\ k.op = "data"
  <2>1. Listed(k)
    BY <1>1 DEF CallsInv
  <2> QED BY <1>2, <2>1, Zenon DEF Listed
<1>4. PICK o \in IF k.op = "data" THEN Orders ELSE {Available} :
             ask' = [ask EXCEPT ![t].at = "try", ![t].queue = o]
  BY <1>1 DEF Fall
<1> DEFINE new == [k EXCEPT !.at = "try", !.queue = o]
<1>5. ask' = [ask EXCEPT ![t] = new]
  BY <1>1, <1>4
<1>6. /\ new.at = "try" /\ new.op = k.op /\ new.calm = k.calm /\ new.queue = o
      /\ new.tried = k.tried /\ new.again = k.again
  BY <1>2
<1> HIDE DEF new
<1>7. Listed(new)
  <2>1. k.again => AskedMongo(k)
    BY <1>3 DEF AskedMongo, ToSet
  <2> QED BY <1>3, <1>6, <2>1 DEF Listed, AskedMongo, SwapStages
<1>8. ASSUME NEW s \in Sources, Once(s)
      PROVE  CallsSound(new, s)
  <2>1. Times(s, o) \in Nat /\ Times(s, o) <= 1 /\ (k.op = "data" /\ s = "mongodb" => Times(s, o) = 0)
    <3>1. CASE k.op = "data"
      <4>1. o \in Orders /\ o \in Seq(ToSet(Available) \ {"mongodb"})
        BY <1>4, <3>1 DEF SourcesAssumption
      <4>2. Times(s, o) \in Nat
        BY <4>1, PlacesFinite
      <4>3. ~ Times(s, o) > 1
        BY <1>8, <4>1 DEF Once
      <4>4. ASSUME s = "mongodb"
            PROVE  Times(s, o) = 0
        <5>1. Places(s, o) = {}
          BY <4>1, <4>4, ElementOfSeq, LenProperties DEF Places
        <5> QED BY <5>1, FS_EmptySet DEF Times, Places
      <4> QED BY <4>2, <4>3, <4>4
    <3>2. CASE k.op # "data"
      <4>1. o = Available /\ o \in Seq(Sources) /\ IsInjective(o)
        BY <1>4, <3>2 DEF SourcesAssumption
      <4> QED BY <3>2, <4>1, NamedOnce, PlacesFinite
    <3> QED BY <3>1, <3>2
  <2>2. /\ CallsSound(k, s) /\ Times(s, k.tried) \in Nat
        /\ Times(s, k.tried) <= 1
        /\ k.calm /\ ~ AskedMongo(k) => s = currentSource \/ Times(s, k.tried) = 0
    <3>1. CallsSound(k, s)
      BY <1>1, <1>8 DEF CallsInv
    <3>2. Times(s, k.tried) \in Nat
      BY <1>3, PlacesFinite
    <3> QED BY <1>2, <3>1, <3>2, Zenon DEF CallsSound
  <2>3. ASSUME k.again
        PROVE  Times(s, k.tried) + Times(s, o) <= 1
    <3>1. CASE s = "mongodb"
      BY <1>3, <2>1, <2>2, <2>3, <3>1
    <3>2. CASE s # "mongodb"
      <4>1. k.tried = <<"mongodb">>
        BY <1>3, <2>3
      <4>2. Times(s, <<"mongodb">>) = 0
        BY <3>2, TimesOfOne, Zenon
      <4> QED BY <2>1, <4>1, <4>2
    <3> QED BY <3>1, <3>2
  <2>4. Times(s, k.tried) + Times(s, o) <= 2
    BY <2>1, <2>2
  <2>5. Sparing(new, s, Times(s, k.tried) + Times(s, o))
    BY <1>6, <2>1, <2>2 DEF Sparing, AskedMongo
  <2>6. /\ new.again => Times(s, new.tried) + Times(s, new.queue) <= 1
        /\ Times(s, new.tried) + Times(s, new.queue) <= 2
        /\ Sparing(new, s, Times(s, new.tried) + Times(s, new.queue))
    BY <1>6, <2>3, <2>4, <2>5
  <2> QED BY <1>6, <2>6, Zenon DEF CallsSound
<1> QED BY <1>2, <1>5, <1>7, <1>8, CallsMove

LEMMA TryCalls ==
    ASSUME SourcesInv, CallsInv, NEW t \in Threads, Try(t)
    PROVE  CallsInv'
<1>1. PICK k : k = ask[t]
  OBVIOUS
<1>2. /\ DOMAIN k = {"op", "at", "of", "pos", "queue", "again", "saved", "tried", "calm"}
      /\ k.at = "try" /\ k.calm \in BOOLEAN /\ currentSource' = currentSource
      /\ k.queue \in Seq(Sources)
  BY <1>1, AskFields DEF SourcesInv, SoundAsk, Try
<1>3. /\ k.tried \in Seq(Sources) /\ k.again \in BOOLEAN
      /\ k.again => AskedMongo(k) /\ k.op = "data"
  <2>1. Listed(k)
    BY <1>1 DEF CallsInv
  <2> QED BY <1>2, <2>1, Zenon DEF Listed
<1>4. ASSUME NEW s \in Sources, Once(s)
      PROVE  /\ Times(s, k.tried) \in Nat /\ Times(s, k.queue) \in Nat
             /\ Times(s, k.tried) + Times(s, k.queue) <= 2
             /\ k.again => Times(s, k.tried) + Times(s, k.queue) <= 1
             /\ Sparing(k, s, Times(s, k.tried) + Times(s, k.queue))
  <2>1. CallsSound(k, s)
    BY <1>1, <1>4 DEF CallsInv
  <2>2. Times(s, k.tried) \in Nat /\ Times(s, k.queue) \in Nat
    BY <1>2, <1>3, PlacesFinite
  <2>3. CASE k.again
    <3>1. Times(s, k.tried) + Times(s, k.queue) <= 1
      BY <1>2, <2>1, <2>3, Zenon DEF CallsSound
    <3>2. Times(s, k.tried) + Times(s, k.queue) <= 2
      BY <2>2, <3>1
    <3> QED BY <1>3, <2>2, <2>3, <3>1, <3>2 DEF Sparing
  <2>4. CASE ~ k.again
    BY <1>2, <2>1, <2>2, <2>4, Zenon DEF CallsSound
  <2> QED BY <2>3, <2>4
<1>5. CASE k.queue = <<>>
  <2>1. PICK answer : answer = IF k.again THEN "fall" ELSE "failed"
    OBVIOUS
  <2> DEFINE new == IF k.again THEN [k EXCEPT !.again = FALSE, !.at = "fall"]
                               ELSE [k EXCEPT !.at = "failed", !.queue = <<>>]
  <2>2. ask' = [ask EXCEPT ![t] = new]
    BY <1>1, <1>5 DEF Try, Again, Answers
  <2>3. new.at = answer /\ new.tried = k.tried /\ new.again = FALSE /\ new.calm = k.calm
    BY <1>2, <1>3, <2>1
  <2> HIDE DEF new
  <2>4. Listed(new)
    BY <1>3, <2>1, <2>3 DEF Listed, SwapStages
  <2>5. ASSUME NEW s \in Sources, Once(s)
        PROVE  CallsSound(new, s)
    <3>1. PICK c \in Nat : c = Times(s, k.tried)
      BY <1>4, <2>5
    <3>2. Times(s, k.queue) = 0
      BY <1>5, TimesOfNone
    <3>3. c <= 2 /\ (k.again => c <= 1) /\ (k.calm /\ ~ AskedMongo(k) => c <= 1)
      BY <1>4, <2>5, <3>1, <3>2 DEF Sparing
    <3>4. AskedMongo(new) = AskedMongo(k) /\ Times(s, new.tried) = c
      BY <2>3, <3>1 DEF AskedMongo
    <3>5. CASE k.again
      <4>1. AskedMongo(new) /\ Times(s, new.tried) <= 1 /\ new.at = "fall"
        BY <1>3, <2>1, <2>3, <3>3, <3>4, <3>5
      <4> QED BY <4>1, Zenon DEF CallsSound
    <3>6. CASE ~ k.again
      <4>1. /\ Times(s, new.tried) <= 2 /\ new.at = "failed"
            /\ new.calm /\ ~ AskedMongo(new) => Times(s, new.tried) <= 1
        BY <2>1, <2>3, <3>3, <3>4, <3>6
      <4> QED BY <4>1, Zenon DEF CallsSound
    <3> QED BY <3>5, <3>6
  <2> QED BY <1>2, <2>2, <2>4, <2>5, CallsMove
<1>6. CASE k.queue # <<>>
  <2>1. PICK h : h = Head(k.queue)
    OBVIOUS
  <2>2. PICK rest : rest = Tail(k.queue)
    OBVIOUS
  <2>3. h \in Sources /\ rest \in Seq(Sources)
    BY <1>2, <1>6, <2>1, <2>2, HeadTailProperties
  <2>4. \A s : Times(s, k.queue) = Times(s, rest) + IF h = s THEN 1 ELSE 0
    BY <1>2, <1>6, <2>1, <2>2, TimesInTail
  <2>5. \A s : Times(s, rest) \in Nat
    BY <2>3, PlacesFinite
  <2>6. CASE h = currentSource
    <3> DEFINE new == [k EXCEPT !.queue = rest]
    <3>1. ask' = [ask EXCEPT ![t] = new]
      BY <1>1, <1>6, <2>1, <2>2, <2>6 DEF Try
    <3>2. /\ new.at = "try" /\ new.op = k.op /\ new.calm = k.calm /\ new.queue = rest
          /\ new.tried = k.tried /\ new.again = k.again
      BY <1>2
    <3> HIDE DEF new
    <3>3. Listed(new)
      BY <1>3, <3>2 DEF Listed, AskedMongo, SwapStages
    <3>4. ASSUME NEW s \in Sources, Once(s)
          PROVE  CallsSound(new, s)
      <4>1. PICK c \in Nat : c = Times(s, k.tried)
        BY <1>4, <3>4
      <4>2. PICK n \in Nat : n = Times(s, rest)
        BY <2>5
      <4>3. PICK m \in Nat : m = Times(s, k.queue)
        BY <1>4, <3>4
      <4>4. n <= m
        BY <2>4, <4>2, <4>3
      <4>5. /\ c + m <= 2 /\ (k.again => c + m <= 1)
            /\ k.calm /\ ~ AskedMongo(k) => c + m <= 1 \/ (s = currentSource /\ c <= 1)
        BY <1>4, <3>4, <4>1, <4>3 DEF Sparing
      <4>6. /\ c + n <= 2 /\ (k.again => c + n <= 1)
            /\ k.calm /\ ~ AskedMongo(k) => c + n <= 1 \/ (s = currentSource /\ c <= 1)
        BY <4>4, <4>5
      <4>7. /\ Times(s, new.tried) + Times(s, new.queue) <= 2
            /\ new.again => Times(s, new.tried) + Times(s, new.queue) <= 1
            /\ Sparing(new, s, Times(s, new.tried) + Times(s, new.queue))
        BY <3>2, <4>1, <4>2, <4>6 DEF Sparing, AskedMongo
      <4> QED BY <3>2, <4>7, Zenon DEF CallsSound
    <3> QED BY <1>2, <3>1, <3>3, <3>4, CallsMove
  <2>7. CASE h # currentSource
    <3>1. PICK next : next = IF Gives(h) = "data" THEN "served" ELSE "try"
      OBVIOUS
    <3> DEFINE new == [k EXCEPT !.tried = Append(@, h),
                                !.queue = IF Gives(h) = "data" THEN <<>> ELSE rest,
                                !.at = IF Gives(h) = "data" THEN "served" ELSE @]
    <3>2. ask' = [ask EXCEPT ![t] = new]
      BY <1>1, <1>6, <2>1, <2>2, <2>7 DEF Try
    <3>3. /\ new.at = next /\ new.op = k.op /\ new.calm = k.calm
          /\ next = "try" => new.queue = rest
          /\ new.tried = Append(k.tried, h) /\ new.again = k.again
      BY <1>2, <3>1
    <3> HIDE DEF new
    <3>4. /\ new.tried \in Seq(Sources)
          /\ \A s : Times(s, new.tried) = Times(s, k.tried) + IF h = s THEN 1 ELSE 0
      BY <1>3, <2>3, <3>3, AppendProperties, TimesAppended
    <3>5. AskedMongo(k) => AskedMongo(new)
      <4>1. \A i \in DOMAIN k.tried : i \in DOMAIN new.tried /\ new.tried[i] = k.tried[i]
        BY <1>3, <2>3, <3>3, AppendProperties, LenProperties
      <4> QED BY <4>1 DEF AskedMongo, ToSet
    <3>6. Listed(new)
      BY <1>3, <3>1, <3>3, <3>4, <3>5 DEF Listed, SwapStages
    <3>7. ASSUME NEW s \in Sources, Once(s)
          PROVE  CallsSound(new, s)
      <4>1. PICK c \in Nat : c = Times(s, k.tried)
        BY <1>4, <3>7
      <4>2. PICK n \in Nat : n = Times(s, rest)
        BY <2>5
      <4>3. PICK m \in Nat : m = Times(s, k.queue)
        BY <1>4, <3>7
      <4>4. PICK one \in Nat : /\ m = n + one /\ Times(s, new.tried) = c + one
                              /\ one <= 1 /\ (one = 1 => s # currentSource)
        <5>1. CASE h = s
          <6>1. m = n + 1 /\ Times(s, new.tried) = c + 1 /\ s # currentSource
            BY <2>4, <2>7, <3>4, <4>1, <4>2, <4>3, <5>1
          <6> QED BY <6>1
        <5>2. CASE h # s
          <6>1. m = n + 0 /\ Times(s, new.tried) = c + 0
            BY <2>4, <3>4, <4>1, <4>2, <4>3, <5>2
          <6> QED BY <6>1
        <5> QED BY <5>1, <5>2
      <4>5. /\ c + m <= 2 /\ (k.again => c + m <= 1)
            /\ k.calm /\ ~ AskedMongo(k) => c + m <= 1 \/ (s = currentSource /\ c <= 1)
        BY <1>4, <3>7, <4>1, <4>3 DEF Sparing
      <4>6. PICK d \in Nat : d = Times(s, new.tried) /\ d = c + one
        BY <4>4
      <4>7. d + n <= 2 /\ (k.again => d + n <= 1) /\ d <= 2
        BY <4>4, <4>5, <4>6
      <4>8. k.calm /\ ~ AskedMongo(k) =>
                d <= 1 /\ (d + n <= 1 \/ (s = currentSource /\ d <= 1))
        <5>1. CASE one = 0
          BY <4>4, <4>5, <4>6, <5>1
        <5>2. CASE one = 1
          BY <4>4, <4>5, <4>6, <5>2
        <5> QED BY <4>4, <5>1, <5>2
      <4>9. CASE next = "try"
        <5>1. /\ Times(s, new.tried) + Times(s, new.queue) <= 2
              /\ new.again => Times(s, new.tried) + Times(s, new.queue) <= 1
              /\ Sparing(new, s, Times(s, new.tried) + Times(s, new.queue))
          BY <3>3, <3>5, <4>2, <4>6, <4>7, <4>8, <4>9 DEF Sparing
        <5> QED BY <3>3, <4>9, <5>1, Zenon DEF CallsSound
      <4>10. CASE next = "served"
        <5>1. /\ Times(s, new.tried) <= 2
              /\ new.calm /\ ~ AskedMongo(new) => Times(s, new.tried) <= 1
          BY <3>3, <3>5, <4>6, <4>7, <4>8
        <5> QED BY <3>3, <4>10, <5>1, Zenon DEF CallsSound
      <4> QED BY <3>1, <4>9, <4>10
    <3> QED BY <1>2, <3>2, <3>6, <3>7, CallsMove
  <2> QED BY <2>6, <2>7
<1> QED BY <1>5, <1>6

\* Who asked for nothing, asks no more, or swaps, calls no source of a list.
LEMMA IdleCalls ==
    ASSUME SourcesInv, CallsInv, NEW t \in Threads,
           \/ \E op \in Swaps \cup {"data", "frame"} : Ask(t, op)
           \/ AskEnds(t)
           \/ SwapSave(t) \/ SwapCall(t)
    PROVE  CallsInv'
<1>1. PICK k : k = ask[t]
  OBVIOUS
<1>2. /\ DOMAIN k = {"op", "at", "of", "pos", "queue", "again", "saved", "tried", "calm"}
      /\ currentSource' = currentSource
  BY <1>1, AskFields DEF SourcesInv, SoundAsk, Ask, AskEnds, SwapSave, SwapCall
<1>3. /\ NoAsk.tried = <<>> /\ NoAsk.again = FALSE /\ NoAsk.at = "idle"
  BY DEF NoAsk
<1>4. ASSUME NEW new, ask' = [ask EXCEPT ![t] = new], new.tried = <<>>, new.again = FALSE,
             new.at \in {"idle", "choose"} \cup SwapStages
      PROVE  CallsInv'
  <2>1. new.at # "try" /\ new.at # "own"
    BY <1>4 DEF SwapStages
  <2>2. Listed(new) /\ \A s \in Sources : CallsSound(new, s)
    BY <1>4, <2>1, NothingCalled
  <2> QED BY <1>2, <1>4, <2>2, CallsMove
<1>5. CASE AskEnds(t)
  BY <1>3, <1>4, <1>5 DEF AskEnds
<1>6. ASSUME NEW op \in Swaps \cup {"data", "frame"}, Ask(t, op)
      PROVE  CallsInv'
  <2> DEFINE new == [NoAsk EXCEPT !.op = op, !.at = IF op \in Swaps THEN "save" ELSE "choose",
                                  !.pos = 1]
  <2>1. ask' = [ask EXCEPT ![t] = new]
    BY <1>6 DEF Ask
  <2>2. new.tried = <<>> /\ new.again = FALSE /\ new.at \in {"choose", "save"}
    BY DEF NoAsk
  <2> HIDE DEF new
  <2> QED BY <1>4, <2>1, <2>2 DEF SwapStages
<1>7. CASE SwapSave(t) \/ SwapCall(t)
  <2>1. k.at \in {"save", "swapped"} /\ Listed(k)
    BY <1>1, <1>7 DEF SwapSave, SwapCall, CallsInv
  <2>2. k.tried = <<>> /\ k.again = FALSE
    BY <2>1 DEF Listed, SwapStages
  <2>3. PICK new : /\ ask' = [ask EXCEPT ![t] = new] /\ new.tried = k.tried /\ new.again = k.again
                   /\ new.at \in {"set", "restore"}
    <3>1. CASE SwapSave(t)
      <4> DEFINE new == [k EXCEPT !.at = "set", !.saved = currentSource]
      <4>1. ask' = [ask EXCEPT ![t] = new]
        BY <1>1, <3>1 DEF SwapSave
      <4>2. new.tried = k.tried /\ new.again = k.again /\ new.at = "set"
        BY <1>2
      <4> QED BY <4>1, <4>2
    <3>2. CASE SwapCall(t)
      <4> DEFINE new == [k EXCEPT !.at = "restore"]
      <4>1. ask' = [ask EXCEPT ![t] = new]
        BY <1>1, <3>2 DEF SwapCall
      <4>2. new.tried = k.tried /\ new.again = k.again /\ new.at = "restore"
        BY <1>2
      <4> QED BY <4>1, <4>2
    <3> QED BY <1>7, <3>1, <3>2
  <2> QED BY <1>4, <2>2, <2>3 DEF SwapStages
<1> QED BY <1>5, <1>6, <1>7

\* Another current_source only takes the calm from the requests.
LEMMA SetCalls ==
    ASSUME NEW asking, DOMAIN ask = Threads,
           NEW s \in Sources, Sets(s, asking),
           \A u \in Threads :
              /\ DOMAIN asking[u] = DOMAIN NoAsk /\ asking[u].calm \in BOOLEAN
              /\ Listed(asking[u])
              /\ \A x \in Sources : Once(x) => CallsSound(asking[u], x)
    PROVE  CallsInv'
<1>1. ASSUME NEW u \in Threads
      PROVE  Listed(ask[u])' /\ \A x \in Sources : Once(x) => CallsSound(ask[u], x)'
  <2>1. PICK j : j = asking[u]
    OBVIOUS
  <2>2. PICK l : l = ask'[u]
    OBVIOUS
  <2>3. l = [j EXCEPT !.calm = @ /\ s = currentSource] /\ DOMAIN j = DOMAIN NoAsk
    BY <2>1, <2>2 DEF Sets
  <2>4. /\ l.at = j.at /\ l.op = j.op /\ l.of = j.of /\ l.tried = j.tried /\ l.again = j.again
        /\ l.queue = j.queue
        /\ l.calm = (j.calm /\ s = currentSource)
    BY <2>3, AskFields
  <2>5. AskedMongo(l) = AskedMongo(j) /\ (l.calm => j.calm /\ currentSource' = currentSource)
    BY <2>4 DEF AskedMongo, Sets
  <2>6. Listed(l)
    BY <2>1, <2>4, <2>5 DEF Listed
  <2>7. ASSUME NEW x \in Sources, Once(x)
        PROVE  CallsSound(l, x)'
    <3>1. CallsSound(j, x)
      BY <2>1, <2>7
    <3>2. \A n : Sparing(j, x, n) => Sparing(l, x, n)'
      BY <2>4, <2>5 DEF Sparing, AskedMongo
    <3> QED BY <2>4, <2>5, <3>1, <3>2 DEF CallsSound, AskedMongo
  <2> QED BY <2>2, <2>6, <2>7 DEF Listed, CallsSound, Sparing, AskedMongo
<1> QED BY <1>1 DEF CallsInv, Once

LEMMA SwapCalls ==
    ASSUME SourcesAssumption, SourcesInv, CallsInv, NEW t \in Threads,
           SwapSet(t) \/ SwapRestore(t)
    PROVE  CallsInv'
<1>1. PICK k : k = ask[t]
  OBVIOUS
<1>2. /\ DOMAIN k = {"op", "at", "of", "pos", "queue", "again", "saved", "tried", "calm"}
      /\ SoundAsk(k) /\ Listed(k) /\ k.calm \in BOOLEAN /\ DOMAIN ask = Threads
      /\ k.at \in {"set", "restore"}
  BY <1>1, AskFields DEF SourcesInv, SoundAsk, CallsInv, SwapSet, SwapRestore
<1>3. k.tried = <<>> /\ k.again = FALSE
  BY <1>2 DEF Listed, SwapStages
<1>4. PICK s, new : /\ s \in Sources /\ Sets(s, [ask EXCEPT ![t] = new])
                   /\ DOMAIN new = DOMAIN k /\ new.calm = k.calm
                   /\ new.tried = k.tried /\ new.again = k.again
                   /\ new.at \in {"swapped", "served", "failed"}
  <2>1. CASE SwapSet(t)
    <3>1. PICK s : s = IF k.op = "tushare" THEN "tushare" ELSE "mongodb"
      OBVIOUS
    <3> DEFINE new == [k EXCEPT !.at = "swapped", !.of = s]
    <3>2. Sets(s, [ask EXCEPT ![t] = new])
      BY <1>1, <2>1, <3>1 DEF SwapSet
    <3>3. /\ DOMAIN new = DOMAIN k /\ new.calm = k.calm /\ new.tried = k.tried
          /\ new.again = k.again /\ new.at = "swapped"
      BY <1>2
    <3>4. s \in Sources
      BY <3>1, ChainIs
    <3> HIDE DEF new
    <3> QED BY <3>2, <3>3, <3>4
  <2>2. CASE SwapRestore(t)
    <3>1. PICK answer : answer = IF Gives(k.of) = "data" THEN "served" ELSE "failed"
      OBVIOUS
    <3> DEFINE new == [k EXCEPT !.at = answer, !.saved = "none"]
    <3>2. Sets(k.saved, [ask EXCEPT ![t] = new])
      BY <1>1, <2>2, <3>1 DEF SwapRestore
    <3>3. /\ DOMAIN new = DOMAIN k /\ new.calm = k.calm /\ new.tried = k.tried
          /\ new.again = k.again /\ new.at \in {"served", "failed"}
      BY <1>2, <3>1
    <3>4. k.saved \in Sources
      <4>1. k.at = "restore"
        BY <1>1, <2>2 DEF SwapRestore
      <4> QED BY <1>2, <4>1 DEF SoundAsk, SwapStages
    <3> HIDE DEF new
    <3> QED BY <3>2, <3>3, <3>4
  <2> QED BY <2>1, <2>2
<1>5. /\ Listed(new) /\ \A x \in Sources : CallsSound(new, x)
  <2>1. new.at # "try" /\ new.at # "own"
    BY <1>4
  <2> QED BY <1>3, <1>4, <2>1, NothingCalled
<1>6. ASSUME NEW asking, asking = [ask EXCEPT ![t] = new], NEW u \in Threads
      PROVE  /\ DOMAIN asking[u] = DOMAIN NoAsk /\ asking[u].calm \in BOOLEAN
             /\ Listed(asking[u])
             /\ \A x \in Sources : Once(x) => CallsSound(asking[u], x)
  <2>1. CASE u = t
    <3>1. asking[u] = new
      BY <1>2, <1>6, <2>1
    <3> QED BY <1>2, <1>4, <1>5, <3>1, AskFields
  <2>2. CASE u # t
    <3>1. asking[u] = ask[u]
      BY <1>2, <1>6, <2>2
    <3> QED BY <3>1 DEF SourcesInv, SoundAsk, CallsInv
  <2> QED BY <2>1, <2>2
<1> QED BY <1>2, <1>4, <1>6, SetCalls

LEMMA SwitchCalls ==
    ASSUME SourcesInv, CallsInv, NEW s \in Sources, Switch(s)
    PROVE  CallsInv'
<1>1. Sets(s, ask) /\ DOMAIN ask = Threads
  BY DEF Switch, SourcesInv
<1>2. \A u \in Threads : DOMAIN ask[u] = DOMAIN NoAsk /\ ask[u].calm \in BOOLEAN
  BY DEF SourcesInv, SoundAsk
<1> QED BY <1>1, <1>2, SetCalls DEF CallsInv

LEMMA CallsStep ==
    ASSUME SourcesAssumption, SourcesInv, CallsInv, [SourcesNext]_sourceVars
    PROVE  CallsInv'
<1>1. CASE UNCHANGED sourceVars
  BY <1>1 DEF sourceVars, CallsInv, CallsSound, Sparing, AskedMongo, Listed, Once
<1>2. CASE SourcesNext
  BY <1>2, ChooseCalls, OwnCalls, FallCalls, TryCalls, IdleCalls, SwapCalls, SwitchCalls
     DEF SourcesNext
<1> QED BY <1>1, <1>2

\* Whatever the orders, the threads and the sources' answers: a request tries
\* what there is to try before it fails, and calls no source over and over,
\* unless an order names it twice (get_stock_data, _get_mongodb_data,
\* _try_fallback_sources).
THEOREM FallbacksAreSound == SourcesSpec => []FallbackSound
<1> USE SourcesAssumption
<1>1. SourcesInit => CallsInv
  <2> SUFFICES ASSUME SourcesInit, NEW t \in Threads
               PROVE  /\ Listed(ask[t])
                      /\ \A s \in Sources : CallsSound(ask[t], s)
    BY DEF CallsInv
  <2>1. ask[t].tried = <<>> /\ ask[t].again = FALSE /\ ask[t].at = "idle"
    BY DEF SourcesInit, NoAsk
  <2> QED BY <2>1, NothingCalled
<1>2. SourcesInv /\ CallsInv /\ [SourcesNext]_sourceVars => CallsInv'
  BY CallsStep
<1>3. SourcesInv /\ CallsInv => CalledTwiceAtMost
  <2> SUFFICES ASSUME SourcesInv, CallsInv, NEW t \in Threads, NEW s \in Sources, Once(s)
               PROVE  \/ Times(s, ask[t].tried) <= 1
                      \/ /\ Times(s, ask[t].tried) = 2
                         /\ "mongodb" \in ToSet(ask[t].tried) \/ ~ ask[t].calm
    BY DEF CalledTwiceAtMost, Once
  <2>1. PICK k : k = ask[t]
    OBVIOUS
  <2>2. Listed(k) /\ CallsSound(k, s) /\ SoundAsk(k)
    BY <2>1 DEF SourcesInv, CallsInv
  <2>3. /\ Times(s, k.tried) \in Nat /\ Times(s, <<>>) = 0
        /\ k.queue \in Seq(Sources) => Times(s, k.queue) \in Nat
    BY <2>2, PlacesFinite, TimesOfNone DEF Listed
  <2>4. k.at \in {"served", "failed"} \cup SwapStages \cup {"idle", "choose", "own", "fall", "try"}
    BY <2>2 DEF SoundAsk
  <2>5. PICK c \in Nat : c = Times(s, k.tried)
    BY <2>3
  <2>6. c <= 2 /\ (c = 2 => AskedMongo(k) \/ ~ k.calm)
    <3>1. CASE k.at \in {"idle", "choose", "own"} \cup SwapStages
      BY <2>2, <2>3, <2>5, <3>1 DEF Listed
    <3>2. CASE k.at = "fall"
      <4>1. c <= 1
        BY <2>2, <2>5, <3>2, Zenon DEF CallsSound
      <4> QED BY <4>1
    <3>3. CASE k.at = "try"
      <4>1. PICK q \in Nat : q = Times(s, k.queue)
        BY <2>2, <2>3 DEF SoundAsk
      <4>2. CASE k.again
        <5>1. Times(s, k.tried) + Times(s, k.queue) <= 1
          BY <2>2, <3>3, <4>2, Zenon DEF CallsSound
        <5> QED BY <2>5, <4>1, <5>1
      <4>3. CASE ~ k.again
        <5>1. /\ Times(s, k.tried) + Times(s, k.queue) <= 2
              /\ Sparing(k, s, Times(s, k.tried) + Times(s, k.queue))
          BY <2>2, <3>3, <4>3, Zenon DEF CallsSound
        <5> QED BY <2>5, <4>1, <5>1 DEF Sparing
      <4> QED BY <4>2, <4>3
    <3>4. CASE k.at \in {"served", "failed"}
      <4>1. c <= 2 /\ (k.calm /\ ~ AskedMongo(k) => c <= 1)
        BY <2>2, <2>5, <3>4, Zenon DEF CallsSound
      <4> QED BY <4>1
    <3> QED BY <2>4, <3>1, <3>2, <3>3, <3>4
  <2> QED BY <2>1, <2>5, <2>6 DEF AskedMongo
<1> QED BY <1>1, <1>2, <1>3, SourcesHolds, FallbackTriesAll, PTL DEF SourcesSpec, FallbackSound

-----------------------------------------------------------------------------
\* The domains of the account, however requests overlap: a position remembered
\* keeps its _id, which no other position has, whether or not it is still there.

DistinctIds == \A i, j \in DOMAIN positions : positions[i].id = positions[j].id => i = j

PositionsHeld ==
    /\ positions \in Seq(PositionType) /\ DistinctIds
    /\ \A i \in DOMAIN positions : positions[i].id <= made

TradesHeld ==
    /\ trades \in Seq([side : {"buy", "sell"}, quantity : Quantities, price : Prices, day : Nat,
                       commission : {0, Commission}])
    /\ \A i \in DOMAIN trades : trades[i].day <= day

\* What a request remembers of the position, and what it is charged.
RecallHeld(r) ==
    /\ mine[r].commission \in {0, Commission}
    /\ mine[r].position = NoPosition \/ mine[r].position \in PositionType
    /\ mine[r].position.id <= made
    /\ at[r] \in {"credit", "sold"} => mine[r].position # NoPosition

CountsTyped ==
    /\ market \in Markets /\ orders \in Nat /\ made \in Nat /\ day \in 0 .. MaxDays
    /\ rules \in BOOLEAN /\ ruledAllDay \in BOOLEAN
    /\ at \in [Requests -> Awaits]
    /\ sent \in 0 .. MaxOrders /\ errors \in 0 .. MaxErrors /\ overlapped \in BOOLEAN

PaperTypeInv ==
    /\ CashInv /\ CountsTyped /\ PositionsHeld /\ TradesHeld
    /\ \A r \in Requests : RecallHeld(r)

\* The first match of a sequence and what removing it leaves.
LEMMA RemovedOnce ==
    ASSUME NEW S, NEW s \in Seq(S), NEW k \in 1 .. Len(s)
    PROVE  /\ RemoveAt(s, k) \in Seq(S)
           /\ Len(RemoveAt(s, k)) = Len(s) - 1
           /\ \A i \in 1 .. Len(s) - 1 : RemoveAt(s, k)[i] = IF i < k THEN s[i] ELSE s[i + 1]
<1>1. Len(s) \in Nat /\ k \in Nat /\ 1 <= k /\ k <= Len(s)
  BY LenProperties
<1>2. /\ SubSeq(s, 1, k - 1) \in Seq(S) /\ Len(SubSeq(s, 1, k - 1)) = k - 1
      /\ \A i \in 1 .. k - 1 : SubSeq(s, 1, k - 1)[i] = s[i]
  BY <1>1, SubSeqProperties
<1>3. /\ SubSeq(s, k + 1, Len(s)) \in Seq(S) /\ Len(SubSeq(s, k + 1, Len(s))) = Len(s) - k
      /\ \A i \in 1 .. Len(s) - k : SubSeq(s, k + 1, Len(s))[i] = s[k + i]
  BY <1>1, SubSeqProperties
<1>4. PICK u : u = SubSeq(s, 1, k - 1)
  OBVIOUS
<1>5. PICK v : v = SubSeq(s, k + 1, Len(s))
  OBVIOUS
<1>6. /\ u \o v \in Seq(S) /\ Len(u \o v) = Len(u) + Len(v)
      /\ \A i \in 1 .. Len(u) + Len(v) : (u \o v)[i] = IF i <= Len(u) THEN u[i] ELSE v[i - Len(u)]
  <2>1. u \in Seq(S) /\ v \in Seq(S)
    BY <1>2, <1>3, <1>4, <1>5
  <2> QED BY <2>1, ConcatProperties
<1>7. RemoveAt(s, k) = u \o v
  BY <1>4, <1>5 DEF RemoveAt
<1>8. Len(u) = k - 1 /\ Len(v) = Len(s) - k
  BY <1>2, <1>3, <1>4, <1>5
<1>9. ASSUME NEW i \in 1 .. Len(s) - 1
      PROVE  (u \o v)[i] = IF i < k THEN s[i] ELSE s[i + 1]
  <2>1. CASE i < k
    <3>1. i \in 1 .. k - 1 /\ i <= Len(u) /\ i \in 1 .. Len(u) + Len(v)
      BY <1>1, <1>8, <2>1
    <3> QED BY <1>2, <1>4, <1>6, <2>1, <3>1
  <2>2. CASE ~ (i < k)
    <3>1. /\ i \in 1 .. Len(u) + Len(v) /\ ~ (i <= Len(u)) /\ i - Len(u) = i - k + 1
          /\ i - k + 1 \in 1 .. Len(s) - k /\ k + (i - k + 1) = i + 1
      BY <1>1, <1>8, <2>2
    <3>2. (u \o v)[i] = v[i - k + 1]
      BY <1>6, <3>1
    <3>3. v[i - k + 1] = s[k + (i - k + 1)]
      BY <1>3, <1>5, <3>1
    <3> QED BY <2>2, <3>1, <3>2, <3>3
  <2> QED BY <2>1, <2>2
<1>10. Len(u) + Len(v) = Len(s) - 1
  BY <1>1, <1>8
<1> QED BY <1>6, <1>7, <1>9, <1>10

LEMMA RemovalHeld ==
    ASSUME PositionsHeld, NEW id, UNCHANGED made, NEW I,
           I = {i \in 1 .. Len(positions) : positions[i].id = id},
           positions' = IF I = {} THEN positions ELSE RemoveAt(positions, Min(I))
    PROVE  PositionsHeld'
<1>1. Len(positions) \in Nat /\ DOMAIN positions = 1 .. Len(positions)
  BY LenProperties DEF PositionsHeld
<1>2. CASE I = {}
  BY <1>2, <1>1 DEF PositionsHeld, DistinctIds
<1>3. CASE I # {}
  <2> DEFINE k == Min(I)
  <2>1. positions' = RemoveAt(positions, k)
    BY <1>3
  <2>2. k \in 1 .. Len(positions)
    <3>1. PICK j \in I : TRUE
      BY <1>3
    <3>2. \A i \in I : i = j
      BY <1>1, <3>1 DEF PositionsHeld, DistinctIds
    <3>3. I = {j} /\ j \in Nat
      BY <1>1, <3>1, <3>2
    <3>4. Min({j}) = j
      BY <3>3 DEF Min
    <3>5. k = j
      BY <3>3, <3>4
    <3> QED BY <3>1, <3>5
  <2> HIDE DEF k
  <2>3. PICK q : q = RemoveAt(positions, k)
    OBVIOUS
  <2>4. /\ q \in Seq(PositionType) /\ Len(q) = Len(positions) - 1
        /\ \A i \in 1 .. Len(positions) - 1 :
              q[i] = IF i < k THEN positions[i] ELSE positions[i + 1]
    BY <2>2, <2>3, RemovedOnce DEF PositionsHeld
  <2>5. DOMAIN q = 1 .. Len(positions) - 1
    BY <2>4, LenProperties
  <2>6. PICK f : f = [i \in DOMAIN q |-> IF i < k THEN i ELSE i + 1]
    OBVIOUS
  <2>7. \A i \in DOMAIN q : f[i] \in DOMAIN positions /\ q[i] = positions[f[i]]
    <3>1. \A i \in 1 .. Len(positions) - 1 : i \in DOMAIN positions /\ i + 1 \in DOMAIN positions
      BY <1>1
    <3> QED BY <2>4, <2>5, <2>6, <3>1
  <2>8. \A i, j \in DOMAIN q : f[i] = f[j] => i = j
    BY <1>1, <2>2, <2>5, <2>6
  <2>9. \A i \in DOMAIN q : q[i].id <= made
    BY <2>7 DEF PositionsHeld
  <2>10. \A i, j \in DOMAIN q : q[i].id = q[j].id => i = j
    BY <2>7, <2>8 DEF PositionsHeld, DistinctIds
  <2> QED BY <2>1, <2>3, <2>4, <2>9, <2>10 DEF PositionsHeld, DistinctIds
<1> QED BY <1>2, <1>3

LEMMA UpdateHeld ==
    ASSUME PositionsHeld, NEW old \in PositionType, NEW quantity \in Int, NEW available \in Int,
           old.id <= made, positions' = Updated(old, quantity, available), UNCHANGED made
    PROVE  PositionsHeld'
<1>1. PICK new : new = [old EXCEPT !.quantity = quantity, !.available = available]
  OBVIOUS
<1>2. new \in PositionType /\ new.id = old.id
  BY <1>1 DEF PositionType
<1>3. positions' = [i \in DOMAIN positions |-> IF positions[i].id # old.id THEN positions[i] ELSE new]
  BY <1>1 DEF Updated
<1>4. Len(positions) \in Nat /\ DOMAIN positions = 1 .. Len(positions)
      /\ \A i \in DOMAIN positions : positions[i] \in PositionType
  BY LenProperties, ElementOfSeq DEF PositionsHeld
<1>5. \A i \in DOMAIN positions : positions'[i].id = positions[i].id /\ positions'[i] \in PositionType
  BY <1>2, <1>3, <1>4
<1>6. DOMAIN positions' = DOMAIN positions
  BY <1>3
<1>7. positions' \in [1 .. Len(positions) -> PositionType]
  BY <1>2, <1>3, <1>4
<1>8. positions' \in Seq(PositionType)
  BY <1>4, <1>7, SeqDef
<1> QED BY <1>5, <1>6, <1>8 DEF PositionsHeld, DistinctIds

LEMMA NewPositionHeld ==
    ASSUME PositionsHeld, made \in Nat, NEW q \in Int, NEW a \in Int, made' = made + 1,
           positions' = Append(positions, [id |-> made', quantity |-> q, available |-> a])
    PROVE  PositionsHeld'
<1>1. PICK new : new = [id |-> made + 1, quantity |-> q, available |-> a]
  OBVIOUS
<1>2. new \in PositionType /\ new.id = made + 1
  BY <1>1 DEF PositionType
<1>3. positions' = Append(positions, new)
  BY <1>1
<1>4. /\ positions' \in Seq(PositionType) /\ Len(positions') = Len(positions) + 1
      /\ \A i \in 1 .. Len(positions) : positions'[i] = positions[i]
      /\ positions'[Len(positions) + 1] = new
  BY <1>2, <1>3, AppendProperties DEF PositionsHeld
<1>5. /\ Len(positions) \in Nat /\ DOMAIN positions = 1 .. Len(positions)
      /\ DOMAIN positions' = 1 .. Len(positions) + 1
  BY <1>4, LenProperties DEF PositionsHeld
<1>6. \A i \in DOMAIN positions : positions[i].id \in Nat /\ positions[i].id <= made
  <2>1. \A i \in DOMAIN positions : positions[i] \in PositionType
    BY ElementOfSeq, <1>5 DEF PositionsHeld
  <2> QED BY <2>1 DEF PositionsHeld, PositionType
<1>7. ASSUME NEW i \in DOMAIN positions'
      PROVE  \/ i \in DOMAIN positions /\ positions'[i] = positions[i]
             \/ i = Len(positions) + 1 /\ positions'[i] = new
  BY <1>4, <1>5
<1>8. \A i \in DOMAIN positions' : positions'[i].id <= made'
  BY <1>2, <1>6, <1>7
<1>9. DistinctIds'
  <2> SUFFICES ASSUME NEW i \in DOMAIN positions', NEW j \in DOMAIN positions',
                      positions'[i].id = positions'[j].id
               PROVE  i = j
    BY DEF DistinctIds
  <2> QED BY <1>2, <1>6, <1>7 DEF PositionsHeld, DistinctIds
<1> QED BY <1>4, <1>8, <1>9 DEF PositionsHeld
\* A request goes to an await with what it then remembers of the position.
Recalls(await, read) ==
    /\ read.commission \in {0, Commission}
    /\ read.position = NoPosition \/ read.position \in PositionType
    /\ read.position.id <= made
    /\ await \in {"credit", "sold"} => read.position # NoPosition

LEMMA RecallMoves ==
    ASSUME PaperTypeInv, NEW r \in Requests, NEW await \in Awaits, NEW read,
           Recalls(await, read), made <= made', made' \in Nat, Keep(r, await, read)
    PROVE  at' \in [Requests -> Awaits] /\ \A o \in Requests : RecallHeld(o)'
<1>1. at' \in [Requests -> Awaits] /\ at'[r] = await
      /\ \A o \in Requests \ {r} : at'[o] = at[o]
  BY DEF PaperTypeInv, CountsTyped, Keep, Go
<1>2. mine'[r] = read /\ \A o \in Requests \ {r} : mine'[o] = mine[o]
  BY DEF PaperTypeInv, CashInv, Keep
<1>3. made \in Nat
  BY DEF PaperTypeInv, CountsTyped
<1>4. NoPosition.id = 0
  BY DEF NoPosition
<1>5. RecallHeld(r)'
  <2>1. read.position.id \in Nat
    BY <1>4 DEF Recalls, PositionType
  <2>2. read.position.id <= made'
    BY <1>3, <2>1 DEF Recalls
  <2> QED BY <1>1, <1>2, <2>2 DEF RecallHeld, Recalls
<1>6. ASSUME NEW o \in Requests \ {r}
      PROVE  RecallHeld(o)'
  <2>1. RecallHeld(o)
    BY <1>6 DEF PaperTypeInv
  <2>2. mine[o].position.id \in Nat
    BY <1>4, <2>1 DEF RecallHeld, PositionType
  <2>3. mine[o].position.id <= made'
    BY <1>3, <2>1, <2>2 DEF RecallHeld
  <2> QED BY <1>1, <1>2, <2>1, <2>3 DEF RecallHeld
<1> QED BY <1>1, <1>5, <1>6

\* The same with what the request remembered before.
LEMMA RecallStays ==
    ASSUME PaperTypeInv, NEW r \in Requests, NEW await \in Awaits,
           await \in {"credit", "sold"} => mine[r].position # NoPosition,
           made <= made', made' \in Nat, Go(r, await), UNCHANGED mine
    PROVE  at' \in [Requests -> Awaits] /\ \A o \in Requests : RecallHeld(o)'
<1>1. at' \in [Requests -> Awaits] /\ at'[r] = await
      /\ \A o \in Requests \ {r} : at'[o] = at[o]
  BY DEF PaperTypeInv, CountsTyped, Go
<1>2. made \in Nat /\ NoPosition.id = 0
  BY DEF PaperTypeInv, CountsTyped, NoPosition
<1>3. ASSUME NEW o \in Requests
      PROVE  RecallHeld(o)'
  <2>1. RecallHeld(o)
    BY DEF PaperTypeInv
  <2>2. mine[o].position.id \in Nat
    BY <1>2, <2>1 DEF RecallHeld, PositionType
  <2>3. mine[o].position.id <= made'
    BY <1>2, <2>1, <2>2 DEF RecallHeld
  <2>4. at'[o] \in {"credit", "sold"} => mine[o].position # NoPosition
    BY <1>1, <2>1 DEF RecallHeld
  <2> QED BY <2>1, <2>3, <2>4 DEF RecallHeld
<1> QED BY <1>1, <1>3

\* What is left of the domains when the requests have moved on.
LEMMA PaperRest ==
    ASSUME PaperTypeInv, CashInv', at' \in [Requests -> Awaits],
           \A o \in Requests : RecallHeld(o)', PositionsHeld', TradesHeld',
           orders' \in Nat, made' \in Nat, UNCHANGED <<market, rules, ruledAllDay, day>>,
           sent' \in 0 .. MaxOrders, errors' \in 0 .. MaxErrors, overlapped' \in BOOLEAN
    PROVE  PaperTypeInv'
BY DEF PaperTypeInv, CountsTyped

LEMMA StillRest ==
    ASSUME PaperTypeInv, CashInv', at' \in [Requests -> Awaits],
           \A o \in Requests : RecallHeld(o)', PositionsHeld', TradesHeld',
           orders' \in Nat, made' \in Nat, Still
    PROVE  PaperTypeInv'
BY DEF PaperTypeInv, CountsTyped, Still, history

LEMMA HoldingsStay ==
    ASSUME PaperTypeInv, UNCHANGED <<books, day>>
    PROVE  PositionsHeld' /\ TradesHeld' /\ orders' \in Nat /\ made' \in Nat /\ made <= made'
BY DEF PaperTypeInv, PositionsHeld, DistinctIds, TradesHeld, CountsTyped, books

LEMMA PositionsStay ==
    ASSUME PaperTypeInv, UNCHANGED <<positions, made>>
    PROVE  PositionsHeld' /\ made' \in Nat /\ made <= made'
BY DEF PaperTypeInv, PositionsHeld, DistinctIds, CountsTyped

LEMMA TradesKept ==
    ASSUME PaperTypeInv, UNCHANGED <<trades, day>>
    PROVE  TradesHeld'
BY DEF PaperTypeInv, TradesHeld

LEMMA PaperRequestTyped ==
    ASSUME PaperTypeInv, PaperAssumption, NEW r \in Requests,
           \/ SendOrder(r) \/ FindAccount(r) \/ CreateAccount(r)
           \/ FindRules(r) \/ FindPosition(r)
           \/ Buy(r) \/ Sell(r) \/ InsertOrder(r) \/ InsertTrade(r)
           \/ Reset(r) \/ OrderFault(r)
    PROVE  PaperTypeInv'
<1>1. CashInv' /\ CashInv
  BY RequestStep DEF PaperTypeInv
<1>2. /\ made \in Nat /\ RecallHeld(r) /\ orders \in Nat /\ PositionsHeld /\ market \in Markets
      /\ sent \in 0 .. MaxOrders /\ errors \in 0 .. MaxErrors /\ overlapped \in BOOLEAN
  BY DEF PaperTypeInv, CountsTyped
<1>3. Recalls("idle", Unsent) /\ Recalls("account", Unsent) /\ Recalls("accounts", Unsent)
  BY <1>2 DEF Recalls, Unsent, NoPosition
<1>4. ASSUME Answer(r), UNCHANGED made
      PROVE  at' \in [Requests -> Awaits] /\ \A o \in Requests : RecallHeld(o)'
  <2>1. Keep(r, "idle", Unsent)
    BY <1>4 DEF Answer
  <2>2. "idle" \in Awaits /\ made <= made' /\ made' \in Nat
    BY <1>2, <1>4 DEF Awaits
  <2> QED BY <1>3, <2>1, <2>2, RecallMoves
<1>5. DOMAIN mine[r] = {"side", "quantity", "price", "cash", "commission", "position", "total"}
  BY <1>1, Fields DEF CashInv
<1>6. ASSUME NEW await \in Awaits \ {"credit", "sold"}, Go(r, await), UNCHANGED <<mine, made>>
      PROVE  at' \in [Requests -> Awaits] /\ \A o \in Requests : RecallHeld(o)'
  BY <1>2, <1>6, RecallStays
<1>7. CASE SendOrder(r)
  <2>1. /\ PositionsHeld' /\ TradesHeld' /\ orders' \in Nat /\ made' \in Nat /\ made <= made'
        /\ UNCHANGED <<market, rules, ruledAllDay, day, errors>>
    BY <1>7, HoldingsStay DEF SendOrder
  <2>2. /\ sent' \in 0 .. MaxOrders /\ errors' \in 0 .. MaxErrors
    <3>1. sent < MaxOrders /\ sent' = sent + 1 /\ MaxOrders \in Nat
      BY <1>7, PaperAssumption DEF SendOrder
    <3> QED BY <1>2, <2>1, <3>1
  <2>3. overlapped' \in BOOLEAN
    BY <1>2, <1>7, Zenon DEF SendOrder
  <2>4. \A side, quantity : Recalls("account", [Unsent EXCEPT !.side = side, !.quantity = quantity])
    BY <1>2 DEF Recalls, Unsent, NoPosition
  <2>5. at' \in [Requests -> Awaits] /\ \A o \in Requests : RecallHeld(o)'
    <3>1. \E await \in {"account", "accounts"} : \E read :
             Recalls(await, read) /\ Keep(r, await, read)
      BY <1>3, <1>7, <2>4 DEF SendOrder
    <3> QED BY <2>1, <3>1, RecallMoves DEF Awaits
  <2> QED BY <1>1, <2>1, <2>2, <2>3, <2>5, PaperRest
<1>8. CASE OrderFault(r)
  <2>1. /\ PositionsHeld' /\ TradesHeld' /\ orders' \in Nat /\ made' \in Nat
        /\ UNCHANGED <<market, rules, ruledAllDay, day, sent, overlapped, made>>
    BY <1>8, HoldingsStay DEF OrderFault, books, history
  <2>2. errors' \in 0 .. MaxErrors
    BY <1>2, <1>8, PaperAssumption DEF OrderFault
  <2> QED BY <1>1, <1>2, <1>4, <1>8, <2>1, <2>2, PaperRest DEF OrderFault
<1>9. CASE FindAccount(r)
  <2>1. /\ PositionsHeld' /\ TradesHeld' /\ orders' \in Nat /\ made' \in Nat
        /\ Still /\ UNCHANGED made
    BY <1>9, HoldingsStay DEF FindAccount, Still, books
  <2>2. Recalls("rules", [mine[r] EXCEPT !.cash = Head(accounts)])
    BY <1>2, <1>5 DEF RecallHeld, Recalls
  <2>3. at' \in [Requests -> Awaits] /\ \A o \in Requests : RecallHeld(o)'
    BY <1>2, <1>4, <1>6, <1>9, <2>1, <2>2, RecallMoves DEF FindAccount, Awaits
  <2> QED BY <1>1, <2>1, <2>3, StillRest
<1>10. CASE CreateAccount(r)
  <2>1. /\ PositionsHeld' /\ TradesHeld' /\ orders' \in Nat /\ made' \in Nat
        /\ Still /\ UNCHANGED made
    BY <1>2, <1>10, PositionsStay, TradesKept DEF CreateAccount, Still
  <2>2. Recalls("rules", [mine[r] EXCEPT !.cash = InitialCash])
    BY <1>2, <1>5 DEF RecallHeld, Recalls
  <2>3. at' \in [Requests -> Awaits] /\ \A o \in Requests : RecallHeld(o)'
    BY <1>2, <1>4, <1>10, <2>1, <2>2, RecallMoves DEF CreateAccount, Awaits
  <2> QED BY <1>1, <2>1, <2>3, StillRest
<1>11. CASE FindRules(r) \/ FindPosition(r)
  <2>1. /\ PositionsHeld' /\ TradesHeld' /\ orders' \in Nat /\ made' \in Nat
        /\ Still /\ UNCHANGED made
    BY <1>11, HoldingsStay DEF FindRules, FindPosition, Still, books
  <2>2. CASE FindRules(r)
    <3>1. Charged \in {0, Commission}
      BY DEF Charged
    <3>2. \A price \in Prices :
             Recalls("position", [mine[r] EXCEPT !.price = price, !.commission = Charged])
      BY <1>2, <1>5, <3>1 DEF RecallHeld, Recalls
    <3>3. at' \in [Requests -> Awaits] /\ \A o \in Requests : RecallHeld(o)'
      <4>1. CASE Answer(r)
        BY <1>4, <2>1, <4>1
      <4>2. CASE \E price \in Prices :
                   Keep(r, "position", [mine[r] EXCEPT !.price = price, !.commission = Charged])
        <5>1. PICK read : Recalls("position", read) /\ Keep(r, "position", read)
          BY <3>2, <4>2
        <5>2. "position" \in Awaits /\ made <= made' /\ made' \in Nat
          BY <1>2, <2>1 DEF Awaits
        <5> QED BY <1>2, <5>1, <5>2, RecallMoves
      <4> QED BY <2>2, <4>1, <4>2 DEF FindRules
    <3> QED BY <1>1, <2>1, <3>3, StillRest
  <2>3. CASE FindPosition(r)
    <3>1. PICK first : first = IF positions = <<>> THEN NoPosition ELSE Head(positions)
      OBVIOUS
    <3>2. (first = NoPosition \/ first \in PositionType) /\ first.id <= made
      <4>1. CASE positions = <<>>
        BY <1>2, <3>1, <4>1 DEF NoPosition
      <4>2. CASE positions # <<>>
        <5>1. Head(positions) = positions[1] /\ Head(positions) \in PositionType
              /\ 1 \in DOMAIN positions
          BY <4>2, HeadTailProperties, LenProperties, EmptySeq DEF PaperTypeInv, PositionsHeld
        <5>2. positions[1].id <= made
          BY <5>1 DEF PaperTypeInv, PositionsHeld
        <5> QED BY <3>1, <4>2, <5>1, <5>2
      <4> QED BY <4>1, <4>2
    <3>3. PICK await : await = IF mine[r].side = "buy" THEN "debit" ELSE "hold"
      OBVIOUS
    <3>4. Keep(r, await, [mine[r] EXCEPT !.position = first])
      BY <2>3, <3>1, <3>3 DEF FindPosition
    <3>5. Recalls(await, [mine[r] EXCEPT !.position = first])
      BY <1>2, <1>5, <3>2, <3>3 DEF Recalls, RecallHeld
    <3>6. await \in Awaits
      BY <3>3 DEF Awaits
    <3>7. at' \in [Requests -> Awaits] /\ \A o \in Requests : RecallHeld(o)'
      BY <1>2, <2>1, <3>4, <3>5, <3>6, RecallMoves
    <3> QED BY <1>1, <2>1, <3>7, StillRest
  <2> QED BY <1>11, <2>2, <2>3
<1>12. CASE Debit(r)
  <2>1. /\ PositionsHeld' /\ TradesHeld' /\ orders' \in Nat /\ made' \in Nat
        /\ Still /\ UNCHANGED made
    BY <1>2, <1>12, PositionsStay, TradesKept DEF Debit, Still
  <2>2. at' \in [Requests -> Awaits] /\ \A o \in Requests : RecallHeld(o)'
    BY <1>4, <1>6, <1>12, <2>1 DEF Debit, Awaits
  <2> QED BY <1>1, <2>1, <2>2, StillRest
<1>13. CASE TakeShares(r)
  <2>1. /\ Go(r, "order") /\ Still /\ UNCHANGED <<accounts, orders, trades, mine>>
        /\ at[r] = "bought"
    BY <1>13 DEF TakeShares
  <2>2. mine[r].quantity \in Nat
    BY <1>1, <2>1, PaperAssumption DEF CashInv, Priced
  <2>3. PositionsHeld' /\ made' \in Nat /\ made <= made'
    <3>1. CASE mine[r].position = NoPosition
      <4>1. PICK a : a = IF market = "CN" THEN 0 ELSE mine[r].quantity
        OBVIOUS
      <4>2. a \in Int /\ made' = made + 1
        BY <1>13, <2>2, <3>1, <4>1 DEF TakeShares
      <4>3. positions' = Append(positions, [id |-> made', quantity |-> mine[r].quantity,
                                            available |-> a])
        BY <1>13, <3>1, <4>1 DEF TakeShares
      <4>4. PositionsHeld'
        BY <1>2, <2>2, <4>2, <4>3, NewPositionHeld
      <4> QED BY <1>2, <4>2, <4>4
    <3>2. CASE mine[r].position # NoPosition
      <4>1. PICK old : old = mine[r].position
        OBVIOUS
      <4>2. old \in PositionType /\ old.id <= made
        BY <1>2, <3>2, <4>1 DEF RecallHeld
      <4>3. PICK new \in Int : new = old.quantity + mine[r].quantity
        BY <2>2, <4>2 DEF PositionType
      <4>4. PICK a : a = IF market = "CN" THEN old.available ELSE new
        OBVIOUS
      <4>5. a \in Int
        BY <4>2, <4>4 DEF PositionType
      <4>6. positions' = Updated(old, new, a) /\ UNCHANGED made
        BY <1>13, <3>2, <4>1, <4>3, <4>4 DEF TakeShares
      <4>7. PositionsHeld'
        BY <1>2, <4>2, <4>5, <4>6, UpdateHeld
      <4> QED BY <1>2, <4>6, <4>7
    <3> QED BY <3>1, <3>2
  <2>4. at' \in [Requests -> Awaits] /\ \A o \in Requests : RecallHeld(o)'
    BY <2>1, <2>3, RecallStays DEF Awaits
  <2>5. TradesHeld' /\ orders' \in Nat
    BY <1>2, <2>1, TradesKept DEF Still
  <2> QED BY <1>1, <2>1, <2>3, <2>4, <2>5, StillRest
<1>14. CASE ReadHolding(r)
  <2>1. /\ PositionsHeld' /\ TradesHeld' /\ orders' \in Nat /\ made' \in Nat
        /\ Still /\ UNCHANGED made
    BY <1>14, HoldingsStay DEF ReadHolding, Still, books
  <2>2. \A n : Recalls("holding", [mine[r] EXCEPT !.total = n])
    BY <1>2, <1>5 DEF RecallHeld, Recalls
  <2>3. \E n : Keep(r, "holding", [mine[r] EXCEPT !.total = n])
    BY <1>14, Zenon DEF ReadHolding
  <2>4. at' \in [Requests -> Awaits] /\ \A o \in Requests : RecallHeld(o)'
    <3>1. PICK n : Keep(r, "holding", [mine[r] EXCEPT !.total = n])
      BY <2>3
    <3>2. "holding" \in Awaits /\ made <= made' /\ made' \in Nat
      BY <1>2, <2>1 DEF Awaits
    <3> QED BY <2>2, <3>1, <3>2, RecallMoves
  <2> QED BY <1>1, <2>1, <2>4, StillRest
<1>15. CASE CheckRules(r) \/ CountBuys(r)
  <2>1. /\ PositionsHeld' /\ TradesHeld' /\ orders' \in Nat /\ made' \in Nat
        /\ Still /\ UNCHANGED made
    BY <1>15, HoldingsStay DEF CheckRules, CountBuys, Still, books
  <2>2. \/ Answer(r)
        \/ Go(r, "counting") /\ UNCHANGED mine
        \/ Go(r, "credit") /\ UNCHANGED mine /\ mine[r].position # NoPosition
    BY <1>15 DEF CheckRules, CountBuys, Decide
  <2>3. at' \in [Requests -> Awaits] /\ \A o \in Requests : RecallHeld(o)'
    <3>1. "credit" \in Awaits /\ "counting" \in Awaits /\ made <= made' /\ made' \in Nat
      BY <1>2, <2>1 DEF Awaits
    <3>2. CASE Answer(r)
      BY <1>4, <2>1, <3>2
    <3>3. CASE Go(r, "credit") /\ UNCHANGED mine /\ mine[r].position # NoPosition
      BY <3>1, <3>3, RecallStays
    <3>4. CASE Go(r, "counting") /\ UNCHANGED mine
      BY <3>1, <3>4, RecallStays
    <3> QED BY <2>2, <3>2, <3>3, <3>4
  <2> QED BY <1>1, <2>1, <2>3, StillRest
<1>16. CASE Credit(r)
  <2>1. /\ PositionsHeld' /\ TradesHeld' /\ orders' \in Nat /\ made' \in Nat
        /\ Still /\ UNCHANGED <<made, mine>> /\ Go(r, "sold") /\ at[r] = "credit"
    BY <1>2, <1>16, PositionsStay, TradesKept DEF Credit, Still
  <2>2. at' \in [Requests -> Awaits] /\ \A o \in Requests : RecallHeld(o)'
    <3>1. mine[r].position # NoPosition
      BY <1>2, <2>1 DEF RecallHeld
    <3>2. "sold" \in Awaits /\ made <= made'
      BY <1>2, <2>1 DEF Awaits
    <3> QED BY <2>1, <3>1, <3>2, RecallStays
  <2> QED BY <1>1, <2>1, <2>2, StillRest
<1>17. CASE GiveShares(r)
  <2>1. /\ Go(r, "order") /\ Still /\ UNCHANGED <<accounts, orders, trades, made, mine>>
        /\ at[r] = "sold"
    BY <1>17 DEF GiveShares
  <2>2. PICK old : old = mine[r].position
    OBVIOUS
  <2>3. old \in PositionType /\ old.id <= made /\ mine[r].quantity \in Nat
    BY <1>1, <1>2, <2>1, <2>2, PaperAssumption DEF RecallHeld, CashInv, Priced
  <2>4. PICK new \in Int : new = old.quantity - mine[r].quantity
    BY <2>3 DEF PositionType
  <2>5. PositionsHeld'
    <3>1. CASE new = 0
      <4>1. positions' = RemoveFirstMatch(positions, LAMBDA p : p.id = old.id)
        BY <1>17, <2>2, <2>4, <3>1 DEF GiveShares
      <4>2. UNCHANGED made
        BY <2>1
      <4>3. PICK id : id = old.id
        OBVIOUS
      <4>4. PICK I : I = {i \in 1 .. Len(positions) : positions[i].id = id}
        OBVIOUS
      <4>5. positions' = IF I = {} THEN positions ELSE RemoveAt(positions, Min(I))
        BY <4>1, <4>3, <4>4 DEF RemoveFirstMatch, SelectInSeq
      <4>6. PositionsHeld
        BY <1>2
      <4> QED BY <4>2, <4>4, <4>5, <4>6, RemovalHeld
    <3>2. CASE new # 0
      <4>1. LeftAvailable(r) \in Int
        <5>1. PICK k \in Int : k = old.available - mine[r].quantity
          BY <2>3 DEF PositionType
        <5>2. Max({0, k}) \in {0, k}
          BY <5>1, GreatestIs
        <5> QED BY <2>2, <5>1, <5>2 DEF LeftAvailable
      <4>2. positions' = Updated(old, new, LeftAvailable(r))
        BY <1>17, <2>2, <2>4, <3>2 DEF GiveShares
      <4> QED BY <1>2, <2>1, <2>3, <4>1, <4>2, UpdateHeld
    <3> QED BY <3>1, <3>2
  <2>6. at' \in [Requests -> Awaits] /\ \A o \in Requests : RecallHeld(o)'
    BY <1>2, <1>6, <2>1 DEF Awaits
  <2>7. TradesHeld' /\ orders' \in Nat /\ made' \in Nat
    BY <1>2, <2>1, TradesKept DEF Still
  <2> QED BY <1>1, <2>1, <2>5, <2>6, <2>7, StillRest
<1>18. CASE InsertOrder(r)
  <2>1. /\ PositionsHeld' /\ TradesHeld' /\ orders' \in Nat /\ made' \in Nat
        /\ Still /\ UNCHANGED <<made, mine>> /\ Go(r, "trade")
    BY <1>2, <1>18, PositionsStay, TradesKept DEF InsertOrder, Still
  <2> QED BY <1>1, <1>6, <2>1, StillRest DEF Awaits
<1>19. CASE InsertTrade(r)
  <2>1. /\ PositionsHeld' /\ orders' \in Nat /\ made' \in Nat
        /\ Still /\ UNCHANGED made /\ Answer(r) /\ at[r] = "trade"
    BY <1>2, <1>19, PositionsStay DEF InsertTrade, Still
  <2>2. TradesHeld'
    <3>1. PICK t : t = [side |-> mine[r].side, quantity |-> mine[r].quantity,
                        price |-> mine[r].price, day |-> day,
                        commission |-> mine[r].commission]
      OBVIOUS
    <3>2. day \in Nat /\ mine[r].side \in {"buy", "sell"} /\ mine[r].quantity \in Quantities
          /\ mine[r].price \in Prices /\ mine[r].commission \in {0, Commission}
      BY <1>1, <1>2, <2>1, PaperAssumption DEF PaperTypeInv, CountsTyped, CashInv, Priced, RecallHeld
    <3>3. t \in [side : {"buy", "sell"}, quantity : Quantities, price : Prices, day : Nat,
                 commission : {0, Commission}]
          /\ t.day = day
      BY <3>1, <3>2
    <3>4. trades' = Append(trades, t)
      BY <1>19, <3>1 DEF InsertTrade
    <3> DEFINE T == [side : {"buy", "sell"}, quantity : Quantities, price : Prices, day : Nat,
                      commission : {0, Commission}]
    <3>5. trades \in Seq(T)
      BY DEF PaperTypeInv, TradesHeld
    <3>6. t \in T
      BY <3>3
    <3> HIDE DEF T
    <3>7. /\ trades' \in Seq(T) /\ Len(trades') = Len(trades) + 1
          /\ \A i \in 1 .. Len(trades) : trades'[i] = trades[i]
          /\ trades'[Len(trades) + 1] = t
      BY <3>4, <3>5, <3>6, AppendProperties
    <3>8. /\ Len(trades) \in Nat /\ DOMAIN trades = 1 .. Len(trades)
          /\ DOMAIN trades' = 1 .. Len(trades) + 1
      BY <3>5, <3>7, LenProperties
    <3>9. \A i \in DOMAIN trades' : trades'[i].day <= day
      <4>1. \A i \in DOMAIN trades : trades[i].day <= day
        BY DEF PaperTypeInv, TradesHeld
      <4> QED BY <3>2, <3>3, <3>7, <3>8, <4>1
    <3> QED BY <2>1, <3>7, <3>9 DEF TradesHeld, T, Still
  <2> QED BY <1>1, <1>4, <2>1, <2>2, StillRest
<1>20. CASE Reset(r)
  <2>1. /\ orders' \in Nat /\ Still /\ UNCHANGED <<made, mine>>
        /\ \E await \in {"positions", "orders", "trades", "account"} : Go(r, await)
    BY <1>2, <1>20 DEF Reset, DeleteAccounts, DeletePositions, DeleteOrders, DeleteTrades
  <2>2. PositionsHeld'
    <3>1. CASE UNCHANGED positions
      BY <2>1, <3>1, PositionsStay
    <3>2. CASE positions' = <<>>
      BY <3>2, EmptySeq DEF PositionsHeld, DistinctIds
    <3> QED BY <1>20, <3>1, <3>2
            DEF Reset, DeleteAccounts, DeletePositions, DeleteOrders, DeleteTrades
  <2>3. TradesHeld'
    <3>1. CASE UNCHANGED trades
      BY <2>1, <3>1, TradesKept DEF Still
    <3>2. CASE trades' = <<>>
      BY <3>2, EmptySeq DEF TradesHeld
    <3> QED BY <1>20, <3>1, <3>2
            DEF Reset, DeleteAccounts, DeletePositions, DeleteOrders, DeleteTrades
  <2>4. at' \in [Requests -> Awaits] /\ \A o \in Requests : RecallHeld(o)'
    BY <1>6, <2>1 DEF Awaits
  <2> QED BY <1>1, <1>2, <2>1, <2>2, <2>3, <2>4, StillRest
<1> QED BY <1>7, <1>8, <1>9, <1>10, <1>11, <1>12, <1>13, <1>14, <1>15, <1>16, <1>17, <1>18, <1>19,
           <1>20 DEF Buy, Sell

LEMMA PaperTypeStep ==
    ASSUME PaperAssumption, PaperTypeInv, [PaperNext]_paperVars
    PROVE  PaperTypeInv'
<1>1. CASE UNCHANGED paperVars \/ InsertRules \/ DeleteRules
  <2>1. CashInv'
    BY <1>1, CashStep DEF PaperTypeInv, PaperNext
  <2>2. /\ UNCHANGED <<market, books, day, request, sent, errors, overlapped>>
        /\ rules' \in BOOLEAN /\ ruledAllDay' \in BOOLEAN
    BY <1>1 DEF paperVars, history, InsertRules, DeleteRules, PaperTypeInv, CountsTyped
  <2> QED BY <2>1, <2>2 DEF books, request, PaperTypeInv, CountsTyped, PositionsHeld,
                        DistinctIds, TradesHeld, RecallHeld
<1>2. CASE NewDay
  <2>1. CashInv'
    BY <1>2, CashStep DEF PaperTypeInv, PaperNext
  <2>2. day \in Nat /\ day' = day + 1 /\ day' \in 0 .. MaxDays
        /\ UNCHANGED <<market, rules, books, request, sent, errors, overlapped>>
        /\ ruledAllDay' \in BOOLEAN
    BY <1>2, PaperAssumption DEF NewDay, PaperTypeInv, CountsTyped
  <2>3. TradesHeld'
    <3>1. \A i \in DOMAIN trades : trades[i].day \in Nat /\ trades[i].day <= day
      <4> DEFINE T == [side : {"buy", "sell"}, quantity : Quantities, price : Prices, day : Nat,
                      commission : {0, Commission}]
      <4>1. trades \in Seq(T)
        BY DEF PaperTypeInv, TradesHeld
      <4>2. \A t \in T : t.day \in Nat
        OBVIOUS
      <4> HIDE DEF T
      <4>3. \A i \in DOMAIN trades : trades[i] \in T
        BY <4>1, ElementOfSeq, LenProperties
      <4> QED BY <4>2, <4>3 DEF PaperTypeInv, TradesHeld
    <3>2. \A n \in Nat : n <= day => n <= day'
      BY <2>2
    <3> QED BY <2>2, <3>1, <3>2 DEF books, PaperTypeInv, TradesHeld
  <2>4. PositionsHeld' /\ \A r \in Requests : RecallHeld(r)'
    BY <2>2 DEF books, request, PaperTypeInv, PositionsHeld, DistinctIds, RecallHeld
  <2> QED BY <2>1, <2>2, <2>3, <2>4 DEF PaperTypeInv, CountsTyped, books, request
<1> QED BY <1>1, <1>2, PaperRequestTyped DEF PaperNext

LEMMA PaperTypeStarts ==
    ASSUME PaperAssumption, PaperInit
    PROVE  PaperTypeInv
<1>1. CashInv
  BY Fields, EmptySeq DEF PaperInit, CashInv, Solvent, Unsent, Priced
<1>2. PositionsHeld /\ TradesHeld
  BY EmptySeq DEF PaperInit, PositionsHeld, DistinctIds, TradesHeld
<1>3. \A r \in Requests : RecallHeld(r)
  BY DEF PaperInit, RecallHeld, Unsent, NoPosition
<1>4. CountsTyped
  <2>1. at \in [Requests -> Awaits]
    BY DEF PaperInit, Awaits
  <2>2. /\ orders \in Nat /\ made \in Nat /\ day \in 0 .. MaxDays
        /\ sent \in 0 .. MaxOrders /\ errors \in 0 .. MaxErrors
    BY PaperAssumption DEF PaperInit
  <2>3. market \in Markets /\ overlapped \in BOOLEAN /\ rules \in BOOLEAN /\ ruledAllDay \in BOOLEAN
    BY Zenon DEF PaperInit
  <2> QED BY <2>1, <2>2, <2>3 DEF CountsTyped
<1> QED BY <1>1, <1>2, <1>3, <1>4 DEF PaperTypeInv

LEMMA PaperTypeFollows ==
    ASSUME PaperAssumption, PaperTypeInv
    PROVE  PaperTypeOK
<1>1. \A i \in DOMAIN accounts : accounts[i] \in Int
  BY ElementOfSeq, LenProperties DEF PaperTypeInv, CashInv, Solvent
<1>2. \A i \in DOMAIN positions : positions[i] \in PositionType /\ positions[i].id <= made
  BY ElementOfSeq, LenProperties DEF PaperTypeInv, PositionsHeld
<1>3. ASSUME NEW i \in DOMAIN positions
      PROVE  /\ positions[i].id \in 1 .. made /\ positions[i].quantity \in Int
             /\ positions[i].available \in Int
             /\ \A j \in DOMAIN positions : positions[i].id = positions[j].id => i = j
  BY <1>2, <1>3 DEF PaperTypeInv, PositionsHeld, DistinctIds, PositionType, CountsTyped
<1>4. ASSUME NEW i \in DOMAIN trades
      PROVE  /\ trades[i].side \in {"buy", "sell"} /\ trades[i].quantity \in Quantities
             /\ trades[i].price \in Prices /\ trades[i].day \in 0 .. day
             /\ trades[i].commission \in {0, Commission}
  <2> DEFINE T == [side : {"buy", "sell"}, quantity : Quantities, price : Prices, day : Nat,
                      commission : {0, Commission}]
  <2>1. trades \in Seq(T)
    BY DEF PaperTypeInv, TradesHeld
  <2> HIDE DEF T
  <2>2. trades[i] \in T
    BY <2>1, ElementOfSeq, LenProperties
  <2> QED BY <2>2 DEF T, PaperTypeInv, TradesHeld, CountsTyped
<1>5. \A r \in Requests : mine[r].side \in {"buy", "sell", "reset"}
  BY DEF PaperTypeInv, CashInv
<1>6. losses \in Nat
  BY DEF PaperTypeInv, CashInv, Solvent
<1> QED BY <1>1, <1>3, <1>4, <1>5, <1>6 DEF PaperTypeInv, PaperTypeOK, CountsTyped

\* Every variable of an account stays in its domain, however the orders overlap
\* and whichever Mongo call raises: no two positions have the same _id, and a
\* position that is credited or reduced is one that was read (place_order).
THEOREM PaperTypeCorrect == PaperSpec => []PaperTypeOK
<1>1. PaperInit => PaperTypeInv
  BY PaperTypeStarts, PaperAssumption
<1>2. PaperTypeInv /\ [PaperNext]_paperVars => PaperTypeInv'
  BY PaperTypeStep, PaperAssumption
<1>3. PaperTypeInv => PaperTypeOK
  BY PaperTypeFollows, PaperAssumption
<1> QED BY <1>1, <1>2, <1>3, PTL DEF PaperSpec

-----------------------------------------------------------------------------
\* The domains of the quotes and of the sources.

\* Of an asker: it is idle with nothing of an earlier request left, and asks
\* providers while it has one left.
AskerShape(a) ==
    /\ a.at = "fetch" <=> a.queue # <<>>
    /\ a.at = "idle" => a = NoRequest
    /\ a.at = "lock" => a.locks

QuotesShape == \A r \in QuoteRequests : AskerShape(asker[r])

LEMMA NobodyFits == AskerShape(NoRequest)
BY DEF AskerShape, NoRequest

LEMMA ShapeMoves ==
    ASSUME QuotesInv, QuotesShape, NEW r \in QuoteRequests, NEW new,
           asker' = [asker EXCEPT ![r] = new], AskerShape(new)
    PROVE  QuotesShape'
<1>1. \A q \in QuoteRequests : asker'[q] = IF q = r THEN new ELSE asker[q]
  BY DEF QuotesInv, QuotesTyped
<1>2. ASSUME NEW q \in QuoteRequests
      PROVE  AskerShape(asker[q])'
  <2>1. CASE q = r
    BY <1>1, <2>1 DEF AskerShape
  <2>2. CASE q # r
    BY <1>1, <2>2 DEF AskerShape, QuotesShape
  <2> QED BY <2>1, <2>2
<1> QED BY <1>2 DEF QuotesShape

\* A history that is set or reset leaves the rest of an asker that is at work
\* as it is.
LEMMA ShapeMarks ==
    ASSUME NEW a \in Askers, AskerShape(a), NEW mark \in BOOLEAN,
           a.at = "idle" => ~ mark
    PROVE  AskerShape([a EXCEPT !.covered = mark])
<1>1. PICK b : b = [a EXCEPT !.covered = mark]
  OBVIOUS
<1>2. b.at = a.at /\ b.queue = a.queue /\ b.locks = a.locks
  BY <1>1 DEF Askers
<1>3. ASSUME a.at = "idle"
      PROVE  b = NoRequest
  <2>1. a = NoRequest /\ mark = FALSE
    BY <1>3 DEF AskerShape
  <2> QED BY <1>1, <2>1 DEF NoRequest
<1> QED BY <1>1, <1>2, <1>3 DEF AskerShape

LEMMA ShapeStep ==
    ASSUME QuotesInv, QuotesShape, QuotesAssumption, [QuotesNext]_quoteVars
    PROVE  QuotesShape'
<1>a. \A r \in QuoteRequests : asker[r] \in Askers
  BY DEF QuotesInv, QuotesTyped
<1>1. CASE UNCHANGED quoteVars
  BY <1>1 DEF quoteVars, QuotesShape, AskerShape
<1>2. ASSUME NEW r \in QuoteRequests, NEW s \in Stocks, NEW force \in BOOLEAN,
             NEW locks \in BOOLEAN, AskQuote(r, s, force, locks)
      PROVE  QuotesShape'
  <2>1. CASE UNCHANGED asker
    BY <2>1 DEF QuotesShape, AskerShape
  <2>2. CASE ~ UNCHANGED asker
    <3> DEFINE stage == IF locks THEN "lock" ELSE "order"
               new == Filling(NoRequest, stage, s, force, locks)
    <3>1. asker' = [asker EXCEPT ![r] = new]
      BY <1>2, <2>2 DEF AskQuote, Filling
    <3>2. new.at = stage /\ new.locks = locks /\ new.queue = <<>>
      BY DEF Filling, NoRequest
    <3>3. stage \in {"lock", "order"} /\ (stage = "lock" => locks)
      OBVIOUS
    <3> HIDE DEF stage
    <3>4. AskerShape(new)
      BY <3>2, <3>3 DEF AskerShape
    <3> HIDE DEF new
    <3> QED BY <3>1, <3>4, ShapeMoves
  <2> QED BY <2>1, <2>2
<1>3. ASSUME NEW r \in QuoteRequests, TakeLock(r)
      PROVE  QuotesShape'
  <2>1. CASE RequestEnds(r)
    BY <2>1, NobodyFits, ShapeMoves DEF RequestEnds
  <2>2. CASE asker' = [asker EXCEPT ![r].at = "order"]
    <3> DEFINE new == [asker[r] EXCEPT !.at = "order"]
    <3>1. asker' = [asker EXCEPT ![r] = new]
      BY <2>2 DEF QuotesInv, QuotesTyped
    <3>2. new.at = "order" /\ new.queue = asker[r].queue
      BY <1>a DEF Askers
    <3>3. asker[r].queue = <<>>
      BY <1>3 DEF TakeLock, QuotesShape, AskerShape
    <3> HIDE DEF new
    <3>4. AskerShape(new)
      BY <3>2, <3>3 DEF AskerShape
    <3> QED BY <3>1, <3>4, ShapeMoves
  <2> QED BY <1>3, <2>1, <2>2 DEF TakeLock
<1>4. ASSUME NEW r \in QuoteRequests, GetOrder(r)
      PROVE  QuotesShape'
  <2>1. PICK o \in ProviderOrders :
             asker' = [asker EXCEPT ![r].at = "fetch", ![r].queue = o]
    BY <1>4 DEF GetOrder
  <2> DEFINE new == [asker[r] EXCEPT !.at = "fetch", !.queue = o]
  <2>2. o # <<>>
    BY DEF QuotesAssumption
  <2>3. new.at = "fetch" /\ new.queue = o
    BY <1>a DEF Askers
  <2>4. asker' = [asker EXCEPT ![r] = new]
    BY <2>1 DEF QuotesInv, QuotesTyped
  <2> HIDE DEF new
  <2>5. AskerShape(new)
    BY <2>2, <2>3 DEF AskerShape
  <2> QED BY <2>4, <2>5, ShapeMoves
<1>5. ASSUME NEW r \in QuoteRequests, FetchSucceeds(r)
      PROVE  QuotesShape'
  <2>1. CASE RequestEnds(r)
    BY <2>1, NobodyFits, ShapeMoves DEF RequestEnds
  <2>2. CASE asker' = Covers([asker EXCEPT ![r] = NoRequest], asker[r].stock)
    <3>1. PICK freed : freed = [asker EXCEPT ![r] = NoRequest]
      OBVIOUS
    <3>2. \A q \in QuoteRequests : freed[q] \in Askers /\ AskerShape(freed[q])
      BY <1>a, <3>1, Nobody, NobodyFits DEF QuotesInv, QuotesTyped, QuotesShape
    <3>3. ASSUME NEW q \in QuoteRequests
          PROVE  AskerShape(asker[q])'
      <4>1. PICK a \in Askers : a = freed[q] /\ AskerShape(a)
        BY <3>2
      <4>2. asker'[q] = a \/ (a.at = "lock" /\ asker'[q] = [a EXCEPT !.covered = TRUE])
        BY <2>2, <3>1, <4>1 DEF Covers
      <4>3. a.at = "lock" => AskerShape([a EXCEPT !.covered = TRUE])
        BY <4>1, ShapeMarks
      <4> QED BY <4>1, <4>2, <4>3 DEF AskerShape
    <3> QED BY <3>3 DEF QuotesShape
  <2> QED BY <1>5, <2>1, <2>2 DEF FetchSucceeds
<1>6. ASSUME NEW r \in QuoteRequests, FetchFails(r)
      PROVE  QuotesShape'
  <2>1. CASE RequestEnds(r)
    BY <2>1, NobodyFits, ShapeMoves DEF RequestEnds
  <2>2. CASE ~ RequestEnds(r)
    <3> DEFINE new == [asker[r] EXCEPT !.queue = Tail(asker[r].queue)]
    <3>1. /\ asker[r].at = "fetch" /\ asker[r].queue # <<>> /\ Len(asker[r].queue) # 1
          /\ asker' = [asker EXCEPT ![r] = new]
      BY <1>6, <2>2 DEF FetchFails, QuotesInv, QuotesTyped
    <3>2. Tail(asker[r].queue) # <<>>
      <4>1. asker[r].queue \in Seq(STRING)
        BY <1>a DEF Askers
      <4>2. Len(asker[r].queue) \in Nat \ {0}
        BY <3>1, <4>1, EmptySeq
      <4>3. /\ Tail(asker[r].queue) \in Seq(STRING)
            /\ Len(Tail(asker[r].queue)) = Len(asker[r].queue) - 1
        BY <3>1, <4>1, HeadTailProperties
      <4>4. Len(Tail(asker[r].queue)) # 0
        BY <3>1, <4>2, <4>3
      <4> QED BY <4>3, <4>4, EmptySeq
    <3>3. new.at = "fetch" /\ new.queue # <<>>
      BY <1>a, <3>1, <3>2 DEF Askers
    <3> HIDE DEF new
    <3>4. AskerShape(new)
      BY <3>3 DEF AskerShape
    <3> QED BY <3>1, <3>4, ShapeMoves
  <2> QED BY <2>1, <2>2
<1>7. ASSUME NEW s \in Stocks, Older(s)
      PROVE  QuotesShape'
  <2>1. ASSUME NEW r \in QuoteRequests
        PROVE  AskerShape(asker[r])'
    <3>1. PICK mark \in BOOLEAN :
             /\ asker'[r] = [asker[r] EXCEPT !.covered = mark]
             /\ mark => asker[r].covered
      <4> DEFINE still == asker[r].covered
                            /\ (asker[r].stock = s => GoodEnough(asker[r].force, cached'[s]))
      <4>1. asker'[r] = [asker[r] EXCEPT !.covered = still]
        BY <1>7 DEF Older
      <4>2. still \in BOOLEAN /\ (still => asker[r].covered)
        OBVIOUS
      <4> HIDE DEF still
      <4> QED BY <4>1, <4>2
    <3>2. asker[r].at = "idle" => ~ mark
      BY <3>1 DEF QuotesInv, CoveredServed
    <3>3. PICK a \in Askers : a = asker[r] /\ AskerShape(a)
      BY <1>a DEF QuotesShape
    <3>4. AskerShape([a EXCEPT !.covered = mark])
      BY <3>2, <3>3, ShapeMarks
    <3> QED BY <3>1, <3>3, <3>4 DEF AskerShape
  <2> QED BY <2>1 DEF QuotesShape
<1> QED BY <1>1, <1>2, <1>3, <1>4, <1>5, <1>6, <1>7 DEF QuotesNext, QuoteStep

LEMMA QuotesHold == QuotesInit /\ [][QuotesNext]_quoteVars => [](QuotesInv /\ QuotesShape)
<1> USE QuotesAssumption
<1>1. QuotesInit => QuotesInv /\ QuotesShape
  BY QuotesStart, NobodyFits DEF QuotesInit, QuotesShape
<1>2. QuotesInv /\ QuotesShape /\ [QuotesNext]_quoteVars => QuotesInv' /\ QuotesShape'
  BY QuotesStep, ShapeStep
<1> QED BY <1>1, <1>2, PTL

\* Every variable of the foreign quotes stays in its domain; a request asks
\* providers exactly while it has one left to ask, is idle with nothing left of
\* an earlier one, and is covered only if it takes the lock (get_quote).
THEOREM QuotesTypeCorrect == QuotesSpec => []QuotesTypeOK
<1>1. QuotesInv /\ QuotesShape => QuotesTypeOK
  <2> SUFFICES ASSUME QuotesInv, QuotesShape, NEW r \in QuoteRequests
               PROVE  /\ asker[r].at \in {"idle", "lock", "order", "fetch"}
                      /\ asker[r].at = "fetch" <=> asker[r].queue # <<>>
                      /\ asker[r].at = "idle" <=> asker[r] = NoRequest
                      /\ asker[r].covered => asker[r].locks
    BY DEF QuotesTypeOK, QuotesInv, QuotesTyped
  <2>1. asker[r].at \in {"idle", "lock", "order", "fetch"}
    BY DEF QuotesInv, QuotesTyped, Askers
  <2>2. /\ asker[r].at = "fetch" <=> asker[r].queue # <<>>
        /\ asker[r].at = "idle" => asker[r] = NoRequest
        /\ asker[r].at = "lock" => asker[r].locks
    BY DEF QuotesShape, AskerShape
  <2>3. asker[r] = NoRequest => asker[r].at = "idle"
    BY Nobody
  <2>4. asker[r].covered => asker[r].at = "lock"
    BY DEF QuotesInv, CoveredServed
  <2> QED BY <2>1, <2>2, <2>3, <2>4
<1> QED BY <1>1, QuotesHold, PTL DEF QuotesSpec

-----------------------------------------------------------------------------
\* A source is saved only while it is to be restored, and there is a queue only
\* while its candidates are tried.
KeptTidy(k) ==
    /\ k.at \notin {"set", "swapped", "restore"} => k.saved = "none"
    /\ k.queue # <<>> => k.at = "try"

SourcesTidy == \A t \in Threads : KeptTidy(ask[t])

LEMMA TidyMoves ==
    ASSUME SourcesInv, SourcesTidy, NEW t \in Threads, NEW new,
           ask' = [ask EXCEPT ![t] = new], KeptTidy(new)
    PROVE  SourcesTidy'
<1>1. \A u \in Threads : ask'[u] = IF u = t THEN new ELSE ask[u]
  BY DEF SourcesInv
<1>2. ASSUME NEW u \in Threads
      PROVE  KeptTidy(ask[u])'
  <2>1. CASE u = t
    BY <1>1, <2>1 DEF KeptTidy
  <2>2. CASE u # t
    BY <1>1, <2>2 DEF KeptTidy, SourcesTidy
  <2> QED BY <2>1, <2>2
<1> QED BY <1>2 DEF SourcesTidy

LEMMA TidySets ==
    ASSUME NEW s, NEW asking, Sets(s, asking),
           \A u \in Threads : DOMAIN asking[u] = DOMAIN NoAsk /\ KeptTidy(asking[u])
    PROVE  SourcesTidy'
<1>1. ASSUME NEW u \in Threads
      PROVE  KeptTidy(ask[u])'
  <2>1. ask'[u] = [asking[u] EXCEPT !.calm = @ /\ s = currentSource]
    BY DEF Sets
  <2>2. ask'[u].at = asking[u].at /\ ask'[u].saved = asking[u].saved
        /\ ask'[u].queue = asking[u].queue
    BY <2>1, AskFields
  <2> QED BY <2>2 DEF KeptTidy
<1> QED BY <1>1 DEF SourcesTidy

LEMMA TidyStep ==
    ASSUME SourcesInv, SourcesTidy, [SourcesNext]_sourceVars
    PROVE  SourcesTidy'
<1>1. CASE UNCHANGED sourceVars
  BY <1>1 DEF sourceVars, SourcesTidy, KeptTidy
<1>2. ASSUME NEW s \in Sources, Switch(s)
      PROVE  SourcesTidy'
  <2>1. Sets(s, ask)
    BY <1>2 DEF Switch
  <2>2. \A u \in Threads : DOMAIN ask[u] = DOMAIN NoAsk /\ KeptTidy(ask[u])
    BY DEF SourcesInv, SoundAsk, SourcesTidy
  <2> QED BY <2>1, <2>2, TidySets
<1>3. ASSUME NEW t \in Threads,
             \/ \E op \in Swaps \cup {"data", "frame"} : Ask(t, op)
             \/ Choose(t) \/ Own(t) \/ Fall(t) \/ Try(t)
             \/ SwapSave(t) \/ SwapSet(t) \/ SwapCall(t) \/ SwapRestore(t)
             \/ AskEnds(t)
      PROVE  SourcesTidy'
  <2>0. PICK k : k = ask[t]
    OBVIOUS
  <2>1. /\ KeptTidy(k) /\ DOMAIN ask = Threads
        /\ DOMAIN k = {"op", "at", "of", "pos", "queue", "again", "saved", "tried", "calm"}
    BY <2>0, AskFields DEF SourcesTidy, SourcesInv, SoundAsk
  <2>2. ASSUME NEW op \in Swaps \cup {"data", "frame"}, Ask(t, op)
        PROVE  SourcesTidy'
    <3> DEFINE new == [NoAsk EXCEPT !.op = op, !.at = IF op \in Swaps THEN "save" ELSE "choose",
                                    !.pos = 1]
    <3>1. ask' = [ask EXCEPT ![t] = new]
      BY <2>2 DEF Ask
    <3>2. new.saved = "none" /\ new.queue = <<>>
      BY DEF NoAsk
    <3> HIDE DEF new
    <3> QED BY <3>1, <3>2, TidyMoves DEF KeptTidy
  <2>3. CASE Choose(t)
    <3>1. k.at = "choose" /\ k.queue = <<>> /\ k.saved = "none"
      BY <2>0, <2>1, <2>3 DEF Choose, KeptTidy
    <3>2. PICK new : /\ ask' = [ask EXCEPT ![t] = new]
                     /\ new.queue = k.queue /\ new.saved = k.saved
                     /\ new.at \in {"choose", "own", "fall"}
      <4>1. CASE k.pos > Len(Chain)
        <5> WITNESS [k EXCEPT !.at = "fall"]
        <5> QED BY <2>0, <2>1, <2>3, <4>1 DEF Choose
      <4>2. CASE ~ (k.pos > Len(Chain)) /\ currentSource = Chain[k.pos]
        <5> WITNESS [k EXCEPT !.at = "own", !.of = Chain[k.pos]]
        <5> QED BY <2>0, <2>1, <2>3, <4>2 DEF Choose
      <4>3. CASE ~ (k.pos > Len(Chain)) /\ currentSource # Chain[k.pos]
        <5> WITNESS [k EXCEPT !.pos = @ + 1]
        <5> QED BY <2>0, <2>1, <2>3, <3>1, <4>3 DEF Choose
      <4> QED BY <4>1, <4>2, <4>3
    <3> QED BY <3>1, <3>2, TidyMoves DEF KeptTidy
  <2>4. CASE Own(t)
    <3>1. k.at = "own" /\ k.queue = <<>> /\ k.saved = "none"
      BY <2>0, <2>1, <2>4 DEF Own, KeptTidy
    <3>2. PICK answer \in {"served", "failed", "fall"} :
             answer = CASE Gives(k.of) = "data" -> "served"
                        [] Gives(k.of) = "error" /\ k.op = "frame" -> "failed"
                        [] OTHER -> "fall"
      OBVIOUS
    <3> DEFINE new == [k EXCEPT !.tried = Append(@, k.of),
                                !.again = k.op = "data" /\ k.of = "mongodb", !.at = answer]
    <3>3. ask' = [ask EXCEPT ![t] = new]
      BY <2>0, <2>4, <3>2 DEF Own
    <3>4. new.queue = k.queue /\ new.saved = k.saved /\ new.at = answer
      BY <2>1
    <3> HIDE DEF new
    <3> QED BY <3>1, <3>2, <3>3, <3>4, TidyMoves DEF KeptTidy
  <2>5. CASE Fall(t)
    <3>1. k.at = "fall" /\ k.saved = "none"
      BY <2>0, <2>1, <2>5 DEF Fall, KeptTidy
    <3>2. PICK o : ask' = [ask EXCEPT ![t].at = "try", ![t].queue = o]
      BY <2>5 DEF Fall
    <3> DEFINE new == [k EXCEPT !.at = "try", !.queue = o]
    <3>3. ask' = [ask EXCEPT ![t] = new] /\ new.saved = k.saved /\ new.at = "try"
      BY <2>0, <2>1, <3>2
    <3> HIDE DEF new
    <3> QED BY <3>1, <3>3, TidyMoves DEF KeptTidy
  <2>6. CASE Try(t)
    <3>1. k.at = "try" /\ k.saved = "none"
      BY <2>0, <2>1, <2>6 DEF Try, KeptTidy
    <3>2. PICK new : /\ ask' = [ask EXCEPT ![t] = new]
                     /\ new.saved = k.saved /\ new.at \notin {"set", "swapped", "restore"}
                     /\ new.at = "try" \/ new.queue = <<>>
      <4>1. CASE k.queue = <<>> /\ k.again
        <5> WITNESS [k EXCEPT !.again = Again(t), !.at = "fall"]
        <5> QED BY <2>0, <2>1, <2>6, <4>1 DEF Try
      <4>2. CASE k.queue = <<>> /\ ~ k.again
        <5> WITNESS [k EXCEPT !.at = "failed", !.queue = <<>>]
        <5> QED BY <2>0, <2>1, <2>6, <4>2 DEF Try, Answers
      <4>3. CASE k.queue # <<>> /\ Head(k.queue) = currentSource
        <5> WITNESS [k EXCEPT !.queue = Tail(@)]
        <5> QED BY <2>0, <2>1, <2>6, <3>1, <4>3 DEF Try
      <4>4. CASE k.queue # <<>> /\ Head(k.queue) # currentSource /\ Gives(Head(k.queue)) = "data"
        <5> WITNESS [k EXCEPT !.tried = Append(@, Head(k.queue)), !.queue = <<>>, !.at = "served"]
        <5> QED BY <2>0, <2>1, <2>6, <4>4 DEF Try
      <4>5. CASE k.queue # <<>> /\ Head(k.queue) # currentSource /\ Gives(Head(k.queue)) # "data"
        <5> WITNESS [k EXCEPT !.tried = Append(@, Head(k.queue)), !.queue = Tail(@), !.at = @]
        <5> QED BY <2>0, <2>1, <2>6, <3>1, <4>5 DEF Try
      <4> QED BY <4>1, <4>2, <4>3, <4>4, <4>5
    <3> QED BY <3>1, <3>2, TidyMoves DEF KeptTidy
  <2>7. CASE SwapSave(t)
    <3> DEFINE new == [k EXCEPT !.at = "set", !.saved = currentSource]
    <3>1. ask' = [ask EXCEPT ![t] = new] /\ k.at = "save"
      BY <2>0, <2>7 DEF SwapSave
    <3>2. new.at = "set" /\ new.queue = <<>>
      BY <2>1, <3>1 DEF KeptTidy
    <3> HIDE DEF new
    <3> QED BY <3>1, <3>2, TidyMoves DEF KeptTidy
  <2>8. CASE SwapCall(t)
    <3> DEFINE new == [k EXCEPT !.at = "restore"]
    <3>1. ask' = [ask EXCEPT ![t] = new] /\ k.at = "swapped"
      BY <2>0, <2>8 DEF SwapCall
    <3>2. new.at = "restore" /\ new.queue = <<>>
      BY <2>1, <3>1 DEF KeptTidy
    <3> HIDE DEF new
    <3> QED BY <3>1, <3>2, TidyMoves DEF KeptTidy
  <2>9. ASSUME NEW s, NEW new, Sets(s, [ask EXCEPT ![t] = new]),
               DOMAIN new = DOMAIN k, KeptTidy(new)
        PROVE  SourcesTidy'
    <3>1. PICK asking : asking = [ask EXCEPT ![t] = new]
      OBVIOUS
    <3>2. ASSUME NEW u \in Threads
          PROVE  DOMAIN asking[u] = DOMAIN NoAsk /\ KeptTidy(asking[u])
      <4>1. CASE u = t
        BY <2>1, <2>9, <3>1, <4>1, AskFields
      <4>2. CASE u # t
        BY <2>1, <3>1, <4>2 DEF SourcesInv, SoundAsk, SourcesTidy
      <4> QED BY <4>1, <4>2
    <3> QED BY <2>9, <3>1, <3>2, TidySets
  <2>10. CASE SwapSet(t)
    <3>1. PICK s : s = IF k.op = "tushare" THEN "tushare" ELSE "mongodb"
      OBVIOUS
    <3> DEFINE new == [k EXCEPT !.at = "swapped", !.of = s]
    <3>2. Sets(s, [ask EXCEPT ![t] = new]) /\ k.at = "set"
      BY <2>0, <2>1, <2>10, <3>1 DEF SwapSet
    <3>3. DOMAIN new = DOMAIN k /\ new.at = "swapped" /\ new.queue = <<>>
      BY <2>1, <3>2 DEF KeptTidy
    <3> HIDE DEF new
    <3> QED BY <2>9, <3>2, <3>3 DEF KeptTidy
  <2>11. CASE SwapRestore(t)
    <3>1. PICK answer \in {"served", "failed"} :
             answer = IF Gives(k.of) = "data" THEN "served" ELSE "failed"
      OBVIOUS
    <3> DEFINE new == [k EXCEPT !.at = answer, !.saved = "none"]
    <3>2. Sets(k.saved, [ask EXCEPT ![t] = new]) /\ k.at = "restore"
      BY <2>0, <2>1, <2>11, <3>1 DEF SwapRestore
    <3>3. DOMAIN new = DOMAIN k /\ new.at = answer /\ new.queue = <<>> /\ new.saved = "none"
      BY <2>1, <3>2 DEF KeptTidy
    <3> HIDE DEF new
    <3> QED BY <2>9, <3>2, <3>3 DEF KeptTidy
  <2>12. CASE AskEnds(t)
    <3>1. NoAsk.saved = "none" /\ NoAsk.queue = <<>>
      BY DEF NoAsk
    <3> QED BY <2>12, <3>1, TidyMoves DEF AskEnds, KeptTidy
  <2> QED BY <1>3, <2>2, <2>3, <2>4, <2>5, <2>6, <2>7, <2>8, <2>10, <2>11, <2>12
<1> QED BY <1>1, <1>2, <1>3 DEF SourcesNext

LEMMA CallsStart == SourcesInit => CallsInv
<1> SUFFICES ASSUME SourcesInit, NEW t \in Threads
             PROVE  Listed(ask[t]) /\ \A s \in Sources : CallsSound(ask[t], s)
  BY DEF CallsInv
<1>1. ask[t].tried = <<>> /\ ask[t].again = FALSE /\ ask[t].at = "idle"
  BY DEF SourcesInit, NoAsk
<1> QED BY <1>1, NothingCalled

LEMMA SourcesTypeHolds == SourcesInit /\ [][SourcesNext]_sourceVars => []SourcesTypeOK
<1> USE SourcesAssumption
<1>1. SourcesInit => SourcesInv /\ CallsInv /\ SourcesTidy
  <2>1. NoAsk.saved = "none" /\ NoAsk.queue = <<>>
    BY DEF NoAsk
  <2>2. SourcesInit => SourcesTidy
    BY <2>1 DEF SourcesInit, SourcesTidy, KeptTidy
  <2> QED BY <2>2, SourcesStart, CallsStart
<1>2. SourcesInv /\ CallsInv /\ SourcesTidy /\ [SourcesNext]_sourceVars
        => SourcesInv' /\ CallsInv' /\ SourcesTidy'
  BY SourcesStep, CallsStep, TidyStep
<1>3. SourcesInv /\ CallsInv /\ SourcesTidy => SourcesTypeOK
  <2> SUFFICES ASSUME SourcesInv, CallsInv, SourcesTidy, NEW t \in Threads
               PROVE  /\ ask[t].at \in {"idle", "choose", "own", "fall", "try", "save", "set",
                                        "swapped", "restore", "served", "failed"}
                      /\ ask[t].at \in {"set", "swapped", "restore"} <=> ask[t].saved \in Sources
                      /\ ask[t].queue # <<>> => ask[t].at = "try"
                      /\ ToSet(ask[t].tried) \subseteq Sources
    BY DEF SourcesTypeOK, SourcesInv
  <2>1. /\ ask[t].at \in {"idle", "choose", "own", "fall", "try", "save", "set",
                          "swapped", "restore", "served", "failed"}
        /\ ask[t].at \in {"set", "swapped", "restore"} => ask[t].saved \in Sources
    BY DEF SourcesInv, SoundAsk, SwapStages
  <2>2. /\ ask[t].at \notin {"set", "swapped", "restore"} => ask[t].saved = "none"
        /\ ask[t].queue # <<>> => ask[t].at = "try"
    BY DEF SourcesTidy, KeptTidy
  <2>3. "none" \notin Sources
    BY ChainIs
  <2>4. ToSet(ask[t].tried) \subseteq Sources
    <3>1. ask[t].tried \in Seq(Sources)
      BY DEF CallsInv, Listed
    <3> QED BY <3>1, LenProperties DEF ToSet
  <2> QED BY <2>1, <2>2, <2>3, <2>4
<1> QED BY <1>1, <1>2, <1>3, PTL

\* Every variable of the data sources stays in its domain: the current source is
\* one of the four, a source is saved exactly while it is to be restored, and
\* only known sources are called (DataSourceManager).
THEOREM SourcesTypeCorrect == SourcesSpec => []SourcesTypeOK
BY SourcesTypeHolds, PTL DEF SourcesSpec
=============================================================================

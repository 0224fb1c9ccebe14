---------------------------- MODULE PaperTrading ----------------------------
(***************************************************************************)
(* The paper trading account of one user: place_order, reset_account and   *)
(* _get_or_create_account of app/routers/paper.py.  Requests of the user   *)
(* run concurrently and every await on Mongo is a step: an order reads the *)
(* account and the position, checks them, writes the cash, the position,   *)
(* the order and the trade, in that order, with what it read before.       *)
(*                                                                         *)
(* The rules of the market are a document that only a script run by hand   *)
(* inserts and replaces.  Without it nothing is charged and T+1 is not     *)
(* applied; the script may run while orders are in flight.                 *)
(*                                                                         *)
(* One stock of one market, so one currency; whole amounts; the commission *)
(* is its minimum.  No collection has a unique index: two requests can     *)
(* each insert an account or a position, and a query finds the oldest.     *)
(* avg_cost and realized_pnl are left out.                                 *)
(***************************************************************************)
EXTENDS Integers, FiniteSets, SequencesExt

CONSTANTS
    Requests,       \* requests that can be in flight at once
    Markets,        \* the markets to consider, among "CN" and "US"
    InitialCash,    \* INITIAL_CASH_BY_MARKET
    Commission,     \* _calculate_commission, when there are rules
    Prices, Quantities,
    MaxOrders,    \* bound: requests the user sends
    MaxErrors,      \* bound: Mongo calls that raise
    MaxDays         \* bound: days that pass

\* Nothing says that a sale earns its commission: an order of one share is
\* accepted, and the script sets a minimum of 5 yuan.
ASSUME PaperAssumption ==
    /\ Markets \subseteq {"CN", "US"}
    /\ InitialCash \in Nat /\ Commission \in Nat
    /\ Prices \subseteq Nat \ {0} /\ Quantities \subseteq Nat \ {0}
    /\ MaxOrders \in Nat /\ MaxErrors \in Nat /\ MaxDays \in Nat

VARIABLES
    market,         \* the market of the stock
    rules,          \* paper_market_rules has a document of the market
    accounts,       \* paper_accounts, oldest first: the cash of each
    positions,      \* paper_positions, oldest first: _id, quantity, available_qty
    orders,         \* paper_orders: how many
    trades,         \* paper_trades, oldest first
    day,            \* today
    at,             \* per request: the await it stands at
    mine,           \* per request: its order, and what it has read
    sent, errors, made,     \* requests sent, calls that raised, _ids given out
    overlapped,     \* history: two requests have been in flight at once
    ruledAllDay,    \* history: the rules have been there since the day began
    losses          \* history: what sales have taken from the accounts there are

books   == <<accounts, positions, orders, trades, made, losses>>
request == <<at, mine>>
history == <<overlapped, ruledAllDay>>
paperVars == <<market, rules, books, day, request, sent, errors, history>>

NoPosition == [id |-> 0, quantity |-> 0, available |-> 0]

\* The awaits of an order and of a reset.
Awaits == {"idle", "account", "create", "rules", "position", "debit", "hold",
           "holding", "counting", "bought", "credit", "sold", "order", "trade",
           "accounts", "positions", "orders", "trades"}

Unsent == [side |-> "reset", quantity |-> 0, price |-> 0, cash |-> 0,
           commission |-> 0, position |-> NoPosition, total |-> 0]

PaperTypeOK ==
    /\ market \in Markets /\ rules \in BOOLEAN
    /\ \A i \in DOMAIN accounts : accounts[i] \in Int
    /\ \A i \in DOMAIN positions :
         /\ positions[i].id \in 1..made /\ positions[i].quantity \in Int
         /\ positions[i].available \in Int
         /\ \A j \in DOMAIN positions : positions[i].id = positions[j].id => i = j
    /\ orders \in Nat
    /\ \A i \in DOMAIN trades :
         /\ trades[i].side \in {"buy", "sell"} /\ trades[i].quantity \in Quantities
         /\ trades[i].price \in Prices /\ trades[i].day \in 0..day
         /\ trades[i].commission \in {0, Commission}
    /\ day \in 0..MaxDays
    /\ at \in [Requests -> Awaits]
    /\ \A r \in Requests : mine[r].side \in {"buy", "sell", "reset"}
    /\ sent \in 0..MaxOrders /\ errors \in 0..MaxErrors
    /\ overlapped \in BOOLEAN /\ ruledAllDay \in BOOLEAN /\ losses \in Nat

PaperInit ==
    /\ market \in Markets /\ rules \in BOOLEAN
    /\ accounts = <<>> /\ positions = <<>> /\ trades = <<>>
    /\ orders = 0 /\ made = 0 /\ day = 0
    /\ at = [r \in Requests |-> "idle"]
    /\ mine = [r \in Requests |-> Unsent]
    /\ sent = 0 /\ errors = 0
    /\ overlapped = FALSE /\ ruledAllDay = rules /\ losses = 0
-----------------------------------------------------------------------------
\* What a request has computed.

Notional(r) == mine[r].price * mine[r].quantity
Cost(r)     == Notional(r) + mine[r].commission

\* Mutant: the commission of a sale is recorded and not charged.
Proceeds_Gross(r) == Notional(r)

Proceeds(r) == Notional(r) - mine[r].commission

Go(r, await) == at' = [at EXCEPT ![r] = await]
Keep(r, await, read) == Go(r, await) /\ mine' = [mine EXCEPT ![r] = read]

\* The request is over and what it read is gone.
Answer(r) == Keep(r, "idle", Unsent)

\* The awaits leave everything but the books and the requests alone.
Still == UNCHANGED <<market, rules, day, sent, errors, history>>
-----------------------------------------------------------------------------
\* The calls of both kinds of requests.

SendOrder(r) ==
    /\ at[r] = "idle" /\ sent < MaxOrders
    /\ sent' = sent + 1
    /\ overlapped' = (overlapped \/ \E o \in Requests \ {r} : at[o] # "idle")
    /\ \/ \E side \in {"buy", "sell"}, quantity \in Quantities :
            Keep(r, "account", [Unsent EXCEPT !.side = side, !.quantity = quantity])
       \/ Keep(r, "accounts", Unsent)
    /\ UNCHANGED <<market, rules, books, day, errors, ruledAllDay>>

\* _get_or_create_account: find_one.
FindAccount(r) ==
    /\ at[r] = "account"
    /\ IF accounts = <<>>
       THEN Go(r, "create") /\ UNCHANGED mine
       ELSE IF mine[r].side = "reset"
            THEN Answer(r)
            ELSE Keep(r, "rules", [mine[r] EXCEPT !.cash = Head(accounts)])
    /\ UNCHANGED books /\ Still

\* _get_or_create_account: insert_one.
CreateAccount(r) ==
    /\ at[r] = "create"
    /\ accounts' = Append(accounts, InitialCash)
    /\ IF mine[r].side = "reset"
       THEN Answer(r)
       ELSE Keep(r, "rules", [mine[r] EXCEPT !.cash = InitialCash])
    /\ UNCHANGED <<positions, orders, trades, made, losses>> /\ Still

\* Without rules nothing is charged.
Charged == IF rules THEN Commission ELSE 0

\* The price is read, and without one the order is refused; then the rules.
FindRules(r) ==
    /\ at[r] = "rules"
    /\ \/ Answer(r)
       \/ \E price \in Prices :
            Keep(r, "position", [mine[r] EXCEPT !.price = price, !.commission = Charged])
    /\ UNCHANGED books /\ Still

FindPosition(r) ==
    /\ at[r] = "position"
    /\ Keep(r, IF mine[r].side = "buy" THEN "debit" ELSE "hold",
            [mine[r] EXCEPT !.position = IF positions = <<>> THEN NoPosition
                                         ELSE Head(positions)])
    /\ UNCHANGED books /\ Still
-----------------------------------------------------------------------------
\* A buy.

\* Mutant: the cost is taken off the account with $inc.
Debited_Inc(r) == [accounts EXCEPT ![1] = @ - Cost(r)]

\* update_one finds the oldest account, if there is one, and sets its cash to
\* what was read less the cost.
Debited(r) == IF accounts = <<>> THEN <<>>
              ELSE [accounts EXCEPT ![1] = mine[r].cash - Cost(r)]

Debit(r) ==
    /\ at[r] = "debit"
    /\ IF mine[r].cash < Cost(r)
       THEN Answer(r) /\ UNCHANGED accounts
       ELSE accounts' = Debited(r) /\ Go(r, "bought") /\ UNCHANGED mine
    /\ UNCHANGED <<positions, orders, trades, made, losses>> /\ Still

\* The position read before, with another quantity; nothing if it is gone.
Updated(old, quantity, available) ==
    [i \in DOMAIN positions |->
        IF positions[i].id # old.id THEN positions[i]
        ELSE [old EXCEPT !.quantity = quantity, !.available = available]]

\* On T+1 the shares of a buy are not available.
TakeShares(r) ==
    /\ at[r] = "bought"
    /\ LET old == mine[r].position
           new == old.quantity + mine[r].quantity
       IN IF old = NoPosition
          THEN /\ made' = made + 1
               /\ positions' = Append(positions,
                      [id |-> made', quantity |-> mine[r].quantity,
                       available |-> IF market = "CN" THEN 0 ELSE mine[r].quantity])
          ELSE /\ positions' = Updated(old, new, IF market = "CN" THEN old.available
                                                 ELSE new)
               /\ UNCHANGED made
    /\ Go(r, "order")
    /\ UNCHANGED <<accounts, orders, trades, losses, mine>> /\ Still
-----------------------------------------------------------------------------
\* A sale.

SumOf(numbers) == FoldLeft(LAMBDA total, n : total + n, 0, numbers)

\* The shares of the trades on one side in some days.
Traded(side, days) ==
    SumOf([i \in DOMAIN trades |-> IF trades[i].side = side /\ trades[i].day \in days
                                   THEN trades[i].quantity ELSE 0])

Bought(d) == Traded("buy", {d})
Sold(d)   == Traded("sell", {d})

\* _get_available_quantity: the position is read again.
ReadHolding(r) ==
    /\ at[r] = "hold"
    /\ Keep(r, "holding",
            [mine[r] EXCEPT !.total = IF positions = <<>> THEN 0
                                      ELSE Head(positions).quantity])
    /\ UNCHANGED books /\ Still

\* Enough is available, or the sale is refused.  It raises when the position
\* was missing on the first read.
Decide(r, sellable) ==
    IF sellable < mine[r].quantity \/ mine[r].position = NoPosition
    THEN Answer(r)
    ELSE Go(r, "credit") /\ UNCHANGED mine

\* The rules are read again, for A shares: without them T+1 is not applied.
CheckRules(r) ==
    /\ at[r] = "holding"
    /\ IF market = "CN" /\ rules
       THEN Go(r, "counting") /\ UNCHANGED mine
       ELSE Decide(r, mine[r].total)
    /\ UNCHANGED books /\ Still

\* On T+1 today's buys are taken off.
SellableShares(r) == Max({0, mine[r].total - Bought(day)})

CountBuys(r) ==
    /\ at[r] = "counting"
    /\ Decide(r, SellableShares(r))
    /\ UNCHANGED books /\ Still

\* The proceeds are added with $inc, also when the commission exceeds what
\* the sale earns.
Credit(r) ==
    /\ at[r] = "credit"
    /\ IF accounts = <<>>
       THEN UNCHANGED <<accounts, losses>>
       ELSE /\ accounts' = [accounts EXCEPT ![1] = @ + Proceeds(r)]
            /\ losses' = losses + Max({0, -Proceeds(r)})
    /\ Go(r, "sold")
    /\ UNCHANGED <<positions, orders, trades, made, mine>> /\ Still

LeftAvailable(r) == Max({0, mine[r].position.available - mine[r].quantity})

\* The position is deleted when nothing is left of what was read first.
GiveShares(r) ==
    /\ at[r] = "sold"
    /\ LET old == mine[r].position
           new == old.quantity - mine[r].quantity
       IN positions' = IF new = 0
                       THEN RemoveFirstMatch(positions, LAMBDA p : p.id = old.id)
                       ELSE Updated(old, new, LeftAvailable(r))
    /\ Go(r, "order")
    /\ UNCHANGED <<accounts, orders, trades, made, losses, mine>> /\ Still
-----------------------------------------------------------------------------
\* The end of an order.

InsertOrder(r) ==
    /\ at[r] = "order"
    /\ orders' = orders + 1
    /\ Go(r, "trade")
    /\ UNCHANGED <<accounts, positions, trades, made, losses, mine>> /\ Still

InsertTrade(r) ==
    /\ at[r] = "trade"
    /\ trades' = Append(trades, [side |-> mine[r].side, quantity |-> mine[r].quantity,
                                 price |-> mine[r].price, day |-> day,
                                 commission |-> mine[r].commission])
    /\ Answer(r)
    /\ UNCHANGED <<accounts, positions, orders, made, losses>> /\ Still
-----------------------------------------------------------------------------
\* reset_account empties the four collections and creates an account.

DeleteAccounts(r) ==
    /\ at[r] = "accounts"
    /\ accounts' = <<>> /\ losses' = 0 /\ Go(r, "positions")
    /\ UNCHANGED <<positions, orders, trades, made, mine>> /\ Still

DeletePositions(r) ==
    /\ at[r] = "positions"
    /\ positions' = <<>> /\ Go(r, "orders")
    /\ UNCHANGED <<accounts, orders, trades, made, losses, mine>> /\ Still

DeleteOrders(r) ==
    /\ at[r] = "orders"
    /\ orders' = 0 /\ Go(r, "trades")
    /\ UNCHANGED <<accounts, positions, trades, made, losses, mine>> /\ Still

DeleteTrades(r) ==
    /\ at[r] = "trades"
    /\ trades' = <<>> /\ Go(r, "account")
    /\ UNCHANGED <<accounts, positions, orders, made, losses, mine>> /\ Still
-----------------------------------------------------------------------------
\* A Mongo call raises: the request ends where it is.
OrderFault(r) ==
    /\ at[r] # "idle" /\ errors < MaxErrors
    /\ errors' = errors + 1
    /\ Answer(r)
    /\ UNCHANGED <<market, rules, books, day, sent, history>>

\* The UTC date changes between requests.
NewDay ==
    /\ day < MaxDays /\ \A r \in Requests : at[r] = "idle"
    /\ day' = day + 1 /\ ruledAllDay' = rules
    /\ UNCHANGED <<market, rules, books, request, sent, errors, overlapped>>

\* init_paper_trading_market_rules.py inserts the rules, at any time; to
\* replace those there are it deletes them first.
InsertRules ==
    /\ ~rules /\ rules' = TRUE
    /\ UNCHANGED <<market, books, day, request, sent, errors, history>>

DeleteRules ==
    /\ rules /\ rules' = FALSE /\ ruledAllDay' = FALSE
    /\ UNCHANGED <<market, books, day, request, sent, errors, overlapped>>

Buy(r)   == Debit(r) \/ TakeShares(r)
Sell(r)  == \/ ReadHolding(r) \/ CheckRules(r) \/ CountBuys(r)
            \/ Credit(r) \/ GiveShares(r)
Reset(r) == DeleteAccounts(r) \/ DeletePositions(r) \/ DeleteOrders(r) \/ DeleteTrades(r)

PaperNext ==
    \/ \E r \in Requests :
         \/ SendOrder(r) \/ FindAccount(r) \/ CreateAccount(r)
         \/ FindRules(r) \/ FindPosition(r)
         \/ Buy(r) \/ Sell(r) \/ InsertOrder(r) \/ InsertTrade(r)
         \/ Reset(r) \/ OrderFault(r)
    \/ NewDay \/ InsertRules \/ DeleteRules

PaperSpec == PaperInit /\ [][PaperNext]_paperVars
-----------------------------------------------------------------------------
\* Properties.

PaperAtRest == \A r \in Requests : at[r] = "idle"

\* However requests interleave, wherever they fail and whenever the rules
\* change, no buy overdraws an account, although each sets the cash to a
\* balance read before: an account is in the red by no more than what its
\* sales earned less than their commission.
OverdrawnBySalesOnly == \A i \in DOMAIN accounts : accounts[i] + losses >= 0

\* What a trade has brought to the account.
Earned(t) == (IF t.side = "sell" THEN t.price * t.quantity ELSE -(t.price * t.quantity))
             - t.commission

CashFlow == SumOf([i \in DOMAIN trades |-> Earned(trades[i])])

Holding == Traded("buy", 0 .. day) - Traded("sell", 0 .. day)

\* Requests that never overlap and never fail keep the books, whenever the
\* rules come and go: at rest the one account holds the initial cash and what
\* the trades brought, each with the commission it was charged, the one
\* position what they bought and did not sell, and every order has its trade;
\* without T+1 all of it is shown as available.
BooksBalance ==
    PaperAtRest /\ ~overlapped /\ errors = 0 =>
        /\ accounts \in {<<>>, <<InitialCash + CashFlow>>}
        /\ accounts = <<>> => trades = <<>>
        /\ IF Holding = 0 THEN positions = <<>>
           ELSE Len(positions) = 1 /\ Head(positions).quantity = Holding
        /\ orders = Len(trades)
        /\ market = "US" => \A i \in DOMAIN positions :
                               positions[i].available = positions[i].quantity

\* What the trades of the days before today leave.
Opening == Traded("buy", 0 .. day - 1) - Traded("sell", 0 .. day - 1)

\* The same requests respect T+1 on a day that has the rules from its
\* beginning: its sales are covered by what was held then, whatever is bought
\* and sold in it and whatever the days before had.
SalesCoveredByOpening ==
    market = "CN" /\ ruledAllDay /\ ~overlapped /\ errors = 0 => Sold(day) <= Opening

\* Requests one after another keep the books and the settlement rule.
BooksKept == BooksBalance /\ SalesCoveredByOpening

\* "A股T+1：今天买入的不能卖出" (paper.py:170): who holds nothing when the day
\* begins sells nothing in it, with the rules there all day.
BoughtTodayNotSold == market = "CN" /\ ruledAllDay /\ Opening = 0 => Sold(day) = 0
=============================================================================

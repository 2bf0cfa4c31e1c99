---------------------------- MODULE PaperTrading ----------------------------
(***************************************************************************)
(* The paper account (providers/paper-trading.ts of quant-lib and of       *)
(* quant-lab, the same but for logging and the way the state is saved),    *)
(* the exchange behind PaperTradingProviderAdapter: one coin is bought and *)
(* sold for USDT, a limit order that does not cross waits in activeOrders, *)
(* and checkAndFillOrders() walks these, awaiting a price on the way.      *)
(*                                                                         *)
(* An action is one turn of the event loop, but for the loop that matches  *)
(* orders once the price is there: it takes an action per order, and no    *)
(* other action can come between them (`matching`).  wallet and available  *)
(* balance change together and are one number; of the list of trades an    *)
(* order's quantity is kept; marks, the equity curve and the state file    *)
(* are left out.                                                           *)
(***************************************************************************)
EXTENDS Integers, FiniteSets

CONSTANTS
  InitialBalance,
  Price,          \* bound: the prices that occur
  Qty,            \* bound: the quantities that are ordered
  MaxOrder,       \* bound: orders at a time
  MaxCheck,       \* bound: checkAndFillOrders() in flight at once
  MakerFeeRate,   \* the fee rates, in parts of Unit
  TakerFeeRate,
  Unit

ASSUME PaperAssumption ==
  /\ InitialBalance \in Nat /\ MaxOrder \in Nat /\ MaxCheck \in Nat
  /\ Price \subseteq Nat \ {0} /\ Qty \subseteq Nat \ {0}
  /\ MakerFeeRate \in Nat /\ TakerFeeRate \in Nat /\ Unit \in Nat \ {0}

\* Orders are numbered as they are placed, the order of activeOrders.
Order == 1..MaxOrder
Check == 1..MaxCheck

VARIABLES
  account,   \* balances, the position and the statistics it fills
  order,     \* what was ordered
  status,    \* of an order: it outlives the account in the checks that hold it
  book,      \* activeOrders, and per order: entries in orderHistory, quantity in trades
  check,     \* calls of checkAndFillOrders in flight
  matching,  \* the call whose loop has its price, or 0
  price,     \* the price it has
  executed,  \* history: quantity that changed hands for an order, on any account
  crossed    \* history: what has run beside a check

vars == <<account, order, status, book, check, matching, price, executed, crossed>>

-----------------------------------------------------------------------------
(* The account.                                                            *)

NewAccount == [usdt |-> InitialBalance, coin |-> 0, coinKnown |-> FALSE,
               side |-> "none", size |-> 0, cost |-> 0,
               realisedPnl |-> 0, totalFee |-> 0]
NewBook    == [active |-> {},
               history |-> [o \in Order |-> 0], traded |-> [o \in Order |-> 0]]

\* The position, entered for `cost` = avgPrice * size, becomes this one, and
\* pnl is realised.
Position(a, side, size, cost, pnl) ==
  [a EXCEPT !.side = side, !.size = size, !.cost = cost, !.realisedPnl = @ + pnl]

\* What giving up a part of the position that was entered for cost brings.
Gain(a, value, cost) == IF a.side = "Buy" THEN value - cost ELSE cost - value

\* Mutant: a reversal realises the whole trade, not the position's part of it.
UpdatePosition_ReversalPnl(a, side, qty, p) ==
  IF a.side \in {"none", side} THEN Position(a, side, a.size + qty, a.cost + qty * p, 0)
  ELSE IF a.size < qty
    THEN Position(a, side, qty - a.size, (qty - a.size) * p, Gain(a, qty * p, a.cost))
  ELSE IF a.size = qty THEN Position(a, "none", 0, 0, Gain(a, qty * p, a.cost))
  ELSE LET part == (a.cost * qty) \div a.size
       IN Position(a, a.side, a.size - qty, a.cost - part, Gain(a, qty * p, part))

\* Mutant: a trade larger than the position only closes it.
UpdatePosition_NoReversal(a, side, qty, p) ==
  IF a.side \in {"none", side} THEN Position(a, side, a.size + qty, a.cost + qty * p, 0)
  ELSE IF a.size <= qty THEN Position(a, "none", 0, 0, Gain(a, a.size * p, a.cost))
  ELSE LET part == (a.cost * qty) \div a.size
       IN Position(a, a.side, a.size - qty, a.cost - part, Gain(a, qty * p, part))

\* A position is entered or enlarged, reversed, closed, or reduced.
UpdatePosition(a, side, qty, p) ==
  IF a.side \in {"none", side} THEN Position(a, side, a.size + qty, a.cost + qty * p, 0)
  ELSE IF a.size < qty
    THEN Position(a, side, qty - a.size, (qty - a.size) * p, Gain(a, a.size * p, a.cost))
  ELSE IF a.size = qty THEN Position(a, "none", 0, 0, Gain(a, qty * p, a.cost))
  ELSE LET part == (a.cost * qty) \div a.size
       IN Position(a, a.side, a.size - qty, a.cost - part, Gain(a, qty * p, part))

Fee(type, value) ==
  (value * (IF type = "Market" THEN TakerFeeRate ELSE MakerFeeRate)) \div Unit

Booked(a, cash, coins, known, fee) ==
  [a EXCEPT !.usdt = @ + cash, !.coin = @ + coins, !.coinKnown = known, !.totalFee = @ + fee]

\* A sale takes the coins only if the account knows the coin.
Settled(a, side, qty, value, fee) ==
  IF side = "Buy"
    THEN Booked(a, -(value + fee), qty, TRUE, fee)
    ELSE Booked(a, value - fee, IF a.coinKnown THEN -qty ELSE 0, a.coinKnown, fee)

ExecuteTrade(a, ord, p, qty) ==
  UpdatePosition(Settled(a, ord.side, qty, qty * p, Fee(ord.type, qty * p)),
                 ord.side, qty, p)

-----------------------------------------------------------------------------
(* Checks in flight.  A check walks the array activeOrders was when it     *)
(* began: the live one, until that is replaced by another.                 *)

IdleCheck == [at |-> "idle", order |-> 0, cursor |-> 0, live |-> TRUE, list |-> {}]

InFlight(c) == check[c].at # "idle"
List(c)     == IF check[c].live THEN book.active ELSE check[c].list

\* The order with n before it, if the array s is that long.
At(s, n) == {o \in s : Cardinality({p \in s : p < o}) = n}

\* activeOrders becomes another array: checks keep walking the old one.
Detached(d) == IF InFlight(d) THEN [check[d] EXCEPT !.live = FALSE, !.list = List(d)]
                              ELSE check[d]

\* The orders some check may still touch.
Reachable == UNION {{check[c].order} \cup List(c) : c \in {d \in Check : InFlight(d)}}

Crossing(what) == crossed' = IF \E c \in Check : InFlight(c) THEN crossed \cup {what} ELSE crossed

Init ==
  /\ account = NewAccount /\ book = NewBook
  /\ order = [o \in Order |-> [side |-> "Buy", type |-> "Limit", qty |-> 0, price |-> 0]]
  /\ status = [o \in Order |-> "none"]
  /\ check = [c \in Check |-> IdleCheck]
  /\ matching = 0 /\ price = 0
  /\ executed = [o \in Order |-> 0]
  /\ crossed = {}

-----------------------------------------------------------------------------
(* placeOrder: the turn that has the current price.                        *)

\* The check of funds: fees and the orders that wait reserve nothing, and the
\* side of the position is not asked.
Affordable(ord) ==
  IF ord.side = "Buy"
    THEN account.usdt >= ord.qty * ord.price
    ELSE account.side # "none" /\ account.size >= ord.qty

Crosses(ord, currentPrice) == IF ord.side = "Buy" THEN ord.price >= currentPrice
                                                  ELSE ord.price <= currentPrice

\* An order enters orderHistory, and its records in trades show qty more.
Entry(b, o, qty) == [b EXCEPT !.history[o] = @ + 1, !.traded[o] = @ + qty]

\* History: executeTrade is called for qty of the order.
Trades(o, qty) == executed' = [executed EXCEPT ![o] = @ + qty]

Placed(o, ord, currentPrice) ==
  /\ Affordable(ord)
  /\ order' = [order EXCEPT ![o] = ord]
  /\ IF Crosses(ord, currentPrice)
       THEN /\ account' = ExecuteTrade(account, ord, ord.price, ord.qty)
            /\ status' = [status EXCEPT ![o] = "Filled"]
            /\ book' = Entry(book, o, ord.qty)
            /\ Trades(o, ord.qty)
       ELSE /\ account' = account
            /\ executed' = executed
            /\ status' = [status EXCEPT ![o] = "Pending"]
            /\ book' = [book EXCEPT !.active = @ \cup {o}]

\* The price of a market order is the one it is filled at.
PlaceOrder(o) ==
  /\ matching = 0
  /\ status[o] = "none" /\ \A p \in 1..(o - 1) : status[p] # "none"
  /\ \E side \in {"Buy", "Sell"}, type \in {"Market", "Limit"}, qty \in Qty,
        limit \in Price, currentPrice \in Price :
       /\ type = "Market" => limit = currentPrice
       /\ Placed(o, [side |-> side, type |-> type, qty |-> qty, price |-> limit], currentPrice)
  /\ UNCHANGED <<check, matching, price, crossed>>

CancelOrder(o) ==
  /\ matching = 0
  /\ o \in book.active
  /\ status' = [status EXCEPT ![o] = "Cancelled"]
  /\ book' = [book EXCEPT !.active = @ \ {o}, !.history[o] = @ + 1]
  /\ Crossing("cancel")
  /\ UNCHANGED <<account, order, check, matching, price, executed>>

-----------------------------------------------------------------------------
(* checkAndFillOrders.                                                     *)

\* The end: only what is pending stays active.
Finish(c, now) ==
  /\ book' = [now EXCEPT !.active = {o \in @ : status'[o] = "Pending"}]
  /\ check' = [d \in Check |-> IF d = c THEN IdleCheck ELSE Detached(d)]
  /\ matching' = 0 /\ price' = 0

\* The loop goes on to the next order of its array, if there is one: by the
\* place, which an order misses that moves up when one before it is cancelled.
Advance(c, now) ==
  \/ /\ \E o \in At(List(c), check[c].cursor) :
          check' = [check EXCEPT ![c].cursor = @ + 1, ![c].order = o]
     /\ book' = now
     /\ UNCHANGED <<matching, price>>
  \/ /\ At(List(c), check[c].cursor) = {}
     /\ Finish(c, now)

CheckBegins(c) ==
  /\ matching = 0 /\ ~InFlight(c)
  /\ status' = status
  /\ \/ /\ \E o \in At(book.active, 0) :
             check' = [check EXCEPT ![c] = [IdleCheck EXCEPT !.at = "price", !.cursor = 1,
                                                            !.order = o]]
        /\ UNCHANGED <<book, matching, price>>
     \/ /\ book.active = {}
        /\ Finish(c, book)
  /\ Crossing("check")
  /\ UNCHANGED <<account, order, executed>>

\* getPrice throws: the order is passed over.
PriceFails(c) ==
  /\ matching = 0 /\ check[c].at = "price"
  /\ status' = status
  /\ Advance(c, book)
  /\ UNCHANGED <<account, order, executed, crossed>>

PriceComes(c) ==
  /\ matching = 0 /\ check[c].at = "price"
  /\ check' = [check EXCEPT ![c].at = "match"]
  /\ matching' = c
  /\ price' \in Price
  /\ UNCHANGED <<account, order, status, book, executed, crossed>>

\* Mutant: the whole order is executed, whatever was filled of it before.
Left_Whole(o) == order[o].qty

\* qty - filledQty: an order is filled as a whole.
Left(o) == IF status[o] = "Filled" THEN 0 ELSE order[o].qty

\* One order of the loop, whatever became of it since its array was read.  The
\* trade is pushed onto trades twice: by executeTrade, and by the loop again.
Match(c) ==
  /\ matching = c
  /\ LET o == check[c].order
     IN IF Crosses(order[o], price)
          THEN /\ account' = ExecuteTrade(account, order[o], price, Left(o))
               /\ status' = [status EXCEPT ![o] = "Filled"]
               /\ Trades(o, Left(o))
               /\ Advance(c, Entry(book, o, 2 * Left(o)))
          ELSE /\ UNCHANGED <<account, status, executed>>
               /\ Advance(c, book)
  /\ UNCHANGED <<order, crossed>>

-----------------------------------------------------------------------------
(* A new account.                                                          *)

\* reset() and clear(), whose account is another object.
Reset ==
  /\ matching = 0
  /\ account' = NewAccount /\ book' = NewBook
  /\ status' = [o \in Order |-> IF o \in Reachable THEN status[o] ELSE "none"]
  /\ executed' = [o \in Order |-> IF o \in Reachable THEN executed[o] ELSE 0]
  /\ check' = [d \in Check |-> Detached(d)]
  /\ Crossing("reset")
  /\ UNCHANGED <<order, matching, price>>

Next ==
  \/ \E o \in Order : PlaceOrder(o) \/ CancelOrder(o)
  \/ \E c \in Check : CheckBegins(c) \/ PriceFails(c) \/ PriceComes(c) \/ Match(c)
  \/ Reset

Spec == Init /\ [][Next]_vars

-----------------------------------------------------------------------------
(* Type invariant: one check at most is matching, and it has a price.      *)
AccountType ==
  [usdt : Int, coin : Int, coinKnown : BOOLEAN, side : {"none", "Buy", "Sell"},
   size : Nat, cost : Int, realisedPnl : Int, totalFee : Int]
OrderType ==
  [side : {"Buy", "Sell"}, type : {"Market", "Limit"}, qty : Nat, price : Nat]
BookType == [active : SUBSET Order, history : [Order -> Nat], traded : [Order -> Nat]]
CheckType ==
  [at : {"idle", "price", "match"}, order : Order \cup {0}, cursor : Nat,
   live : BOOLEAN, list : SUBSET Order]

PaperTypeOK ==
  /\ account \in AccountType
  /\ order \in [Order -> OrderType]
  /\ status \in [Order -> {"none", "Pending", "Filled", "Cancelled"}]
  /\ book \in BookType
  /\ check \in [Check -> CheckType]
  /\ matching \in Check \cup {0}
  /\ matching # 0 => check[matching].at = "match" /\ price \in Price
  /\ executed \in [Order -> Nat]
  /\ crossed \subseteq {"cancel", "check", "reset"}

\* What the position was entered for, and its size, signed.
Entered(a) == IF a.side = "Sell" THEN -a.cost ELSE a.cost
Held(a)    == IF a.side = "Sell" THEN -a.size ELSE a.size

(* The books balance: the cash is what the account began with, plus what   *)
(* was realised, less the fees and what the open position was entered for, *)
(* through reductions, reversals and resets and whichever order            *)
(* was cancelled under a check's hands.  (Overlapping checks fill an order *)
(* twice, the second time with quantity 0, and 0/0 is an average price.)   *)
BooksBalance ==
  "check" \notin crossed =>
    account.usdt = InitialBalance + account.realisedPnl - account.totalFee - Entered(account)

(* The coins are the position: the balance of the coin and the signed size *)
(* of the position, kept apart by executeTrade and updatePosition, agree   *)
(* unless an account is reset under a check, even when an order is filled  *)
(* twice or after its cancellation.                                        *)
CoinIsPosition == "reset" \notin crossed => account.coin = Held(account)

(* An order is executed once: checks may overlap and hold an order that    *)
(* was filled, cancelled or reset away meanwhile, but what is executed for *)
(* it is its quantity if it has been filled, and nothing before, although  *)
(* a filled order is filled again and one cancelled under a check may be   *)
(* filled; and none is active, hence open to a cancel, that has ended.     *)
(* Unless an account is reset under a check, no pending order gets lost,   *)
(* what has ended is in the history, and nothing else, and trades shows    *)
(* the quantity of an order once or, if a check filled it, twice.          *)
ExecutedOnce ==
  \A o \in Order :
    /\ executed[o] = (IF status[o] = "Filled" THEN order[o].qty ELSE 0)
    /\ matching = 0 /\ o \in book.active => status[o] = "Pending"
    /\ "reset" \notin crossed =>
         /\ status[o] = "Pending" => o \in book.active
         /\ book.history[o] > 0 <=> status[o] \in {"Filled", "Cancelled"}
         /\ book.traded[o] \in {executed[o], 2 * executed[o]}
=============================================================================

------------------------ MODULE PaperTrading_proofs ------------------------
(***************************************************************************)
(* Proofs about PaperTrading, for any balance, prices, quantities, fees    *)
(* and numbers of orders and checks.                                       *)
(***************************************************************************)
EXTENDS PaperTrading, TLAPS

-----------------------------------------------------------------------------
(* One trade.                                                              *)

Sound(a) ==
  /\ a \in AccountType
  /\ a.side = "none" => a.size = 0 /\ a.cost = 0
  /\ a.usdt = InitialBalance + a.realisedPnl - a.totalFee - Entered(a)

Coined(a) == a.coin = Held(a) /\ (a.side # "none" => a.coinKnown)

LEMMA Products ==
  ASSUME NEW x \in Int, NEW y \in Int, NEW z \in Int
  PROVE  x * z \in Int /\ (x - y) * z = x * z - y * z
OBVIOUS

LEMMA Quotient ==
  ASSUME NEW x \in Int, NEW y \in Nat \ {0}
  PROVE  x \div y \in Int
OBVIOUS

LEMMA FeeIsInt ==
  ASSUME NEW type, NEW value \in Int
  PROVE  Fee(type, value) \in Int
<1> DEFINE rate == IF type = "Market" THEN TakerFeeRate ELSE MakerFeeRate
<1>1. rate \in Int
  BY PaperAssumption
<1>2. value * rate \in Int
  BY <1>1, Products
<1> HIDE DEF rate
<1>3. (value * rate) \div Unit \in Int
  BY <1>2, Quotient, PaperAssumption
<1> QED
  BY <1>3 DEF Fee, rate

LEMMA PositionFields ==
  ASSUME NEW a \in AccountType, NEW side \in {"none", "Buy", "Sell"},
         NEW size \in Nat, NEW cost \in Int, NEW pnl \in Int
  PROVE  LET b == Position(a, side, size, cost, pnl) IN
         /\ b \in AccountType /\ b.side = side /\ b.size = size /\ b.cost = cost
         /\ b.usdt = a.usdt /\ b.coin = a.coin /\ b.coinKnown = a.coinKnown
         /\ b.realisedPnl = a.realisedPnl + pnl /\ b.totalFee = a.totalFee
<1> DEFINE realised == a.realisedPnl + pnl
<1>1. realised \in Int
  BY DEF AccountType
<1>2. Position(a, side, size, cost, pnl) =
        [a EXCEPT !.side = side, !.size = size, !.cost = cost, !.realisedPnl = realised]
  BY DEF Position, AccountType
<1> HIDE DEF realised
<1>3. Position(a, side, size, cost, pnl) \in AccountType
  BY <1>1, <1>2 DEF AccountType
<1>4. LET b == Position(a, side, size, cost, pnl) IN
      /\ b.side = side /\ b.size = size /\ b.cost = cost
      /\ b.usdt = a.usdt /\ b.coin = a.coin /\ b.coinKnown = a.coinKnown
      /\ b.realisedPnl = realised /\ b.totalFee = a.totalFee
  BY <1>2 DEF AccountType
<1> QED
  BY <1>3, <1>4 DEF realised

IsBooked(b, a, cash, coins, fee) ==
  /\ b \in AccountType /\ b.side = a.side /\ b.size = a.size /\ b.cost = a.cost
  /\ b.usdt = a.usdt + cash /\ b.coin = a.coin + coins
  /\ b.realisedPnl = a.realisedPnl /\ b.totalFee = a.totalFee + fee

LEMMA BookedFields ==
  ASSUME NEW a \in AccountType, NEW cash \in Int, NEW coins \in Int,
         NEW known \in BOOLEAN, NEW fee \in Int
  PROVE  /\ IsBooked(Booked(a, cash, coins, known, fee), a, cash, coins, fee)
         /\ Booked(a, cash, coins, known, fee).coinKnown = known
<1> DEFINE newCash == a.usdt + cash
           newCoins == a.coin + coins
           newFee == a.totalFee + fee
<1>1. newCash \in Int /\ newCoins \in Int /\ newFee \in Int
  BY DEF AccountType
<1>2. Booked(a, cash, coins, known, fee) =
        [a EXCEPT !.usdt = newCash, !.coin = newCoins, !.coinKnown = known, !.totalFee = newFee]
  BY DEF Booked, AccountType
<1> HIDE DEF newCash, newCoins, newFee
<1>3. Booked(a, cash, coins, known, fee) \in AccountType
  BY <1>1, <1>2 DEF AccountType
<1>4. LET b == Booked(a, cash, coins, known, fee) IN
      /\ b.side = a.side /\ b.size = a.size /\ b.cost = a.cost
      /\ b.usdt = newCash /\ b.coin = newCoins /\ b.coinKnown = known
      /\ b.realisedPnl = a.realisedPnl /\ b.totalFee = newFee
  BY <1>2 DEF AccountType
<1> QED
  BY <1>3, <1>4 DEF newCash, newCoins, newFee, IsBooked

\* What a settled trade brings in, but for the fee.
Flow(side, value) == IF side = "Buy" THEN -value ELSE value

IsSettled(b, a, side, qty, value, fee) ==
  /\ b \in AccountType /\ b.side = a.side /\ b.size = a.size /\ b.cost = a.cost
  /\ b.usdt = a.usdt + Flow(side, value) - fee
  /\ b.realisedPnl = a.realisedPnl /\ b.totalFee = a.totalFee + fee
  /\ side = "Buy" => b.coinKnown /\ b.coin = a.coin + qty
  /\ side = "Sell" /\ a.coinKnown => b.coinKnown /\ b.coin = a.coin - qty

LEMMA SettledFields ==
  ASSUME NEW a \in AccountType, NEW side \in {"Buy", "Sell"}, NEW qty \in Nat,
         NEW value \in Int, NEW fee \in Int
  PROVE  IsSettled(Settled(a, side, qty, value, fee), a, side, qty, value, fee)
<1> DEFINE b == Settled(a, side, qty, value, fee)
<1>1. /\ a.usdt \in Int /\ a.coin \in Int /\ a.coinKnown \in BOOLEAN
      /\ -(value + fee) \in Int /\ value - fee \in Int
      /\ qty \in Int /\ -qty \in Int /\ 0 \in Int
  BY DEF AccountType
<1>2. CASE side = "Buy"
  <2> DEFINE cash == -(value + fee)
  <2>1. cash \in Int /\ TRUE \in BOOLEAN
    BY <1>1
  <2>2. b = Booked(a, cash, qty, TRUE, fee)
    BY <1>2 DEF Settled
  <2>3. a.usdt + cash = a.usdt + Flow(side, value) - fee
    BY <1>1, <1>2 DEF Flow
  <2> HIDE DEF cash, b
  <2>4. IsBooked(b, a, cash, qty, fee) /\ b.coinKnown
    BY <1>1, <2>1, <2>2, BookedFields
  <2>5. IsSettled(b, a, side, qty, value, fee)
    BY <1>2, <2>3, <2>4 DEF IsBooked, IsSettled
  <2> QED
    BY <2>5 DEF b
<1>3. CASE side = "Sell"
  <2> DEFINE cash == value - fee
             coins == IF a.coinKnown THEN -qty ELSE 0
  <2>1. cash \in Int /\ coins \in Int
    BY <1>1
  <2>2. b = Booked(a, cash, coins, a.coinKnown, fee)
    BY <1>3 DEF Settled
  <2>3. /\ a.usdt + cash = a.usdt + Flow(side, value) - fee
        /\ a.coinKnown => a.coin + coins = a.coin - qty
    BY <1>1, <1>3 DEF Flow
  <2> HIDE DEF cash, coins, b
  <2>4. IsBooked(b, a, cash, coins, fee) /\ b.coinKnown = a.coinKnown
    BY <1>1, <2>1, <2>2, BookedFields
  <2>5. IsSettled(b, a, side, qty, value, fee)
    BY <1>3, <2>3, <2>4 DEF IsBooked, IsSettled
  <2> QED
    BY <2>5 DEF b
<1> QED
  BY <1>2, <1>3

\* The four fates of the position, each as a Position of named numbers: what is
\* entered afterwards less what is realised is the value traded.
IsUpdated(b, a, side, qty, value) ==
  /\ b \in AccountType
  /\ b.side = "none" => b.size = 0 /\ b.cost = 0
  /\ b.usdt = a.usdt /\ b.coin = a.coin /\ b.coinKnown = a.coinKnown
  /\ b.totalFee = a.totalFee
  /\ b.realisedPnl - Entered(b) = a.realisedPnl - Entered(a) + Flow(side, value)
  /\ Held(b) = Held(a) + (IF side = "Buy" THEN qty ELSE -qty)

LEMMA UpdateFields ==
  ASSUME NEW a \in AccountType, a.side = "none" => a.size = 0 /\ a.cost = 0,
         NEW side \in {"Buy", "Sell"}, NEW qty \in Nat, NEW p \in Nat,
         NEW value, value = qty * p
  PROVE  IsUpdated(UpdatePosition(a, side, qty, p), a, side, qty, value)
<1> DEFINE b == UpdatePosition(a, side, qty, p)
<1>1. /\ a.cost \in Int /\ a.size \in Nat /\ a.side \in {"none", "Buy", "Sell"}
      /\ a.realisedPnl \in Int
  BY DEF AccountType
<1>2. CASE a.side \in {"none", side}
  <2> DEFINE size == a.size + qty
             cost == a.cost + value
  <2>1. value \in Int
    BY Products
  <2>2. b = Position(a, side, size, cost, 0)
    BY <1>2 DEF UpdatePosition
  <2>3. size \in Nat /\ cost \in Int /\ 0 \in Int /\ side \in {"none", "Buy", "Sell"}
    BY <1>1, <2>1
  <2>4. /\ b \in AccountType /\ b.side = side /\ b.size = size /\ b.cost = cost
        /\ b.usdt = a.usdt /\ b.coin = a.coin /\ b.coinKnown = a.coinKnown
        /\ b.realisedPnl = a.realisedPnl + 0 /\ b.totalFee = a.totalFee
    <3> HIDE DEF size, cost, b
    <3> QED
      BY <2>2, <2>3, PositionFields
  <2>5. /\ b.realisedPnl - Entered(b) = a.realisedPnl - Entered(a) + Flow(side, value)
        /\ Held(b) = Held(a) + (IF side = "Buy" THEN qty ELSE -qty)
    <3> HIDE DEF b
    <3> QED
      BY <1>1, <1>2, <2>1, <2>4 DEF Entered, Held, Flow
  <2> QED
    BY <2>4, <2>5 DEF IsUpdated
<1>3. CASE a.side \notin {"none", side} /\ a.size < qty
  <2> DEFINE size == qty - a.size
             old == a.size * p
             new == (qty - a.size) * p
             pnl == Gain(a, old, a.cost)
  <2>1. value \in Int /\ old \in Int /\ new \in Int /\ new = value - old
    BY <1>1, Products
  <2>2. b = Position(a, side, size, new, pnl)
    BY <1>3 DEF UpdatePosition
  <2> HIDE DEF old, new
  <2>3. size \in Nat /\ pnl \in Int /\ side \in {"none", "Buy", "Sell"}
    BY <1>1, <1>3, <2>1 DEF Gain
  <2>4. /\ b \in AccountType /\ b.side = side /\ b.size = size /\ b.cost = new
        /\ b.usdt = a.usdt /\ b.coin = a.coin /\ b.coinKnown = a.coinKnown
        /\ b.realisedPnl = a.realisedPnl + pnl /\ b.totalFee = a.totalFee
    <3> HIDE DEF size, pnl, b
    <3> QED
      BY <2>1, <2>2, <2>3, PositionFields
  <2>5. /\ b.realisedPnl - Entered(b) = a.realisedPnl - Entered(a) + Flow(side, value)
        /\ Held(b) = Held(a) + (IF side = "Buy" THEN qty ELSE -qty)
    <3> HIDE DEF b
    <3> QED
      BY <1>1, <1>3, <2>1, <2>4 DEF Entered, Held, Flow, Gain
  <2> QED
    BY <2>4, <2>5 DEF IsUpdated
<1>4. CASE a.side \notin {"none", side} /\ a.size = qty
  <2> DEFINE pnl == Gain(a, value, a.cost)
  <2>1. value \in Int
    BY Products
  <2>2. b = Position(a, "none", 0, 0, pnl)
    BY <1>4 DEF UpdatePosition
  <2>3. pnl \in Int /\ 0 \in Nat /\ 0 \in Int /\ "none" \in {"none", "Buy", "Sell"}
    BY <1>1, <2>1 DEF Gain
  <2>4. /\ b \in AccountType /\ b.side = "none" /\ b.size = 0 /\ b.cost = 0
        /\ b.usdt = a.usdt /\ b.coin = a.coin /\ b.coinKnown = a.coinKnown
        /\ b.realisedPnl = a.realisedPnl + pnl /\ b.totalFee = a.totalFee
    <3> HIDE DEF pnl, b
    <3> QED
      BY <2>2, <2>3, PositionFields
  <2>5. /\ b.realisedPnl - Entered(b) = a.realisedPnl - Entered(a) + Flow(side, value)
        /\ Held(b) = Held(a) + (IF side = "Buy" THEN qty ELSE -qty)
    <3> HIDE DEF b
    <3> QED
      BY <1>1, <1>4, <2>1, <2>4 DEF Entered, Held, Flow, Gain
  <2> QED
    BY <2>4, <2>5 DEF IsUpdated
<1>5. CASE a.side \notin {"none", side} /\ a.size > qty
  <2> DEFINE size == a.size - qty
             part == (a.cost * qty) \div a.size
             cost == a.cost - part
             pnl == Gain(a, value, part)
  <2>1. value \in Int /\ part \in Int
    <3>1. value \in Int /\ a.cost * qty \in Int
      BY <1>1, Products
    <3>2. a.size \in Nat \ {0}
      BY <1>1, <1>5
    <3> DEFINE whole == a.cost * qty
    <3>3. whole \in Int
      BY <3>1
    <3> HIDE DEF whole
    <3>4. whole \div a.size \in Int
      BY <3>2, <3>3, Quotient
    <3> QED
      BY <3>1, <3>4 DEF whole
  <2>2. b = Position(a, a.side, size, cost, pnl)
    BY <1>1, <1>5 DEF UpdatePosition
  <2> HIDE DEF part
  <2>3. size \in Nat /\ cost \in Int /\ pnl \in Int
    BY <1>1, <1>5, <2>1 DEF Gain
  <2>4. /\ b \in AccountType /\ b.side = a.side /\ b.size = size /\ b.cost = cost
        /\ b.usdt = a.usdt /\ b.coin = a.coin /\ b.coinKnown = a.coinKnown
        /\ b.realisedPnl = a.realisedPnl + pnl /\ b.totalFee = a.totalFee
    <3> HIDE DEF size, cost, pnl, b
    <3> QED
      BY <1>1, <2>2, <2>3, PositionFields
  <2>5. /\ b.realisedPnl - Entered(b) = a.realisedPnl - Entered(a) + Flow(side, value)
        /\ Held(b) = Held(a) + (IF side = "Buy" THEN qty ELSE -qty)
    <3>1. side # a.side /\ a.side # "none"
      BY <1>5
    <3> HIDE DEF b
    <3>2. Held(b) = Held(a) + (IF side = "Buy" THEN qty ELSE -qty)
      BY <1>1, <2>4, <3>1 DEF Held
    <3>3. b.realisedPnl = a.realisedPnl + pnl /\ b.cost = a.cost - part /\ b.side = a.side
      BY <2>4
    <3>4. CASE side = "Buy"
      <4>1. a.side = "Sell" /\ pnl = part - value
        BY <1>1, <3>1, <3>4 DEF Gain
      <4> HIDE DEF pnl, cost
      <4> QED
        BY <1>1, <2>1, <3>2, <3>3, <3>4, <4>1 DEF Entered, Flow
    <3>5. CASE side = "Sell"
      <4>1. a.side = "Buy" /\ pnl = value - part
        BY <1>1, <3>1, <3>5 DEF Gain
      <4> HIDE DEF pnl, cost
      <4> QED
        BY <1>1, <2>1, <3>2, <3>3, <3>5, <4>1 DEF Entered, Flow
    <3> QED
      BY <3>4, <3>5
  <2> QED
    BY <1>5, <2>4, <2>5 DEF IsUpdated
<1> QED
  BY <1>1, <1>2, <1>3, <1>4, <1>5

LEMMA TradeIsSound ==
  ASSUME NEW a, Sound(a), NEW ord \in OrderType, NEW p \in Nat, NEW qty \in Nat
  PROVE  /\ Sound(ExecuteTrade(a, ord, p, qty))
         /\ Coined(a) /\ (ord.side = "Sell" => a.coinKnown) =>
              Coined(ExecuteTrade(a, ord, p, qty)) /\ ExecuteTrade(a, ord, p, qty).coinKnown
<1> DEFINE value == qty * p
           fee == Fee(ord.type, value)
           b == Settled(a, ord.side, qty, value, fee)
           d == UpdatePosition(b, ord.side, qty, p)
<1>1. value \in Int /\ fee \in Int
  <2>1. value \in Int
    BY Products
  <2> QED
    BY <2>1, FeeIsInt
<1>2. ord.side \in {"Buy", "Sell"} /\ a \in AccountType
  BY DEF OrderType, Sound
<1>3. ExecuteTrade(a, ord, p, qty) = d
  BY DEF ExecuteTrade
<1> DEFINE flow == Flow(ord.side, value)
<1>4. IsSettled(b, a, ord.side, qty, value, fee)
  <2> HIDE DEF value, fee
  <2> QED
    BY <1>1, <1>2, SettledFields
<1>5. b.side = "none" => b.size = 0 /\ b.cost = 0
  BY <1>4 DEF Sound, IsSettled
<1>6. IsUpdated(d, b, ord.side, qty, value)
  <2>1. value = qty * p
    OBVIOUS
  <2>2. b \in AccountType
    BY <1>4 DEF IsSettled
  <2> HIDE DEF b, value
  <2> QED
    BY <1>2, <1>5, <2>1, <2>2, UpdateFields
<1>7. Entered(b) = Entered(a) /\ Held(b) = Held(a)
  <2> HIDE DEF b
  <2> QED
    BY <1>4 DEF Entered, Held, IsSettled
<1>8. flow \in Int
  BY <1>1, <1>2 DEF Flow
<1> HIDE DEF value, fee, b, d
<1>9. /\ a.usdt \in Int /\ a.realisedPnl \in Int /\ a.totalFee \in Int /\ a.coin \in Int
      /\ d.realisedPnl \in Int /\ Entered(a) \in Int /\ Entered(d) \in Int
      /\ Held(a) \in Int /\ a.coinKnown \in BOOLEAN
  BY <1>2, <1>6 DEF AccountType, Entered, Held, IsUpdated
<1>10. d.usdt = InitialBalance + d.realisedPnl - d.totalFee - Entered(d)
  <2>1. a.usdt = InitialBalance + a.realisedPnl - a.totalFee - Entered(a)
    BY DEF Sound
  <2>2. d.realisedPnl - Entered(d) = a.realisedPnl - Entered(a) + flow
    BY <1>4, <1>6, <1>7 DEF IsSettled, IsUpdated
  <2>3. d.usdt = a.usdt + flow - fee /\ d.totalFee = a.totalFee + fee
    BY <1>4, <1>6 DEF IsSettled, IsUpdated
  <2> HIDE DEF flow
  <2> QED
    BY <1>1, <1>8, <1>9, <2>1, <2>2, <2>3, PaperAssumption
<1>11. Sound(d)
  BY <1>6, <1>10 DEF Sound, IsUpdated
<1>12. ASSUME Coined(a), ord.side = "Sell" => a.coinKnown
       PROVE  Coined(d) /\ d.coinKnown
  <2>1. d.coinKnown
    BY <1>2, <1>4, <1>6, <1>12 DEF IsSettled, IsUpdated
  <2>2. d.coin = a.coin + (IF ord.side = "Buy" THEN qty ELSE -qty)
    BY <1>2, <1>4, <1>6, <1>9, <1>12 DEF IsSettled, IsUpdated
  <2>3. Held(d) = a.coin + (IF ord.side = "Buy" THEN qty ELSE -qty)
    BY <1>6, <1>7, <1>12 DEF Coined, IsUpdated
  <2> QED
    BY <2>1, <2>2, <2>3 DEF Coined
<1> QED
  BY <1>3, <1>11, <1>12

-----------------------------------------------------------------------------
(* Checks and the arrays they walk.                                        *)

Known ==
  /\ \A o \in book.active : status[o] # "none"
  /\ \A c \in Check : InFlight(c) =>
       /\ check[c].order \in Order /\ status[check[c].order] # "none"
       /\ \A o \in check[c].list : status[o] # "none"

\* Statuses that may change but are not forgotten.
KeepsKnown == \A o \in Order : status[o] # "none" => status'[o] # "none"

LEMMA ListIsKnown ==
  ASSUME PaperTypeOK, Known, NEW c \in Check
  PROVE  List(c) \subseteq Order /\ (InFlight(c) => \A o \in List(c) : status[o] # "none")
<1>1. book.active \subseteq Order /\ check[c].list \subseteq Order
  BY DEF PaperTypeOK, BookType, CheckType
<1>2. CASE check[c].live
  BY <1>1, <1>2 DEF List, Known
<1>3. CASE ~check[c].live
  BY <1>1, <1>3 DEF List, Known
<1> QED
  BY <1>2, <1>3

LEMMA IdleTyped == IdleCheck \in CheckType
BY DEF IdleCheck, CheckType

LEMMA DetachedFields ==
  ASSUME check \in [Check -> CheckType], NEW d \in Check, List(d) \subseteq Order
  PROVE  /\ Detached(d) \in CheckType
         /\ Detached(d).at = check[d].at /\ Detached(d).order = check[d].order
         /\ Detached(d).list = (IF InFlight(d) THEN List(d) ELSE check[d].list)
         /\ ~InFlight(d) => Detached(d) = check[d]
<1>1. check[d] \in CheckType
  OBVIOUS
<1>2. CASE InFlight(d)
  <2> DEFINE list == List(d)
  <2>1. Detached(d) = [check[d] EXCEPT !.live = FALSE, !.list = list]
    BY <1>2 DEF Detached
  <2>2. list \in SUBSET Order /\ FALSE \in BOOLEAN
    OBVIOUS
  <2> HIDE DEF list
  <2>3. Detached(d) \in CheckType
    BY <1>1, <2>1, <2>2 DEF CheckType
  <2>4. Detached(d).at = check[d].at /\ Detached(d).order = check[d].order
    BY <1>1, <2>1 DEF CheckType
  <2>5. Detached(d).list = list
    BY <1>1, <2>1 DEF CheckType
  <2> QED
    BY <1>2, <2>3, <2>4, <2>5 DEF list
<1>3. CASE ~InFlight(d)
  BY <1>1, <1>3 DEF Detached
<1> QED
  BY <1>2, <1>3

\* The two things Advance may do.
Moves(c, now) ==
  /\ \E o \in At(List(c), check[c].cursor) :
       check' = [check EXCEPT ![c].cursor = @ + 1, ![c].order = o]
  /\ book' = now
  /\ UNCHANGED <<matching, price>>

LEMMA MoveFields ==
  ASSUME PaperTypeOK, Known, NEW c \in Check, NEW now, Moves(c, now)
  PROVE  /\ check' \in [Check -> CheckType]
         /\ \A d \in Check \ {c} : check'[d] = check[d]
         /\ check'[c].order \in At(List(c), check[c].cursor)
         /\ check'[c].at = check[c].at /\ check'[c].list = check[c].list
         /\ check'[c].live = check[c].live /\ check'[c].cursor = check[c].cursor + 1
<1>1. PICK o \in At(List(c), check[c].cursor) :
        check' = [check EXCEPT ![c].cursor = @ + 1, ![c].order = o]
  BY DEF Moves
<1>2. o \in Order
  BY ListIsKnown DEF At
<1>3. check \in [Check -> CheckType] /\ check[c] \in CheckType
  BY DEF PaperTypeOK
<1> DEFINE next == check[c].cursor + 1
           r == [check[c] EXCEPT !.cursor = next, !.order = o]
<1>4. check' = [check EXCEPT ![c] = r]
  BY <1>1
<1>9. next \in Nat
  BY <1>3 DEF CheckType
<1> HIDE DEF next
<1>5. r \in CheckType
  BY <1>2, <1>3, <1>9 DEF CheckType
<1>6. r.order = o /\ r.at = check[c].at /\ r.list = check[c].list /\ r.live = check[c].live
  BY <1>3 DEF CheckType
<1>7. r.cursor = check[c].cursor + 1
  BY <1>3 DEF CheckType, next
<1> HIDE DEF r
<1>8. check' \in [Check -> CheckType] /\ check'[c] = r /\ \A d \in Check \ {c} : check'[d] = check[d]
  BY <1>3, <1>4, <1>5
<1> QED
  BY <1>1, <1>6, <1>7, <1>8

LEMMA FinishFields ==
  ASSUME PaperTypeOK, Known, NEW c \in Check, NEW now \in BookType, Finish(c, now)
  PROVE  /\ book' \in BookType /\ book'.active = {o \in now.active : status'[o] = "Pending"}
         /\ book'.history = now.history /\ book'.traded = now.traded
         /\ check' \in [Check -> CheckType]
         /\ check'[c] = IdleCheck
         /\ \A d \in Check \ {c} : check'[d] = Detached(d)
<1>1. now.active \subseteq Order
  BY DEF BookType
<1> DEFINE left == {o \in now.active : status'[o] = "Pending"}
<1>2. left \in SUBSET Order
  BY <1>1
<1>3. book' = [now EXCEPT !.active = left]
  BY DEF Finish
<1> HIDE DEF left
<1>4. book' \in BookType /\ book'.active = left
  BY <1>2, <1>3 DEF BookType
<1>5. book'.history = now.history /\ book'.traded = now.traded
  BY <1>3 DEF BookType
<1>6. check' = [d \in Check |-> IF d = c THEN IdleCheck ELSE Detached(d)]
  BY DEF Finish
<1>7. \A d \in Check : Detached(d) \in CheckType
  BY ListIsKnown, DetachedFields DEF PaperTypeOK
<1>8. check' \in [Check -> CheckType]
  BY <1>6, <1>7, IdleTyped
<1> QED
  BY <1>4, <1>5, <1>6, <1>8 DEF left

\* What every part of a check that goes on keeps.
LEMMA AdvanceKeeps ==
  ASSUME PaperTypeOK, Known, KeepsKnown, NEW c \in Check, InFlight(c),
         NEW now \in BookType, now.active = book.active, Advance(c, now)
  PROVE  /\ book' \in BookType /\ check' \in [Check -> CheckType]
         /\ \/ matching' = matching /\ price' = price /\ check'[c].at = check[c].at
            \/ matching' = 0
         /\ Known'
<1>1. CASE Moves(c, now)
  <2>1. /\ check' \in [Check -> CheckType]
        /\ \A d \in Check \ {c} : check'[d] = check[d]
        /\ check'[c].order \in At(List(c), check[c].cursor)
        /\ check'[c].at = check[c].at /\ check'[c].list = check[c].list
    BY <1>1, MoveFields
  <2>2. check'[c].order \in Order /\ status[check'[c].order] # "none"
    BY <2>1, ListIsKnown DEF At
  <2>3. book' = now /\ matching' = matching /\ price' = price
    BY <1>1 DEF Moves
  <2>4. \A o \in book'.active : status'[o] # "none"
    BY <2>3 DEF Known, KeepsKnown, BookType
  <2>5. ASSUME NEW d \in Check, check'[d].at # "idle"
        PROVE  /\ check'[d].order \in Order /\ status'[check'[d].order] # "none"
               /\ \A o \in check'[d].list : status'[o] # "none"
    <3>1. CASE d = c
      <4>1. check[c].list \subseteq Order
        BY DEF PaperTypeOK, CheckType
      <4> QED
        BY <2>1, <2>2, <3>1, <4>1 DEF Known, KeepsKnown
    <3>2. CASE d # c
      <4>1. check'[d] = check[d] /\ InFlight(d)
        BY <2>1, <2>5, <3>2 DEF InFlight
      <4>2. check[d].list \subseteq Order
        BY DEF PaperTypeOK, CheckType
      <4> QED
        BY <4>1, <4>2 DEF Known, KeepsKnown
    <3> QED
      BY <3>1, <3>2
  <2> QED
    BY <2>1, <2>3, <2>4, <2>5 DEF Known, InFlight
<1>2. CASE Finish(c, now)
  <2>1. /\ book' \in BookType /\ book'.active \subseteq now.active
        /\ check' \in [Check -> CheckType] /\ check'[c] = IdleCheck
        /\ \A d \in Check \ {c} : check'[d] = Detached(d)
    BY <1>2, FinishFields
  <2>2. matching' = 0
    BY <1>2 DEF Finish
  <2>3. \A o \in book'.active : status'[o] # "none"
    BY <2>1 DEF Known, KeepsKnown, BookType
  <2>4. ASSUME NEW d \in Check, check'[d].at # "idle"
        PROVE  /\ check'[d].order \in Order /\ status'[check'[d].order] # "none"
               /\ \A o \in check'[d].list : status'[o] # "none"
    <3>1. d # c /\ check'[d] = Detached(d)
      BY <2>1, <2>4 DEF IdleCheck
    <3>2. List(d) \subseteq Order /\ check \in [Check -> CheckType]
      BY ListIsKnown DEF PaperTypeOK
    <3>3. /\ check'[d].at = check[d].at /\ check'[d].order = check[d].order
          /\ check'[d].list = (IF InFlight(d) THEN List(d) ELSE check[d].list)
      BY <3>1, <3>2, DetachedFields
    <3>4. InFlight(d)
      BY <2>4, <3>3 DEF InFlight
    <3>5. \A o \in List(d) : status[o] # "none"
      BY <3>4, ListIsKnown
    <3> QED
      BY <3>2, <3>3, <3>4, <3>5 DEF Known, KeepsKnown
  <2> QED
    BY <2>1, <2>2, <2>3, <2>4 DEF Known, InFlight
<1> QED
  BY <1>1, <1>2 DEF Advance, Moves

-----------------------------------------------------------------------------
(* The account.                                                            *)

Sellable ==
  "reset" \notin crossed =>
    /\ Coined(account)
    /\ \A o \in Order : status[o] # "none" /\ order[o].side = "Sell" => account.coinKnown

Inv == PaperTypeOK /\ Known /\ Sound(account) /\ Sellable

LEMMA NewAccountIsSound == Sound(NewAccount) /\ Coined(NewAccount)
<1>1. NewAccount \in AccountType
  BY PaperAssumption DEF NewAccount, AccountType
<1>2. /\ NewAccount.side = "none" /\ NewAccount.size = 0 /\ NewAccount.cost = 0
      /\ NewAccount.usdt = InitialBalance /\ NewAccount.realisedPnl = 0
      /\ NewAccount.totalFee = 0 /\ NewAccount.coin = 0
  BY DEF NewAccount
<1> QED
  BY <1>1, <1>2, PaperAssumption DEF Sound, Coined, Entered, Held

LEMMA NewBookTyped == NewBook \in BookType
<1>1. [o \in Order |-> 0] \in [Order -> Nat]
  OBVIOUS
<1> QED
  BY <1>1 DEF NewBook, BookType

IsEntry(n, b, o, qty) ==
  /\ n \in BookType /\ n.active = b.active
  /\ n.history = [b.history EXCEPT ![o] = @ + 1]
  /\ n.traded = [b.traded EXCEPT ![o] = @ + qty]

LEMMA BookEntry ==
  ASSUME NEW b \in BookType, NEW o \in Order, NEW qty \in Nat
  PROVE  IsEntry(Entry(b, o, qty), b, o, qty)
<1> DEFINE h == [b.history EXCEPT ![o] = @ + 1]
           t == [b.traded EXCEPT ![o] = @ + qty]
<1>1. h \in [Order -> Nat] /\ t \in [Order -> Nat]
  BY DEF BookType
<1>2. Entry(b, o, qty) = [b EXCEPT !.history = h, !.traded = t]
  BY DEF BookType, Entry
<1> HIDE DEF h, t
<1>3. [b EXCEPT !.history = h, !.traded = t] \in BookType
  BY <1>1 DEF BookType
<1>4. LET n == [b EXCEPT !.history = h, !.traded = t] IN
      n.active = b.active /\ n.history = h /\ n.traded = t
  BY DEF BookType
<1> QED
  BY <1>2, <1>3, <1>4 DEF h, t, IsEntry

LEMMA BookActive ==
  ASSUME NEW b \in BookType, NEW a \in SUBSET Order
  PROVE  LET n == [b EXCEPT !.active = a] IN
         n \in BookType /\ n.active = a /\ n.history = b.history /\ n.traded = b.traded
BY DEF BookType

LEMMA TradesFields ==
  ASSUME executed \in [Order -> Nat], NEW o \in Order, NEW qty \in Nat, Trades(o, qty)
  PROVE  /\ executed' \in [Order -> Nat] /\ executed'[o] = executed[o] + qty
         /\ \A q \in Order \ {o} : executed'[q] = executed[q]
BY DEF Trades

LEMMA InitInv == Init => Inv
<1> SUFFICES ASSUME Init PROVE Inv
  OBVIOUS
<1>1. account \in AccountType /\ Sound(account) /\ Coined(account)
  BY NewAccountIsSound DEF Init, Sound
<1>2. order \in [Order -> OrderType]
  <2>1. [side |-> "Buy", type |-> "Limit", qty |-> 0, price |-> 0] \in OrderType
    BY DEF OrderType
  <2> QED
    BY <2>1 DEF Init
<1>3. status \in [Order -> {"none", "Pending", "Filled", "Cancelled"}] /\ book \in BookType
  BY NewBookTyped DEF Init
<1>4. check \in [Check -> CheckType] /\ \A c \in Check : ~InFlight(c)
  BY IdleTyped DEF Init, InFlight, IdleCheck
<1>5. matching = 0 /\ crossed = {} /\ book.active = {} /\ \A o \in Order : status[o] = "none"
  BY DEF Init, NewBook
<1>7. executed \in [Order -> Nat]
  BY DEF Init
<1>6. PaperTypeOK
  BY <1>1, <1>2, <1>3, <1>4, <1>5, <1>7 DEF PaperTypeOK
<1> QED
  BY <1>1, <1>4, <1>5, <1>6 DEF Inv, Known, Sellable

LEMMA PlaceOrderInv ==
  ASSUME Inv, NEW o \in Order, PlaceOrder(o)
  PROVE  Inv'
<1>1. PICK side \in {"Buy", "Sell"}, type \in {"Market", "Limit"}, qty \in Qty,
           limit \in Price, currentPrice \in Price :
        Placed(o, [side |-> side, type |-> type, qty |-> qty, price |-> limit], currentPrice)
  BY DEF PlaceOrder
<1> DEFINE ord == [side |-> side, type |-> type, qty |-> qty, price |-> limit]
<1>2. qty \in Nat /\ limit \in Nat
  BY PaperAssumption
<1>3. ord \in OrderType /\ ord.price \in Nat /\ ord.qty \in Nat
  BY <1>2 DEF OrderType
<1>4. /\ Affordable(ord)
      /\ order' = [order EXCEPT ![o] = ord]
      /\ IF Crosses(ord, currentPrice)
           THEN /\ account' = ExecuteTrade(account, ord, ord.price, ord.qty)
                /\ status' = [status EXCEPT ![o] = "Filled"]
                /\ book' = Entry(book, o, ord.qty)
                /\ Trades(o, ord.qty)
           ELSE /\ account' = account
                /\ executed' = executed
                /\ status' = [status EXCEPT ![o] = "Pending"]
                /\ book' = [book EXCEPT !.active = @ \cup {o}]
  BY <1>1 DEF Placed
<1> HIDE DEF ord
<1>5. /\ UNCHANGED <<check, matching, price, crossed>> /\ status[o] = "none"
  BY DEF PlaceOrder
<1>6. /\ order \in [Order -> OrderType] /\ book \in BookType /\ book.active \subseteq Order
      /\ status \in [Order -> {"none", "Pending", "Filled", "Cancelled"}]
  BY DEF Inv, PaperTypeOK, BookType
<1>7. order' \in [Order -> OrderType] /\ order'[o] = ord
      /\ \A q \in Order \ {o} : order'[q] = order[q]
  BY <1>3, <1>4, <1>6
<1>8. /\ status' \in [Order -> {"none", "Pending", "Filled", "Cancelled"}]
      /\ status'[o] # "none" /\ \A q \in Order \ {o} : status'[q] = status[q]
  BY <1>4, <1>6
<1>9. book' \in BookType /\ book'.active \subseteq book.active \cup {o}
  <2>1. CASE Crosses(ord, currentPrice)
    <3>1. IsEntry(book', book, o, ord.qty)
      BY <1>3, <1>4, <1>6, <2>1, BookEntry
    <3> QED
      BY <3>1 DEF IsEntry
  <2>2. CASE ~Crosses(ord, currentPrice)
    <3> DEFINE a == book.active \cup {o}
    <3>1. a \in SUBSET Order /\ book' = [book EXCEPT !.active = a]
      BY <1>4, <1>6, <2>2
    <3> HIDE DEF a
    <3>2. book' \in BookType /\ book'.active = a
      BY <1>6, <3>1, BookActive
    <3> QED
      BY <3>2 DEF a
  <2> QED
    BY <2>1, <2>2
<1>10. "reset" \notin crossed => Coined(account) /\ (ord.side = "Sell" => account.coinKnown)
  BY <1>4 DEF Inv, Sellable, Coined, Affordable
<1>11. /\ Sound(account')
       /\ "reset" \notin crossed =>
            /\ Coined(account')
            /\ ord.side = "Sell" => account'.coinKnown
            /\ account.coinKnown => account'.coinKnown
  <2>1. CASE Crosses(ord, currentPrice)
    <3>1. account' = ExecuteTrade(account, ord, ord.price, ord.qty)
      BY <1>4, <2>1
    <3>2. Sound(account) /\ ord.price \in Nat /\ ord.qty \in Nat
      BY <1>3 DEF Inv
    <3>3. Sound(account')
      BY <1>3, <3>1, <3>2, TradeIsSound
    <3>4. Coined(account) /\ (ord.side = "Sell" => account.coinKnown) =>
            Coined(account') /\ account'.coinKnown
      BY <1>3, <3>1, <3>2, TradeIsSound
    <3> QED
      BY <1>10, <3>3, <3>4
  <2>2. CASE ~Crosses(ord, currentPrice)
    BY <1>4, <1>10, <2>2 DEF Inv
  <2> QED
    BY <2>1, <2>2
<1>15. executed' \in [Order -> Nat]
  <2>1. executed \in [Order -> Nat]
    BY DEF Inv, PaperTypeOK
  <2> QED
    BY <1>3, <1>4, <2>1, TradesFields
<1>12. PaperTypeOK'
  BY <1>5, <1>7, <1>8, <1>9, <1>11, <1>15 DEF Inv, PaperTypeOK, Sound
<1>13. Known'
  <2>1. \A q \in Order : status[q] # "none" => status'[q] # "none"
    BY <1>8
  <2>2. \A q \in book'.active : status'[q] # "none"
    BY <1>6, <1>8, <1>9 DEF Inv, Known
  <2>3. \A c \in Check : check[c].list \subseteq Order
    BY DEF Inv, PaperTypeOK, CheckType
  <2> QED
    BY <1>5, <2>1, <2>2, <2>3 DEF Inv, Known, InFlight
<1>14. Sellable'
  BY <1>5, <1>7, <1>8, <1>11 DEF Inv, Sellable
<1> QED
  BY <1>11, <1>12, <1>13, <1>14 DEF Inv

LEMMA CancelOrderInv ==
  ASSUME Inv, NEW o \in Order, CancelOrder(o)
  PROVE  Inv'
<1>1. /\ o \in book.active /\ UNCHANGED <<account, order, check, matching, price, executed>>
      /\ status' = [status EXCEPT ![o] = "Cancelled"]
      /\ book' = [book EXCEPT !.active = @ \ {o}, !.history[o] = @ + 1]
      /\ crossed' \in {crossed, crossed \cup {"cancel"}}
  BY DEF CancelOrder, Crossing
<1>2. /\ book \in BookType /\ book.active \subseteq Order
      /\ status \in [Order -> {"none", "Pending", "Filled", "Cancelled"}]
  BY DEF Inv, PaperTypeOK, BookType
<1>3. book' \in BookType /\ book'.active = book.active \ {o}
  <2> DEFINE a == book.active \ {o}
             h == [book.history EXCEPT ![o] = @ + 1]
  <2>1. a \in SUBSET Order /\ h \in [Order -> Nat]
    BY <1>2 DEF BookType
  <2>2. book' = [book EXCEPT !.active = a, !.history = h]
    BY <1>1, <1>2 DEF BookType
  <2> HIDE DEF a, h
  <2>3. book' \in BookType /\ book'.active = a
    BY <1>2, <2>1, <2>2 DEF BookType
  <2> QED
    BY <2>3 DEF a
<1>4. /\ status' \in [Order -> {"none", "Pending", "Filled", "Cancelled"}]
      /\ \A q \in Order : status'[q] # "none" <=> status[q] # "none"
  BY <1>1, <1>2 DEF Inv, Known
<1>5. crossed' \subseteq {"cancel", "check", "reset"}
  BY <1>1 DEF Inv, PaperTypeOK
<1>6. PaperTypeOK'
  BY <1>1, <1>3, <1>4, <1>5 DEF Inv, PaperTypeOK
<1>7. Known'
  BY <1>1, <1>2, <1>3, <1>4 DEF Inv, Known, InFlight, PaperTypeOK, CheckType
<1>8. Sellable' /\ Sound(account)'
  BY <1>1, <1>4 DEF Inv, Sellable
<1> QED
  BY <1>6, <1>7, <1>8 DEF Inv

LEMMA CheckBeginsInv ==
  ASSUME Inv, NEW c \in Check, CheckBegins(c)
  PROVE  Inv'
<1>1. /\ matching = 0 /\ ~InFlight(c) /\ status' = status
      /\ UNCHANGED <<account, order, executed>>
      /\ crossed' \in {crossed, crossed \cup {"check"}}
  BY DEF CheckBegins, Crossing
<1>2. Sellable' /\ Sound(account)'
  BY <1>1 DEF Inv, Sellable
<1>3. crossed' \subseteq {"cancel", "check", "reset"}
  BY <1>1 DEF Inv, PaperTypeOK
<1>4. book \in BookType /\ check \in [Check -> CheckType] /\ book.active \subseteq Order
  BY DEF Inv, PaperTypeOK, BookType
<1>5. CASE /\ \E o \in At(book.active, 0) :
                check' = [check EXCEPT ![c] = [IdleCheck EXCEPT !.at = "price", !.cursor = 1,
                                                               !.order = o]]
           /\ UNCHANGED <<book, matching, price>>
  <2>1. PICK o \in At(book.active, 0) :
          check' = [check EXCEPT ![c] = [IdleCheck EXCEPT !.at = "price", !.cursor = 1,
                                                         !.order = o]]
    BY <1>5
  <2>2. o \in book.active /\ o \in Order
    BY <1>4 DEF At
  <2> DEFINE r == [IdleCheck EXCEPT !.at = "price", !.cursor = 1, !.order = o]
  <2>3. IdleCheck.list = {} /\ IdleCheck.live
    BY DEF IdleCheck
  <2>4. r \in CheckType
    BY <2>2, IdleTyped DEF CheckType
  <2>5. r.at = "price" /\ r.order = o /\ r.list = {} /\ r.cursor = 1 /\ r.live
    BY <2>3, IdleTyped DEF CheckType
  <2> HIDE DEF r
  <2>6. check' = [check EXCEPT ![c] = r]
    BY <2>1 DEF r
  <2>7. check' \in [Check -> CheckType] /\ check'[c] = r /\ \A d \in Check \ {c} : check'[d] = check[d]
    BY <1>4, <2>4, <2>6
  <2>8. UNCHANGED <<book, matching, price, account, order, status>>
    BY <1>1, <1>5
  <2>9. PaperTypeOK'
    BY <1>1, <1>3, <2>7, <2>8 DEF Inv, PaperTypeOK
  <2>10. Known'
    BY <1>4, <2>2, <2>5, <2>7, <2>8 DEF Inv, Known, InFlight
  <2> QED
    BY <1>2, <2>9, <2>10 DEF Inv
<1>6. CASE Finish(c, book)
  <2>1. /\ book' \in BookType /\ book'.active \subseteq book.active
        /\ check' \in [Check -> CheckType] /\ check'[c] = IdleCheck
        /\ \A d \in Check \ {c} : check'[d] = Detached(d)
    BY <1>4, <1>6, FinishFields DEF Inv
  <2>2. matching' = 0
    BY <1>6 DEF Finish
  <2>3. ASSUME NEW d \in Check, check'[d].at # "idle"
        PROVE  /\ check'[d].order \in Order /\ status'[check'[d].order] # "none"
               /\ \A o \in check'[d].list : status'[o] # "none"
    <3>1. d # c /\ check'[d] = Detached(d)
      BY <2>1, <2>3 DEF IdleCheck
    <3>2. List(d) \subseteq Order
      BY ListIsKnown DEF Inv
    <3>3. /\ check'[d].at = check[d].at /\ check'[d].order = check[d].order
          /\ check'[d].list = (IF InFlight(d) THEN List(d) ELSE check[d].list)
      BY <1>4, <3>1, <3>2, DetachedFields
    <3>4. InFlight(d)
      BY <2>3, <3>3 DEF InFlight
    <3>5. \A o \in List(d) : status[o] # "none"
      BY <3>4, ListIsKnown DEF Inv
    <3> QED
      BY <1>1, <3>3, <3>4, <3>5 DEF Inv, Known
  <2>4. Known'
    BY <1>1, <2>1, <2>3 DEF Inv, Known, InFlight
  <2>5. PaperTypeOK'
    BY <1>1, <1>3, <2>1, <2>2 DEF Inv, PaperTypeOK
  <2> QED
    BY <1>2, <2>4, <2>5 DEF Inv
<1> QED
  BY <1>5, <1>6 DEF CheckBegins

LEMMA PriceFailsInv ==
  ASSUME Inv, NEW c \in Check, PriceFails(c)
  PROVE  Inv'
<1>1. /\ matching = 0 /\ check[c].at = "price" /\ Advance(c, book)
      /\ UNCHANGED <<account, order, executed, crossed, status>>
  BY DEF PriceFails
<1>2. InFlight(c) /\ KeepsKnown /\ book \in BookType
  BY <1>1 DEF InFlight, KeepsKnown, Inv, PaperTypeOK
<1>3. /\ book' \in BookType /\ check' \in [Check -> CheckType]
      /\ matching' = matching \/ matching' = 0
      /\ Known'
  BY <1>1, <1>2, AdvanceKeeps DEF Inv
<1>4. PaperTypeOK'
  BY <1>1, <1>3 DEF Inv, PaperTypeOK
<1>5. Sellable' /\ Sound(account)'
  BY <1>1 DEF Inv, Sellable
<1> QED
  BY <1>3, <1>4, <1>5 DEF Inv

LEMMA PriceComesInv ==
  ASSUME Inv, NEW c \in Check, PriceComes(c)
  PROVE  Inv'
<1>1. /\ check[c].at = "price" /\ check' = [check EXCEPT ![c].at = "match"]
      /\ matching' = c /\ price' \in Price
      /\ UNCHANGED <<account, order, status, book, executed, crossed>>
  BY DEF PriceComes
<1>2. check \in [Check -> CheckType] /\ check[c] \in CheckType
  BY DEF Inv, PaperTypeOK
<1> DEFINE r == [check[c] EXCEPT !.at = "match"]
<1>3. check' = [check EXCEPT ![c] = r]
  BY <1>1
<1>4. r \in CheckType
  BY <1>2 DEF CheckType
<1>5. r.at = "match" /\ r.order = check[c].order /\ r.list = check[c].list
  BY <1>2 DEF CheckType
<1> HIDE DEF r
<1>6. check' \in [Check -> CheckType] /\ check'[c] = r /\ \A d \in Check \ {c} : check'[d] = check[d]
  BY <1>2, <1>3, <1>4
<1>7. PaperTypeOK'
  BY <1>1, <1>5, <1>6 DEF Inv, PaperTypeOK
<1>8. Known'
  <2>1. ASSUME NEW d \in Check, check'[d].at # "idle"
        PROVE  /\ check'[d].order \in Order /\ status[check'[d].order] # "none"
               /\ \A o \in check'[d].list : status[o] # "none"
    <3>1. check[d].at # "idle"
      BY <1>1, <1>6, <2>1
    <3>2. check'[d].order = check[d].order /\ check'[d].list = check[d].list
      BY <1>5, <1>6
    <3> QED
      BY <3>1, <3>2 DEF Inv, Known, InFlight
  <2> QED
    BY <1>1, <2>1 DEF Inv, Known, InFlight
<1>9. Sellable' /\ Sound(account)'
  BY <1>1 DEF Inv, Sellable
<1> QED
  BY <1>7, <1>8, <1>9 DEF Inv

LEMMA LeftTyped ==
  ASSUME PaperTypeOK, NEW o \in Order
  PROVE  Left(o) \in Nat
<1>1. order[o].qty \in Nat
  BY DEF PaperTypeOK, OrderType
<1> QED
  BY <1>1 DEF Left

LEMMA MatchInv ==
  ASSUME Inv, NEW c \in Check, Match(c)
  PROVE  Inv'
<1> DEFINE o == check[c].order
<1>1. /\ matching = c /\ c # 0 /\ UNCHANGED <<order, crossed>>
      /\ check[c].at = "match" /\ price \in Price
  BY DEF Match, Inv, PaperTypeOK, Check
<1>2. InFlight(c) /\ o \in Order /\ status[o] # "none"
  BY <1>1 DEF InFlight, Inv, Known
<1>3. /\ book \in BookType /\ order \in [Order -> OrderType] /\ order[o] \in OrderType
      /\ status \in [Order -> {"none", "Pending", "Filled", "Cancelled"}]
      /\ price \in Nat /\ Left(o) \in Nat
  BY <1>1, <1>2, LeftTyped, PaperAssumption DEF Inv, PaperTypeOK
<1>4. \/ /\ account' = ExecuteTrade(account, order[o], price, Left(o))
         /\ status' = [status EXCEPT ![o] = "Filled"]
         /\ Trades(o, Left(o))
         /\ Advance(c, Entry(book, o, 2 * Left(o)))
      \/ /\ UNCHANGED <<account, status, executed>>
         /\ Advance(c, book)
  BY DEF Match
<1>5. PICK now \in BookType : now.active = book.active /\ Advance(c, now)
  <2>1. 2 * Left(o) \in Nat
    BY <1>3
  <2>2. IsEntry(Entry(book, o, 2 * Left(o)), book, o, 2 * Left(o))
    BY <1>2, <1>3, <2>1, BookEntry
  <2> QED
    BY <1>3, <1>4, <2>2 DEF IsEntry
<1>6. /\ status' \in [Order -> {"none", "Pending", "Filled", "Cancelled"}]
      /\ \A q \in Order : status'[q] # "none" <=> status[q] # "none"
  BY <1>2, <1>3, <1>4
<1>7. /\ book' \in BookType /\ check' \in [Check -> CheckType]
      /\ \/ matching' = matching /\ price' = price /\ check'[c].at = check[c].at
         \/ matching' = 0
      /\ Known'
  BY <1>2, <1>5, <1>6, AdvanceKeeps DEF Inv, KeepsKnown
<1>8. /\ Sound(account')
      /\ "reset" \notin crossed =>
           Coined(account') /\ (account.coinKnown => account'.coinKnown)
  <2>1. CASE account' = ExecuteTrade(account, order[o], price, Left(o))
    <3>1. "reset" \notin crossed =>
            Coined(account) /\ (order[o].side = "Sell" => account.coinKnown)
      BY <1>2 DEF Inv, Sellable
    <3>2. Sound(account')
      BY <1>3, <2>1, TradeIsSound DEF Inv
    <3>3. Coined(account) /\ (order[o].side = "Sell" => account.coinKnown) =>
            Coined(account') /\ account'.coinKnown
      <4> HIDE DEF o
      <4> QED
        BY <1>3, <2>1, TradeIsSound DEF Inv
    <3> QED
      BY <3>1, <3>2, <3>3
  <2>2. CASE account' = account
    BY <2>2 DEF Inv, Sellable
  <2> QED
    BY <1>4, <2>1, <2>2
<1>9. Sellable'
  BY <1>1, <1>6, <1>8 DEF Inv, Sellable
<1>11. executed' \in [Order -> Nat]
  <2>1. executed \in [Order -> Nat]
    BY DEF Inv, PaperTypeOK
  <2> HIDE DEF o
  <2> QED
    BY <1>2, <1>3, <1>4, <2>1, TradesFields
<1>10. PaperTypeOK'
  BY <1>1, <1>6, <1>7, <1>8, <1>11 DEF Inv, PaperTypeOK, Sound
<1> QED
  BY <1>7, <1>8, <1>9, <1>10 DEF Inv

LEMMA ResetInv ==
  ASSUME Inv, Reset
  PROVE  Inv'
<1>1. /\ account' = NewAccount /\ book' = NewBook /\ matching = 0
      /\ status' = [o \in Order |-> IF o \in Reachable THEN status[o] ELSE "none"]
      /\ executed' = [o \in Order |-> IF o \in Reachable THEN executed[o] ELSE 0]
      /\ check' = [d \in Check |-> Detached(d)]
      /\ UNCHANGED <<order, matching, price>>
      /\ crossed' = IF \E c \in Check : InFlight(c) THEN crossed \cup {"reset"} ELSE crossed
  BY DEF Reset, Crossing
<1>2. check \in [Check -> CheckType] /\ \A d \in Check : List(d) \subseteq Order
  BY ListIsKnown DEF Inv, PaperTypeOK
<1>3. \A d \in Check :
        /\ Detached(d) \in CheckType
        /\ Detached(d).at = check[d].at /\ Detached(d).order = check[d].order
        /\ Detached(d).list = (IF InFlight(d) THEN List(d) ELSE check[d].list)
  BY <1>2, DetachedFields
<1>4. check' \in [Check -> CheckType] /\ \A d \in Check : check'[d] = Detached(d)
  BY <1>1, <1>3
<1>5. status' \in [Order -> {"none", "Pending", "Filled", "Cancelled"}]
  BY <1>1 DEF Inv, PaperTypeOK
<1>6. crossed' \subseteq {"cancel", "check", "reset"}
  BY <1>1 DEF Inv, PaperTypeOK
<1>7. Sound(account') /\ Coined(account')
  BY <1>1, NewAccountIsSound
<1>11. executed' \in [Order -> Nat]
  BY <1>1 DEF Inv, PaperTypeOK
<1>8. PaperTypeOK'
  BY <1>1, <1>4, <1>5, <1>6, <1>7, <1>11, NewBookTyped DEF Inv, PaperTypeOK, Sound
<1>9. Known'
  <2>1. book'.active = {}
    BY <1>1 DEF NewBook
  <2>2. ASSUME NEW d \in Check, check'[d].at # "idle"
        PROVE  /\ check'[d].order \in Order /\ status'[check'[d].order] # "none"
               /\ \A o \in check'[d].list : status'[o] # "none"
    <3>1. InFlight(d)
      BY <1>3, <1>4, <2>2 DEF InFlight
    <3>2. check'[d].order = check[d].order /\ check'[d].list = List(d)
      BY <1>3, <1>4, <3>1
    <3>3. \A o \in List(d) \cup {check[d].order} : o \in Order /\ status[o] # "none"
      BY <3>1, ListIsKnown DEF Inv, Known
    <3>4. {check[d].order} \cup List(d) \subseteq Reachable
      BY <3>1 DEF Reachable
    <3> QED
      BY <1>1, <3>2, <3>3, <3>4
  <2> QED
    BY <2>1, <2>2 DEF Known, InFlight
<1>10. Sellable'
  <2>1. CASE \E c \in Check : InFlight(c)
    BY <1>1, <2>1 DEF Sellable
  <2>2. CASE ~\E c \in Check : InFlight(c)
    <3>1. Reachable = {}
      BY <2>2 DEF Reachable
    <3> QED
      BY <1>1, <1>7, <3>1 DEF Sellable
  <2> QED
    BY <2>1, <2>2
<1> QED
  BY <1>7, <1>8, <1>9, <1>10 DEF Inv

LEMMA NextInv == Inv /\ [Next]_vars => Inv'
<1> SUFFICES ASSUME Inv, [Next]_vars PROVE Inv'
  OBVIOUS
<1>1. CASE \E o \in Order : PlaceOrder(o) \/ CancelOrder(o)
  BY <1>1, PlaceOrderInv, CancelOrderInv
<1>2. CASE \E c \in Check : CheckBegins(c) \/ PriceFails(c) \/ PriceComes(c) \/ Match(c)
  BY <1>2, CheckBeginsInv, PriceFailsInv, PriceComesInv, MatchInv
<1>3. CASE Reset
  BY <1>3, ResetInv
<1>4. CASE UNCHANGED vars
  BY <1>4 DEF vars, Inv, PaperTypeOK, Known, Sellable, InFlight, Sound
<1> QED
  BY <1>1, <1>2, <1>3, <1>4 DEF Next

(* Types: of the account, the orders, the book and the checks in flight.   *)
THEOREM PaperTypeCorrect == Spec => []PaperTypeOK
<1>1. Inv => PaperTypeOK
  BY DEF Inv
<1> QED
  BY InitInv, NextInv, <1>1, PTL DEF Spec

(* The books balance, whatever is placed, cancelled, checked and reset in  *)
(* whatever order, as long as no two checks overlap.                       *)
THEOREM BooksAlwaysBalance == Spec => []BooksBalance
<1>1. Inv => BooksBalance
  BY DEF Inv, Sound, BooksBalance
<1> QED
  BY InitInv, NextInv, <1>1, PTL DEF Spec

(* The coins are the position, unless an account is reset under a check.   *)
THEOREM CoinFollows == Spec => []CoinIsPosition
<1>1. Inv => CoinIsPosition
  BY DEF Inv, Sellable, Coined, CoinIsPosition
<1> QED
  BY InitInv, NextInv, <1>1, PTL DEF Spec

-----------------------------------------------------------------------------
(* Each order is executed once: the property is inductive, given Inv.      *)

Inv2 == Inv /\ ExecutedOnce

\* What ExecutedOnce says of an order.
Once(o) ==
  /\ executed[o] = (IF status[o] = "Filled" THEN order[o].qty ELSE 0)
  /\ matching = 0 /\ o \in book.active => status[o] = "Pending"
  /\ "reset" \notin crossed =>
       /\ status[o] = "Pending" => o \in book.active
       /\ book.history[o] > 0 <=> status[o] \in {"Filled", "Cancelled"}
       /\ book.traded[o] \in {executed[o], 2 * executed[o]}

LEMMA OnceForEach == ExecutedOnce <=> \A o \in Order : Once(o)
BY DEF ExecutedOnce, Once

LEMMA OnceForEachNext == ExecutedOnce' <=> \A o \in Order : Once(o)'
BY DEF ExecutedOnce, Once

\* It says the same of an order of which nothing changes.
LEMMA OnceKept ==
  ASSUME NEW o \in Order, Once(o), matching' = 0 => matching = 0, crossed \subseteq crossed',
         status'[o] = status[o], order'[o] = order[o], executed'[o] = executed[o],
         book'.history[o] = book.history[o], book'.traded[o] = book.traded[o],
         o \in book'.active <=> o \in book.active
  PROVE  Once(o)'
BY DEF Once

\* What has to hold of an order before a check goes on.
Passed(now, o) ==
  /\ executed'[o] = (IF status'[o] = "Filled" THEN order[o].qty ELSE 0)
  /\ matching = 0 /\ o \in now.active => status'[o] = "Pending"
  /\ "reset" \notin crossed =>
       /\ status'[o] = "Pending" => o \in now.active
       /\ now.history[o] > 0 <=> status'[o] \in {"Filled", "Cancelled"}
       /\ now.traded[o] \in {executed'[o], 2 * executed'[o]}

LEMMA AdvanceOnce ==
  ASSUME Inv, NEW c \in Check, NEW now \in BookType, Advance(c, now),
         UNCHANGED <<order, crossed>>, NEW o \in Order, Passed(now, o)
  PROVE  Once(o)'
<1>1. CASE Moves(c, now)
  <2>1. book' = now /\ matching' = matching
    BY <1>1 DEF Moves
  <2> QED
    BY <2>1 DEF Passed, Once
<1>2. CASE Finish(c, now)
  <2>1. /\ book'.active = {p \in now.active : status'[p] = "Pending"}
        /\ book'.history = now.history /\ book'.traded = now.traded
    BY <1>2, FinishFields DEF Inv
  <2> QED
    BY <2>1 DEF Passed, Once
<1> QED
  BY <1>1, <1>2 DEF Advance, Moves

LEMMA PlaceOrderOnce ==
  ASSUME Inv2, NEW o \in Order, PlaceOrder(o)
  PROVE  ExecutedOnce'
<1>1. PICK side \in {"Buy", "Sell"}, type \in {"Market", "Limit"}, qty \in Qty,
           limit \in Price, currentPrice \in Price :
        Placed(o, [side |-> side, type |-> type, qty |-> qty, price |-> limit], currentPrice)
  BY DEF PlaceOrder
<1> DEFINE ord == [side |-> side, type |-> type, qty |-> qty, price |-> limit]
<1>2. ord.qty \in Nat
  BY PaperAssumption
<1>3. /\ order' = [order EXCEPT ![o] = ord]
      /\ \/ /\ status' = [status EXCEPT ![o] = "Filled"]
            /\ book' = Entry(book, o, ord.qty)
            /\ Trades(o, ord.qty)
         \/ /\ status' = [status EXCEPT ![o] = "Pending"]
            /\ book' = [book EXCEPT !.active = @ \cup {o}]
            /\ executed' = executed
  BY <1>1 DEF Placed
<1> HIDE DEF ord
<1>4. matching = 0 /\ status[o] = "none" /\ UNCHANGED <<matching, crossed>>
  BY DEF PlaceOrder
<1>5. /\ order \in [Order -> OrderType] /\ book \in BookType /\ book.active \subseteq Order
      /\ status \in [Order -> {"none", "Pending", "Filled", "Cancelled"}]
      /\ book.history \in [Order -> Nat] /\ book.traded \in [Order -> Nat]
      /\ executed \in [Order -> Nat]
  BY DEF Inv2, Inv, PaperTypeOK, BookType
<1>6. (\A q \in Order : Once(q)) /\ Known
  BY OnceForEach DEF Inv2, Inv
<1>7. /\ o \notin book.active /\ executed[o] = 0
      /\ "reset" \notin crossed => book.history[o] = 0 /\ book.traded[o] = 0
  <2>1. o \notin book.active /\ executed[o] = 0
    BY <1>4, <1>6 DEF Known, Once
  <2>2. book.history[o] \in Nat
    BY <1>5
  <2> QED
    BY <1>4, <1>6, <2>1, <2>2 DEF Once
<1>8. order'[o] = ord /\ \A q \in Order \ {o} : order'[q] = order[q]
  BY <1>3, <1>5
<1>9. \A q \in Order \ {o} : status'[q] = status[q]
  BY <1>3, <1>5
<1>10. CASE /\ status' = [status EXCEPT ![o] = "Filled"] /\ book' = Entry(book, o, ord.qty)
            /\ Trades(o, ord.qty)
  <2>1. IsEntry(book', book, o, ord.qty)
    BY <1>2, <1>5, <1>10, BookEntry
  <2>2. /\ book'.active = book.active /\ book'.history[o] = book.history[o] + 1
        /\ book'.traded[o] = book.traded[o] + ord.qty
        /\ \A q \in Order \ {o} : /\ book'.history[q] = book.history[q]
                                  /\ book'.traded[q] = book.traded[q]
    BY <1>2, <1>5, <2>1 DEF IsEntry
  <2>3. /\ status'[o] = "Filled" /\ executed'[o] = ord.qty
        /\ \A q \in Order \ {o} : executed'[q] = executed[q]
    BY <1>2, <1>5, <1>7, <1>10, TradesFields
  <2>4. Once(o)'
    BY <1>2, <1>4, <1>7, <1>8, <2>2, <2>3 DEF Once
  <2>5. ASSUME NEW q \in Order \ {o} PROVE Once(q)'
    BY <1>4, <1>6, <1>8, <1>9, <2>2, <2>3, OnceKept
  <2> QED
    BY <2>4, <2>5, OnceForEachNext
<1>11. CASE /\ status' = [status EXCEPT ![o] = "Pending"] /\ executed' = executed
            /\ book' = [book EXCEPT !.active = @ \cup {o}]
  <2>1. /\ book'.active = book.active \cup {o}
        /\ book'.history = book.history /\ book'.traded = book.traded
    BY <1>5, <1>11 DEF BookType
  <2>2. status'[o] = "Pending"
    BY <1>5, <1>11
  <2>3. Once(o)'
    BY <1>4, <1>7, <1>11, <2>1, <2>2 DEF Once
  <2>4. ASSUME NEW q \in Order \ {o} PROVE Once(q)'
    BY <1>4, <1>6, <1>8, <1>9, <1>11, <2>1, OnceKept
  <2> QED
    BY <2>3, <2>4, OnceForEachNext
<1> QED
  BY <1>3, <1>10, <1>11

LEMMA CancelOrderOnce ==
  ASSUME Inv2, NEW o \in Order, CancelOrder(o)
  PROVE  ExecutedOnce'
<1>1. /\ o \in book.active /\ matching = 0 /\ crossed \subseteq crossed'
      /\ UNCHANGED <<order, matching, executed>>
      /\ status' = [status EXCEPT ![o] = "Cancelled"]
      /\ book' = [book EXCEPT !.active = @ \ {o}, !.history[o] = @ + 1]
  BY DEF CancelOrder, Crossing
<1>2. /\ book \in BookType /\ book.history \in [Order -> Nat]
      /\ status \in [Order -> {"none", "Pending", "Filled", "Cancelled"}]
  BY DEF Inv2, Inv, PaperTypeOK, BookType
<1>3. \A q \in Order : Once(q)
  BY OnceForEach DEF Inv2
<1>4. status[o] = "Pending" /\ executed[o] = 0
  BY <1>1, <1>3 DEF Once
<1>5. /\ book'.active = book.active \ {o} /\ book'.traded = book.traded
      /\ book'.history = [book.history EXCEPT ![o] = @ + 1]
  BY <1>1, <1>2 DEF BookType
<1>6. book'.history[o] > 0 /\ \A q \in Order \ {o} : book'.history[q] = book.history[q]
  BY <1>2, <1>5
<1>7. status'[o] = "Cancelled" /\ \A q \in Order \ {o} : status'[q] = status[q]
  BY <1>1, <1>2
<1>8. Once(o)'
  BY <1>1, <1>3, <1>4, <1>5, <1>6, <1>7 DEF Once
<1>9. ASSUME NEW q \in Order \ {o} PROVE Once(q)'
  BY <1>1, <1>3, <1>5, <1>6, <1>7, OnceKept
<1> QED
  BY <1>8, <1>9, OnceForEachNext

LEMMA CheckBeginsOnce ==
  ASSUME Inv2, NEW c \in Check, CheckBegins(c)
  PROVE  ExecutedOnce'
<1>1. /\ matching = 0 /\ crossed \subseteq crossed' /\ UNCHANGED <<order, status, executed>>
      /\ UNCHANGED <<book, matching>> \/ Finish(c, book)
  BY DEF CheckBegins, Crossing
<1>2. (\A q \in Order : Once(q)) /\ book \in BookType
  BY OnceForEach DEF Inv2, Inv, PaperTypeOK
<1>3. ASSUME NEW o \in Order PROVE Once(o)'
  <2>1. CASE UNCHANGED <<book, matching>>
    BY <1>1, <1>2, <2>1, OnceKept
  <2>2. CASE Finish(c, book)
    <3>1. /\ book'.active = {p \in book.active : status'[p] = "Pending"}
          /\ book'.history = book.history /\ book'.traded = book.traded
      BY <1>2, <2>2, FinishFields DEF Inv2, Inv
    <3>2. o \in book'.active <=> o \in book.active
      BY <1>1, <1>2, <3>1 DEF Once
    <3> QED
      BY <1>1, <1>2, <3>1, <3>2, OnceKept
  <2> QED
    BY <1>1, <2>1, <2>2
<1> QED
  BY <1>3, OnceForEachNext

LEMMA PriceFailsOnce ==
  ASSUME Inv2, NEW c \in Check, PriceFails(c)
  PROVE  ExecutedOnce'
<1>1. /\ Advance(c, book) /\ UNCHANGED <<order, executed, crossed, status>>
  BY DEF PriceFails
<1>2. Inv /\ book \in BookType /\ \A o \in Order : Once(o)
  BY OnceForEach DEF Inv2, Inv, PaperTypeOK
<1>3. ASSUME NEW o \in Order PROVE Once(o)'
  <2>1. Passed(book, o)
    BY <1>1, <1>2 DEF Once, Passed
  <2> QED
    BY <1>1, <1>2, <2>1, AdvanceOnce
<1> QED
  BY <1>3, OnceForEachNext

LEMMA MatchOnce ==
  ASSUME Inv2, NEW c \in Check, Match(c)
  PROVE  ExecutedOnce'
<1> DEFINE o == check[c].order
<1>1. matching = c /\ matching # 0 /\ UNCHANGED <<order, crossed>> /\ InFlight(c)
  BY DEF Match, Inv2, Inv, PaperTypeOK, Check, InFlight
<1>2. Inv /\ \A q \in Order : Once(q)
  BY OnceForEach DEF Inv2
<1>3. o \in Order /\ Left(o) \in Nat /\ order[o].qty \in Nat
  <2>1. o \in Order
    BY <1>1, <1>2 DEF Inv, Known
  <2> QED
    BY <1>2, <2>1, LeftTyped DEF Inv, PaperTypeOK, OrderType
<1>4. /\ book \in BookType /\ executed \in [Order -> Nat]
      /\ book.history \in [Order -> Nat] /\ book.traded \in [Order -> Nat]
      /\ status \in [Order -> {"none", "Pending", "Filled", "Cancelled"}]
  BY <1>2 DEF Inv, PaperTypeOK, BookType
<1>5. CASE /\ status' = [status EXCEPT ![o] = "Filled"] /\ Trades(o, Left(o))
           /\ Advance(c, Entry(book, o, 2 * Left(o)))
  <2> DEFINE now == Entry(book, o, 2 * Left(o))
  <2>1. 2 * Left(o) \in Nat
    BY <1>3
  <2>2. IsEntry(now, book, o, 2 * Left(o))
    BY <1>3, <1>4, <2>1, BookEntry
  <2>3. Advance(c, now)
    BY <1>5
  <2> HIDE DEF now
  <2>4. /\ now \in BookType /\ now.active = book.active
        /\ now.history[o] = book.history[o] + 1
        /\ now.traded[o] = book.traded[o] + 2 * Left(o)
        /\ \A q \in Order \ {o} : /\ now.history[q] = book.history[q]
                                  /\ now.traded[q] = book.traded[q]
    <3> HIDE DEF o
    <3> QED
      BY <1>3, <1>4, <2>1, <2>2 DEF IsEntry
  <2>5. /\ executed'[o] = executed[o] + Left(o)
        /\ \A q \in Order \ {o} : executed'[q] = executed[q]
    <3> HIDE DEF o
    <3> QED
      BY <1>3, <1>4, <1>5, TradesFields
  <2>6. status'[o] = "Filled" /\ \A q \in Order \ {o} : status'[q] = status[q]
    BY <1>3, <1>4, <1>5
  <2>7. Passed(now, o)
    <3>1. executed'[o] = order[o].qty
      BY <1>2, <1>3, <2>5 DEF Once, Left
    <3>2. "reset" \notin crossed => now.traded[o] \in {executed'[o], 2 * executed'[o]}
      <4>1. CASE status[o] = "Filled"
        BY <1>2, <1>3, <1>4, <2>4, <3>1, <4>1 DEF Once, Left
      <4>2. CASE status[o] # "Filled"
        BY <1>2, <1>3, <1>4, <2>4, <3>1, <4>2 DEF Once, Left
      <4> QED
        BY <4>1, <4>2
    <3>3. now.history[o] > 0
      <4>1. book.history[o] \in Nat
        BY <1>3, <1>4
      <4> QED
        BY <2>4, <4>1
    <3> QED
      BY <1>1, <2>6, <3>1, <3>2, <3>3 DEF Passed
  <2>8. ASSUME NEW q \in Order \ {o} PROVE Passed(now, q)
    BY <1>1, <1>2, <2>4, <2>5, <2>6 DEF Once, Passed
  <2>9. ASSUME NEW q \in Order PROVE Once(q)'
    <3>1. Passed(now, q)
      BY <2>7, <2>8
    <3> QED
      BY <1>1, <1>2, <2>3, <2>4, <3>1, AdvanceOnce
  <2> QED
    BY <2>9, OnceForEachNext
<1>6. CASE UNCHANGED <<status, executed>> /\ Advance(c, book)
  <2>1. ASSUME NEW q \in Order PROVE Once(q)'
    <3>1. Passed(book, q)
      BY <1>1, <1>2, <1>6 DEF Once, Passed
    <3> QED
      BY <1>1, <1>2, <1>4, <1>6, <3>1, AdvanceOnce
  <2> QED
    BY <2>1, OnceForEachNext
<1> QED
  BY <1>5, <1>6 DEF Match

LEMMA ResetOnce ==
  ASSUME Inv2, Reset
  PROVE  ExecutedOnce'
<1>1. /\ book' = NewBook /\ order' = order
      /\ status' = [o \in Order |-> IF o \in Reachable THEN status[o] ELSE "none"]
      /\ executed' = [o \in Order |-> IF o \in Reachable THEN executed[o] ELSE 0]
      /\ crossed' = IF \E c \in Check : InFlight(c) THEN crossed \cup {"reset"} ELSE crossed
  BY DEF Reset, Crossing
<1>2. \A q \in Order : Once(q)
  BY OnceForEach DEF Inv2
<1>3. "reset" \notin crossed' => Reachable = {}
  BY <1>1 DEF Reachable
<1>4. ASSUME NEW o \in Order PROVE Once(o)'
  <2>1. o \notin book'.active /\ book'.history[o] = 0 /\ book'.traded[o] = 0
    BY <1>1 DEF NewBook
  <2> QED
    BY <1>1, <1>2, <1>3, <2>1 DEF Once
<1> QED
  BY <1>4, OnceForEachNext

LEMMA InitInv2 == Init => Inv2
<1> SUFFICES ASSUME Init PROVE ExecutedOnce
  BY InitInv DEF Inv2
<1>1. \A o \in Order : /\ status[o] = "none" /\ o \notin book.active /\ executed[o] = 0
                       /\ book.history[o] = 0 /\ book.traded[o] = 0
  BY DEF Init, NewBook
<1> QED
  BY <1>1 DEF ExecutedOnce

LEMMA NextInv2 == Inv2 /\ [Next]_vars => Inv2'
<1> SUFFICES ASSUME Inv2, [Next]_vars PROVE ExecutedOnce'
  BY NextInv DEF Inv2
<1>1. CASE \E o \in Order : PlaceOrder(o) \/ CancelOrder(o)
  BY <1>1, PlaceOrderOnce, CancelOrderOnce
<1>2. CASE \E c \in Check : CheckBegins(c) \/ PriceFails(c) \/ Match(c)
  BY <1>2, CheckBeginsOnce, PriceFailsOnce, MatchOnce
<1>3. CASE \E c \in Check : PriceComes(c)
  <2>1. PICK c \in Check : PriceComes(c)
    BY <1>3
  <2>2. /\ matching' # 0 /\ UNCHANGED <<order, status, book, executed, crossed>>
    BY <2>1 DEF PriceComes, Check
  <2> QED
    BY <2>2 DEF Inv2, ExecutedOnce
<1>4. CASE Reset
  BY <1>4, ResetOnce
<1>5. CASE UNCHANGED vars
  BY <1>5 DEF vars, Inv2, ExecutedOnce
<1> QED
  BY <1>1, <1>2, <1>3, <1>4, <1>5 DEF Next

(* An order is executed once, however checks, cancels and resets overlap,  *)
(* none is active that has ended, and unless an account is reset under a   *)
(* check the history and the trades show what was executed.                *)
THEOREM OrdersFillOnce == Spec => []ExecutedOnce
<1>1. Inv2 => ExecutedOnce
  BY DEF Inv2
<1> QED
  BY InitInv2, NextInv2, <1>1, PTL DEF Spec
=============================================================================

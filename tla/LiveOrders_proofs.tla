-------------------------- MODULE LiveOrders_proofs --------------------------
(***************************************************************************)
(* Proofs about LiveOrders, for any number of orders and polls.            *)
(***************************************************************************)
EXTENDS LiveOrders, TLAPS

\* What is on its way is a status the order has had at the exchange.
AnswersPrecede ==
  \A o \in Order :
    /\ request[o] \in {"unsent", "sent"} => exchange[o] = "none"
    /\ request[o] \in OrderStatus => /\ exchange[o] # "none"
                                     /\ Precedes(request[o], exchange[o])
    /\ Known(o) => request[o] \in OrderStatus

SnapshotsPrecede ==
  \A q \in Poll : \A o \in Order : Precedes(poll[q].snapshot[o], exchange[o])

\* Until requests cross there is one poll, and no buy() or sell() beside it.
Alone ==
  ~crossed => /\ \A q, r \in Poll : Busy(q) /\ Busy(r) => q = r
              /\ \A q \in Poll : Busy(q) => \A o \in Order : ~InFlight(o)

\* So its snapshot lists every order the engine knows of,
SnapshotComplete ==
  ListsOrders /\ ~crossed =>
    \A q \in Poll : poll[q].at \in {"answered", "reporting"} =>
      \A o \in Order : Known(o) => poll[q].snapshot[o] # "none"

\* and what it has just reported is still the engine's copy.
ReportIsCurrent ==
  ~crossed => \A q \in Poll : poll[q].at = "reporting" =>
                orders[poll[q].cursor] = poll[q].snapshot[poll[q].cursor]

Base == LiveTypeOK /\ NeverAhead /\ AnswersPrecede /\ SnapshotsPrecede
Inv  == Base /\ Alone /\ SnapshotComplete /\ ReportIsCurrent /\ UntrackedIsSettled

\* Precedes is a preorder that ends in the final statuses.
LEMMA PrecedesFacts ==
  ASSUME NEW s, NEW t
  PROVE  /\ Precedes(s, s)
         /\ Precedes(s, t) /\ s \in Final => t = s
         /\ Precedes(s, "none") => s = "none"
         /\ \A r : Precedes(r, s) /\ Precedes(s, t) => Precedes(r, t)
BY DEF Precedes, OrderStatus, Final, Open

\* A turn of the loop, seen from outside: a known order takes the snapshot's
\* status, the call itself is the only one that moves, and only orders that
\* the snapshot does not list cease to be tracked.
LEMMA WalkFacts ==
  ASSUME LiveTypeOK, NEW q \in Poll, NEW T \in SUBSET trackedOrderIds, Walk(q, T)
  PROVE  /\ orders' \in [Order -> OrderStatus \cup {"none"}]
         /\ \A o \in Order : /\ orders'[o] = orders[o]
                                \/ (o \in T /\ orders'[o] = poll[q].snapshot[o])
                             /\ Known(o)' <=> Known(o)
         /\ trackedOrderIds' \in SUBSET T
         /\ \A o \in T \ trackedOrderIds' : poll[q].snapshot[o] = "none"
         /\ poll' \in [Poll -> PollState]
         /\ \A r \in Poll \ {q} : poll'[r] = poll[r]
         /\ \/ poll'[q] = Idle
            \/ /\ poll'[q].at = "reporting"
               /\ poll'[q].cursor \in T
               /\ poll'[q].snapshot = poll[q].snapshot
               /\ orders'[poll'[q].cursor] = poll[q].snapshot[poll'[q].cursor]
<1>t. /\ orders \in [Order -> OrderStatus \cup {"none"}]
      /\ T \subseteq Order /\ \A o \in T : Known(o)
      /\ poll[q] \in PollState
      /\ poll \in [Poll -> PollState]
  BY DEF LiveTypeOK
<1>n. MaxOrder \in Nat /\ Order = 1..MaxOrder
  BY LiveAssumption DEF Order
<1>1. CASE \E o \in Changed(q, T) :
              /\ orders' = [orders EXCEPT ![o] = poll[q].snapshot[o]]
              /\ trackedOrderIds' = T \ {p \in Missing(q, T) : p < o}
              /\ poll' = [poll EXCEPT ![q].at = "reporting", ![q].cursor = o]
  <2> PICK o \in Changed(q, T) :
              /\ orders' = [orders EXCEPT ![o] = poll[q].snapshot[o]]
              /\ trackedOrderIds' = T \ {p \in Missing(q, T) : p < o}
              /\ poll' = [poll EXCEPT ![q].at = "reporting", ![q].cursor = o]
    BY <1>1
  <2>1. /\ o \in T /\ o \in Order /\ o \in 0..MaxOrder
        /\ poll[q].snapshot[o] \in OrderStatus
    BY <1>t, <1>n DEF Changed, PollState
  <2>2. /\ orders' \in [Order -> OrderStatus \cup {"none"}]
        /\ orders'[o] = poll[q].snapshot[o]
        /\ \A p \in Order \ {o} : orders'[p] = orders[p]
    BY <1>t, <2>1
  <2>3. \A p \in Order : Known(p)' <=> Known(p)
    BY <1>t, <2>1, <2>2 DEF Known, OrderStatus
  <2>4. /\ poll' \in [Poll -> PollState]
        /\ \A r \in Poll \ {q} : poll'[r] = poll[r]
        /\ poll'[q].at = "reporting" /\ poll'[q].cursor = o
        /\ poll'[q].snapshot = poll[q].snapshot
    BY <1>t, <2>1 DEF PollState
  <2> QED
    BY <2>1, <2>2, <2>3, <2>4 DEF Missing
<1>2. CASE /\ trackedOrderIds' = T \ Missing(q, T)
           /\ poll' = [poll EXCEPT ![q] = Idle]
           /\ UNCHANGED orders
  <2>1. Idle \in PollState
    BY <1>n DEF Idle, NoOrders, PollState
  <2> QED
    BY <1>2, <1>t, <2>1 DEF Missing, Known
<1> QED
  BY <1>1, <1>2 DEF Walk

-----------------------------------------------------------------------------
LEMMA InitInv == Init => Inv
<1> SUFFICES ASSUME Init PROVE Inv
  OBVIOUS
<1>n. MaxOrder \in Nat
  BY LiveAssumption
<1>i. Idle \in PollState
  BY <1>n DEF Idle, NoOrders, PollState
<1>1. LiveTypeOK
  BY <1>i DEF Init, LiveTypeOK, NoOrders, Idle
<1>2. NeverAhead /\ AnswersPrecede /\ SnapshotsPrecede
  BY DEF Init, NoOrders, Idle, NeverAhead, AnswersPrecede, SnapshotsPrecede,
         Precedes, Known, OrderStatus
<1>3. Alone /\ SnapshotComplete /\ ReportIsCurrent /\ UntrackedIsSettled
  BY DEF Init, NoOrders, Idle, Alone, SnapshotComplete, ReportIsCurrent,
         UntrackedIsSettled, Known, Busy
<1> QED
  BY <1>1, <1>2, <1>3 DEF Inv, Base

-----------------------------------------------------------------------------
\* An order moves on at the exchange: accepted, filled, cancelled, rejected.
LEMMA ExchangeKeeps ==
  ASSUME Inv, NEW o \in Order, Accept(o) \/ Progress(o) \/ CancelOrder(o)
  PROVE  Inv'
<1>i. LiveTypeOK /\ NeverAhead /\ AnswersPrecede /\ SnapshotsPrecede
  BY DEF Inv, Base
<1>u. UNCHANGED <<orders, trackedOrderIds, poll, orderPollTimer, crossed>>
  BY DEF Accept, Progress, CancelOrder
<1>1. /\ exchange' \in [Order -> OrderStatus \cup {"none"}]
      /\ \A p \in Order \ {o} : exchange'[p] = exchange[p]
      /\ exchange'[o] \in OrderStatus
      /\ Precedes(exchange[o], exchange'[o])
      /\ exchange[o] \notin Final
  <2>1. CASE Accept(o)
    BY <2>1, <1>i DEF Accept, LiveTypeOK, AnswersPrecede, Precedes, Final, OrderStatus
  <2>2. CASE Progress(o)
    BY <2>2, <1>i DEF Progress, LiveTypeOK, Precedes, Final, Open, OrderStatus
  <2>3. CASE CancelOrder(o)
    BY <2>3, <1>i DEF CancelOrder, LiveTypeOK, Precedes, Final, Open, OrderStatus
  <2> QED
    BY <2>1, <2>2, <2>3
<1>2. /\ request' \in [Order -> OrderStatus \cup {"unsent", "sent", "failed"}]
      /\ \A p \in Order : \/ request'[p] = request[p] /\ (p = o => exchange[o] # "none")
                          \/ /\ p = o /\ request[o] = "sent" /\ request'[o] = exchange'[o]
                             /\ ~Known(o)
  <2>1. CASE Accept(o)
    BY <2>1, <1>i DEF Accept, LiveTypeOK, AnswersPrecede, OrderStatus
  <2>2. CASE Progress(o) \/ CancelOrder(o)
    BY <2>2, <1>i DEF Progress, CancelOrder, LiveTypeOK, Open
  <2> QED
    BY <2>1, <2>2
<1>3. LiveTypeOK'
  BY <1>i, <1>u, <1>1, <1>2 DEF LiveTypeOK, Known
<1>4. \A s : \A p \in Order : Precedes(s, exchange[p]) => Precedes(s, exchange'[p])
  BY <1>1, PrecedesFacts
<1>5. NeverAhead' /\ SnapshotsPrecede'
  BY <1>i, <1>u, <1>4 DEF NeverAhead, SnapshotsPrecede
<1>6. AnswersPrecede'
  <2> SUFFICES ASSUME NEW p \in Order
               PROVE  /\ request'[p] \in {"unsent", "sent"} => exchange'[p] = "none"
                      /\ request'[p] \in OrderStatus => /\ exchange'[p] # "none"
                                                       /\ Precedes(request'[p], exchange'[p])
                      /\ Known(p)' => request'[p] \in OrderStatus
    BY DEF AnswersPrecede
  <2>1. CASE request'[p] = request[p] /\ (p = o => exchange[o] # "none")
    <3>1. Known(p)' <=> Known(p)
      BY <1>u DEF Known
    <3>2. exchange'[p] = "none" <=> exchange[p] = "none"
      BY <2>1, <1>1 DEF OrderStatus
    <3> QED
      BY <2>1, <3>1, <3>2, <1>4, <1>i DEF AnswersPrecede
  <2>2. CASE p = o /\ request[o] = "sent" /\ request'[o] = exchange'[o] /\ ~Known(o)
    BY <2>2, <1>1, <1>u, PrecedesFacts DEF Known, OrderStatus
  <2> QED
    BY <2>1, <2>2, <1>2
<1>7. Alone'
  <2>1. \A p \in Order : InFlight(p)' => InFlight(p)
    BY <1>1, <1>2, <1>u DEF InFlight, Known, OrderStatus
  <2> QED
    BY <1>u, <2>1 DEF Inv, Alone, Busy
<1>8. SnapshotComplete' /\ ReportIsCurrent'
  BY <1>u DEF Inv, SnapshotComplete, ReportIsCurrent, Known
<1>9. UntrackedIsSettled'
  <2> SUFFICES ASSUME ListsOrders, ~crossed, NEW p \in Order, Known(p),
                      p \notin trackedOrderIds, request'[p] # "PARTIAL"
               PROVE  orders[p] = exchange'[p] /\ orders[p] \in Final
    BY <1>u DEF UntrackedIsSettled, Known
  <2>1. request'[p] = request[p]
    BY <1>2
  <2>2. orders[p] = exchange[p] /\ orders[p] \in Final
    BY <2>1 DEF Inv, UntrackedIsSettled
  <2> QED
    BY <2>2, <1>1
<1> QED
  BY <1>3, <1>5, <1>6, <1>7, <1>8, <1>9 DEF Inv, Base

\* A buy() or sell() begins, is answered, or fails.
LEMMA RequestKeeps ==
  ASSUME Inv, NEW o \in Order, Place(o) \/ Answered(o) \/ PlaceFails(o)
  PROVE  Inv'
<1>i. LiveTypeOK /\ NeverAhead /\ AnswersPrecede /\ SnapshotsPrecede
  BY DEF Inv, Base
<1>1. CASE Place(o) \/ PlaceFails(o)
  <2>u. UNCHANGED <<exchange, orders, trackedOrderIds, poll, orderPollTimer>>
    BY <1>1 DEF Place, PlaceFails
  <2>1. /\ request' \in [Order -> OrderStatus \cup {"unsent", "sent", "failed"}]
        /\ \A p \in Order \ {o} : request'[p] = request[p]
        /\ request'[o] \in {"sent", "failed"} /\ ~Known(o)
        /\ request'[o] = "sent" => exchange[o] = "none"
        /\ crossed' \in BOOLEAN /\ (~crossed' => ~crossed)
    BY <1>1, <1>i DEF Place, PlaceFails, LiveTypeOK, AnswersPrecede, InFlight, OrderStatus
  <2>2. LiveTypeOK' /\ NeverAhead' /\ SnapshotsPrecede'
    BY <2>u, <2>1, <1>i DEF LiveTypeOK, NeverAhead, SnapshotsPrecede, Known
  <2>3. AnswersPrecede'
    BY <2>u, <2>1, <1>i DEF AnswersPrecede, Known, OrderStatus
  <2>4. Alone'
    <3>1. CASE Place(o)
      BY <3>1, <2>u, <2>1 DEF Place, Inv, Alone, Busy
    <3>2. CASE PlaceFails(o)
      BY <3>2, <2>u, <2>1 DEF PlaceFails, Inv, Alone, Busy, InFlight, Known, OrderStatus
    <3> QED
      BY <3>1, <3>2, <1>1
  <2>5. SnapshotComplete' /\ ReportIsCurrent'
    BY <2>u, <2>1 DEF Inv, SnapshotComplete, ReportIsCurrent, Known
  <2>6. UntrackedIsSettled'
    BY <2>u, <2>1 DEF Inv, UntrackedIsSettled, Known
  <2> QED
    BY <2>2, <2>3, <2>4, <2>5, <2>6 DEF Inv, Base
<1>2. CASE Answered(o)
  <2>u. UNCHANGED <<exchange, request, poll, orderPollTimer, crossed>>
    BY <1>2 DEF Answered
  <2>1. /\ orders' \in [Order -> OrderStatus \cup {"none"}]
        /\ \A p \in Order \ {o} : orders'[p] = orders[p]
        /\ orders'[o] = request[o] /\ request[o] \in OrderStatus
        /\ trackedOrderIds' \in {trackedOrderIds, trackedOrderIds \cup {o}}
        /\ request[o] = "PENDING" => o \in trackedOrderIds'
        /\ ~Known(o)
    BY <1>2, <1>i DEF Answered, LiveTypeOK, Tracks
  <2>2. LiveTypeOK'
    BY <2>u, <2>1, <1>i DEF LiveTypeOK, Known, OrderStatus
  <2>3. NeverAhead' /\ SnapshotsPrecede' /\ AnswersPrecede'
    BY <2>u, <2>1, <1>i DEF NeverAhead, SnapshotsPrecede, AnswersPrecede, Known
  <2>4. ~crossed => \A q \in Poll : ~Busy(q)
    BY <1>2 DEF Answered, Inv, Alone, InFlight
  <2>5. Alone' /\ SnapshotComplete' /\ ReportIsCurrent'
    BY <2>u, <2>4 DEF Alone, SnapshotComplete, ReportIsCurrent, Busy
  <2>6. UntrackedIsSettled'
    <3> SUFFICES ASSUME ListsOrders, ~crossed, NEW p \in Order, Known(p)',
                        p \notin trackedOrderIds', request[p] # "PARTIAL"
                 PROVE  orders'[p] = exchange[p] /\ orders'[p] \in Final
      BY <2>u DEF UntrackedIsSettled
    <3>1. CASE p # o
      BY <3>1, <2>1 DEF Inv, UntrackedIsSettled, Known
    <3>2. CASE p = o
      <4>1. request[o] \in Final
        BY <3>2, <2>1 DEF Final, Open
      <4> QED
        BY <4>1, <3>2, <2>1, <1>i, PrecedesFacts DEF AnswersPrecede
    <3> QED
      BY <3>1, <3>2
  <2> QED
    BY <2>2, <2>3, <2>5, <2>6 DEF Inv, Base
<1> QED
  BY <1>1, <1>2

-----------------------------------------------------------------------------
\* A poll begins, gets its list or fails, or its callback throws.
LEMMA PollKeeps ==
  ASSUME Inv, NEW q \in Poll,
         PollTick(q) \/ GetOrders(q) \/ GetOrdersFails(q) \/ OnOrderThrows(q)
  PROVE  Inv'
<1>i. LiveTypeOK /\ NeverAhead /\ AnswersPrecede /\ SnapshotsPrecede
  BY DEF Inv, Base
<1>u. UNCHANGED <<exchange, request, orders, trackedOrderIds, orderPollTimer>>
  BY DEF PollTick, GetOrders, GetOrdersFails, OnOrderThrows
<1>t. /\ NoOrders \in [Order -> OrderStatus \cup {"none"}]
      /\ Idle \in PollState
  BY LiveAssumption DEF NoOrders, Idle, PollState
<1>1. /\ poll' \in [Poll -> PollState]
      /\ crossed' \in BOOLEAN /\ (~crossed' => ~crossed)
      /\ \A r \in Poll \ {q} : poll'[r] = poll[r]
      /\ poll'[q].at # "reporting"
      /\ \A o \in Order : \/ poll'[q].snapshot[o] = poll[q].snapshot[o]
                          \/ poll'[q].snapshot[o] = "none"
                          \/ poll'[q].snapshot[o] = exchange[o]
  <2>1. CASE PollTick(q)
    BY <2>1, <1>i DEF PollTick, LiveTypeOK, PollState
  <2>2. CASE GetOrders(q)
    <3>1. PICK s \in {exchange, NoOrders} :
            poll' = [poll EXCEPT ![q].at = "answered", ![q].snapshot = s]
      BY <2>2 DEF GetOrders
    <3>2. s \in [Order -> OrderStatus \cup {"none"}]
      BY <1>i, <1>t DEF LiveTypeOK
    <3>3. /\ poll' \in [Poll -> PollState]
          /\ \A r \in Poll \ {q} : poll'[r] = poll[r]
          /\ poll'[q].at = "answered" /\ poll'[q].snapshot = s
      BY ZenonT(60), <3>1, <3>2, <1>i DEF LiveTypeOK, PollState
    <3>4. \A o \in Order : s[o] \in {"none", exchange[o]}
      BY <3>1 DEF NoOrders
    <3>5. crossed' = crossed /\ crossed \in BOOLEAN
      BY <2>2, <1>i DEF GetOrders, LiveTypeOK
    <3> QED
      BY <3>3, <3>4, <3>5
  <2>3. CASE GetOrdersFails(q) \/ OnOrderThrows(q)
    BY <2>3, <1>i, <1>t DEF GetOrdersFails, OnOrderThrows, LiveTypeOK, Idle, NoOrders
  <2> QED
    BY <2>1, <2>2, <2>3
<1>2. LiveTypeOK' /\ NeverAhead' /\ AnswersPrecede'
  BY <1>i, <1>u, <1>1 DEF LiveTypeOK, NeverAhead, AnswersPrecede, Known
<1>3. SnapshotsPrecede'
  BY <1>i, <1>u, <1>1, PrecedesFacts DEF SnapshotsPrecede, Precedes
<1>4. Alone'
  <2>1. CASE PollTick(q)
    <3> SUFFICES ASSUME ~crossed'
                 PROVE  /\ \A r \in Poll \ {q} : ~Busy(r)'
                        /\ \A o \in Order : ~InFlight(o)'
      BY DEF Alone
    <3> QED
      BY <2>1, <1>u, <1>1 DEF PollTick, Busy, InFlight, Known
  <2>2. CASE ~PollTick(q)
    <3>1. Busy(q) /\ crossed' = crossed
      BY <2>2 DEF GetOrders, GetOrdersFails, OnOrderThrows, Busy
    <3> QED
      BY <3>1, <1>u, <1>1 DEF Inv, Alone, Busy, InFlight, Known
  <2> QED
    BY <2>1, <2>2
<1>5. SnapshotComplete'
  <2> SUFFICES ASSUME ListsOrders, ~crossed', NEW r \in Poll,
                      poll'[r].at \in {"answered", "reporting"}, NEW o \in Order, Known(o)
               PROVE  poll'[r].snapshot[o] # "none"
    BY <1>u DEF SnapshotComplete, Known
  <2>1. CASE r # q
    BY <2>1, <1>1 DEF Inv, SnapshotComplete
  <2>2. CASE r = q
    <3>1. GetOrders(q)
      BY <2>2, <1>i, <1>1 DEF PollTick, GetOrdersFails, OnOrderThrows, LiveTypeOK,
                              PollState, Idle
    <3>2. poll'[q].snapshot = exchange
      BY <3>1, <1>i DEF GetOrders, LiveTypeOK, PollState
    <3> QED
      BY <2>2, <3>2, <1>i DEF AnswersPrecede
  <2> QED
    BY <2>1, <2>2
<1>6. ReportIsCurrent'
  BY <1>u, <1>1 DEF Inv, ReportIsCurrent
<1>7. UntrackedIsSettled'
  BY <1>u, <1>1 DEF Inv, UntrackedIsSettled, Known
<1> QED
  BY <1>2, <1>3, <1>4, <1>5, <1>6, <1>7 DEF Inv, Base

\* The loop goes on, at first or after a callback: what a poll ceases to
\* track is missing from its snapshot or has been reported as complete.
LEMMA TurnKeeps ==
  ASSUME Inv, NEW q \in Poll, PollTurn(q) \/ OnOrderReturns(q)
  PROVE  Inv'
<1>i. LiveTypeOK /\ NeverAhead /\ AnswersPrecede /\ SnapshotsPrecede
  BY DEF Inv, Base
<1>u. UNCHANGED <<exchange, request, orderPollTimer, crossed>>
  BY DEF PollTurn, OnOrderReturns
<1>T. PICK T \in SUBSET trackedOrderIds :
        /\ Walk(q, T)
        /\ poll[q].at \in {"answered", "reporting"}
        /\ \/ T = trackedOrderIds
           \/ /\ poll[q].at = "reporting"
              /\ T = trackedOrderIds \ {poll[q].cursor}
              /\ Completed(poll[q].snapshot[poll[q].cursor])
  <2>1. CASE PollTurn(q)
    BY <2>1 DEF PollTurn
  <2>2. CASE OnOrderReturns(q)
    BY <2>2 DEF OnOrderReturns
  <2> QED
    BY <2>1, <2>2
<1>1. /\ orders' \in [Order -> OrderStatus \cup {"none"}]
      /\ \A o \in Order : /\ orders'[o] = orders[o]
                             \/ (o \in T /\ orders'[o] = poll[q].snapshot[o])
                          /\ Known(o)' <=> Known(o)
      /\ trackedOrderIds' \in SUBSET T
      /\ \A o \in T \ trackedOrderIds' : poll[q].snapshot[o] = "none"
  BY <1>T, <1>i, WalkFacts
<1>2. /\ poll' \in [Poll -> PollState]
      /\ \A r \in Poll \ {q} : poll'[r] = poll[r]
      /\ \/ poll'[q] = Idle
         \/ /\ poll'[q].at = "reporting"
            /\ poll'[q].cursor \in T
            /\ poll'[q].snapshot = poll[q].snapshot
            /\ orders'[poll'[q].cursor] = poll[q].snapshot[poll'[q].cursor]
  BY <1>T, <1>i, WalkFacts
<1>3. T \subseteq Order /\ \A o \in T : Known(o)
  BY <1>i DEF LiveTypeOK
<1>4. LiveTypeOK'
  <2>1. \A r \in Poll : poll'[r].at = "reporting" => poll'[r].cursor \in Order
    BY <1>2, <1>3, <1>i DEF LiveTypeOK, Idle
  <2> QED
    BY <2>1, <1>i, <1>u, <1>1, <1>2, <1>3 DEF LiveTypeOK
<1>5. NeverAhead' /\ AnswersPrecede'
  BY <1>i, <1>u, <1>1 DEF NeverAhead, AnswersPrecede, SnapshotsPrecede
<1>6. SnapshotsPrecede'
  <2>1. \A r \in Poll : poll'[r].snapshot \in {poll[r].snapshot, NoOrders}
    BY <1>2 DEF Idle
  <2> QED
    BY <2>1, <1>i, <1>u DEF SnapshotsPrecede, NoOrders, Precedes
<1>7. Alone'
  <2>1. \A r \in Poll : Busy(r)' => Busy(r)
    BY <1>2, <1>T DEF Busy
  <2>2. \A o \in Order : InFlight(o)' => InFlight(o)
    BY <1>u, <1>1 DEF InFlight
  <2> QED
    BY <2>1, <2>2, <1>u DEF Inv, Alone
<1>8. SnapshotComplete'
  <2> SUFFICES ASSUME ListsOrders, ~crossed, NEW r \in Poll,
                      poll'[r].at \in {"answered", "reporting"}, NEW o \in Order, Known(o)
               PROVE  poll'[r].snapshot[o] # "none"
    BY <1>u, <1>1 DEF SnapshotComplete
  <2>1. poll'[r].snapshot = poll[r].snapshot /\ poll[r].at \in {"answered", "reporting"}
    BY <1>2, <1>T DEF Idle
  <2> QED
    BY <2>1 DEF Inv, SnapshotComplete
<1>9. ReportIsCurrent'
  <2> SUFFICES ASSUME ~crossed, NEW r \in Poll, poll'[r].at = "reporting"
               PROVE  orders'[poll'[r].cursor] = poll'[r].snapshot[poll'[r].cursor]
    BY <1>u DEF ReportIsCurrent
  <2>1. r = q
    BY <1>2, <1>T DEF Inv, Alone, Busy
  <2> QED
    BY <2>1, <1>2 DEF Idle
<1>10. UntrackedIsSettled'
  <2> SUFFICES ASSUME ListsOrders, ~crossed, NEW o \in Order, Known(o),
                      o \notin trackedOrderIds', request[o] # "PARTIAL"
               PROVE  orders'[o] = exchange[o] /\ orders'[o] \in Final
    BY <1>u, <1>1 DEF UntrackedIsSettled
  <2>1. o \notin T
    BY <1>1, <1>T DEF Inv, SnapshotComplete
  <2>2. orders'[o] = orders[o]
    BY <2>1, <1>1
  <2>3. CASE o \notin trackedOrderIds
    BY <2>2, <2>3 DEF Inv, UntrackedIsSettled
  <2>4. CASE o \in trackedOrderIds
    <3>1. /\ poll[q].at = "reporting" /\ o = poll[q].cursor
          /\ Completed(poll[q].snapshot[o])
      BY <2>1, <2>4, <1>T
    <3>2. orders[o] = poll[q].snapshot[o]
      BY <3>1 DEF Inv, ReportIsCurrent
    <3>3. orders[o] \in Final
      BY <3>1, <3>2 DEF Completed, Final, Open, OrderStatus
    <3>4. orders[o] = exchange[o]
      BY <3>3, <1>i, PrecedesFacts DEF NeverAhead
    <3> QED
      BY <2>2, <3>3, <3>4
  <2> QED
    BY <2>3, <2>4
<1> QED
  BY <1>4, <1>5, <1>6, <1>7, <1>8, <1>9, <1>10 DEF Inv, Base

\* Arming and clearing the interval, and stuttering.
LEMMA RestKeeps ==
  ASSUME Inv, StartOrderPolling \/ Stop \/ UNCHANGED vars
  PROVE  Inv'
<1>1. /\ UNCHANGED <<exchange, request, orders, trackedOrderIds, poll, crossed>>
      /\ orderPollTimer' \in BOOLEAN
  BY DEF StartOrderPolling, Stop, vars, Inv, Base, LiveTypeOK
<1>2. Base'
  BY <1>1 DEF Inv, Base, LiveTypeOK, NeverAhead, AnswersPrecede, SnapshotsPrecede, Known
<1>3. (Alone /\ SnapshotComplete /\ ReportIsCurrent)'
  BY <1>1 DEF Inv, Alone, SnapshotComplete, ReportIsCurrent, Busy, InFlight, Known
<1> QED
  BY <1>1, <1>2, <1>3 DEF Inv, UntrackedIsSettled, Known

LEMMA Invariance == Spec => []Inv
<1>1. Init => Inv
  BY InitInv
<1>2. Inv /\ [Next]_vars => Inv'
  <2> SUFFICES ASSUME Inv, [Next]_vars PROVE Inv'
    OBVIOUS
  <2>1. ASSUME NEW o \in Order, Accept(o) \/ Progress(o) PROVE Inv'
    BY <2>1, ExchangeKeeps
  <2>2. ASSUME NEW o \in Order, Place(o) \/ Answered(o) \/ PlaceFails(o) \/ CancelOrder(o)
        PROVE Inv'
    BY <2>2, RequestKeeps, ExchangeKeeps
  <2>3. ASSUME NEW q \in Poll,
               PollTick(q) \/ GetOrders(q) \/ GetOrdersFails(q) \/ PollTurn(q)
        PROVE Inv'
    BY <2>3, PollKeeps, TurnKeeps
  <2>4. ASSUME NEW q \in Poll, OnOrderReturns(q) \/ OnOrderThrows(q) PROVE Inv'
    BY <2>4, PollKeeps, TurnKeeps
  <2>5. CASE StartOrderPolling \/ Stop \/ UNCHANGED vars
    BY <2>5, RestKeeps
  <2> QED
    BY <2>1, <2>2, <2>3, <2>4, <2>5 DEF Next
<1> QED
  BY <1>1, <1>2, PTL DEF Spec

\* The types of the state hold, and only known orders are tracked.
THEOREM LiveTypeCorrect == Spec => []LiveTypeOK
<1>1. Inv => LiveTypeOK
  BY DEF Inv, Base
<1> QED
  BY <1>1, Invariance, PTL

\* The engine's copy of an order is never ahead of the exchange, whatever
\* overlaps: polls with polls, polls with buy() and sell().
THEOREM EngineFollows == Spec => []NeverAhead
<1>1. Inv => NeverAhead
  BY DEF Inv, Base
<1> QED
  BY <1>1, Invariance, PTL

\* While nothing crosses, the engine ceases to track an order only when its
\* copy has become the order's final status at the exchange.
THEOREM NothingForgotten == Spec => []UntrackedIsSettled
<1>1. Inv => UntrackedIsSettled
  BY DEF Inv
<1> QED
  BY <1>1, Invariance, PTL

-----------------------------------------------------------------------------
(* The engine's copy never goes back *)

\* What a poll is going to note is no older than the copy it would replace.
CopyPrecedes ==
  ~crossed => \A q \in Poll : \A o \in Order :
    poll[q].at \in {"answered", "reporting"} /\ poll[q].snapshot[o] # "none"
      => Precedes(orders[o], poll[q].snapshot[o])

Forward == ~crossed => \A o \in Order : Precedes(orders[o], orders'[o])

LEMMA OutsideKeepsCopies ==
  ASSUME Inv, CopyPrecedes, UNCHANGED orders, ~crossed' => ~crossed,
         \A q \in Poll : \/ poll'[q] = poll[q]
                         \/ poll'[q].at \notin {"answered", "reporting"}
                         \/ \A o \in Order : poll'[q].snapshot[o] \in {"none", exchange[o]}
  PROVE  CopyPrecedes' /\ Forward
<1>1. \A o \in Order : Precedes(orders[o], exchange[o])
  BY DEF Inv, Base, NeverAhead
<1>2. CopyPrecedes'
  BY <1>1 DEF CopyPrecedes
<1> QED
  BY <1>2, PrecedesFacts DEF Forward

\* Nothing is noted beside a poll but by the poll itself.
LEMMA AnswerKeepsCopies ==
  ASSUME Inv, CopyPrecedes, NEW o \in Order, Answered(o)
  PROVE  CopyPrecedes' /\ Forward
<1>1. UNCHANGED <<poll, crossed>> /\ orders' = [orders EXCEPT ![o] = request[o]]
      /\ orders[o] = "none"
  BY DEF Answered, Known
<1>2. ~crossed => \A q \in Poll : poll[q].at = "idle"
  BY DEF Answered, Inv, Alone, InFlight, Busy
<1>3. CopyPrecedes'
  BY <1>1, <1>2 DEF CopyPrecedes
<1>4. \A p \in Order : Precedes(orders[p], orders'[p])
  BY <1>1, PrecedesFacts DEF Precedes, Inv, Base, LiveTypeOK
<1> QED
  BY <1>3, <1>4 DEF Forward

LEMMA TurnKeepsCopies ==
  ASSUME Inv, CopyPrecedes, NEW q \in Poll, PollTurn(q) \/ OnOrderReturns(q)
  PROVE  CopyPrecedes' /\ Forward
<1>1. PICK T \in SUBSET trackedOrderIds :
        Walk(q, T) /\ poll[q].at \in {"answered", "reporting"}
  <2>1. CASE PollTurn(q)
    BY <2>1 DEF PollTurn
  <2>2. CASE OnOrderReturns(q)
    BY <2>2 DEF OnOrderReturns
  <2> QED
    BY <2>1, <2>2
<1>2. /\ \A o \in Order : orders'[o] = orders[o] \/ orders'[o] = poll[q].snapshot[o]
      /\ \A o \in Order : Known(o)' <=> Known(o)
      /\ \A r \in Poll \ {q} : poll'[r] = poll[r]
      /\ poll'[q] = Idle \/ poll'[q].snapshot = poll[q].snapshot
  BY <1>1, WalkFacts DEF Inv, Base
<1>3. crossed' = crossed
  BY DEF PollTurn, OnOrderReturns
<1> SUFFICES ASSUME ~crossed PROVE CopyPrecedes' /\ Forward
  BY <1>3 DEF CopyPrecedes, Forward
<1>4. \A r \in Poll \ {q} : poll[r].at = "idle"
  BY <1>1 DEF Inv, Alone, Busy
<1>5. ASSUME NEW o \in Order, poll[q].snapshot[o] # "none"
      PROVE  Precedes(orders[o], poll[q].snapshot[o])
  BY <1>1, <1>5 DEF CopyPrecedes
<1>6. ASSUME NEW o \in Order PROVE Precedes(orders[o], orders'[o])
  <2>1. CASE orders'[o] = orders[o]
    BY <2>1, PrecedesFacts
  <2>2. CASE orders'[o] # orders[o]
    BY <2>2, <1>2, <1>5 DEF Known
  <2> QED
    BY <2>1, <2>2
<1>7. ASSUME NEW r \in Poll, NEW o \in Order, poll'[r].at \in {"answered", "reporting"},
             poll'[r].snapshot[o] # "none"
      PROVE  Precedes(orders'[o], poll'[r].snapshot[o])
  <2>1. r = q /\ poll'[q].snapshot = poll[q].snapshot
    BY <1>2, <1>4, <1>7 DEF Idle
  <2> QED
    BY <2>1, <1>2, <1>5, <1>7, PrecedesFacts
<1> QED
  BY <1>6, <1>7 DEF CopyPrecedes, Forward

LEMMA StepForward == Inv /\ CopyPrecedes /\ [Next]_vars => CopyPrecedes' /\ Forward
<1> SUFFICES ASSUME Inv, CopyPrecedes, [Next]_vars PROVE CopyPrecedes' /\ Forward
  OBVIOUS
<1>0. crossed \in BOOLEAN /\ poll \in [Poll -> PollState]
  BY DEF Inv, Base, LiveTypeOK
<1>1. ASSUME NEW o \in Order,
             Accept(o) \/ Progress(o) \/ Place(o) \/ PlaceFails(o) \/ CancelOrder(o)
      PROVE  CopyPrecedes' /\ Forward
  <2>1. UNCHANGED <<orders, poll>> /\ (~crossed' => ~crossed)
    BY <1>0, <1>1 DEF Accept, Progress, Place, PlaceFails, CancelOrder
  <2> QED
    BY <2>1, OutsideKeepsCopies
<1>2. ASSUME NEW o \in Order, Answered(o) PROVE CopyPrecedes' /\ Forward
  BY <1>2, AnswerKeepsCopies
<1>3. ASSUME NEW q \in Poll, PollTick(q) \/ GetOrders(q) \/ GetOrdersFails(q) \/ OnOrderThrows(q)
      PROVE  CopyPrecedes' /\ Forward
  <2>1. UNCHANGED orders /\ (~crossed' => ~crossed)
    BY <1>0, <1>3 DEF PollTick, GetOrders, GetOrdersFails, OnOrderThrows
  <2>2. \A r \in Poll \ {q} : poll'[r] = poll[r]
    BY <1>0, <1>3 DEF PollTick, GetOrders, GetOrdersFails, OnOrderThrows
  <2>3. \/ poll'[q].at \notin {"answered", "reporting"}
        \/ \A o \in Order : poll'[q].snapshot[o] \in {"none", exchange[o]}
    BY <1>0, <1>3 DEF PollTick, GetOrders, GetOrdersFails, OnOrderThrows, PollState, Idle,
                      NoOrders
  <2> QED
    BY <2>1, <2>2, <2>3, OutsideKeepsCopies
<1>4. ASSUME NEW q \in Poll, PollTurn(q) \/ OnOrderReturns(q) PROVE CopyPrecedes' /\ Forward
  BY <1>4, TurnKeepsCopies
<1>5. CASE StartOrderPolling \/ Stop \/ UNCHANGED vars
  <2>1. UNCHANGED <<orders, poll, crossed>>
    BY <1>5 DEF StartOrderPolling, Stop, vars
  <2> QED
    BY <2>1, OutsideKeepsCopies
<1> QED
  BY <1>1, <1>2, <1>3, <1>4, <1>5 DEF Next

\* Until a poll crosses another request, what the strategy has been told of an
\* order only moves forward.
THEOREM CopyMovesForward == Spec => NeverBack
<1>1. Init => CopyPrecedes
  BY DEF Init, CopyPrecedes, Idle
<1>2. Forward => (~crossed => \A o \in Order : Precedes(orders[o], orders'[o]))
  BY DEF Forward
<1> QED
  BY <1>1, <1>2, StepForward, Invariance, PTL DEF Spec, NeverBack

=============================================================================

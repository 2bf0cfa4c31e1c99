----------------------------- MODULE OrderBook -----------------------------
(***************************************************************************)
(* What the grid strategy promises about the orders it lists, whatever     *)
(* cancels fail and whatever the host reports: one order per level, no     *)
(* more than the limit, every order placed once, and none that a restart   *)
(* would forget.                                                           *)
(***************************************************************************)
EXTENDS Naturals, FiniteSets

CONSTANTS Grid, Order, None,
          Limit     \* orders listed at once

VARIABLES book,     \* the order listed for each level
          saved,    \* the book a restart begins with
          used      \* the orders ever placed

vars == <<book, saved, used>>

Init == /\ book = [g \in Grid |-> None]
        /\ saved = book
        /\ used = {}

Without(G) == [g \in Grid |-> IF g \in G THEN None ELSE book[g]]
Listed(b) == {b[g] : g \in Grid} \ {None}

\* Orders are taken out; the saved book may learn of it later.
Drop == /\ \E G \in SUBSET Grid : book' = Without(G)
        /\ saved' \in {saved, book'}
        /\ UNCHANGED used

\* Among those a new order is put in, at a level that has none, and saved at once.
Place ==
  \E G \in SUBSET Grid, g \in Grid, n \in Order \ used :
    /\ Without(G)[g] = None
    /\ Cardinality(Listed(Without(G))) < Limit
    /\ book' = [Without(G) EXCEPT ![g] = n]
    /\ saved' = book'
    /\ used' = used \cup {n}

Restore == book' = saved /\ UNCHANGED <<saved, used>>

Next == Drop \/ Place \/ Restore

Spec == Init /\ [][Next]_vars

=============================================================================

--------------------------- MODULE StockPosition ---------------------------
(***************************************************************************)
(* The pure stock arithmetic of packages/shared/src/calc/inventory.ts: what *)
(* a reservation still holds, what is free, and how a quantity leaving or   *)
(* re-entering the shelf is spread over reservations.                       *)
(*                                                                          *)
(* Quantities are whole numbers: the code works in integer space at four    *)
(* decimal places (calc/num.ts), so one unit here is one ten-thousandth.    *)
(* A reservation row is a record with the fields status, qty and consumed   *)
(* among others; a table of rows is a sequence, oldest row first.           *)
(***************************************************************************)
EXTENDS Integers, SequencesExt

ReservationStatus ==
  {"PENDING", "ACTIVE", "FULFILLED", "RELEASED", "CANCELLED", "REJECTED"}

-----------------------------------------------------------------------------
(* Position *)

\* What a reservation still holds on the shelf.
Outstanding(r) == Max({0, r.qty - r.consumed})

\* Mutant of Held: what has been drawn is still counted as held.
HeldInFull(r) == IF r.status = "ACTIVE" THEN r.qty ELSE 0

\* Only ACTIVE rows hold anything.
Held(r) == IF r.status = "ACTIVE" THEN Outstanding(r) ELSE 0

Reserved(rows) == SumFunction([i \in DOMAIN rows |-> Held(rows[i])])

Available(physical, rows) == physical - Reserved(rows)

-----------------------------------------------------------------------------
(* Drawing reservations down, and giving them back.                         *)
(*                                                                          *)
(* The service walks the rows in an order it has chosen and moves as much   *)
(* as each can take.  The two loops below are that walk; Poured is what it  *)
(* amounts to: a plan fills the rows in rank order, never past a row's      *)
(* capacity, leaves at most one row partly filled, and moves everything     *)
(* that fits.  Rows of one rank may be walked in either order.              *)

Poured(cap, rank, qty, moved) ==
  /\ \A i \in DOMAIN cap : moved[i] <= cap[i]
  /\ \A i, j \in DOMAIN cap : rank[i] < rank[j] /\ moved[j] > 0 => moved[i] = cap[i]
  /\ \A i, j \in DOMAIN cap :
       moved[i] \in 1 .. cap[i] - 1 /\ moved[j] \in 1 .. cap[j] - 1 => i = j
  /\ SumFunction(moved) = Min({qty, SumFunction(cap)})

\* A row after `give` more of it has been drawn (`give` negative: restored).
\* Fully drawn rows are finished; every other row a plan touches is active.
Moved(r, give) ==
  [r EXCEPT !.consumed = @ + give,
            !.status = IF r.consumed + give >= r.qty THEN "FULFILLED" ELSE "ACTIVE"]

\* Mutant of Walk: all of it goes to the first row that can take any.
WalkOneRow(caps, qty) ==
  LET visit(acc, cap) ==
        LET n == Min({cap, acc.left})
        IN  [moved |-> Append(acc.moved, n), left |-> IF n > 0 THEN 0 ELSE acc.left]
  IN  FoldLeft(visit, [moved |-> <<>>, left |-> Max({0, qty})], caps).moved

\* One pass over the rows in the order given: what each takes, of what is left,
\* within its capacity.
Walk(caps, qty) ==
  LET visit(acc, cap) ==
        LET n == Min({cap, acc.left})
        IN  [moved |-> Append(acc.moved, n), left |-> acc.left - n]
  IN  FoldLeft(visit, [moved |-> <<>>, left |-> Max({0, qty})], caps).moved

PlanReservationDrawDown(rows, qty) ==
  LET moved == Walk([i \in DOMAIN rows |-> Outstanding(rows[i])], qty)
  IN  [i \in DOMAIN rows |-> IF moved[i] > 0 THEN Moved(rows[i], moved[i]) ELSE rows[i]]

PlanReservationRestore(rows, qty) ==
  LET moved == Walk([i \in DOMAIN rows |-> Max({0, rows[i].consumed})], qty)
  IN  [i \in DOMAIN rows |-> IF moved[i] > 0 THEN Moved(rows[i], -moved[i]) ELSE rows[i]]

=============================================================================

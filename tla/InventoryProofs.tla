-------------------------- MODULE InventoryProofs --------------------------
(***************************************************************************)
(* Safety of the inventory for any number of people, orders, lines,         *)
(* locations, rows and quantities.                                          *)
(*                                                                          *)
(* None of the invariants is inductive by itself: a commit installs what    *)
(* its transaction settled on an earlier state.  The strengthening says     *)
(* that what an open transaction has settled still fits the tables as they  *)
(* are now; it holds because every write that would spoil it is one of      *)
(* those the transaction is lost to.                                        *)
(*                                                                          *)
(* The tables keep the stock account's promises (InventoryKeepsAccount),    *)
(* and the loops that draw reservations down and give them back move what   *)
(* the pour of StockPosition moves, over every set of rows (the last part). *)
(***************************************************************************)
EXTENDS Inventory, SequenceTheorems, SumTheorems, TLAPS

-----------------------------------------------------------------------------
(* Arithmetic *)

\* The greater of two counts.
LEMMA MaxOfTwo ==
  ASSUME NEW a \in Int, NEW b \in Int
  PROVE  Max({a, b}) \in Int /\ Max({a, b}) = IF a >= b THEN a ELSE b
<1>1. \E x \in {a, b} : \A y \in {a, b} : x >= y
  OBVIOUS
<1>2. Max({a, b}) \in {a, b} /\ \A y \in {a, b} : Max({a, b}) >= y
  BY <1>1 DEF Max
<1> QED  BY <1>2

\* A table whose every row is replaced is a table of as many rows.
LEMMA SameRows ==
  ASSUME NEW S, NEW T, NEW s \in Seq(S), NEW f \in [DOMAIN s -> T]
  PROVE  f \in Seq(T) /\ Len(f) = Len(s)
<1>1. Len(s) \in Nat /\ DOMAIN s = 1 .. Len(s)
  OBVIOUS
<1>2. f \in [1 .. Len(s) -> T]
  BY <1>1
<1> QED  BY <1>1, <1>2

\* What a row still holds is a count, and no more than the row has left.
LEMMA HeldIsWithin ==
  ASSUME NEW r \in Reservation, WellDrawn(r)
  PROVE  /\ Held(r) \in Nat
         /\ Held(r) > 0 => r.status = "ACTIVE" /\ Held(r) = r.qty - r.consumed
<1>1. r.qty - r.consumed \in Nat
  BY DEF Reservation, WellDrawn
<1>2. Outstanding(r) = r.qty - r.consumed
  BY <1>1, MaxOfTwo DEF Outstanding
<1> QED  BY <1>1, <1>2 DEF Held

-----------------------------------------------------------------------------
(* What an open transaction has settled still fits the tables. *)

\* The rows it writes are there, have not been given up, and become well drawn.
RowsSettled(w) == \A i \in DOMAIN w.rows :
  /\ i \in DOMAIN resv /\ Row(i) \in w.writes
  /\ resv[i].status \notin GivenUp
  /\ w.rows[i] \in Reservation /\ WellDrawn(w.rows[i])

AddSettled(w) == w.add \in Seq(Reservation) /\ \A i \in DOMAIN w.add : WellDrawn(w.add[i])

\* No balance it moves goes below zero.
ShelfSettled(w) ==
  /\ w.moved \in [Location -> Int]
  /\ \A l \in Location : w.moved[l] # 0 => Shelf(l) \in w.writes /\ stock[l] + w.moved[l] >= 0

\* What it returns is out.
OutSettled(w) ==
  /\ w.out \in [Order -> Int]
  /\ \A o \in Order : w.out[o] < 0 =>
       OutFor(o) \in w.reads \cap w.writes /\ out[o] + w.out[o] >= 0

\* A line's log and its figure move together, and the rows that move with them
\* are the line's own or general.
LineSettled(w) ==
  /\ w.log \in [Line -> Int]
  /\ \A n \in DOMAIN w.issued, i \in DOMAIN w.rows : resv[i].line \in {n, NoLine}
  /\ \A n \in Line :
       IF n \in DOMAIN w.issued
       THEN w.issued[n] \in Nat /\ LineRow(n) \in w.writes /\ issued[n] + w.log[n] = w.issued[n]
       ELSE w.log[n] = 0

Settled(w) ==
  /\ RowsSettled(w) /\ AddSettled(w) /\ ShelfSettled(w)
  /\ OutSettled(w) /\ LineSettled(w) /\ w.lost \in Nat

Safe == TypeOK /\ BooksBalance /\ ReservationLifecycle /\ NoMoreComesBack /\ IssueLogAddsUp

IInv ==
  /\ Safe
  /\ work = [p \in Session |-> work[p]]
  /\ \A p \in Session : pc[p] = "tx" => Settled(work[p])

\* A transaction that writes nothing is settled.
LEMMA NothingSettled ==
  ASSUME TypeOK
  PROVE  Settled(NoWork)
<1>1. RowsSettled(NoWork)   BY DEF RowsSettled, NoWork
<1>2. AddSettled(NoWork)    BY DEF AddSettled, NoWork
<1>3. ShelfSettled(NoWork)  BY DEF ShelfSettled, NoWork
<1>4. OutSettled(NoWork)    BY DEF OutSettled, NoWork
<1>5. LineSettled(NoWork)   BY DEF LineSettled, NoWork
<1>6. NoWork.lost \in Nat   BY DEF NoWork
<1> QED  BY <1>1, <1>2, <1>3, <1>4, <1>5, <1>6 DEF Settled

\* A write set that covers what a step changes: rows by id, and what is out by
\* the predicate its readers search it by.
Covering(reads, writes) ==
  /\ DOMAIN resv \subseteq DOMAIN resv'
  /\ \A i \in DOMAIN resv : resv'[i] = resv[i] \/ Row(i) \in writes
  /\ \A l \in Location : stock'[l] = stock[l] \/ Shelf(l) \in writes
  /\ \A o \in Order : out'[o] >= out[o] \/ OutFor(o) \in reads \cap writes
  /\ \A n \in Line : issued'[n] = issued[n] \/ LineRow(n) \in writes

\* An open transaction that a commit does not clash with stays settled.
LEMMA SettledStays ==
  ASSUME TypeOK, TypeOK',
         NEW reads, NEW writes, Covering(reads, writes),
         NEW q \in Session, Settled(work[q]),
         ~Clashes(work[q], reads, writes), work'[q] = work[q]
  PROVE  Settled(work[q])'
<1> DEFINE w == work[q]
<1>1. \A x \in writes : IsRow(x) => x \notin w.writes
  BY DEF Clashes
<1>2. RowsSettled(w)'
  <2> SUFFICES ASSUME NEW i \in DOMAIN w.rows
               PROVE  /\ i \in DOMAIN resv' /\ Row(i) \in w.writes
                      /\ resv'[i].status \notin GivenUp
                      /\ w.rows[i] \in Reservation /\ WellDrawn(w.rows[i])
    BY DEF RowsSettled, WellDrawn
  <2>1. Row(i) \in w.writes /\ i \in DOMAIN resv
    BY DEF Settled, RowsSettled
  <2>2. IsRow(Row(i))
    BY DEF IsRow, Row
  <2>3. resv'[i] = resv[i]
    BY <1>1, <2>1, <2>2 DEF Covering
  <2> QED  BY <2>1, <2>3 DEF Settled, RowsSettled, Covering
<1>3. ShelfSettled(w)'
  <2>1. \A l \in Location : IsRow(Shelf(l))
    BY DEF IsRow, Shelf
  <2>2. \A l \in Location : Shelf(l) \in w.writes => stock'[l] = stock[l]
    BY <1>1, <2>1 DEF Covering
  <2> QED  BY <2>2 DEF Settled, ShelfSettled
<1>4. OutSettled(w)'
  <2>1. \A o \in Order : OutFor(o) \in w.reads \cap w.writes => out'[o] >= out[o]
    BY DEF Covering, Clashes
  <2>2. \A o \in Order : out[o] \in Int /\ out'[o] \in Int
    BY DEF TypeOK
  <2> QED  BY <2>1, <2>2 DEF Settled, OutSettled
<1>5. LineSettled(w)'
  <2>1. \A n \in Line : IsRow(LineRow(n))
    BY DEF IsRow, LineRow
  <2>2. \A n \in Line : LineRow(n) \in w.writes => issued'[n] = issued[n]
    BY <1>1, <2>1 DEF Covering
  <2>3. \A i \in DOMAIN w.rows : resv'[i] = resv[i]
    BY <1>1 DEF Settled, RowsSettled, Covering, IsRow, Row
  <2> QED  BY <2>2, <2>3 DEF Settled, LineSettled
<1>6. AddSettled(w)'
  BY DEF Settled, AddSettled, WellDrawn
<1> QED  BY <1>2, <1>3, <1>4, <1>5, <1>6 DEF Settled

\* A commit that leaves the tables safe, covered by its footprint, preserves the
\* invariant: the transactions it does not doom stay settled.
LEMMA CommittedKeeps ==
  ASSUME IInv, Safe', NEW reads, NEW writes, Covering(reads, writes),
         NEW p, NEW next, next # "tx", Committed(p, next, reads, writes)
  PROVE  IInv'
<1>1. work' = [q \in Session |-> work'[q]]
  BY DEF Committed
<1>2. ASSUME NEW q \in Session, pc'[q] = "tx"
      PROVE  Settled(work[q])'
  <2>1. q # p /\ pc[q] = "tx" /\ ~Clashes(work[q], reads, writes) /\ work'[q] = work[q]
    BY <1>2 DEF Committed
  <2> QED  BY <2>1, SettledStays DEF IInv, Safe
<1> QED  BY <1>1, <1>2 DEF IInv

\* Running a body that settles preserves the invariant, and writes nothing yet.
LEMMA RunKeeps ==
  ASSUME IInv, NEW p \in Session, NEW STATE w, Settled(w), Run(p, w)
  PROVE  IInv' /\ UNCHANGED resv
<1>1. Safe'
  BY DEF IInv, Safe, Run, tables, TypeOK, BooksBalance, ReservationLifecycle,
         NoMoreComesBack, IssueLogAddsUp, WellDrawn
<1>2. work' = [q \in Session |-> IF q = p THEN w ELSE work[q]]
  BY DEF IInv, Run
<1>3. ASSUME NEW q \in Session, pc'[q] = "tx"
      PROVE  Settled(work[q])'
  <2>1. Settled(work'[q])
    BY <1>2, <1>3 DEF IInv, Safe, TypeOK, Run
  <2> QED  BY <2>1 DEF Run, tables, Settled, RowsSettled, AddSettled, ShelfSettled,
                       OutSettled, LineSettled, WellDrawn
<1>4. UNCHANGED resv
  BY DEF Run, tables
<1> QED  BY <1>1, <1>2, <1>3, <1>4 DEF IInv

-----------------------------------------------------------------------------
(* Every body settles what it will write. *)

\* The row a plan touches, and what moving a part of it makes of it.
Touchable(plan, sign) ==
  /\ plan \in [DOMAIN resv -> Nat]
  /\ \A i \in Hit(plan) :
       /\ resv[i].status \notin GivenUp
       /\ Moved(resv[i], sign * plan[i]) \in Reservation
       /\ WellDrawn(Moved(resv[i], sign * plan[i]))

\* A body that moves stock at one location and the rows its plan touches is
\* settled when the shelf covers it and the plan keeps those rows well drawn.
LEMMA MovementSettled ==
  ASSUME Safe, NEW o, NEW l \in Location, NEW signed \in Int, Covers(l, signed),
         NEW plan, NEW sign, Touchable(plan, sign), NEW more, NEW beyond \in Nat
  PROVE  Settled([MovementWork(o, l, signed, plan, sign) EXCEPT
                    !.reads = @ \cup more, !.lost = beyond])
<1> DEFINE m == MovementWork(o, l, signed, plan, sign)
           w == [m EXCEPT !.reads = @ \cup more, !.lost = beyond]
<1>1. /\ w.rows = [i \in Hit(plan) |-> Moved(resv[i], sign * plan[i])]
      /\ w.add = <<>> /\ w.lost = beyond
      /\ w.moved = [x \in Location |-> IF x = l THEN signed ELSE 0]
      /\ w.out = [x \in Order |-> 0]
      /\ w.issued = [n \in {} |-> 0] /\ w.log = [n \in Line |-> 0]
      /\ Shelf(l) \in w.writes /\ \A i \in Hit(plan) : Row(i) \in w.writes
  BY DEF MovementWork, NoWork, Only
<1> HIDE DEF w
<1>2. RowsSettled(w)
  BY <1>1 DEF RowsSettled, Touchable, Hit
<1>3. AddSettled(w)
  BY <1>1 DEF AddSettled
<1>4. ShelfSettled(w)
  <2>1. stock[l] + signed >= 0 /\ \A x \in Location : stock[x] \in Int
    BY DEF Covers, Safe, TypeOK
  <2> QED  BY <1>1, <2>1 DEF ShelfSettled
<1>5. OutSettled(w)
  BY <1>1 DEF OutSettled
<1>6. LineSettled(w)
  BY <1>1 DEF LineSettled
<1> QED  BY <1>1, <1>2, <1>3, <1>4, <1>5, <1>6 DEF Settled, w

\* The same for a movement against an order's line or its general allocation:
\* what comes back is out, and the figure the line is given is a count.
LEMMA OrderSettled ==
  ASSUME Safe, NEW k \in Key, NEW l \in Location, NEW signed \in Int, Covers(l, signed),
         NEW plan, NEW sign, Touchable(plan, sign), NEW more, NEW figure \in Nat,
         signed > 0 => OutFor(k[1]) \in more /\ signed <= out[k[1]],
         \A i \in Hit(plan) : resv[i].line \in {k[2], NoLine}
  PROVE  Settled([OrderWork(k, l, signed, plan, sign, figure) EXCEPT !.reads = @ \cup more])
<1> DEFINE m == OrderWork(k, l, signed, plan, sign, figure)
           w == [m EXCEPT !.reads = @ \cup more]
<1>1. k[1] \in Order /\ k[2] \in Line \cup {NoLine}
  BY DEF Key
<1>2. /\ w.rows = [i \in Hit(plan) |-> Moved(resv[i], sign * plan[i])]
      /\ w.add = <<>> /\ w.lost = 0
      /\ w.moved = [x \in Location |-> IF x = l THEN signed ELSE 0]
      /\ w.out = [x \in Order |-> IF x = k[1] THEN -signed ELSE 0]
      /\ Shelf(l) \in w.writes /\ \A i \in Hit(plan) : Row(i) \in w.writes
      /\ OutFor(k[1]) \in w.writes /\ more \subseteq w.reads
  BY DEF OrderWork, MovementWork, NoWork, Only
<1>3. IF k[2] = NoLine
      THEN w.issued = [n \in {} |-> 0] /\ w.log = [n \in Line |-> 0]
      ELSE /\ w.issued = [n \in {k[2]} |-> figure]
           /\ w.log = [n \in Line |-> IF n = k[2] THEN figure - issued[k[2]] ELSE 0]
           /\ LineRow(k[2]) \in w.writes
  BY DEF OrderWork, MovementWork, NoWork, Only
<1> HIDE DEF w
<1>4. RowsSettled(w)
  BY <1>2 DEF RowsSettled, Touchable, Hit
<1>5. AddSettled(w)
  BY <1>2 DEF AddSettled
<1>6. ShelfSettled(w)
  <2>1. stock[l] + signed >= 0 /\ \A x \in Location : stock[x] \in Int
    BY DEF Covers, Safe, TypeOK
  <2> QED  BY <1>2, <2>1 DEF ShelfSettled
<1>7. OutSettled(w)
  <2>1. out[k[1]] \in Int
    BY <1>1 DEF Safe, TypeOK
  <2> QED  BY <1>2, <2>1 DEF OutSettled
<1>8. LineSettled(w)
  <2>1. \A n \in Line : issued[n] \in Nat
    BY DEF Safe, TypeOK
  <2>2. CASE k[2] = NoLine
    BY <1>3, <2>2 DEF LineSettled
  <2>3. CASE k[2] # NoLine
    BY <1>1, <1>2, <1>3, <2>1, <2>3 DEF LineSettled
  <2> QED  BY <2>2, <2>3
<1> QED  BY <1>2, <1>4, <1>5, <1>6, <1>7, <1>8 DEF Settled, w

\* A row drawn or given back, with its new status, is still a row.
LEMMA ChangedRow ==
  ASSUME NEW r \in Reservation, NEW c \in Nat, NEW s \in ReservationStatus
  PROVE  [r EXCEPT !.consumed = c, !.status = s] \in Reservation
BY DEF Reservation

\* So is the row a plan moves.
LEMMA MovedRow ==
  ASSUME NEW r \in Reservation, NEW give \in Int, r.consumed + give >= 0
  PROVE  Moved(r, give) \in Reservation
<1> DEFINE c == r.consumed + give
           s == IF c >= r.qty THEN "FULFILLED" ELSE "ACTIVE"
<1>1. c \in Nat /\ s \in ReservationStatus
  BY DEF Reservation, ReservationStatus
<1>2. Moved(r, give) = [r EXCEPT !.consumed = c, !.status = s]
  BY DEF Moved
<1> HIDE DEF c, s
<1> QED  BY <1>1, <1>2, ChangedRow

\* A plan that draws only what rows hold touches only active rows, and leaves
\* each within its quantity.
LEMMA DrawTouches ==
  ASSUME Safe, NEW q \in Nat, NEW plan \in Plan(q), NEW cap,
         \A i \in DOMAIN resv : cap[i] \in {0, Held(resv[i])} /\ plan[i] <= cap[i]
  PROVE  Touchable(plan, 1)
<1>0. plan \in [DOMAIN resv -> Nat]
  <2>1. 0 .. q \subseteq Nat
    OBVIOUS
  <2> QED  BY <2>1 DEF Plan
<1> SUFFICES ASSUME NEW i \in Hit(plan)
             PROVE  /\ resv[i].status \notin GivenUp
                    /\ Moved(resv[i], 1 * plan[i]) \in Reservation
                    /\ WellDrawn(Moved(resv[i], 1 * plan[i]))
  BY <1>0, Zenon DEF Touchable
<1>1. i \in DOMAIN resv /\ plan[i] \in Nat /\ plan[i] > 0 /\ 1 * plan[i] = plan[i]
  BY <1>0 DEF Hit
<1>2. resv[i] \in Reservation /\ WellDrawn(resv[i])
  BY <1>1 DEF Safe, TypeOK, ReservationLifecycle
<1>3. resv[i].status = "ACTIVE" /\ plan[i] <= resv[i].qty - resv[i].consumed
  BY <1>1, <1>2, HeldIsWithin
<1>4. resv[i].qty \in Nat /\ resv[i].consumed \in Nat
  BY <1>2 DEF Reservation
<1>5. Moved(resv[i], 1 * plan[i]) \in Reservation
  BY <1>1, <1>2, <1>4, MovedRow
<1>6. WellDrawn(Moved(resv[i], 1 * plan[i]))
  BY <1>1, <1>2, <1>3, <1>4 DEF Moved, WellDrawn, Reservation
<1> QED  BY <1>3, <1>5, <1>6 DEF GivenUp

\* A plan that gives rows back no more than they have given leaves each active.
LEMMA RestoreTouches ==
  ASSUME Safe, NEW q \in Nat, NEW plan \in Plan(q),
         \A i \in Hit(plan) : /\ resv[i].status \in {"ACTIVE", "FULFILLED"}
                              /\ plan[i] <= resv[i].consumed
  PROVE  Touchable(plan, -1)
<1>0. plan \in [DOMAIN resv -> Nat]
  <2>1. 0 .. q \subseteq Nat
    OBVIOUS
  <2> QED  BY <2>1 DEF Plan
<1> SUFFICES ASSUME NEW i \in Hit(plan)
             PROVE  /\ resv[i].status \notin GivenUp
                    /\ Moved(resv[i], (-1) * plan[i]) \in Reservation
                    /\ WellDrawn(Moved(resv[i], (-1) * plan[i]))
  BY <1>0, Zenon DEF Touchable
<1>1. i \in DOMAIN resv /\ plan[i] \in Nat /\ plan[i] > 0 /\ (-1) * plan[i] = -plan[i]
  BY <1>0 DEF Hit
<1>2. resv[i] \in Reservation /\ WellDrawn(resv[i])
  BY <1>1 DEF Safe, TypeOK, ReservationLifecycle
<1>3. resv[i].qty \in Nat /\ resv[i].consumed \in Nat
  BY <1>2 DEF Reservation
<1>4. Moved(resv[i], (-1) * plan[i]) \in Reservation
  BY <1>1, <1>2, <1>3, MovedRow
<1>5. WellDrawn(Moved(resv[i], (-1) * plan[i]))
  BY <1>1, <1>2, <1>3 DEF Moved, WellDrawn, Reservation
<1> QED  BY <1>4, <1>5 DEF GivenUp

-----------------------------------------------------------------------------
(* The bodies *)

\* reserveForOrder's body preserves the invariant.
LEMMA ReserveSafe ==
  ASSUME IInv, NEW p \in Session, NEW k \in Key, NEW q \in Qty, ReserveForOrder(p, k, q)
  PROVE  IInv' /\ UNCHANGED resv
<1> DEFINE status == IF p \in Decider THEN "ACTIVE" ELSE "PENDING"
           same == {i \in DOMAIN resv : KeyOf(resv[i]) = k /\ resv[i].status = status}
           row == [order |-> k[1], line |-> k[2], qty |-> q, consumed |-> 0,
                   status |-> status, by |-> p]
           w == [NoWork EXCEPT !.reads = Position \cup {Asked(k)},
                               !.writes = {IF p \in Decider THEN HeldBy(k[1]) ELSE Asked(k)}]
           fresh == [w EXCEPT !.add = <<row>>]
           more(i) == [w EXCEPT !.writes = @ \cup {Row(i)},
                                !.rows = [j \in {i} |-> [resv[j] EXCEPT !.qty = @ + q]]]
<1>1. TypeOK /\ q \in Nat /\ q > 0 /\ k[1] \in Order /\ k[2] \in Line \cup {NoLine}
  BY BoundAssumption DEF IInv, Safe, Key, Qty
<1>2. CASE Run(p, fresh)
  <2>1. row \in Reservation /\ WellDrawn(row)
    BY <1>1 DEF Reservation, ReservationStatus, WellDrawn
  <2>2. <<row>> \in Seq(Reservation) /\ \A i \in DOMAIN <<row>> : <<row>>[i] = row
    BY <2>1
  <2>3. Settled(fresh)
    <3>1. RowsSettled(fresh)   BY DEF RowsSettled, NoWork
    <3>2. AddSettled(fresh)    BY <2>1, <2>2 DEF AddSettled, NoWork
    <3>3. ShelfSettled(fresh)  BY DEF ShelfSettled, NoWork
    <3>4. OutSettled(fresh)    BY DEF OutSettled, NoWork
    <3>5. LineSettled(fresh)   BY DEF LineSettled, NoWork
    <3> QED  BY <3>1, <3>2, <3>3, <3>4, <3>5 DEF Settled, NoWork
  <2> QED  BY <1>2, <2>3, RunKeeps
<1>3. ASSUME NEW i \in same, Run(p, more(i))
      PROVE  IInv' /\ UNCHANGED resv
  <2>1. resv[i] \in Reservation /\ WellDrawn(resv[i])
    BY DEF IInv, Safe, TypeOK, ReservationLifecycle
  <2>2. /\ [resv[i] EXCEPT !.qty = @ + q] \in Reservation
        /\ WellDrawn([resv[i] EXCEPT !.qty = @ + q])
    BY <1>1, <2>1 DEF Reservation, WellDrawn
  <2>3. Settled(more(i))
    <3>1. RowsSettled(more(i))   BY <2>2 DEF RowsSettled, NoWork, GivenUp
    <3>2. AddSettled(more(i))    BY DEF AddSettled, NoWork
    <3>3. ShelfSettled(more(i))  BY DEF ShelfSettled, NoWork
    <3>4. OutSettled(more(i))    BY DEF OutSettled, NoWork
    <3>5. LineSettled(more(i))   BY DEF LineSettled, NoWork
    <3> QED  BY <3>1, <3>2, <3>3, <3>4, <3>5 DEF Settled, NoWork
  <2> QED  BY <1>3, <2>3, RunKeeps
<1> QED  BY <1>2, <1>3 DEF ReserveForOrder

\* decideReservation's body preserves the invariant.
LEMMA DecideSafe ==
  ASSUME IInv, NEW p \in Session, NEW i \in DOMAIN resv, NEW accept \in BOOLEAN,
         DecideReservation(p, i, accept)
  PROVE  IInv' /\ UNCHANGED resv
<1> DEFINE r == resv[i]
           to == IF accept THEN "ACTIVE" ELSE "REJECTED"
           w == [NoWork EXCEPT
                   !.reads = Position \cup {Row(i)},
                   !.writes = {Row(i), Asked(KeyOf(r))}
                                \cup (IF accept THEN {HeldBy(r.order)} ELSE {}),
                   !.rows = [j \in {i} |-> [resv[j] EXCEPT !.status = to]]]
<1>1. r \in Reservation /\ WellDrawn(r) /\ r.status = "PENDING" /\ r.qty > 0
  <2>1. r \in Reservation /\ WellDrawn(r)
    BY DEF IInv, Safe, TypeOK, ReservationLifecycle
  <2>2. r.qty > 0
    BY <2>1 DEF Reservation
  <2> QED  BY <2>1, <2>2 DEF DecideReservation
<1>2. [r EXCEPT !.status = to] \in Reservation /\ WellDrawn([r EXCEPT !.status = to])
  BY <1>1 DEF Reservation, ReservationStatus, WellDrawn
<1>3. Settled(w)
  <2>1. RowsSettled(w)   BY <1>1, <1>2 DEF RowsSettled, NoWork, GivenUp
  <2>2. AddSettled(w)    BY DEF AddSettled, NoWork
  <2>3. ShelfSettled(w)  BY DEF ShelfSettled, NoWork
  <2>4. OutSettled(w)    BY DEF OutSettled, NoWork
  <2>5. LineSettled(w)   BY DEF LineSettled, NoWork
  <2> QED  BY <2>1, <2>2, <2>3, <2>4, <2>5 DEF Settled, NoWork
<1>4. Run(p, w)
  BY DEF DecideReservation
<1> QED  BY <1>3, <1>4, RunKeeps

\* issueToProduction's body preserves the invariant.
LEMMA IssueSafe ==
  ASSUME IInv, NEW p \in Session, NEW k \in Key, NEW l \in Location, NEW q \in Qty,
         IssueToProduction(p, k, l, q)
  PROVE  IInv' /\ UNCHANGED resv
<1> DEFINE cap == [i \in DOMAIN resv |-> IF InScope(resv[i], k[1], k[2]) THEN Held(resv[i]) ELSE 0]
           age == [i \in DOMAIN resv |-> i]
           figure == IF k[2] = NoLine THEN 0 ELSE issued[k[2]] + q
           w(plan) == [OrderWork(k, l, -q, plan, 1, figure) EXCEPT !.reads = @ \cup Position]
<1>1. q \in Nat /\ -q \in Int /\ ~(-q > 0) /\ figure \in Nat
  BY SMTT(30), BoundAssumption DEF IInv, Safe, TypeOK, Qty, Key
<1>2. Covers(l, -q)
  BY DEF IssueToProduction
<1>3. PICK plan \in Plan(q) : Poured(cap, age, q, plan) /\ Run(p, w(plan))
  BY Zenon DEF IssueToProduction
<1>4. \A i \in DOMAIN resv : cap[i] \in {0, Held(resv[i])} /\ plan[i] <= cap[i]
  BY <1>3 DEF Poured
<1>5. Touchable(plan, 1)
  BY <1>1, <1>4, DrawTouches DEF IInv
<1>6. \A i \in Hit(plan) : resv[i].line \in {k[2], NoLine}
  <2> SUFFICES ASSUME NEW i \in Hit(plan)
               PROVE  resv[i].line \in {k[2], NoLine}
    OBVIOUS
  <2>1. i \in DOMAIN resv /\ plan[i] > 0 /\ plan[i] \in 0 .. q /\ plan[i] <= cap[i]
    BY <1>4 DEF Hit, Plan
  <2>2. InScope(resv[i], k[1], k[2])
    BY <2>1
  <2> QED  BY <2>2 DEF InScope
<1>7. Settled(w(plan))
  BY <1>1, <1>2, <1>5, <1>6, OrderSettled DEF IInv
<1> QED  BY <1>3, <1>7, RunKeeps

\* returnFromProduction's body preserves the invariant.
LEMMA ReturnSafe ==
  ASSUME IInv, NEW p \in Session, NEW k \in Key, NEW l \in Location, NEW q \in Qty,
         ReturnFromProduction(p, k, l, q)
  PROVE  IInv' /\ UNCHANGED resv
<1> DEFINE drawn(r) == ~done[k[1]] /\ InScope(r, k[1], k[2]) /\ r.status \in {"ACTIVE", "FULFILLED"}
           cap == [i \in DOMAIN resv |-> IF drawn(resv[i]) THEN resv[i].consumed ELSE 0]
           general == [i \in DOMAIN resv |-> IF resv[i].line = NoLine THEN 1 ELSE 0]
           figure == IF k[2] = NoLine THEN 0 ELSE IssuedAfterReturn(k[2], q)
           reads == {OutFor(k[1])} \cup (IF done[k[1]] THEN {} ELSE {HeldBy(k[1])})
           w(plan) == [OrderWork(k, l, q, plan, -1, figure) EXCEPT !.reads = @ \cup reads]
<1>1. q \in Nat /\ q \in Int /\ ~(q < 0)
  BY BoundAssumption DEF Qty
<1>2. figure \in Nat
  <2>1. ASSUME k[2] # NoLine  PROVE IssuedAfterReturn(k[2], q) \in Nat
    <3>1. issued[k[2]] - q \in Int
      BY <1>1, <2>1 DEF IInv, Safe, TypeOK, Key
    <3> QED  BY <3>1, MaxOfTwo DEF IssuedAfterReturn
  <2> QED  BY <2>1
<1>3. Covers(l, q) /\ q <= out[k[1]] /\ OutFor(k[1]) \in reads
  BY <1>1 DEF Covers, ReturnFromProduction
<1>4. PICK plan \in Plan(q) : Poured(cap, general, q, plan) /\ Run(p, w(plan))
  BY Zenon DEF ReturnFromProduction
<1>5. \A i \in Hit(plan) : /\ resv[i].status \in {"ACTIVE", "FULFILLED"}
                           /\ plan[i] <= resv[i].consumed
                           /\ resv[i].line \in {k[2], NoLine}
  <2> SUFFICES ASSUME NEW i \in Hit(plan)
               PROVE  /\ resv[i].status \in {"ACTIVE", "FULFILLED"}
                      /\ plan[i] <= resv[i].consumed
                      /\ resv[i].line \in {k[2], NoLine}
    OBVIOUS
  <2>1. i \in DOMAIN resv /\ plan[i] > 0 /\ plan[i] \in 0 .. q
    BY DEF Hit, Plan
  <2>2. plan[i] <= cap[i]
    BY <1>4, <2>1 DEF Poured
  <2> QED  BY <2>1, <2>2 DEF InScope
<1>6. Touchable(plan, -1)
  BY <1>1, <1>5, RestoreTouches DEF IInv
<1> HIDE DEF reads, figure
<1>7. Settled(w(plan))
  BY <1>1, <1>2, <1>3, <1>5, <1>6, OrderSettled DEF IInv
<1> QED  BY <1>4, <1>7, RunKeeps

\* recordWastage's body preserves the invariant.
LEMMA WastageSafe ==
  ASSUME IInv, NEW p \in Session, NEW k, NEW l \in Location, NEW q \in Qty,
         RecordWastage(p, k, l, q)
  PROVE  IInv' /\ UNCHANGED resv
<1> DEFINE o == k[1]
           carries(r) == r.order = o /\ (k[2] = NoLine \/ InScope(r, o, k[2]))
           cap == [i \in DOMAIN resv |-> IF carries(resv[i]) THEN Held(resv[i]) ELSE 0]
           rank == [i \in DOMAIN resv |->
                     IF k[2] = NoLine /\ resv[i].line # NoLine THEN Len(resv) + i ELSE i]
           more == IF o = NoOrder THEN {} ELSE {HeldBy(o)}
           w(plan, beyond) ==
             [MovementWork(o, l, -q, plan, 1) EXCEPT !.reads = @ \cup more, !.lost = beyond]
<1>1. q \in Nat /\ -q \in Int /\ Covers(l, -q)
  BY BoundAssumption DEF Qty, RecordWastage
<1>2. PICK plan \in Plan(q), beyond \in 0 .. q :
        Poured(cap, rank, q, plan) /\ Run(p, w(plan, beyond))
  BY Zenon DEF RecordWastage
<1>3. \A i \in DOMAIN resv : cap[i] \in {0, Held(resv[i])} /\ plan[i] <= cap[i]
  BY <1>2 DEF Poured
<1>4. Touchable(plan, 1)
  BY <1>1, <1>3, DrawTouches DEF IInv
<1>5. Settled(w(plan, beyond))
  <2>1. beyond \in Nat
    BY <1>1
  <2> QED  BY <1>1, <1>4, <2>1, MovementSettled DEF IInv
<1> QED  BY <1>2, <1>5, RunKeeps

-----------------------------------------------------------------------------
(* The single statements *)

\* A receipt's or an adjustment's update preserves the invariant.
LEMMA ApplyMovementSafe ==
  ASSUME IInv, NEW l \in Location, NEW signed \in Int, ApplyMovement(l, signed),
         lost' \in Nat
  PROVE  IInv'
<1>1. stock[l] + signed >= 0 /\ \A x \in Location : stock[x] \in Nat /\ ledger[x] \in Int
  BY DEF ApplyMovement, Covers, IInv, Safe, TypeOK
<1>2. TypeOK'
  BY <1>1 DEF IInv, Safe, TypeOK, ApplyMovement, Committed
<1>3. BooksBalance'
  BY <1>1 DEF IInv, Safe, TypeOK, BooksBalance, ApplyMovement
<1>4. ReservationLifecycle' /\ NoMoreComesBack' /\ IssueLogAddsUp'
  BY DEF IInv, Safe, ApplyMovement, ReservationLifecycle, NoMoreComesBack, IssueLogAddsUp, WellDrawn
<1>5. Covering({}, {Shelf(l)})
  BY DEF Covering, ApplyMovement, IInv, Safe, TypeOK
<1> QED  BY <1>2, <1>3, <1>4, <1>5, CommittedKeeps DEF Safe, ApplyMovement

\* A release's update, made on whatever the row has become, preserves it too.
LEMMA ReleaseWriteSafe ==
  ASSUME IInv, NEW p \in Session, ReleaseWrite(p)
  PROVE  IInv'
<1> DEFINE i == rel[p].row
<1>1. rel[p].to \in {"CANCELLED", "RELEASED"} /\ resv \in Seq(Reservation)
  BY DEF IInv, Safe, TypeOK
<1>2. /\ DOMAIN resv' = DOMAIN resv
      /\ \A j \in DOMAIN resv :
           resv'[j] = IF j = i THEN [resv[j] EXCEPT !.status = rel[p].to] ELSE resv[j]
  BY <1>1 DEF ReleaseWrite
<1>3. \A j \in DOMAIN resv : resv'[j] \in Reservation /\ WellDrawn(resv'[j])
  <2> SUFFICES ASSUME NEW j \in DOMAIN resv
               PROVE  resv'[j] \in Reservation /\ WellDrawn(resv'[j])
    OBVIOUS
  <2>1. resv[j] \in Reservation /\ WellDrawn(resv[j])
    BY DEF IInv, Safe, TypeOK, ReservationLifecycle
  <2>2. CASE j # i
    <3>1. resv'[j] = resv[j]
      BY <1>2, <2>2
    <3> QED  BY <2>1, <3>1
  <2>3. CASE j = i
    <3>1. PICK to : to = rel[p].to
      OBVIOUS
    <3>2. PICK r, s : r = resv[j] /\ s = [r EXCEPT !.status = to] /\ resv'[j] = s
      BY <1>2, <2>3, <3>1
    <3>3. r \in Reservation /\ WellDrawn(r) /\ to \in {"CANCELLED", "RELEASED"}
      BY <1>1, <2>1, <3>1, <3>2
    <3>4. s \in Reservation /\ s.qty = r.qty /\ s.consumed = r.consumed /\ s.status = to
      BY <3>2, <3>3 DEF Reservation, ReservationStatus
    <3>5. WellDrawn(s)
      BY <3>3, <3>4 DEF WellDrawn
    <3> QED  BY <3>2, <3>4, <3>5
  <2> QED  BY <2>2, <2>3
<1>4. resv' \in Seq(Reservation)
  <2>1. resv' \in [DOMAIN resv -> Reservation]
    BY <1>1, <1>2, <1>3 DEF ReleaseWrite
  <2> QED  BY <1>1, <2>1, SameRows
<1>5. TypeOK'
  BY <1>4 DEF IInv, Safe, TypeOK, ReleaseWrite, Committed, NoRelease
<1>6. ReservationLifecycle'
  BY <1>2, <1>3 DEF ReservationLifecycle, WellDrawn
<1>7. BooksBalance' /\ NoMoreComesBack' /\ IssueLogAddsUp'
  BY DEF IInv, Safe, ReleaseWrite, BooksBalance, NoMoreComesBack, IssueLogAddsUp
<1>8. Covering({}, {Row(i)})
  BY <1>2 DEF Covering, ReleaseWrite, IInv, Safe, TypeOK
<1> QED  BY <1>5, <1>6, <1>7, <1>8, CommittedKeeps DEF Safe, ReleaseWrite

-----------------------------------------------------------------------------
(* A commit *)

\* The rows after a commit: those there were, as they were or as the
\* transaction settled them, and the new one.
LEMMA CommittedRows ==
  ASSUME IInv, NEW p \in Session, Commit(p)
  PROVE  /\ resv' \in Seq(Reservation)
         /\ DOMAIN resv \subseteq DOMAIN resv'
         /\ \A i \in DOMAIN resv :
              resv'[i] = IF i \in DOMAIN work[p].rows THEN work[p].rows[i] ELSE resv[i]
         /\ \A i \in DOMAIN resv' : WellDrawn(resv'[i])
         /\ Len(resv') = Len(resv) + Len(work[p].add)
         /\ \A i \in DOMAIN resv' : i > Len(resv) =>
              /\ i - Len(resv) \in DOMAIN work[p].add
              /\ resv'[i] = work[p].add[i - Len(resv)]
<1> DEFINE w == work[p]
           kept == [i \in DOMAIN resv |-> IF i \in DOMAIN w.rows THEN w.rows[i] ELSE resv[i]]
<1>1. resv \in Seq(Reservation) /\ w.add \in Seq(Reservation) /\ Settled(w)
  BY DEF IInv, Safe, TypeOK, Commit, Settled, AddSettled
<1>2. \A i \in DOMAIN resv : kept[i] \in Reservation /\ WellDrawn(kept[i])
  BY <1>1 DEF IInv, Safe, TypeOK, ReservationLifecycle, Settled, RowsSettled
<1>3. kept \in Seq(Reservation) /\ Len(kept) = Len(resv)
  <2>1. kept \in [DOMAIN resv -> Reservation]
    BY <1>2
  <2> HIDE DEF kept
  <2> QED  BY <1>1, <2>1, SameRows
<1>4. resv' = kept \o w.add
  BY DEF Commit
<1>5. \A i \in DOMAIN resv : kept[i] = IF i \in DOMAIN w.rows THEN w.rows[i] ELSE resv[i]
  OBVIOUS
<1> HIDE DEF kept, w
<1>6. /\ resv' \in Seq(Reservation)
      /\ Len(resv') = Len(resv) + Len(w.add)
      /\ \A i \in 1 .. Len(resv) + Len(w.add) :
           resv'[i] = IF i <= Len(resv) THEN kept[i] ELSE w.add[i - Len(resv)]
  <2> DEFINE added == w.add
  <2>1. added \in Seq(Reservation)
    BY <1>1
  <2> HIDE DEF added
  <2>2. /\ kept \o added \in Seq(Reservation)
        /\ Len(kept \o added) = Len(kept) + Len(added)
        /\ \A i \in 1 .. Len(kept) + Len(added) :
             (kept \o added)[i] = IF i <= Len(kept) THEN kept[i] ELSE added[i - Len(kept)]
    BY <1>3, <2>1, ConcatProperties
  <2> USE DEF added
  <2> QED  BY <1>3, <1>4, <2>2
<1>7. /\ Len(resv) \in Nat /\ Len(w.add) \in Nat
      /\ DOMAIN resv = 1 .. Len(resv) /\ DOMAIN w.add = 1 .. Len(w.add)
      /\ DOMAIN resv' = 1 .. Len(resv) + Len(w.add)
  BY <1>1, <1>6
<1>8. \A i \in DOMAIN resv : i \in DOMAIN resv' /\ resv'[i] = kept[i]
  BY <1>6, <1>7
<1>9. \A i \in DOMAIN resv' : i > Len(resv) =>
        i - Len(resv) \in DOMAIN w.add /\ resv'[i] = w.add[i - Len(resv)]
  BY <1>6, <1>7
<1>10. ASSUME NEW i \in DOMAIN resv'
       PROVE  WellDrawn(resv'[i])
  <2>1. CASE i <= Len(resv)
    BY <1>2, <1>6, <1>7, <2>1
  <2>2. CASE ~(i <= Len(resv))
    <3>1. i - Len(resv) \in DOMAIN w.add /\ resv'[i] = w.add[i - Len(resv)]
      BY <1>7, <1>9, <2>2
    <3> QED  BY <1>1, <3>1 DEF Settled, AddSettled
  <2> QED  BY <2>1, <2>2
<1> QED  BY <1>5, <1>6, <1>8, <1>9, <1>10 DEF w

\* A commit changes no more than its transaction said it would write.
LEMMA CommitCovers ==
  ASSUME IInv, NEW p \in Session, Commit(p)
  PROVE  Covering(work[p].reads, work[p].writes)
<1> DEFINE w == work[p]
<1>1. Settled(w)
  BY DEF IInv, Commit
<1>2. /\ \A l \in Location : stock[l] \in Nat /\ ledger[l] \in Int /\ w.moved[l] \in Int
      /\ \A o \in Order : out[o] \in Int /\ w.out[o] \in Int
      /\ \A n \in Line : issued[n] \in Nat /\ issueLog[n] \in Int /\ w.log[n] \in Int
      /\ lost \in Nat /\ w.lost \in Nat
  BY <1>1 DEF IInv, Safe, TypeOK, Settled, ShelfSettled, OutSettled, LineSettled
<1>3. \A i \in DOMAIN resv : resv'[i] = resv[i] \/ Row(i) \in w.writes
  BY <1>1, CommittedRows DEF Settled, RowsSettled
<1>4. \A l \in Location : stock'[l] = stock[l] \/ Shelf(l) \in w.writes
  BY <1>1, <1>2 DEF Commit, Settled, ShelfSettled
<1>5. \A o \in Order : out'[o] >= out[o] \/ OutFor(o) \in w.reads \cap w.writes
  BY SMTT(30), <1>1, <1>2 DEF Commit, Settled, OutSettled
<1>6. \A n \in Line : issued'[n] = issued[n] \/ LineRow(n) \in w.writes
  BY <1>1, <1>2 DEF Commit, Settled, LineSettled
<1> QED  BY <1>3, <1>4, <1>5, <1>6, CommittedRows DEF Covering

\* Installing what a transaction settled preserves the invariant.
LEMMA CommitSafe ==
  ASSUME IInv, NEW p \in Session, Commit(p)
  PROVE  IInv'
<1> DEFINE w == work[p]
<1>1. Settled(w)
  BY DEF IInv, Commit
<1>2. /\ \A l \in Location : stock[l] \in Nat /\ ledger[l] \in Int /\ w.moved[l] \in Int
      /\ \A o \in Order : out[o] \in Int /\ w.out[o] \in Int
      /\ \A n \in Line : issued[n] \in Nat /\ issueLog[n] \in Int /\ w.log[n] \in Int
      /\ lost \in Nat /\ w.lost \in Nat
  BY <1>1 DEF IInv, Safe, TypeOK, Settled, ShelfSettled, OutSettled, LineSettled
<1>3. stock' \in [Location -> Nat] /\ BooksBalance'
  <2>1. \A l \in Location : stock'[l] = ledger'[l] /\ stock'[l] \in Nat
    BY <1>1, <1>2 DEF Commit, IInv, Safe, BooksBalance, Settled, ShelfSettled
  <2> QED  BY <2>1 DEF Commit, BooksBalance
<1>4. NoMoreComesBack'
  BY <1>1, <1>2 DEF Commit, IInv, Safe, NoMoreComesBack, Settled, OutSettled
<1>5. issued' \in [Line -> Nat] /\ IssueLogAddsUp'
  <2>1. \A n \in Line : issued'[n] \in Nat /\ issueLog'[n] = issued'[n]
    BY <1>1, <1>2 DEF Commit, IInv, Safe, IssueLogAddsUp, Settled, LineSettled
  <2> QED  BY <2>1 DEF Commit, IssueLogAddsUp
<1>6. TypeOK'
  <2>1. ledger' \in [Location -> Int] /\ out' \in [Order -> Int] /\ issueLog' \in [Line -> Int]
    <3>1. /\ ledger' = [l \in Location |-> ledger[l] + w.moved[l]]
          /\ out' = [o \in Order |-> out[o] + w.out[o]]
          /\ issueLog' = [n \in Line |-> issueLog[n] + w.log[n]]
      BY DEF Commit
    <3> HIDE DEF w
    <3>2. \A l \in Location : ledger[l] + w.moved[l] \in Int
      BY <1>2
    <3>3. \A o \in Order : out[o] + w.out[o] \in Int
      BY <1>2
    <3>4. \A n \in Line : issueLog[n] + w.log[n] \in Int
      BY <1>2
    <3>5. ledger' \in [Location -> Int]
      BY <3>1, <3>2, Zenon
    <3>6. out' \in [Order -> Int]
      BY <3>1, <3>3, Zenon
    <3>7. issueLog' \in [Line -> Int]
      BY <3>1, <3>4, Zenon
    <3> QED  BY <3>5, <3>6, <3>7
  <2>2. lost' \in Nat /\ done' \in [Order -> BOOLEAN]
    BY <1>2 DEF Commit, IInv, Safe, TypeOK
  <2>3. /\ pc' \in [Session -> {"idle", "tx", "doomed", "again", "release"}]
        /\ tries' \in [Session -> 0 .. Retries]
        /\ rel' \in [Session -> [row: Nat, to: {"CANCELLED", "RELEASED"}]]
    BY BoundAssumption DEF Commit, Committed, IInv, Safe, TypeOK
  <2> QED  BY <1>3, <1>5, <2>1, <2>2, <2>3, CommittedRows DEF TypeOK
<1>7. ReservationLifecycle'
  BY CommittedRows DEF ReservationLifecycle, WellDrawn
<1>8. Covering(w.reads, w.writes)
  BY CommitCovers
<1>9. Committed(p, "idle", w.reads, w.writes)
  BY DEF Commit
<1> HIDE DEF w
<1> QED  BY <1>3, <1>4, <1>5, <1>6, <1>7, <1>8, <1>9, CommittedKeeps DEF Safe

-----------------------------------------------------------------------------
(* The invariant is inductive *)

\* The empty tables satisfy the invariant.
LEMMA InitSafe ==
  ASSUME Init
  PROVE  IInv
<1>1. TypeOK
  BY BoundAssumption DEF Init, TypeOK, NoRelease
<1>2. BooksBalance /\ ReservationLifecycle /\ NoMoreComesBack /\ IssueLogAddsUp
  BY DEF Init, BooksBalance, ReservationLifecycle, NoMoreComesBack, IssueLogAddsUp
<1> QED  BY <1>1, <1>2 DEF IInv, Safe, Init

\* A step that leaves the tables and what transactions have settled alone, and
\* starts none.
LEMMA AsideSafe ==
  ASSUME IInv, TypeOK', UNCHANGED <<tables, work>>,
         \A q \in Session : pc'[q] = "tx" => pc[q] = "tx"
  PROVE  IInv'
<1>1. Safe'
  BY DEF IInv, Safe, tables, BooksBalance, ReservationLifecycle, NoMoreComesBack,
         IssueLogAddsUp, WellDrawn
<1>2. ASSUME NEW q \in Session, pc'[q] = "tx"
      PROVE  Settled(work[q])'
  <2>1. Settled(work[q])
    BY <1>2 DEF IInv
  <2> QED  BY <2>1 DEF tables, Settled, RowsSettled, AddSettled, ShelfSettled,
                       OutSettled, LineSettled, WellDrawn
<1> QED  BY <1>1, <1>2 DEF IInv

\* Whatever body a session runs.
LEMMA BodySafe ==
  ASSUME IInv, NEW p \in Session, Body(p)
  PROVE  IInv' /\ UNCHANGED resv
<1>1. CASE \E k \in Key, q \in Qty : ReserveForOrder(p, k, q)
  BY <1>1, ReserveSafe
<1>2. CASE \E i \in DOMAIN resv, accept \in BOOLEAN : DecideReservation(p, i, accept)
  BY <1>2, DecideSafe
<1>3. CASE \E k \in Key, l \in Location, q \in Qty : IssueToProduction(p, k, l, q)
  BY <1>3, IssueSafe
<1>4. CASE \E k \in Key, l \in Location, q \in Qty : ReturnFromProduction(p, k, l, q)
  BY <1>4, ReturnSafe
<1>5. CASE \E k \in Key \cup {<<NoOrder, NoLine>>}, l \in Location, q \in Qty :
             RecordWastage(p, k, l, q)
  BY <1>5, WastageSafe
<1> QED  BY <1>1, <1>2, <1>3, <1>4, <1>5 DEF Body

\* Every step of the inventory preserves the invariant.
LEMMA NextSafe ==
  ASSUME IInv, [Next]_vars
  PROVE  IInv'
<1>1. ASSUME NEW p \in Session, Body(p)
      PROVE  IInv'
  BY <1>1, BodySafe
<1>2. ASSUME NEW p \in Session, Finish(p)
      PROVE  IInv'
  <2>1. CASE Commit(p)
    BY <2>1, CommitSafe
  <2>2. CASE Retry(p)
    <3>1. TypeOK'
      <4>1. tries' \in [Session -> 0 .. Retries]
        <5>1. tries \in [Session -> 0 .. Retries] /\ 0 \in 0 .. Retries
          BY BoundAssumption DEF IInv, Safe, TypeOK
        <5>2. tries[p] < Retries => tries[p] + 1 \in 0 .. Retries
          BY <5>1, BoundAssumption
        <5> QED  BY <2>2, <5>1, <5>2 DEF Retry
      <4>2. pc' \in [Session -> {"idle", "tx", "doomed", "again", "release"}]
        BY <2>2 DEF Retry, IInv, Safe, TypeOK
      <4> QED  BY <2>2, <4>1, <4>2 DEF Retry, tables, IInv, Safe, TypeOK
    <3>2. \A q \in Session : pc'[q] = "tx" => pc[q] = "tx"
      BY <2>2 DEF Retry, IInv, Safe, TypeOK
    <3> QED  BY <2>2, <3>1, <3>2, AsideSafe DEF Retry
  <2>3. CASE Refuse(p)
    <3>1. TypeOK'
      BY <2>3, BoundAssumption DEF Refuse, tables, IInv, Safe, TypeOK
    <3>2. \A q \in Session : pc'[q] = "tx" => pc[q] = "tx"
      BY <2>3 DEF Refuse, IInv, Safe, TypeOK
    <3> QED  BY <2>3, <3>1, <3>2, AsideSafe DEF Refuse
  <2>4. CASE ReleaseWrite(p)
    BY <2>4, ReleaseWriteSafe
  <2> QED  BY <1>2, <2>1, <2>2, <2>3, <2>4 DEF Finish
<1>3. ASSUME NEW p \in Session, NEW i \in DOMAIN resv, ReleaseRead(p, i)
      PROVE  IInv'
  <2>1. i \in Nat
    BY DEF IInv, Safe, TypeOK
  <2>2. TypeOK'
    <3>1. rel' \in [Session -> [row: Nat, to: {"CANCELLED", "RELEASED"}]]
      BY <1>3, <2>1 DEF ReleaseRead, IInv, Safe, TypeOK
    <3>2. pc' \in [Session -> {"idle", "tx", "doomed", "again", "release"}]
      BY <1>3 DEF ReleaseRead, IInv, Safe, TypeOK
    <3> QED  BY <1>3, <3>1, <3>2 DEF ReleaseRead, tables, IInv, Safe, TypeOK
  <2>3. \A q \in Session : pc'[q] = "tx" => pc[q] = "tx"
    BY <1>3 DEF ReleaseRead, IInv, Safe, TypeOK
  <2> QED  BY <1>3, <2>2, <2>3, AsideSafe DEF ReleaseRead
<1>4. ASSUME NEW l \in Location, NEW q \in Qty, ReceiveStock(l, q)
      PROVE  IInv'
  <2>1. q \in Int /\ ApplyMovement(l, q) /\ lost' = lost
    BY <1>4 DEF ReceiveStock, Qty
  <2>2. lost' \in Nat
    BY <2>1 DEF IInv, Safe, TypeOK
  <2> QED  BY <2>1, <2>2, ApplyMovementSafe
<1>5. ASSUME NEW l \in Location, NEW d \in Int, AdjustStock(l, d)
      PROVE  IInv'
  <2>1. lost' \in Nat
    <3>1. -d \in Int /\ 0 \in Int
      OBVIOUS
    <3>2. Max({0, -d}) \in Nat
      BY <3>1, MaxOfTwo
    <3> QED  BY <1>5, <3>2 DEF AdjustStock, IInv, Safe, TypeOK
  <2> QED  BY <1>5, <2>1, ApplyMovementSafe DEF AdjustStock
<1>6. ASSUME NEW o \in Order, SetOrderDone(o)
      PROVE  IInv'
  <2>1. TypeOK'
    BY <1>6 DEF SetOrderDone, tables, IInv, Safe, TypeOK
  <2> QED  BY <1>6, <2>1, AsideSafe DEF SetOrderDone
<1>7. CASE UNCHANGED vars
  <2>1. TypeOK'
    BY <1>7 DEF vars, tables, IInv, Safe, TypeOK
  <2> QED  BY <1>7, <2>1, AsideSafe DEF vars
<1>8. \A q \in Qty : q \in Int /\ -q \in Int
  BY DEF Qty
<1> QED  BY <1>1, <1>2, <1>3, <1>4, <1>5, <1>6, <1>7, <1>8 DEF Next

\* At every moment the tables are safe and every open transaction's settled
\* writes still fit them: what its body checked cannot have gone stale unless
\* PostgreSQL refuses its commit.
THEOREM Invariance == Spec => []IInv
<1>1. Init => IInv
  BY InitSafe
<1>2. IInv /\ [Next]_vars => IInv'
  BY NextSafe
<1> QED  BY <1>1, <1>2, PTL DEF Spec

-----------------------------------------------------------------------------
(* What the tables come to: the shelf and the promises                      *)

\* The lesser of two counts.
LEMMA MinOfTwo ==
  ASSUME NEW a \in Int, NEW b \in Int
  PROVE  Min({a, b}) = IF a <= b THEN a ELSE b
<1>1. \E x \in {a, b} : \A y \in {a, b} : x <= y
  OBVIOUS
<1>2. Min({a, b}) \in {a, b} /\ \A y \in {a, b} : Min({a, b}) <= y
  BY <1>1 DEF Min
<1> QED  BY <1>2

\* A table has finitely many rows.
LEMMA RowsAreFinite ==
  ASSUME NEW S, NEW s \in Seq(S)
  PROVE  IsFiniteSet(DOMAIN s)
<1>1. Len(s) \in Nat /\ DOMAIN s = 1 .. Len(s)
  OBVIOUS
<1>2. IsFiniteSet(1 .. Len(s))
  BY <1>1, FS_Interval
<1> QED  BY <1>1, <1>2

\* What each row holds is a count, and so is what they hold together.
LEMMA ReservedIsCount ==
  ASSUME NEW rows \in Seq(Reservation), \A i \in DOMAIN rows : WellDrawn(rows[i])
  PROVE  Reserved(rows) \in Nat /\ \A i \in DOMAIN rows : Held(rows[i]) \in Nat
<1> DEFINE held == [i \in DOMAIN rows |-> Held(rows[i])]
<1>1. \A i \in DOMAIN rows : Held(rows[i]) \in Nat
  BY HeldIsWithin
<1>2. IsFiniteSet(DOMAIN rows) /\ \A i \in DOMAIN rows : held[i] \in Nat
  BY <1>1, RowsAreFinite
<1>3. Reserved(rows) = SumFunctionOnSet(held, DOMAIN rows)
  BY DEF Reserved, SumFunction
<1> HIDE DEF held
<1> QED  BY <1>1, <1>2, <1>3, SumIsNat

\* So is what all locations have.
LEMMA ShelfIsCount ==
  ASSUME NEW balance \in [Location -> Nat]
  PROVE  SumFunction(balance) \in Nat
<1>1. DOMAIN balance = Location /\ \A l \in Location : balance[l] \in Nat
  OBVIOUS
<1> QED  BY <1>1, SumIsNat, LocationAssumption DEF SumFunction

\* The position of safe tables, before a step and after it.
LEMMA PositionIsCounts ==
  ASSUME Safe
  PROVE  /\ \A i \in DOMAIN resv : Held(resv[i]) \in Nat
         /\ Reserved(resv) \in Nat /\ OnHand \in Nat /\ lost \in Nat
BY ReservedIsCount, ShelfIsCount DEF Safe, TypeOK, ReservationLifecycle, OnHand

LEMMA PositionStaysCounts ==
  ASSUME Safe'
  PROVE  Reserved(resv') \in Nat /\ OnHand' \in Nat /\ lost' \in Nat
<1>1. resv' \in Seq(Reservation) /\ (\A i \in DOMAIN resv' : WellDrawn(resv'[i]))
      /\ stock' \in [Location -> Nat] /\ lost' \in Nat
  BY DEF Safe, TypeOK, ReservationLifecycle, WellDrawn
<1> QED  BY <1>1, ReservedIsCount, ShelfIsCount DEF OnHand

\* What a transaction will add to what orders are promised, and to the shelf.
Pledged(w) ==
  SumFunctionOnSet([i \in DOMAIN w.rows |-> Held(w.rows[i]) - Held(resv[i])], DOMAIN w.rows)
    + (IF w.add = <<>> THEN 0 ELSE Held(w.add[1]))

Brought(w) == SumFunctionOnSet(w.moved, Location)

\* The rows a transaction has settled are finitely many, and what each will hold
\* is a count, as is what a new one holds.
LEMMA SettledCounts ==
  ASSUME Safe, NEW w, Settled(w)
  PROVE  /\ IsFiniteSet(DOMAIN w.rows)
         /\ \A i \in DOMAIN w.rows : Held(w.rows[i]) \in Nat /\ Held(resv[i]) \in Nat
         /\ \A i \in DOMAIN w.add : Held(w.add[i]) \in Nat
         /\ Pledged(w) \in Int /\ Brought(w) \in Int
<1>1. IsFiniteSet(DOMAIN w.rows)
  <2>1. DOMAIN w.rows \subseteq DOMAIN resv /\ IsFiniteSet(DOMAIN resv)
    BY RowsAreFinite DEF Safe, TypeOK, Settled, RowsSettled
  <2> QED  BY <2>1, FS_Subset
<1>2. \A i \in DOMAIN w.rows : Held(w.rows[i]) \in Nat /\ Held(resv[i]) \in Nat
  BY PositionIsCounts, HeldIsWithin DEF Settled, RowsSettled
<1>3. \A i \in DOMAIN w.add : Held(w.add[i]) \in Nat
  BY HeldIsWithin DEF Settled, AddSettled
<1>4. w.add # <<>> => Held(w.add[1]) \in Nat
  BY <1>3 DEF Settled, AddSettled
<1>5. Pledged(w) \in Int
  <2> DEFINE gain == [i \in DOMAIN w.rows |-> Held(w.rows[i]) - Held(resv[i])]
  <2>1. \A i \in DOMAIN w.rows : gain[i] \in Int
    BY <1>2
  <2>2. Pledged(w) = SumFunctionOnSet(gain, DOMAIN w.rows)
                       + (IF w.add = <<>> THEN 0 ELSE Held(w.add[1]))
    BY DEF Pledged
  <2> HIDE DEF gain
  <2>3. SumFunctionOnSet(gain, DOMAIN w.rows) \in Int
    BY <1>1, <2>1, SumIsInt
  <2> QED  BY <1>4, <2>2, <2>3
<1>6. Brought(w) \in Int
  <2>1. \A l \in Location : w.moved[l] \in Int
    BY DEF Settled, ShelfSettled
  <2> QED  BY <2>1, SumIsInt, LocationAssumption DEF Brought
<1> QED  BY <1>1, <1>2, <1>3, <1>5, <1>6

\* A commit changes the account by just that.
LEMMA CommitAccount ==
  ASSUME IInv, NEW p \in Session, Commit(p), Len(work[p].add) <= 1
  PROVE  /\ OnHand' = OnHand + Brought(work[p])
         /\ Reserved(resv') = Reserved(resv) + Pledged(work[p])
         /\ lost' = lost + work[p].lost
<1> DEFINE w == work[p]
<1>1. Settled(w) /\ Safe
  BY DEF IInv, Commit
<1>2. OnHand' = OnHand + Brought(w)
  <2>1. /\ DOMAIN stock = Location /\ DOMAIN stock' = Location
        /\ \A l \in Location : /\ stock[l] \in Int /\ w.moved[l] \in Int
                               /\ stock'[l] = stock[l] + w.moved[l]
    <3>1. stock \in [Location -> Nat] /\ w.moved \in [Location -> Int]
      BY <1>1 DEF Safe, TypeOK, Settled, ShelfSettled
    <3>2. stock' = [l \in Location |-> stock[l] + w.moved[l]]
      BY DEF Commit
    <3> QED  BY <3>1, <3>2
  <2>2. SumFunctionOnSet(stock', Location)
          = SumFunctionOnSet(stock, Location) + SumFunctionOnSet(w.moved, Location)
    BY <2>1, SumPlus, LocationAssumption
  <2> QED  BY <2>1, <2>2 DEF OnHand, SumFunction, Brought
<1>3. Reserved(resv') = Reserved(resv) + Pledged(w)
  <2> DEFINE D == DOMAIN resv
             held == [i \in D |-> Held(resv[i])]
             after == [i \in DOMAIN resv' |-> Held(resv'[i])]
             R == DOMAIN w.rows
             gain == [i \in R |-> Held(w.rows[i]) - Held(resv[i])]
             wide == [i \in D |-> IF i \in R THEN gain[i] ELSE 0]
             new == IF w.add = <<>> THEN 0 ELSE Held(w.add[1])
  <2>1. /\ Reserved(resv) = SumFunctionOnSet(held, D)
        /\ Reserved(resv') = SumFunctionOnSet(after, DOMAIN resv')
        /\ Pledged(w) = SumFunctionOnSet(gain, R) + new
    BY DEF Reserved, SumFunction, Pledged
  <2>2. /\ IsFiniteSet(D) /\ R \subseteq D
        /\ \A i \in R : Held(w.rows[i]) \in Nat
        /\ \A i \in D : Held(resv[i]) \in Nat
    BY <1>1, RowsAreFinite, SettledCounts, PositionIsCounts DEF Safe, TypeOK, Settled, RowsSettled
  <2>3. \A i \in R : gain[i] \in Int
    BY <2>2
  <2>4. \A i \in D : held[i] \in Int /\ wide[i] \in Int /\ after[i] = held[i] + wide[i]
    <3>1. \A i \in D : i \in DOMAIN resv' /\ resv'[i] = IF i \in R THEN w.rows[i] ELSE resv[i]
      BY CommittedRows
    <3> QED  BY <2>2, <3>1
  <2>5. SumFunctionOnSet(wide, D) = SumFunctionOnSet(gain, R)
    <3>1. R \in SUBSET D /\ \A i \in D : wide[i] = IF i \in R THEN gain[i] ELSE 0
      BY <2>2
    <3> HIDE DEF wide, gain, D, R
    <3> QED  BY <2>2, <2>3, <3>1, SumRestricted
  <2>6. SumFunctionOnSet(after, D) = SumFunctionOnSet(held, D) + SumFunctionOnSet(gain, R)
    <3> HIDE DEF wide, gain, held, after, D, R
    <3> QED  BY <2>2, <2>4, <2>5, SumPlus
  <2>7. SumFunctionOnSet(held, D) \in Int /\ SumFunctionOnSet(gain, R) \in Int /\ new \in Int
    <3>1. SumFunctionOnSet(held, D) \in Int
      <4> HIDE DEF held, wide, after, D
      <4> QED  BY <2>2, <2>4, SumIsInt
    <3>2. SumFunctionOnSet(gain, R) \in Int
      <4>1. IsFiniteSet(R)
        BY <1>1, SettledCounts
      <4> HIDE DEF gain, R
      <4> QED  BY <2>3, <4>1, SumIsInt
    <3>3. new \in Int
      BY <1>1, SettledCounts DEF Settled, AddSettled
    <3> QED  BY <3>1, <3>2, <3>3
  <2>8. SumFunctionOnSet(after, DOMAIN resv') = SumFunctionOnSet(after, D) + new
    <3>1. /\ resv' \in Seq(Reservation) /\ w.add \in Seq(Reservation) /\ resv \in Seq(Reservation)
          /\ Len(resv') = Len(resv) + Len(w.add)
          /\ \A i \in DOMAIN resv' : i > Len(resv) => resv'[i] = w.add[i - Len(resv)]
      BY <1>1, CommittedRows DEF Settled, AddSettled, Safe, TypeOK
    <3>2. SumFunctionOnSet(after, D) \in Int
      <4> HIDE DEF after, held, gain, D, R
      <4> QED  BY <2>6, <2>7
    <3>3. CASE w.add = <<>>
      <4>1. DOMAIN resv' = D
        BY <3>1, <3>3
      <4>2. new = 0
        BY <3>3
      <4> HIDE DEF after, new, D
      <4> QED  BY <3>2, <4>1, <4>2
    <3>4. CASE w.add # <<>>
      <4> DEFINE n == Len(resv) + 1
      <4>1. Len(w.add) = 1
        <5> DEFINE added == w.add
                   m == Len(added)
        <5>1. added \in Seq(Reservation) /\ added # <<>>
          BY <3>1, <3>4
        <5>2. m <= 1
          OBVIOUS
        <5> HIDE DEF added
        <5>3. m \in Nat \ {0}
          BY <5>1, EmptySeq, Zenon
        <5> HIDE DEF m
        <5>4. m = 1
          BY <5>2, <5>3
        <5> QED  BY <5>4, Zenon DEF added, m
      <4>2. Len(resv) \in Nat /\ D = 1 .. Len(resv) /\ DOMAIN resv' = 1 .. Len(resv')
        BY <3>1
      <4>3. n \in DOMAIN resv' /\ DOMAIN resv' \ {n} = D /\ resv'[n] = w.add[1]
        BY <3>1, <4>1, <4>2
      <4>4. Held(w.add[1]) \in Nat
        BY <1>1, <4>1, SettledCounts DEF Settled, AddSettled
      <4>5. after[n] = Held(w.add[1]) /\ new = Held(w.add[1])
        BY <3>4, <4>3
      <4>6. IsFiniteSet(DOMAIN resv')
        BY <3>1, RowsAreFinite
      <4> HIDE DEF after, new, n, D, held, wide
      <4>7. \A i \in DOMAIN resv' : after[i] \in Int
        BY <2>4, <4>3, <4>4, <4>5
      <4>8. SumFunctionOnSet(after, DOMAIN resv')
              = after[n] + SumFunctionOnSet(after, DOMAIN resv' \ {n})
        BY <4>3, <4>6, <4>7, SumSplit
      <4>9. SumFunctionOnSet(after, DOMAIN resv' \ {n}) = SumFunctionOnSet(after, D)
        BY <4>3, Zenon
      <4> QED  BY <3>2, <4>4, <4>5, <4>8, <4>9
    <3> QED  BY <3>3, <3>4
  <2> HIDE DEF held, after, gain, new, D, R
  <2> QED  BY <2>1, <2>6, <2>7, <2>8
<1>4. lost' = lost + w.lost
  BY DEF Commit
<1> QED  BY <1>2, <1>3, <1>4

-----------------------------------------------------------------------------
(* What an open transaction has settled still fits the account. *)

\* The bound on one row.
Small(r) == r.qty <= MaxQty

\* What the promises could still grow by before they exceed the shelf and what
\* was written off it.
Slack == OnHand + lost - Reserved(resv)

\* The whole position was read and a part of it is written: of two such, one
\* commits.
ReadsPosition(reads, writes) == Position \subseteq reads /\ writes \cap Position # {}

\* What was promised is covered still.
Guarded(w) ==
  /\ ReadsPosition(w.reads, w.writes)
  /\ Reserved(resv) + Pledged(w) <= OnHand + Brought(w) + lost

\* A transaction does one of the things the account knows: nothing, a promise, an
\* issue, a return, a write-off.
Effect(w) ==
  \/ Pledged(w) = 0 /\ Brought(w) = 0 /\ w.lost = 0
  \/ Pledged(w) \in Qty /\ Brought(w) = 0 /\ w.lost = 0 /\ Guarded(w)
  \/ \E q \in Qty : \E d \in 0 .. q :
       Pledged(w) = -d /\ Brought(w) = -q /\ w.lost = 0 /\ Guarded(w)
  \/ \E q \in Qty : \E d \in 0 .. q :
       Pledged(w) = d /\ Brought(w) = q /\ w.lost = 0
  \/ \E q \in Qty : \E d \in 0 .. q :
       Pledged(w) = -d /\ Brought(w) = -q /\ w.lost = q - d

Accounted(w) ==
  /\ Len(w.add) <= 1
  /\ \A i \in DOMAIN w.rows : Small(w.rows[i])
  /\ \A i \in DOMAIN w.add : Small(w.add[i])
  /\ Effect(w)

Promises ==
  /\ \A i \in DOMAIN resv : Small(resv[i])
  /\ \A p \in Session : pc[p] = "tx" => Accounted(work[p])

\* It stays so over a step that leaves its rows alone and, if it relies on the
\* slack, the slack.
LEMMA AccountedStays ==
  ASSUME Safe, Safe', NEW q \in Session, Settled(work[q]), Accounted(work[q]),
         work'[q] = work[q], \A i \in DOMAIN work[q].rows : resv'[i] = resv[i],
         ReadsPosition(work[q].reads, work[q].writes) => Slack' >= Slack
  PROVE  Accounted(work[q])'
<1> DEFINE w == work[q]
           v == work'[q]
<1>1. Pledged(w)' = Pledged(w)
  <2>1. [i \in DOMAIN w.rows |-> Held(w.rows[i]) - Held(resv[i])]
          = [i \in DOMAIN v.rows |-> Held(v.rows[i]) - Held(resv'[i])]
    OBVIOUS
  <2>2. (IF w.add = <<>> THEN 0 ELSE Held(w.add[1])) = (IF v.add = <<>> THEN 0 ELSE Held(v.add[1]))
    OBVIOUS
  <2>3. DOMAIN w.rows = DOMAIN v.rows
    OBVIOUS
  <2> HIDE DEF w, v
  <2> QED  BY <2>1, <2>2, <2>3, Zenon DEF Pledged, w, v
<1>2. Brought(w)' = Brought(w)
  BY DEF Brought
<1>3. /\ Pledged(w) \in Int /\ Brought(w) \in Int
      /\ Reserved(resv) \in Int /\ OnHand \in Int /\ lost \in Int
      /\ Reserved(resv') \in Int /\ OnHand' \in Int /\ lost' \in Int
  BY SettledCounts, PositionIsCounts, PositionStaysCounts
<1>4. Guarded(w) => Guarded(w)'
  <2> SUFFICES ASSUME Guarded(w)
               PROVE  Guarded(w)'
    OBVIOUS
  <2>1. ReadsPosition(w.reads, w.writes)'
    BY DEF Guarded, ReadsPosition, Position, Shelf, HeldBy
  <2>2. Slack' >= Slack /\ Reserved(resv) + Pledged(w) <= OnHand + Brought(w) + lost
    BY DEF Guarded
  <2>3. /\ Slack = OnHand + lost - Reserved(resv)
        /\ Slack' = OnHand' + lost' - Reserved(resv')
    BY DEF Slack
  <2> DEFINE P == Pledged(w)
             B == Brought(w)
             a == Reserved(resv)
             b == OnHand
             c == Reserved(resv')
             d == OnHand'
             l == lost
             m == lost'
  <2>4. /\ P \in Int /\ B \in Int /\ a \in Int /\ b \in Int /\ c \in Int /\ d \in Int
        /\ l \in Int /\ m \in Int
    BY <1>3
  <2>5. d + m - c >= b + l - a /\ a + P <= b + B + l
    BY <2>2, <2>3
  <2> HIDE DEF P, B, a, b, c, d, l, m
  <2>6. c + P <= d + B + m
    BY <2>4, <2>5
  <2> USE DEF P, B, a, b, c, d, l, m
  <2>7. (Reserved(resv) + Pledged(w) <= OnHand + Brought(w) + lost)'
    BY <1>1, <1>2, <2>6
  <2> QED  BY <2>1, <2>7 DEF Guarded
<1>5. Effect(w) => Effect(w)'
  <2>1. w.lost = v.lost
    OBVIOUS
  <2> QED  BY <1>1, <1>2, <1>4, <2>1 DEF Effect, Qty
<1> QED  BY <1>5 DEF Accounted, Small

\* A commit that leaves its rows small preserves the promises: it leaves the slack
\* alone, or is one of two that relied on it.
LEMMA CommittedKeepsPromises ==
  ASSUME IInv, IInv', Promises, NEW reads, NEW writes, Covering(reads, writes),
         NEW p, NEW next, next # "tx", Committed(p, next, reads, writes),
         \A i \in DOMAIN resv' : Small(resv'[i]),
         Slack' >= Slack \/ ReadsPosition(reads, writes)
  PROVE  Promises'
<1>1. ASSUME NEW q \in Session, pc'[q] = "tx"
      PROVE  Accounted(work[q])'
  <2>1. q # p /\ pc[q] = "tx" /\ ~Clashes(work[q], reads, writes) /\ work'[q] = work[q]
    BY <1>1 DEF Committed
  <2>2. Settled(work[q]) /\ Accounted(work[q]) /\ Safe /\ Safe'
    BY <2>1 DEF IInv, Promises
  <2>3. \A i \in DOMAIN work[q].rows : resv'[i] = resv[i]
    <3>1. \A x \in writes : IsRow(x) => x \notin work[q].writes
      BY <2>1 DEF Clashes
    <3>2. \A i \in DOMAIN work[q].rows : i \in DOMAIN resv /\ Row(i) \in work[q].writes
      BY <2>2 DEF Settled, RowsSettled
    <3>3. \A i : IsRow(Row(i))
      BY DEF IsRow, Row
    <3> QED  BY <3>1, <3>2, <3>3 DEF Covering
  <2>4. ReadsPosition(work[q].reads, work[q].writes) => Slack' >= Slack
    BY <2>1 DEF Clashes, ReadsPosition
  <2> QED  BY <2>1, <2>2, <2>3, <2>4, AccountedStays
<1> QED  BY <1>1 DEF Promises, Small

\* So does a step that leaves the tables and what transactions have settled alone,
\* and starts none.
LEMMA AsideKeepsPromises ==
  ASSUME IInv, IInv', Promises, UNCHANGED <<tables, lost, work>>,
         \A q \in Session : pc'[q] = "tx" => pc[q] = "tx"
  PROVE  Promises'
<1>1. Slack' = Slack /\ Slack \in Int
  BY PositionIsCounts DEF Slack, OnHand, tables, IInv
<1>2. ASSUME NEW q \in Session, pc'[q] = "tx"
      PROVE  Accounted(work[q])'
  <2>1. Settled(work[q]) /\ Accounted(work[q]) /\ Safe /\ Safe'
    BY <1>2 DEF IInv, Promises
  <2>2. work'[q] = work[q] /\ \A i \in DOMAIN work[q].rows : resv'[i] = resv[i]
    BY DEF tables
  <2> QED  BY <1>1, <2>1, <2>2, AccountedStays
<1> QED  BY <1>2 DEF Promises, Small, tables

\* And a body that settles what the account allows.
LEMMA RunKeepsPromises ==
  ASSUME IInv, IInv', Promises, NEW p \in Session, NEW STATE w, Accounted(w), Run(p, w)
  PROVE  Promises'
<1>1. Slack' = Slack /\ Slack \in Int
  BY PositionIsCounts DEF Slack, OnHand, Run, tables, IInv
<1>2. /\ work' = [q \in Session |-> IF q = p THEN w ELSE work[q]]
      /\ \A q \in Session : q # p => pc'[q] = pc[q]
  BY DEF IInv, Run, Safe, TypeOK
<1>3. ASSUME NEW q \in Session, pc'[q] = "tx", q # p
      PROVE  Accounted(work[q])'
  <2>1. Settled(work[q]) /\ Accounted(work[q]) /\ Safe /\ Safe'
    BY <1>2, <1>3 DEF IInv, Promises
  <2>2. work'[q] = work[q] /\ \A i \in DOMAIN work[q].rows : resv'[i] = resv[i]
    BY <1>2, <1>3 DEF Run, tables
  <2> QED  BY <1>1, <2>1, <2>2, AccountedStays
<1>4. Accounted(work[p])'
  <2>1. work'[p] = w /\ UNCHANGED <<resv, stock, lost>>
    BY <1>2 DEF Run, tables
  <2>2. Accounted(work'[p])
    BY <2>1
  <2> QED  BY <2>1, <2>2 DEF Accounted, Effect, Guarded, ReadsPosition, Pledged, Brought, OnHand,
                             Small, Qty, Position, Shelf, HeldBy
<1> QED  BY <1>3, <1>4 DEF Promises, Small, Run, tables

-----------------------------------------------------------------------------
(* What a body settles, in terms of the account *)

\* A transaction that moves no stock brings nothing, one that moves some at one
\* location brings that.
LEMMA NoMovement ==
  ASSUME NEW w, w.moved = [l \in Location |-> 0]
  PROVE  Brought(w) = 0
<1>1. \A l \in Location : w.moved[l] = 0
  OBVIOUS
<1> QED  BY <1>1, SumZero, LocationAssumption DEF Brought

LEMMA OneMovement ==
  ASSUME NEW w, NEW l \in Location, NEW signed \in Int,
         \A x \in Location : w.moved[x] = IF x = l THEN signed ELSE 0
  PROVE  Brought(w) = signed
<1> DEFINE f == w.moved
           S == {l}
<1>1. /\ S \in SUBSET Location /\ f[l] = signed
      /\ \A x \in S : f[x] \in Int
      /\ \A x \in Location : f[x] = IF x \in S THEN f[x] ELSE 0
  OBVIOUS
<1>2. SumFunctionOnSet(f, S) = f[l]
  <2> HIDE DEF f
  <2> QED  BY <1>1, SumOne
<1>3. SumFunctionOnSet(f, Location) = SumFunctionOnSet(f, S)
  <2> HIDE DEF f, S
  <2> QED  BY <1>1, SumRestricted, LocationAssumption
<1> QED  BY <1>1, <1>2, <1>3 DEF Brought

\* What a transaction pledges that changes one row, or adds one.
LEMMA OneRowPledged ==
  ASSUME NEW w, NEW i, NEW r, DOMAIN w.rows = {i}, w.rows[i] = r, w.add = <<>>,
         Held(r) \in Int, Held(resv[i]) \in Int
  PROVE  Pledged(w) = Held(r) - Held(resv[i])
<1> DEFINE gain == [j \in DOMAIN w.rows |-> Held(w.rows[j]) - Held(resv[j])]
<1>1. DOMAIN w.rows = {i} /\ gain[i] = Held(r) - Held(resv[i]) /\ gain[i] \in Int
  OBVIOUS
<1>2. Pledged(w) = SumFunctionOnSet(gain, DOMAIN w.rows) + 0
  BY DEF Pledged
<1> HIDE DEF gain
<1>3. SumFunctionOnSet(gain, {i}) = gain[i]
  BY <1>1, SumOne
<1>4. SumFunctionOnSet(gain, DOMAIN w.rows) = gain[i]
  BY <1>1, <1>3, Zenon
<1> QED  BY <1>1, <1>2, <1>4

LEMMA NewRowPledged ==
  ASSUME NEW w, DOMAIN w.rows = {}, NEW r, w.add = <<r>>, Held(r) \in Int
  PROVE  Pledged(w) = Held(r)
<1> DEFINE gain == [j \in DOMAIN w.rows |-> Held(w.rows[j]) - Held(resv[j])]
<1>1. Pledged(w) = SumFunctionOnSet(gain, DOMAIN w.rows) + Held(r)
  BY DEF Pledged
<1> HIDE DEF gain
<1>2. SumFunctionOnSet(gain, DOMAIN w.rows) = 0
  BY SumEmpty, Zenon
<1> QED  BY <1>1, <1>2

\* What one row holds, and what it holds once it is drawn or given back.
LEMMA HeldIs ==
  ASSUME NEW r \in Reservation, WellDrawn(r)
  PROVE  Held(r) = IF r.status = "ACTIVE" THEN r.qty - r.consumed ELSE 0
<1>1. r.qty - r.consumed \in Nat
  BY DEF Reservation, WellDrawn
<1>2. Outstanding(r) = r.qty - r.consumed
  BY <1>1, MaxOfTwo DEF Outstanding
<1> QED  BY <1>2 DEF Held

LEMMA DrawnHolds ==
  ASSUME NEW r \in Reservation, WellDrawn(r), NEW g \in Nat, g > 0, g <= Held(r)
  PROVE  Held(Moved(r, 1 * g)) = Held(r) - g /\ Moved(r, 1 * g).qty = r.qty
<1> DEFINE m == Moved(r, 1 * g)
<1>1. r.status = "ACTIVE" /\ Held(r) = r.qty - r.consumed
  BY HeldIs, HeldIsWithin
<1>2. r.qty \in Nat /\ r.consumed \in Nat /\ 1 * g = g
  BY DEF Reservation
<1>3. m \in Reservation /\ WellDrawn(m)
  <2>1. m \in Reservation
    BY <1>2, MovedRow
  <2> QED  BY <1>1, <1>2, <2>1 DEF Moved, WellDrawn, Reservation
<1>4. /\ m.qty = r.qty /\ m.consumed = r.consumed + g
      /\ m.status = IF r.consumed + g >= r.qty THEN "FULFILLED" ELSE "ACTIVE"
  BY <1>2 DEF Moved, Reservation
<1> HIDE DEF m
<1>5. Held(m) = IF m.status = "ACTIVE" THEN m.qty - m.consumed ELSE 0
  BY <1>3, HeldIs
<1>6. Held(m) = Held(r) - g
  BY <1>1, <1>2, <1>4, <1>5
<1> QED  BY <1>4, <1>6 DEF m

LEMMA RestoredHolds ==
  ASSUME NEW r \in Reservation, WellDrawn(r), r.status \in {"ACTIVE", "FULFILLED"},
         NEW g \in Nat, g > 0, g <= r.consumed
  PROVE  Held(Moved(r, (-1) * g)) = Held(r) + g /\ Moved(r, (-1) * g).qty = r.qty
<1> DEFINE m == Moved(r, (-1) * g)
<1>1. Held(r) = r.qty - r.consumed
  BY HeldIs DEF WellDrawn, Reservation
<1>2. r.qty \in Nat /\ r.consumed \in Nat /\ (-1) * g = -g /\ r.consumed <= r.qty
  BY DEF Reservation, WellDrawn
<1>3. m \in Reservation /\ WellDrawn(m)
  <2>1. m \in Reservation
    BY <1>2, MovedRow
  <2> QED  BY <1>2, <2>1 DEF Moved, WellDrawn, Reservation
<1>4. m.qty = r.qty /\ m.consumed = r.consumed - g /\ m.status = "ACTIVE"
  BY <1>2 DEF Moved, Reservation
<1> HIDE DEF m
<1>5. Held(m) = m.qty - m.consumed
  BY <1>3, <1>4, HeldIs
<1>6. Held(m) = Held(r) + g
  BY <1>1, <1>2, <1>4, <1>5
<1> QED  BY <1>4, <1>6 DEF m

\* What a plan moves altogether is what it moves of the rows it hits.
LEMMA PlanSum ==
  ASSUME Safe, NEW plan \in [DOMAIN resv -> Nat]
  PROVE  /\ IsFiniteSet(Hit(plan))
         /\ SumFunction(plan) = SumFunctionOnSet(plan, Hit(plan))
         /\ SumFunction(plan) \in Nat
<1> DEFINE D == DOMAIN resv
           S == Hit(plan)
<1>1. IsFiniteSet(D) /\ DOMAIN plan = D /\ \A i \in D : plan[i] \in Nat
  BY RowsAreFinite DEF Safe, TypeOK
<1>2. S \in SUBSET D /\ (\A i \in S : plan[i] \in Int)
      /\ \A i \in D : plan[i] = IF i \in S THEN plan[i] ELSE 0
  BY <1>1 DEF Hit
<1>3. IsFiniteSet(S)
  BY <1>1, <1>2, FS_Subset
<1> HIDE DEF D, S
<1>4. SumFunctionOnSet(plan, D) = SumFunctionOnSet(plan, S)
  BY <1>1, <1>2, SumRestricted
<1>5. SumFunctionOnSet(plan, D) \in Nat
  BY <1>1, SumIsNat
<1> QED  BY <1>1, <1>3, <1>4, <1>5 DEF SumFunction, S

\* A plan that pours at most q out of rows that can give so much pours no more
\* than q, and all of it if they can.
LEMMA PouredPart ==
  ASSUME Safe, NEW q \in Nat, NEW plan \in [DOMAIN resv -> Nat], NEW cap \in [DOMAIN resv -> Nat],
         NEW rank, Poured(cap, rank, q, plan)
  PROVE  SumFunction(plan) = Min({q, SumFunction(cap)}) /\ SumFunction(plan) \in 0 .. q
<1>1. SumFunction(cap) \in Nat
  BY PlanSum
<1>2. SumFunction(plan) = Min({q, SumFunction(cap)})
  BY DEF Poured
<1>3. Min({q, SumFunction(cap)}) = IF q <= SumFunction(cap) THEN q ELSE SumFunction(cap)
  <2> DEFINE s == SumFunction(cap)
  <2>1. s \in Int /\ q \in Int
    BY <1>1
  <2> HIDE DEF s
  <2>2. Min({q, s}) = IF q <= s THEN q ELSE s
    BY <2>1, MinOfTwo
  <2> QED  BY <2>2 DEF s
<1> QED  BY <1>1, <1>2, <1>3

\* Drawing by a plan takes off the promises what the plan moves, giving back by
\* one puts it on again; no row grows.
LEMMA DrawPledged ==
  ASSUME Safe, NEW plan \in [DOMAIN resv -> Nat], NEW w, w.add = <<>>,
         DOMAIN w.rows = Hit(plan),
         \A i \in Hit(plan) : w.rows[i] = Moved(resv[i], 1 * plan[i]),
         \A i \in DOMAIN resv : plan[i] <= Held(resv[i])
  PROVE  /\ Pledged(w) = -SumFunction(plan)
         /\ \A i \in DOMAIN w.rows : i \in DOMAIN resv /\ w.rows[i].qty = resv[i].qty
<1> DEFINE S == Hit(plan)
           gain == [i \in DOMAIN w.rows |-> Held(w.rows[i]) - Held(resv[i])]
<1>1. ASSUME NEW i \in S
      PROVE  /\ i \in DOMAIN resv /\ plan[i] \in Int /\ w.rows[i].qty = resv[i].qty
             /\ Held(w.rows[i]) - Held(resv[i]) = -plan[i]
  <2>1. i \in DOMAIN resv /\ plan[i] \in Nat /\ plan[i] > 0 /\ plan[i] <= Held(resv[i])
    BY DEF Hit
  <2>2. resv[i] \in Reservation /\ WellDrawn(resv[i])
    BY <2>1 DEF Safe, TypeOK, ReservationLifecycle
  <2>3. /\ Held(Moved(resv[i], 1 * plan[i])) = Held(resv[i]) - plan[i]
        /\ Moved(resv[i], 1 * plan[i]).qty = resv[i].qty
    BY <2>1, <2>2, DrawnHolds
  <2>4. Held(resv[i]) \in Nat
    BY <2>2, HeldIsWithin
  <2> QED  BY <2>1, <2>3, <2>4
<1>2. DOMAIN w.rows = S /\ \A i \in S : plan[i] \in Int /\ gain[i] = -plan[i]
  BY <1>1
<1>3. Pledged(w) = SumFunctionOnSet(gain, DOMAIN w.rows) + 0
  BY DEF Pledged
<1>4. SumFunctionOnSet(gain, S) = -SumFunctionOnSet(plan, S)
  <2>1. IsFiniteSet(S)
    BY PlanSum
  <2> HIDE DEF gain, S
  <2> QED  BY <1>2, <2>1, SumOpposite
<1>5. SumFunctionOnSet(gain, DOMAIN w.rows) = SumFunctionOnSet(gain, S)
  <2> HIDE DEF gain, S
  <2> QED  BY <1>2, Zenon
<1>6. SumFunctionOnSet(plan, S) \in Nat /\ SumFunctionOnSet(plan, S) = SumFunction(plan)
  BY PlanSum
<1> HIDE DEF gain
<1>7. Pledged(w) = -SumFunction(plan)
  <2> HIDE DEF S
  <2> QED  BY <1>3, <1>4, <1>5, <1>6
<1> QED  BY <1>1, <1>7

LEMMA RestorePledged ==
  ASSUME Safe, NEW plan \in [DOMAIN resv -> Nat], NEW w, w.add = <<>>,
         DOMAIN w.rows = Hit(plan),
         \A i \in Hit(plan) : w.rows[i] = Moved(resv[i], (-1) * plan[i]),
         \A i \in Hit(plan) : /\ resv[i].status \in {"ACTIVE", "FULFILLED"}
                              /\ plan[i] <= resv[i].consumed
  PROVE  /\ Pledged(w) = SumFunction(plan)
         /\ \A i \in DOMAIN w.rows : i \in DOMAIN resv /\ w.rows[i].qty = resv[i].qty
<1> DEFINE S == Hit(plan)
           gain == [i \in DOMAIN w.rows |-> Held(w.rows[i]) - Held(resv[i])]
<1>1. ASSUME NEW i \in S
      PROVE  /\ i \in DOMAIN resv /\ plan[i] \in Int /\ w.rows[i].qty = resv[i].qty
             /\ Held(w.rows[i]) - Held(resv[i]) = plan[i]
  <2>1. i \in DOMAIN resv /\ plan[i] \in Nat /\ plan[i] > 0
    BY DEF Hit
  <2>2. resv[i] \in Reservation /\ WellDrawn(resv[i])
    BY <2>1 DEF Safe, TypeOK, ReservationLifecycle
  <2>3. /\ Held(Moved(resv[i], (-1) * plan[i])) = Held(resv[i]) + plan[i]
        /\ Moved(resv[i], (-1) * plan[i]).qty = resv[i].qty
    BY <2>1, <2>2, RestoredHolds
  <2>4. Held(resv[i]) \in Nat
    BY <2>2, HeldIsWithin
  <2> QED  BY <2>1, <2>3, <2>4
<1>2. DOMAIN w.rows = S /\ \A i \in S : gain[i] = plan[i]
  BY <1>1
<1>3. Pledged(w) = SumFunctionOnSet(gain, DOMAIN w.rows) + 0
  BY DEF Pledged
<1>4. SumFunctionOnSet(gain, S) = SumFunctionOnSet(plan, S)
  <2>1. IsFiniteSet(S)
    BY PlanSum
  <2> HIDE DEF gain, S
  <2> QED  BY <1>2, <2>1, SumSame
<1>5. SumFunctionOnSet(gain, DOMAIN w.rows) = SumFunctionOnSet(gain, S)
  <2> HIDE DEF gain, S
  <2> QED  BY <1>2, Zenon
<1>6. SumFunctionOnSet(plan, S) \in Nat /\ SumFunctionOnSet(plan, S) = SumFunction(plan)
  BY PlanSum
<1> HIDE DEF gain
<1>7. Pledged(w) = SumFunction(plan)
  <2> HIDE DEF S
  <2> QED  BY <1>3, <1>4, <1>5, <1>6
<1> QED  BY <1>1, <1>7

-----------------------------------------------------------------------------
(* Every body settles what the account allows. *)

\* Writing a reservation down keeps the promises: a request holds nothing, and a
\* decider's is within what was free.
LEMMA ReservePromises ==
  ASSUME IInv, Promises, NEW p \in Session, NEW k \in Key, NEW q \in Qty,
         ReserveForOrder(p, k, q)
  PROVE  Promises'
<1> DEFINE status == IF p \in Decider THEN "ACTIVE" ELSE "PENDING"
           same == {i \in DOMAIN resv : KeyOf(resv[i]) = k /\ resv[i].status = status}
           row == [order |-> k[1], line |-> k[2], qty |-> q, consumed |-> 0,
                   status |-> status, by |-> p]
           w == [NoWork EXCEPT !.reads = Position \cup {Asked(k)},
                               !.writes = {IF p \in Decider THEN HeldBy(k[1]) ELSE Asked(k)}]
           fresh == [w EXCEPT !.add = <<row>>]
           more(i) == [w EXCEPT !.writes = @ \cup {Row(i)},
                                !.rows = [j \in {i} |-> [resv[j] EXCEPT !.qty = @ + q]]]
<1>1. /\ q \in Nat /\ q > 0 /\ q <= MaxQty /\ MaxQty \in Nat
      /\ k[1] \in Order /\ k[2] \in Line \cup {NoLine}
  BY BoundAssumption DEF Key, Qty
<1>2. IInv' /\ Safe
  BY ReserveSafe DEF IInv
<1>3. /\ Reserved(resv) \in Nat /\ OnHand \in Nat /\ lost \in Nat
      /\ \A i \in DOMAIN resv : Held(resv[i]) \in Nat
  BY <1>2, PositionIsCounts
<1>4. q <= OnHand - Reserved(resv)
  BY DEF ReserveForOrder, Free, Available
<1>5. ASSUME NEW v, Pledged(v) = (IF p \in Decider THEN q ELSE 0), Brought(v) = 0, v.lost = 0,
             p \in Decider => Position \subseteq v.reads /\ HeldBy(k[1]) \in v.writes
      PROVE  Effect(v)
  <2>1. CASE p \in Decider
    <3>1. Reserved(resv) + Pledged(v) <= OnHand + Brought(v) + lost
      BY <1>1, <1>3, <1>4, <1>5, <2>1
    <3>2. ReadsPosition(v.reads, v.writes)
      BY <1>1, <1>5, <2>1 DEF ReadsPosition, Position
    <3> QED  BY <1>5, <2>1, <3>1, <3>2 DEF Effect, Guarded
  <2>2. CASE p \notin Decider
    BY <1>5, <2>2 DEF Effect
  <2> QED  BY <2>1, <2>2
<1>6. CASE Run(p, fresh)
  <2>1. row \in Reservation /\ WellDrawn(row)
    BY <1>1 DEF Reservation, ReservationStatus, WellDrawn
  <2>2. Held(row) = IF p \in Decider THEN q ELSE 0
    <3>1. Held(row) = IF row.status = "ACTIVE" THEN row.qty - row.consumed ELSE 0
      BY <2>1, HeldIs
    <3> QED  BY <1>1, <3>1
  <2>3. /\ DOMAIN fresh.rows = {} /\ fresh.add = <<row>>
        /\ fresh.moved = [l \in Location |-> 0] /\ fresh.lost = 0
        /\ p \in Decider => Position \subseteq fresh.reads /\ HeldBy(k[1]) \in fresh.writes
    BY DEF NoWork
  <2>4. Pledged(fresh) = Held(row) /\ Brought(fresh) = 0
    <3> DEFINE r == row
               f == fresh
    <3>1. Held(r) \in Int
      BY <1>1, <2>2
    <3>2. DOMAIN f.rows = {} /\ f.add = <<r>> /\ f.moved = [l \in Location |-> 0]
      BY <2>3
    <3> HIDE DEF r, f
    <3>3. Pledged(f) = Held(r) /\ Brought(f) = 0
      BY <3>1, <3>2, NewRowPledged, NoMovement
    <3> QED  BY <3>3 DEF r, f
  <2>5. Effect(fresh)
    BY <1>5, <2>2, <2>3, <2>4
  <2>6. Len(fresh.add) = 1 /\ \A i \in DOMAIN fresh.add : fresh.add[i] = row
    BY <2>3
  <2>7. Accounted(fresh)
    BY <1>1, <2>3, <2>5, <2>6 DEF Accounted, Small
  <2> QED  BY <1>2, <1>6, <2>7, RunKeepsPromises
<1>7. ASSUME NEW i \in same, resv[i].qty + q <= MaxQty, Run(p, more(i))
      PROVE  Promises'
  <2> DEFINE r == resv[i]
             s == [r EXCEPT !.qty = @ + q]
  <2>1. r \in Reservation /\ WellDrawn(r)
    BY <1>2 DEF Safe, TypeOK, ReservationLifecycle
  <2>2. s \in Reservation /\ WellDrawn(s)
    BY <1>1, <2>1 DEF Reservation, WellDrawn
  <2>3. Held(s) - Held(r) = IF p \in Decider THEN q ELSE 0
    <3>1. /\ r.qty \in Nat /\ r.consumed \in Nat /\ r.status = status
          /\ s.qty = r.qty + q /\ s.consumed = r.consumed /\ s.status = r.status
      BY <1>1, <2>1 DEF Reservation
    <3>2. /\ Held(r) = IF r.status = "ACTIVE" THEN r.qty - r.consumed ELSE 0
          /\ Held(s) = IF s.status = "ACTIVE" THEN s.qty - s.consumed ELSE 0
      BY <2>1, <2>2, HeldIs
    <3> QED  BY <1>1, <3>1, <3>2
  <2>4. /\ more(i).rows = [j \in {i} |-> s] /\ more(i).add = <<>>
        /\ more(i).moved = [l \in Location |-> 0] /\ more(i).lost = 0
        /\ p \in Decider => Position \subseteq more(i).reads /\ HeldBy(k[1]) \in more(i).writes
    BY DEF NoWork
  <2>5. s.qty <= MaxQty
    BY <1>7, <2>1 DEF Reservation
  <2>6. Pledged(more(i)) = Held(s) - Held(r) /\ Brought(more(i)) = 0
    <3> DEFINE f == more(i)
    <3>1. Held(s) \in Int /\ Held(resv[i]) \in Int
      BY <2>1, <2>2, HeldIsWithin
    <3>2. /\ DOMAIN f.rows = {i} /\ f.rows[i] = s /\ f.add = <<>>
          /\ f.moved = [l \in Location |-> 0]
      BY <2>4
    <3> HIDE DEF f, s, r, same, more, fresh, w, row
    <3>3. Pledged(f) = Held(s) - Held(resv[i])
      BY <3>1, <3>2, OneRowPledged
    <3>4. Brought(f) = 0
      BY <3>2, NoMovement
    <3> QED  BY <3>3, <3>4 DEF f, r
  <2>7. Effect(more(i))
    BY <1>5, <2>3, <2>4, <2>6
  <2>8. Accounted(more(i))
    <3> DEFINE f == more(i)
    <3>1. f.rows = [j \in {i} |-> s] /\ f.add = <<>> /\ Effect(f)
      BY <2>4, <2>7
    <3> HIDE DEF f, s, r, same, more, fresh, w, row
    <3> QED  BY <2>5, <3>1 DEF Accounted, Small, f
  <2> QED  BY <1>2, <1>7, <2>8, RunKeepsPromises
<1> QED  BY <1>6, <1>7 DEF ReserveForOrder

\* A decision does: accepting checks again what is free.
LEMMA DecidePromises ==
  ASSUME IInv, Promises, NEW p \in Session, NEW i \in DOMAIN resv, NEW accept \in BOOLEAN,
         DecideReservation(p, i, accept)
  PROVE  Promises'
<1> DEFINE r == resv[i]
           to == IF accept THEN "ACTIVE" ELSE "REJECTED"
           s == [r EXCEPT !.status = to]
           w == [NoWork EXCEPT
                   !.reads = Position \cup {Row(i)},
                   !.writes = {Row(i), Asked(KeyOf(r))}
                                \cup (IF accept THEN {HeldBy(r.order)} ELSE {}),
                   !.rows = [j \in {i} |-> [resv[j] EXCEPT !.status = to]]]
<1>1. IInv' /\ Safe /\ Small(r)
  BY DecideSafe DEF IInv, Promises
<1>2. r \in Reservation /\ WellDrawn(r) /\ r.status = "PENDING"
  BY <1>1 DEF DecideReservation, Safe, TypeOK, ReservationLifecycle
<1>3. r.qty \in Nat /\ r.qty > 0 /\ r.consumed = 0 /\ r.order \in Order
  BY <1>2 DEF Reservation, WellDrawn
<1>4. s \in Reservation /\ WellDrawn(s) /\ s.qty = r.qty /\ s.consumed = 0 /\ s.status = to
  BY <1>2, <1>3 DEF Reservation, ReservationStatus, WellDrawn
<1>5. Held(s) = (IF accept THEN r.qty ELSE 0) /\ Held(r) = 0
  <2>1. /\ Held(r) = IF r.status = "ACTIVE" THEN r.qty - r.consumed ELSE 0
        /\ Held(s) = IF s.status = "ACTIVE" THEN s.qty - s.consumed ELSE 0
    BY <1>2, <1>4, HeldIs
  <2> QED  BY <1>2, <1>3, <1>4, <2>1
<1>6. /\ w.rows = [j \in {i} |-> s] /\ w.add = <<>>
      /\ w.moved = [l \in Location |-> 0] /\ w.lost = 0
      /\ Position \subseteq w.reads /\ (accept => HeldBy(r.order) \in w.writes)
  BY DEF NoWork
<1>7. Pledged(w) = (IF accept THEN r.qty ELSE 0) /\ Brought(w) = 0
  <2> DEFINE f == w
  <2>1. Held(s) \in Int /\ Held(resv[i]) \in Int /\ Held(s) - Held(resv[i]) = Held(s)
    BY <1>3, <1>5
  <2>2. /\ DOMAIN f.rows = {i} /\ f.rows[i] = s /\ f.add = <<>>
        /\ f.moved = [l \in Location |-> 0]
    BY <1>6
  <2> HIDE DEF f, s
  <2>3. Pledged(f) = Held(s) - Held(resv[i]) /\ Brought(f) = 0
    BY <2>1, <2>2, OneRowPledged, NoMovement
  <2> QED  BY <1>5, <2>1, <2>3 DEF f
<1>8. Effect(w)
  <2>1. CASE accept
    <3>1. r.qty <= OnHand - Reserved(resv)
      BY <2>1 DEF DecideReservation, Free, Available
    <3>2. Reserved(resv) \in Nat /\ OnHand \in Nat /\ lost \in Nat
      BY <1>1, PositionIsCounts
    <3>3. Reserved(resv) + Pledged(w) <= OnHand + Brought(w) + lost
      BY <1>3, <1>7, <2>1, <3>1, <3>2
    <3>4. ReadsPosition(w.reads, w.writes)
      BY <1>3, <1>6, <2>1 DEF ReadsPosition, Position
    <3>5. r.qty \in Qty
      BY <1>1, <1>3, BoundAssumption DEF Small, Qty
    <3> QED  BY <1>6, <1>7, <2>1, <3>3, <3>4, <3>5 DEF Effect, Guarded
  <2>2. CASE ~accept
    BY <1>6, <1>7, <2>2 DEF Effect
  <2> QED  BY <2>1, <2>2
<1>9. Accounted(w)
  <2>1. s.qty <= MaxQty
    BY <1>1, <1>4 DEF Small
  <2> HIDE DEF w, s, r
  <2> QED  BY <1>6, <1>8, <2>1 DEF Accounted, Small
<1>10. Run(p, w)
  BY DEF DecideReservation
<1> QED  BY <1>1, <1>9, <1>10, RunKeepsPromises

\* What each row may give is a count.
LEMMA DrawableCounts ==
  ASSUME Safe, NEW cap, DOMAIN cap = DOMAIN resv, cap = [i \in DOMAIN resv |-> cap[i]],
         \A i \in DOMAIN resv : cap[i] \in {0, Held(resv[i])}
  PROVE  /\ cap \in [DOMAIN resv -> Nat] /\ SumFunction(cap) \in Nat
         /\ \A i \in DOMAIN resv : Held(resv[i]) \in Nat
<1>1. \A i \in DOMAIN resv : cap[i] \in Nat /\ Held(resv[i]) \in Nat
  BY PositionIsCounts
<1>2. cap \in [DOMAIN resv -> Nat]
  BY <1>1
<1> QED  BY <1>1, <1>2, PlanSum

\* A plan is a count for each row.
LEMMA PlanIsCounts ==
  ASSUME NEW q \in Nat, NEW plan \in Plan(q)
  PROVE  plan \in [DOMAIN resv -> Nat]
<1>1. 0 .. q \subseteq Nat
  OBVIOUS
<1> QED  BY <1>1 DEF Plan

\* What the movement of an order writes.
LEMMA OrderWorkIs ==
  ASSUME NEW k, NEW l \in Location, NEW signed \in Int, NEW plan, NEW sign, NEW figure
  PROVE  LET w == OrderWork(k, l, signed, plan, sign, figure)
         IN  /\ DOMAIN w.rows = Hit(plan)
             /\ \A i \in Hit(plan) : w.rows[i] = Moved(resv[i], sign * plan[i])
             /\ w.add = <<>> /\ w.lost = 0
             /\ \A x \in Location : w.moved[x] = IF x = l THEN signed ELSE 0
             /\ Shelf(l) \in w.writes
BY DEF OrderWork, MovementWork, NoWork, Only

\* Rows a transaction draws or restores stay small.
LEMMA SameRowsSmall ==
  ASSUME Promises, NEW w, w.add = <<>>, Effect(w),
         \A i \in DOMAIN w.rows : i \in DOMAIN resv /\ w.rows[i].qty = resv[i].qty
  PROVE  Accounted(w)
BY DEF Accounted, Promises, Small

\* An issue keeps the promises: what its reservations do not cover is free.
LEMMA IssuePromises ==
  ASSUME IInv, Promises, NEW p \in Session, NEW k \in Key, NEW l \in Location, NEW q \in Qty,
         IssueToProduction(p, k, l, q)
  PROVE  Promises'
<1> DEFINE cap == [i \in DOMAIN resv |-> IF InScope(resv[i], k[1], k[2]) THEN Held(resv[i]) ELSE 0]
           age == [i \in DOMAIN resv |-> i]
           figure == IF k[2] = NoLine THEN 0 ELSE issued[k[2]] + q
           m(plan) == OrderWork(k, l, -q, plan, 1, figure)
           w(plan) == [m(plan) EXCEPT !.reads = @ \cup Position]
<1>1. IInv' /\ Safe
  BY IssueSafe DEF IInv
<1>2. q \in Nat /\ -q \in Int
  BY BoundAssumption DEF Qty
<1>3. q - Min({q, SumFunction(cap)}) <= OnHand - Reserved(resv)
  BY DEF IssueToProduction, Free, Available
<1>4. PICK plan \in Plan(q) : Poured(cap, age, q, plan) /\ Run(p, w(plan))
  BY Zenon DEF IssueToProduction
<1>5. /\ DOMAIN cap = DOMAIN resv /\ cap = [i \in DOMAIN resv |-> cap[i]]
      /\ \A i \in DOMAIN resv : cap[i] \in {0, Held(resv[i])} /\ plan[i] <= cap[i]
  BY <1>4 DEF Poured
<1>6. /\ DOMAIN w(plan).rows = Hit(plan)
      /\ \A i \in Hit(plan) : w(plan).rows[i] = Moved(resv[i], 1 * plan[i])
      /\ w(plan).add = <<>> /\ w(plan).lost = 0
      /\ \A x \in Location : w(plan).moved[x] = IF x = l THEN -q ELSE 0
      /\ Shelf(l) \in w(plan).writes /\ Position \subseteq w(plan).reads
  <2>1. \A v : LET u == [v EXCEPT !.reads = @ \cup Position]
               IN  /\ u.rows = v.rows /\ u.add = v.add /\ u.lost = v.lost
                   /\ u.moved = v.moved /\ u.writes = v.writes
    OBVIOUS
  <2>2. Position \subseteq w(plan).reads
    BY DEF OrderWork, MovementWork, NoWork
  <2>3. /\ DOMAIN m(plan).rows = Hit(plan)
        /\ \A i \in Hit(plan) : m(plan).rows[i] = Moved(resv[i], 1 * plan[i])
        /\ m(plan).add = <<>> /\ m(plan).lost = 0
        /\ \A x \in Location : m(plan).moved[x] = IF x = l THEN -q ELSE 0
        /\ Shelf(l) \in m(plan).writes
    <3> HIDE DEF cap, age, figure
    <3> QED  BY <1>2, OrderWorkIs
  <2> HIDE DEF m
  <2> QED  BY <2>2, <2>3
<1> DEFINE v == w(plan)
<1> HIDE DEF cap, w, m, figure, age
<1>7. plan \in [DOMAIN resv -> Nat] /\ cap \in [DOMAIN resv -> Nat]
      /\ \A i \in DOMAIN resv : Held(resv[i]) \in Nat
  BY <1>1, <1>2, <1>5, PlanIsCounts, DrawableCounts
<1>8. SumFunction(plan) = Min({q, SumFunction(cap)}) /\ SumFunction(plan) \in 0 .. q
  BY <1>1, <1>2, <1>4, <1>7, PouredPart
<1>9. \A i \in DOMAIN resv : plan[i] <= Held(resv[i])
  <2>1. \A i \in DOMAIN resv : plan[i] \in Nat
    BY <1>7
  <2> QED  BY <1>5, <1>7, <2>1
<1> HIDE DEF v
<1>10. Pledged(v) = -SumFunction(plan)
       /\ \A i \in DOMAIN v.rows : i \in DOMAIN resv /\ v.rows[i].qty = resv[i].qty
  <2>1. v.add = <<>> /\ DOMAIN v.rows = Hit(plan)
        /\ \A i \in Hit(plan) : v.rows[i] = Moved(resv[i], 1 * plan[i])
    BY <1>6 DEF v
  <2> QED  BY <1>1, <1>7, <1>9, <2>1, DrawPledged
<1>11. Brought(v) = -q
  <2>1. \A x \in Location : v.moved[x] = IF x = l THEN -q ELSE 0
    BY <1>6 DEF v
  <2> QED  BY <1>2, <2>1, OneMovement
<1>12. Guarded(v)
  <2> DEFINE d == SumFunction(plan)
             a == Reserved(resv)
             b == OnHand
  <2>1. a \in Nat /\ b \in Nat /\ lost \in Nat
    BY <1>1, PositionIsCounts
  <2>2. d \in Nat /\ q - d <= b - a
    BY <1>3, <1>8
  <2> HIDE DEF d, a, b
  <2>3. a + (-d) <= b + (-q) + lost
    BY <1>2, <2>1, <2>2
  <2>4. ReadsPosition(v.reads, v.writes)
    BY <1>6 DEF ReadsPosition, Position, v
  <2> QED  BY <1>10, <1>11, <2>3, <2>4 DEF Guarded, a, b, d
<1>13. Effect(v)
  <2>1. v.lost = 0
    BY <1>6 DEF v
  <2> QED  BY <1>8, <1>10, <1>11, <1>12, <2>1 DEF Effect
<1>14. Accounted(v)
  <2>1. v.add = <<>>
    BY <1>6 DEF v
  <2> QED  BY <1>10, <1>13, <2>1, SameRowsSmall
<1>15. Run(p, v)
  BY <1>4 DEF v
<1> QED  BY <1>1, <1>14, <1>15, RunKeepsPromises

\* A return does: what it puts back on promises it puts back on the shelf.
LEMMA ReturnPromises ==
  ASSUME IInv, Promises, NEW p \in Session, NEW k \in Key, NEW l \in Location, NEW q \in Qty,
         ReturnFromProduction(p, k, l, q)
  PROVE  Promises'
<1> DEFINE drawn(r) == ~done[k[1]] /\ InScope(r, k[1], k[2]) /\ r.status \in {"ACTIVE", "FULFILLED"}
           cap == [i \in DOMAIN resv |-> IF drawn(resv[i]) THEN resv[i].consumed ELSE 0]
           general == [i \in DOMAIN resv |-> IF resv[i].line = NoLine THEN 1 ELSE 0]
           figure == IF k[2] = NoLine THEN 0 ELSE IssuedAfterReturn(k[2], q)
           reads == {OutFor(k[1])} \cup (IF done[k[1]] THEN {} ELSE {HeldBy(k[1])})
           m(plan) == OrderWork(k, l, q, plan, -1, figure)
           w(plan) == [m(plan) EXCEPT !.reads = @ \cup reads]
<1>1. IInv' /\ Safe
  BY ReturnSafe DEF IInv
<1>2. q \in Nat /\ q \in Int
  BY BoundAssumption DEF Qty
<1>3. PICK plan \in Plan(q) : Poured(cap, general, q, plan) /\ Run(p, w(plan))
  BY Zenon DEF ReturnFromProduction
<1>4. plan \in [DOMAIN resv -> Nat]
  BY <1>2, PlanIsCounts
<1>5. cap \in [DOMAIN resv -> Nat]
  <2>1. \A i \in DOMAIN resv : resv[i] \in Reservation
    BY <1>1 DEF Safe, TypeOK
  <2>2. \A i \in DOMAIN resv : resv[i].consumed \in Nat
    BY <2>1 DEF Reservation
  <2> QED  BY <2>2
<1>6. \A i \in Hit(plan) : /\ resv[i].status \in {"ACTIVE", "FULFILLED"}
                           /\ plan[i] <= resv[i].consumed
  <2> SUFFICES ASSUME NEW i \in Hit(plan)
               PROVE  /\ resv[i].status \in {"ACTIVE", "FULFILLED"}
                      /\ plan[i] <= resv[i].consumed
    OBVIOUS
  <2>1. i \in DOMAIN resv /\ plan[i] > 0 /\ plan[i] \in 0 .. q
    BY DEF Hit, Plan
  <2>2. plan[i] <= cap[i]
    BY <1>3, <2>1 DEF Poured
  <2> QED  BY <2>1, <2>2
<1>7. /\ DOMAIN w(plan).rows = Hit(plan)
      /\ \A i \in Hit(plan) : w(plan).rows[i] = Moved(resv[i], (-1) * plan[i])
      /\ w(plan).add = <<>> /\ w(plan).lost = 0
      /\ \A x \in Location : w(plan).moved[x] = IF x = l THEN q ELSE 0
  <2>1. /\ DOMAIN m(plan).rows = Hit(plan)
        /\ \A i \in Hit(plan) : m(plan).rows[i] = Moved(resv[i], (-1) * plan[i])
        /\ m(plan).add = <<>> /\ m(plan).lost = 0
        /\ \A x \in Location : m(plan).moved[x] = IF x = l THEN q ELSE 0
    <3>1. PICK sign : sign = -1
      OBVIOUS
    <3>2. m(plan) = OrderWork(k, l, q, plan, sign, figure)
      BY <3>1
    <3> HIDE DEF cap, general, figure, m
    <3>3. /\ DOMAIN m(plan).rows = Hit(plan)
          /\ \A i \in Hit(plan) : m(plan).rows[i] = Moved(resv[i], sign * plan[i])
          /\ m(plan).add = <<>> /\ m(plan).lost = 0
          /\ \A x \in Location : m(plan).moved[x] = IF x = l THEN q ELSE 0
      BY <1>2, <3>2 DEF OrderWork, MovementWork, NoWork, Only
    <3> QED  BY <3>1, <3>3
  <2> HIDE DEF m
  <2> QED  BY <2>1
<1> DEFINE v == w(plan)
<1> HIDE DEF cap, w, m, figure, general, reads
<1>8. SumFunction(plan) \in 0 .. q
  BY <1>1, <1>2, <1>3, <1>4, <1>5, PouredPart
<1>9. /\ v.add = <<>> /\ v.lost = 0
      /\ DOMAIN v.rows = Hit(plan)
      /\ \A i \in Hit(plan) : v.rows[i] = Moved(resv[i], (-1) * plan[i])
      /\ \A x \in Location : v.moved[x] = IF x = l THEN q ELSE 0
  BY <1>7
<1>10. Run(p, v)
  BY <1>3
<1> HIDE DEF v
<1>11. Pledged(v) = SumFunction(plan)
       /\ \A i \in DOMAIN v.rows : i \in DOMAIN resv /\ v.rows[i].qty = resv[i].qty
  BY <1>1, <1>4, <1>6, <1>9, RestorePledged
<1>12. Brought(v) = q
  BY <1>2, <1>9, OneMovement
<1>13. Effect(v)
  BY <1>8, <1>9, <1>11, <1>12 DEF Effect
<1> QED  BY <1>1, <1>9, <1>11, <1>13, <1>10, SameRowsSmall, RunKeepsPromises

\* A write-off does: what reservations do not carry of it is on record.
LEMMA WastagePromises ==
  ASSUME IInv, Promises, NEW p \in Session, NEW k, NEW l \in Location, NEW q \in Qty,
         RecordWastage(p, k, l, q)
  PROVE  Promises'
<1> DEFINE o == k[1]
           carries(r) == r.order = o /\ (k[2] = NoLine \/ InScope(r, o, k[2]))
           cap == [i \in DOMAIN resv |-> IF carries(resv[i]) THEN Held(resv[i]) ELSE 0]
           rank == [i \in DOMAIN resv |->
                     IF k[2] = NoLine /\ resv[i].line # NoLine THEN Len(resv) + i ELSE i]
           more == IF o = NoOrder THEN {} ELSE {HeldBy(o)}
           w(plan, beyond) ==
             [MovementWork(o, l, -q, plan, 1) EXCEPT !.reads = @ \cup more, !.lost = beyond]
<1>1. IInv' /\ Safe
  BY WastageSafe DEF IInv
<1>2. q \in Nat /\ -q \in Int
  BY BoundAssumption DEF Qty
<1>3. PICK plan \in Plan(q), beyond \in 0 .. q :
        Poured(cap, rank, q, plan) /\ SumFunction(plan) + beyond = q /\ Run(p, w(plan, beyond))
  BY Zenon DEF RecordWastage
<1>4. /\ DOMAIN cap = DOMAIN resv /\ cap = [i \in DOMAIN resv |-> cap[i]]
      /\ \A i \in DOMAIN resv : cap[i] \in {0, Held(resv[i])} /\ plan[i] <= cap[i]
  BY <1>3 DEF Poured
<1> DEFINE v == w(plan, beyond)
<1>5. /\ DOMAIN v.rows = Hit(plan)
      /\ \A i \in Hit(plan) : v.rows[i] = Moved(resv[i], 1 * plan[i])
      /\ v.add = <<>> /\ v.lost = beyond
      /\ \A x \in Location : v.moved[x] = IF x = l THEN -q ELSE 0
  BY DEF MovementWork, NoWork, Only
<1>6. Run(p, v)
  BY <1>3
<1> HIDE DEF cap, w, rank, more, v
<1>7. plan \in [DOMAIN resv -> Nat] /\ cap \in [DOMAIN resv -> Nat]
      /\ \A i \in DOMAIN resv : Held(resv[i]) \in Nat
  BY <1>1, <1>2, <1>4, PlanIsCounts, DrawableCounts
<1>8. SumFunction(plan) \in 0 .. q
  BY <1>1, <1>2, <1>3, <1>7, PouredPart
<1>9. \A i \in DOMAIN resv : plan[i] <= Held(resv[i])
  <2>1. \A i \in DOMAIN resv : plan[i] \in Nat
    BY <1>7
  <2> QED  BY <1>4, <1>7, <2>1
<1>10. Pledged(v) = -SumFunction(plan)
      /\ \A i \in DOMAIN v.rows : i \in DOMAIN resv /\ v.rows[i].qty = resv[i].qty
  BY <1>1, <1>5, <1>7, <1>9, DrawPledged
<1>11. Brought(v) = -q
  BY <1>2, <1>5, OneMovement
<1>12. Effect(v)
  <2> DEFINE d == SumFunction(plan)
  <2>1. v.lost = q - d
    <3>1. d \in 0 .. q /\ d + beyond = q /\ v.lost = beyond /\ beyond \in 0 .. q
      BY <1>3, <1>5, <1>8
    <3> HIDE DEF d
    <3> QED  BY <1>2, <3>1
  <2> QED  BY <1>8, <1>10, <1>11, <2>1 DEF Effect
<1> QED  BY <1>1, <1>5, <1>10, <1>12, <1>6, SameRowsSmall, RunKeepsPromises

-----------------------------------------------------------------------------
(* Every step is one of the account's. *)

AccountStep == [Account!Next]_(Account!vars)

\* A step that leaves the account's figures alone is none of its steps.
LEMMA AccountIdle ==
  ASSUME OnHand' = OnHand, Reserved(resv') = Reserved(resv), lost' = lost
  PROVE  AccountStep
BY DEF AccountStep, Account!vars

\* A commit is the step its transaction settled on.
LEMMA CommitPromises ==
  ASSUME IInv, Promises, NEW p \in Session, Commit(p)
  PROVE  Promises' /\ AccountStep
<1> DEFINE w == work[p]
<1>1. IInv' /\ Safe /\ Safe'
  BY CommitSafe DEF IInv
<1>2. Settled(w) /\ Accounted(w) /\ Committed(p, "idle", w.reads, w.writes)
  BY DEF IInv, Promises, Commit
<1>3. /\ OnHand' = OnHand + Brought(w)
      /\ Reserved(resv') = Reserved(resv) + Pledged(w)
      /\ lost' = lost + w.lost
  BY <1>2, CommitAccount DEF Accounted
<1>4. /\ Reserved(resv) \in Nat /\ OnHand \in Nat /\ lost \in Nat
      /\ Reserved(resv') \in Nat /\ OnHand' \in Nat /\ lost' \in Nat
  BY <1>1, PositionIsCounts, PositionStaysCounts
<1>5. \A i \in DOMAIN resv' : Small(resv'[i])
  <2>1. ASSUME NEW i \in DOMAIN resv', i <= Len(resv)
        PROVE  i \in DOMAIN resv
    <3>1. /\ Len(resv) \in Nat /\ DOMAIN resv = 1 .. Len(resv)
          /\ Len(resv') \in Nat /\ DOMAIN resv' = 1 .. Len(resv')
      BY <1>1 DEF Safe, TypeOK
    <3> QED  BY <2>1, <3>1
  <2>2. \A i \in DOMAIN resv : Small(resv'[i])
    BY <1>2, CommittedRows DEF Promises, Accounted
  <2>3. \A i \in DOMAIN resv' : i > Len(resv) => Small(resv'[i])
    BY <1>2, CommittedRows DEF Accounted
  <2>4. \A i \in DOMAIN resv' : i <= Len(resv) \/ i > Len(resv)
    BY <1>1 DEF Safe, TypeOK
  <2> QED  BY <2>1, <2>2, <2>3, <2>4
<1>6. Covering(w.reads, w.writes)
  BY CommitCovers
<1> DEFINE a == Reserved(resv)
           b == OnHand
           c == Reserved(resv')
           d == OnHand'
           P == Pledged(w)
           B == Brought(w)
<1>7. /\ a \in Nat /\ b \in Nat /\ c \in Nat /\ d \in Nat
      /\ d = b + B /\ c = a + P
  BY <1>3, <1>4
<1>8. Slack = b + lost - a /\ Slack' = d + lost' - c
  BY DEF Slack
<1>9. (Slack' >= Slack \/ ReadsPosition(w.reads, w.writes)) /\ AccountStep
  <2>1. CASE Pledged(w) = 0 /\ Brought(w) = 0 /\ w.lost = 0
    <3>1. d = b /\ c = a /\ lost' = lost
      <4> HIDE DEF a, b, c, d
      <4> QED  BY <1>3, <1>4, <1>7, <2>1
    <3>2. Slack' >= Slack
      <4> HIDE DEF a, b, c, d
      <4> QED  BY <1>4, <1>7, <1>8, <3>1
    <3> QED  BY <3>1, <3>2, AccountIdle
  <2>2. CASE Pledged(w) \in Qty /\ Brought(w) = 0 /\ w.lost = 0 /\ Guarded(w)
    <3>1. a + P <= b + B + lost
      BY <2>2 DEF Guarded
    <3>2. c <= b + lost /\ d = b /\ lost' = lost /\ P \in Qty
      <4> HIDE DEF a, b, c, d
      <4> QED  BY <1>3, <1>4, <1>7, <2>2, <3>1
    <3>3. Account!Promise
      BY <1>7, <3>2 DEF Account!Promise, Qty
    <3> QED  BY <2>2, <3>3 DEF Guarded, AccountStep, Account!Next
  <2>3. ASSUME NEW q \in Qty, NEW g \in 0 .. q,
               P = -g, B = -q, w.lost = 0, Guarded(w)
        PROVE  ReadsPosition(w.reads, w.writes) /\ AccountStep
    <3>1. a + P <= b + B + lost
      BY <2>3 DEF Guarded
    <3>2. c <= d + lost /\ d = b - q /\ c = a - g /\ lost' = lost
      <4>1. q \in Nat /\ g \in Nat
        BY BoundAssumption DEF Qty
      <4> HIDE DEF a, b, c, d, P, B
      <4> QED  BY <1>3, <1>4, <1>7, <2>3, <3>1, <4>1
    <3>3. Account!Issue
      <4>1. d >= 0 /\ c >= 0
        BY <1>4
      <4> QED  BY <3>2, <4>1 DEF Account!Issue, Qty
    <3> QED  BY <2>3, <3>3 DEF Guarded, AccountStep, Account!Next
  <2>4. ASSUME NEW q \in Qty, NEW g \in 0 .. q, P = g, B = q, w.lost = 0
        PROVE  Slack' >= Slack /\ AccountStep
    <3>1. d = b + q /\ c = a + g /\ lost' = lost /\ Slack' >= Slack
      <4>1. q \in Nat /\ g \in Nat /\ g <= q
        BY BoundAssumption DEF Qty
      <4> HIDE DEF a, b, c, d, P, B
      <4> QED  BY <1>3, <1>4, <1>7, <1>8, <2>4, <4>1
    <3>2. Account!Return
      BY <3>1 DEF Account!Return, Qty
    <3> QED  BY <3>1, <3>2 DEF AccountStep, Account!Next
  <2>5. ASSUME NEW q \in Qty, NEW g \in 0 .. q, P = -g, B = -q, w.lost = q - g
        PROVE  Slack' >= Slack /\ AccountStep
    <3>1. d = b - q /\ c = a - g /\ lost' = lost + (q - g) /\ Slack' >= Slack
      <4>1. q \in Nat /\ g \in Nat /\ g <= q
        BY BoundAssumption DEF Qty
      <4> HIDE DEF a, b, c, d, P, B
      <4> QED  BY <1>3, <1>4, <1>7, <1>8, <2>5, <4>1
    <3>2. Account!WriteOff
      <4>1. d >= 0 /\ c >= 0
        BY <1>4
      <4> QED  BY <3>1, <4>1 DEF Account!WriteOff, Qty
    <3> QED  BY <3>1, <3>2 DEF AccountStep, Account!Next
  <2> QED  BY <1>2, <2>1, <2>2, <2>3, <2>4, <2>5 DEF Accounted, Effect
<1> HIDE DEF w
<1> QED  BY <1>1, <1>2, <1>5, <1>6, <1>9, CommittedKeepsPromises

\* A release gives up what its row holds when it writes it.
LEMMA ReleasePromises ==
  ASSUME IInv, Promises, NEW p \in Session, ReleaseWrite(p)
  PROVE  Promises' /\ AccountStep
<1> DEFINE i == rel[p].row
<1>1. IInv' /\ Safe /\ Safe'
  BY ReleaseWriteSafe DEF IInv
<1>2. /\ resv \in Seq(Reservation) /\ rel[p].to \in {"CANCELLED", "RELEASED"}
      /\ \A j \in DOMAIN resv : resv[j] \in Reservation
  BY <1>1 DEF Safe, TypeOK
<1>3. /\ DOMAIN resv' = DOMAIN resv
      /\ \A j \in DOMAIN resv :
           resv'[j] = IF j = i THEN [resv[j] EXCEPT !.status = rel[p].to] ELSE resv[j]
  BY <1>2 DEF ReleaseWrite
<1>4. UNCHANGED <<stock, lost>> /\ Committed(p, "idle", {}, {Row(i)})
  BY DEF ReleaseWrite
<1>5. /\ Reserved(resv) \in Nat /\ OnHand \in Nat /\ lost \in Nat /\ Reserved(resv') \in Nat
      /\ \A j \in DOMAIN resv : Held(resv[j]) \in Nat
  BY <1>1, PositionIsCounts, PositionStaysCounts
<1>6. OnHand' = OnHand
  BY <1>4 DEF OnHand
<1>7. \A j \in DOMAIN resv' : Small(resv'[j])
  <2> SUFFICES ASSUME NEW j \in DOMAIN resv
               PROVE  Small(resv'[j])
    BY <1>3
  <2>1. resv'[j].qty = resv[j].qty
    BY <1>2, <1>3 DEF Reservation
  <2>2. Small(resv[j])
    BY DEF Promises
  <2> QED  BY <2>1, <2>2 DEF Small
<1>8. Covering({}, {Row(i)})
  BY <1>1, <1>3 DEF Covering, ReleaseWrite, Safe, TypeOK
<1>9. CASE i \notin DOMAIN resv
  <2>1. resv' = resv
    BY <1>2, <1>9 DEF ReleaseWrite
  <2>2. Slack' >= Slack
    BY <1>4, <1>5, <1>6, <2>1 DEF Slack
  <2>3. AccountStep
    BY <1>4, <1>6, <2>1, AccountIdle
  <2> QED  BY <1>1, <1>4, <1>7, <1>8, <2>2, <2>3, CommittedKeepsPromises
<1>10. CASE i \in DOMAIN resv
  <2> DEFINE D == DOMAIN resv
             h == Held(resv[i])
             f == [j \in DOMAIN resv |-> Held(resv[j])]
             g == [j \in DOMAIN resv' |-> Held(resv'[j])]
  <2>1. resv'[i].status = rel[p].to
    BY <1>2, <1>3, <1>10 DEF Reservation
  <2>2. Held(resv'[i]) = 0
    BY <1>2, <2>1 DEF Held
  <2>3. Reserved(resv') = Reserved(resv) - h
    <3>1. /\ IsFiniteSet(D) /\ i \in D /\ f[i] = h /\ g[i] = 0 /\ DOMAIN resv' = D
          /\ \A j \in D : f[j] \in Int
          /\ \A j \in D \ {i} : g[j] = f[j]
      BY <1>2, <1>3, <1>5, <1>10, <2>2, RowsAreFinite
    <3>2. Reserved(resv) = SumFunctionOnSet(f, D) /\ Reserved(resv') = SumFunctionOnSet(g, DOMAIN resv')
      BY DEF Reserved, SumFunction
    <3> HIDE DEF D, f, g, h, i
    <3>3. SumFunctionOnSet(g, D) = SumFunctionOnSet(f, D) - f[i] + g[i]
      BY <3>1, SumChange
    <3>4. SumFunctionOnSet(g, DOMAIN resv') = SumFunctionOnSet(g, D)
      BY <3>1, Zenon
    <3> QED  BY <1>5, <3>1, <3>2, <3>3, <3>4
  <2>4. h \in Nat
    BY <1>5, <1>10
  <2>5. h > 0 => h \in Qty
    <3>1. resv[i] \in Reservation /\ WellDrawn(resv[i]) /\ Small(resv[i])
      BY <1>1, <1>2, <1>10 DEF Promises, Safe, ReservationLifecycle
    <3>2. h > 0 => h = resv[i].qty - resv[i].consumed
      BY <3>1, HeldIsWithin
    <3>3. resv[i].qty \in Nat /\ resv[i].consumed \in Nat
      BY <3>1 DEF Reservation
    <3> HIDE DEF h
    <3> QED  BY <2>4, <3>1, <3>2, <3>3, BoundAssumption DEF Small, Qty
  <2> DEFINE a == Reserved(resv)
             c == Reserved(resv')
             b == OnHand
  <2> HIDE DEF h
  <2>6. Slack' >= Slack
    <3>1. Slack = b + lost - a /\ Slack' = b + lost - c
      BY <1>4, <1>6 DEF Slack
    <3>2. a \in Nat /\ b \in Nat /\ c \in Nat /\ lost \in Nat /\ c = a - h
      BY <1>5, <2>3
    <3> HIDE DEF a, b, c
    <3> QED  BY <2>4, <3>1, <3>2
  <2>7. AccountStep
    <3>1. CASE h = 0
      <4>1. Reserved(resv') = Reserved(resv)
        BY <1>5, <2>3, <3>1
      <4> QED  BY <1>4, <1>6, <4>1, AccountIdle
    <3>2. CASE h > 0
      <4>1. c >= 0
        BY <1>5
      <4>2. Account!GiveUp
        BY <1>4, <1>6, <2>3, <2>5, <3>2, <4>1 DEF Account!GiveUp, Qty
      <4> QED  BY <4>2 DEF AccountStep, Account!Next
    <3> QED  BY <2>4, <3>1, <3>2
  <2> QED  BY <1>1, <1>4, <1>7, <1>8, <2>6, <2>7, CommittedKeepsPromises
<1> QED  BY <1>9, <1>10

\* A receipt or an adjustment adds to the shelf, or takes off it what it puts on
\* record as written off.
LEMMA MovementPromises ==
  ASSUME IInv, IInv', Promises, NEW l \in Location, NEW signed \in Int, ApplyMovement(l, signed),
         \/ signed \in Qty /\ lost' = lost
         \/ -signed \in Qty /\ lost' = lost + (-signed)
  PROVE  Promises' /\ AccountStep
<1>1. Safe /\ Safe' /\ UNCHANGED resv /\ Committed(Nobody, "idle", {}, {Shelf(l)})
  BY DEF IInv, ApplyMovement
<1>2. OnHand' = OnHand + signed
  <2>1. /\ DOMAIN stock = Location /\ DOMAIN stock' = Location
        /\ \A x \in Location : stock[x] \in Int
        /\ stock'[l] = stock[l] + signed /\ \A x \in Location \ {l} : stock'[x] = stock[x]
    BY <1>1 DEF ApplyMovement, Safe, TypeOK
  <2>2. SumFunctionOnSet(stock', Location)
          = SumFunctionOnSet(stock, Location) - stock[l] + stock'[l]
    BY <2>1, SumChange, LocationAssumption
  <2>3. SumFunctionOnSet(stock, Location) \in Int
    BY <2>1, SumIsInt, LocationAssumption
  <2>4. OnHand = SumFunctionOnSet(stock, Location) /\ OnHand' = SumFunctionOnSet(stock', Location)
    BY <2>1 DEF OnHand, SumFunction
  <2>5. stock[l] \in Int
    BY <2>1
  <2> DEFINE s == SumFunctionOnSet(stock, Location)
             t == SumFunctionOnSet(stock', Location)
             x == stock[l]
             y == stock'[l]
  <2>6. t = s - x + y /\ s \in Int /\ x \in Int /\ y = x + signed
    BY <2>1, <2>2, <2>3, <2>5
  <2> HIDE DEF s, t, x, y
  <2>7. t = s + signed
    BY <2>6
  <2> QED  BY <2>4, <2>7 DEF s, t
<1>3. /\ Reserved(resv) \in Nat /\ OnHand \in Nat /\ lost \in Nat
      /\ Reserved(resv') \in Nat /\ OnHand' \in Nat
  BY <1>1, PositionIsCounts, PositionStaysCounts
<1>4. Reserved(resv') = Reserved(resv) /\ \A i \in DOMAIN resv' : Small(resv'[i])
  BY <1>1 DEF Promises
<1>5. Covering({}, {Shelf(l)})
  BY DEF Covering, ApplyMovement, IInv, Safe, TypeOK
<1> DEFINE a == Reserved(resv)
           b == OnHand
           d == OnHand'
<1>6. Slack = b + lost - a /\ Slack' = d + lost' - a
  BY <1>4 DEF Slack
<1>7. a \in Nat /\ b \in Nat /\ d \in Nat /\ lost \in Nat /\ d = b + signed
  BY <1>2, <1>3
<1>8. Slack' >= Slack
  <2>1. (signed > 0 /\ lost' = lost) \/ lost' = lost + (-signed)
    BY BoundAssumption DEF Qty
  <2> HIDE DEF a, b, d
  <2> QED  BY <1>6, <1>7, <2>1
<1>9. AccountStep
  <2>1. CASE signed \in Qty /\ lost' = lost
    <3>1. Account!Receive
      BY <1>2, <1>4, <2>1 DEF Account!Receive, Qty
    <3> QED  BY <3>1 DEF AccountStep, Account!Next
  <2>2. CASE -signed \in Qty /\ lost' = lost + (-signed)
    <3> DEFINE q == -signed
    <3>1. q \in Qty /\ 0 \in 0 .. q /\ q - 0 = q /\ d = b - q /\ a - 0 = a /\ lost' = lost + q
      <4>1. q \in Nat /\ q \in Qty
        BY <2>2, BoundAssumption DEF Qty
      <4> HIDE DEF a, b, d
      <4> QED  BY <1>7, <2>2, <4>1
    <3>2. d >= 0 /\ Reserved(resv') >= 0
      BY <1>3
    <3> HIDE DEF q
    <3>3. Account!WriteOff
      BY <1>4, <3>1, <3>2 DEF Account!WriteOff, Qty
    <3> QED  BY <3>3 DEF AccountStep, Account!Next
  <2> QED  BY <2>1, <2>2
<1> QED  BY <1>1, <1>4, <1>5, <1>8, <1>9, CommittedKeepsPromises

-----------------------------------------------------------------------------
(* The inventory implements the stock account *)

\* Whatever body a session runs settles what the account allows, and is no step
\* of it yet.
LEMMA BodyPromises ==
  ASSUME IInv, Promises, NEW p \in Session, Body(p)
  PROVE  Promises' /\ AccountStep
<1>1. Promises'
  <2>1. CASE \E k \in Key, q \in Qty : ReserveForOrder(p, k, q)
    BY <2>1, ReservePromises
  <2>2. CASE \E i \in DOMAIN resv, accept \in BOOLEAN : DecideReservation(p, i, accept)
    BY <2>2, DecidePromises
  <2>3. CASE \E k \in Key, l \in Location, q \in Qty : IssueToProduction(p, k, l, q)
    BY <2>3, IssuePromises
  <2>4. CASE \E k \in Key, l \in Location, q \in Qty : ReturnFromProduction(p, k, l, q)
    BY <2>4, ReturnPromises
  <2>5. CASE \E k \in Key \cup {<<NoOrder, NoLine>>}, l \in Location, q \in Qty :
               RecordWastage(p, k, l, q)
    BY <2>5, WastagePromises
  <2> QED  BY <2>1, <2>2, <2>3, <2>4, <2>5 DEF Body
<1>2. UNCHANGED <<tables, lost>>
  <2>1. \A w : Run(p, w) => UNCHANGED <<tables, lost>>
    BY DEF Run
  <2>2. CASE \E k \in Key, q \in Qty : ReserveForOrder(p, k, q)
    BY <2>1, <2>2 DEF ReserveForOrder
  <2>3. CASE \E i \in DOMAIN resv, accept \in BOOLEAN : DecideReservation(p, i, accept)
    BY <2>1, <2>3 DEF DecideReservation
  <2>4. ASSUME NEW k \in Key, NEW l \in Location, NEW q \in Qty,
               IssueToProduction(p, k, l, q) \/ ReturnFromProduction(p, k, l, q)
        PROVE  UNCHANGED <<tables, lost>>
    BY <2>1, <2>4 DEF IssueToProduction, ReturnFromProduction
  <2>5. CASE \E k \in Key \cup {<<NoOrder, NoLine>>}, l \in Location, q \in Qty :
               RecordWastage(p, k, l, q)
    BY <2>1, <2>5 DEF RecordWastage
  <2> QED  BY <2>2, <2>3, <2>4, <2>5 DEF Body
<1> QED  BY <1>1, <1>2, AccountIdle DEF tables, OnHand

\* Every step keeps the promises, and is one of the account's.
LEMMA NextPromises ==
  ASSUME IInv, Promises, [Next]_vars
  PROVE  Promises' /\ AccountStep
<1>0. IInv'
  BY NextSafe
<1>1. ASSUME UNCHANGED <<tables, lost, work>>, \A q \in Session : pc'[q] = "tx" => pc[q] = "tx"
      PROVE  Promises' /\ AccountStep
  <2>1. OnHand' = OnHand /\ resv' = resv /\ lost' = lost
    BY <1>1 DEF tables, OnHand
  <2> QED  BY <1>0, <1>1, <2>1, AsideKeepsPromises, AccountIdle
<1>2. ASSUME NEW p \in Session, Finish(p)
      PROVE  Promises' /\ AccountStep
  <2>1. Retry(p) \/ Refuse(p) => \A q \in Session : pc'[q] = "tx" => pc[q] = "tx"
    BY DEF Retry, Refuse, IInv, Safe, TypeOK
  <2>2. CASE Retry(p)
    BY <1>1, <2>1, <2>2 DEF Retry
  <2>3. CASE Refuse(p)
    BY <1>1, <2>1, <2>3 DEF Refuse
  <2> QED  BY <1>2, <2>2, <2>3, CommitPromises, ReleasePromises DEF Finish
<1>3. ASSUME NEW p \in Session, NEW i \in DOMAIN resv, ReleaseRead(p, i)
      PROVE  Promises' /\ AccountStep
  <2>1. \A q \in Session : pc'[q] = "tx" => pc[q] = "tx"
    BY <1>3 DEF ReleaseRead, IInv, Safe, TypeOK
  <2> QED  BY <1>1, <1>3, <2>1 DEF ReleaseRead
<1>4. ASSUME NEW l \in Location, NEW q \in Qty, ReceiveStock(l, q)
      PROVE  Promises' /\ AccountStep
  <2>1. q \in Int
    BY BoundAssumption DEF Qty
  <2> QED  BY <1>0, <1>4, <2>1, MovementPromises DEF ReceiveStock
<1>5. ASSUME NEW l \in Location, NEW q \in Qty, NEW d \in {q, -q}, AdjustStock(l, d)
      PROVE  Promises' /\ AccountStep
  <2>1. q \in Nat /\ q > 0 /\ d \in Int /\ -d \in Int /\ -(-q) = q
    BY BoundAssumption DEF Qty
  <2>2. Max({0, -d}) = IF 0 >= -d THEN 0 ELSE -d
    BY <2>1, MaxOfTwo
  <2>3. lost \in Nat
    BY DEF IInv, Safe, TypeOK
  <2>4. CASE d = q
    <3>1. lost' = lost
      BY <1>5, <2>1, <2>2, <2>3, <2>4 DEF AdjustStock
    <3> QED  BY <1>0, <1>5, <2>1, <2>4, <3>1, MovementPromises DEF AdjustStock
  <2>5. CASE d = -q
    <3>1. lost' = lost + (-d) /\ -d = q
      BY <1>5, <2>1, <2>2, <2>3, <2>5 DEF AdjustStock
    <3> QED  BY <1>0, <1>5, <2>1, <3>1, MovementPromises DEF AdjustStock
  <2> QED  BY <2>4, <2>5
<1>6. ASSUME NEW o \in Order, SetOrderDone(o)
      PROVE  Promises' /\ AccountStep
  BY <1>1, <1>6 DEF SetOrderDone
<1>7. CASE UNCHANGED vars
  BY <1>1, <1>7 DEF vars
<1> QED  BY <1>2, <1>3, <1>4, <1>5, <1>6, <1>7, BodyPromises DEF Next

\* The empty tables are an empty account.
LEMMA InitPromises ==
  ASSUME Init
  PROVE  Promises /\ Account!Init
<1>1. Promises
  BY DEF Init, Promises
<1>2. OnHand = 0
  <2>1. DOMAIN stock = Location /\ \A l \in Location : stock[l] = 0
    BY DEF Init
  <2> QED  BY <2>1, SumZero, LocationAssumption DEF OnHand, SumFunction
<1>3. Reserved(resv) = 0
  <2> DEFINE f == [i \in DOMAIN resv |-> Held(resv[i])]
  <2>1. DOMAIN resv = {} /\ DOMAIN f = {}
    BY DEF Init
  <2>2. Reserved(resv) = SumFunctionOnSet(f, DOMAIN f)
    BY DEF Reserved, SumFunction
  <2> HIDE DEF f
  <2> QED  BY <2>1, <2>2, SumEmpty, Zenon
<1> QED  BY <1>1, <1>2, <1>3 DEF Init, Account!Init

\* At every moment every open transaction is something the account allows from
\* where the tables now are: the slack a promise or an issue was checked against
\* is still there, for whoever shrinks it dooms the others that rely on it.
THEOREM PromisesHold == Spec => []Promises
<1>1. Init => IInv /\ Promises
  BY InitSafe, InitPromises
<1>2. IInv /\ Promises /\ [Next]_vars => (IInv /\ Promises)'
  BY NextSafe, NextPromises
<1> QED  BY <1>1, <1>2, PTL DEF Spec

\* The inventory implements the stock account: whatever people interleave, and
\* whatever PostgreSQL refuses of it, every step is a step of the account or none,
\* so the same metres are never promised twice.
THEOREM InventoryKeepsAccount == Spec => ImplementsAccount
<1>1. Init => IInv /\ Promises /\ Account!Init
  BY InitSafe, InitPromises
<1>2. IInv /\ Promises /\ [Next]_vars => (IInv /\ Promises)' /\ [Account!Next]_(Account!vars)
  BY NextSafe, NextPromises DEF AccountStep
<1> QED  BY <1>1, <1>2, PTL DEF Spec, ImplementsAccount, Account!Spec

\* The account itself: what orders have been promised exceeds the shelf by no
\* more than was ever written off it, whatever quantities it moves.
THEOREM AccountSafe == Account!Spec => []Account!NeverOverpromised
<1> DEFINE Sound == Account!TypeOK /\ Account!NeverOverpromised
<1> USE DEF Account!TypeOK, Account!NeverOverpromised
<1>1. Account!Init => Sound
  BY DEF Account!Init
<1>2. Sound /\ [Account!Next]_(Account!vars) => Sound'
  <2> SUFFICES ASSUME Sound, [Account!Next]_(Account!vars)
               PROVE  Sound'
    OBVIOUS
  <2>0. \A q \in Qty : q \in Nat /\ \A g \in 0 .. q : g \in Nat
    BY BoundAssumption DEF Qty
  <2>1. CASE Account!Receive   BY <2>0, <2>1 DEF Account!Receive, Qty
  <2>2. CASE Account!WriteOff  BY <2>0, <2>2 DEF Account!WriteOff, Qty
  <2>3. CASE Account!Promise   BY <2>0, <2>3 DEF Account!Promise, Qty
  <2>4. CASE Account!GiveUp    BY <2>0, <2>4 DEF Account!GiveUp, Qty
  <2>5. CASE Account!Issue     BY <2>0, <2>5 DEF Account!Issue, Qty
  <2>6. CASE Account!Return    BY <2>0, <2>6 DEF Account!Return, Qty
  <2>7. CASE UNCHANGED Account!vars  BY <2>7 DEF Account!vars
  <2> QED  BY <2>1, <2>2, <2>3, <2>4, <2>5, <2>6, <2>7 DEF Account!Next
<1> QED  BY <1>1, <1>2, PTL DEF Account!Spec

\* So the inventory never promises more than it held before something was written
\* off it, without a transaction, a retry or a session in the statement.
THEOREM PromisesCovered == Spec => []Account!NeverOverpromised
BY InventoryKeepsAccount, AccountSafe, PTL DEF ImplementsAccount

-----------------------------------------------------------------------------
(* One open request for each order and line *)

\* No row asks for this order and line.
NobodyAsks(k) == \A j \in DOMAIN resv : resv[j].status = "PENDING" => KeyOf(resv[j]) # k

\* A transaction that adds a request found none, and both read and writes the
\* predicate requests are searched by; a row it leaves pending was, for the same
\* order and line.
Asks(w) ==
  /\ Len(w.add) <= 1
  /\ \A i \in DOMAIN w.add : w.add[i].status = "PENDING" =>
       NobodyAsks(KeyOf(w.add[i])) /\ Asked(KeyOf(w.add[i])) \in w.reads \cap w.writes
  /\ \A i \in DOMAIN w.rows : w.rows[i].status = "PENDING" =>
       resv[i].status = "PENDING" /\ KeyOf(resv[i]) = KeyOf(w.rows[i])

OneAsks == OneOpenRequest /\ \A p \in Session : pc[p] = "tx" => Asks(work[p])

\* A request a step brings in is one that was open, or one its writes announce.
Announced(reads, writes) == \A j \in DOMAIN resv' : resv'[j].status = "PENDING" =>
  \/ j \in DOMAIN resv /\ resv[j].status = "PENDING" /\ KeyOf(resv[j]) = KeyOf(resv'[j])
  \/ Asked(KeyOf(resv'[j])) \in reads \cap writes

\* Open transactions that a commit does not clash with still ask alone.
LEMMA CommittedKeepsAsks ==
  ASSUME IInv, OneAsks, OneOpenRequest', NEW reads, NEW writes, Covering(reads, writes),
         Announced(reads, writes),
         NEW p, NEW next, next # "tx", Committed(p, next, reads, writes)
  PROVE  OneAsks'
<1>1. ASSUME NEW q \in Session, pc'[q] = "tx"
      PROVE  Asks(work[q])'
  <2> DEFINE w == work[q]
  <2>1. q # p /\ pc[q] = "tx" /\ ~Clashes(w, reads, writes) /\ work'[q] = w
    BY <1>1 DEF Committed
  <2>2. Settled(w) /\ Asks(w)
    BY <2>1 DEF IInv, OneAsks
  <2>3. \A i \in DOMAIN w.rows : resv'[i] = resv[i]
    <3>1. \A x \in writes : IsRow(x) => x \notin w.writes
      BY <2>1 DEF Clashes
    <3>2. \A i \in DOMAIN w.rows : i \in DOMAIN resv /\ Row(i) \in w.writes
      BY <2>2 DEF Settled, RowsSettled
    <3>3. \A i : IsRow(Row(i))
      BY DEF IsRow, Row
    <3> QED  BY <3>1, <3>2, <3>3 DEF Covering
  <2>4. ASSUME NEW i \in DOMAIN w.add, w.add[i].status = "PENDING",
               NEW j \in DOMAIN resv', resv'[j].status = "PENDING"
        PROVE  KeyOf(resv'[j]) # KeyOf(w.add[i])
    <3>1. NobodyAsks(KeyOf(w.add[i])) /\ Asked(KeyOf(w.add[i])) \in w.reads \cap w.writes
      BY <2>2, <2>4 DEF Asks
    <3>2. Asked(KeyOf(w.add[i])) \notin reads \cap writes
      BY <2>1, <3>1 DEF Clashes
    <3> QED  BY <2>4, <3>1, <3>2 DEF Announced, NobodyAsks
  <2> HIDE DEF w
  <2>5. /\ Len(w.add) <= 1
        /\ \A i \in DOMAIN w.add : w.add[i].status = "PENDING" =>
             Asked(KeyOf(w.add[i])) \in w.reads \cap w.writes
        /\ \A i \in DOMAIN w.rows : w.rows[i].status = "PENDING" =>
             resv'[i].status = "PENDING" /\ KeyOf(resv'[i]) = KeyOf(w.rows[i])
    BY <2>2, <2>3 DEF Asks
  <2> QED  BY <2>1, <2>4, <2>5 DEF Asks, NobodyAsks, KeyOf, Asked, w
<1> QED  BY <1>1 DEF OneAsks

\* So does a step that leaves the rows and what transactions have settled alone.
LEMMA AsideKeepsAsks ==
  ASSUME OneAsks, UNCHANGED <<resv, work>>, \A q \in Session : pc'[q] = "tx" => pc[q] = "tx"
  PROVE  OneAsks'
<1>1. OneOpenRequest'
  BY DEF OneAsks, OneOpenRequest
<1>2. ASSUME NEW q \in Session, pc'[q] = "tx"
      PROVE  Asks(work[q])'
  <2>1. Asks(work[q])
    BY <1>2 DEF OneAsks
  <2> QED  BY <2>1 DEF Asks, NobodyAsks, KeyOf, Asked
<1> QED  BY <1>1, <1>2 DEF OneAsks

\* And a body that asks alone.
LEMMA RunKeepsAsks ==
  ASSUME IInv, OneAsks, NEW p \in Session, NEW STATE w, Asks(w), Run(p, w)
  PROVE  OneAsks'
<1>1. OneOpenRequest'
  BY DEF OneAsks, OneOpenRequest, Run, tables
<1>2. /\ work' = [q \in Session |-> IF q = p THEN w ELSE work[q]]
      /\ \A q \in Session : q # p => pc'[q] = pc[q]
  BY DEF IInv, Run, Safe, TypeOK
<1>3. ASSUME NEW q \in Session, pc'[q] = "tx"
      PROVE  Asks(work[q])'
  <2>1. Asks(work'[q])
    BY <1>2, <1>3 DEF OneAsks
  <2> QED  BY <2>1 DEF Run, tables, Asks, NobodyAsks, KeyOf, Asked
<1> QED  BY <1>1, <1>3 DEF OneAsks

\* A body that adds no row and leaves none it writes pending asks for nothing.
LEMMA AsksNothing ==
  ASSUME NEW w, w.add = <<>>, \A i \in DOMAIN w.rows : w.rows[i].status # "PENDING"
  PROVE  Asks(w)
BY DEF Asks

\* Asking again adds to the request there is, or finds none and adds one.
LEMMA ReserveAsks ==
  ASSUME IInv, OneAsks, NEW p \in Session, NEW k \in Key, NEW q \in Qty,
         ReserveForOrder(p, k, q)
  PROVE  OneAsks'
<1> DEFINE status == IF p \in Decider THEN "ACTIVE" ELSE "PENDING"
           same == {i \in DOMAIN resv : KeyOf(resv[i]) = k /\ resv[i].status = status}
           row == [order |-> k[1], line |-> k[2], qty |-> q, consumed |-> 0,
                   status |-> status, by |-> p]
           w == [NoWork EXCEPT !.reads = Position \cup {Asked(k)},
                               !.writes = {IF p \in Decider THEN HeldBy(k[1]) ELSE Asked(k)}]
           fresh == [w EXCEPT !.add = <<row>>]
           more(i) == [w EXCEPT !.writes = @ \cup {Row(i)},
                                !.rows = [j \in {i} |-> [resv[j] EXCEPT !.qty = @ + q]]]
<1>1. KeyOf(row) = k /\ row.status = status
  BY DEF KeyOf, Key
<1>2. CASE same = {} /\ Run(p, fresh)
  <2>1. /\ fresh.add = <<row>> /\ DOMAIN fresh.rows = {}
        /\ p \notin Decider => Asked(k) \in fresh.reads \cap fresh.writes
    BY DEF NoWork
  <2>2. p \notin Decider => NobodyAsks(k)
    BY <1>2 DEF NobodyAsks
  <2>3. Len(fresh.add) = 1 /\ \A i \in DOMAIN fresh.add : fresh.add[i] = row
    BY <2>1
  <2> DEFINE f == fresh
  <2>4. Len(f.add) = 1 /\ \A i \in DOMAIN f.add : f.add[i] = row
    BY <2>3
  <2>5. row.status = "PENDING" => NobodyAsks(KeyOf(row)) /\ Asked(KeyOf(row)) \in f.reads \cap f.writes
    BY <1>1, <2>1, <2>2
  <2>6. DOMAIN f.rows = {} /\ Run(p, f)
    BY <1>2, <2>1
  <2> HIDE DEF f, row
  <2>7. Asks(f)
    BY <2>4, <2>5, <2>6 DEF Asks
  <2> QED  BY <2>6, <2>7, RunKeepsAsks
<1>3. ASSUME NEW i \in same, Run(p, more(i))
      PROVE  OneAsks'
  <2> DEFINE f == more(i)
             s == [resv[i] EXCEPT !.qty = @ + q]
  <2>1. resv[i] \in Reservation
    BY DEF IInv, Safe, TypeOK
  <2>2. s.status = resv[i].status /\ KeyOf(s) = KeyOf(resv[i])
    BY <2>1 DEF Reservation, KeyOf
  <2>3. f.add = <<>> /\ DOMAIN f.rows = {i} /\ f.rows[i] = s /\ Run(p, f)
    BY <1>3 DEF NoWork
  <2> HIDE DEF f, s
  <2>4. Asks(f)
    BY <2>2, <2>3 DEF Asks
  <2> QED  BY <2>3, <2>4, RunKeepsAsks
<1> QED  BY <1>2, <1>3 DEF ReserveForOrder

\* Deciding, issuing, returning and writing off ask for nothing.
LEMMA MovedIsNoRequest ==
  ASSUME IInv, NEW plan, NEW q, plan \in Plan(q), NEW sign, NEW i \in Hit(plan)
  PROVE  Moved(resv[i], sign * plan[i]).status # "PENDING"
<1>1. resv[i] \in Reservation
  BY DEF Hit, Plan, IInv, Safe, TypeOK
<1> QED  BY <1>1 DEF Moved, Reservation

LEMMA PlanAsks ==
  ASSUME IInv, OneAsks, NEW p \in Session, NEW q, NEW plan \in Plan(q), NEW sign,
         NEW STATE w, w.add = <<>>, Run(p, w), DOMAIN w.rows = Hit(plan),
         \A i \in Hit(plan) : w.rows[i] = Moved(resv[i], sign * plan[i])
  PROVE  OneAsks'
<1>1. \A i \in DOMAIN w.rows : w.rows[i].status # "PENDING"
  BY MovedIsNoRequest
<1> QED  BY <1>1, AsksNothing, RunKeepsAsks

LEMMA BodyAsks ==
  ASSUME IInv, OneAsks, NEW p \in Session, Body(p)
  PROVE  OneAsks'
<1>1. CASE \E k \in Key, q \in Qty : ReserveForOrder(p, k, q)
  BY <1>1, ReserveAsks
<1>2. ASSUME NEW i \in DOMAIN resv, NEW accept \in BOOLEAN, DecideReservation(p, i, accept)
      PROVE  OneAsks'
  <2> DEFINE r == resv[i]
             to == IF accept THEN "ACTIVE" ELSE "REJECTED"
             w == [NoWork EXCEPT
                     !.reads = Position \cup {Row(i)},
                     !.writes = {Row(i), Asked(KeyOf(r))}
                                  \cup (IF accept THEN {HeldBy(r.order)} ELSE {}),
                     !.rows = [j \in {i} |-> [resv[j] EXCEPT !.status = to]]]
  <2>1. resv[i] \in Reservation
    BY DEF IInv, Safe, TypeOK
  <2>2. w.add = <<>> /\ DOMAIN w.rows = {i} /\ w.rows[i].status # "PENDING"
    BY <2>1 DEF NoWork, Reservation
  <2>3. Run(p, w)
    BY <1>2 DEF DecideReservation
  <2> HIDE DEF w
  <2> QED  BY <2>2, <2>3, AsksNothing, RunKeepsAsks
<1>3. ASSUME NEW k \in Key, NEW l \in Location, NEW q \in Qty, IssueToProduction(p, k, l, q)
      PROVE  OneAsks'
  <2> DEFINE cap == [i \in DOMAIN resv |-> IF InScope(resv[i], k[1], k[2]) THEN Held(resv[i]) ELSE 0]
             age == [i \in DOMAIN resv |-> i]
             figure == IF k[2] = NoLine THEN 0 ELSE issued[k[2]] + q
             w(plan) == [OrderWork(k, l, -q, plan, 1, figure) EXCEPT !.reads = @ \cup Position]
  <2>1. PICK plan \in Plan(q) : Run(p, w(plan))
    BY <1>3, Zenon DEF IssueToProduction
  <2> DEFINE v == w(plan)
  <2>2. /\ v.add = <<>> /\ DOMAIN v.rows = Hit(plan)
        /\ \A i \in Hit(plan) : v.rows[i] = Moved(resv[i], 1 * plan[i])
    BY OrderWorkIs DEF OrderWork, MovementWork, NoWork
  <2>3. Run(p, v)
    BY <2>1
  <2> HIDE DEF v
  <2> QED  BY <2>2, <2>3, PlanAsks
<1>4. ASSUME NEW k \in Key, NEW l \in Location, NEW q \in Qty, ReturnFromProduction(p, k, l, q)
      PROVE  OneAsks'
  <2> DEFINE figure == IF k[2] = NoLine THEN 0 ELSE IssuedAfterReturn(k[2], q)
             reads == {OutFor(k[1])} \cup (IF done[k[1]] THEN {} ELSE {HeldBy(k[1])})
             w(plan) == [OrderWork(k, l, q, plan, -1, figure) EXCEPT !.reads = @ \cup reads]
  <2>1. PICK plan \in Plan(q) : Run(p, w(plan))
    BY <1>4, Zenon DEF ReturnFromProduction
  <2> DEFINE v == w(plan)
  <2>2. /\ v.add = <<>> /\ DOMAIN v.rows = Hit(plan)
        /\ \A i \in Hit(plan) : v.rows[i] = Moved(resv[i], (-1) * plan[i])
    BY OrderWorkIs DEF OrderWork, MovementWork, NoWork
  <2>3. Run(p, v)
    BY <2>1
  <2> HIDE DEF v
  <2> QED  BY <2>2, <2>3, PlanAsks
<1>5. ASSUME NEW k, NEW l \in Location, NEW q \in Qty, RecordWastage(p, k, l, q)
      PROVE  OneAsks'
  <2> DEFINE more == IF k[1] = NoOrder THEN {} ELSE {HeldBy(k[1])}
             w(plan, beyond) == [MovementWork(k[1], l, -q, plan, 1) EXCEPT
                                   !.reads = @ \cup more, !.lost = beyond]
  <2>1. PICK plan \in Plan(q), beyond \in 0 .. q : Run(p, w(plan, beyond))
    BY <1>5, Zenon DEF RecordWastage
  <2> DEFINE v == w(plan, beyond)
  <2>2. /\ v.add = <<>> /\ DOMAIN v.rows = Hit(plan)
        /\ \A i \in Hit(plan) : v.rows[i] = Moved(resv[i], 1 * plan[i])
    BY DEF MovementWork, NoWork
  <2>3. Run(p, v)
    BY <2>1
  <2> HIDE DEF v
  <2> QED  BY <2>2, <2>3, PlanAsks
<1>6. CASE \E k \in Key \cup {<<NoOrder, NoLine>>}, l \in Location, q \in Qty :
             RecordWastage(p, k, l, q)
  BY <1>5, <1>6
<1> QED  BY <1>1, <1>2, <1>3, <1>4, <1>6 DEF Body

\* A commit leaves one open request for each order and line, and any it brings in
\* is announced.
LEMMA CommitAsks ==
  ASSUME IInv, OneAsks, NEW p \in Session, Commit(p)
  PROVE  OneAsks'
<1> DEFINE w == work[p]
<1>1. Asks(w) /\ Settled(w) /\ Committed(p, "idle", w.reads, w.writes)
  BY DEF Commit, OneAsks, IInv
<1>2. /\ resv \in Seq(Reservation) /\ resv' \in Seq(Reservation) /\ w.add \in Seq(Reservation)
      /\ Len(w.add) <= 1
  BY <1>1, CommittedRows DEF Asks, Settled, AddSettled, IInv, Safe, TypeOK
<1>3. Len(resv) \in Nat /\ DOMAIN resv = 1 .. Len(resv) /\ DOMAIN resv' = 1 .. Len(resv')
      /\ Len(resv') \in Nat
  BY <1>2
<1>4. ASSUME NEW j \in DOMAIN resv', j <= Len(resv), resv'[j].status = "PENDING"
      PROVE  j \in DOMAIN resv /\ resv[j].status = "PENDING" /\ KeyOf(resv[j]) = KeyOf(resv'[j])
  <2>1. j \in DOMAIN resv
    BY <1>3, <1>4
  <2>2. resv'[j] = IF j \in DOMAIN w.rows THEN w.rows[j] ELSE resv[j]
    BY <2>1, CommittedRows
  <2> QED  BY <1>1, <1>4, <2>1, <2>2 DEF Asks
<1>5. ASSUME NEW j \in DOMAIN resv', ~(j <= Len(resv)), resv'[j].status = "PENDING"
      PROVE  /\ j = Len(resv) + 1 /\ NobodyAsks(KeyOf(resv'[j]))
             /\ Asked(KeyOf(resv'[j])) \in w.reads \cap w.writes
  <2>1. j \in Nat /\ j > Len(resv)
    BY <1>3, <1>5
  <2>2. j - Len(resv) \in DOMAIN w.add /\ resv'[j] = w.add[j - Len(resv)]
    BY <2>1, CommittedRows
  <2>3. j = Len(resv) + 1
    <3> DEFINE n == Len(w.add)
    <3>1. n \in Nat /\ DOMAIN w.add = 1 .. n /\ n <= 1
      BY <1>2
    <3> HIDE DEF n
    <3> QED  BY <1>3, <2>1, <2>2, <3>1
  <2> QED  BY <1>1, <1>5, <2>2, <2>3 DEF Asks
<1> HIDE DEF w
<1>6. OneOpenRequest'
  <2> SUFFICES ASSUME NEW i \in DOMAIN resv', NEW j \in DOMAIN resv',
                      resv'[i].status = "PENDING", resv'[j].status = "PENDING",
                      KeyOf(resv'[i]) = KeyOf(resv'[j])
               PROVE  i = j
    BY DEF OneOpenRequest, KeyOf
  <2>1. CASE i <= Len(resv) /\ j <= Len(resv)
    BY <1>4, <2>1 DEF OneAsks, OneOpenRequest, KeyOf
  <2>2. CASE i <= Len(resv) /\ ~(j <= Len(resv))
    BY <1>4, <1>5, <2>2 DEF NobodyAsks
  <2>3. CASE ~(i <= Len(resv)) /\ j <= Len(resv)
    BY <1>4, <1>5, <2>3 DEF NobodyAsks
  <2>4. CASE ~(i <= Len(resv)) /\ ~(j <= Len(resv))
    BY <1>5, <2>4
  <2> QED  BY <2>1, <2>2, <2>3, <2>4
<1>7. Announced(w.reads, w.writes)
  BY <1>4, <1>5 DEF Announced
<1>8. Covering(w.reads, w.writes)
  BY CommitCovers DEF w
<1> QED  BY <1>1, <1>6, <1>7, <1>8, CommittedKeepsAsks

\* A release opens no request.
LEMMA ReleaseAsks ==
  ASSUME IInv, OneAsks, NEW p \in Session, ReleaseWrite(p)
  PROVE  OneAsks'
<1> DEFINE i == rel[p].row
<1>1. /\ resv \in Seq(Reservation) /\ rel[p].to \in {"CANCELLED", "RELEASED"}
      /\ \A j \in DOMAIN resv : resv[j] \in Reservation
  BY DEF IInv, Safe, TypeOK
<1>2. /\ DOMAIN resv' = DOMAIN resv
      /\ \A j \in DOMAIN resv :
           resv'[j] = IF j = i THEN [resv[j] EXCEPT !.status = rel[p].to] ELSE resv[j]
  BY <1>1 DEF ReleaseWrite
<1>3. \A j \in DOMAIN resv : resv'[j].status = "PENDING" => resv'[j] = resv[j]
  BY <1>1, <1>2 DEF Reservation
<1>4. OneOpenRequest'
  BY <1>2, <1>3 DEF OneAsks, OneOpenRequest
<1>5. Announced({}, {Row(i)})
  BY <1>2, <1>3 DEF Announced
<1>6. Covering({}, {Row(i)}) /\ Committed(p, "idle", {}, {Row(i)})
  BY <1>2 DEF Covering, ReleaseWrite, IInv, Safe, TypeOK
<1> QED  BY <1>4, <1>5, <1>6, CommittedKeepsAsks

\* Every step leaves one open request for each order and line.
LEMMA NextAsks ==
  ASSUME IInv, OneAsks, [Next]_vars
  PROVE  OneAsks'
<1>1. ASSUME NEW p \in Session, Finish(p)
      PROVE  OneAsks'
  <2>1. Retry(p) \/ Refuse(p) => \A q \in Session : pc'[q] = "tx" => pc[q] = "tx"
    BY DEF Retry, Refuse, IInv, Safe, TypeOK
  <2>2. CASE Retry(p)
    BY <2>1, <2>2, AsideKeepsAsks DEF Retry, tables
  <2>3. CASE Refuse(p)
    BY <2>1, <2>3, AsideKeepsAsks DEF Refuse, tables
  <2> QED  BY <1>1, <2>2, <2>3, CommitAsks, ReleaseAsks DEF Finish
<1>2. ASSUME NEW p \in Session, NEW i \in DOMAIN resv, ReleaseRead(p, i)
      PROVE  OneAsks'
  <2>1. \A q \in Session : pc'[q] = "tx" => pc[q] = "tx"
    BY <1>2 DEF ReleaseRead, IInv, Safe, TypeOK
  <2> QED  BY <1>2, <2>1, AsideKeepsAsks DEF ReleaseRead, tables
<1>3. ASSUME NEW l \in Location, NEW signed, ApplyMovement(l, signed)
      PROVE  OneAsks'
  <2>1. UNCHANGED resv /\ Committed(Nobody, "idle", {}, {Shelf(l)})
    BY <1>3 DEF ApplyMovement
  <2>2. OneOpenRequest' /\ Announced({}, {Shelf(l)})
    BY <2>1 DEF OneAsks, OneOpenRequest, Announced
  <2>3. Covering({}, {Shelf(l)})
    BY <1>3 DEF Covering, ApplyMovement, IInv, Safe, TypeOK
  <2> QED  BY <2>1, <2>2, <2>3, CommittedKeepsAsks
<1>4. ASSUME NEW l \in Location, NEW q, ReceiveStock(l, q) \/ AdjustStock(l, q)
      PROVE  OneAsks'
  BY <1>3, <1>4 DEF ReceiveStock, AdjustStock
<1>5. ASSUME NEW o \in Order, SetOrderDone(o)
      PROVE  OneAsks'
  BY <1>5, AsideKeepsAsks DEF SetOrderDone, tables
<1>6. CASE UNCHANGED vars
  BY <1>6, AsideKeepsAsks DEF vars, tables
<1> QED  BY <1>1, <1>2, <1>4, <1>5, <1>6, BodyAsks DEF Next

\* Two people asking at once for one order and line, or one asking again, leave
\* the decider one request: each found none, and each both read and wrote the
\* predicate requests are searched by, so one of their commits is refused.
THEOREM RequestsStaySingle == Spec => []OneOpenRequest
<1>1. Init => IInv /\ OneAsks
  BY InitSafe DEF Init, OneAsks, OneOpenRequest
<1>2. IInv /\ OneAsks /\ [Next]_vars => (IInv /\ OneAsks)'
  BY NextSafe, NextAsks
<1>3. OneAsks => OneOpenRequest
  BY DEF OneAsks
<1> QED  BY <1>1, <1>2, <1>3, PTL DEF Spec

-----------------------------------------------------------------------------
(* What follows from it *)

\* The tables and the sessions always hold what the code stores in them: no
\* balance below zero, no row drawn past counting.
THEOREM TypeCorrect == Spec => []TypeOK
<1>1. IInv => TypeOK
  BY DEF IInv, Safe
<1> QED  BY <1>1, Invariance, PTL

\* applyMovement keeps every location's balance equal to the replay of its
\* movements and above zero, however many people move it at once.
THEOREM BooksAlwaysBalance == Spec => []BooksBalance
<1>1. IInv => BooksBalance
  BY DEF IInv, Safe
<1> QED  BY <1>1, Invariance, PTL

\* No interleaving of decisions, issues, returns, wastage and releases draws a
\* reservation past its quantity or leaves its status at odds with it.
THEOREM RowsStayWellDrawn == Spec => []ReservationLifecycle
<1>1. IInv => ReservationLifecycle
  BY DEF IInv, Safe
<1> QED  BY <1>1, Invariance, PTL

\* Two people returning one order's material at once cannot bring back more
\* than went out.
THEOREM ReturnsAreBounded == Spec => []NoMoreComesBack
<1>1. IInv => NoMoreComesBack
  BY DEF IInv, Safe
<1> QED  BY <1>1, Invariance, PTL

\* A line's issued figure, which a return floors at zero, and its issue log
\* never part.
THEOREM IssueLogsAddUp == Spec => []IssueLogAddsUp
<1>1. IInv => IssueLogAddsUp
  BY DEF IInv, Safe
<1> QED  BY <1>1, Invariance, PTL

\* A row given up stays given up: a transaction that settled a change to it
\* before it was given up is lost.
THEOREM GivenUpForGood == Spec => NoResurrection
<1> DEFINE Kept == \A i \in DOMAIN resv : resv[i].status \in GivenUp => resv'[i].status \in GivenUp
<1>1. ASSUME IInv, [Next]_vars
      PROVE  Kept
  <2>1. ASSUME NEW p \in Session, Commit(p)
        PROVE  Kept
    <3>1. Settled(work[p])
      BY <1>1, <2>1 DEF IInv, Commit
    <3>2. \A i \in DOMAIN resv : resv'[i] = IF i \in DOMAIN work[p].rows THEN work[p].rows[i] ELSE resv[i]
      BY <1>1, <2>1, CommittedRows
    <3> QED  BY <3>1, <3>2 DEF Settled, RowsSettled
  <2>2. ASSUME NEW p \in Session, ReleaseWrite(p)
        PROVE  Kept
    <3>1. rel[p].to \in GivenUp /\ resv \in Seq(Reservation)
      BY <1>1 DEF IInv, Safe, TypeOK, GivenUp
    <3>2. \A i \in DOMAIN resv : resv[i] \in Reservation
      BY <3>1
    <3>3. \A i \in DOMAIN resv :
            resv'[i] = IF i = rel[p].row THEN [resv[i] EXCEPT !.status = rel[p].to] ELSE resv[i]
      BY <2>2, <3>1 DEF ReleaseWrite
    <3> QED  BY <3>1, <3>2, <3>3 DEF Reservation
  <2>3. CASE UNCHANGED resv
    BY <2>3
  <2>4. ASSUME NEW p \in Session, Body(p)
        PROVE  UNCHANGED resv
    BY <1>1, <2>4, BodySafe
  <2>5. ASSUME NEW p \in Session, Retry(p) \/ Refuse(p) \/ \E i \in DOMAIN resv : ReleaseRead(p, i)
        PROVE  UNCHANGED resv
    BY <2>5 DEF Retry, Refuse, ReleaseRead, tables
  <2>6. ASSUME NEW l \in Location, NEW q, ReceiveStock(l, q) \/ AdjustStock(l, q)
        PROVE  UNCHANGED resv
    BY <2>6 DEF ReceiveStock, AdjustStock, ApplyMovement
  <2>7. ASSUME NEW o \in Order, SetOrderDone(o)
        PROVE  UNCHANGED resv
    BY <2>7 DEF SetOrderDone, tables
  <2>8. UNCHANGED vars => UNCHANGED resv
    BY DEF vars, tables
  <2> QED  BY <1>1, <2>1, <2>2, <2>3, <2>4, <2>5, <2>6, <2>7, <2>8 DEF Next, Finish
<1>2. IInv /\ [Next]_vars => [Kept]_vars
  BY <1>1
<1> QED  BY <1>2, Invariance, PTL DEF Spec, NoResurrection

\* Issuing to a line, or returning from it, never touches what another line of
\* the order holds: the rows its transaction settled are the line's own or
\* general, and still are when it commits.
THEOREM ClaimsAreKept == Spec => LineClaimsKept
<1> DEFINE Left == \A n \in Line : issued'[n] # issued[n] =>
                     \A i \in DOMAIN resv : resv[i].line \notin {n, NoLine} => resv'[i] = resv[i]
<1>1. ASSUME IInv, [Next]_vars
      PROVE  Left
  <2>1. ASSUME NEW p \in Session, Commit(p)
        PROVE  Left
    <3> DEFINE w == work[p]
    <3>1. LineSettled(w)
      BY <1>1, <2>1 DEF IInv, Commit, Settled
    <3>2. \A i \in DOMAIN resv : resv'[i] = IF i \in DOMAIN w.rows THEN w.rows[i] ELSE resv[i]
      BY <1>1, <2>1, CommittedRows
    <3>3. \A n \in Line : issued'[n] # issued[n] => n \in DOMAIN w.issued
      BY <2>1 DEF Commit
    <3> QED  BY <3>1, <3>2, <3>3 DEF LineSettled
  <2>2. CASE UNCHANGED issued
    BY <2>2
  <2>3. ASSUME NEW p \in Session, Body(p)
        PROVE  UNCHANGED issued
    <3>1. \A w : Run(p, w) => UNCHANGED issued
      BY DEF Run, tables
    <3>2. ASSUME NEW k \in Key, NEW q \in Qty, ReserveForOrder(p, k, q)
          PROVE  UNCHANGED issued
      BY <3>1, <3>2 DEF ReserveForOrder
    <3>3. ASSUME NEW i \in DOMAIN resv, NEW accept \in BOOLEAN, DecideReservation(p, i, accept)
          PROVE  UNCHANGED issued
      BY <3>1, <3>3 DEF DecideReservation
    <3>4. ASSUME NEW k \in Key, NEW l \in Location, NEW q \in Qty,
                 IssueToProduction(p, k, l, q) \/ ReturnFromProduction(p, k, l, q)
          PROVE  UNCHANGED issued
      BY <3>1, <3>4 DEF IssueToProduction, ReturnFromProduction
    <3>5. ASSUME NEW k, NEW l \in Location, NEW q \in Qty, RecordWastage(p, k, l, q)
          PROVE  UNCHANGED issued
      BY <3>1, <3>5 DEF RecordWastage
    <3> QED  BY <2>3, <3>2, <3>3, <3>4, <3>5 DEF Body
  <2>4. ASSUME NEW p \in Session,
               Retry(p) \/ Refuse(p) \/ ReleaseWrite(p) \/ \E i \in DOMAIN resv : ReleaseRead(p, i)
        PROVE  UNCHANGED issued
    BY <2>4 DEF Retry, Refuse, ReleaseWrite, ReleaseRead, tables
  <2>5. ASSUME NEW l \in Location, NEW q, ReceiveStock(l, q) \/ AdjustStock(l, q)
        PROVE  UNCHANGED issued
    BY <2>5 DEF ReceiveStock, AdjustStock, ApplyMovement
  <2>6. ASSUME NEW o \in Order, SetOrderDone(o)
        PROVE  UNCHANGED issued
    BY <2>6 DEF SetOrderDone, tables
  <2>7. UNCHANGED vars => UNCHANGED issued
    BY DEF vars, tables
  <2> QED  BY <1>1, <2>1, <2>2, <2>3, <2>4, <2>5, <2>6, <2>7 DEF Next, Finish
<1>2. IInv /\ [Next]_vars => [Left]_vars
  BY <1>1
<1> QED  BY <1>2, Invariance, PTL DEF Spec, LineClaimsKept

-----------------------------------------------------------------------------
(* The loops of calc/inventory.ts.  FoldLeft folds over sets of positions,   *)
(* the last of each taken first; what it makes of the first k rows is what   *)
(* the loop has after k rows.                                               *)

\* What the loop has before the first row, and after one row more.
Before(qty) == [moved |-> <<>>, left |-> Max({0, qty})]
After(acc, cap) ==
  [moved |-> Append(acc.moved, Min({cap, acc.left})), left |-> acc.left - Min({cap, acc.left})]

\* The last of some rows.
LastRow(s) == CHOOSE x \in s : \A y \in s : x >= y

\* What the fold defines: what the loop makes of each subset of the rows D.
Loops(it, caps, qty, D) ==
  it = [s \in SUBSET D |->
         IF s = {} THEN Before(qty) ELSE After(it[s \ {LastRow(s)}], caps[LastRow(s)])]

LEMMA WalkIsFold ==
  ASSUME NEW caps, NEW qty
  PROVE  Walk(caps, qty)
           = (CHOOSE it : Loops(it, caps, qty, DOMAIN caps))[DOMAIN caps].moved
BY DEF Walk, FoldLeft, MapThenFoldSet, Loops, Before, After, LastRow, Max

LEMMA LoopAt ==
  ASSUME NEW it, NEW caps, NEW qty, NEW D, Loops(it, caps, qty, D), NEW s \in SUBSET D
  PROVE  it[s] = IF s = {} THEN Before(qty) ELSE After(it[s \ {LastRow(s)}], caps[LastRow(s)])
<1> DEFINE g == [r \in SUBSET D |->
                  IF r = {} THEN Before(qty) ELSE After(it[r \ {LastRow(r)}], caps[LastRow(r)])]
<1>1. it = g
  BY DEF Loops
<1>2. g[s] = IF s = {} THEN Before(qty) ELSE After(it[s \ {LastRow(s)}], caps[LastRow(s)])
  OBVIOUS
<1> HIDE DEF g
<1> QED  BY <1>1, <1>2

\* What the loop makes of some rows, it makes of all but the last and of the last.
Continues(it, caps, s) == it[s] = After(it[s \ {LastRow(s)}], caps[LastRow(s)])

LEMMA LoopStep ==
  ASSUME NEW it, NEW caps, NEW qty, NEW D, Loops(it, caps, qty, D), NEW s \in SUBSET D, s # {}
  PROVE  Continues(it, caps, s)
<1> DEFINE v == After(it[s \ {LastRow(s)}], caps[LastRow(s)])
<1>1. it[s] = IF s = {} THEN Before(qty) ELSE v
  BY LoopAt
<1> HIDE DEF v
<1>2. it[s] = v
  BY <1>1
<1> QED  BY <1>2 DEF v, Continues

\* Of some of the rows T there is always a last.
EachHasLast(T) == \A s \in SUBSET T : s # {} => LastRow(s) \in s

\* Two loops over the same rows agree on every set of them both are defined for.
LEMMA LoopUnique ==
  ASSUME NEW caps, NEW qty, NEW A, NEW B, NEW a, Loops(a, caps, qty, A), NEW b, Loops(b, caps, qty, B),
         NEW T, IsFiniteSet(T), T \subseteq A, T \subseteq B,
         EachHasLast(T)
  PROVE  a[T] = b[T]
<1> DEFINE C == {s \in SUBSET T : a[s] # b[s]}
<1> SUFFICES ASSUME C # {}
             PROVE  FALSE
  OBVIOUS
<1>1. PICK s \in C : \A r \in SUBSET s : r # s => r \notin C
  <2>1. C \in SUBSET (SUBSET T)
    OBVIOUS
  <2> HIDE DEF C
  <2> QED  BY <2>1, SmallestSubset
<1>2. s \in SUBSET A /\ s \in SUBSET B
  OBVIOUS
<1>3. CASE s = {}
  <2> HIDE DEF C
  <2>1. a[s] = Before(qty)
    BY <1>2, <1>3, LoopAt
  <2>2. b[s] = Before(qty)
    BY <1>2, <1>3, LoopAt
  <2>3. a[s] # b[s]
    BY <1>1 DEF C
  <2> QED  BY <2>1, <2>2, <2>3
<1>4. CASE s # {}
  <2> DEFINE r == s \ {LastRow(s)}
  <2>1. r \in SUBSET s /\ r # s
    BY <1>4 DEF EachHasLast
  <2>2. a[r] = b[r]
    BY <1>1, <2>1
  <2>3. Continues(a, caps, s)
    BY <1>2, <1>4, LoopStep
  <2>4. Continues(b, caps, s)
    BY <1>2, <1>4, LoopStep
  <2>5. a[s] = After(a[r], caps[LastRow(s)]) /\ b[s] = After(b[r], caps[LastRow(s)])
    BY <2>3, <2>4 DEF Continues
  <2> HIDE DEF r
  <2> QED  BY <2>2, <2>5
<1> QED  BY <1>3, <1>4

\* There is a loop over every finite set of rows.
LEMMA LoopExists ==
  ASSUME NEW caps, NEW qty, NEW T, IsFiniteSet(T), EachHasLast(T)
  PROVE  \E it : Loops(it, caps, qty, T)
<1> DEFINE C == {s \in SUBSET T : ~ \E it : Loops(it, caps, qty, s)}
<1> SUFFICES ASSUME C # {}
             PROVE  FALSE
  OBVIOUS
<1>1. PICK s \in C : \A r \in SUBSET s : r # s => r \notin C
  <2>1. C \in SUBSET (SUBSET T)
    OBVIOUS
  <2> HIDE DEF C
  <2> QED  BY <2>1, SmallestSubset
<1> DEFINE Made(r) == (CHOOSE it : Loops(it, caps, qty, r))[r]
<1>2. ASSUME NEW r \in SUBSET s, r # s
      PROVE  Made(r) = IF r = {} THEN Before(qty) ELSE After(Made(r \ {LastRow(r)}), caps[LastRow(r)])
  <2> DEFINE it == CHOOSE it : Loops(it, caps, qty, r)
             q == r \ {LastRow(r)}
             jt == CHOOSE jt : Loops(jt, caps, qty, q)
  <2>1. Loops(it, caps, qty, r)
    BY <1>1, <1>2
  <2>2. q \subseteq r /\ q \in SUBSET s /\ q # s
    BY <1>2
  <2>3. Loops(jt, caps, qty, q)
    BY <1>1, <2>2
  <2>4. IsFiniteSet(q) /\ q \subseteq T /\ EachHasLast(q)
    BY <2>2, FS_Subset DEF EachHasLast
  <2>5. it[q] = jt[q]
    <3> HIDE DEF it, jt, q
    <3> QED  BY <2>1, <2>2, <2>3, <2>4, LoopUnique
  <2>6. it[r] = IF r = {} THEN Before(qty) ELSE After(it[q], caps[LastRow(r)])
    <3> HIDE DEF it
    <3> QED  BY <2>1, LoopAt
  <2> QED  BY <2>5, <2>6
<1> HIDE DEF Made
<1> DEFINE g == [r \in SUBSET s |->
                  IF r = {} THEN Before(qty) ELSE After(Made(r \ {LastRow(r)}), caps[LastRow(r)])]
<1>3. ASSUME NEW r \in SUBSET s, r # {}
      PROVE  g[r \ {LastRow(r)}] = Made(r \ {LastRow(r)})
  <2>1. LastRow(r) \in r
    BY <1>3 DEF EachHasLast
  <2>2. r \ {LastRow(r)} \in SUBSET s /\ r \ {LastRow(r)} # s
    BY <2>1
  <2> QED  BY <1>2, <2>2
<1>4. \A r \in SUBSET s :
        g[r] = IF r = {} THEN Before(qty) ELSE After(g[r \ {LastRow(r)}], caps[LastRow(r)])
  BY <1>3
<1>5. g = [r \in SUBSET s |-> g[r]]
  OBVIOUS
<1> HIDE DEF g
<1>6. g = [r \in SUBSET s |->
            IF r = {} THEN Before(qty) ELSE After(g[r \ {LastRow(r)}], caps[LastRow(r)])]
  BY <1>4, <1>5
<1>7. Loops(g, caps, qty, s)
  BY <1>6 DEF Loops
<1> QED  BY <1>1, <1>7

\* There is a last one of every set of rows.
LEMMA LastIn ==
  ASSUME NEW n \in Nat, NEW s \in SUBSET (1 .. n), s # {}
  PROVE  LastRow(s) \in s
<1> DEFINE C == {n - k : k \in s}
<1>1. C \in SUBSET Nat /\ C # {}
  <2>1. \A k \in s : n - k \in Nat
    OBVIOUS
  <2>2. PICK k \in s : TRUE
    OBVIOUS
  <2>3. n - k \in C
    BY <2>2
  <2> QED  BY <2>1, <2>3
<1>2. PICK c \in C : \A m \in C : c <= m
  <2> HIDE DEF C
  <2> QED  BY <1>1, LeastOne
<1>3. PICK x \in s : c = n - x
  BY <1>2
<1>4. \A y \in s : x >= y
  <2> TAKE y \in s
  <2>1. n - y \in C
    OBVIOUS
  <2>2. n - x <= n - y
    BY <1>2, <1>3, <2>1
  <2> QED  BY <2>2
<1> QED  BY <1>4 DEF LastRow

\* What a loop has after each of n rows: `left` is what is still to move, a row takes
\* what fits, and the rows that come after take the rest.
Course(w, left, caps, qty, n) ==
  /\ left \in [0 .. n -> Nat] /\ left[0] = qty
  /\ w \in [1 .. n -> Nat]
  /\ \A k \in 1 .. n : /\ w[k] = IF caps[k] <= left[k - 1] THEN caps[k] ELSE left[k - 1]
                       /\ left[k] = left[k - 1] - w[k]

\* After one row more.
LEMMA OneRowMore ==
  ASSUME NEW acc, NEW cap, NEW c, Min({cap, acc.left}) = c
  PROVE  After(acc, cap).moved = Append(acc.moved, c) /\ After(acc, cap).left = acc.left - c
<1>1. After(acc, cap) = [moved |-> Append(acc.moved, c), left |-> acc.left - c]
  BY DEF After
<1> DEFINE m == Append(acc.moved, c)
           l == acc.left - c
<1> HIDE DEF m, l
<1>2. [moved |-> m, left |-> l].moved = m /\ [moved |-> m, left |-> l].left = l
  OBVIOUS
<1> QED  BY <1>1, <1>2 DEF m, l

\* The loop over n rows takes them one after another.
LEMMA LoopNext ==
  ASSUME NEW n \in Nat, NEW D, D = 1 .. n,
         NEW it, NEW caps, NEW qty, Loops(it, caps, qty, D), NEW k \in D
  PROVE  it[1 .. k] = After(it[1 .. k - 1], caps[k])
<1> DEFINE s == 1 .. k
<1>1. s \in SUBSET D /\ s # {} /\ k \in s /\ \A y \in s : k >= y
  OBVIOUS
<1>2. LastRow(s) = k
  <2>1. \A x \in s : (\A y \in s : x >= y) => x = k
    OBVIOUS
  <2> HIDE DEF s
  <2> QED  BY <1>1, <2>1 DEF LastRow
<1>3. s \ {k} = 1 .. k - 1
  OBVIOUS
<1> HIDE DEF s
<1>4. Continues(it, caps, s)
  BY <1>1, LoopStep
<1> QED  BY <1>2, <1>3, <1>4 DEF s, Continues

\* The loop over n rows runs its course.
LEMMA WalkRuns ==
  ASSUME NEW n \in Nat, NEW caps \in [1 .. n -> Nat], NEW qty \in Nat
  PROVE  \E left : Course(Walk(caps, qty), left, caps, qty, n)
<1> DEFINE D == 1 .. n
           it == CHOOSE it : Loops(it, caps, qty, D)
           at(k) == it[1 .. k]
           take(k) == IF caps[k] <= at(k - 1).left THEN caps[k] ELSE at(k - 1).left
<1>1. DOMAIN caps = D /\ IsFiniteSet(D)
  <2>1. 1 \in Int /\ n \in Int
    OBVIOUS
  <2> QED  BY <2>1, FS_Interval
<1>2. Loops(it, caps, qty, D)
  <2>1. EachHasLast(D)
    BY LastIn DEF EachHasLast
  <2> HIDE DEF D
  <2> QED  BY <1>1, <2>1, LoopExists
<1>3. Walk(caps, qty) = at(n).moved
  BY <1>1, WalkIsFold
<1> HIDE DEF it
<1>4. at(0) = Before(qty)
  <2>1. 1 .. 0 = {} /\ 1 .. 0 \in SUBSET D
    OBVIOUS
  <2> HIDE DEF D
  <2> QED  BY <1>2, <2>1, LoopAt
<1>5. \A k \in D : at(k) = After(at(k - 1), caps[k])
  <2> HIDE DEF D
  <2>1. Loops(it, caps, qty, D) /\ n \in Nat /\ D = 1 .. n
    BY <1>2 DEF D
  <2> QED  BY <2>1, LoopNext
<1>6. at(0).moved = <<>> /\ at(0).left = qty
  BY <1>4, MaxOfTwo DEF Before
<1> DEFINE Ran(k) ==
             /\ at(k).moved \in Seq(Nat) /\ Len(at(k).moved) = k /\ at(k).left \in Nat
             /\ \A i \in 1 .. k : at(k).moved[i] = take(i)
<1> HIDE DEF at
<1>7. ASSUME NEW k \in 1 .. n, Ran(k - 1)
      PROVE  Ran(k) /\ at(k).left = at(k - 1).left - take(k) /\ take(k) \in Nat
  <2> DEFINE acc == at(k - 1)
  <2>1. caps[k] \in Nat /\ k - 1 \in Nat
    OBVIOUS
  <2>2. acc.moved \in Seq(Nat) /\ acc.left \in Nat /\ Len(acc.moved) = k - 1
    BY <1>7
  <2>3. /\ at(k).moved = Append(acc.moved, take(k)) /\ at(k).moved \in Seq(Nat)
        /\ take(k) \in Nat /\ at(k).left = acc.left - take(k) /\ at(k).left \in Nat
    <3> HIDE DEF acc
    <3>1. at(k) = After(acc, caps[k])
      BY <1>5 DEF acc
    <3>2. take(k) = IF caps[k] <= acc.left THEN caps[k] ELSE acc.left
      BY DEF acc
    <3> DEFINE c == take(k)
               cap == caps[k]
    <3>3. cap \in Nat /\ c = IF cap <= acc.left THEN cap ELSE acc.left
      BY <2>1, <3>2
    <3> HIDE DEF c, cap
    <3>4. acc.left \in Nat
      BY <2>2
    <3>5. Min({cap, acc.left}) = c /\ c \in Nat /\ acc.left - c \in Nat
      <4> DEFINE l == acc.left
      <4>1. l \in Nat /\ c = IF cap <= l THEN cap ELSE l
        BY <3>3, <3>4
      <4> HIDE DEF l
      <4>2. Min({cap, l}) = c /\ c \in Nat /\ l - c \in Nat
        BY <3>3, <4>1, MinOfTwo
      <4> QED  BY <4>2 DEF l
    <3>6. After(acc, cap).moved = Append(acc.moved, c) /\ After(acc, cap).left = acc.left - c
      BY <3>5, OneRowMore, Zenon
    <3>7. Append(acc.moved, c) \in Seq(Nat)
      BY <2>2, <3>5
    <3>8. at(k) = After(acc, cap)
      BY <3>1 DEF cap
    <3> QED  BY <3>5, <3>6, <3>7, <3>8, Zenon DEF c
  <2>4. \A i \in 1 .. k - 1 : acc.moved[i] = take(i)
    BY <1>7
  <2> HIDE DEF acc, take
  <2>5. Len(at(k).moved) = k
    BY <2>1, <2>2, <2>3
  <2>6. \A i \in 1 .. k : at(k).moved[i] = take(i)
    <3> DEFINE sq == acc.moved
               c == take(k)
    <3>1. sq \in Seq(Nat) /\ Len(sq) = k - 1 /\ c \in Nat /\ at(k).moved = Append(sq, c)
      BY <2>2, <2>3
    <3>2. \A i \in 1 .. k - 1 : sq[i] = take(i)
      BY <2>4
    <3>3. c = take(k)
      OBVIOUS
    <3> HIDE DEF sq, c
    <3>4. \A i \in 1 .. k : Append(sq, c)[i] = IF i = k THEN c ELSE sq[i]
      BY <3>1, <2>1
    <3>5. \A i \in 1 .. k : i = k \/ i \in 1 .. k - 1
      BY <2>1
    <3> QED  BY <3>1, <3>2, <3>3, <3>4, <3>5
  <2> QED  BY <2>3, <2>5, <2>6 DEF acc
<1>8. Ran(0)
  <2>1. at(0).moved \in Seq(Nat) /\ Len(at(0).moved) = 0
    <3>1. <<>> \in Seq(Nat) /\ Len(<<>>) = 0
      OBVIOUS
    <3> QED  BY <1>6, <3>1, Zenon
  <2>2. \A i \in 1 .. 0 : at(0).moved[i] = take(i)
    OBVIOUS
  <2> QED  BY <1>6, <2>1, <2>2
<1> HIDE DEF take
<1>9. \A k \in 0 .. n : Ran(k)
  <2> DEFINE C == {k \in 0 .. n : ~ Ran(k)}
  <2> HIDE DEF Ran
  <2> SUFFICES ASSUME C # {} PROVE FALSE
    OBVIOUS
  <2>1. PICK k \in C : \A m \in C : k <= m
    <3>1. C \in SUBSET Nat
      OBVIOUS
    <3> HIDE DEF C
    <3> QED  BY <3>1, LeastOne
  <2>2. k # 0 /\ k \in 1 .. n
    BY <1>8
  <2>3. k - 1 \in 0 .. n /\ k - 1 \notin C
    BY <2>1, <2>2
  <2>4. Ran(k - 1)
    BY <2>3
  <2> QED  BY <1>7, <2>2, <2>4
<1>10. \A k \in 1 .. n : at(k).left = at(k - 1).left - take(k) /\ take(k) \in Nat
  <2> TAKE k \in 1 .. n
  <2>1. k - 1 \in 0 .. n
    OBVIOUS
  <2>2. Ran(k - 1)
    BY <1>9, <2>1
  <2> HIDE DEF Ran
  <2> QED  BY <1>7, <2>2
<1> DEFINE left == [k \in 0 .. n |-> at(k).left]
           w == Walk(caps, qty)
<1>11. /\ w \in [1 .. n -> Nat] /\ \A k \in 1 .. n : w[k] = take(k)
  <2>1. n \in 0 .. n
    OBVIOUS
  <2>2. Ran(n)
    BY <1>9, <2>1
  <2>3. at(n).moved \in [1 .. n -> Nat]
    BY <2>2
  <2> QED  BY <1>3, <2>2, <2>3 DEF at
<1>12. left \in [0 .. n -> Nat] /\ left[0] = qty
  BY <1>6, <1>9
<1>13. \A k \in 1 .. n : /\ left[k - 1] = at(k - 1).left /\ left[k] = at(k).left
  OBVIOUS
<1> HIDE DEF left, w, Ran
<1>14. \A k \in 1 .. n : /\ w[k] = IF caps[k] <= left[k - 1] THEN caps[k] ELSE left[k - 1]
                        /\ left[k] = left[k - 1] - w[k]
  BY <1>10, <1>11, <1>13 DEF take
<1>15. Course(w, left, caps, qty, n)
  BY <1>11, <1>12, <1>14 DEF Course
<1> QED  BY <1>15 DEF w

\* Once there is nothing left to move, there never is.
LEMMA DryStays ==
  ASSUME NEW n \in Nat, NEW caps \in [1 .. n -> Nat], NEW qty \in Nat, NEW w, NEW left,
         Course(w, left, caps, qty, n), NEW i \in 0 .. n, left[i] = 0, NEW j \in i .. n
  PROVE  left[j] = 0
<1> DEFINE C == {k \in i .. n : left[k] # 0}
<1> SUFFICES ASSUME C # {} PROVE FALSE
  OBVIOUS
<1>1. PICK k \in C : \A m \in C : k <= m
  <2>1. C \in SUBSET Nat
    OBVIOUS
  <2> HIDE DEF C
  <2> QED  BY <2>1, LeastOne
<1>2. k \in 1 .. n /\ k - 1 \in i .. n /\ k - 1 \notin C
  BY <1>1
<1>3. left[k - 1] = 0
  BY <1>2
<1>4. caps[k] \in Nat
  BY <1>2
<1>5. w[k] = 0 /\ left[k] = left[k - 1] - w[k]
  BY <1>2, <1>3, <1>4 DEF Course
<1> QED  BY <1>1, <1>3, <1>5

\* What a loop has moved by each row is what is no longer left.
LEMMA MovedByThen ==
  ASSUME NEW n \in Nat, NEW caps \in [1 .. n -> Nat], NEW qty \in Nat, NEW w, NEW left,
         Course(w, left, caps, qty, n), NEW j \in 0 .. n
  PROVE  SumFunctionOnSet(w, 1 .. j) = qty - left[j]
<1> DEFINE C == {k \in 0 .. n : SumFunctionOnSet(w, 1 .. k) # qty - left[k]}
<1> SUFFICES ASSUME C # {} PROVE FALSE
  OBVIOUS
<1>1. PICK k \in C : \A m \in C : k <= m
  <2>1. C \in SUBSET Nat
    OBVIOUS
  <2> HIDE DEF C
  <2> QED  BY <2>1, LeastOne
<1>2. CASE k = 0
  <2>1. 1 .. k = {}
    BY <1>2
  <2>2. SumFunctionOnSet(w, 1 .. k) = 0
    BY <2>1, SumEmpty
  <2>3. qty - left[k] = 0
    BY <1>2 DEF Course
  <2> QED  BY <1>1, <2>2, <2>3
<1>3. CASE k # 0
  <2> DEFINE s == 1 .. k
             r == 1 .. k - 1
  <2>1. k \in 1 .. n /\ k - 1 \in 0 .. n /\ k - 1 \notin C
    BY <1>1, <1>3
  <2>2. SumFunctionOnSet(w, r) = qty - left[k - 1]
    BY <2>1
  <2>3. s \ {k} = r /\ k \in s /\ IsFiniteSet(s)
    <3>1. 1 \in Int /\ k \in Int
      OBVIOUS
    <3>2. IsFiniteSet(s)
      BY <3>1, FS_Interval
    <3> QED  BY <2>1, <3>2
  <2>4. \A x \in s : w[x] \in Int
    <3> HIDE DEF C
    <3>1. \A x \in s : x \in 1 .. n
      BY <2>1
    <3>2. \A x \in 1 .. n : w[x] \in Nat
      BY DEF Course
    <3> HIDE DEF s
    <3> QED  BY <3>1, <3>2
  <2>5. SumFunctionOnSet(w, s) = w[k] + SumFunctionOnSet(w, r)
    <3> HIDE DEF s, r, C
    <3>1. k \in s /\ IsFiniteSet(s)
      BY <2>3
    <3>2. SumFunctionOnSet(w, s) = w[k] + SumFunctionOnSet(w, s \ {k})
      BY <2>4, <3>1, SumSplit
    <3> QED  BY <2>3, <3>2, Zenon
  <2>6. /\ left[k] = left[k - 1] - w[k] /\ w[k] \in Nat
        /\ left[k] \in Nat /\ left[k - 1] \in Nat
    BY <2>1 DEF Course
  <2>7. SumFunctionOnSet(w, s) = qty - left[k]
    <3> DEFINE a == SumFunctionOnSet(w, r)
               b == SumFunctionOnSet(w, s)
    <3>1. a = qty - left[k - 1] /\ b = w[k] + a
      BY <2>2, <2>5
    <3> HIDE DEF a, b, s, r
    <3>2. b = qty - left[k]
      BY <2>6, <3>1
    <3> QED  BY <3>2 DEF b
  <2> QED  BY <1>1, <2>7
<1> QED  BY <1>2, <1>3

\* A loop pours: it fills the rows in turn, at most one of them half way, and moves all
\* that fits.
LEMMA CoursePours ==
  ASSUME NEW n \in Nat, NEW caps \in [1 .. n -> Nat], NEW qty \in Nat, NEW w, NEW left,
         Course(w, left, caps, qty, n), NEW rank \in [1 .. n -> Int], \A k \in 1 .. n : rank[k] = k
  PROVE  Poured(caps, rank, qty, w)
<1> DEFINE D == 1 .. n
<1>1. DOMAIN caps = D /\ DOMAIN w = D
  BY DEF Course
<1>2. IsFiniteSet(D)
  <2>1. 1 \in Int /\ n \in Int
    OBVIOUS
  <2> QED  BY <2>1, FS_Interval
<1>3. ASSUME NEW k \in D
      PROVE  /\ caps[k] \in Nat /\ w[k] \in Nat /\ left[k] \in Nat /\ left[k - 1] \in Nat
             /\ w[k] = (IF caps[k] <= left[k - 1] THEN caps[k] ELSE left[k - 1])
             /\ left[k] = left[k - 1] - w[k]
  <2>1. k - 1 \in 0 .. n /\ k \in 0 .. n
    OBVIOUS
  <2> QED  BY <2>1 DEF Course
<1>4. \A k \in D : w[k] <= caps[k] /\ (w[k] < caps[k] => left[k] = 0)
  <2> TAKE k \in D
  <2> DEFINE before == left[k - 1]
  <2>1. /\ caps[k] \in Nat /\ before \in Nat /\ left[k] = before - w[k]
        /\ w[k] = IF caps[k] <= before THEN caps[k] ELSE before
    BY <1>3
  <2> HIDE DEF before
  <2> QED  BY <2>1
\* Behind a row that is not filled, no row moves anything.
<1>5. ASSUME NEW i \in D, NEW j \in D, i < j, w[i] # caps[i]
      PROVE  w[j] = 0
  <2>1. left[i] = 0
    <3> HIDE DEF D
    <3>1. w[i] \in Nat /\ caps[i] \in Nat
      BY <1>3
    <3>2. w[i] <= caps[i] /\ (w[i] < caps[i] => left[i] = 0)
      BY <1>4
    <3>3. w[i] # caps[i]
      BY <1>5
    <3> DEFINE x == w[i]
               y == caps[i]
    <3>4. x \in Nat /\ y \in Nat /\ x <= y /\ x # y /\ (x < y => left[i] = 0)
      BY <3>1, <3>2, <3>3
    <3> HIDE DEF x, y
    <3> QED  BY <3>4
  <2>2. i \in 0 .. n /\ j - 1 \in i .. n
    BY <1>5
  <2>3. left[j - 1] = 0
    <3> DEFINE m == j - 1
    <3>1. m \in i .. n
      BY <2>2
    <3> HIDE DEF m, D
    <3>2. left[m] = 0
      BY <2>1, <2>2, <3>1, DryStays
    <3> QED  BY <3>2 DEF m
  <2> QED  BY <1>3, <2>3
<1>6. \A i, j \in D : rank[i] < rank[j] /\ w[j] > 0 => w[i] = caps[i]
  <2> SUFFICES ASSUME NEW i \in D, NEW j \in D, rank[i] < rank[j], w[j] > 0, w[i] # caps[i]
               PROVE  FALSE
    OBVIOUS
  <2>1. i < j
    OBVIOUS
  <2>2. w[j] = 0
    BY <1>5, <2>1
  <2> QED  BY <2>2
<1>7. \A i, j \in D : w[i] \in 1 .. caps[i] - 1 /\ w[j] \in 1 .. caps[j] - 1 => i = j
  <2> SUFFICES ASSUME NEW i \in D, NEW j \in D, i < j, w[i] \in 1 .. caps[i] - 1,
                      w[j] \in 1 .. caps[j] - 1
               PROVE  FALSE
    OBVIOUS
  <2>1. caps[i] \in Nat /\ caps[j] \in Nat
    OBVIOUS
  <2>2. w[i] # caps[i] /\ w[j] # 0
    BY <2>1
  <2>3. w[j] = 0
    BY <1>5, <2>2
  <2> QED  BY <2>2, <2>3
<1>8. SumFunction(w) = Min({qty, SumFunction(caps)})
  <2> DEFINE a == SumFunctionOnSet(w, D)
             b == SumFunctionOnSet(caps, D)
  <2>1. SumFunction(w) = a /\ SumFunction(caps) = b
    BY <1>1 DEF SumFunction
  <2>2. n \in 0 .. n
    OBVIOUS
  <2>3. a = qty - left[n]
    BY <2>2, MovedByThen
  <2>4. left[n] \in Nat
    BY <2>2 DEF Course
  <2> HIDE DEF D
  <2>5. b \in Int /\ a \in Int /\ a <= b
    <3>1. \A k \in D : w[k] \in Int /\ caps[k] \in Int /\ w[k] <= caps[k]
      BY <1>3, <1>4
    <3>2. a <= b
      BY <1>2, <3>1, SumUpTo
    <3>3. a \in Int /\ b \in Int
      BY <1>2, <3>1, SumIsInt
    <3> QED  BY <3>2, <3>3
  <2>6. left[n] # 0 => a = b
    <3> SUFFICES ASSUME left[n] # 0 PROVE a = b
      OBVIOUS
    <3>1. \A k \in D : w[k] = caps[k]
      <4> TAKE k \in D
      <4>1. k \in 0 .. n /\ n \in k .. n
        BY DEF D
      <4>2. left[k] # 0
        BY <4>1, DryStays
      <4> QED  BY <1>3, <1>4, <4>2
    <3> QED  BY <1>2, <3>1, SumSame
  <2> HIDE DEF a, b
  <2>7. Min({qty, b}) = IF qty <= b THEN qty ELSE b
    BY <2>5, MinOfTwo
  <2>8. a = Min({qty, b})
    BY <2>3, <2>4, <2>5, <2>6, <2>7
  <2> QED  BY <2>1, <2>8
<1> QED  BY <1>1, <1>4, <1>6, <1>7, <1>8 DEF Poured

\* Of two plans that pour, the one that gives a row less than the other does, and the
\* rows before it as much, would move less in all.
LEMMA NoPourFallsShort ==
  ASSUME NEW n \in Nat, NEW caps \in [1 .. n -> Nat], NEW qty, NEW rank,
         \A k \in 1 .. n : rank[k] = k,
         NEW a \in [1 .. n -> Nat], Poured(caps, rank, qty, a),
         NEW b \in [1 .. n -> Nat], Poured(caps, rank, qty, b),
         NEW i \in 1 .. n, a[i] < b[i], \A k \in 1 .. i - 1 : a[k] = b[k]
  PROVE  FALSE
<1> DEFINE D == 1 .. n
           rest == D \ {i}
<1>1. DOMAIN caps = D /\ DOMAIN a = D /\ DOMAIN b = D
  OBVIOUS
<1>2. IsFiniteSet(D) /\ IsFiniteSet(rest)
  <2>1. 1 \in Int /\ n \in Int
    OBVIOUS
  <2> QED  BY <2>1, FS_Interval, FS_RemoveElement
<1>3. \A k \in D : a[k] \in Nat /\ b[k] \in Nat /\ caps[k] \in Nat
  OBVIOUS
<1>4. b[i] <= caps[i]
  BY <1>1 DEF Poured
<1>5. \A j \in D : i < j => a[j] = 0
  <2> SUFFICES ASSUME NEW j \in D, i < j, a[j] # 0 PROVE FALSE
    OBVIOUS
  <2>1. rank[i] < rank[j] /\ a[j] > 0
    BY <1>3
  <2>2. a[i] = caps[i]
    BY <1>1, <2>1 DEF Poured
  <2> QED  BY <1>3, <1>4, <2>2
<1>6. \A k \in rest : a[k] <= b[k]
  <2> TAKE k \in rest
  <2>1. CASE k < i
    BY <2>1
  <2>2. CASE i < k
    BY <1>3, <1>5, <2>2
  <2> QED  BY <2>1, <2>2
<1> HIDE DEF rest
<1>7. SumFunction(a) = SumFunction(b)
  BY DEF Poured
<1>8. SumFunctionOnSet(a, D) = SumFunctionOnSet(b, D)
  BY <1>1, <1>7 DEF SumFunction
<1>9. \A k \in D : a[k] \in Int /\ b[k] \in Int
  BY <1>3
<1>10. SumFunctionOnSet(a, D) < SumFunctionOnSet(b, D)
  <2>1. i \in D /\ a[i] < b[i]
    OBVIOUS
  <2>2. \A k \in D \ {i} : a[k] <= b[k]
    BY <1>6 DEF rest
  <2> HIDE DEF D
  <2> QED  BY <1>2, <1>9, <2>1, <2>2, SumLess
<1>11. SumFunctionOnSet(a, D) \in Int
  <2> HIDE DEF D
  <2> QED  BY <1>2, <1>9, SumIsInt
<1> QED  BY <1>8, <1>10, <1>11

\* Only one plan pours.
LEMMA OnePour ==
  ASSUME NEW n \in Nat, NEW caps \in [1 .. n -> Nat], NEW qty, NEW rank,
         \A k \in 1 .. n : rank[k] = k,
         NEW a \in [1 .. n -> Nat], Poured(caps, rank, qty, a),
         NEW b \in [1 .. n -> Nat], Poured(caps, rank, qty, b)
  PROVE  a = b
<1> DEFINE C == {k \in 1 .. n : a[k] # b[k]}
<1>c. SUFFICES ASSUME C # {} PROVE FALSE
  <2>1. ASSUME C = {} PROVE a = b
    <3>1. \A k \in 1 .. n : a[k] = b[k]
      BY <2>1
    <3> QED  BY <3>1
  <2> QED  BY <2>1
<1>1. PICK i \in C : \A m \in C : i <= m
  <2>1. C \in SUBSET Nat
    OBVIOUS
  <2> HIDE DEF C
  <2> QED  BY <1>c, <2>1, LeastOne
<1>2. \A k \in 1 .. i - 1 : a[k] = b[k]
  <2> TAKE k \in 1 .. i - 1
  <2>1. k \in 1 .. n /\ ~ (i <= k)
    OBVIOUS
  <2> QED  BY <1>1, <2>1
<1>3. i \in 1 .. n /\ (a[i] < b[i] \/ b[i] < a[i])
  BY <1>1
<1> HIDE DEF C
<1>4. CASE a[i] < b[i]
  BY <1>2, <1>3, <1>4, NoPourFallsShort
<1>5. CASE b[i] < a[i]
  <2>1. \A k \in 1 .. i - 1 : b[k] = a[k]
    BY <1>2
  <2> QED  BY <1>3, <1>5, <2>1, NoPourFallsShort
<1> QED  BY <1>3, <1>4, <1>5

\* A row once a loop has given it this much, or taken it back.
Given(r, sign, give) == IF give > 0 THEN Moved(r, sign * give) ELSE r

\* How much a row was given shows in it.
LEMMA AmountShows ==
  ASSUME NEW r \in Reservation, NEW sign, sign = 1 \/ sign = -1, NEW a \in Nat, NEW b \in Nat,
         Given(r, sign, a) = Given(r, sign, b)
  PROVE  a = b
<1>1. r.consumed \in Int /\ \A g \in Int : Moved(r, g).consumed = r.consumed + g
  BY DEF Moved, Reservation
<1>2. \A g \in Nat : Given(r, sign, g).consumed = r.consumed + sign * g
  <2> TAKE g \in Nat
  <2>1. sign * g \in Int
    OBVIOUS
  <2>2. CASE g > 0
    BY <1>1, <2>1, <2>2 DEF Given
  <2>3. CASE ~(g > 0)
    <3>1. g = 0 /\ sign * g = 0
      BY <2>3
    <3> QED  BY <1>1, <2>3, <3>1 DEF Given
  <2> QED  BY <2>2, <2>3
<1>3. r.consumed + sign * a = r.consumed + sign * b
  BY <1>2
<1> QED  BY <1>1, <1>3

\* What a loop does to its rows is what the plan that pours says, whichever way it moves.
LEMMA LoopIsPour ==
  ASSUME NEW n \in Nat, NEW rows, DOMAIN rows = 1 .. n, \A k \in 1 .. n : rows[k] \in Reservation,
         NEW caps \in [1 .. n -> Nat], NEW qty \in Nat, NEW sign, sign = 1 \/ sign = -1, NEW after,
         \A k \in 1 .. n : after[k] = Given(rows[k], sign, Walk(caps, qty)[k]),
         NEW plan \in [1 .. n -> Nat]
  PROVE  Poured(caps, InTurn(rows), qty, plan) <=> Amounts(rows, after, plan, sign)
<1> DEFINE rank == InTurn(rows)
           w == Walk(caps, qty)
<1> HIDE DEF w
<1>1. PICK left : Course(w, left, caps, qty, n)
  BY WalkRuns DEF w
<1>2. rank \in [1 .. n -> Int] /\ \A k \in 1 .. n : rank[k] = k
  BY DEF InTurn
<1>3. w \in [1 .. n -> Nat]
  BY <1>1 DEF Course
<1> HIDE DEF rank
<1>4. Poured(caps, rank, qty, w)
  BY <1>1, <1>2, CoursePours
<1>5. Poured(caps, rank, qty, plan) <=> plan = w
  BY <1>2, <1>3, <1>4, OnePour
<1>6. \A k \in 1 .. n : after[k] = Given(rows[k], sign, w[k])
  BY DEF w
<1>7. Amounts(rows, after, plan, sign) <=> \A k \in 1 .. n : after[k] = Given(rows[k], sign, plan[k])
  BY DEF Amounts, Given
<1>8. ASSUME Amounts(rows, after, plan, sign)
      PROVE  plan = w
  <2>1. ASSUME NEW k \in 1 .. n
        PROVE  plan[k] = w[k]
    <3>1. Given(rows[k], sign, plan[k]) = Given(rows[k], sign, w[k])
      BY <1>6, <1>7, <1>8
    <3>2. plan[k] \in Nat /\ w[k] \in Nat /\ rows[k] \in Reservation
      BY <1>3
    <3> QED  BY <3>1, <3>2, AmountShows
  <2> QED  BY <1>3, <2>1
<1> QED  BY <1>5, <1>6, <1>7, <1>8 DEF rank

\* The rows a loop may be given are rows of the table.
LEMMA WalksAreRows ==
  ASSUME TypeOK, ReservationLifecycle, NEW status, NEW rows \in Walks(status)
  PROVE  \E n \in Nat : /\ DOMAIN rows = 1 .. n
                        /\ \A k \in 1 .. n : rows[k] \in Reservation /\ WellDrawn(rows[k])
<1> DEFINE S == {i \in DOMAIN resv : resv[i].status \in status}
           n == Cardinality(S)
<1>1. n \in Nat
  <2>1. DOMAIN resv = 1 .. Len(resv) /\ Len(resv) \in Nat
    BY DEF TypeOK
  <2>2. IsFiniteSet(DOMAIN resv)
    <3>1. 1 \in Int /\ Len(resv) \in Int
      BY <2>1
    <3> QED  BY <2>1, <3>1, FS_Interval
  <2>3. IsFiniteSet(S)
    BY <2>2, FS_Subset
  <2> HIDE DEF S
  <2> QED  BY <2>3, FS_CardinalityType
<1>2. \A i \in S : resv[i] \in Reservation /\ WellDrawn(resv[i])
  BY DEF TypeOK, ReservationLifecycle
<1>3. PICK turn \in SetToSeqs(S) : rows = [k \in DOMAIN turn |-> resv[turn[k]]]
  BY DEF Walks
<1> HIDE DEF S
<1>4. turn \in [1 .. n -> S]
  BY <1>3 DEF SetToSeqs
<1> HIDE DEF n
<1>5. DOMAIN rows = 1 .. n /\ \A k \in 1 .. n : rows[k] = resv[turn[k]]
  BY <1>3, <1>4
<1>6. \A k \in 1 .. n : rows[k] \in Reservation /\ WellDrawn(rows[k])
  BY <1>2, <1>4, <1>5
<1> QED  BY <1>1, <1>5, <1>6

\* planReservationDrawDown is the pour over what its rows still hold.
LEMMA DrawPours == TypeOK /\ ReservationLifecycle => DrawIsThePour
<1> SUFFICES ASSUME TypeOK, ReservationLifecycle, NEW rows \in Walks({"ACTIVE"}),
                    NEW q \in 0 .. MaxRows * MaxQty, NEW plan \in [DOMAIN rows -> 0 .. MaxQty]
             PROVE  Poured([k \in DOMAIN rows |-> Outstanding(rows[k])], InTurn(rows), q, plan)
                      <=> Amounts(rows, PlanReservationDrawDown(rows, q), plan, 1)
  BY DEF DrawIsThePour
<1> DEFINE caps == [k \in DOMAIN rows |-> Outstanding(rows[k])]
           after == PlanReservationDrawDown(rows, q)
           w == Walk(caps, q)
<1>1. PICK n \in Nat : /\ DOMAIN rows = 1 .. n
                       /\ \A k \in 1 .. n : rows[k] \in Reservation /\ WellDrawn(rows[k])
  BY WalksAreRows
<1>2. caps \in [1 .. n -> Nat]
  <2>1. ASSUME NEW k \in 1 .. n
        PROVE  Outstanding(rows[k]) \in Nat
    <3>1. rows[k].qty - rows[k].consumed \in Int
      BY <1>1 DEF Reservation
    <3> QED  BY <3>1, MaxOfTwo DEF Outstanding
  <2> QED  BY <1>1, <2>1
<1>3. q \in Nat /\ plan \in [1 .. n -> Nat]
  BY <1>1, BoundAssumption
<1>4. w \in [1 .. n -> Nat]
  <2> HIDE DEF caps
  <2>1. PICK left : Course(w, left, caps, q, n)
    BY <1>2, <1>3, WalkRuns
  <2> QED  BY <2>1 DEF Course
<1>5. after = [k \in DOMAIN rows |-> IF w[k] > 0 THEN Moved(rows[k], w[k]) ELSE rows[k]]
  BY DEF PlanReservationDrawDown
<1> HIDE DEF caps, after, w
<1>6. \A k \in 1 .. n : after[k] = Given(rows[k], 1, w[k])
  <2> TAKE k \in 1 .. n
  <2>1. w[k] = 1 * w[k]
    BY <1>4
  <2> QED  BY <1>1, <1>5, <2>1 DEF Given
<1>7. Poured(caps, InTurn(rows), q, plan) <=> Amounts(rows, after, plan, 1)
  <2>1. \A k \in 1 .. n : rows[k] \in Reservation
    BY <1>1
  <2>2. \A k \in 1 .. n : after[k] = Given(rows[k], 1, Walk(caps, q)[k])
    BY <1>6 DEF w
  <2> QED  BY <1>1, <1>2, <1>3, <2>1, <2>2, LoopIsPour
<1> QED  BY <1>7 DEF caps, after

\* planReservationRestore is the pour over what its rows have given.
LEMMA RestorePours == TypeOK /\ ReservationLifecycle => RestoreIsThePour
<1> SUFFICES ASSUME TypeOK, ReservationLifecycle, NEW rows \in Walks({"ACTIVE", "FULFILLED"}),
                    NEW q \in 0 .. MaxRows * MaxQty, NEW plan \in [DOMAIN rows -> 0 .. MaxQty]
             PROVE  Poured([k \in DOMAIN rows |-> rows[k].consumed], InTurn(rows), q, plan)
                      <=> Amounts(rows, PlanReservationRestore(rows, q), plan, -1)
  BY DEF RestoreIsThePour
<1> DEFINE caps == [k \in DOMAIN rows |-> rows[k].consumed]
           after == PlanReservationRestore(rows, q)
           w == Walk(caps, q)
<1>1. PICK n \in Nat : /\ DOMAIN rows = 1 .. n
                       /\ \A k \in 1 .. n : rows[k] \in Reservation /\ WellDrawn(rows[k])
  BY WalksAreRows
<1>2. caps \in [1 .. n -> Nat]
  BY <1>1 DEF Reservation
<1>3. q \in Nat /\ plan \in [1 .. n -> Nat]
  BY <1>1, BoundAssumption
<1>4. [k \in DOMAIN rows |-> Max({0, rows[k].consumed})] = caps
  <2>1. ASSUME NEW k \in 1 .. n
        PROVE  Max({0, rows[k].consumed}) = rows[k].consumed
    <3>1. rows[k].consumed \in Nat
      BY <1>1 DEF Reservation
    <3> QED  BY <3>1, MaxOfTwo
  <2> QED  BY <1>1, <2>1
<1>5. after = [k \in DOMAIN rows |-> IF w[k] > 0 THEN Moved(rows[k], -w[k]) ELSE rows[k]]
  <2> HIDE DEF caps
  <2> QED  BY <1>4 DEF PlanReservationRestore
<1>6. w \in [1 .. n -> Nat]
  <2> HIDE DEF caps
  <2>1. PICK left : Course(w, left, caps, q, n)
    BY <1>2, <1>3, WalkRuns
  <2> QED  BY <2>1 DEF Course
<1> DEFINE back == -1
<1> HIDE DEF caps, after, w
<1>7. \A k \in 1 .. n : after[k] = Given(rows[k], back, w[k])
  <2> TAKE k \in 1 .. n
  <2>1. -w[k] = back * w[k]
    BY <1>6
  <2> HIDE DEF back
  <2> QED  BY <1>1, <1>5, <2>1 DEF Given
<1>8. Poured(caps, InTurn(rows), q, plan) <=> Amounts(rows, after, plan, back)
  <2>1. \A k \in 1 .. n : rows[k] \in Reservation
    BY <1>1
  <2>2. back = 1 \/ back = -1
    OBVIOUS
  <2> HIDE DEF back
  <2>3. \A k \in 1 .. n : after[k] = Given(rows[k], back, Walk(caps, q)[k])
    BY <1>7 DEF w
  <2> QED  BY <1>1, <1>2, <1>3, <2>1, <2>2, <2>3, LoopIsPour
<1> QED  BY <1>8 DEF caps, after

\* The loops that draw reservations down and give them back do what the declarative
\* plan says of them, over every set of rows there can be, in every order they may be
\* walked in and for every quantity they can come to.
THEOREM LoopsAlwaysPour == Spec => []LoopsPour
<1>1. IInv => LoopsPour
  BY DrawPours, RestorePours DEF IInv, Safe, LoopsPour
<1> QED  BY <1>1, Invariance, PTL

=============================================================================

----------------------------- MODULE Inventory -----------------------------
(***************************************************************************)
(* The stock of one material as services/inventory-service.ts keeps it in   *)
(* PostgreSQL: balances per location, the movement ledger, reservations and *)
(* requests, what is out against each order and what each bill-of-materials *)
(* line has been issued.                                                    *)
(*                                                                          *)
(* People (sessions) work on it at once.  Reserve, decide, issue, return    *)
(* and wastage run in Serializable transactions: the body of one reads a    *)
(* snapshot and settles what it will write (work); its commit, a later      *)
(* step, installs that, unless in between somebody committed a write to a   *)
(* row it writes, or a serializable transaction that both wrote what this   *)
(* one read and read what this one writes.  (PostgreSQL refuses more than   *)
(* that; what is refused here is refused there.)  Receipts and adjustments  *)
(* run in Read Committed transactions, one relative update each.  A release *)
(* runs in no transaction: it reads the row, and updates it in a second     *)
(* statement.                                                               *)
(***************************************************************************)
EXTENDS StockPosition

CONSTANTS
  Session,    \* people signed in, one request in flight each
  Decider,    \* those canDecideReservations accepts
  Editor,     \* those holding material:edit
  Order,
  Line,       \* bill-of-materials lines linked to this material
  LineOrder,  \* the order each line belongs to
  Location,
  NoLine,     \* a reservation or movement that names no line
  NoOrder,    \* wastage against no order
  Nobody,     \* a statement no serializable transaction runs
  MaxRows,    \* bound: reservation rows ever created
  MaxQty,     \* bound: one quantity, one row, and all there is on the shelf and out
  MaxLost,    \* bound: what is ever written off
  Retries     \* withSerializableRetry's retries

ASSUME PeopleAssumption == Decider \subseteq Session /\ Editor \subseteq Session
ASSUME OrderAssumption ==
  LineOrder \in [Line -> Order] /\ NoLine \notin Line /\ NoOrder \notin Order
ASSUME NobodyAssumption == Nobody \notin Session
ASSUME LocationAssumption == IsFiniteSet(Location)
ASSUME BoundAssumption ==
  MaxRows \in Nat /\ MaxQty \in Nat /\ MaxLost \in Nat /\ Retries \in Nat

VARIABLES
  stock,     \* material_stock: balance per location
  ledger,    \* material_movements: signed sum per location
  resv,      \* material_reservations, oldest first
  out,       \* per order: ISSUE less RETURN movements
  issued,    \* bom_items.issuedQty
  issueLog,  \* per line: sum of its material_issues rows
  done,      \* per order: cancelled, shipped or completed
  lost,      \* history: written off beyond what reservations carried
  pc,        \* per session: idle, in a transaction, in one PostgreSQL will refuse
             \* to commit, about to run it again, or between a release's statements
  work,      \* what the session's transaction read and will write
  tries,     \* serialization failures this request has met
  rel        \* the row a release has read and the status it will write

tables == <<stock, ledger, resv, out, issued, issueLog>>
vars == <<tables, done, lost, pc, work, tries, rel>>

Qty == 1 .. MaxQty

Key == {k \in Order \X (Line \cup {NoLine}) : k[2] # NoLine => LineOrder[k[2]] = k[1]}

Reservation ==
  [order: Order, line: Line \cup {NoLine}, qty: Nat \ {0}, consumed: Nat,
   status: ReservationStatus, by: Session]

GivenUp == {"RELEASED", "CANCELLED", "REJECTED"}

KeyOf(r) == <<r.order, r.line>>

OnHand == SumFunction(stock)

\* Mutant of Free: what is promised is not taken off.
FreeIgnoringPromises == OnHand

Free == Available(OnHand, resv)

-----------------------------------------------------------------------------
(* What a transaction reads and writes, as rows and as the predicates rows  *)
(* are searched by.                                                         *)

Shelf(l) == <<"shelf", l>>
Row(i) == <<"row", i>>
LineRow(n) == <<"line", n>>
HeldBy(o) == <<"held", o>>           \* rows drawn or drawable for an order
Asked(k) == <<"asked", k[1], k[2]>>  \* pending requests for a key
OutFor(o) == <<"out", o>>            \* the order's issue and return movements

\* What toMaterialRow reads: every balance and every active reservation.
Position == {Shelf(l) : l \in Location} \cup {HeldBy(o) : o \in Order}

IsRow(x) == x[1] \in {"shelf", "row", "line"}

\* What a transaction has settled to write: whole rows by id, a new row,
\* one relative movement, the order's movements, the line's figure and log.
NoWork ==
  [reads |-> {}, writes |-> {}, rows |-> <<>>, add |-> <<>>,
   moved |-> [l \in Location |-> 0], out |-> [o \in Order |-> 0],
   issued |-> [n \in {} |-> 0], log |-> [n \in Line |-> 0], lost |-> 0]

Only(f, x, v) == [f EXCEPT ![x] = v]

\* Mutants of Clashes: the transactions run Read Committed; only one of
\* PostgreSQL's two tests is made.
ClashesNever(w, reads, writes) == FALSE
ClashesOnRowsOnly(w, reads, writes) == \E x \in w.writes \cap writes : IsRow(x)
ClashesOnReadsOnly(w, reads, writes) ==
  w.reads \cap writes # {} /\ w.writes \cap reads # {}

\* A commit of these writes, by a serializable transaction that read these,
\* dooms the open transaction w.
Clashes(w, reads, writes) ==
  \/ \E x \in w.writes \cap writes : IsRow(x)
  \/ w.reads \cap writes # {} /\ w.writes \cap reads # {}

\* Session p (nobody, for a single statement) commits and the open
\* transactions that clash with it are lost; p goes on to `next`.
Committed(p, next, reads, writes) ==
  LET lose == {q \in Session : pc[q] = "tx" /\ Clashes(work[q], reads, writes)}
  IN  /\ pc' = [q \in Session |-> IF q = p THEN next ELSE IF q \in lose THEN "doomed" ELSE pc[q]]
      /\ work' = [q \in Session |-> IF q = p \/ q \in lose THEN NoWork ELSE work[q]]

\* A serializable transaction has run its body and is about to commit.
Run(p, w) ==
  /\ pc[p] \in {"idle", "again"}
  /\ pc' = [pc EXCEPT ![p] = "tx"]
  /\ work' = [work EXCEPT ![p] = w]
  /\ UNCHANGED <<tables, done, lost, tries, rel>>

Commit(p) ==
  LET w == work[p]
  IN  /\ pc[p] = "tx"
      /\ stock' = [l \in Location |-> stock[l] + w.moved[l]]
      /\ ledger' = [l \in Location |-> ledger[l] + w.moved[l]]
      /\ resv' = [i \in DOMAIN resv |-> IF i \in DOMAIN w.rows THEN w.rows[i] ELSE resv[i]]
                   \o w.add
      /\ out' = [o \in Order |-> out[o] + w.out[o]]
      /\ issued' = [n \in Line |-> IF n \in DOMAIN w.issued THEN w.issued[n] ELSE issued[n]]
      /\ issueLog' = [n \in Line |-> issueLog[n] + w.log[n]]
      /\ lost' = lost + w.lost
      /\ Committed(p, "idle", w.reads, w.writes)
      /\ tries' = [tries EXCEPT ![p] = 0]
      /\ UNCHANGED <<done, rel>>

\* Mutant of Retry: the retries are not counted.
RetryForever(p) ==
  /\ pc[p] = "doomed"
  /\ pc' = [pc EXCEPT ![p] = "again"]
  /\ UNCHANGED <<tables, done, lost, work, tries, rel>>

\* withSerializableRetry: PostgreSQL refused the commit; the body runs again,
\* and after the last retry the request is answered with a conflict.
Retry(p) ==
  /\ pc[p] = "doomed"
  /\ IF tries[p] < Retries
     THEN /\ tries' = [tries EXCEPT ![p] = @ + 1]
          /\ pc' = [pc EXCEPT ![p] = "again"]
     ELSE /\ tries' = [tries EXCEPT ![p] = 0]
          /\ pc' = [pc EXCEPT ![p] = "idle"]
  /\ UNCHANGED <<tables, done, lost, work, rel>>

\* The body, run again, finds that it may no longer do what was asked.  (What
\* was asked is not kept: the body run again is any body, or none.)
Refuse(p) ==
  /\ pc[p] = "again"
  /\ pc' = [pc EXCEPT ![p] = "idle"]
  /\ tries' = [tries EXCEPT ![p] = 0]
  /\ UNCHANGED <<tables, done, lost, work, rel>>

-----------------------------------------------------------------------------
(* The one place stock changes.  The balance moves by a relative update that *)
(* carries its own check, and the movement row is written with it.           *)

\* Mutant of Covers: the update carries no check.
CoversAnything(l, signed) == TRUE

Covers(l, signed) == signed < 0 => stock[l] >= -signed

\* Bound on what enters the books.
Fits(q) == OnHand + SumFunction(out) + q <= MaxQty

ApplyMovement(l, signed) ==
  /\ Covers(l, signed)
  /\ stock' = [stock EXCEPT ![l] = @ + signed]
  /\ ledger' = [ledger EXCEPT ![l] = @ + signed]
  /\ Committed(Nobody, "idle", {}, {Shelf(l)})
  /\ UNCHANGED <<resv, out, issued, issueLog, done, tries, rel>>

ReceiveStock(l, q) == Fits(q) /\ ApplyMovement(l, q) /\ UNCHANGED lost

AdjustStock(l, d) ==
  /\ d # 0 /\ Fits(d)
  /\ lost' = lost + Max({0, -d}) /\ lost' <= MaxLost
  /\ ApplyMovement(l, d)

-----------------------------------------------------------------------------
(* Reservations *)

\* A decider's reservation holds stock at once; anyone else's is a request.
\* Reserving part of what was asked only lowers q to what is free.
ReserveForOrder(p, k, q) ==
  LET status == IF p \in Decider THEN "ACTIVE" ELSE "PENDING"
      same == {i \in DOMAIN resv : KeyOf(resv[i]) = k /\ resv[i].status = status}
      row == [order |-> k[1], line |-> k[2], qty |-> q, consumed |-> 0,
              status |-> status, by |-> p]
      w == [NoWork EXCEPT !.reads = Position \cup {Asked(k)},
                          !.writes = {IF p \in Decider THEN HeldBy(k[1]) ELSE Asked(k)}]
  IN  /\ q <= Free
      /\ \/ /\ same = {} /\ Len(resv) < MaxRows
            /\ Run(p, [w EXCEPT !.add = <<row>>])
         \/ \E i \in same :
              /\ status = "PENDING" => \A j \in same : i <= j
              /\ resv[i].qty + q <= MaxQty   \* bound
              /\ Run(p, [w EXCEPT !.writes = @ \cup {Row(i)},
                                  !.rows = [j \in {i} |-> [resv[j] EXCEPT !.qty = @ + q]]])

\* Accepting checks again what is free; rejecting holds nothing.
DecideReservation(p, i, accept) ==
  LET r == resv[i]
      to == IF accept THEN "ACTIVE" ELSE "REJECTED"
  IN  /\ p \in Decider
      /\ r.status = "PENDING"
      /\ accept => r.qty <= Free
      /\ Run(p, [NoWork EXCEPT
           !.reads = Position \cup {Row(i)},
           !.writes = {Row(i), Asked(KeyOf(r))} \cup (IF accept THEN {HeldBy(r.order)} ELSE {}),
           !.rows = [j \in {i} |-> [resv[j] EXCEPT !.status = to]]])

\* releaseReservation's findUnique and the checks made on what it returned.
ReleaseRead(p, i) ==
  /\ pc[p] = "idle"
  /\ \/ /\ resv[i].status = "PENDING"
        /\ resv[i].by = p \/ p \in Decider
        /\ rel' = [rel EXCEPT ![p] = [row |-> i, to |-> "CANCELLED"]]
     \/ /\ resv[i].status = "ACTIVE"
        /\ p \in Editor \cup Decider
        /\ rel' = [rel EXCEPT ![p] = [row |-> i, to |-> "RELEASED"]]
  /\ pc' = [pc EXCEPT ![p] = "release"]
  /\ UNCHANGED <<tables, done, lost, work, tries>>

NoRelease == [row |-> 0, to |-> "CANCELLED"]

\* Its update, by id alone.
ReleaseWrite(p) ==
  /\ pc[p] = "release"
  /\ resv' = [resv EXCEPT ![rel[p].row].status = rel[p].to]
  /\ rel' = [rel EXCEPT ![p] = NoRelease]
  /\ Committed(p, "idle", {}, {Row(rel[p].row)})
  /\ UNCHANGED <<stock, ledger, out, issued, issueLog, done, lost, tries>>

-----------------------------------------------------------------------------
(* Issue, return, wastage *)

\* The rows of order o a movement naming line n may touch: the line's own and
\* the general allocation, or the general allocation alone.
InScope(r, o, n) == r.order = o /\ r.line \in {n, NoLine}

Plan(q) == [DOMAIN resv -> 0 .. q]
Hit(plan) == {i \in DOMAIN plan : plan[i] > 0}

\* What a movement of `signed` at l writes beside the order's figures: the
\* balance, and the rows its plan touches (applyReservationChanges).
MovementWork(o, l, signed, plan, sign) ==
  [NoWork EXCEPT
     !.reads = {Shelf(l)},
     !.writes = {Shelf(l)} \cup {Row(i) : i \in Hit(plan)}
                           \cup (IF Hit(plan) = {} THEN {} ELSE {HeldBy(o)}),
     !.rows = [i \in Hit(plan) |-> Moved(resv[i], sign * plan[i])],
     !.moved = Only(@, l, signed)]

\* The same for a movement against the order, which its line's issued figure
\* and log follow.
OrderWork(k, l, signed, plan, sign, figure) ==
  LET w == MovementWork(k[1], l, signed, plan, sign)
  IN  IF k[2] = NoLine
      THEN [w EXCEPT !.writes = @ \cup {OutFor(k[1])}, !.out = Only(@, k[1], -signed)]
      ELSE [w EXCEPT !.writes = @ \cup {OutFor(k[1]), LineRow(k[2])},
                     !.out = Only(@, k[1], -signed),
                     !.issued = [n \in {k[2]} |-> figure],
                     !.log = Only(@, k[2], figure - issued[k[2]])]

\* Oldest reservation first; what they cannot cover must be free.
IssueToProduction(p, k, l, q) ==
  LET cap == [i \in DOMAIN resv |-> IF InScope(resv[i], k[1], k[2]) THEN Held(resv[i]) ELSE 0]
      age == [i \in DOMAIN resv |-> i]
      figure == IF k[2] = NoLine THEN 0 ELSE issued[k[2]] + q
  IN  /\ q - Min({q, SumFunction(cap)}) <= Free
      /\ Covers(l, -q)
      /\ figure <= MaxQty   \* bound
      /\ \E plan \in Plan(q) :
           /\ Poured(cap, age, q, plan)
           /\ Run(p, [OrderWork(k, l, -q, plan, 1, figure) EXCEPT !.reads = @ \cup Position])

\* Mutant of IssuedAfterReturn: the figure is not kept from going below zero.
IssuedLess(n, q) == issued[n] - q

\* A line's issued figure once q has come back.
IssuedAfterReturn(n, q) == Max({0, issued[n] - q})

\* No more than is out.  While the order is live it goes back on the rows it
\* was drawn from, the line's own before the general allocation (within each
\* most recently updated first: any order here).
ReturnFromProduction(p, k, l, q) ==
  LET drawn(r) == ~done[k[1]] /\ InScope(r, k[1], k[2]) /\ r.status \in {"ACTIVE", "FULFILLED"}
      cap == [i \in DOMAIN resv |-> IF drawn(resv[i]) THEN resv[i].consumed ELSE 0]
      general == [i \in DOMAIN resv |-> IF resv[i].line = NoLine THEN 1 ELSE 0]
      figure == IF k[2] = NoLine THEN 0 ELSE IssuedAfterReturn(k[2], q)
      reads == {OutFor(k[1])} \cup (IF done[k[1]] THEN {} ELSE {HeldBy(k[1])})
  IN  /\ q <= out[k[1]]
      /\ \E plan \in Plan(q) :
           /\ Poured(cap, general, q, plan)
           /\ Run(p, [OrderWork(k, l, q, plan, -1, figure) EXCEPT !.reads = @ \cup reads])

\* Written off against an order, it comes off that order's reservations first:
\* the line's and the general ones oldest first, or, no line named, any of the
\* order's, the general ones before the lines' own.
RecordWastage(p, k, l, q) ==
  LET o == k[1]
      carries(r) == r.order = o /\ (k[2] = NoLine \/ InScope(r, o, k[2]))
      cap == [i \in DOMAIN resv |-> IF carries(resv[i]) THEN Held(resv[i]) ELSE 0]
      rank == [i \in DOMAIN resv |->
                IF k[2] = NoLine /\ resv[i].line # NoLine THEN Len(resv) + i ELSE i]
  IN  /\ Covers(l, -q)
      /\ \E plan \in Plan(q), beyond \in 0 .. q :
           /\ Poured(cap, rank, q, plan)
           /\ SumFunction(plan) + beyond = q
           /\ lost + beyond <= MaxLost   \* bound
           /\ Run(p, [MovementWork(o, l, -q, plan, 1) EXCEPT
                        !.reads = @ \cup (IF o = NoOrder THEN {} ELSE {HeldBy(o)}),
                        !.lost = beyond])

-----------------------------------------------------------------------------
\* The order is shipped, completed or cancelled, or put back to live; nothing
\* in the inventory moves with it.
SetOrderDone(o) ==
  /\ done' = [done EXCEPT ![o] = ~@]
  /\ UNCHANGED <<tables, lost, pc, work, tries, rel>>

Init ==
  /\ stock = [l \in Location |-> 0]    /\ ledger = [l \in Location |-> 0]
  /\ resv = <<>>                       /\ out = [o \in Order |-> 0]
  /\ issued = [n \in Line |-> 0]       /\ issueLog = [n \in Line |-> 0]
  /\ done = [o \in Order |-> FALSE]    /\ lost = 0
  /\ pc = [p \in Session |-> "idle"]   /\ work = [p \in Session |-> NoWork]
  /\ tries = [p \in Session |-> 0]     /\ rel = [p \in Session |-> NoRelease]

Body(p) ==
  \/ \E k \in Key, q \in Qty : ReserveForOrder(p, k, q)
  \/ \E i \in DOMAIN resv, accept \in BOOLEAN : DecideReservation(p, i, accept)
  \/ \E k \in Key, l \in Location, q \in Qty :
       IssueToProduction(p, k, l, q) \/ ReturnFromProduction(p, k, l, q)
  \/ \E k \in Key \cup {<<NoOrder, NoLine>>}, l \in Location, q \in Qty :
       RecordWastage(p, k, l, q)

\* What the server does without being asked again.
Finish(p) == Commit(p) \/ Retry(p) \/ Refuse(p) \/ ReleaseWrite(p)

Next ==
  \/ \E p \in Session :
       Body(p) \/ Finish(p) \/ \E i \in DOMAIN resv : ReleaseRead(p, i)
  \/ \E l \in Location, q \in Qty :
       ReceiveStock(l, q) \/ AdjustStock(l, q) \/ AdjustStock(l, -q)
  \/ \E o \in Order : SetOrderDone(o)

Spec == Init /\ [][Next]_vars

FairSpec == Spec /\ \A p \in Session : WF_vars(Finish(p) \/ (pc[p] = "again" /\ Body(p)))

-----------------------------------------------------------------------------
(* Properties *)

\* The tables and the sessions hold what the code stores in them.
TypeOK ==
  /\ stock \in [Location -> Nat]
  /\ ledger \in [Location -> Int]
  /\ resv \in Seq(Reservation)
  /\ out \in [Order -> Int]
  /\ issued \in [Line -> Nat]
  /\ issueLog \in [Line -> Int]
  /\ done \in [Order -> BOOLEAN]
  /\ lost \in Nat
  /\ pc \in [Session -> {"idle", "tx", "doomed", "again", "release"}]
  /\ tries \in [Session -> 0 .. Retries]
  /\ rel \in [Session -> [row: Nat, to: {"CANCELLED", "RELEASED"}]]

\* The running balance of every location is the replay of its movements, and no
\* location goes below zero: applyMovement writes both in one transaction and
\* its update carries its own check, whoever else is moving the same stock.
BooksBalance == \A l \in Location : stock[l] = ledger[l] /\ stock[l] >= 0

WellDrawn(r) ==
  /\ r.consumed <= r.qty
  /\ r.status = "ACTIVE" => r.consumed < r.qty
  /\ r.status = "FULFILLED" => r.consumed = r.qty
  /\ r.status \in {"PENDING", "REJECTED"} => r.consumed = 0

\* A reservation is drawn within its quantity, is finished exactly when it is
\* fully drawn, and a request that holds nothing has given nothing.
ReservationLifecycle == \A i \in DOMAIN resv : WellDrawn(resv[i])

\* No more material ever comes back from the floor than went out to it, even
\* when two people return the same order's material at once.
NoMoreComesBack == \A o \in Order : out[o] >= 0

\* The issue log of a bill-of-materials line adds up to the line's total.
IssueLogAddsUp == \A n \in Line : issueLog[n] = issued[n]

\* Issuing to one line, or returning from it, leaves what other lines of the
\* order hold alone: their rows are not drawn for it nor restored by it.
LineClaimsKept == [][\A n \in Line : issued'[n] # issued[n] =>
  \A i \in DOMAIN resv : resv[i].line \notin {n, NoLine} => resv'[i] = resv[i]]_vars

\* One open request per (material, order, line): asking again, or two people
\* asking at once, adds to the request rather than leaving the decider two.
OneOpenRequest == \A i, j \in DOMAIN resv :
  /\ resv[i].status = "PENDING" /\ resv[j].status = "PENDING"
  /\ resv[i].order = resv[j].order /\ resv[i].line = resv[j].line
  => i = j

\* A reservation given up, withdrawn or rejected never holds stock again: no
\* return, issue or decision working from an earlier read brings it back.
NoResurrection == [][\A i \in DOMAIN resv :
  resv[i].status \in GivenUp => resv'[i].status \in GivenUp]_vars

\* The inventory keeps the promises of the stock account: no interleaving of reserving,
\* accepting, issuing, returning and releasing promises the same metres twice.  What
\* orders are promised exceeds the shelf by no more than was written off it, as the
\* account itself does (NeverOverpromised).
Account == INSTANCE StockAccount WITH
  Quantity <- 1 .. MaxQty, onHand <- OnHand, promised <- Reserved(resv), lost <- lost
ImplementsAccount == Account!Spec

-----------------------------------------------------------------------------
(* Issues, returns and wastage choose any plan that pours (Poured).  The    *)
(* properties below tie that to the loops of calc/inventory.ts, over every  *)
(* set of rows an order comes to hold and every order they may be walked in. *)

\* The rows of these statuses, in each order the service could put them.
Walks(status) ==
  {[k \in DOMAIN turn |-> resv[turn[k]]] :
     turn \in SetToSeqs({i \in DOMAIN resv : resv[i].status \in status})}

InTurn(rows) == [k \in DOMAIN rows |-> k]

\* The loop takes from the rows what the plan says and leaves the others alone.
Amounts(rows, after, plan, sign) == \A k \in DOMAIN rows :
  after[k] = IF plan[k] > 0 THEN Moved(rows[k], sign * plan[k]) ELSE rows[k]

\* Rows only change when a transaction commits: between requests is enough.
Quiet == \A p \in Session : pc[p] = "idle"

\* planReservationDrawDown fills the rows in the order given, stops where the
\* quantity runs out, leaves at most one row half way, and draws all it can; and
\* there is only one plan that does.
DrawIsThePour == \A rows \in Walks({"ACTIVE"}), q \in 0 .. MaxRows * MaxQty :
  LET cap == [k \in DOMAIN rows |-> Outstanding(rows[k])]
      after == PlanReservationDrawDown(rows, q)
  IN  \A plan \in [DOMAIN rows -> 0 .. MaxQty] :
        Poured(cap, InTurn(rows), q, plan) <=> Amounts(rows, after, plan, 1)

\* planReservationRestore gives back in the same way, over as many rows as it
\* takes, never more to a row than it had given: 300 returned to two rows that
\* gave 200 each is 200 and 100.
RestoreIsThePour == \A rows \in Walks({"ACTIVE", "FULFILLED"}), q \in 0 .. MaxRows * MaxQty :
  LET cap == [k \in DOMAIN rows |-> rows[k].consumed]
      after == PlanReservationRestore(rows, q)
  IN  \A plan \in [DOMAIN rows -> 0 .. MaxQty] :
        Poured(cap, InTurn(rows), q, plan) <=> Amounts(rows, after, plan, -1)

\* Either loop moves exactly what the pour moves.
LoopsPour == Quiet => DrawIsThePour /\ RestoreIsThePour

-----------------------------------------------------------------------------
\* Every request is answered: a transaction that keeps losing to others gives
\* up after its retries instead of running for ever.
Answered == \A p \in Session : pc[p] # "idle" ~> pc[p] = "idle"

=============================================================================

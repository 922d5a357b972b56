--------------------------- MODULE OrderMaterials ---------------------------
(***************************************************************************)
(* Reserving everything an order needs in one go: reserveOrderMaterials of  *)
(* services/inventory-service.ts over computeRequirement of calc/inventory. *)
(*                                                                          *)
(* The order's position is read once; then its lines are reserved one after *)
(* the other, each in a transaction of its own, as reserveForOrder does it  *)
(* with allowPartial.  In between other runs reserve the same lines, and    *)
(* people reserve, decide, release, issue, take back and save them.         *)
(*                                                                          *)
(* A line's need and what it was issued are in the line's unit, stock and   *)
(* reservations in the material's; one counts as LineUnit of the line's or  *)
(* StockUnit of the material's in their common base.                        *)
(***************************************************************************)
EXTENDS Integers, SequencesExt

CONSTANTS
  Session,    \* people pressing the button
  Decider,    \* those whose reservations take effect at once
  Material,
  BomLines,   \* the order's lines, a sequence
  MaterialOf, \* the material each line is checked against, or Unlinked
  Unlinked,   \* linked to no material, or to one in a unit that does not convert
  LineUnit,   \* what one of a line's unit is in base units
  StockUnit,  \* what one of a material's unit is in base units
  Bills,      \* what the order's lines may need at first
  MaxQty,     \* bound: a figure someone enters, one material's free stock
  MaxDebt,    \* bound: how far reservations may exceed the shelf
  MaxMoves    \* bound: what others do to the order's lines

Line == Range(BomLines)

ASSUME MaterialAssumption == MaterialOf \in [Line -> Material \cup {Unlinked}]
\* A line of the bill of materials is listed once.
ASSUME LinesAssumption == BomLines \in Seq(Line) /\ IsInjective(BomLines)
ASSUME UnitAssumption ==
  LineUnit \in [Line -> Nat \ {0}] /\ StockUnit \in [Material -> Nat \ {0}]
ASSUME BillsAssumption == Bills \subseteq [Line -> Nat]
ASSUME QuantityAssumption == MaxQty \in Nat /\ MaxDebt \in Nat /\ MaxMoves \in Nat

VARIABLES
  required, issued,  \* per line, as the bill of materials has them
  reserved,          \* per line: outstanding on its active reservations
  requested,         \* per line: its pending request
  free,              \* per material: available stock
  pc,                \* per session: idle or running
  todo,              \* the lines still to go through, with what is to be reserved
  moves,             \* how often others have changed the order's lines
  moved              \* history: lines others have asked more of since the session read

order == <<required, issued, reserved, requested>>
vars == <<order, free, pc, todo, moves, moved>>

-----------------------------------------------------------------------------
(* Quantities and units *)

\* quantise: to the nearest, halves up.
Rounded(a, b) == (2 * a + b) \div (2 * b)

\* convertQty, between units of one dimension.
Converted(q, from, to) == IF from = to THEN q ELSE Rounded(q * from, to)

InLineUnit(n, q)  == Converted(q, StockUnit[MaterialOf[n]], LineUnit[n])
InStockUnit(n, q) == Converted(q, LineUnit[n], StockUnit[MaterialOf[n]])

-----------------------------------------------------------------------------
(* Where one requirement stands: its stock-side figures restated in the     *)
(* line's unit.                                                             *)

OutstandingOf(n) == Max({0, required[n] - (InLineUnit(n, reserved[n]) + issued[n])})

\* Mutant of Unrequested: requests waiting for a decision are not taken off.
UnrequestedIgnoringRequests(n) == OutstandingOf(n)

\* A request holds no stock, but it is already asked for.
Unrequested(n) == Max({0, OutstandingOf(n) - InLineUnit(n, requested[n])})

\* What of it stock can cover and nobody has asked for.
Coverable(n) ==
  Max({0, Min({Unrequested(n), InLineUnit(n, free[MaterialOf[n]]) - InLineUnit(n, requested[n])})})

\* A line that is not linked cannot be checked against stock.
Requirement(n) ==
  [line |-> n, reservable |-> IF MaterialOf[n] = Unlinked THEN 0 ELSE Coverable(n)]

Requirements == [i \in DOMAIN BomLines |-> Requirement(BomLines[i])]

-----------------------------------------------------------------------------
(* The run *)

\* getOrderMaterialPosition: read once.
ReadPosition(p) ==
  /\ pc[p] = "idle"
  /\ pc' = [pc EXCEPT ![p] = "running"]
  /\ todo' = [todo EXCEPT ![p] = Requirements]
  /\ UNCHANGED <<order, free, moves, moved>>

Advance(p) == todo' = [todo EXCEPT ![p] = Tail(@)]

\* Nothing to reserve on this line: covered, not linked, or nothing reservable.
SkipLine(p) ==
  /\ pc[p] = "running" /\ todo[p] # <<>>
  /\ Head(todo[p]).reservable = 0
  /\ Advance(p)
  /\ UNCHANGED <<order, free, pc, moves, moved>>

\* reserveForOrder with allowPartial: as much of it as is free now.
Reservable(p) ==
  LET r == Head(todo[p])
  IN  Min({InStockUnit(r.line, r.reservable), free[MaterialOf[r.line]]})

\* Line n has q more reserved, or asked for, by someone who decides or not.
Taken(n, q, decides) ==
  IF decides
  THEN /\ reserved' = [reserved EXCEPT ![n] = @ + q]
       /\ free' = [free EXCEPT ![MaterialOf[n]] = @ - q]
       /\ UNCHANGED <<required, issued, requested>>
  ELSE /\ requested' = [requested EXCEPT ![n] = @ + q]
       /\ UNCHANGED <<required, issued, reserved, free>>

\* These runs, of those under way, have read what no longer stands on line n.
Overtake(n, sessions) ==
  moved' = [s \in Session |-> IF s \in sessions /\ pc[s] = "running"
                               THEN moved[s] \cup {n} ELSE moved[s]]

\* Mutant of ReserveLine: what is free is not looked at again for being none.
ReserveLineAnyway(p) ==
  LET n == Head(todo[p]).line
  IN  /\ pc[p] = "running" /\ todo[p] # <<>>
      /\ Head(todo[p]).reservable > 0
      /\ Taken(n, Reservable(p), p \in Decider)
      /\ Advance(p) /\ Overtake(n, Session \ {p})
      /\ UNCHANGED <<pc, moves>>

ReserveLine(p) ==
  LET n == Head(todo[p]).line
  IN  /\ pc[p] = "running" /\ todo[p] # <<>>
      /\ Head(todo[p]).reservable > 0 /\ Reservable(p) > 0
      /\ Taken(n, Reservable(p), p \in Decider)
      /\ Advance(p) /\ Overtake(n, Session \ {p})
      /\ UNCHANGED <<pc, moves>>

\* reserveForOrder throws, and so does the whole run: none is free any more, the
\* quantity rounds to nothing, the line was removed or linked to another material,
\* or its transaction lost every retry.
RefuseLine(p) ==
  /\ pc[p] = "running" /\ todo[p] # <<>>
  /\ Head(todo[p]).reservable > 0
  /\ pc' = [pc EXCEPT ![p] = "idle"]
  /\ todo' = [todo EXCEPT ![p] = <<>>]
  /\ moved' = [moved EXCEPT ![p] = {}]
  /\ UNCHANGED <<order, free, moves>>

Finish(p) ==
  /\ pc[p] = "running" /\ todo[p] = <<>>
  /\ pc' = [pc EXCEPT ![p] = "idle"]
  /\ moved' = [moved EXCEPT ![p] = {}]
  /\ UNCHANGED <<order, free, todo, moves>>

-----------------------------------------------------------------------------
(* What else happens to the order's lines, each in one transaction          *)

Move(n) ==
  /\ MaterialOf[n] # Unlinked
  /\ moves < MaxMoves /\ moves' = moves + 1
  /\ UNCHANGED <<pc, todo>>

Shift(m, q) == free' = [free EXCEPT ![m] = @ + q]

\* reserveForOrder for one line: refused beyond what is free, but never compared
\* with what the line needs.
ReserveByHand(n) ==
  \E q \in 1 .. MaxQty, decides \in BOOLEAN :
    /\ Move(n)
    /\ q <= free[MaterialOf[n]]
    /\ Taken(n, q, decides)
    /\ Overtake(n, Session)

\* decideReservation accepts: the request becomes a reservation, if it is free.
Accept(n) ==
  /\ Move(n)
  /\ requested[n] > 0 /\ requested[n] <= free[MaterialOf[n]]
  /\ reserved' = [reserved EXCEPT ![n] = @ + requested[n]]
  /\ requested' = [requested EXCEPT ![n] = 0]
  /\ Shift(MaterialOf[n], -requested[n])
  /\ UNCHANGED <<required, issued, moved>>

\* A request is rejected or withdrawn.
Withdraw(n) ==
  /\ Move(n)
  /\ requested[n] > 0
  /\ requested' = [requested EXCEPT ![n] = 0]
  /\ UNCHANGED <<required, issued, reserved, free, moved>>

\* A reservation is released to the shelf, or what it held is written off.
Release(n) ==
  \E q \in 1 .. reserved[n] :
    /\ Move(n)
    /\ reserved' = [reserved EXCEPT ![n] = @ - q]
    /\ UNCHANGED free \/ Shift(MaterialOf[n], q)
    /\ UNCHANGED <<required, issued, requested, moved>>

\* issueToProduction: q leaves the shelf, d of it from the line's reservations and f
\* from what is free, the rest from the order's general allocation; k of the line's
\* own unit goes on the line.  Either figure is the one typed.
IssueToLine(n) ==
  \E q, k \in 1 .. MaxQty : \E d \in 0 .. reserved[n], f \in 0 .. MaxQty :
    /\ Move(n)
    /\ q = InStockUnit(n, k) \/ k = InLineUnit(n, q)
    /\ d + f <= q /\ f <= free[MaterialOf[n]]
    /\ f > 0 => d = reserved[n]
    /\ issued' = [issued EXCEPT ![n] = @ + k]
    /\ reserved' = [reserved EXCEPT ![n] = @ - d]
    /\ Shift(MaterialOf[n], -f)
    /\ Overtake(n, Session)
    /\ UNCHANGED <<required, requested>>

\* returnFromProduction: q comes back, d of it to the line's reservations and f to
\* what is free, the rest to the general allocation; the line never goes below zero.
ReturnFromLine(n) ==
  \E q \in 1 .. MaxQty : \E d \in 0 .. q : \E f \in 0 .. q - d :
    /\ Move(n)
    /\ issued' = [issued EXCEPT ![n] = Max({0, @ - InLineUnit(n, q)})]
    /\ reserved' = [reserved EXCEPT ![n] = @ + d]
    /\ Shift(MaterialOf[n], f)
    /\ Overtake(n, Session)
    /\ UNCHANGED <<required, requested>>

\* The bill of materials is saved, edited or rebuilt from the lay plan: the line needs
\* r, and the issued figure is set to k.
SaveLine(n) ==
  \E r, k \in 0 .. MaxQty :
    /\ Move(n)
    /\ required' = [required EXCEPT ![n] = r]
    /\ issued' = [issued EXCEPT ![n] = k]
    /\ Overtake(n, IF r < required[n] \/ k > issued[n] THEN Session ELSE {})
    /\ UNCHANGED <<reserved, requested, free>>

\* Other orders reserve or release, stock arrives or is written off: what is
\* free goes below zero when reserved stock is written off.
Elsewhere(m) ==
  \E f \in -MaxDebt .. MaxQty :
    /\ free' = [free EXCEPT ![m] = f]
    /\ UNCHANGED <<order, pc, todo, moves, moved>>

-----------------------------------------------------------------------------
Init ==
  /\ required \in Bills
  /\ issued = [n \in Line |-> 0]
  /\ reserved = [n \in Line |-> 0]
  /\ requested = [n \in Line |-> 0]
  /\ free \in [Material -> -MaxDebt .. MaxQty]
  /\ pc = [p \in Session |-> "idle"]
  /\ todo = [p \in Session |-> <<>>]
  /\ moves = 0
  /\ moved = [p \in Session |-> {}]

Press(p) == ReadPosition(p) \/ SkipLine(p) \/ ReserveLine(p) \/ RefuseLine(p) \/ Finish(p)

ByOthers(n) ==
  \/ ReserveByHand(n) \/ Accept(n) \/ Withdraw(n) \/ Release(n)
  \/ IssueToLine(n) \/ ReturnFromLine(n) \/ SaveLine(n)

Next ==
  \/ \E p \in Session : Press(p)
  \/ \E n \in Line : ByOthers(n)
  \/ \E m \in Material : Elsewhere(m)

Spec == Init /\ [][Next]_vars

-----------------------------------------------------------------------------
(* Properties *)

\* Figures are what the tables can hold, and each run goes through lines of the order.
TypeOK ==
  /\ required \in [Line -> Nat] /\ issued \in [Line -> Nat]
  /\ reserved \in [Line -> Nat] /\ requested \in [Line -> Nat]
  /\ free \in [Material -> Int]
  /\ pc \in [Session -> {"idle", "running"}]
  /\ todo \in [Session -> Seq([line : Line, reservable : Nat])]
  /\ moves \in Nat /\ moved \in [Session -> SUBSET Line]

\* What line n holds or has asked for already, in base units.
Held(n) == StockUnit[MaterialOf[n]] * (reserved[n] + requested[n]) + LineUnit[n] * issued[n]

\* Twice what rounding may add to it: half a unit of the line's for each of the two
\* figures read, half a unit of the stock's for the one reserved.
Slack(n) == IF StockUnit[MaterialOf[n]] = LineUnit[n] THEN 0
            ELSE 2 * LineUnit[n] + StockUnit[MaterialOf[n]]

WithinNeed(n) == 2 * Held(n) <= 2 * (LineUnit[n] * required[n]) + Slack(n)

\* reserveOrderMaterials asks for no more of a line than it still needs, counting what
\* is reserved, issued and waiting for a decision, to within the rounding of units
\* that differ - unless, since the run read its position, someone else reserved,
\* asked for, issued or took back on that very line or its need was lowered.  Stock
\* moving elsewhere, requests decided, withdrawn and stock released never make it.
RunAsksWithinNeed ==
  [][\A p \in Session : \A n \in Line :
       ReserveLine(p) /\ n = Head(todo[p]).line => n \in moved[p] \/ WithinNeed(n)']_vars

=============================================================================

------------------------------ MODULE Shipping ------------------------------
(***************************************************************************)
(* What an order has made and shipped, and the status kept from them:       *)
(* routes/production.ts, the shipments of routes/packing.ts, the rules of   *)
(* services/rules.ts, and refreshOrderCache of services/order-service.ts.   *)
(*                                                                          *)
(* Handlers read the order, check, and write by id in a later statement,    *)
(* with no transaction; then they refresh the order's cached status, which  *)
(* is again a read and a later write.  One order; sewing only, the          *)
(* operation that counts as production.                                     *)
(***************************************************************************)
EXTENDS Integers, FiniteSets, FiniteSetsExt, Functions

CONSTANTS
  Session,     \* people, one request in flight each
  Overrider,   \* those holding shipment:override
  Entry,       \* production records, those to come included
  Shipment,    \* consignments, those to come included
  Ledger,      \* the ledgers of the quantity grid that are typed in
  OrderQty,
  Ceiling,     \* 1.5 times the larger of the order and the cut
  MaxQty       \* bound: one entry, one consignment, one grid total

ASSUME PeopleAssumption == Overrider \subseteq Session
ASSUME LedgerAssumption == Ledger \subseteq {"inLine", "shipped"}
ASSUME BoundAssumption == OrderQty \in Nat /\ Ceiling \in Nat /\ MaxQty \in Nat

VARIABLES
  born,       \* entries ever recorded
  sewn,       \* the entries there are, and their pieces
  shipment,   \* the consignments there are
  grid,       \* totals of the IN_LINE and SHIPPED ledgers
  failing,    \* a failed inspection is not answered yet
  cached,     \* orders.cachedStatus
  pc, job,    \* per session: where its request is, and what it works from
  current,    \* history: sessions that have read what is still so
  muddled     \* history: the cache was left wrong by a crash or an overtaken refresh

records == <<born, sewn, shipment, grid, failing>>
vars == <<records, cached, pc, job, current, muddled>>

-----------------------------------------------------------------------------
(* What is derived                                                          *)

Qty == 0 .. MaxQty
Gone == {"SHIPPED", "DELIVERED"}
ShipmentStatus == {"BOOKED"} \cup Gone   \* BOOKED for all that has not left
Row == [status : ShipmentStatus, qty : Qty, override : BOOLEAN]

QtyOf(rows) == [i \in DOMAIN rows |-> rows[i].qty]

Pieces(rows) == SumFunction(QtyOf(rows))

Sewing(entries) == SumFunction(entries)

ProducedQty(entries, g) == Max({g.inLine, Sewing(entries)})

\* resolveShippedQty: the grid when it says anything, else what has left.
ShippedQty(rows, g) ==
  IF g.shipped > 0 THEN g.shipped
  ELSE SumFunctionOnSet(QtyOf(rows), {i \in DOMAIN rows : rows[i].status \in Gone})

Reached(rows, status) == \E i \in DOMAIN rows : rows[i].status = status

\* deriveOrderStatus, first match first; OPEN stands for every status before shipping.
Status ==
  CASE failing                             -> "QUALITY_BLOCKED"
    [] Reached(shipment, "DELIVERED")      -> "COMPLETED"
    [] \/ Reached(shipment, "SHIPPED")
       \/ OrderQty > 0 /\ ShippedQty(shipment, grid) >= OrderQty
                                           -> "SHIPPED"
    [] OTHER                               -> "OPEN"

\* Mutant of ShipmentTotalAfter: each consignment is judged on its own.
RowAlone(i, qty) == qty

\* shipmentTotalAfter: every other consignment, and this one as it will be.
ShipmentTotalAfter(i, qty) ==
  SumFunctionOnSet(QtyOf(shipment), DOMAIN shipment \ {i}) + qty

Produced == ProducedQty(sewn, grid)
Shipped == Pieces(shipment)

-----------------------------------------------------------------------------
(* Requests                                                                 *)

NoJob == [on |-> {}, qty |-> 0, status |-> "BOOKED", over |-> FALSE]

Begin(s, at, j) ==
  /\ pc[s] = "idle"
  /\ pc' = [pc EXCEPT ![s] = at]
  /\ job' = [job EXCEPT ![s] = j]
  /\ current' = current \cup {s}
  /\ UNCHANGED <<records, cached, muddled>>

\* Mutant of AfterWrite: somebody forgot to refresh.
NothingMore(s) == "idle"

\* Where a request goes on once it has written a record: every handler ends with a
\* refresh of the cache.
AfterWrite(s) == "refresh"

\* The records have moved: what anybody has read of them is old.
Wrote(s) ==
  /\ pc' = [pc EXCEPT ![s] = AfterWrite(s)]
  /\ job' = [job EXCEPT ![s] = NoJob]
  /\ current' = {}
  /\ UNCHANGED <<cached, muddled>>

\* The row to write by id is gone.
NotFound(s) ==
  /\ pc' = [pc EXCEPT ![s] = "idle"] /\ job' = [job EXCEPT ![s] = NoJob]
  /\ current' = current \ {s}
  /\ UNCHANGED <<records, cached, muddled>>

New(x, used) == x \notin used /\ \A t \in Session : job[t].on # x

-----------------------------------------------------------------------------
(* Shipments: a new one is checked as one that grew from nothing.           *)

\* Mutant of HasPieces: a shipment of nothing may be marked as gone.
AnyPieces(qty, status) == TRUE

\* A consignment that has gone has pieces in it.
HasPieces(qty, status) == status \in Gone => qty > 0

\* Only a quantity that grows is judged: a status change alone is not a new claim.
ShipmentCheck(s, i, qty, status) ==
  LET old == IF i \in DOMAIN shipment THEN shipment[i].qty ELSE 0
      over == qty > old /\ ShipmentTotalAfter(i, qty) > Produced
  IN  /\ i \in DOMAIN shipment \/ New(i, DOMAIN shipment)
      /\ HasPieces(qty, status)
      /\ over => s \in Overrider
      /\ Begin(s, "ship", [on |-> i, qty |-> qty, status |-> status, over |-> over])

\* Quantity and status are both written, the one not typed as it was read; an
\* override stays on record.
ShipmentWrite(s) ==
  LET i == job[s].on
      was == i \in DOMAIN shipment /\ shipment[i].override
  IN  /\ pc[s] = "ship"
      /\ shipment' = [j \in DOMAIN shipment \cup {i} |->
           IF j # i THEN shipment[j]
           ELSE [status |-> job[s].status, qty |-> job[s].qty, override |-> was \/ job[s].over]]
      /\ Wrote(s)
      /\ UNCHANGED <<born, sewn, grid, failing>>

-----------------------------------------------------------------------------
(* Production records *)

\* Recording and correcting: the total is judged with the entry's own old figure out.
EntryCheck(s, e, qty) ==
  LET old == IF e \in DOMAIN sewn THEN sewn[e] ELSE 0
  IN  /\ e \in DOMAIN sewn \/ New(e, born)
      /\ OrderQty > 0 => Sewing(sewn) - old + qty <= Ceiling
      /\ Begin(s, IF e \in DOMAIN sewn THEN "correct" ELSE "record",
               [NoJob EXCEPT !.on = e, !.qty = qty])

EntryWrite(s) ==
  LET e == job[s].on
  IN  /\ pc[s] \in {"record", "correct"}
      /\ IF pc[s] = "correct" /\ e \notin DOMAIN sewn
         THEN NotFound(s)
         ELSE /\ born' = born \cup {e}
              /\ sewn' = [x \in DOMAIN sewn \cup {e} |-> IF x = e THEN job[s].qty ELSE sewn[x]]
              /\ Wrote(s)
              /\ UNCHANGED <<shipment, grid, failing>>

\* Removing an entry asks nothing of what has shipped.
DeleteCheck(s, e) == e \in DOMAIN sewn /\ Begin(s, "delete", [NoJob EXCEPT !.on = e])

DeleteWrite(s) ==
  LET e == job[s].on
  IN  /\ pc[s] = "delete"
      /\ IF e \notin DOMAIN sewn
         THEN NotFound(s)
         ELSE /\ sewn' = Restrict(sewn, DOMAIN sewn \ {e})
              /\ Wrote(s)
              /\ UNCHANGED <<born, shipment, grid, failing>>

-----------------------------------------------------------------------------
(* The quantity grid, and inspections                                       *)

SetMatrix(s, ledger, qty) ==
  /\ pc[s] = "idle"
  /\ grid' = [grid EXCEPT ![ledger] = qty]
  /\ Wrote(s)
  /\ UNCHANGED <<born, sewn, shipment, failing>>

\* A failed inspection is recorded, or the last one open is answered.
Inspect(s) ==
  /\ pc[s] = "idle"
  /\ failing' = ~failing
  /\ Wrote(s)
  /\ UNCHANGED <<born, sewn, shipment, grid>>

\* Anything else of the order, its tasks first of all: the status is derived from none of
\* it, but the progress and the stage cached beside it may be, and a refresh follows.
OtherWrite(s) ==
  /\ pc[s] = "idle"
  /\ pc' = [pc EXCEPT ![s] = AfterWrite(s)]
  /\ UNCHANGED <<records, cached, job, current, muddled>>

-----------------------------------------------------------------------------
(* The cache: the status, and a progress and a stage that are not modelled  *)

\* refreshOrderCache: read and derive.  The three are written together, as they were read,
\* when any of them has moved.
RefreshRead(s) ==
  /\ pc[s] = "refresh"
  /\ pc' = [pc EXCEPT ![s] = "cache"]
  /\ job' = [job EXCEPT ![s] = [NoJob EXCEPT !.status = Status]]
  /\ current' = current \cup {s}
  /\ muddled' = (muddled /\ cached # Status)
  /\ UNCHANGED <<records, cached>>

\* Nothing has moved: nothing is written.
RefreshNothing(s) ==
  /\ pc[s] = "refresh" /\ cached = Status
  /\ pc' = [pc EXCEPT ![s] = "idle"]
  /\ muddled' = FALSE
  /\ UNCHANGED <<records, cached, job, current>>

RefreshWrite(s) ==
  /\ pc[s] = "cache"
  /\ cached' = job[s].status
  /\ muddled' = (s \notin current /\ cached' # Status)
  /\ pc' = [pc EXCEPT ![s] = "idle"] /\ job' = [job EXCEPT ![s] = NoJob]
  /\ current' = current \ {s}
  /\ UNCHANGED records

\* The server stops and is started again: what was in flight is not taken up.
Crash ==
  /\ \E s \in Session : pc[s] # "idle"
  /\ pc' = [s \in Session |-> "idle"] /\ job' = [s \in Session |-> NoJob]
  /\ current' = {}
  /\ muddled' = (muddled \/ cached # Status)
  /\ UNCHANGED <<records, cached>>

-----------------------------------------------------------------------------
Init ==
  /\ born = {} /\ sewn = <<>> /\ shipment = <<>>
  /\ grid = [inLine |-> 0, shipped |-> 0] /\ failing = FALSE
  /\ cached = Status   \* DRAFT in the schema: an order nothing has happened to is open
  /\ current = {} /\ muddled = FALSE
  /\ pc = [s \in Session |-> "idle"] /\ job = [s \in Session |-> NoJob]

Next ==
  \/ \E s \in Session :
       \/ \E i \in Shipment, q \in Qty, status \in ShipmentStatus : ShipmentCheck(s, i, q, status)
       \/ \E e \in Entry : DeleteCheck(s, e) \/ \E q \in Qty : EntryCheck(s, e, q)
       \/ \E ledger \in Ledger, q \in Qty : SetMatrix(s, ledger, q)
       \/ ShipmentWrite(s) \/ EntryWrite(s) \/ DeleteWrite(s) \/ Inspect(s) \/ OtherWrite(s)
       \/ RefreshRead(s) \/ RefreshNothing(s) \/ RefreshWrite(s)
  \/ Crash

Spec == Init /\ [][Next]_vars

-----------------------------------------------------------------------------
(* Properties *)

\* The tables hold what the code stores, and the requests what their writes need.
TypeOK ==
  /\ DOMAIN sewn \subseteq born /\ born \subseteq Entry
  /\ \A e \in DOMAIN sewn : sewn[e] \in Qty
  /\ DOMAIN shipment \subseteq Shipment
  /\ \A i \in DOMAIN shipment :
       shipment[i] \in Row /\ (shipment[i].status \in Gone => shipment[i].qty > 0)
  /\ grid \in [inLine : Qty, shipped : Qty]
  /\ failing \in BOOLEAN /\ muddled \in BOOLEAN /\ current \subseteq Session
  /\ cached \in {"OPEN", "SHIPPED", "COMPLETED", "QUALITY_BLOCKED"}

\* An order comes to have shipped more than it made only by a shipment with an
\* override on record, by a correction of production, or by a shipment whose check
\* somebody else's write overtook: never by several consignments that are each
\* within what was made.
BeyondIsExplained == [][Shipped <= Produced /\ Shipped' > Produced' =>
  \/ Produced' < Produced
  \/ \E s \in Session : /\ pc[s] = "ship" /\ pc'[s] # "ship"
                        /\ s \notin current \/ shipment'[job[s].on].override]_vars

\* The cached status is the derived one, but while a request that wrote something has
\* not yet refreshed it, or since a crash or an overtaken refresh left it wrong.
CacheIsExplained ==
  \/ cached = Status
  \/ muddled
  \/ \E s \in Session : pc[s] \in {"refresh", "cache"}

-----------------------------------------------------------------------------
(* What the comments say, and the code does not do.                         *)

\* "Correcting production may not leave the order having shipped more than it made":
\* what the order shows as shipped beyond production was let through by an override.
ShippedIsCovered ==
  ShippedQty(shipment, grid) <= Produced \/ \E i \in DOMAIN shipment : shipment[i].override

=============================================================================

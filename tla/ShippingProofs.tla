--------------------------- MODULE ShippingProofs ---------------------------
(***************************************************************************)
(* Proofs about Shipping: where the cached status may be wrong, what the    *)
(* tables can hold, and how an order comes to have shipped more than it     *)
(* made.  Then about Workflow, the other component of an order's progress: *)
(* a task is completed once, and a corrective action answers its audit.    *)
(* The two share no state; their names are distinct.                        *)
(***************************************************************************)
EXTENDS Shipping, Workflow, SumTheorems, TLAPS

Shape == pc \in [Session -> {"idle", "ship", "record", "correct", "delete", "refresh", "cache"}]
         /\ DOMAIN job = Session /\ current \subseteq Session

\* A refresh that nothing has overtaken is about to write the status there is.
FreshIsTrue == \A s \in Session :
  pc[s] = "cache" /\ s \in current => job[s].status = Status

IInv == Shape /\ FreshIsTrue /\ CacheIsExplained

LEMMA IInvInit == Init => IInv
BY DEF Init, IInv, Shape, FreshIsTrue, CacheIsExplained

\* Whoever writes a record is about to refresh, and everybody else's reading is old.
LEMMA WroteKeeps ==
  ASSUME IInv, NEW s \in Session, Wrote(s)
  PROVE IInv'
<1>1. pc'[s] = "refresh" BY DEF IInv, Shape, Wrote, AfterWrite
<1>2. Shape' BY DEF IInv, Shape, Wrote, AfterWrite
<1>3. CacheIsExplained' BY <1>1 DEF CacheIsExplained
<1>4. FreshIsTrue' BY DEF FreshIsTrue, Wrote
<1> QED BY <1>2, <1>3, <1>4 DEF IInv

\* A request that writes no record, and is not about the cache before or after.
LEMMA ElsewhereKeeps ==
  ASSUME IInv, NEW s \in Session, NEW at \in {"idle", "ship", "record", "correct", "delete"}, NEW j,
         pc[s] \notin {"refresh", "cache"},
         pc' = [pc EXCEPT ![s] = at], job' = [job EXCEPT ![s] = j],
         current' = current \cup {s} \/ current' = current \ {s},
         UNCHANGED <<records, cached, muddled>>
  PROVE IInv'
<1>1. Status' = Status BY DEF Status, records
<1>2. \A t \in Session : pc'[t] \in {"refresh", "cache"} <=> pc[t] \in {"refresh", "cache"}
  BY DEF IInv, Shape
<1>3. Shape' BY DEF IInv, Shape
<1>4. FreshIsTrue' BY <1>1 DEF IInv, Shape, FreshIsTrue
<1>5. CacheIsExplained' BY <1>1, <1>2 DEF IInv, CacheIsExplained
<1> QED BY <1>3, <1>4, <1>5 DEF IInv

LEMMA IInvStep == IInv /\ [Next]_vars => IInv'
<1> SUFFICES ASSUME IInv, [Next]_vars PROVE IInv' OBVIOUS
<1>1. ASSUME NEW s \in Session, NEW i \in Shipment, NEW q \in Qty, NEW st \in ShipmentStatus,
             ShipmentCheck(s, i, q, st)
      PROVE IInv'
  <2>1. PICK j : Begin(s, "ship", j) BY <1>1 DEF ShipmentCheck
  <2> QED BY <2>1, ElsewhereKeeps DEF Begin
<1>2. ASSUME NEW s \in Session, ShipmentWrite(s) PROVE IInv'
  BY <1>2, WroteKeeps DEF ShipmentWrite
<1>3. ASSUME NEW s \in Session, NEW e \in Entry, NEW q \in Qty, EntryCheck(s, e, q) PROVE IInv'
  <2>1. PICK j : Begin(s, "correct", j) \/ Begin(s, "record", j) BY <1>3 DEF EntryCheck
  <2> QED BY <2>1, ElsewhereKeeps DEF Begin
<1>4. ASSUME NEW s \in Session, EntryWrite(s) PROVE IInv'
  <2>1. Wrote(s) \/ (NotFound(s) /\ pc[s] = "correct") BY <1>4 DEF EntryWrite
  <2> QED BY <2>1, WroteKeeps, ElsewhereKeeps DEF NotFound
<1>5. ASSUME NEW s \in Session, NEW e \in Entry, DeleteCheck(s, e) PROVE IInv'
  <2>1. PICK j : Begin(s, "delete", j) BY <1>5 DEF DeleteCheck
  <2> QED BY <2>1, ElsewhereKeeps DEF Begin
<1>6. ASSUME NEW s \in Session, DeleteWrite(s) PROVE IInv'
  <2>1. Wrote(s) \/ (NotFound(s) /\ pc[s] = "delete") BY <1>6 DEF DeleteWrite
  <2> QED BY <2>1, WroteKeeps, ElsewhereKeeps DEF NotFound
<1>7. ASSUME NEW s \in Session, NEW ledger \in Ledger, NEW q \in Qty,
             SetMatrix(s, ledger, q)
      PROVE IInv'
  BY <1>7, WroteKeeps DEF SetMatrix
<1>8. ASSUME NEW s \in Session, Inspect(s) PROVE IInv'
  BY <1>8, WroteKeeps DEF Inspect
<1>9. ASSUME NEW s \in Session, RefreshRead(s) PROVE IInv'
  <2>1. Status' = Status BY <1>9 DEF RefreshRead, Status, records
  <2>2. Shape' BY <1>9 DEF IInv, Shape, RefreshRead
  <2>3. PICK j : j = [NoJob EXCEPT !.status = Status] OBVIOUS
  <2>4. /\ pc' = [pc EXCEPT ![s] = "cache"] /\ job' = [job EXCEPT ![s] = j]
        /\ current' = current \cup {s}
    BY <1>9, <2>3 DEF RefreshRead
  <2>5. j.status = Status BY <2>3 DEF NoJob
  <2>6. CacheIsExplained' BY <2>4 DEF IInv, Shape, CacheIsExplained
  <2>7. FreshIsTrue' BY <2>1, <2>4, <2>5 DEF IInv, Shape, FreshIsTrue
  <2> QED BY <2>2, <2>6, <2>7 DEF IInv
<1>13. ASSUME NEW s \in Session, RefreshNothing(s) PROVE IInv'
  <2>1. Status' = Status BY <1>13 DEF RefreshNothing, Status, records
  <2>2. Shape' BY <1>13 DEF IInv, Shape, RefreshNothing
  <2>3. CacheIsExplained' BY <1>13, <2>1 DEF RefreshNothing, CacheIsExplained
  <2>4. FreshIsTrue' BY <1>13, <2>1 DEF IInv, Shape, FreshIsTrue, RefreshNothing
  <2> QED BY <2>2, <2>3, <2>4 DEF IInv
<1>14. ASSUME NEW s \in Session, OtherWrite(s) PROVE IInv'
  <2>1. Status' = Status BY <1>14 DEF OtherWrite, Status, records
  <2>2. pc' = [pc EXCEPT ![s] = "refresh"] /\ UNCHANGED <<job, current>>
    BY <1>14 DEF OtherWrite, AfterWrite
  <2>3. Shape' BY <2>2 DEF IInv, Shape
  <2>4. CacheIsExplained' BY <2>2 DEF IInv, Shape, CacheIsExplained
  <2>5. FreshIsTrue' BY <2>1, <2>2 DEF IInv, Shape, FreshIsTrue
  <2> QED BY <2>3, <2>4, <2>5 DEF IInv
<1>10. ASSUME NEW s \in Session, RefreshWrite(s) PROVE IInv'
  <2>1. Status' = Status BY <1>10 DEF RefreshWrite, Status, records
  <2>2. Shape' BY <1>10 DEF IInv, Shape, RefreshWrite
  <2>3. FreshIsTrue' BY <1>10, <2>1 DEF IInv, Shape, FreshIsTrue, RefreshWrite
  <2>4. CASE s \in current
    <3>1. cached' = Status' BY <1>10, <2>1, <2>4 DEF RefreshWrite, IInv, FreshIsTrue
    <3> QED BY <2>2, <2>3, <3>1 DEF IInv, CacheIsExplained
  <2>5. CASE s \notin current
    <3>1. muddled' = (cached' # Status) BY <1>10, <2>5 DEF RefreshWrite
    <3>2. cached' = Status' \/ muddled' BY <2>1, <3>1
    <3> QED BY <2>2, <2>3, <3>2 DEF IInv, CacheIsExplained
  <2> QED BY <2>4, <2>5
<1>11. CASE Crash
  <2>1. Status' = Status BY <1>11 DEF Crash, Status, records
  <2>2. muddled' = (muddled \/ cached # Status) /\ cached' = cached BY <1>11 DEF Crash
  <2>3. CacheIsExplained' BY <2>1, <2>2 DEF CacheIsExplained
  <2>4. Shape' /\ FreshIsTrue' BY <1>11 DEF Crash, Shape, FreshIsTrue
  <2> QED BY <2>3, <2>4 DEF IInv
<1>12. CASE UNCHANGED vars
  <2>1. Status' = Status BY <1>12 DEF vars, Status, records
  <2> QED BY <1>12, <2>1 DEF vars, IInv, Shape, FreshIsTrue, CacheIsExplained
<1> QED
  BY <1>1, <1>2, <1>3, <1>4, <1>5, <1>6, <1>7, <1>8, <1>9, <1>10, <1>11, <1>12, <1>13, <1>14
  DEF Next

\* Whatever the number of people, entries and consignments: the cached status is the
\* derived one unless a refresh is still to come, was overtaken, or died with the
\* server.
THEOREM CacheStaysExplained == Spec => []CacheIsExplained
<1>1. IInv => CacheIsExplained BY DEF IInv
<1> QED BY <1>1, IInvInit, IInvStep, PTL DEF Spec

-----------------------------------------------------------------------------
(* What the tables hold rests on what a request carries from its check to   *)
(* its write.                                                               *)

Statuses == {"OPEN", "SHIPPED", "COMPLETED", "QUALITY_BLOCKED"}

\* A consignment to be written is one that may be: typed, and with pieces if it has gone.
ShipmentJob(j) ==
  /\ j.on \in Shipment /\ j.qty \in Qty /\ j.status \in ShipmentStatus /\ j.over \in BOOLEAN
  /\ HasPieces(j.qty, j.status)

JobFits(at, j) ==
  /\ at = "ship" => ShipmentJob(j)
  /\ at \in {"record", "correct", "delete"} => j.on \in Entry /\ j.qty \in Qty
  /\ at = "cache" => j.status \in Statuses

JobsFit == \A s \in Session : JobFits(pc[s], job[s])

TInv == Shape /\ TypeOK /\ JobsFit

LEMMA StatusTyped == Status \in Statuses
BY DEF Status, Statuses

LEMMA TInvInit == Init => TInv
<1> SUFFICES ASSUME Init PROVE TInv OBVIOUS
<1>1. cached \in Statuses BY StatusTyped DEF Init
<1>2. 0 \in Qty BY BoundAssumption DEF Qty
<1>3. DOMAIN sewn = {} /\ DOMAIN shipment = {} BY DEF Init
<1>4. TypeOK BY <1>1, <1>2, <1>3 DEF Init, TypeOK, Statuses
<1>5. Shape /\ JobsFit BY DEF Init, Shape, JobsFit, JobFits
<1> QED BY <1>4, <1>5 DEF TInv

\* A request that writes no record goes on with a job that fits.
LEMMA NextJobFits ==
  ASSUME TInv, NEW s \in Session, NEW at \in {"idle", "ship", "record", "correct", "delete"}, NEW j,
         JobFits(at, j),
         pc' = [pc EXCEPT ![s] = at], job' = [job EXCEPT ![s] = j],
         current' = current \cup {s} \/ current' = current \ {s},
         UNCHANGED <<records, cached, muddled>>
  PROVE  TInv'
<1>1. Shape' BY DEF TInv, Shape
<1>2. TypeOK' BY DEF TInv, TypeOK, records
<1>3. JobsFit' BY DEF TInv, Shape, JobsFit, JobFits, ShipmentJob, HasPieces
<1> QED BY <1>1, <1>2, <1>3 DEF TInv

LEMMA NotFoundFits ==
  ASSUME TInv, NEW s \in Session, NotFound(s)
  PROVE  TInv'
<1>1. JobFits("idle", NoJob) BY DEF JobFits
<1>2. /\ pc' = [pc EXCEPT ![s] = "idle"] /\ job' = [job EXCEPT ![s] = NoJob]
      /\ current' = current \ {s} /\ UNCHANGED <<records, cached, muddled>>
  BY DEF NotFound
<1> QED BY <1>1, <1>2, NextJobFits

LEMMA BeginFits ==
  ASSUME TInv, NEW s \in Session, NEW at \in {"ship", "record", "correct", "delete"}, NEW j,
         Begin(s, at, j), JobFits(at, j)
  PROVE  TInv'
<1>1. /\ pc' = [pc EXCEPT ![s] = at] /\ job' = [job EXCEPT ![s] = j]
      /\ current' = current \cup {s} /\ UNCHANGED <<records, cached, muddled>>
  BY DEF Begin
<1> QED BY <1>1, NextJobFits

\* A request that has written a record is about to refresh.
LEMMA WroteFits ==
  ASSUME TInv, NEW s \in Session, Wrote(s), TypeOK'
  PROVE  TInv'
<1>1. pc' = [pc EXCEPT ![s] = "refresh"] /\ job' = [job EXCEPT ![s] = NoJob] /\ current' = {}
  BY DEF Wrote, AfterWrite
<1>2. Shape' BY <1>1 DEF TInv, Shape
<1>3. JobsFit' BY <1>1 DEF TInv, Shape, JobsFit, JobFits, ShipmentJob, HasPieces
<1> QED BY <1>2, <1>3 DEF TInv

LEMMA ShipmentCheckTyped ==
  ASSUME TInv, NEW s \in Session, NEW i \in Shipment, NEW q \in Qty, NEW st \in ShipmentStatus,
         ShipmentCheck(s, i, q, st)
  PROVE  TInv'
<1>1. PICK old \in {0} \cup {shipment[i].qty} :
        Begin(s, "ship", [on |-> i, qty |-> q, status |-> st,
                          over |-> q > old /\ ShipmentTotalAfter(i, q) > Produced])
  BY DEF ShipmentCheck
<1> DEFINE j == [on |-> i, qty |-> q, status |-> st,
                 over |-> q > old /\ ShipmentTotalAfter(i, q) > Produced]
<1>2. HasPieces(q, st) BY DEF ShipmentCheck
<1>3. (q > old /\ ShipmentTotalAfter(i, q) > Produced) \in BOOLEAN OBVIOUS
<1>4. ShipmentJob(j) BY <1>2, <1>3 DEF ShipmentJob
<1> HIDE DEF j
<1>5. Begin(s, "ship", j) BY <1>1 DEF j
<1>6. JobFits("ship", j) BY <1>4 DEF JobFits
<1> QED BY <1>5, <1>6, BeginFits

LEMMA ShipmentWriteTyped ==
  ASSUME TInv, NEW s \in Session, ShipmentWrite(s)
  PROVE  TInv'
<1> DEFINE i == job[s].on
           was == i \in DOMAIN shipment /\ shipment[i].override
           row == [status |-> job[s].status, qty |-> job[s].qty, override |-> was \/ job[s].over]
<1>1. ShipmentJob(job[s]) BY DEF TInv, JobsFit, JobFits, ShipmentWrite
<1>2. shipment' = [k \in DOMAIN shipment \cup {i} |-> IF k # i THEN shipment[k] ELSE row]
  BY DEF ShipmentWrite
<1>3. (was \/ job[s].over) \in BOOLEAN OBVIOUS
<1>4. row \in Row /\ (row.status \in Gone => row.qty > 0)
  BY <1>1, <1>3 DEF ShipmentJob, HasPieces, Row
<1> HIDE DEF row, was
<1>5. DOMAIN shipment' \subseteq Shipment BY <1>1, <1>2 DEF ShipmentJob, TInv, TypeOK
<1>6. \A k \in DOMAIN shipment' :
        shipment'[k] \in Row /\ (shipment'[k].status \in Gone => shipment'[k].qty > 0)
  BY <1>2, <1>4 DEF TInv, TypeOK
<1>7. Wrote(s) /\ UNCHANGED <<born, sewn, grid, failing>> BY DEF ShipmentWrite
<1>8. TypeOK' BY <1>5, <1>6, <1>7 DEF TInv, TypeOK, Wrote
<1> QED BY <1>7, <1>8, WroteFits

LEMMA EntryWriteTyped ==
  ASSUME TInv, NEW s \in Session, EntryWrite(s)
  PROVE  TInv'
<1> DEFINE e == job[s].on
<1>1. e \in Entry /\ job[s].qty \in Qty BY DEF TInv, JobsFit, JobFits, EntryWrite
<1>2. CASE NotFound(s)
  BY <1>2, NotFoundFits
<1>3. CASE ~NotFound(s)
  <2>1. /\ born' = born \cup {e}
        /\ sewn' = [x \in DOMAIN sewn \cup {e} |-> IF x = e THEN job[s].qty ELSE sewn[x]]
        /\ Wrote(s) /\ UNCHANGED <<shipment, grid, failing>>
    BY <1>3 DEF EntryWrite
  <2>2. TypeOK' BY <1>1, <2>1 DEF TInv, TypeOK, Wrote
  <2> QED BY <2>1, <2>2, WroteFits
<1> QED BY <1>2, <1>3

LEMMA DeleteWriteTyped ==
  ASSUME TInv, NEW s \in Session, DeleteWrite(s)
  PROVE  TInv'
<1> DEFINE e == job[s].on
<1>1. CASE NotFound(s)
  BY <1>1, NotFoundFits
<1>2. CASE ~NotFound(s)
  <2>1. /\ sewn' = Restrict(sewn, DOMAIN sewn \ {e})
        /\ Wrote(s) /\ UNCHANGED <<born, shipment, grid, failing>>
    BY <1>2 DEF DeleteWrite
  <2>2. sewn' = [x \in DOMAIN sewn \ {e} |-> sewn[x]] BY <2>1 DEF Restrict
  <2>3. TypeOK' BY <2>1, <2>2 DEF TInv, TypeOK, Wrote
  <2> QED BY <2>1, <2>3, WroteFits
<1> QED BY <1>1, <1>2

\* A refresh, or its end, or a write of something else: no record moves.
LEMMA CacheStepTyped ==
  ASSUME TInv, NEW s \in Session,
         RefreshRead(s) \/ RefreshNothing(s) \/ RefreshWrite(s) \/ OtherWrite(s)
  PROVE  TInv'
<1>1. CASE RefreshNothing(s)
  <2>1. TypeOK' BY <1>1 DEF TInv, TypeOK, RefreshNothing, records
  <2>2. Shape' /\ JobsFit'
    BY <1>1 DEF TInv, Shape, JobsFit, JobFits, RefreshNothing, ShipmentJob, HasPieces
  <2> QED BY <2>1, <2>2 DEF TInv
<1>2. CASE RefreshRead(s)
  <2>1. PICK j : j = [NoJob EXCEPT !.status = Status] OBVIOUS
  <2>2. j.status \in Statuses BY <2>1, StatusTyped DEF NoJob
  <2>3. /\ pc' = [pc EXCEPT ![s] = "cache"] /\ job' = [job EXCEPT ![s] = j]
        /\ current' = current \cup {s} /\ UNCHANGED <<records, cached>> /\ muddled' \in BOOLEAN
    BY <1>2, <2>1 DEF RefreshRead
  <2>4. TypeOK' BY <2>3 DEF TInv, TypeOK, records
  <2>5. Shape' BY <2>3 DEF TInv, Shape
  <2>6. JobsFit' BY <2>2, <2>3 DEF TInv, Shape, JobsFit, JobFits, ShipmentJob, HasPieces
  <2> QED BY <2>4, <2>5, <2>6 DEF TInv
<1>4. CASE OtherWrite(s)
  <2>1. pc' = [pc EXCEPT ![s] = "refresh"] /\ UNCHANGED <<records, cached, job, current, muddled>>
    BY <1>4 DEF OtherWrite, AfterWrite
  <2>2. TypeOK' BY <2>1 DEF TInv, TypeOK, records
  <2>3. Shape' /\ JobsFit' BY <2>1 DEF TInv, Shape, JobsFit, JobFits, ShipmentJob, HasPieces
  <2> QED BY <2>2, <2>3 DEF TInv
<1>3. CASE RefreshWrite(s)
  <2>1. cached' \in Statuses BY <1>3 DEF TInv, JobsFit, JobFits, RefreshWrite
  <2>2. muddled' \in BOOLEAN BY <1>3 DEF RefreshWrite
  <2>3. TypeOK' BY <1>3, <2>1, <2>2 DEF TInv, TypeOK, RefreshWrite, records, Statuses
  <2>4. Shape' /\ JobsFit' BY <1>3 DEF TInv, Shape, JobsFit, JobFits, RefreshWrite, ShipmentJob, HasPieces
  <2> QED BY <2>3, <2>4 DEF TInv
<1> QED BY <1>1, <1>2, <1>3, <1>4

LEMMA TInvStep == TInv /\ [Next]_vars => TInv'
<1> SUFFICES ASSUME TInv, [Next]_vars PROVE TInv' OBVIOUS
<1>1. ASSUME NEW s \in Session, NEW e \in Entry, NEW q \in Qty, EntryCheck(s, e, q) PROVE TInv'
  <2>1. PICK j : /\ j = [NoJob EXCEPT !.on = e, !.qty = q]
                 /\ Begin(s, "correct", j) \/ Begin(s, "record", j)
    BY <1>1 DEF EntryCheck
  <2>2. j.on = e /\ j.qty = q BY <2>1 DEF NoJob
  <2>3. JobFits("correct", j) /\ JobFits("record", j) BY <2>2 DEF JobFits
  <2> QED BY <2>1, <2>3, BeginFits
<1>2. ASSUME NEW s \in Session, NEW e \in Entry, DeleteCheck(s, e) PROVE TInv'
  <2>1. PICK j : j = [NoJob EXCEPT !.on = e] /\ Begin(s, "delete", j) BY <1>2 DEF DeleteCheck
  <2>2. j.on = e /\ j.qty = 0 BY <2>1 DEF NoJob
  <2>3. 0 \in Qty BY BoundAssumption DEF Qty
  <2>4. JobFits("delete", j) BY <2>2, <2>3 DEF JobFits
  <2> QED BY <2>1, <2>4, BeginFits
<1>3. ASSUME NEW s \in Session, NEW ledger \in Ledger, NEW q \in Qty,
             SetMatrix(s, ledger, q)
      PROVE TInv'
  <2>1. ledger \in {"inLine", "shipped"} BY LedgerAssumption
  <2>2. TypeOK' BY <1>3, <2>1 DEF SetMatrix, TInv, TypeOK, Wrote
  <2> QED BY <1>3, <2>2, WroteFits DEF SetMatrix
<1>4. ASSUME NEW s \in Session, Inspect(s) PROVE TInv'
  <2>1. TypeOK' BY <1>4 DEF Inspect, TInv, TypeOK, Wrote
  <2> QED BY <1>4, <2>1, WroteFits DEF Inspect
<1>5. CASE Crash
  <2>1. TypeOK' BY <1>5 DEF Crash, TInv, TypeOK, records
  <2>2. Shape' /\ JobsFit' BY <1>5 DEF Crash, Shape, JobsFit, JobFits
  <2> QED BY <2>1, <2>2 DEF TInv
<1>6. CASE UNCHANGED vars
  BY <1>6 DEF vars, records, TInv, Shape, TypeOK, JobsFit, JobFits, ShipmentJob, HasPieces
<1> QED
  BY <1>1, <1>2, <1>3, <1>4, <1>5, <1>6, ShipmentCheckTyped, ShipmentWriteTyped, EntryWriteTyped,
     DeleteWriteTyped, CacheStepTyped DEF Next

\* The tables hold what the code stores: in particular no consignment is recorded as gone
\* with nothing in it, though its quantity and its status are changed by separate requests.
THEOREM TypeCorrect == Spec => []TypeOK
<1>1. TInv => TypeOK BY DEF TInv
<1> QED BY <1>1, TInvInit, TInvStep, PTL DEF Spec

-----------------------------------------------------------------------------
(* Shipping beyond what was made.  A shipment that nothing has overtaken    *)
(* still has the sums its check had before it, so it writes what the check  *)
(* allowed; every other step leaves what has shipped alone.                 *)

OldQty(i) == IF i \in DOMAIN shipment THEN shipment[i].qty ELSE 0

\* A claim that needs no override: it does not grow, or what it comes to was made.
Covered(j) == j.qty <= OldQty(j.on) \/ ShipmentTotalAfter(j.on, j.qty) <= Produced

\* A shipment whose reading is still so, and which is not an override, is covered.
Weighed == \A s \in current : pc[s] = "ship" /\ ~job[s].over => Covered(job[s])

Finite == IsFiniteSet(DOMAIN sewn) /\ IsFiniteSet(DOMAIN shipment)

BInv == TInv /\ Finite /\ Weighed

LEMMA MaxIsInt ==
  ASSUME NEW a \in Int, NEW b \in Int
  PROVE  Max({a, b}) \in Int
<1>1. \E m \in {a, b} : \A y \in {a, b} : m >= y
  <2>1. CASE a >= b BY <2>1
  <2>2. CASE ~(a >= b) BY <2>2
  <2> QED BY <2>1, <2>2
<1>2. Max({a, b}) \in {a, b} BY <1>1 DEF Max
<1> QED BY <1>2

\* What was made is a figure.
LEMMA ProducedTyped ==
  ASSUME NEW entries, IsFiniteSet(DOMAIN entries), \A e \in DOMAIN entries : entries[e] \in Qty,
         NEW g, g.inLine \in Qty
  PROVE  ProducedQty(entries, g) \in Int
<1>1. \A e \in DOMAIN entries : entries[e] \in Int BY DEF Qty
<1>2. Sewing(entries) \in Int BY <1>1, SumIsInt DEF Sewing, SumFunction
<1>3. g.inLine \in Int BY DEF Qty
<1> QED BY <1>2, <1>3, MaxIsInt DEF ProducedQty

\* What was made and what has shipped are figures.
LEMMA FiguresTyped ==
  ASSUME TypeOK, Finite
  PROVE  Produced \in Int /\ Shipped \in Int
<1>1. Produced \in Int BY ProducedTyped DEF Produced, TypeOK, Finite
<1> DEFINE q == QtyOf(shipment)
<1>2. DOMAIN q = DOMAIN shipment /\ \A i \in DOMAIN shipment : q[i] \in Int
  BY DEF TypeOK, Row, Qty, QtyOf
<1>3. Shipped = SumFunctionOnSet(q, DOMAIN shipment) BY <1>2 DEF Shipped, Pieces, SumFunction
<1> HIDE DEF q
<1>4. Shipped \in Int BY <1>2, <1>3, SumIsInt DEF Finite
<1> QED BY <1>1, <1>4

\* The total after a consignment of so many pieces is a figure.
LEMMA TotalTyped ==
  ASSUME TypeOK, Finite, NEW i, NEW k \in Int
  PROVE  ShipmentTotalAfter(i, k) \in Int
<1> DEFINE f == QtyOf(shipment)
           D == DOMAIN shipment \ {i}
<1>1. \A j \in D : f[j] \in Int BY DEF TypeOK, Row, Qty, QtyOf
<1>2. IsFiniteSet(D) BY FS_RemoveElement DEF Finite
<1>3. ShipmentTotalAfter(i, k) = SumFunctionOnSet(f, D) + k BY DEF ShipmentTotalAfter
<1> HIDE DEF f, D
<1>4. SumFunctionOnSet(f, D) \in Int BY <1>1, <1>2, SumIsInt
<1> QED BY <1>3, <1>4

\* Writing a consignment: what has shipped is then what its check summed, and no more
\* than before if the consignment did not grow.
LEMMA ShippedAfter ==
  ASSUME TypeOK, Finite, NEW i, NEW row \in Row,
         shipment' = [j \in DOMAIN shipment \cup {i} |-> IF j # i THEN shipment[j] ELSE row]
  PROVE  /\ Shipped' = ShipmentTotalAfter(i, row.qty)
         /\ Shipped = ShipmentTotalAfter(i, OldQty(i))
         /\ ShipmentTotalAfter(i, 0) \in Int
         /\ \A k \in Int : ShipmentTotalAfter(i, k) = ShipmentTotalAfter(i, 0) + k
<1> DEFINE D == DOMAIN shipment
           f == QtyOf(shipment)
           g == QtyOf(shipment')
           rest == SumFunctionOnSet(f, D \ {i})
<1>1. DOMAIN f = D /\ \A j \in D : f[j] \in Int /\ f[j] = shipment[j].qty
  BY DEF TypeOK, Row, Qty, QtyOf
<1>2. row.qty \in Int BY DEF Row, Qty
<1>3. /\ DOMAIN shipment' = D \cup {i} /\ DOMAIN g = D \cup {i}
      /\ g[i] = row.qty /\ \A j \in D \ {i} : g[j] = f[j]
  BY DEF QtyOf
<1>4. IsFiniteSet(D) /\ IsFiniteSet(D \ {i}) /\ IsFiniteSet(D \cup {i})
  BY FS_RemoveElement, FS_AddElement DEF Finite
<1>5. Shipped = SumFunctionOnSet(f, D) /\ Shipped' = SumFunctionOnSet(g, D \cup {i})
  BY <1>1, <1>3 DEF Shipped, Pieces, SumFunction
<1>6. \A k : ShipmentTotalAfter(i, k) = rest + k BY DEF ShipmentTotalAfter
<1> HIDE DEF D, f, g
<1>7. rest \in Int BY <1>1, <1>4, SumIsInt
<1>8. SumFunctionOnSet(g, (D \cup {i}) \ {i}) = rest
  <2>1. (D \cup {i}) \ {i} = D \ {i} OBVIOUS
  <2>2. SumFunctionOnSet(g, D \ {i}) = rest BY <1>3, <1>4, SumSame
  <2> QED BY <2>1, <2>2
<1>9. Shipped' = row.qty + rest
  <2>1. \A j \in D \cup {i} : g[j] \in Int BY <1>1, <1>2, <1>3
  <2>2. SumFunctionOnSet(g, D \cup {i}) = g[i] + SumFunctionOnSet(g, (D \cup {i}) \ {i})
    BY <1>4, <2>1, SumSplit
  <2> QED BY <1>3, <1>5, <1>8, <2>2
<1>10. Shipped = rest + OldQty(i)
  <2>1. CASE i \in D
    <3>1. SumFunctionOnSet(f, D) = f[i] + rest BY <1>1, <1>4, <2>1, SumSplit
    <3>2. OldQty(i) = f[i] /\ f[i] \in Int BY <1>1, <2>1 DEF OldQty, D
    <3> HIDE DEF rest
    <3> QED BY <1>5, <1>7, <3>1, <3>2
  <2>2. CASE i \notin D
    <3>1. D \ {i} = D BY <2>2
    <3>2. OldQty(i) = 0 BY <2>2 DEF OldQty, D
    <3>3. SumFunctionOnSet(f, D) = rest BY <3>1
    <3> HIDE DEF rest
    <3> QED BY <1>5, <1>7, <3>2, <3>3
  <2> QED BY <2>1, <2>2
<1> HIDE DEF rest
<1> QED BY <1>2, <1>6, <1>7, <1>9, <1>10

\* A request that writes no record leaves the others as covered as they were.
LEMMA StillWeighed ==
  ASSUME BInv, TInv', NEW s \in Session, NEW at, NEW j,
         pc' = [pc EXCEPT ![s] = at], job' = [job EXCEPT ![s] = j],
         UNCHANGED records,
         \/ current' \subseteq current \cup {s} /\ (at = "ship" /\ ~j.over => Covered(j))
         \/ current' \subseteq current \ {s}
  PROVE  BInv'
<1>1. Finite' BY DEF BInv, Finite, records
<1>2. \A k : Covered(k)' <=> Covered(k)
  BY DEF Covered, OldQty, ShipmentTotalAfter, Produced, records
<1>3. Weighed' BY <1>2 DEF BInv, TInv, Shape, Weighed
<1> QED BY <1>1, <1>3 DEF BInv

\* A request that writes a record leaves nobody's reading as it was.
LEMMA WroteWeighed ==
  ASSUME BInv, TInv', NEW s \in Session, Wrote(s), Finite'
  PROVE  BInv'
<1>1. Weighed' BY DEF Wrote, Weighed
<1> QED BY <1>1 DEF BInv

LEMMA BInvInit == Init => BInv
<1> SUFFICES ASSUME Init PROVE BInv OBVIOUS
<1>1. DOMAIN sewn = {} /\ DOMAIN shipment = {} BY DEF Init
<1>2. Finite BY <1>1, FS_EmptySet DEF Finite
<1>3. Weighed BY DEF Init, Weighed
<1> QED BY <1>2, <1>3, TInvInit DEF BInv

LEMMA BInvStep == BInv /\ [Next]_vars => BInv'
<1> SUFFICES ASSUME BInv, [Next]_vars PROVE BInv' OBVIOUS
<1>t. TInv' BY TInvStep DEF BInv
<1>1. ASSUME NEW s \in Session, NEW i \in Shipment, NEW q \in Qty, NEW st \in ShipmentStatus,
             ShipmentCheck(s, i, q, st)
      PROVE BInv'
  <2> DEFINE over == q > OldQty(i) /\ ShipmentTotalAfter(i, q) > Produced
             j == [on |-> i, qty |-> q, status |-> st, over |-> over]
  <2>1. Begin(s, "ship", j) BY <1>1 DEF ShipmentCheck, OldQty
  <2>2. j.on = i /\ j.qty = q /\ j.over = over OBVIOUS
  <2>3. ~over => Covered(j)
    <3>1. q \in Int /\ OldQty(i) \in Int BY DEF Qty, OldQty, BInv, TInv, TypeOK, Row
    <3>2. /\ Produced \in Int
          /\ ShipmentTotalAfter(i, q) \in Int
      BY <3>1, FiguresTyped, TotalTyped DEF BInv, TInv
    <3> QED BY <2>2, <3>1, <3>2 DEF Covered
  <2> HIDE DEF j
  <2> QED BY <1>t, <2>1, <2>2, <2>3, StillWeighed DEF Begin
<1>2. ASSUME NEW s \in Session, ShipmentWrite(s) PROVE BInv'
  <2>1. DOMAIN shipment' = DOMAIN shipment \cup {job[s].on} /\ UNCHANGED sewn /\ Wrote(s)
    BY <1>2 DEF ShipmentWrite
  <2>2. Finite' BY <2>1, FS_AddElement DEF BInv, Finite
  <2> QED BY <1>t, <2>1, <2>2, WroteWeighed
<1>3. ASSUME NEW s \in Session, NEW e \in Entry, NEW q \in Qty, EntryCheck(s, e, q) PROVE BInv'
  <2>1. PICK j : Begin(s, "correct", j) \/ Begin(s, "record", j) BY <1>3 DEF EntryCheck
  <2> QED BY <1>t, <2>1, StillWeighed DEF Begin
<1>4. ASSUME NEW s \in Session, EntryWrite(s) PROVE BInv'
  <2>1. CASE NotFound(s) BY <1>t, <2>1, StillWeighed DEF NotFound
  <2>2. CASE ~NotFound(s)
    <3>1. DOMAIN sewn' = DOMAIN sewn \cup {job[s].on} /\ UNCHANGED shipment /\ Wrote(s)
      BY <1>4, <2>2 DEF EntryWrite
    <3>2. Finite' BY <3>1, FS_AddElement DEF BInv, Finite
    <3> QED BY <1>t, <3>1, <3>2, WroteWeighed
  <2> QED BY <2>1, <2>2
<1>5. ASSUME NEW s \in Session, NEW e \in Entry, DeleteCheck(s, e) PROVE BInv'
  <2>1. PICK j : Begin(s, "delete", j) BY <1>5 DEF DeleteCheck
  <2> QED BY <1>t, <2>1, StillWeighed DEF Begin
<1>6. ASSUME NEW s \in Session, DeleteWrite(s) PROVE BInv'
  <2>1. CASE NotFound(s) BY <1>t, <2>1, StillWeighed DEF NotFound
  <2>2. CASE ~NotFound(s)
    <3>1. DOMAIN sewn' = DOMAIN sewn \ {job[s].on} /\ UNCHANGED shipment /\ Wrote(s)
      BY <1>6, <2>2 DEF DeleteWrite, Restrict
    <3>2. Finite' BY <3>1, FS_RemoveElement DEF BInv, Finite
    <3> QED BY <1>t, <3>1, <3>2, WroteWeighed
  <2> QED BY <2>1, <2>2
<1>7. ASSUME NEW s \in Session, NEW ledger \in Ledger, NEW q \in Qty,
             SetMatrix(s, ledger, q)
      PROVE BInv'
  <2>1. UNCHANGED <<sewn, shipment>> /\ Wrote(s) BY <1>7 DEF SetMatrix
  <2> QED BY <1>t, <2>1, WroteWeighed DEF BInv, Finite
<1>8. ASSUME NEW s \in Session, Inspect(s) PROVE BInv'
  <2>1. UNCHANGED <<sewn, shipment>> /\ Wrote(s) BY <1>8 DEF Inspect
  <2> QED BY <1>t, <2>1, WroteWeighed DEF BInv, Finite
<1>9. ASSUME NEW s \in Session, RefreshRead(s) PROVE BInv'
  <2>1. PICK j : j = [NoJob EXCEPT !.status = Status] OBVIOUS
  <2>2. /\ pc' = [pc EXCEPT ![s] = "cache"] /\ job' = [job EXCEPT ![s] = j]
        /\ current' = current \cup {s} /\ UNCHANGED records
    BY <1>9, <2>1 DEF RefreshRead
  <2> QED BY <1>t, <2>2, StillWeighed
<1>13. ASSUME NEW s \in Session, NEW at \in {"idle", "refresh"},
              pc' = [pc EXCEPT ![s] = at], UNCHANGED <<records, job, current>>
       PROVE  BInv'
  <2>1. Finite' BY <1>13 DEF BInv, Finite, records
  <2>2. \A k : Covered(k)' <=> Covered(k)
    BY <1>13 DEF Covered, OldQty, ShipmentTotalAfter, Produced, records
  <2>3. Weighed' BY <1>13, <2>2 DEF BInv, TInv, Shape, Weighed
  <2> QED BY <1>t, <2>1, <2>3 DEF BInv
<1>14. ASSUME NEW s \in Session, RefreshNothing(s) \/ OtherWrite(s) PROVE BInv'
  BY <1>13, <1>14 DEF RefreshNothing, OtherWrite, AfterWrite
<1>10. ASSUME NEW s \in Session, RefreshWrite(s) PROVE BInv'
  BY <1>t, <1>10, StillWeighed DEF RefreshWrite
<1>11. CASE Crash
  <2>1. Finite' BY <1>11 DEF Crash, BInv, Finite, records
  <2>2. Weighed' BY <1>11 DEF Crash, Weighed
  <2> QED BY <1>t, <2>1, <2>2 DEF BInv
<1>12. CASE UNCHANGED vars
  <2>1. Finite' BY <1>12 DEF vars, BInv, Finite, records
  <2>2. \A k : Covered(k)' <=> Covered(k)
    BY <1>12 DEF vars, Covered, OldQty, ShipmentTotalAfter, Produced, records
  <2>3. Weighed' BY <1>12, <2>2 DEF vars, BInv, Weighed
  <2> QED BY <1>t, <2>1, <2>3 DEF BInv
<1> QED
  BY <1>1, <1>2, <1>3, <1>4, <1>5, <1>6, <1>7, <1>8, <1>9, <1>10, <1>11, <1>12, <1>13, <1>14
  DEF Next

\* Writing a shipment takes what has shipped past what was made only if its reading
\* was overtaken, or it is an override and is recorded as one.
LEMMA WriteIsExplained ==
  ASSUME BInv, NEW s \in Session, ShipmentWrite(s), Shipped <= Produced, Shipped' > Produced'
  PROVE  /\ pc[s] = "ship" /\ pc'[s] # "ship"
         /\ s \notin current \/ shipment'[job[s].on].override
<1> DEFINE i == job[s].on
           was == i \in DOMAIN shipment /\ shipment[i].override
           row == [status |-> job[s].status, qty |-> job[s].qty, override |-> was \/ job[s].over]
<1>1. ShipmentJob(job[s]) BY DEF BInv, TInv, JobsFit, JobFits, ShipmentWrite
<1>2. shipment' = [k \in DOMAIN shipment \cup {i} |-> IF k # i THEN shipment[k] ELSE row]
  BY DEF ShipmentWrite
<1>3. (was \/ job[s].over) \in BOOLEAN OBVIOUS
<1>4. row \in Row BY <1>1, <1>3 DEF ShipmentJob, Row
<1>5. row.qty = job[s].qty /\ (job[s].over => row.override) OBVIOUS
<1>6. shipment'[i] = row BY <1>2
<1>7. Produced' = Produced BY DEF ShipmentWrite, Produced
<1>8. pc[s] = "ship" /\ pc'[s] = "refresh"
  BY DEF ShipmentWrite, Wrote, AfterWrite, BInv, TInv, Shape
<1>9. /\ Shipped' = ShipmentTotalAfter(i, job[s].qty)
      /\ Shipped = ShipmentTotalAfter(i, OldQty(i))
      /\ ShipmentTotalAfter(i, 0) \in Int
      /\ \A k \in Int : ShipmentTotalAfter(i, k) = ShipmentTotalAfter(i, 0) + k
  <2> HIDE DEF row, i
  <2> QED BY <1>2, <1>4, <1>5, ShippedAfter DEF BInv, TInv
<1>10. job[s].qty \in Int /\ OldQty(i) \in Int
  BY <1>1 DEF ShipmentJob, OldQty, BInv, TInv, TypeOK, Row, Qty
<1>11. Produced \in Int BY FiguresTyped DEF BInv, TInv
<1> HIDE DEF row, was
<1>12. ~Covered(job[s])
  BY <1>7, <1>9, <1>10, <1>11 DEF Covered
<1>13. s \in current => job[s].over BY <1>8, <1>12 DEF BInv, Weighed
<1> QED BY <1>5, <1>6, <1>8, <1>13

\* No step that leaves the consignments alone takes what has shipped past what was made,
\* but by a correction of production.
LEMMA OthersAreExplained ==
  ASSUME BInv, [Next]_vars, Shipped <= Produced, Shipped' > Produced',
         ~ \E s \in Session : ShipmentWrite(s)
  PROVE  Produced' < Produced
<1>1. UNCHANGED shipment
  <2>1. CASE UNCHANGED vars \/ Crash
    BY <2>1 DEF vars, records, Crash
  <2>2. ASSUME NEW s \in Session
        PROVE  /\ \A i \in Shipment, q \in Qty, st \in ShipmentStatus :
                    ShipmentCheck(s, i, q, st) => UNCHANGED shipment
               /\ \A e \in Entry : DeleteCheck(s, e) => UNCHANGED shipment
               /\ \A e \in Entry, q \in Qty : EntryCheck(s, e, q) => UNCHANGED shipment
    BY DEF records, Begin, NotFound, ShipmentCheck, EntryCheck, DeleteCheck
  <2>3. ASSUME NEW s \in Session
        PROVE  /\ \A ledger \in Ledger, q \in Qty :
                    SetMatrix(s, ledger, q) => UNCHANGED shipment
               /\ EntryWrite(s) \/ DeleteWrite(s) => UNCHANGED shipment
               /\ Inspect(s) \/ OtherWrite(s) => UNCHANGED shipment
               /\ RefreshRead(s) \/ RefreshNothing(s) \/ RefreshWrite(s) => UNCHANGED shipment
    <3>1. \A ledger \in Ledger, q \in Qty :
            SetMatrix(s, ledger, q) => UNCHANGED shipment
      BY DEF SetMatrix
    <3>2. EntryWrite(s) \/ DeleteWrite(s) => UNCHANGED shipment
      BY DEF records, NotFound, EntryWrite, DeleteWrite
    <3>3. Inspect(s) \/ OtherWrite(s) => UNCHANGED shipment
      BY DEF records, Inspect, OtherWrite
    <3>4. RefreshRead(s) \/ RefreshNothing(s) \/ RefreshWrite(s) => UNCHANGED shipment
      BY DEF records, RefreshRead, RefreshNothing, RefreshWrite
    <3> QED  BY <3>1, <3>2, <3>3, <3>4
  <2> QED  BY <2>1, <2>2, <2>3, ZenonT(30) DEF Next
<1>2. Shipped' = Shipped BY <1>1 DEF Shipped
<1>3. Produced \in Int /\ Shipped \in Int BY FiguresTyped DEF BInv, TInv
<1>4. BInv' BY BInvStep
<1>5. Produced' \in Int BY <1>4, ProducedTyped DEF Produced, BInv, TInv, TypeOK, Finite
<1> QED BY <1>2, <1>3, <1>5

\* However many people, entries and consignments there are: an order comes to have
\* shipped more than it made only by a shipment with an override on record, by a
\* correction of production, or by a shipment whose check somebody else's write overtook.
THEOREM BeyondStaysExplained == Spec => BeyondIsExplained
<1>1. ASSUME BInv, [Next]_vars, Shipped <= Produced /\ Shipped' > Produced'
      PROVE  \/ Produced' < Produced
             \/ \E s \in Session : /\ pc[s] = "ship" /\ pc'[s] # "ship"
                                   /\ s \notin current \/ shipment'[job[s].on].override
  BY <1>1, WriteIsExplained, OthersAreExplained
<1> QED BY <1>1, BInvInit, BInvStep, PTL DEF Spec, BeyondIsExplained

-----------------------------------------------------------------------------
(* Workflow: the tasks of one order                                          *)

ByItself == {"autoRead", "auto", "autoDone", "autoNext"}
Holding == {"locked", "audited", "released", "notified"}
OnATask == ByItself \cup Holding \cup {"checked", "status", "reopened"}
Places == OnATask \cup {"idle", "closing"}

Request == [on : Task \cup Audit \cup {NoAudit}, to : TaskStatus, freed : SUBSET Task,
        tell : SUBSET Group]

\* What a request works on, and what it will write.
Fits(p) ==
  /\ stage[p] \in OnATask => request[p].on \in Task
  /\ stage[p] \in ByItself => request[p].on \in SelfCompleting
  /\ stage[p] = "closing" => request[p].on \in Audit
  /\ stage[p] = "status" => request[p].to # "COMPLETED"

\* A completion past its lock holds its task, not completed, and what it releases.
Held(p, t) == lock[t] = p /\ status[t] # "COMPLETED"
Holds(p) ==
  /\ stage[p] \in Holding => Held(p, request[p].on)
  /\ stage[p] \in {"released", "notified"} => \A t \in request[p].freed : Held(p, t)

RequestsOK ==
  /\ stage \in [Actor -> Places] /\ request \in [Actor -> Request]
  /\ \A p \in Actor : Fits(p) /\ Holds(p)

\* A task that is open has been completed no time since it last was.
Counted(t) == completions[t] <= 1 /\ (status[t] # "COMPLETED" => completions[t] = 0)

TasksInv ==
  /\ TasksTypeOK /\ RequestsOK
  /\ \A t \in Task : Counted(t)
  /\ AuditAnswered

\* It holds before anything was asked for.
LEMMA TasksInitSafe == TasksInit => TasksInv
<1> SUFFICES ASSUME TasksInit PROVE TasksInv
  OBVIOUS
<1> USE AuditAssumption DEF TasksInit, NoRequest, TaskStatus
<1>1. TasksTypeOK
  BY DEF TasksTypeOK
<1>2. RequestsOK
  BY DEF RequestsOK, Places, Request, Fits, Holds, OnATask, ByItself, Holding
<1>3. \A t \in Task : Counted(t)
  BY DEF Counted
<1>4. AuditAnswered
  BY DEF AuditAnswered
<1> QED  BY <1>1, <1>2, <1>3, <1>4 DEF TasksInv

\* What a step of p may do to the tables: nothing that another holds is completed, a
\* task that is completed was open, and its audit is closed with it.
AuditCloses(t) == SourceAudit[t] = NoAudit \/ audit'[SourceAudit[t]] = "closed"

Careful(p) ==
  /\ \A t \in Task :
       \/ status'[t] = status[t] /\ completions'[t] = completions[t]
       \/ status[t] # "COMPLETED" /\ status'[t] # "COMPLETED" /\ completions'[t] = completions[t]
       \/ status'[t] # "COMPLETED" /\ completions'[t] = 0
       \/ /\ status[t] # "COMPLETED" /\ status'[t] = "COMPLETED" /\ lock[t] \in {p, Nobody}
          /\ completions'[t] = completions[t] + 1 /\ AuditCloses(t)
  /\ \A a \in Audit : audit[a] = "closed" => audit'[a] = "closed"

TablesOK ==
  /\ status \in [Task -> TaskStatus \cup {"ABSENT"}]
  /\ completions \in [Task -> Nat]
  /\ audit \in [Audit -> {"none", "open", "closed"}]
  /\ told \subseteq Group /\ reopened \subseteq Task

LocksOK(p) ==
  /\ lock' \in [Task \cup Audit -> Actor \cup {Nobody}]
  /\ \A x \in Task \cup Audit : lock[x] \notin {p, Nobody} => lock'[x] = lock[x]

\* The counts and the audits stay right over a careful step.
LEMMA CarefulSafe ==
  ASSUME TasksInv, NEW p \in Actor, TablesOK', Careful(p)
  PROVE  /\ \A t \in Task : Counted(t)'
         /\ AuditAnswered'
         /\ \A t \in Task : lock[t] \notin {p, Nobody} /\ status[t] # "COMPLETED"
                           => status'[t] # "COMPLETED"
<1>1. \A t \in Task : Counted(t) /\ completions[t] \in Nat /\ completions'[t] \in Nat
  BY DEF TasksInv, TasksTypeOK, TablesOK
<1>2. \A t \in Task : Counted(t)'
  <2> SUFFICES ASSUME NEW t \in Task
               PROVE  Counted(t)'
    OBVIOUS
  <2> DEFINE c == completions[t]
             d == completions'[t]
  <2>1. c \in Nat /\ d \in Nat /\ c <= 1 /\ (status[t] # "COMPLETED" => c = 0)
    BY <1>1 DEF Counted
  <2>2. \/ status'[t] = status[t] /\ d = c
        \/ status[t] # "COMPLETED" /\ status'[t] # "COMPLETED" /\ d = c
        \/ status'[t] # "COMPLETED" /\ d = 0
        \/ status[t] # "COMPLETED" /\ status'[t] = "COMPLETED" /\ d = c + 1
    BY DEF Careful
  <2>3. d <= 1 /\ (status'[t] # "COMPLETED" => d = 0)
    <3> HIDE DEF c, d
    <3> QED  BY <2>1, <2>2
  <2> QED  BY <2>3 DEF Counted
<1>3. \A t \in Task : lock[t] \notin {p, Nobody} /\ status[t] # "COMPLETED"
                     => status'[t] # "COMPLETED"
  BY <1>1 DEF Careful
<1>4. AuditAnswered'
  <2> SUFFICES ASSUME NEW t \in Task, SourceAudit[t] # NoAudit, status'[t] = "COMPLETED"
               PROVE  audit'[SourceAudit[t]] = "closed"
    BY DEF AuditAnswered
  <2>1. SourceAudit[t] \in Audit
    BY AuditAssumption
  <2>2. CASE status[t] = "COMPLETED"
    <3>1. audit[SourceAudit[t]] = "closed"
      BY <2>2 DEF TasksInv, AuditAnswered
    <3> QED  BY <2>1, <3>1 DEF Careful
  <2>3. CASE status[t] # "COMPLETED"
    BY <2>3 DEF Careful, AuditCloses
  <2> QED  BY <2>2, <2>3
<1> QED  BY <1>2, <1>3, <1>4

\* A step of p that is careful with the tables and the locks leaves everybody else's
\* request as it should be.
LEMMA StepSafe ==
  ASSUME TasksInv, NEW p \in Actor, NEW w \in Places, NEW j \in Request,
         stage' = [stage EXCEPT ![p] = w], request' = [request EXCEPT ![p] = j],
         TablesOK', Careful(p), LocksOK(p),
         Fits(p)', Holds(p)'
  PROVE  TasksInv'
<1>1. /\ stage' \in [Actor -> Places] /\ request' \in [Actor -> Request]
      /\ \A q \in Actor : q # p => stage'[q] = stage[q] /\ request'[q] = request[q]
  BY DEF TasksInv, RequestsOK
<1>2. /\ \A t \in Task : Counted(t)'
      /\ AuditAnswered'
      /\ \A t \in Task : lock[t] \notin {p, Nobody} /\ status[t] # "COMPLETED"
                         => status'[t] # "COMPLETED"
  BY CarefulSafe
<1>3. ASSUME NEW q \in Actor, NEW t \in Task, q # p, Held(q, t)
      PROVE  Held(q, t)'
  <2>1. lock[t] = q /\ q # Nobody /\ status[t] # "COMPLETED"
    BY <1>3, AuditAssumption DEF Held
  <2>2. lock'[t] = q
    BY <1>3, <2>1 DEF LocksOK
  <2>3. status'[t] # "COMPLETED"
    BY <1>2, <1>3, <2>1
  <2> QED  BY <2>2, <2>3 DEF Held
<1>4. ASSUME NEW q \in Actor, q # p
      PROVE  Fits(q)' /\ Holds(q)'
  <2>1. Fits(q) /\ Holds(q) /\ request[q] \in Request /\ stage'[q] = stage[q] /\ request'[q] = request[q]
    BY <1>1, <1>4 DEF TasksInv, RequestsOK
  <2>2. Fits(q)'
    BY <2>1 DEF Fits
  <2>3. ASSUME stage[q] \in Holding PROVE Held(q, request[q].on)'
    <3>1. request[q].on \in Task /\ Held(q, request[q].on)
      BY <2>1, <2>3 DEF Fits, OnATask, Holds
    <3>2. PICK t \in Task : t = request[q].on
      BY <3>1
    <3>3. Held(q, t)'
      BY <1>3, <1>4, <3>1, <3>2
    <3> QED  BY <2>1, <3>2, <3>3 DEF Held
  <2>4. ASSUME stage[q] \in {"released", "notified"}, NEW t \in request[q].freed PROVE Held(q, t)'
    <3>1. t \in Task /\ Held(q, t)
      BY <2>1, <2>4 DEF Request, Holds
    <3> QED  BY <1>3, <1>4, <3>1
  <2>5. Holds(q)'
    BY <2>1, <2>3, <2>4 DEF Holds, Held
  <2> QED  BY <2>2, <2>5
<1>5. TasksTypeOK'
  <2>1. \A q \in Actor : request'[q] \in Request
    BY <1>1
  <2> QED  BY <2>1 DEF TasksTypeOK, TablesOK, LocksOK, Request
<1>6. RequestsOK'
  BY <1>1, <1>4 DEF RequestsOK
<1> QED  BY <1>2, <1>5, <1>6 DEF TasksInv

\* Taking free rows, letting go of one's own and leaving the locks alone disturb nobody else.
LEMMA TakesLocks ==
  ASSUME TasksTypeOK, NEW p \in Actor, NEW rows \in SUBSET (Task \cup Audit),
         \A x \in rows : Free(x), Lock(p, rows)
  PROVE  /\ LocksOK(p)
         /\ \A x \in Task \cup Audit : lock[x] = p \/ x \in rows => lock'[x] = p
BY DEF TasksTypeOK, Free, Lock, LocksOK

LEMMA LetsGo ==
  ASSUME TasksTypeOK, NEW p \in Actor, lock' = Unlocked(p, {})
  PROVE  LocksOK(p)
BY DEF TasksTypeOK, Unlocked, LocksOK

LEMMA LocksStay ==
  ASSUME TasksTypeOK, NEW p \in Actor, UNCHANGED lock
  PROVE  LocksOK(p)
BY DEF TasksTypeOK, LocksOK

\* Leaving the tables alone is careful.
LEMMA TablesStay ==
  ASSUME TasksInv, NEW p \in Actor, UNCHANGED tables
  PROVE  TablesOK' /\ Careful(p)
BY DEF TasksInv, TasksTypeOK, TablesOK, Careful, tables

\* A task opened or blocked: a step that completes none.
LEMMA StatusSet ==
  ASSUME TasksInv, NEW p \in Actor, NEW t \in Task, NEW s \in TaskStatus \ {"COMPLETED"},
         SetStatus(t, s), UNCHANGED audit, reopened' \subseteq Task
  PROVE  TablesOK' /\ Careful(p)
<1>1. TablesOK'
  BY DEF TasksInv, TasksTypeOK, TablesOK, SetStatus
<1>2. Careful(p)
  BY DEF TasksInv, TasksTypeOK, Careful, SetStatus
<1> QED  BY <1>1, <1>2

\* A request that is answered has nothing left to hold.
LEMMA AnswerSafe ==
  ASSUME TasksInv, NEW p \in Actor, Answer(p), TablesOK', Careful(p)
  PROVE  TasksInv'
<1>1. NoRequest \in Request /\ "idle" \in Places
  BY DEF NoRequest, Request, TaskStatus, Places
<1>2. LocksOK(p)
  BY LetsGo DEF TasksInv, Answer
<1>3. stage' = [stage EXCEPT ![p] = "idle"] /\ request' = [request EXCEPT ![p] = NoRequest]
  BY DEF Answer
<1>4. stage'[p] = "idle"
  BY <1>3 DEF TasksInv, RequestsOK
<1>5. Fits(p)' /\ Holds(p)'
  BY <1>4 DEF Fits, Holds, OnATask, ByItself, Holding
<1> QED  BY <1>1, <1>2, <1>3, <1>5, StepSafe

\* A request begins on what its place asks for.
LEMMA BeginSafe ==
  ASSUME TasksInv, NEW p \in Actor, NEW w, NEW x, NEW s \in TaskStatus, BeginRequest(p, w, x, s),
         \/ w \in {"checked", "reopened"} /\ x \in Task
         \/ w = "status" /\ x \in Task /\ s # "COMPLETED"
         \/ w = "autoRead" /\ x \in SelfCompleting
         \/ w = "closing" /\ x \in Audit,
         TablesOK', Careful(p), LocksOK(p)
  PROVE  TasksInv'
<1> DEFINE j == [NoRequest EXCEPT !.on = x, !.to = s]
<1>1. j \in Request /\ w \in Places /\ j.on = x /\ j.to = s
  BY SelfCompletingAssumption DEF NoRequest, Request, TaskStatus, Places, OnATask, ByItself, Holding
<1>2. stage' = [stage EXCEPT ![p] = w] /\ request' = [request EXCEPT ![p] = j]
  BY DEF BeginRequest
<1> HIDE DEF j
<1>3. stage'[p] = w /\ request'[p] = j
  BY <1>2 DEF TasksInv, RequestsOK
<1>4. Fits(p)'
  BY <1>1, <1>3, SelfCompletingAssumption DEF Fits, OnATask, ByItself, Holding
<1>5. Holds(p)'
  BY <1>3 DEF Holds, Holding
<1> QED  BY <1>1, <1>2, <1>4, <1>5, StepSafe

\* Asking for something.
LEMMA AskSafe == ASSUME TasksInv, NEW p \in Actor, Ask(p)  PROVE TasksInv'
<1>1. ASSUME NEW t \in Task, CompleteCheck(p, t)  PROVE TasksInv'
  <2>1. BeginRequest(p, "checked", t, "COMPLETED") /\ UNCHANGED <<tables, lock>>
    BY <1>1 DEF CompleteCheck
  <2> QED  BY <2>1, TablesStay, LocksStay, BeginSafe DEF TasksInv, TaskStatus
<1>2. ASSUME NEW t \in Task, Reopen(p, t)  PROVE TasksInv'
  <2>1. BeginRequest(p, "reopened", t, "OPEN") /\ SetStatus(t, "OPEN") /\ UNCHANGED <<audit, reopened, lock>>
    BY <1>2 DEF Reopen
  <2>2. TablesOK' /\ Careful(p)
    BY <2>1, StatusSet DEF TasksInv, TasksTypeOK, TaskStatus
  <2> QED  BY <2>1, <2>2, LocksStay, BeginSafe DEF TasksInv, TaskStatus
<1>3. ASSUME NEW t \in Task, AutoRead(p, t)  PROVE TasksInv'
  <2>1. BeginRequest(p, "autoRead", t, "COMPLETED") /\ UNCHANGED <<tables, lock>> /\ t \in SelfCompleting
    BY <1>3 DEF AutoRead
  <2> QED  BY <2>1, TablesStay, LocksStay, BeginSafe DEF TasksInv, TaskStatus
<1>4. ASSUME NEW t \in Task, NEW s \in TaskStatus \ {"COMPLETED"}, SetStatusRead(p, t, s)  PROVE TasksInv'
  <2>1. BeginRequest(p, "status", t, s) /\ UNCHANGED <<tables, lock>>
    BY <1>4 DEF SetStatusRead
  <2> QED  BY <2>1, TablesStay, LocksStay, BeginSafe DEF TasksInv
<1>5. ASSUME NEW a \in Audit, CloseAudit(p, a)  PROVE TasksInv'
  <2>1. BeginRequest(p, "closing", a, "COMPLETED") /\ Lock(p, {a}) /\ Free(a) /\ UNCHANGED tables
    BY <1>5 DEF CloseAudit
  <2>2. LocksOK(p)
    BY <2>1, TakesLocks DEF TasksInv
  <2> QED  BY <2>1, <2>2, TablesStay, BeginSafe DEF TaskStatus
<1> QED  BY <1>1, <1>2, <1>3, <1>4, <1>5 DEF Ask

\* A request goes on with the task it is about.
LEMMA GotoSafe ==
  ASSUME TasksInv, NEW p \in Actor, NEW from \in OnATask, NEW w \in OnATask \ {"status"},
         Goto(p, from, w), w \in ByItself => from \in ByItself,
         NEW j \in Request, request' = [request EXCEPT ![p] = j], j.on = request[p].on,
         w \in Holding => Held(p, j.on)',
         w \in {"released", "notified"} => \A t \in j.freed : Held(p, t)',
         TablesOK', Careful(p), LocksOK(p)
  PROVE  TasksInv'
<1>1. stage[p] = from /\ stage' = [stage EXCEPT ![p] = w] /\ w \in Places
  BY DEF Goto, Places
<1>2. stage'[p] = w /\ request'[p] = j /\ Fits(p)
  BY <1>1 DEF TasksInv, RequestsOK
<1>3. Fits(p)'
  BY <1>1, <1>2 DEF Fits, OnATask, ByItself, Holding
<1>4. Holds(p)'
  BY <1>2 DEF Holds, Held
<1> QED  BY <1>1, <1>3, <1>4, StepSafe

\* A request that goes on without a change to what it works from.
LEMMA SameJob ==
  ASSUME TasksInv, NEW p \in Actor
  PROVE  /\ request[p] \in Request /\ Fits(p) /\ Holds(p)
         /\ request' = request => request' = [request EXCEPT ![p] = request[p]]
BY DEF TasksInv, RequestsOK

\* A completion on its way to its commit: it locks, takes the audit, what the group frees,
\* and whom to tell.
LEMMA CompleteSafe ==
  ASSUME TasksInv, NEW p \in Actor,
         CompleteLock(p) \/ CompleteAudit(p) \/ CompleteUnblock(p) \/ CompleteNotify(p)
  PROVE  TasksInv'
<1> USE DEF OnATask, ByItself, Holding
<1>0. request[p] \in Request /\ Fits(p) /\ Holds(p) /\ TasksTypeOK
  BY SameJob DEF TasksInv
<1>1. TablesOK' /\ Careful(p)
  BY TablesStay DEF CompleteLock, CompleteAudit, CompleteUnblock, CompleteNotify
<1>2. CASE CompleteLock(p)
  <2>0. PICK t : t = request[p].on
    OBVIOUS
  <2>1. stage[p] = "checked" /\ Free(t) /\ t \in Task /\ UNCHANGED tables
    BY <1>0, <1>2, <2>0 DEF CompleteLock, Fits
  <2>2. CASE status[t] = "COMPLETED"
    BY <1>1, <1>2, <2>0, <2>2, AnswerSafe DEF CompleteLock
  <2>3. CASE status[t] # "COMPLETED"
    <3>1. Goto(p, "checked", "locked") /\ Lock(p, {t}) /\ request' = request
      BY <1>2, <2>0, <2>3 DEF CompleteLock
    <3>2. LocksOK(p) /\ lock'[t] = p
      BY <1>0, <2>1, <3>1, TakesLocks
    <3>3. status'[t] # "COMPLETED"
      BY <2>1, <2>3 DEF tables
    <3>4. Held(p, request[p].on)'
      BY <2>0, <3>1, <3>2, <3>3 DEF Held
    <3> QED  BY <1>0, <1>1, <3>1, <3>2, <3>4, SameJob, GotoSafe DEF Held
  <2> QED  BY <2>2, <2>3
<1>3. CASE CompleteAudit(p)
  <2>1. Goto(p, "locked", "audited") /\ UNCHANGED <<tables, request>> /\ stage[p] = "locked"
    BY <1>3 DEF CompleteAudit, Goto
  <2>2. PICK rows : /\ rows = {a \in AuditsOf(request[p].on) : audit[a] = "open"}
                    /\ (\A a \in rows : Free(a)) /\ Lock(p, rows)
    BY <1>3 DEF CompleteAudit
  <2>3. request[p].on \in Task /\ Held(p, request[p].on)
    BY <1>0, <2>1 DEF Fits, Holds
  <2>4. rows \in SUBSET (Task \cup Audit)
    BY <2>2, <2>3, AuditAssumption DEF AuditsOf
  <2>5. LocksOK(p) /\ lock'[request[p].on] = p
    BY <1>0, <2>2, <2>3, <2>4, TakesLocks DEF Held
  <2>6. Held(p, request[p].on)'
    BY <2>1, <2>3, <2>5 DEF Held, tables
  <2> QED  BY <1>0, <1>1, <2>1, <2>5, <2>6, SameJob, GotoSafe DEF Held
<1>4. CASE CompleteUnblock(p)
  <2>1. PICK rows : /\ rows = Dependents(request[p].on, {request[p].on})
                    /\ \A t \in rows : Free(t)
                    /\ Lock(p, rows) /\ request' = [request EXCEPT ![p].freed = rows]
    BY <1>4 DEF CompleteUnblock
  <2>2. Goto(p, "audited", "released") /\ stage[p] = "audited" /\ UNCHANGED tables
    BY <1>4 DEF CompleteUnblock, Goto
  <2>3. request[p].on \in Task /\ Held(p, request[p].on)
    BY <1>0, <2>2 DEF Fits, Holds
  <2>4. rows \in SUBSET Task /\ \A t \in rows : status[t] # "COMPLETED"
    BY <2>1 DEF Dependents, InGroup
  <2>5. LocksOK(p) /\ lock'[request[p].on] = p /\ \A t \in rows : lock'[t] = p
    <3>1. rows \in SUBSET (Task \cup Audit)
      BY <2>4
    <3> QED  BY <1>0, <2>1, <2>3, <2>4, <3>1, TakesLocks DEF Held
  <2> DEFINE j == [request[p] EXCEPT !.freed = rows]
  <2>6. j \in Request /\ j.on = request[p].on /\ j.freed = rows /\ request' = [request EXCEPT ![p] = j]
    BY <1>0, <2>1, <2>4 DEF Request
  <2>7. PICK k \in Request : k.on = request[p].on /\ k.freed = rows /\ request' = [request EXCEPT ![p] = k]
    BY <2>6
  <2>8. Held(p, k.on)' /\ \A t \in k.freed : Held(p, t)'
    BY <2>2, <2>3, <2>4, <2>5, <2>7 DEF Held, tables
  <2> QED  BY <1>1, <2>2, <2>5, <2>7, <2>8, GotoSafe
<1>5. CASE CompleteNotify(p)
  <2>1. /\ request' = [request EXCEPT ![p].tell = NextUp(request[p].on, {request[p].on})]
        /\ Goto(p, "released", "notified") /\ stage[p] = "released" /\ UNCHANGED <<tables, lock>>
    BY <1>5 DEF CompleteNotify, Goto
  <2>2. /\ request[p].on \in Task /\ Held(p, request[p].on)
        /\ \A t \in request[p].freed : Held(p, t)
    BY <1>0, <2>1 DEF Fits, Holds
  <2>3. NextUp(request[p].on, {request[p].on}) \subseteq Group
    BY GroupAssumption DEF NextUp, Open, InGroup
  <2> DEFINE j == [request[p] EXCEPT !.tell = NextUp(request[p].on, {request[p].on})]
  <2>4. j \in Request /\ j.on = request[p].on /\ j.freed = request[p].freed /\ request' = [request EXCEPT ![p] = j]
    BY <1>0, <2>1, <2>3 DEF Request
  <2>5. PICK k \in Request : k.on = request[p].on /\ k.freed = request[p].freed /\ request' = [request EXCEPT ![p] = k]
    BY <2>4
  <2>6. Held(p, k.on)' /\ \A t \in k.freed : Held(p, t)'
    BY <2>1, <2>2, <2>5 DEF Held, tables
  <2>7. LocksOK(p)
    BY <1>0, <2>1, LocksStay
  <2> QED  BY <1>1, <2>1, <2>5, <2>6, <2>7, GotoSafe
<1> QED  BY <1>2, <1>3, <1>4, <1>5

\* Its commit: the task it holds was open, and nobody else can have completed it.
LEMMA CommitSafe == ASSUME TasksInv, NEW p \in Actor, CompleteCommit(p)  PROVE TasksInv'
<1> USE DEF OnATask, ByItself, Holding
<1>0. request[p] \in Request /\ Fits(p) /\ Holds(p) /\ TasksTypeOK
  BY SameJob DEF TasksInv
<1>1. PICK t : t = request[p].on
  OBVIOUS
<1>2. PICK freed : freed = request[p].freed
  OBVIOUS
<1>3. /\ stage[p] = "notified" /\ Answer(p)
      /\ status' = [x \in Task |-> IF x = t THEN "COMPLETED"
                                   ELSE IF x \in freed THEN "OPEN" ELSE status[x]]
      /\ completions' = [x \in Task |-> IF x \in {t} THEN completions[x] + 1 ELSE completions[x]]
      /\ audit' = [a \in Audit |-> IF a \in AuditsOf(t) THEN "closed" ELSE audit[a]]
      /\ told' = told \cup request[p].tell /\ reopened' = reopened
  BY <1>1, <1>2 DEF CompleteCommit, Complete
<1>4. /\ t \in Task /\ Held(p, t) /\ \A x \in freed : Held(p, x)
      /\ request[p].tell \subseteq Group
  BY <1>0, <1>1, <1>2, <1>3 DEF Fits, Holds, Request
<1>5. TablesOK'
  BY <1>0, <1>3, <1>4 DEF TasksTypeOK, TablesOK, TaskStatus
<1>6. AuditCloses(t)
  BY <1>3, <1>4, AuditAssumption DEF AuditCloses, AuditsOf
<1>7. Careful(p)
  <2>1. \A a \in Audit : audit[a] = "closed" => audit'[a] = "closed"
    BY <1>3
  <2> SUFFICES ASSUME NEW x \in Task
               PROVE  \/ status'[x] = status[x] /\ completions'[x] = completions[x]
                      \/ status[x] # "COMPLETED" /\ status'[x] # "COMPLETED" /\ completions'[x] = completions[x]
                      \/ /\ status[x] # "COMPLETED" /\ status'[x] = "COMPLETED" /\ lock[x] \in {p, Nobody}
                         /\ completions'[x] = completions[x] + 1 /\ AuditCloses(x)
    BY <2>1 DEF Careful
  <2>2. CASE x = t
    BY <1>3, <1>4, <1>6, <2>2 DEF Held
  <2>3. CASE x # t /\ x \in freed
    BY <1>3, <1>4, <2>3 DEF Held
  <2>4. CASE x # t /\ x \notin freed
    BY <1>3, <2>4
  <2> QED  BY <2>2, <2>3, <2>4
<1> QED  BY <1>3, <1>5, <1>7, AnswerSafe

\* The writes that only open or block a task, and the reopening's entry in the log.
LEMMA WritesSafe ==
  ASSUME TasksInv, NEW p \in Actor, SetStatusWrite(p) \/ ReopenLog(p) \/ Abort(p)
  PROVE  TasksInv'
<1> USE DEF OnATask, ByItself, Holding
<1>0. request[p] \in Request /\ Fits(p) /\ Holds(p) /\ TasksTypeOK
  BY SameJob DEF TasksInv
<1>1. CASE SetStatusWrite(p)
  <2>1. /\ request[p].on \in Task /\ request[p].to \in TaskStatus \ {"COMPLETED"}
        /\ SetStatus(request[p].on, request[p].to) /\ UNCHANGED <<audit, reopened>> /\ Answer(p)
    BY <1>0, <1>1 DEF SetStatusWrite, Fits, Request
  <2>2. TablesOK' /\ Careful(p)
    BY <1>0, <2>1, StatusSet DEF TasksTypeOK
  <2> QED  BY <2>1, <2>2, AnswerSafe
<1>2. CASE ReopenLog(p)
  <2>1. request[p].on \in Task
    BY <1>0, <1>2 DEF ReopenLog, Fits
  <2>2. TablesOK' /\ Careful(p)
    BY <1>0, <1>2, <2>1 DEF ReopenLog, TasksTypeOK, TablesOK, Careful
  <2> QED  BY <1>2, <2>2, AnswerSafe DEF ReopenLog
<1>3. CASE Abort(p)
  BY <1>3, TablesStay, AnswerSafe DEF Abort
<1> QED  BY <1>1, <1>2, <1>3

\* The closing of an audit completes the open tasks it finds unlocked.
LEMMA CloseSafe == ASSUME TasksInv, NEW p \in Actor, CloseTasks(p)  PROVE TasksInv'
<1> USE DEF OnATask, ByItself, Holding
<1>0. request[p] \in Request /\ Fits(p) /\ TasksTypeOK
  BY SameJob DEF TasksInv
<1>1. PICK a : a = request[p].on
  OBVIOUS
<1>2. PICK rows : rows = {t \in Task : SourceAudit[t] = a /\ status[t] # "COMPLETED"}
  OBVIOUS
<1>3. /\ stage[p] = "closing" /\ Answer(p) /\ \A t \in rows : Free(t)
      /\ audit' = [audit EXCEPT ![a] = "closed"]
      /\ status' = [t \in Task |-> IF t \in rows THEN "COMPLETED" ELSE status[t]]
      /\ completions' = [t \in Task |-> IF t \in rows THEN completions[t] + 1 ELSE completions[t]]
      /\ UNCHANGED <<told, reopened>>
  BY <1>1, <1>2 DEF CloseTasks, Complete
<1>4. a \in Audit
  BY <1>0, <1>1, <1>3 DEF Fits
<1>5. TablesOK'
  BY <1>0, <1>3, <1>4 DEF TasksTypeOK, TablesOK, TaskStatus
<1>6. audit'[a] = "closed" /\ \A b \in Audit : audit[b] = "closed" => audit'[b] = "closed"
  BY <1>0, <1>3, <1>4 DEF TasksTypeOK
<1>7. Careful(p)
  <2> SUFFICES ASSUME NEW t \in Task
               PROVE  \/ status'[t] = status[t] /\ completions'[t] = completions[t]
                      \/ /\ status[t] # "COMPLETED" /\ status'[t] = "COMPLETED" /\ lock[t] \in {p, Nobody}
                         /\ completions'[t] = completions[t] + 1 /\ AuditCloses(t)
    BY <1>6 DEF Careful
  <2>1. CASE t \in rows
    <3>1. status[t] # "COMPLETED" /\ SourceAudit[t] = a /\ lock[t] = Nobody
      BY <1>2, <1>3, <2>1 DEF Free
    <3>2. AuditCloses(t)
      BY <1>6, <3>1 DEF AuditCloses
    <3> QED  BY <1>3, <2>1, <3>1, <3>2
  <2>2. CASE t \notin rows
    BY <1>3, <2>2
  <2> QED  BY <2>1, <2>2
<1> QED  BY <1>3, <1>5, <1>7, AnswerSafe

\* A task that completes itself: its update asks again whether the task is open.
LEMMA AutoSafe ==
  ASSUME TasksInv, NEW p \in Actor,
         AutoCheck(p) \/ AutoWrite(p) \/ AutoUnblock(p) \/ AutoNotify(p)
  PROVE  TasksInv'
<1> USE DEF OnATask, ByItself, Holding
<1>0. request[p] \in Request /\ Fits(p) /\ TasksTypeOK
  BY SameJob DEF TasksInv
<1>1. CASE AutoCheck(p)
  <2>1. CASE Completable(request[p].on)
    <3>1. Goto(p, "autoRead", "auto") /\ UNCHANGED <<tables, request, lock>>
      BY <1>1, <2>1 DEF AutoCheck
    <3> QED  BY <1>0, <3>1, TablesStay, LocksStay, SameJob, GotoSafe
  <2>2. CASE ~Completable(request[p].on)
    BY <1>1, <2>2, TablesStay, AnswerSafe DEF AutoCheck
  <2> QED  BY <2>1, <2>2
<1>2. CASE AutoWrite(p)
  <2>0. PICK t : t = request[p].on
    OBVIOUS
  <2>1. stage[p] = "auto" /\ Free(t) /\ UNCHANGED <<audit, told, reopened>>
    BY <1>2, <2>0 DEF AutoWrite
  <2>2. t \in Task /\ SourceAudit[t] = NoAudit
    BY <1>0, <2>0, <2>1, SelfCompletingAssumption DEF Fits
  <2>3. CASE status[t] = "COMPLETED"
    <3>1. Answer(p) /\ UNCHANGED tables
      BY <1>2, <2>0, <2>1, <2>3 DEF AutoWrite, tables
    <3> QED  BY <3>1, TablesStay, AnswerSafe
  <2>4. CASE status[t] # "COMPLETED"
    <3>1. /\ Goto(p, "auto", "autoDone") /\ UNCHANGED <<request, lock>>
          /\ status' = [status EXCEPT ![t] = "COMPLETED"]
          /\ completions' = [x \in Task |-> IF x \in {t} THEN completions[x] + 1 ELSE completions[x]]
      BY <1>2, <2>0, <2>4 DEF AutoWrite, Complete
    <3>2. TablesOK'
      BY <1>0, <2>1, <2>2, <3>1 DEF TasksTypeOK, TablesOK, TaskStatus
    <3>3. Careful(p)
      <4>1. AuditCloses(t)
        BY <2>2 DEF AuditCloses
      <4>2. /\ status[t] # "COMPLETED" /\ status'[t] = "COMPLETED" /\ lock[t] = Nobody
            /\ completions'[t] = completions[t] + 1
            /\ \A x \in Task : x # t => status'[x] = status[x] /\ completions'[x] = completions[x]
        BY <1>0, <2>1, <2>2, <2>4, <3>1 DEF TasksTypeOK, Free
      <4> QED  BY <2>1, <4>1, <4>2 DEF Careful
    <3> QED  BY <1>0, <3>1, <3>2, <3>3, LocksStay, SameJob, GotoSafe
  <2> QED  BY <2>3, <2>4
<1>3. CASE AutoUnblock(p)
  <2>1. PICK rows : /\ rows = Dependents(request[p].on, {})
                    /\ status' = [t \in Task |-> IF t \in rows THEN "OPEN" ELSE status[t]]
    BY <1>3 DEF AutoUnblock
  <2>2. Goto(p, "autoDone", "autoNext") /\ UNCHANGED <<completions, audit, told, reopened, lock, request>>
    BY <1>3 DEF AutoUnblock
  <2>3. \A t \in rows : status[t] # "COMPLETED"
    BY <2>1 DEF Dependents
  <2>4. TablesOK'
    BY <1>0, <2>1, <2>2 DEF TasksTypeOK, TablesOK, TaskStatus
  <2>5. Careful(p)
    BY <2>1, <2>2, <2>3 DEF Careful
  <2> QED  BY <1>0, <2>2, <2>4, <2>5, LocksStay, SameJob, GotoSafe
<1>4. CASE AutoNotify(p)
  <2>1. NextUp(request[p].on, {}) \subseteq Group
    BY GroupAssumption DEF NextUp, Open, InGroup
  <2>2. TablesOK' /\ Careful(p)
    BY <1>0, <1>4, <2>1 DEF AutoNotify, TasksTypeOK, TablesOK, Careful
  <2> QED  BY <1>4, <2>2, AnswerSafe DEF AutoNotify
<1> QED  BY <1>1, <1>2, <1>3, <1>4

\* A failed audit makes its task; nobody is at work on it yet.
LEMMA FailSafe == ASSUME TasksInv, NEW a \in Audit, FailAudit(a)  PROVE TasksInv'
<1>1. PICK tasks : tasks = {t \in Task : SourceAudit[t] = a}
  OBVIOUS
<1>2. /\ audit[a] = "none" /\ audit' = [audit EXCEPT ![a] = "open"]
      /\ status' = [t \in Task |-> IF t \in tasks THEN "OPEN" ELSE status[t]]
      /\ told' \subseteq told /\ UNCHANGED <<completions, reopened, lock, stage, request>>
  BY <1>1 DEF FailAudit
<1>3. TasksTypeOK'
  BY <1>2 DEF TasksInv, TasksTypeOK, TaskStatus
<1>4. \A t \in Task : status'[t] = "COMPLETED" <=> status[t] = "COMPLETED"
  <2> SUFFICES ASSUME NEW t \in tasks PROVE status[t] # "COMPLETED"
    BY <1>1, <1>2
  <2> QED  BY <1>1, <1>2, AuditAssumption DEF TasksInv, AuditAnswered
<1>5. \A t \in Task : Counted(t)'
  BY <1>2, <1>4 DEF TasksInv, Counted
<1>6. AuditAnswered'
  <2> SUFFICES ASSUME NEW t \in Task, SourceAudit[t] # NoAudit, status'[t] = "COMPLETED"
               PROVE  audit'[SourceAudit[t]] = "closed"
    BY DEF AuditAnswered
  <2>1. audit[SourceAudit[t]] = "closed" /\ SourceAudit[t] \in Audit
    BY <1>4, AuditAssumption DEF TasksInv, AuditAnswered
  <2> QED  BY <1>2, <2>1 DEF TasksInv, TasksTypeOK
<1>7. RequestsOK'
  <2>1. \A p \in Actor : Fits(p)'
    BY <1>2 DEF TasksInv, RequestsOK, Fits
  <2>2. \A p \in Actor, t \in Task : Held(p, t) => Held(p, t)'
    BY <1>2, <1>4 DEF Held
  <2>3. ASSUME NEW p \in Actor PROVE Holds(p)'
    <3>1. request[p] \in Request /\ Fits(p) /\ Holds(p)
      BY SameJob
    <3>2. stage[p] \in Holding => request[p].on \in Task
      BY <3>1 DEF Fits, OnATask
    <3>3. request[p].freed \subseteq Task
      BY <3>1 DEF Request
    <3> QED  BY <1>2, <2>2, <3>1, <3>2, <3>3 DEF Holds, Held
  <2> QED  BY <1>2, <2>1, <2>3 DEF TasksInv, RequestsOK
<1> QED  BY <1>3, <1>5, <1>6, <1>7 DEF TasksInv

\* Every step keeps the invariant.
LEMMA TasksNextSafe == TasksInv /\ [TasksNext]_tasksVars => TasksInv'
<1> SUFFICES ASSUME TasksInv, [TasksNext]_tasksVars PROVE TasksInv'
  OBVIOUS
<1>1. ASSUME NEW p \in Actor, Serve(p)  PROVE TasksInv'
  BY <1>1, CompleteSafe, CommitSafe, WritesSafe, CloseSafe, AutoSafe DEF Serve
<1>2. CASE UNCHANGED tasksVars
  BY <1>2 DEF tasksVars, tables, TasksInv, TasksTypeOK, RequestsOK, Fits, Holds, Held, Counted, AuditAnswered
<1> QED  BY <1>1, <1>2, AskSafe, FailSafe DEF TasksNext

\* At any time: a task open since it was last completed has been completed no time since, a
\* completion past its lock holds its task, still open, and what it frees, and a completed
\* corrective action has its audit closed.
THEOREM TasksInvariant == TasksSpec => []TasksInv
BY TasksInitSafe, TasksNextSafe, PTL DEF TasksSpec

\* The tables and the requests hold what the code stores (workflow-service.ts, routes/tasks.ts,
\* routes/quality.ts), for any number of people, tasks, groups and audits.
THEOREM TasksTyped == TasksSpec => []TasksTypeOK
<1>1. TasksInv => TasksTypeOK
  BY DEF TasksInv
<1> QED  BY <1>1, TasksInvariant, PTL

\* completeTask, autoCompleteTasks and the closing of an audit between them complete a task
\* once until somebody opens it again.
THEOREM TaskCompletedOnce == TasksSpec => []CompletedOnce
<1>1. TasksInv => CompletedOnce
  BY DEF TasksInv, Counted, CompletedOnce
<1> QED  BY <1>1, TasksInvariant, PTL

\* A corrective action that is completed has its audit closed, whichever of the two was
\* closed first and however they waited for each other.
THEOREM CorrectiveActionAnswersAudit == TasksSpec => []AuditAnswered
<1>1. TasksInv => AuditAnswered
  BY DEF TasksInv
<1> QED  BY <1>1, TasksInvariant, PTL

=============================================================================

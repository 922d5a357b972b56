------------------------------ MODULE Packing ------------------------------
(***************************************************************************)
(* Packing lists, their cartons, the packed quantities of an order and the  *)
(* invoices built from the lists: routes/packing.ts, routes/invoices.ts,    *)
(* services/invoice-service.ts and services/import/carton-ledger.ts.        *)
(*                                                                          *)
(* A carton's pieces stand twice in the database, on the carton and on the  *)
(* order's packed ledger, and a third time on every invoice built from its  *)
(* list.  Handlers check first and write later: a carton edit reads again   *)
(* under the carton's lock, issuing an invoice holds an advisory lock, the  *)
(* other checks hold nothing.                                               *)
(***************************************************************************)
EXTENDS Integers, FiniteSets, FiniteSetsExt

CONSTANTS
  Session,      \* people, one request in flight each
  Order,
  List,         \* packing lists
  ListOrder,    \* the order each is of
  Carton,       \* numbered boxes, those to come included
  CartonList,   \* the list each is or will be on
  Size,         \* a colour and size of the order
  Invoice,
  MaxQty,       \* bound: pieces of one size in one carton
  Ceiling       \* what the order may be packed to

ASSUME ListAssumption ==
  /\ ListOrder \in [List -> Order] /\ CartonList \in [Carton -> List]
ASSUME CartonAssumption == IsFiniteSet(Carton)
ASSUME BoundAssumption == MaxQty \in Nat /\ Ceiling \in Nat

VARIABLES
  approved,   \* lists approved
  made,       \* cartons ever added
  there,      \* cartons on their list
  held,       \* per carton: pieces of each size
  packed,     \* stage_quantities, ledger PACKED: per order and size
  typed,      \* history: cells the quantity grid has set
  invoice,
  pc, job     \* per session: where its request is, and what it works from

cartons == <<made, there, held, packed>>
vars == <<approved, cartons, typed, invoice, pc, job>>

-----------------------------------------------------------------------------
OrderOf(c) == ListOrder[CartonList[c]]

Contents == [Size -> 0 .. MaxQty]
Nothing == [z \in Size |-> 0]

Pieces(contents) == MapThenSumSet(LAMBDA z : contents[z], Size)

PackedTotal(o) == MapThenSumSet(LAMBDA z : packed[o, z], Size)

\* The cartons of some lists as they are now: what an invoice's manifest lists.
OnLists(lists) == [c \in {d \in there : CartonList[d] \in lists} |-> held[c]]

NoCartons == [c \in {} |-> Nothing]

NoInvoice == [status |-> "NONE", lists |-> {}, first |-> {}, manifest |-> NoCartons]

NoJob == [on |-> {}, before |-> Nothing, after |-> Nothing, manifest |-> NoCartons, fresh |-> FALSE]

Begin(s, at, j) ==
  /\ pc[s] = "idle"
  /\ pc' = [pc EXCEPT ![s] = at]
  /\ job' = [job EXCEPT ![s] = j]

Goto(s, at) == pc' = [pc EXCEPT ![s] = at] /\ UNCHANGED job

End(s) == pc' = [pc EXCEPT ![s] = "idle"] /\ job' = [job EXCEPT ![s] = NoJob]

\* assertListNotInvoiced: it asks for the list an invoice is filed under, the first
\* order's, and not for those of the other orders on it.
Invoiced(l) == \E i \in Invoice : invoice[i].status = "ISSUED" /\ invoice[i].first = l

\* assertPackedCeiling: what takes pieces off is never refused.
WithinReason(o, added) == added > 0 => PackedTotal(o) + added <= Ceiling

-----------------------------------------------------------------------------
(* Cartons *)

AddCheck(s, c, z, q) ==
  LET l == CartonList[c]
  IN  /\ c \notin made /\ \A t \in Session : job[t].on # c
      /\ l \notin approved /\ ~Invoiced(l)
      /\ WithinReason(ListOrder[l], q)
      /\ Begin(s, "add", [NoJob EXCEPT !.on = c, !.after = [Nothing EXCEPT ![z] = q]])
      /\ UNCHANGED <<approved, cartons, typed, invoice>>

\* The carton and its pieces on the ledger, in one transaction that checks nothing.
AddCommit(s) ==
  LET c == job[s].on
      o == OrderOf(c)
  IN  /\ pc[s] = "add" /\ End(s)
      /\ made' = made \cup {c} /\ there' = there \cup {c}
      /\ held' = [held EXCEPT ![c] = job[s].after]
      /\ packed' = [x \in DOMAIN packed |->
                     IF x[1] = o THEN packed[x] + job[s].after[x[2]] ELSE packed[x]]
      /\ UNCHANGED <<approved, typed, invoice>>

EditCheck(s, c, at, after) ==
  LET l == CartonList[c]
  IN  /\ c \in there
      /\ l \notin approved /\ ~Invoiced(l)
      /\ at = "save" => WithinReason(ListOrder[l], Pieces(after) - Pieces(held[c]))
      /\ Begin(s, at, [NoJob EXCEPT !.on = c, !.after = after])
      /\ UNCHANGED <<approved, cartons, typed, invoice>>

\* Mutant of Locked: the row is read again without FOR UPDATE.
Unlocked(c) == FALSE

Locked(c) == \E t \in Session : pc[t] \in {"saving", "removing"} /\ job[t].on = c

\* SELECT ... FOR UPDATE, and the carton and its list's approval read again.
EditLock(s) ==
  LET c == job[s].on
  IN  /\ pc[s] \in {"save", "remove"}
      /\ ~Locked(c)
      /\ IF c \notin there \/ CartonList[c] \in approved
         THEN End(s)
         ELSE /\ pc' = [pc EXCEPT ![s] = IF @ = "save" THEN "saving" ELSE "removing"]
              /\ job' = [job EXCEPT ![s].before = held[c]]
      /\ UNCHANGED <<approved, cartons, typed, invoice>>

\* Mutant of Floored: the ledger follows the cartons below zero.
Unfloored(qty) == qty

\* floorPacked
Floored(qty) == IF qty < 0 THEN 0 ELSE qty

\* The ledger moves by the difference each size makes, and no cell of the order
\* stays below zero.
EditCommit(s) ==
  LET c == job[s].on
      o == OrderOf(c)
      delta(z) == job[s].after[z] - job[s].before[z]
  IN  /\ pc[s] \in {"saving", "removing"} /\ End(s)
      /\ packed' = [x \in DOMAIN packed |->
                     IF x[1] = o THEN Floored(packed[x] + delta(x[2])) ELSE packed[x]]
      /\ held' = [held EXCEPT ![c] = job[s].after]
      /\ there' = IF pc[s] = "saving" THEN there ELSE there \ {c}
      /\ UNCHANGED <<approved, made, typed, invoice>>

\* The quantity grid sets a packed cell outright.
SetMatrix(o, z, q) ==
  /\ packed' = [packed EXCEPT ![<<o, z>>] = q]
  /\ typed' = typed \cup {<<o, z>>}
  /\ UNCHANGED <<approved, made, there, held, invoice, pc, job>>

-----------------------------------------------------------------------------
(* Lists *)

ApproveCheck(s, l) ==
  /\ \E c \in there : CartonList[c] = l
  /\ Begin(s, "approve", [NoJob EXCEPT !.on = l])
  /\ UNCHANGED <<approved, cartons, typed, invoice>>

ApproveWrite(s) ==
  /\ pc[s] = "approve" /\ End(s)
  /\ approved' = approved \cup {job[s].on}
  /\ UNCHANGED <<cartons, typed, invoice>>

\* Reopening asks for every list of every issued invoice, and then writes by id.
ReopenCheck(s, l) ==
  /\ l \in approved
  /\ \A i \in Invoice : invoice[i].status = "ISSUED" => l \notin invoice[i].lists
  /\ Begin(s, "reopen", [NoJob EXCEPT !.on = l])
  /\ UNCHANGED <<approved, cartons, typed, invoice>>

ReopenWrite(s) ==
  /\ pc[s] = "reopen" /\ End(s)
  /\ approved' = approved \ {job[s].on}
  /\ UNCHANGED <<cartons, typed, invoice>>

-----------------------------------------------------------------------------
(* Invoices *)

OneListPerOrder(lists) == \A l, m \in lists : ListOrder[l] = ListOrder[m] => l = m

\* What others have loaded of an invoice is out of date once its updatedAt moves.
Touch(i, j) == [t \in Session |-> IF j[t].on = i THEN [j[t] EXCEPT !.fresh = FALSE] ELSE j[t]]

CreateDraft(i, lists, first) ==
  /\ invoice[i].status = "NONE"
  /\ first \in lists /\ OneListPerOrder(lists)
  /\ invoice' = [invoice EXCEPT ![i] =
       [status |-> "DRAFT", lists |-> lists, first |-> first, manifest |-> OnLists(lists)]]
  /\ UNCHANGED <<approved, cartons, typed, pc, job>>

\* Any save of a draft that has packing lists: its cartons are not among what may
\* be typed.
EditDraft(i) ==
  /\ invoice[i].status = "DRAFT"
  /\ job' = Touch(i, job)
  /\ UNCHANGED <<approved, cartons, typed, invoice, pc>>

RebuildRead(s, i) ==
  /\ invoice[i].status = "DRAFT"
  /\ Begin(s, "rebuild", [NoJob EXCEPT !.on = i, !.manifest = OnLists(invoice[i].lists)])
  /\ UNCHANGED <<approved, cartons, typed, invoice>>

\* Mutant of StillDraft: the write goes by id alone.
StillThere(i) == invoice[i].status \notin {"NONE", "DELETED"}

\* What the conditional writes ask.
StillDraft(i) == invoice[i].status = "DRAFT"

RebuildWrite(s) ==
  LET i == job[s].on
  IN  /\ pc[s] = "rebuild"
      /\ pc' = [pc EXCEPT ![s] = "idle"]
      /\ IF StillDraft(i)
         THEN /\ invoice' = [invoice EXCEPT ![i].manifest = job[s].manifest]
              /\ job' = [Touch(i, job) EXCEPT ![s] = NoJob]
         ELSE /\ job' = [job EXCEPT ![s] = NoJob] /\ UNCHANGED invoice
      /\ UNCHANGED <<approved, cartons, typed>>

\* The draft is loaded and found to say what the cartons are now.
IssueCheck(s, i) ==
  /\ invoice[i].status = "DRAFT"
  /\ invoice[i].manifest = OnLists(invoice[i].lists)
  /\ Begin(s, "issue", [NoJob EXCEPT !.on = i, !.manifest = invoice[i].manifest, !.fresh = TRUE])
  /\ UNCHANGED <<approved, cartons, typed, invoice>>

Twin(i) == \E k \in Invoice \ {i} :
  invoice[k].status = "ISSUED" /\ invoice[k].lists \cap invoice[i].lists # {}

\* Mutant of OneAtATime: no advisory lock.
AllAtOnce(s) == TRUE

\* pg_advisory_xact_lock('invoice-issue')
OneAtATime(s) == \A t \in Session : pc[t] # "issuing"

IssueLock(s) ==
  /\ pc[s] = "issue"
  /\ OneAtATime(s)
  /\ IF Twin(job[s].on) THEN End(s) ELSE Goto(s, "issuing")
  /\ UNCHANGED <<approved, cartons, typed, invoice>>

\* Mutant of AsLoaded: the write asks for a draft, whatever version.
AsAnyVersion(s) == StillDraft(job[s].on)

\* The write's WHERE: still a draft, and of the version loaded.
AsLoaded(s) == StillDraft(job[s].on) /\ job[s].fresh

IssueCommit(s) ==
  LET i == job[s].on
  IN  /\ pc[s] = "issuing"
      /\ pc' = [pc EXCEPT ![s] = "idle"]
      /\ IF AsLoaded(s)
         THEN /\ invoice' = [invoice EXCEPT ![i].status = "ISSUED"]
              /\ job' = [Touch(i, job) EXCEPT ![s] = NoJob]
         ELSE /\ job' = [job EXCEPT ![s] = NoJob] /\ UNCHANGED invoice
      /\ UNCHANGED <<approved, cartons, typed>>

\* Voiding an issued invoice, deleting a draft: one conditional write each.
Dispose(i, from, to) ==
  /\ invoice[i].status = from
  /\ invoice' = [invoice EXCEPT ![i] = to]
  /\ job' = Touch(i, job)
  /\ UNCHANGED <<approved, cartons, typed, pc>>

VoidInvoice(i) == Dispose(i, "ISSUED", [invoice[i] EXCEPT !.status = "VOID"])

DeleteDraft(i) == Dispose(i, "DRAFT", [NoInvoice EXCEPT !.status = "DELETED"])

-----------------------------------------------------------------------------
Init ==
  /\ approved = {} /\ made = {} /\ there = {}
  /\ held = [c \in Carton |-> Nothing]
  /\ packed = [x \in Order \X Size |-> 0]
  /\ typed = {}
  /\ invoice = [i \in Invoice |-> NoInvoice]
  /\ pc = [s \in Session |-> "idle"] /\ job = [s \in Session |-> NoJob]

Next ==
  \/ \E s \in Session :
       \/ \E c \in Carton :
            \/ \E z \in Size, q \in 1 .. MaxQty : AddCheck(s, c, z, q)
            \/ \E after \in Contents : EditCheck(s, c, "save", after)
            \/ EditCheck(s, c, "remove", Nothing)
       \/ AddCommit(s) \/ EditLock(s) \/ EditCommit(s)
       \/ \E l \in List : ApproveCheck(s, l) \/ ReopenCheck(s, l)
       \/ ApproveWrite(s) \/ ReopenWrite(s)
       \/ \E i \in Invoice : RebuildRead(s, i) \/ IssueCheck(s, i)
       \/ RebuildWrite(s) \/ IssueLock(s) \/ IssueCommit(s)
  \/ \E o \in Order, z \in Size, q \in 0 .. MaxQty : SetMatrix(o, z, q)
  \/ \E i \in Invoice :
       \/ \E lists \in SUBSET List : \E first \in lists : CreateDraft(i, lists, first)
       \/ EditDraft(i) \/ VoidInvoice(i) \/ DeleteDraft(i)

Spec == Init /\ [][Next]_vars

-----------------------------------------------------------------------------
(* Properties *)

Manifest == UNION {[D -> Contents] : D \in SUBSET Carton}
OnCarton == {"add", "save", "remove", "saving", "removing"}
OnList == {"approve", "reopen"}
OnInvoice == {"rebuild", "issue", "issuing"}

Document == [status : {"NONE", "DRAFT", "ISSUED", "VOID", "DELETED"},
             lists : SUBSET List, first : List \cup {{}}, manifest : Manifest]
Job == [on : Carton \cup List \cup Invoice \cup {{}}, before : Contents, after : Contents,
        manifest : Manifest, fresh : BOOLEAN]

\* A request is on the kind of thing its next step takes it to be on.
Fits(at, j) == /\ at \in OnCarton => j.on \in Carton
               /\ at \in OnList => j.on \in List
               /\ at \in OnInvoice => j.on \in Invoice

RequestsOK ==
  /\ pc \in [Session -> {"idle"} \cup OnCarton \cup OnList \cup OnInvoice]
  /\ job \in [Session -> Job]
  /\ \A s \in Session : Fits(pc[s], job[s])

\* The tables hold what the code stores: in particular no packed cell is below zero,
\* though a carton may give back more than the grid left there.
TypeOK ==
  /\ approved \subseteq List
  /\ there \subseteq made /\ made \subseteq Carton
  /\ held \in [Carton -> Contents]
  /\ packed \in [Order \X Size -> Nat]
  /\ typed \subseteq Order \X Size
  /\ invoice \in [Invoice -> Document]
  /\ RequestsOK

\* The packed ledger is the sum of the cartons, size by size, however adds, edits and
\* removals of the same cartons overlap; but for the cells somebody typed over.
LedgerFollowsCartons == \A o \in Order, z \in Size : <<o, z>> \notin typed =>
  packed[<<o, z>>] =
    SumFunctionOnSet([c \in Carton |-> held[c][z]], {c \in there : OrderOf(c) = o})

\* "The same packing list or consignment billed twice is the same goods billed
\* twice": no two issued invoices share a list, though two people issue at once.
BilledOnce == \A i, k \in Invoice :
  /\ i # k /\ invoice[i].status = "ISSUED" /\ invoice[k].status = "ISSUED"
  => invoice[i].lists \cap invoice[k].lists = {}

\* An issued invoice is a record: it can only be voided, and neither a rebuild nor
\* an edit begun while it was a draft changes what it says.
IssuedIsRecord == [][\A i \in Invoice : invoice[i].status \in {"ISSUED", "VOID"} =>
  /\ invoice'[i].status \in {"ISSUED", "VOID"}
  /\ invoice[i].status = "VOID" => invoice'[i].status = "VOID"
  /\ invoice'[i].manifest = invoice[i].manifest]_vars

\* "What was validated is what gets issued": the invoice that becomes a record says
\* what it said when somebody's request found it to match the cartons.
IssuedAsChecked == [][\A i \in Invoice :
  invoice[i].status # "ISSUED" /\ invoice'[i].status = "ISSUED" =>
  \E s \in Session : /\ pc[s] = "issuing" /\ job[s].on = i
                     /\ job[s].manifest = invoice'[i].manifest]_vars

=============================================================================

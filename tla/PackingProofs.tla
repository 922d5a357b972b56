--------------------------- MODULE PackingProofs ---------------------------
(***************************************************************************)
(* Proofs about Packing: types, no list on two issued invoices, issued      *)
(* invoices are records, what is issued is what was checked, and the packed *)
(* ledger is the sum of the cartons.                                        *)
(***************************************************************************)
EXTENDS Packing, SumTheorems, TLAPS

-----------------------------------------------------------------------------
(* The inductive invariant *)

\* One request at a time is past the advisory lock.
OneIssues == \A s, t \in Session : pc[s] = "issuing" /\ pc[t] = "issuing" => s = t

\* The invoice to be issued is one that was raised, and past the lock no issued
\* invoice shares a list with it: only its own request could issue another.
NoTwin == \A s \in Session :
  /\ pc[s] \in {"issue", "issuing"} => invoice[job[s].on].status # "NONE"
  /\ pc[s] = "issuing" => ~Twin(job[s].on)

\* A request whose invoice has not moved since it was loaded holds its manifest.
FreshIsCurrent == \A s \in Session :
  pc[s] \in {"issue", "issuing"} /\ job[s].fresh
    => job[s].manifest = invoice[job[s].on].manifest

IInv == TypeOK /\ BilledOnce /\ OneIssues /\ NoTwin /\ FreshIsCurrent

-----------------------------------------------------------------------------
(* Lemmas on the operators *)

LEMMA NothingType == Nothing \in Contents
BY BoundAssumption, SMT DEF Nothing, Contents

LEMMA NoCartonsType == NoCartons \in Manifest
<1>1. NoCartons \in [{} -> Contents] BY DEF NoCartons
<1>2. {} \in SUBSET Carton OBVIOUS
<1> QED BY <1>1, <1>2 DEF Manifest

LEMMA OnListsType ==
  ASSUME TypeOK, NEW lists \in SUBSET List
  PROVE OnLists(lists) \in Manifest
<1> DEFINE D == {d \in there : CartonList[d] \in lists}
<1>1. D \in SUBSET Carton BY DEF TypeOK
<1>2. \A c \in D : held[c] \in Contents BY <1>1 DEF TypeOK
<1>3. OnLists(lists) \in [D -> Contents] BY <1>2 DEF OnLists
<1> QED BY <1>1, <1>3 DEF Manifest

LEMMA NoJobType == NoJob \in Job
BY NothingType, NoCartonsType DEF NoJob, Job

LEMMA TouchedType ==
  ASSUME job \in [Session -> Job], NEW i
  PROVE Touch(i, job) \in [Session -> Job]
<1>1. \A u \in Session : [job[u] EXCEPT !.fresh = FALSE] \in Job BY DEF Job
<1> QED BY <1>1 DEF Touch

\* A touched job differs in nothing but freshness, which it loses if it is on i.
LEMMA TouchedJob ==
  ASSUME job \in [Session -> Job], NEW i, NEW t \in Session
  PROVE /\ Touch(i, job)[t].on = job[t].on
        /\ Touch(i, job)[t].manifest = job[t].manifest
        /\ job[t].on = i => ~Touch(i, job)[t].fresh
        /\ job[t].on # i => Touch(i, job)[t].fresh = job[t].fresh
<1>1. job[t] \in Job OBVIOUS
<1>2. CASE job[t].on = i BY <1>1, <1>2 DEF Touch, Job
<1>3. CASE job[t].on # i BY <1>1, <1>3 DEF Touch, Job
<1> QED BY <1>2, <1>3

PCs == {"idle"} \cup OnCarton \cup OnList \cup OnInvoice

\* A request that starts, ends or moves on leaves the others as they are.
LEMMA RequestMoves ==
  ASSUME RequestsOK, NEW s \in Session, NEW at \in PCs, NEW j \in Job, Fits(at, j),
         pc' = [pc EXCEPT ![s] = at], job' = [job EXCEPT ![s] = j]
  PROVE /\ RequestsOK'
        /\ pc'[s] = at /\ job'[s] = j
        /\ \A t \in Session \ {s} : pc'[t] = pc[t] /\ job'[t] = job[t]
<1>1. pc' \in [Session -> PCs] /\ pc'[s] = at BY DEF RequestsOK, PCs
<1>2. job' \in [Session -> Job] /\ job'[s] = j BY DEF RequestsOK
<1>3. \A t \in Session \ {s} : pc'[t] = pc[t] /\ job'[t] = job[t] BY DEF RequestsOK
<1>4. \A t \in Session : Fits(pc'[t], job'[t]) BY <1>1, <1>2, <1>3 DEF RequestsOK
<1>5. (\A t \in Session : Fits(pc[t], job[t]))' BY <1>4 DEF Fits
<1> QED BY <1>1, <1>2, <1>3, <1>5 DEF RequestsOK, PCs

LEMMA RequestBegins ==
  ASSUME RequestsOK, NEW s \in Session, NEW at \in PCs, NEW j \in Job, Fits(at, j), Begin(s, at, j)
  PROVE /\ RequestsOK'
        /\ pc'[s] = at /\ job'[s] = j
        /\ \A t \in Session \ {s} : pc'[t] = pc[t] /\ job'[t] = job[t]
BY RequestMoves DEF Begin

LEMMA RequestEnds ==
  ASSUME RequestsOK, NEW s \in Session, End(s)
  PROVE /\ RequestsOK'
        /\ pc'[s] = "idle" /\ job'[s] = NoJob
        /\ \A t \in Session \ {s} : pc'[t] = pc[t] /\ job'[t] = job[t]
<1>1. Fits("idle", NoJob) /\ "idle" \in PCs BY DEF Fits, OnCarton, OnList, OnInvoice, PCs
<1> QED BY <1>1, NoJobType, RequestMoves DEF End

LEMMA RequestGoes ==
  ASSUME RequestsOK, NEW s \in Session, NEW at \in PCs, Fits(at, job[s]), Goto(s, at)
  PROVE /\ RequestsOK'
        /\ pc'[s] = at
        /\ \A t \in Session \ {s} : pc'[t] = pc[t]
<1>1. job' = [job EXCEPT ![s] = job[s]] /\ job[s] \in Job BY DEF Goto, RequestsOK
<1> QED BY <1>1, RequestMoves DEF Goto

\* Writing an invoice, and ending the request that wrote it.
LEMMA RequestsTouched ==
  ASSUME RequestsOK, NEW i, job' = Touch(i, job), UNCHANGED pc
  PROVE RequestsOK'
<1>1. job' \in [Session -> Job] BY TouchedType DEF RequestsOK
<1>2. \A t \in Session : Fits(pc'[t], job'[t]) BY TouchedJob DEF RequestsOK, Fits
<1>3. (\A t \in Session : Fits(pc[t], job[t]))' BY <1>2 DEF Fits
<1> QED BY <1>1, <1>3 DEF RequestsOK

LEMMA RequestsTouchedAndEnds ==
  ASSUME RequestsOK, NEW s \in Session, NEW i,
         pc' = [pc EXCEPT ![s] = "idle"], job' = [Touch(i, job) EXCEPT ![s] = NoJob]
  PROVE /\ RequestsOK'
        /\ pc'[s] = "idle" /\ job'[s] = NoJob
        /\ \A t \in Session \ {s} : pc'[t] = pc[t] /\ job'[t] = Touch(i, job)[t]
<1>1. Touch(i, job) \in [Session -> Job] BY TouchedType DEF RequestsOK
<1>2. job' \in [Session -> Job] BY <1>1, NoJobType
<1>3. pc' \in [Session -> PCs] BY DEF RequestsOK, PCs
<1>4. /\ pc'[s] = "idle" /\ job'[s] = NoJob
      /\ \A t \in Session \ {s} : pc'[t] = pc[t] /\ job'[t] = Touch(i, job)[t]
  BY <1>1 DEF RequestsOK
<1>5. \A t \in Session \ {s} : Touch(i, job)[t].on = job[t].on BY TouchedJob DEF RequestsOK
<1>6. \A t \in Session : Fits(pc'[t], job'[t])
  BY <1>4, <1>5 DEF RequestsOK, Fits, OnCarton, OnList, OnInvoice
<1>7. (\A t \in Session : Fits(pc[t], job[t]))' BY <1>6 DEF Fits
<1> QED BY <1>2, <1>3, <1>4, <1>7 DEF RequestsOK, PCs
-----------------------------------------------------------------------------
(* Types *)

LEMMA TypeInit == Init => TypeOK
<1> SUFFICES ASSUME Init PROVE TypeOK OBVIOUS
<1>1. held \in [Carton -> Contents] /\ packed \in [Order \X Size -> Nat]
  BY NothingType DEF Init
<1>2. NoInvoice \in Document BY NoCartonsType DEF NoInvoice, Document
<1>3. RequestsOK
  BY NoJobType DEF Init, RequestsOK, Fits, OnCarton, OnList, OnInvoice
<1> QED BY <1>1, <1>2, <1>3 DEF Init, TypeOK

\* What a request that only reads or waits leaves of the tables.
tables == <<approved, cartons, typed, invoice>>

LEMMA TypeOfTables ==
  ASSUME TypeOK, UNCHANGED tables, RequestsOK'
  PROVE TypeOK'
BY DEF TypeOK, tables, cartons

LEMMA TypeStep == TypeOK /\ [Next]_vars => TypeOK'
<1> SUFFICES ASSUME TypeOK, [Next]_vars PROVE TypeOK' OBVIOUS
<1>0. RequestsOK BY DEF TypeOK
<1> USE DEF PCs, OnCarton, OnList, OnInvoice
<1>1. ASSUME NEW s \in Session, NEW c \in Carton, NEW z \in Size, NEW q \in 1 .. MaxQty,
             AddCheck(s, c, z, q)
      PROVE TypeOK'
  <2>1. PICK j : j = [NoJob EXCEPT !.on = c, !.after = [Nothing EXCEPT ![z] = q]] OBVIOUS
  <2>2. [Nothing EXCEPT ![z] = q] \in Contents BY NothingType, BoundAssumption DEF Contents
  <2>3. j \in Job /\ j.on = c BY <2>1, <2>2, NoJobType DEF Job
  <2>4. Fits("add", j) BY <2>3 DEF Fits
  <2>5. Begin(s, "add", j) /\ UNCHANGED tables BY <1>1, <2>1 DEF AddCheck, tables
  <2> QED BY <1>0, <2>3, <2>4, <2>5, RequestBegins, TypeOfTables
<1>2. ASSUME NEW s \in Session, AddCommit(s) PROVE TypeOK'
  <2>1. RequestsOK' BY <1>0, <1>2, RequestEnds DEF AddCommit
  <2>2. job[s] \in Job /\ job[s].on \in Carton BY <1>0, <1>2 DEF AddCommit, RequestsOK, Fits
  <2>3. job[s].after \in Contents BY <2>2 DEF Job
  <2>4. held' \in [Carton -> Contents] BY <1>2, <2>2, <2>3 DEF AddCommit, TypeOK
  <2>5. \A x \in Order \X Size : packed[x] \in Nat /\ job[s].after[x[2]] \in Nat
    BY <2>3, BoundAssumption DEF TypeOK, Contents
  <2>6. packed' \in [Order \X Size -> Nat]
    <3>1. PICK o : o = OrderOf(job[s].on) OBVIOUS
    <3>2. packed' = [x \in Order \X Size |->
                      IF x[1] = o THEN packed[x] + job[s].after[x[2]] ELSE packed[x]]
      BY <1>2, <3>1 DEF AddCommit, TypeOK
    <3>3. \A x \in Order \X Size : packed[x] + job[s].after[x[2]] \in Nat BY <2>5
    <3> QED BY <2>5, <3>2, <3>3
  <2>7. there' \subseteq made' /\ made' \subseteq Carton BY <1>2, <2>2 DEF AddCommit, TypeOK
  <2> QED BY <1>2, <2>1, <2>4, <2>6, <2>7 DEF AddCommit, TypeOK
<1>3. ASSUME NEW s \in Session, NEW c \in Carton, NEW at \in {"save", "remove"},
             NEW after \in Contents, EditCheck(s, c, at, after)
      PROVE TypeOK'
  <2>1. PICK j : j = [NoJob EXCEPT !.on = c, !.after = after] OBVIOUS
  <2>2. j \in Job /\ j.on = c BY <2>1, NoJobType DEF Job
  <2>3. Fits(at, j) BY <2>2 DEF Fits
  <2>4. Begin(s, at, j) /\ UNCHANGED tables BY <1>3, <2>1 DEF EditCheck, tables
  <2> QED BY <1>0, <2>2, <2>3, <2>4, RequestBegins, TypeOfTables
<1>4. ASSUME NEW s \in Session, EditLock(s) PROVE TypeOK'
  <2>1. UNCHANGED tables BY <1>4 DEF EditLock, tables
  <2>2. PICK c \in Carton : c = job[s].on BY <1>0, <1>4 DEF EditLock, RequestsOK, Fits
  <2>3. CASE End(s) BY <1>0, <2>1, <2>3, RequestEnds, TypeOfTables
  <2>4. CASE ~End(s)
    <3>1. PICK at \in {"saving", "removing"} : pc' = [pc EXCEPT ![s] = at]
      BY <1>4, <2>4 DEF EditLock, RequestsOK
    <3>2. PICK j : j = [job[s] EXCEPT !.before = held[c]] OBVIOUS
    <3>3. job' = [job EXCEPT ![s] = j] BY <1>0, <1>4, <2>2, <2>4, <3>2 DEF EditLock, RequestsOK
    <3>4. j \in Job /\ j.on = c
      <4>1. job[s] \in Job /\ held[c] \in Contents BY <1>0 DEF TypeOK, RequestsOK
      <4> QED BY <2>2, <3>2, <4>1 DEF Job
    <3>5. Fits(at, j) BY <3>4 DEF Fits
    <3> QED BY <1>0, <2>1, <3>1, <3>3, <3>4, <3>5, RequestMoves, TypeOfTables
  <2> QED BY <2>3, <2>4
<1>5. ASSUME NEW s \in Session, EditCommit(s) PROVE TypeOK'
  <2>1. RequestsOK' BY <1>0, <1>5, RequestEnds DEF EditCommit
  <2>2. job[s] \in Job /\ job[s].on \in Carton BY <1>0, <1>5 DEF EditCommit, RequestsOK, Fits
  <2>3. job[s].after \in Contents /\ job[s].before \in Contents BY <2>2 DEF Job
  <2>4. held' \in [Carton -> Contents] BY <1>5, <2>2, <2>3 DEF EditCommit, TypeOK
  <2>5. \A x \in Order \X Size :
          packed[x] \in Nat /\ job[s].after[x[2]] \in Nat /\ job[s].before[x[2]] \in Nat
    BY <2>3, BoundAssumption DEF TypeOK, Contents
  <2>6. packed' \in [Order \X Size -> Nat]
    <3>1. PICK o : o = OrderOf(job[s].on) OBVIOUS
    <3>2. packed' = [x \in Order \X Size |->
                      IF x[1] = o
                      THEN Floored(packed[x] + (job[s].after[x[2]] - job[s].before[x[2]]))
                      ELSE packed[x]]
      BY <1>5, <3>1 DEF EditCommit, TypeOK
    <3>3. \A x \in Order \X Size :
            Floored(packed[x] + (job[s].after[x[2]] - job[s].before[x[2]])) \in Nat
      BY <2>5 DEF Floored
    <3> QED BY <2>5, <3>2, <3>3
  <2>7. there' \subseteq made' /\ made' \subseteq Carton BY <1>5, <2>2 DEF EditCommit, TypeOK
  <2> QED BY <1>5, <2>1, <2>4, <2>6, <2>7 DEF EditCommit, TypeOK
<1>6. ASSUME NEW o \in Order, NEW z \in Size, NEW q \in 0 .. MaxQty, SetMatrix(o, z, q)
      PROVE TypeOK'
  <2>1. packed' \in [Order \X Size -> Nat] BY <1>6, BoundAssumption DEF SetMatrix, TypeOK
  <2>2. typed' \subseteq Order \X Size BY <1>6 DEF SetMatrix, TypeOK
  <2>3. RequestsOK' BY <1>0, <1>6 DEF SetMatrix, RequestsOK, Fits
  <2> QED BY <1>6, <2>1, <2>2, <2>3 DEF SetMatrix, TypeOK
<1>7. ASSUME NEW s \in Session, NEW l \in List, ApproveCheck(s, l) \/ ReopenCheck(s, l)
      PROVE TypeOK'
  <2>1. PICK j : j = [NoJob EXCEPT !.on = l] OBVIOUS
  <2>2. j \in Job /\ j.on = l BY <2>1, NoJobType DEF Job
  <2>3. Fits("approve", j) /\ Fits("reopen", j) BY <2>2 DEF Fits
  <2>4. (Begin(s, "approve", j) \/ Begin(s, "reopen", j)) /\ UNCHANGED tables
    BY <1>7, <2>1 DEF ApproveCheck, ReopenCheck, tables
  <2> QED BY <1>0, <2>2, <2>3, <2>4, RequestBegins, TypeOfTables
<1>8. ASSUME NEW s \in Session, ApproveWrite(s) \/ ReopenWrite(s) PROVE TypeOK'
  <2>1. End(s) /\ UNCHANGED <<cartons, typed, invoice>> BY <1>8 DEF ApproveWrite, ReopenWrite
  <2>2. job[s].on \in List BY <1>0, <1>8 DEF ApproveWrite, ReopenWrite, RequestsOK, Fits
  <2>3. approved' \subseteq List BY <1>8, <2>2 DEF ApproveWrite, ReopenWrite, TypeOK
  <2>4. RequestsOK' BY <1>0, <2>1, RequestEnds
  <2> QED BY <2>1, <2>3, <2>4 DEF TypeOK, cartons
<1>9. ASSUME NEW i \in Invoice, NEW lists \in SUBSET List, NEW first \in lists,
             CreateDraft(i, lists, first)
      PROVE TypeOK'
  <2>1. OnLists(lists) \in Manifest BY OnListsType
  <2>2. [status |-> "DRAFT", lists |-> lists, first |-> first, manifest |-> OnLists(lists)]
          \in Document
    BY <2>1 DEF Document
  <2>3. invoice' \in [Invoice -> Document] BY <1>9, <2>2 DEF CreateDraft, TypeOK
  <2>4. RequestsOK' BY <1>0, <1>9 DEF CreateDraft, RequestsOK, Fits
  <2> QED BY <1>9, <2>3, <2>4 DEF CreateDraft, TypeOK, cartons
<1>10. ASSUME NEW i \in Invoice, EditDraft(i) PROVE TypeOK'
  <2>1. RequestsOK' BY <1>0, <1>10, RequestsTouched DEF EditDraft
  <2> QED BY <1>10, <2>1, TypeOfTables DEF EditDraft, tables
<1>11. ASSUME NEW s \in Session, NEW i \in Invoice, RebuildRead(s, i) PROVE TypeOK'
  <2>1. PICK j : j = [NoJob EXCEPT !.on = i, !.manifest = OnLists(invoice[i].lists)] OBVIOUS
  <2>2. invoice[i].lists \in SUBSET List BY DEF TypeOK, Document
  <2>3. OnLists(invoice[i].lists) \in Manifest BY <2>2, OnListsType
  <2>4. j \in Job /\ j.on = i BY <2>1, <2>3, NoJobType DEF Job
  <2>5. Fits("rebuild", j) BY <2>4 DEF Fits
  <2>6. Begin(s, "rebuild", j) /\ UNCHANGED tables BY <1>11, <2>1 DEF RebuildRead, tables
  <2> QED BY <1>0, <2>4, <2>5, <2>6, RequestBegins, TypeOfTables
<1>12. ASSUME NEW s \in Session, RebuildWrite(s) PROVE TypeOK'
  <2>1. PICK i \in Invoice : i = job[s].on
    BY <1>0, <1>12 DEF RebuildWrite, RequestsOK, Fits
  <2>2. CASE StillDraft(i)
    <3>1. /\ invoice' = [invoice EXCEPT ![i].manifest = job[s].manifest]
          /\ job' = [Touch(i, job) EXCEPT ![s] = NoJob]
          /\ pc' = [pc EXCEPT ![s] = "idle"]
          /\ UNCHANGED <<approved, cartons, typed>>
      BY <1>12, <2>1, <2>2 DEF RebuildWrite
    <3>2. RequestsOK' BY <1>0, <3>1, RequestsTouchedAndEnds
    <3>3. job[s].manifest \in Manifest BY <1>0 DEF RequestsOK, Job
    <3>4. [invoice[i] EXCEPT !.manifest = job[s].manifest] \in Document
      BY <3>3 DEF TypeOK, Document
    <3>5. invoice' \in [Invoice -> Document] BY <3>1, <3>4 DEF TypeOK
    <3> QED BY <3>1, <3>2, <3>5 DEF TypeOK, cartons
  <2>3. CASE ~StillDraft(i)
    <3>1. End(s) /\ UNCHANGED tables BY <1>12, <2>1, <2>3 DEF RebuildWrite, End, tables
    <3> QED BY <1>0, <3>1, RequestEnds, TypeOfTables
  <2> QED BY <2>2, <2>3
<1>13. ASSUME NEW s \in Session, NEW i \in Invoice, IssueCheck(s, i) PROVE TypeOK'
  <2>1. PICK j : j = [NoJob EXCEPT !.on = i, !.manifest = invoice[i].manifest, !.fresh = TRUE]
    OBVIOUS
  <2>2. invoice[i].manifest \in Manifest BY DEF TypeOK, Document
  <2>3. j \in Job /\ j.on = i BY <2>1, <2>2, NoJobType DEF Job
  <2>4. Fits("issue", j) BY <2>3 DEF Fits
  <2>5. Begin(s, "issue", j) /\ UNCHANGED tables BY <1>13, <2>1 DEF IssueCheck, tables
  <2> QED BY <1>0, <2>3, <2>4, <2>5, RequestBegins, TypeOfTables
<1>14. ASSUME NEW s \in Session, IssueLock(s) PROVE TypeOK'
  <2>1. UNCHANGED tables BY <1>14 DEF IssueLock, tables
  <2>2. Fits("issuing", job[s]) BY <1>0, <1>14 DEF IssueLock, RequestsOK, Fits
  <2>3. RequestsOK' BY <1>0, <1>14, <2>2, RequestEnds, RequestGoes DEF IssueLock
  <2> QED BY <2>1, <2>3, TypeOfTables
<1>15. ASSUME NEW s \in Session, IssueCommit(s) PROVE TypeOK'
  <2>1. PICK i \in Invoice : i = job[s].on
    BY <1>0, <1>15 DEF IssueCommit, RequestsOK, Fits
  <2>2. CASE AsLoaded(s)
    <3>1. /\ invoice' = [invoice EXCEPT ![i].status = "ISSUED"]
          /\ job' = [Touch(i, job) EXCEPT ![s] = NoJob]
          /\ pc' = [pc EXCEPT ![s] = "idle"]
          /\ UNCHANGED <<approved, cartons, typed>>
      BY <1>15, <2>1, <2>2 DEF IssueCommit
    <3>2. RequestsOK' BY <1>0, <3>1, RequestsTouchedAndEnds
    <3>3. [invoice[i] EXCEPT !.status = "ISSUED"] \in Document BY DEF TypeOK, Document
    <3>4. invoice' \in [Invoice -> Document] BY <3>1, <3>3 DEF TypeOK
    <3> QED BY <3>1, <3>2, <3>4 DEF TypeOK, cartons
  <2>3. CASE ~AsLoaded(s)
    <3>1. End(s) /\ UNCHANGED tables BY <1>15, <2>1, <2>3 DEF IssueCommit, End, tables
    <3> QED BY <1>0, <3>1, RequestEnds, TypeOfTables
  <2> QED BY <2>2, <2>3
<1>16. ASSUME NEW i \in Invoice, VoidInvoice(i) \/ DeleteDraft(i) PROVE TypeOK'
  <2>1. PICK to \in Document : invoice' = [invoice EXCEPT ![i] = to]
    <3>1. [invoice[i] EXCEPT !.status = "VOID"] \in Document BY DEF TypeOK, Document
    <3>2. [NoInvoice EXCEPT !.status = "DELETED"] \in Document
      BY NoCartonsType DEF NoInvoice, Document
    <3> QED BY <1>16, <3>1, <3>2 DEF VoidInvoice, DeleteDraft, Dispose
  <2>2. job' = Touch(i, job) /\ UNCHANGED <<approved, cartons, typed, pc>>
    BY <1>16 DEF VoidInvoice, DeleteDraft, Dispose
  <2>3. RequestsOK' BY <1>0, <2>2, RequestsTouched
  <2> QED BY <2>1, <2>2, <2>3 DEF TypeOK, cartons
<1>17. CASE UNCHANGED vars
  <2>1. RequestsOK' BY <1>0, <1>17 DEF vars, RequestsOK, Fits
  <2> QED BY <1>17, <2>1, TypeOfTables DEF vars, tables
<1>18. Nothing \in Contents BY NothingType
<1> QED BY <1>1, <1>2, <1>3, <1>4, <1>5, <1>6, <1>7, <1>8, <1>9, <1>10, <1>11, <1>12, <1>13,
           <1>14, <1>15, <1>16, <1>17, <1>18 DEF Next
-----------------------------------------------------------------------------
(* Issuing *)

Issuing(t) == pc[t] \in {"issue", "issuing"}

LEMMA IInvInit == Init => IInv
<1> SUFFICES ASSUME Init PROVE IInv OBVIOUS
<1>1. \A s \in Session : pc[s] = "idle" BY DEF Init
<1>2. \A i \in Invoice : invoice[i].status = "NONE" BY DEF Init, NoInvoice
<1> QED BY <1>1, <1>2, TypeInit DEF IInv, BilledOnce, OneIssues, NoTwin, FreshIsCurrent

Safe == BilledOnce /\ OneIssues /\ NoTwin /\ FreshIsCurrent

\* A step that writes at most one invoice, issues none, and moves no request closer
\* to issuing: whoever is issuing keeps what it holds, and loses its claim to be up
\* to date if the invoice written is its own.
LEMMA NobodyIssues ==
  ASSUME IInv, TypeOK', NEW i,
         \A k \in Invoice \ {i} : invoice'[k] = invoice[k],
         i \in Invoice =>
           /\ invoice'[i].status # "NONE"
           /\ invoice'[i].status = "ISSUED" => invoice[i].status = "ISSUED"
           /\ invoice[i].status # "NONE" => invoice'[i].lists \subseteq invoice[i].lists,
         \A t \in Session : Issuing(t)' =>
           /\ pc'[t] = pc[t] /\ job'[t].on = job[t].on /\ job'[t].manifest = job[t].manifest
           /\ job'[t].fresh => job[t].fresh /\ job[t].on # i
  PROVE Safe'
<1> USE DEF IInv
<1>1. \A k \in Invoice : invoice'[k].status = "ISSUED" =>
        invoice[k].status = "ISSUED" /\ invoice'[k].lists \subseteq invoice[k].lists
  OBVIOUS
<1>2. BilledOnce'
  <2> SUFFICES ASSUME NEW k \in Invoice, NEW m \in Invoice, k # m,
                      invoice'[k].status = "ISSUED", invoice'[m].status = "ISSUED"
               PROVE invoice'[k].lists \cap invoice'[m].lists = {}
    BY DEF BilledOnce
  <2>1. invoice[k].lists \cap invoice[m].lists = {} BY <1>1 DEF BilledOnce
  <2> QED BY <1>1, <2>1
<1>3. OneIssues' BY DEF OneIssues, Issuing
<1>4. NoTwin'
  <2> SUFFICES ASSUME NEW t \in Session, Issuing(t)'
               PROVE /\ (invoice[job[t].on].status # "NONE")'
                     /\ pc'[t] = "issuing" => ~Twin(job[t].on)'
    BY DEF NoTwin, Issuing
  <2>1. PICK a \in Invoice : a = job[t].on
    BY DEF TypeOK, RequestsOK, Fits, OnInvoice, Issuing
  <2>2. a = job'[t].on /\ pc'[t] = pc[t] BY <2>1
  <2>3. invoice[a].status # "NONE" BY <2>1, <2>2 DEF NoTwin, Issuing
  <2>4. invoice'[a].status # "NONE" BY <2>3
  <2>5. invoice'[a].lists \subseteq invoice[a].lists BY <2>3
  <2>6. ASSUME pc'[t] = "issuing" PROVE ~Twin(a)'
    <3>1. ~Twin(a) BY <2>1, <2>2, <2>6 DEF NoTwin
    <3> QED BY <1>1, <2>5, <3>1 DEF Twin
  <2> QED BY <2>2, <2>4, <2>6
<1>5. FreshIsCurrent'
  <2> SUFFICES ASSUME NEW t \in Session, Issuing(t)', job'[t].fresh
               PROVE (job[t].manifest = invoice[job[t].on].manifest)'
    BY DEF FreshIsCurrent, Issuing
  <2>1. PICK a \in Invoice : a = job[t].on
    BY DEF TypeOK, RequestsOK, Fits, OnInvoice, Issuing
  <2>2. a = job'[t].on /\ a # i /\ job[t].fresh /\ pc'[t] = pc[t] BY <2>1
  <2>3. job[t].manifest = invoice[a].manifest BY <2>1, <2>2 DEF FreshIsCurrent, Issuing
  <2> QED BY <2>2, <2>3
<1> QED BY <1>2, <1>3, <1>4, <1>5 DEF Safe

\* The same of steps that leave the invoices alone.
LEMMA InvoicesStay ==
  ASSUME IInv, TypeOK', UNCHANGED invoice,
         \A t \in Session : Issuing(t)' => pc'[t] = pc[t] /\ job'[t] = job[t]
  PROVE Safe'
<1>1. PICK i : i \notin Invoice /\ \A t \in Session : job[t].on # i
  <2>1. PICK i : i \notin Invoice \cup {job[t].on : t \in Session}
    BY NoSetContainsEverything
  <2> QED BY <2>1
<1> QED BY <1>1, NobodyIssues

LEMMA IInvStep == IInv /\ [Next]_vars => IInv'
<1> SUFFICES ASSUME IInv, [Next]_vars PROVE IInv' OBVIOUS
<1>0. TypeOK /\ TypeOK' /\ RequestsOK BY TypeStep DEF IInv, TypeOK
<1> SUFFICES Safe' BY <1>0 DEF IInv, Safe
<1> USE DEF PCs, OnCarton, OnList, OnInvoice
<1>1. ASSUME NEW s \in Session, NEW c \in Carton, NEW z \in Size, NEW q \in 1 .. MaxQty,
             AddCheck(s, c, z, q)
      PROVE Safe'
  <2>1. PICK j : Begin(s, "add", j) /\ UNCHANGED invoice BY <1>1 DEF AddCheck
  <2>2. \A t \in Session : Issuing(t)' => pc'[t] = pc[t] /\ job'[t] = job[t]
    BY <1>0, <2>1 DEF Begin, RequestsOK, Issuing
  <2> QED BY <1>0, <2>1, <2>2, InvoicesStay
<1>2. ASSUME NEW s \in Session, AddCommit(s) \/ EditCommit(s) \/ ApproveWrite(s) \/ ReopenWrite(s)
      PROVE Safe'
  <2>1. End(s) /\ UNCHANGED invoice
    BY <1>2 DEF AddCommit, EditCommit, ApproveWrite, ReopenWrite
  <2>2. \A t \in Session : Issuing(t)' => pc'[t] = pc[t] /\ job'[t] = job[t]
    BY <1>0, <2>1 DEF End, RequestsOK, Issuing
  <2> QED BY <1>0, <2>1, <2>2, InvoicesStay
<1>3. ASSUME NEW s \in Session, NEW c \in Carton, NEW at \in {"save", "remove"},
             NEW after \in Contents, EditCheck(s, c, at, after)
      PROVE Safe'
  <2>1. PICK j : Begin(s, at, j) /\ UNCHANGED invoice BY <1>3 DEF EditCheck
  <2>2. \A t \in Session : Issuing(t)' => pc'[t] = pc[t] /\ job'[t] = job[t]
    BY <1>0, <2>1 DEF Begin, RequestsOK, Issuing
  <2> QED BY <1>0, <2>1, <2>2, InvoicesStay
<1>4. ASSUME NEW s \in Session, EditLock(s) PROVE Safe'
  <2>1. \A t \in Session : Issuing(t)' => pc'[t] = pc[t] /\ job'[t] = job[t]
    BY <1>0, <1>4 DEF EditLock, End, RequestsOK, Issuing
  <2>2. UNCHANGED invoice BY <1>4 DEF EditLock
  <2> QED BY <1>0, <2>1, <2>2, InvoicesStay
<1>5. ASSUME NEW o \in Order, NEW z \in Size, NEW q \in 0 .. MaxQty, SetMatrix(o, z, q)
      PROVE Safe'
  BY <1>0, <1>5, InvoicesStay DEF SetMatrix
<1>6. ASSUME NEW s \in Session, NEW l \in List, ApproveCheck(s, l) \/ ReopenCheck(s, l)
      PROVE Safe'
  <2>1. PICK j : (Begin(s, "approve", j) \/ Begin(s, "reopen", j)) /\ UNCHANGED invoice
    BY <1>6 DEF ApproveCheck, ReopenCheck
  <2>2. \A t \in Session : Issuing(t)' => pc'[t] = pc[t] /\ job'[t] = job[t]
    BY <1>0, <2>1 DEF Begin, RequestsOK, Issuing
  <2> QED BY <1>0, <2>1, <2>2, InvoicesStay
<1>7. ASSUME NEW i \in Invoice, NEW lists \in SUBSET List, NEW first \in lists,
             CreateDraft(i, lists, first)
      PROVE Safe'
  <2>1. invoice[i].status = "NONE" /\ invoice'[i].status = "DRAFT"
        /\ \A k \in Invoice \ {i} : invoice'[k] = invoice[k]
    BY <1>0, <1>7 DEF CreateDraft, TypeOK
  <2>2. UNCHANGED <<pc, job>> BY <1>7 DEF CreateDraft
  <2>3. \A t \in Session : Issuing(t)' => pc'[t] = pc[t] /\ job'[t] = job[t] /\ job[t].on # i
    BY <2>1, <2>2 DEF IInv, NoTwin, Issuing
  <2> QED BY <1>0, <2>1, <2>3, NobodyIssues
<1>8. ASSUME NEW i \in Invoice, EditDraft(i) PROVE Safe'
  <2>1. invoice[i].status = "DRAFT" /\ UNCHANGED <<invoice, pc>> /\ job' = Touch(i, job)
    BY <1>8 DEF EditDraft
  <2>2. \A t \in Session :
          /\ pc'[t] = pc[t] /\ job'[t].on = job[t].on /\ job'[t].manifest = job[t].manifest
          /\ job'[t].fresh => job[t].fresh /\ job[t].on # i
    BY <1>0, <2>1, TouchedJob DEF RequestsOK
  <2> QED BY <1>0, <2>1, <2>2, NobodyIssues
<1>9. ASSUME NEW s \in Session, NEW i \in Invoice, RebuildRead(s, i) PROVE Safe'
  <2>1. PICK j : Begin(s, "rebuild", j) /\ UNCHANGED invoice BY <1>9 DEF RebuildRead
  <2>2. \A t \in Session : Issuing(t)' => pc'[t] = pc[t] /\ job'[t] = job[t]
    BY <1>0, <2>1 DEF Begin, RequestsOK, Issuing
  <2> QED BY <1>0, <2>1, <2>2, InvoicesStay
<1>10. ASSUME NEW s \in Session, RebuildWrite(s) PROVE Safe'
  <2>1. PICK i \in Invoice : i = job[s].on
    BY <1>0, <1>10 DEF RebuildWrite, RequestsOK, Fits
  <2>2. CASE StillDraft(i)
    <3>1. /\ invoice' = [invoice EXCEPT ![i].manifest = job[s].manifest]
          /\ job' = [Touch(i, job) EXCEPT ![s] = NoJob]
          /\ pc' = [pc EXCEPT ![s] = "idle"]
      BY <1>10, <2>1, <2>2 DEF RebuildWrite
    <3>2. /\ \A k \in Invoice \ {i} : invoice'[k] = invoice[k]
          /\ invoice'[i].status = "DRAFT" /\ invoice'[i].lists = invoice[i].lists
      BY <1>0, <2>2, <3>1 DEF TypeOK, Document, StillDraft
    <3>3. \A t \in Session : Issuing(t)' =>
            /\ pc'[t] = pc[t] /\ job'[t].on = job[t].on /\ job'[t].manifest = job[t].manifest
            /\ job'[t].fresh => job[t].fresh /\ job[t].on # i
      BY <1>0, <3>1, RequestsTouchedAndEnds, TouchedJob DEF RequestsOK, Issuing
    <3> QED BY <1>0, <3>2, <3>3, NobodyIssues
  <2>3. CASE ~StillDraft(i)
    <3>1. UNCHANGED invoice /\ End(s) BY <1>10, <2>1, <2>3 DEF RebuildWrite, End
    <3>2. \A t \in Session : Issuing(t)' => pc'[t] = pc[t] /\ job'[t] = job[t]
      BY <1>0, <3>1 DEF End, RequestsOK, Issuing
    <3> QED BY <1>0, <3>1, <3>2, InvoicesStay
  <2> QED BY <2>2, <2>3
<1>11. ASSUME NEW s \in Session, NEW i \in Invoice, IssueCheck(s, i) PROVE Safe'
  <2>1. PICK j : j = [NoJob EXCEPT !.on = i, !.manifest = invoice[i].manifest, !.fresh = TRUE]
    OBVIOUS
  <2>2. j.on = i /\ j.manifest = invoice[i].manifest BY <2>1 DEF NoJob
  <2>3. /\ invoice[i].status = "DRAFT" /\ UNCHANGED invoice
        /\ pc' = [pc EXCEPT ![s] = "issue"] /\ job' = [job EXCEPT ![s] = j]
    BY <1>11, <2>1 DEF IssueCheck, Begin
  <2>4. pc'[s] = "issue" /\ job'[s] = j BY <1>0, <2>3 DEF RequestsOK
  <2>5. \A t \in Session \ {s} : pc'[t] = pc[t] /\ job'[t] = job[t] BY <2>3 DEF RequestsOK
  <2>6. BilledOnce' BY <2>3 DEF IInv, BilledOnce
  <2>7. OneIssues' BY <2>4, <2>5 DEF IInv, OneIssues
  <2>8. NoTwin'
    <3>1. \A a : Twin(a)' = Twin(a) BY <2>3 DEF Twin
    <3> SUFFICES ASSUME NEW t \in Session
                 PROVE /\ pc'[t] \in {"issue", "issuing"} => invoice[job'[t].on].status # "NONE"
                       /\ pc'[t] = "issuing" => ~Twin(job'[t].on)
      BY <2>3 DEF NoTwin, Twin
    <3> QED BY <2>2, <2>3, <2>4, <2>5 DEF IInv, NoTwin
  <2>9. FreshIsCurrent' BY <2>2, <2>3, <2>4, <2>5 DEF IInv, FreshIsCurrent
  <2> QED BY <2>6, <2>7, <2>8, <2>9 DEF Safe
<1>12. ASSUME NEW s \in Session, IssueLock(s) PROVE Safe'
  <2>1. CASE End(s)
    <3>1. \A t \in Session : Issuing(t)' => pc'[t] = pc[t] /\ job'[t] = job[t]
      BY <1>0, <2>1 DEF End, RequestsOK, Issuing
    <3> QED BY <1>0, <1>12, <3>1, InvoicesStay DEF IssueLock
  <2>2. CASE ~Twin(job[s].on) /\ Goto(s, "issuing")
    <3>1. /\ pc[s] = "issue" /\ OneAtATime(s) /\ UNCHANGED <<invoice, job>>
          /\ pc' = [pc EXCEPT ![s] = "issuing"]
      BY <1>12, <2>2 DEF IssueLock, Goto
    <3>2. pc'[s] = "issuing" /\ \A t \in Session \ {s} : pc'[t] = pc[t] BY <1>0, <3>1 DEF RequestsOK
    <3>3. BilledOnce' BY <3>1 DEF IInv, BilledOnce
    <3>4. OneIssues' BY <3>1, <3>2 DEF OneIssues, OneAtATime
    <3>5. NoTwin'
      <4> SUFFICES ASSUME NEW t \in Session
                   PROVE /\ pc'[t] \in {"issue", "issuing"} => invoice[job[t].on].status # "NONE"
                         /\ pc'[t] = "issuing" => ~Twin(job[t].on)
        BY <3>1 DEF NoTwin, Twin
      <4> QED BY <2>2, <3>1, <3>2 DEF IInv, NoTwin, OneAtATime
    <3>6. FreshIsCurrent' BY <3>1, <3>2 DEF IInv, FreshIsCurrent
    <3> QED BY <3>3, <3>4, <3>5, <3>6 DEF Safe
  <2> QED BY <1>12, <2>1, <2>2 DEF IssueLock
<1>13. ASSUME NEW s \in Session, IssueCommit(s) PROVE Safe'
  <2>1. PICK i \in Invoice : i = job[s].on
    BY <1>0, <1>13 DEF IssueCommit, RequestsOK, Fits
  <2>2. CASE AsLoaded(s)
    <3>1. /\ invoice' = [invoice EXCEPT ![i].status = "ISSUED"]
          /\ job' = [Touch(i, job) EXCEPT ![s] = NoJob]
          /\ pc[s] = "issuing" /\ pc' = [pc EXCEPT ![s] = "idle"]
      BY <1>13, <2>1, <2>2 DEF IssueCommit
    <3>2. /\ \A k \in Invoice \ {i} : invoice'[k] = invoice[k]
          /\ invoice'[i].status = "ISSUED" /\ invoice'[i].lists = invoice[i].lists
          /\ invoice'[i].manifest = invoice[i].manifest
      BY <1>0, <3>1 DEF TypeOK, Document
    <3>3. ~Twin(i) BY <2>1, <3>1 DEF IInv, NoTwin
    <3>4. BilledOnce'
      <4> SUFFICES ASSUME NEW k \in Invoice, NEW m \in Invoice, k # m,
                          invoice'[k].status = "ISSUED", invoice'[m].status = "ISSUED"
                   PROVE invoice'[k].lists \cap invoice'[m].lists = {}
        BY DEF BilledOnce
      <4>1. CASE k = i BY <3>2, <3>3, <4>1 DEF Twin
      <4>2. CASE m = i BY <3>2, <3>3, <4>2 DEF Twin
      <4>3. CASE k # i /\ m # i BY <3>2, <4>3 DEF IInv, BilledOnce
      <4> QED BY <4>1, <4>2, <4>3
    <3>5. /\ pc'[s] = "idle"
          /\ \A t \in Session \ {s} : pc'[t] = pc[t] /\ job'[t] = Touch(i, job)[t]
      BY ZenonT(30), <1>0, <3>1, RequestsTouchedAndEnds
    <3>6. \A t \in Session : pc'[t] # "issuing" BY <3>1, <3>5 DEF IInv, OneIssues
    <3>7. OneIssues' BY <3>6 DEF OneIssues
    <3>8. \A t \in Session : Issuing(t)' =>
            /\ pc'[t] = pc[t] /\ job'[t].on = job[t].on /\ job'[t].manifest = job[t].manifest
            /\ job'[t].fresh => job[t].fresh /\ job[t].on # i
      BY <1>0, <3>5, TouchedJob DEF RequestsOK, Issuing
    <3>9. NoTwin'
      <4> SUFFICES ASSUME NEW t \in Session, Issuing(t)'
                   PROVE (invoice[job[t].on].status # "NONE")'
        BY <3>6 DEF NoTwin, Issuing
      <4>1. PICK a \in Invoice : a = job[t].on
        BY <1>0, <3>8 DEF RequestsOK, Fits, Issuing
      <4>2. a = job'[t].on /\ invoice[a].status # "NONE"
        BY <3>8, <4>1 DEF IInv, NoTwin, Issuing
      <4> QED BY <3>2, <4>2
    <3>10. FreshIsCurrent'
      <4> SUFFICES ASSUME NEW t \in Session, Issuing(t)', job'[t].fresh
                   PROVE (job[t].manifest = invoice[job[t].on].manifest)'
        BY DEF FreshIsCurrent, Issuing
      <4>1. PICK a \in Invoice : a = job[t].on
        BY <1>0, <3>8 DEF RequestsOK, Fits, Issuing
      <4>2. a = job'[t].on /\ job[t].manifest = invoice[a].manifest
        BY <3>8, <4>1 DEF IInv, FreshIsCurrent, Issuing
      <4> QED BY <3>2, <3>8, <4>2
    <3> QED BY <3>4, <3>7, <3>9, <3>10 DEF Safe
  <2>3. CASE ~AsLoaded(s)
    <3>1. UNCHANGED invoice /\ End(s) BY <1>13, <2>1, <2>3 DEF IssueCommit, End
    <3>2. \A t \in Session : Issuing(t)' => pc'[t] = pc[t] /\ job'[t] = job[t]
      BY <1>0, <3>1 DEF End, RequestsOK, Issuing
    <3> QED BY <1>0, <3>1, <3>2, InvoicesStay
  <2> QED BY <2>2, <2>3
<1>14. ASSUME NEW i \in Invoice, VoidInvoice(i) \/ DeleteDraft(i) PROVE Safe'
  <2>1. job' = Touch(i, job) /\ UNCHANGED pc BY <1>14 DEF VoidInvoice, DeleteDraft, Dispose
  <2>2. /\ \A k \in Invoice \ {i} : invoice'[k] = invoice[k]
        /\ invoice'[i].status \in {"VOID", "DELETED"} /\ invoice'[i].lists \subseteq invoice[i].lists
    BY <1>0, <1>14 DEF VoidInvoice, DeleteDraft, Dispose, TypeOK, Document, NoInvoice
  <2>3. \A t \in Session :
          /\ pc'[t] = pc[t] /\ job'[t].on = job[t].on /\ job'[t].manifest = job[t].manifest
          /\ job'[t].fresh => job[t].fresh /\ job[t].on # i
    BY <1>0, <2>1, TouchedJob DEF RequestsOK
  <2> QED BY <1>0, <2>2, <2>3, NobodyIssues
<1>15. CASE UNCHANGED vars BY <1>0, <1>15, InvoicesStay DEF vars
<1>16. Nothing \in Contents BY NothingType
<1> QED BY <1>1, <1>2, <1>3, <1>4, <1>5, <1>6, <1>7, <1>8, <1>9, <1>10, <1>11, <1>12, <1>13,
           <1>14, <1>15, <1>16 DEF Next

-----------------------------------------------------------------------------
(* The packed ledger *)

Locks(s) == pc[s] \in {"saving", "removing"}

\* A carton being added is new, and nobody else is adding it.
AddsNew == \A s \in Session : pc[s] = "add" =>
  /\ job[s].on \notin made
  /\ \A t \in Session : pc[t] = "add" /\ job[t].on = job[s].on => t = s

\* Who has locked a carton is alone on it, and works from what is in it.
LockedIsCurrent == \A s \in Session : Locks(s) =>
  /\ job[s].on \in there /\ job[s].before = held[job[s].on]
  /\ \A t \in Session : Locks(t) /\ job[t].on = job[s].on => t = s

\* A removal takes all of the carton off the ledger.
RemovesAll == \A s \in Session : pc[s] \in {"remove", "removing"} => job[s].after = Nothing

Work == AddsNew /\ LockedIsCurrent /\ RemovesAll

\* A write of one carton moves its order's cells by what it puts in the box less what it
\* takes out, and never below zero: the sum is not below what the carton had in it.
LEMMA LedgerMoves ==
  ASSUME TypeOK, TypeOK', LedgerFollowsCartons, UNCHANGED typed, NEW c \in Carton,
         there' \ {c} = there \ {c}, \A d \in Carton \ {c} : held'[d] = held[d],
         \A o \in Order, z \in Size : packed'[<<o, z>>] =
           IF o = OrderOf(c)
           THEN Floored(packed[<<o, z>>] + (IF c \in there' THEN held'[c][z] ELSE 0)
                                     - (IF c \in there THEN held[c][z] ELSE 0))
           ELSE packed[<<o, z>>]
  PROVE LedgerFollowsCartons'
<1> SUFFICES ASSUME NEW o \in Order, NEW z \in Size, <<o, z>> \notin typed
             PROVE packed'[<<o, z>>] = SumFunctionOnSet([d \in Carton |-> held'[d][z]],
                                                    {d \in there' : OrderOf(d) = o})
  BY DEF LedgerFollowsCartons, OrderOf
<1> DEFINE f == [d \in Carton |-> held[d][z]]
           g == [d \in Carton |-> held'[d][z]]
           P == {d \in there : OrderOf(d) = o}
           Q == {d \in there' : OrderOf(d) = o}
<1>1. packed[<<o, z>>] = SumFunctionOnSet(f, P) BY DEF LedgerFollowsCartons
<1>2. /\ there \in SUBSET Carton /\ there' \in SUBSET Carton
      /\ held \in [Carton -> Contents] /\ held' \in [Carton -> Contents]
  BY DEF TypeOK
<1>3. /\ f = [d \in Carton |-> held[d][z]] /\ g = [d \in Carton |-> held'[d][z]]
      /\ P = {d \in there : OrderOf(d) = o} /\ Q = {d \in there' : OrderOf(d) = o}
      /\ P \subseteq Carton /\ Q \subseteq Carton
  BY <1>2
<1>4. \A d \in Carton \ {c} : f[d] = g[d] OBVIOUS
<1>5. P \ {c} = Q \ {c} OBVIOUS
<1> HIDE DEF f, g, P, Q
<1>6. IsFiniteSet(P \ {c})
  <2>1. P \ {c} \subseteq Carton BY <1>3
  <2> QED BY <2>1, CartonAssumption, FS_Subset
<1>7. SumFunctionOnSet(f, P \ {c}) = SumFunctionOnSet(g, P \ {c})
  <2>1. \A d \in P \ {c} : f[d] = g[d] BY <1>3, <1>4
  <2> QED BY <1>6, <2>1, SumSame
<1>8. SumFunctionOnSet(f, P \ {c}) = SumFunctionOnSet(g, Q \ {c}) BY <1>5, <1>7, Zenon
<1>9. CASE o = OrderOf(c)
  <2>1. IsFiniteSet(P) /\ \A d \in P : f[d] \in Nat
    BY <1>2, <1>3, CartonAssumption, BoundAssumption, FS_Subset DEF Contents
  <2>2. IsFiniteSet(Q) /\ \A d \in Q : g[d] \in Nat
    BY <1>2, <1>3, CartonAssumption, BoundAssumption, FS_Subset DEF Contents
  <2>3. /\ SumFunctionOnSet(f, P) = SumFunctionOnSet(f, P \ {c}) + (IF c \in P THEN f[c] ELSE 0)
        /\ SumFunctionOnSet(f, P \ {c}) \in Nat
        /\ SumFunctionOnSet(g, Q) = SumFunctionOnSet(g, Q \ {c}) + (IF c \in Q THEN g[c] ELSE 0)
    <3>1. /\ SumFunctionOnSet(f, P) = SumFunctionOnSet(f, P \ {c}) + (IF c \in P THEN f[c] ELSE 0)
          /\ SumFunctionOnSet(f, P \ {c}) \in Nat
      BY <2>1, SumApart, Zenon
    <3>2. /\ SumFunctionOnSet(g, Q) = SumFunctionOnSet(g, Q \ {c}) + (IF c \in Q THEN g[c] ELSE 0)
          /\ SumFunctionOnSet(g, Q \ {c}) \in Nat
      BY <2>2, SumApart, Zenon
    <3> QED BY <3>1, <3>2
  <2>4. held[c][z] \in Nat /\ held'[c][z] \in Nat BY <1>2, BoundAssumption DEF Contents
  <2>5. /\ (IF c \in P THEN f[c] ELSE 0) = (IF c \in there THEN held[c][z] ELSE 0)
        /\ (IF c \in Q THEN g[c] ELSE 0) = (IF c \in there' THEN held'[c][z] ELSE 0)
    BY <1>3, <1>9
  <2>6. packed'[<<o, z>>] = Floored(SumFunctionOnSet(f, P)
                                  + (IF c \in there' THEN held'[c][z] ELSE 0)
                                  - (IF c \in there THEN held[c][z] ELSE 0))
    BY <1>1, <1>9
  <2>7. packed'[<<o, z>>] = SumFunctionOnSet(g, Q)
    BY <1>8, <2>3, <2>4, <2>5, <2>6 DEF Floored
  <2> QED BY <1>3, <2>7
<1>10. CASE o # OrderOf(c)
  <2>1. P \ {c} = P /\ Q \ {c} = Q BY <1>3, <1>10
  <2>2. SumFunctionOnSet(f, P) = SumFunctionOnSet(g, Q) BY <1>8, <2>1, Zenon
  <2>3. packed'[<<o, z>>] = packed[<<o, z>>] BY <1>10
  <2> QED BY <1>1, <1>3, <2>2, <2>3
<1> QED BY <1>9, <1>10

\* A step that leaves the cartons alone leaves the ledger alone.
LEMMA LedgerStays ==
  ASSUME LedgerFollowsCartons, UNCHANGED <<cartons, typed>>
  PROVE LedgerFollowsCartons'
BY DEF LedgerFollowsCartons, cartons, OrderOf

\* Requests on cartons go on as they are, or end, while nothing is done to the cartons.
LEMMA WorkStays ==
  ASSUME Work, UNCHANGED <<made, there, held>>,
         \A t \in Session : pc'[t] \in {"add", "remove", "saving", "removing"} =>
           /\ pc'[t] = pc[t] /\ job'[t].on = job[t].on
           /\ job'[t].before = job[t].before /\ job'[t].after = job[t].after
  PROVE Work'
<1>1. AddsNew' BY DEF Work, AddsNew
<1>2. LockedIsCurrent'
  <2> SUFFICES ASSUME NEW s \in Session, Locks(s)'
               PROVE (/\ job[s].on \in there /\ job[s].before = held[job[s].on]
                      /\ \A t \in Session : Locks(t) /\ job[t].on = job[s].on => t = s)'
    BY DEF LockedIsCurrent
  <2>1. \A t \in Session : Locks(t)' => Locks(t) /\ job'[t].on = job[t].on BY DEF Locks
  <2>2. job'[s].before = job[s].before BY DEF Locks
  <2> QED BY <2>1, <2>2 DEF Work, LockedIsCurrent
<1>3. RemovesAll' BY DEF Work, RemovesAll
<1> QED BY <1>1, <1>2, <1>3 DEF Work

\* A touched job is on the same thing, before and after.
LEMMA TouchedWork ==
  ASSUME job \in [Session -> Job], NEW i, NEW t \in Session
  PROVE /\ Touch(i, job)[t].before = job[t].before
        /\ Touch(i, job)[t].after = job[t].after
<1>1. job[t] \in Job OBVIOUS
<1> QED BY <1>1 DEF Touch, Job

Ledger == Work /\ LedgerFollowsCartons

\* Requests that start where no carton is held, end, or go on with an invoice.
LEMMA Elsewhere ==
  ASSUME TypeOK, Ledger, UNCHANGED <<cartons, typed>>, NEW s \in Session,
         pc' = [pc EXCEPT ![s] = pc'[s]], pc'[s] \notin {"add", "remove", "saving", "removing"},
         \A t \in Session \ {s} :
           \/ job'[t] = job[t]
           \/ \E i : job'[t] = Touch(i, job)[t]
  PROVE Ledger'
<1>1. job \in [Session -> Job] /\ pc \in [Session -> PCs] BY DEF TypeOK, RequestsOK, PCs
<1>2. \A t \in Session \ {s} :
        /\ pc'[t] = pc[t] /\ job'[t].on = job[t].on
        /\ job'[t].before = job[t].before /\ job'[t].after = job[t].after
  BY <1>1, TouchedJob, TouchedWork
<1>3. Work' BY <1>2, WorkStays DEF Ledger, cartons
<1> QED BY <1>3, LedgerStays DEF Ledger

LEMMA LedgerInit == Init => Ledger
<1> SUFFICES ASSUME Init PROVE Ledger OBVIOUS
<1>1. Work BY DEF Init, Work, AddsNew, LockedIsCurrent, RemovesAll, Locks
<1>2. LedgerFollowsCartons
  <2> SUFFICES ASSUME NEW o \in Order, NEW z \in Size
               PROVE packed[<<o, z>>] = SumFunctionOnSet([c \in Carton |-> held[c][z]],
                                                         {c \in there : OrderOf(c) = o})
    BY DEF LedgerFollowsCartons
  <2>1. {c \in there : OrderOf(c) = o} = {} BY DEF Init
  <2>2. SumFunctionOnSet([c \in Carton |-> held[c][z]], {}) = 0 BY SumEmpty
  <2>3. packed[<<o, z>>] = 0 BY DEF Init
  <2> QED BY <2>1, <2>2, <2>3, Zenon
<1> QED BY <1>1, <1>2 DEF Ledger

\* The step that adds a carton, and the one that writes what was edited, or removes it.
LEMMA AddKeepsLedger ==
  ASSUME TypeOK, TypeOK', Ledger, NEW s \in Session, AddCommit(s)
  PROVE Ledger'
<1>0. RequestsOK BY DEF TypeOK
<1> USE DEF PCs, OnCarton, OnList, OnInvoice
<1>1. PICK c \in Carton : c = job[s].on BY <1>0 DEF AddCommit, RequestsOK, Fits
<1>2. c \notin made /\ c \notin there
  BY <1>1 DEF AddCommit, TypeOK, Ledger, Work, AddsNew
<1>3. /\ made' = made \cup {c} /\ there' = there \cup {c}
      /\ held'[c] = job[s].after /\ \A d \in Carton \ {c} : held'[d] = held[d]
      /\ UNCHANGED typed
  BY <1>1 DEF AddCommit, TypeOK
<1>4. /\ pc'[s] = "idle"
      /\ \A t \in Session \ {s} : pc'[t] = pc[t] /\ job'[t] = job[t]
  BY <1>0, RequestEnds DEF AddCommit
<1>5. AddsNew'
  <2> SUFFICES ASSUME NEW t \in Session, pc'[t] = "add"
               PROVE /\ job'[t].on \notin made'
                     /\ \A u \in Session : pc'[u] = "add" /\ job'[u].on = job'[t].on => u = t
    BY DEF AddsNew
  <2>1. t # s /\ pc[t] = "add" /\ job'[t] = job[t] BY <1>4
  <2>2. job[t].on # c BY <1>1, <2>1 DEF AddCommit, Ledger, Work, AddsNew
  <2>3. \A u \in Session : pc'[u] = "add" => pc[u] = "add" /\ job'[u] = job[u] BY <1>4
  <2> QED BY <1>3, <2>1, <2>2, <2>3 DEF Ledger, Work, AddsNew
<1>6. LockedIsCurrent'
  <2> SUFFICES ASSUME NEW t \in Session, Locks(t)'
               PROVE /\ job'[t].on \in there' /\ job'[t].before = held'[job'[t].on]
                     /\ \A u \in Session : Locks(u)' /\ job'[u].on = job'[t].on => u = t
    BY DEF LockedIsCurrent
  <2>1. \A u \in Session : Locks(u)' => Locks(u) /\ job'[u] = job[u] BY <1>4 DEF Locks
  <2>2. job[t].on \in there /\ job[t].on # c BY <1>2, <2>1 DEF Ledger, Work, LockedIsCurrent
  <2>3. job[t].on \in Carton BY <2>2 DEF TypeOK
  <2> QED BY <1>3, <2>1, <2>2, <2>3 DEF Ledger, Work, LockedIsCurrent
<1>7. RemovesAll' BY <1>4 DEF Ledger, Work, RemovesAll
<1>8. \A o \in Order, z \in Size : packed'[<<o, z>>] =
        IF o = OrderOf(c)
        THEN Floored(packed[<<o, z>>] + (IF c \in there' THEN held'[c][z] ELSE 0)
                                      - (IF c \in there THEN held[c][z] ELSE 0))
        ELSE packed[<<o, z>>]
  <2> SUFFICES ASSUME NEW o \in Order, NEW z \in Size, NEW x, x = <<o, z>>
               PROVE packed'[x] = IF o = OrderOf(c)
                       THEN Floored(packed[x] + (IF c \in there' THEN held'[c][z] ELSE 0)
                                              - (IF c \in there THEN held[c][z] ELSE 0))
                       ELSE packed[x]
    OBVIOUS
  <2>1. x \in Order \X Size /\ x[1] = o /\ x[2] = z OBVIOUS
  <2>2. packed[x] \in Nat /\ job[s].after[z] \in Nat
    <3>1. job[s].after \in Contents /\ packed \in [Order \X Size -> Nat]
      BY <1>0 DEF TypeOK, RequestsOK, Job
    <3> QED BY <2>1, <3>1, BoundAssumption DEF Contents
  <2>3. packed'[x] = IF o = OrderOf(c) THEN packed[x] + job[s].after[z] ELSE packed[x]
    BY <1>1, <2>1 DEF AddCommit, TypeOK
  <2> QED BY <1>2, <1>3, <2>2, <2>3 DEF Floored
<1>9. there' \ {c} = there \ {c} BY <1>3
<1>10. LedgerFollowsCartons' BY <1>3, <1>8, <1>9, LedgerMoves DEF Ledger
<1> QED BY <1>5, <1>6, <1>7, <1>10 DEF Ledger, Work

LEMMA EditKeepsLedger ==
  ASSUME TypeOK, TypeOK', Ledger, NEW s \in Session, EditCommit(s)
  PROVE Ledger'
<1>0. RequestsOK BY DEF TypeOK
<1> USE DEF PCs, OnCarton, OnList, OnInvoice
<1>1. PICK c \in Carton : c = job[s].on BY <1>0 DEF EditCommit, RequestsOK, Fits
<1>2. /\ Locks(s) /\ c \in there /\ job[s].before = held[c]
      /\ \A t \in Session \ {s} : Locks(t) => job[t].on # c
  BY <1>1 DEF EditCommit, Locks, Ledger, Work, LockedIsCurrent
<1>3. /\ there' = (IF pc[s] = "saving" THEN there ELSE there \ {c}) /\ made' = made
      /\ held'[c] = job[s].after /\ \A d \in Carton \ {c} : held'[d] = held[d]
      /\ UNCHANGED typed
  BY <1>1 DEF EditCommit, TypeOK
<1>4. /\ pc'[s] = "idle"
      /\ \A t \in Session \ {s} : pc'[t] = pc[t] /\ job'[t] = job[t]
  BY <1>0, RequestEnds DEF EditCommit
<1>5. AddsNew' BY <1>3, <1>4 DEF Ledger, Work, AddsNew
<1>6. LockedIsCurrent'
  <2> SUFFICES ASSUME NEW t \in Session, Locks(t)'
               PROVE /\ job'[t].on \in there' /\ job'[t].before = held'[job'[t].on]
                     /\ \A u \in Session : Locks(u)' /\ job'[u].on = job'[t].on => u = t
    BY DEF LockedIsCurrent
  <2>1. \A u \in Session : Locks(u)' => u # s /\ Locks(u) /\ job'[u] = job[u]
    BY <1>4 DEF Locks
  <2>2. job[t].on \in there /\ job[t].on # c
    BY <1>2, <2>1 DEF Ledger, Work, LockedIsCurrent
  <2>3. job[t].on \in Carton BY <2>2 DEF TypeOK
  <2> QED BY <1>3, <2>1, <2>2, <2>3 DEF Ledger, Work, LockedIsCurrent
<1>7. RemovesAll' BY <1>4 DEF Ledger, Work, RemovesAll
<1>8. \A o \in Order, z \in Size : packed'[<<o, z>>] =
        IF o = OrderOf(c)
        THEN Floored(packed[<<o, z>>] + (IF c \in there' THEN held'[c][z] ELSE 0)
                                      - (IF c \in there THEN held[c][z] ELSE 0))
        ELSE packed[<<o, z>>]
  <2> SUFFICES ASSUME NEW o \in Order, NEW z \in Size, NEW x, x = <<o, z>>
               PROVE packed'[x] = IF o = OrderOf(c)
                       THEN Floored(packed[x] + (IF c \in there' THEN held'[c][z] ELSE 0)
                                              - (IF c \in there THEN held[c][z] ELSE 0))
                       ELSE packed[x]
    OBVIOUS
  <2>1. x \in Order \X Size /\ x[1] = o /\ x[2] = z OBVIOUS
  <2>2. packed[x] \in Nat /\ job[s].after[z] \in Nat /\ held[c][z] \in Nat
    <3>1. job[s].after \in Contents /\ held[c] \in Contents /\ packed \in [Order \X Size -> Nat]
      BY <1>0 DEF TypeOK, RequestsOK, Job
    <3> QED BY <2>1, <3>1, BoundAssumption DEF Contents
  <2>3. packed'[x] = IF o = OrderOf(c)
                     THEN Floored(packed[x] + (job[s].after[z] - held[c][z])) ELSE packed[x]
    BY <1>1, <1>2, <2>1 DEF EditCommit, TypeOK
  <2>4. (IF c \in there' THEN held'[c][z] ELSE 0) = job[s].after[z]
    <3>1. CASE pc[s] = "saving" BY <1>2, <1>3, <3>1
    <3>2. CASE pc[s] = "removing"
      <4>1. job[s].after[z] = 0 BY <3>2 DEF Ledger, Work, RemovesAll, Nothing
      <4> QED BY <1>3, <3>2, <4>1
    <3> QED BY <1>2, <3>1, <3>2 DEF Locks
  <2> QED BY <1>2, <2>2, <2>3, <2>4 DEF Floored
<1>9. there' \ {c} = there \ {c} BY <1>3
<1>10. LedgerFollowsCartons' BY <1>3, <1>8, <1>9, LedgerMoves DEF Ledger
<1> QED BY <1>5, <1>6, <1>7, <1>10 DEF Ledger, Work

LEMMA LedgerStep == TypeOK /\ TypeOK' /\ Ledger /\ [Next]_vars => Ledger'
<1> SUFFICES ASSUME TypeOK, TypeOK', Ledger, [Next]_vars PROVE Ledger' OBVIOUS
<1>0. RequestsOK /\ pc \in [Session -> PCs] /\ job \in [Session -> Job]
  BY DEF TypeOK, RequestsOK, PCs
<1> USE DEF PCs, OnCarton, OnList, OnInvoice
<1>1. ASSUME NEW s \in Session, NEW c \in Carton, NEW z \in Size, NEW q \in 1 .. MaxQty,
             AddCheck(s, c, z, q)
      PROVE Ledger'
  <2>1. PICK j : Begin(s, "add", j) /\ j = [NoJob EXCEPT !.on = c, !.after = [Nothing EXCEPT ![z] = q]]
    BY <1>1 DEF AddCheck
  <2>2. j.on = c BY <2>1 DEF NoJob
  <2>3. /\ pc'[s] = "add" /\ job'[s] = j
        /\ \A t \in Session \ {s} : pc'[t] = pc[t] /\ job'[t] = job[t]
    BY <1>0, <2>1 DEF Begin
  <2>4. c \notin made /\ \A t \in Session : job[t].on # c BY <1>1 DEF AddCheck
  <2>5. UNCHANGED <<cartons, typed>> BY <1>1 DEF AddCheck
  <2>6. AddsNew' BY <2>2, <2>3, <2>4, <2>5 DEF Ledger, Work, AddsNew, cartons
  <2>7. LockedIsCurrent'
    <3>1. \A t \in Session : Locks(t)' => Locks(t) /\ t # s /\ job'[t] = job[t] BY <2>3 DEF Locks
    <3> QED BY <2>5, <3>1 DEF Ledger, Work, LockedIsCurrent, cartons
  <2>8. RemovesAll' BY <2>3 DEF Ledger, Work, RemovesAll
  <2> QED BY <2>5, <2>6, <2>7, <2>8, LedgerStays DEF Ledger, Work
<1>2. ASSUME NEW s \in Session, AddCommit(s) PROVE Ledger' BY <1>2, AddKeepsLedger
<1>3. ASSUME NEW s \in Session, NEW c \in Carton, NEW at \in {"save", "remove"},
             NEW after \in Contents, at = "remove" => after = Nothing,
             EditCheck(s, c, at, after)
      PROVE Ledger'
  <2>1. PICK j : Begin(s, at, j) /\ j = [NoJob EXCEPT !.on = c, !.after = after]
    BY <1>3 DEF EditCheck
  <2>2. j.after = after BY <2>1 DEF NoJob
  <2>3. /\ pc'[s] = at /\ job'[s] = j
        /\ \A t \in Session \ {s} : pc'[t] = pc[t] /\ job'[t] = job[t]
    BY <1>0, <2>1 DEF Begin
  <2>4. UNCHANGED <<cartons, typed>> BY <1>3 DEF EditCheck
  <2>5. AddsNew' BY <2>3, <2>4 DEF Ledger, Work, AddsNew, cartons
  <2>6. LockedIsCurrent'
    <3>1. \A t \in Session : Locks(t)' => Locks(t) /\ t # s /\ job'[t] = job[t] BY <2>3 DEF Locks
    <3> QED BY <2>4, <3>1 DEF Ledger, Work, LockedIsCurrent, cartons
  <2>7. RemovesAll' BY <1>3, <2>2, <2>3 DEF Ledger, Work, RemovesAll
  <2> QED BY <2>4, <2>5, <2>6, <2>7, LedgerStays DEF Ledger, Work
<1>4. ASSUME NEW s \in Session, EditLock(s) PROVE Ledger'
  <2>0. UNCHANGED <<cartons, typed>> BY <1>4 DEF EditLock
  <2>1. PICK c \in Carton : c = job[s].on BY <1>0, <1>4 DEF EditLock, RequestsOK, Fits
  <2>2. CASE End(s)
    <3>1. pc'[s] = "idle" /\ \A t \in Session \ {s} : job'[t] = job[t] BY <1>0, <2>2 DEF End
    <3>2. pc' = [pc EXCEPT ![s] = pc'[s]] BY <1>0, <2>2 DEF End
    <3> QED BY <2>0, <3>1, <3>2, Elsewhere
  <2>3. CASE ~End(s)
    <3>1. /\ pc[s] \in {"save", "remove"} /\ c \in there /\ ~Locked(c)
          /\ pc' = [pc EXCEPT ![s] = IF @ = "save" THEN "saving" ELSE "removing"]
          /\ job' = [job EXCEPT ![s].before = held[c]]
      BY <1>4, <2>1, <2>3 DEF EditLock
    <3>2. job[s] \in Job BY <1>0
    <3>3. /\ pc'[s] = IF pc[s] = "save" THEN "saving" ELSE "removing"
          /\ job'[s].on = c /\ job'[s].before = held[c] /\ job'[s].after = job[s].after
          /\ \A t \in Session \ {s} : pc'[t] = pc[t] /\ job'[t] = job[t]
      BY <1>0, <2>1, <3>1, <3>2 DEF Job
    <3>4. AddsNew' BY <2>0, <3>3 DEF Ledger, Work, AddsNew, cartons
    <3>5. LockedIsCurrent'
      <4>1. \A t \in Session \ {s} : Locks(t)' => Locks(t) /\ job'[t] = job[t] /\ job[t].on # c
        BY <3>1, <3>3 DEF Locks, Locked
      <4>2. \A t \in Session \ {s} : Locks(t)' =>
              /\ job'[t].on \in there /\ job'[t].before = held[job'[t].on]
              /\ \A u \in Session : Locks(u)' /\ job'[u].on = job'[t].on => u = t
        BY <3>3, <4>1 DEF Ledger, Work, LockedIsCurrent
      <4>3. \A t \in Session : Locks(t)' /\ job'[t].on = job'[s].on => t = s BY <3>3, <4>1
      <4>4. job'[s].on \in there /\ job'[s].before = held[job'[s].on] BY <3>1, <3>3
      <4> QED BY <2>0, <4>2, <4>3, <4>4 DEF LockedIsCurrent, cartons
    <3>6. RemovesAll' BY <3>1, <3>3 DEF Ledger, Work, RemovesAll
    <3> QED BY <2>0, <3>4, <3>5, <3>6, LedgerStays DEF Ledger, Work
  <2> QED BY <2>2, <2>3
<1>5. ASSUME NEW s \in Session, EditCommit(s) PROVE Ledger' BY <1>5, EditKeepsLedger
<1>6. ASSUME NEW o \in Order, NEW z \in Size, NEW q \in 0 .. MaxQty, SetMatrix(o, z, q)
      PROVE Ledger'
  <2>1. Work' BY <1>6, WorkStays DEF SetMatrix, Ledger
  <2>2. LedgerFollowsCartons'
    <3> SUFFICES ASSUME NEW p \in Order, NEW y \in Size, <<p, y>> \notin typed'
                 PROVE packed'[<<p, y>>] = SumFunctionOnSet([d \in Carton |-> held[d][y]],
                                                            {d \in there : OrderOf(d) = p})
      BY <1>6 DEF SetMatrix, LedgerFollowsCartons, OrderOf
    <3>1. <<p, y>> \notin typed /\ packed'[<<p, y>>] = packed[<<p, y>>]
      BY <1>6 DEF SetMatrix, TypeOK
    <3> QED BY <3>1 DEF Ledger, LedgerFollowsCartons
  <2> QED BY <2>1, <2>2 DEF Ledger
<1>7. ASSUME NEW s \in Session, NEW at \in {"approve", "reopen", "rebuild", "issue"}, NEW j,
             Begin(s, at, j), UNCHANGED <<cartons, typed>>
      PROVE Ledger'
  <2>1. pc'[s] = at /\ \A t \in Session \ {s} : job'[t] = job[t] BY <1>0, <1>7 DEF Begin
  <2>2. pc' = [pc EXCEPT ![s] = pc'[s]] BY <1>0, <1>7 DEF Begin
  <2> QED BY <1>7, <2>1, <2>2, Elsewhere
<1>8. ASSUME NEW s \in Session, End(s), UNCHANGED <<cartons, typed>> PROVE Ledger'
  <2>1. pc'[s] = "idle" /\ \A t \in Session \ {s} : job'[t] = job[t] BY <1>0, <1>8 DEF End
  <2>2. pc' = [pc EXCEPT ![s] = pc'[s]] BY <1>0, <1>8 DEF End
  <2> QED BY <1>8, <2>1, <2>2, Elsewhere
<1>9. ASSUME NEW i, UNCHANGED <<cartons, typed, pc>>, job' = job \/ job' = Touch(i, job)
      PROVE Ledger'
  <2>1. \A t \in Session : /\ pc'[t] = pc[t] /\ job'[t].on = job[t].on
                           /\ job'[t].before = job[t].before /\ job'[t].after = job[t].after
    BY <1>0, <1>9, TouchedJob, TouchedWork
  <2>2. Work' BY <1>9, <2>1, WorkStays DEF Ledger, cartons
  <2> QED BY <1>9, <2>2, LedgerStays DEF Ledger
<1>10. ASSUME NEW s \in Session, NEW i, UNCHANGED <<cartons, typed>>,
              pc' = [pc EXCEPT ![s] = "idle"], job' = [Touch(i, job) EXCEPT ![s] = NoJob]
       PROVE Ledger'
  <2>1. pc'[s] = "idle" /\ \A t \in Session \ {s} : job'[t] = Touch(i, job)[t]
    BY <1>0, <1>10 DEF Touch
  <2>2. pc' = [pc EXCEPT ![s] = pc'[s]] BY <1>0, <1>10
  <2> QED BY <1>10, <2>1, <2>2, Elsewhere
<1>11. ASSUME NEW s \in Session, RebuildWrite(s) \/ IssueCommit(s) PROVE Ledger'
  <2>1. UNCHANGED <<cartons, typed>> /\ pc' = [pc EXCEPT ![s] = "idle"]
    BY <1>11 DEF RebuildWrite, IssueCommit
  <2>2. \/ job' = [Touch(job[s].on, job) EXCEPT ![s] = NoJob]
        \/ job' = [job EXCEPT ![s] = NoJob]
    BY <1>11 DEF RebuildWrite, IssueCommit
  <2> QED BY <1>8, <1>10, <2>1, <2>2 DEF End
<1>12. ASSUME NEW s \in Session, IssueLock(s) PROVE Ledger'
  <2>1. UNCHANGED <<cartons, typed>> BY <1>12 DEF IssueLock
  <2>2. CASE End(s) BY <1>8, <2>1, <2>2
  <2>3. CASE Goto(s, "issuing")
    <3>1. pc'[s] = "issuing" /\ job' = job /\ pc' = [pc EXCEPT ![s] = pc'[s]]
      BY <1>0, <2>3 DEF Goto
    <3> QED BY <2>1, <3>1, Elsewhere
  <2> QED BY <1>12, <2>2, <2>3 DEF IssueLock
<1>13. ASSUME NEW i \in Invoice,
              \/ \E lists \in SUBSET List : \E first \in lists : CreateDraft(i, lists, first)
              \/ EditDraft(i) \/ VoidInvoice(i) \/ DeleteDraft(i)
       PROVE Ledger'
  BY <1>9, <1>13 DEF CreateDraft, EditDraft, VoidInvoice, DeleteDraft, Dispose
<1>14. ASSUME NEW s \in Session, NEW l \in List, ApproveCheck(s, l) \/ ReopenCheck(s, l)
       PROVE Ledger'
  BY <1>7, <1>14 DEF ApproveCheck, ReopenCheck
<1>15. ASSUME NEW s \in Session, ApproveWrite(s) \/ ReopenWrite(s) PROVE Ledger'
  BY <1>8, <1>15 DEF ApproveWrite, ReopenWrite
<1>16. ASSUME NEW s \in Session, NEW i \in Invoice, RebuildRead(s, i) \/ IssueCheck(s, i)
       PROVE Ledger'
  BY <1>7, <1>16 DEF RebuildRead, IssueCheck
<1>17. CASE UNCHANGED vars BY <1>9, <1>17 DEF vars
<1>18. Nothing \in Contents BY NothingType
<1> QED BY <1>1, <1>2, <1>3, <1>4, <1>5, <1>6, <1>11, <1>12, <1>13, <1>14, <1>15, <1>16, <1>17,
           <1>18 DEF Next

-----------------------------------------------------------------------------
(* The theorems *)

\* Every reachable state satisfies the inductive invariant.
THEOREM Invariance == Spec => []IInv
<1> QED BY IInvInit, IInvStep, PTL DEF Spec

\* The tables and the requests hold what the code stores, the packed ledger never
\* below zero, for every number of people, lists, cartons and invoices.
THEOREM TypeCorrect == Spec => []TypeOK
<1>1. IInv => TypeOK BY DEF IInv
<1> QED BY <1>1, Invariance, PTL

\* No two issued invoices ever share a packing list, however many people issue.
THEOREM NeverBilledTwice == Spec => []BilledOnce
<1>1. IInv => BilledOnce BY DEF IInv
<1> QED BY <1>1, Invariance, PTL

\* How a step may write an invoice: raise it, dispose of it, rebuild a draft, or issue
\* a draft that has not moved since its request loaded it.
LEMMA InvoiceWrites ==
  ASSUME IInv, Next, NEW i \in Invoice, invoice'[i] # invoice[i]
  PROVE \/ invoice[i].status = "NONE" /\ invoice'[i].status = "DRAFT"
        \/ invoice[i].status = "DRAFT" /\ invoice'[i].status \in {"DRAFT", "DELETED"}
        \/ /\ invoice[i].status = "ISSUED" /\ invoice'[i].status = "VOID"
           /\ invoice'[i].manifest = invoice[i].manifest
        \/ /\ invoice[i].status = "DRAFT"
           /\ invoice'[i] = [invoice[i] EXCEPT !.status = "ISSUED"]
           /\ \E s \in Session : pc[s] = "issuing" /\ job[s].on = i /\ job[s].fresh
<1>0. invoice \in [Invoice -> Document] BY DEF IInv, TypeOK
<1>1. ASSUME NEW k \in Invoice, NEW lists \in SUBSET List, NEW first \in lists,
             CreateDraft(k, lists, first)
      PROVE invoice[i].status = "NONE" /\ invoice'[i].status = "DRAFT"
  BY <1>0, <1>1 DEF CreateDraft
<1>2. ASSUME NEW s \in Session, RebuildWrite(s)
      PROVE invoice[i].status = "DRAFT" /\ invoice'[i].status = "DRAFT"
  BY <1>0, <1>2 DEF RebuildWrite, StillDraft, Document
<1>3. ASSUME NEW s \in Session, IssueCommit(s)
      PROVE /\ invoice[i].status = "DRAFT"
            /\ invoice'[i] = [invoice[i] EXCEPT !.status = "ISSUED"]
            /\ pc[s] = "issuing" /\ job[s].on = i /\ job[s].fresh
  BY <1>0, <1>3 DEF IssueCommit, AsLoaded, StillDraft
<1>4. ASSUME NEW k \in Invoice, VoidInvoice(k)
      PROVE /\ invoice[i].status = "ISSUED" /\ invoice'[i].status = "VOID"
            /\ invoice'[i].manifest = invoice[i].manifest
  BY <1>0, <1>4 DEF VoidInvoice, Dispose, Document
<1>5. ASSUME NEW k \in Invoice, DeleteDraft(k)
      PROVE invoice[i].status = "DRAFT" /\ invoice'[i].status = "DELETED"
  BY <1>0, <1>5 DEF DeleteDraft, Dispose, NoInvoice
<1> QED
  BY ZenonT(30), <1>1, <1>2, <1>3, <1>4, <1>5
  DEF Next, AddCheck, AddCommit, EditCheck, EditLock, EditCommit, SetMatrix, ApproveCheck,
      ApproveWrite, ReopenCheck, ReopenWrite, EditDraft, RebuildRead, IssueCheck, IssueLock

\* An issued invoice is only ever voided, and keeps its manifest, whatever requests
\* began while it was a draft.
THEOREM IssuedStaysRecord == Spec => IssuedIsRecord
<1>1. ASSUME IInv, [Next]_vars, NEW i \in Invoice, invoice[i].status \in {"ISSUED", "VOID"}
      PROVE /\ invoice'[i].status \in {"ISSUED", "VOID"}
            /\ invoice[i].status = "VOID" => invoice'[i].status = "VOID"
            /\ invoice'[i].manifest = invoice[i].manifest
  <2>1. CASE invoice'[i] = invoice[i] BY <1>1, <2>1
  <2>2. CASE invoice'[i] # invoice[i] /\ Next BY <1>1, <2>2, InvoiceWrites
  <2> QED BY <1>1, <2>1, <2>2 DEF vars
<1>2. IInv /\ [Next]_vars =>
        [\A i \in Invoice : invoice[i].status \in {"ISSUED", "VOID"} =>
           /\ invoice'[i].status \in {"ISSUED", "VOID"}
           /\ invoice[i].status = "VOID" => invoice'[i].status = "VOID"
           /\ invoice'[i].manifest = invoice[i].manifest]_vars
  BY <1>1
<1> QED BY <1>2, Invariance, PTL DEF Spec, IssuedIsRecord

\* The invoice that becomes a record says what it said when its request found it to
\* match the cartons.
THEOREM WhatIsIssuedWasChecked == Spec => IssuedAsChecked
<1>1. ASSUME IInv, [Next]_vars, NEW i \in Invoice,
             invoice[i].status # "ISSUED", invoice'[i].status = "ISSUED"
      PROVE \E s \in Session : /\ pc[s] = "issuing" /\ job[s].on = i
                               /\ job[s].manifest = invoice'[i].manifest
  <2>1. Next /\ invoice'[i] # invoice[i] BY <1>1 DEF vars
  <2>2. PICK s \in Session : /\ pc[s] = "issuing" /\ job[s].on = i /\ job[s].fresh
                             /\ invoice'[i] = [invoice[i] EXCEPT !.status = "ISSUED"]
    BY <1>1, <2>1, InvoiceWrites
  <2>3. job[s].manifest = invoice[i].manifest BY <1>1, <2>2 DEF IInv, FreshIsCurrent
  <2>4. invoice'[i].manifest = invoice[i].manifest
    BY <1>1, <2>2 DEF IInv, TypeOK, Document
  <2> QED BY <2>2, <2>3, <2>4
<1>2. IInv /\ [Next]_vars =>
        [\A i \in Invoice : invoice[i].status # "ISSUED" /\ invoice'[i].status = "ISSUED" =>
           \E s \in Session : /\ pc[s] = "issuing" /\ job[s].on = i
                              /\ job[s].manifest = invoice'[i].manifest]_vars
  BY <1>1
<1> QED BY <1>2, Invariance, PTL DEF Spec, IssuedAsChecked

\* The packed ledger is the sum of the cartons, in every cell nobody has typed over,
\* however the adds, edits and removals of any number of people overlap.
THEOREM LedgerIsTheSum == Spec => []LedgerFollowsCartons
<1>1. Init => Ledger BY LedgerInit
<1>2. TypeOK /\ TypeOK' /\ Ledger /\ [Next]_vars => Ledger' BY LedgerStep
<1>3. Ledger => LedgerFollowsCartons BY DEF Ledger
<1> QED BY <1>1, <1>2, <1>3, TypeCorrect, PTL DEF Spec

=============================================================================

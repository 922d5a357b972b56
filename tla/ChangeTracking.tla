--------------------------- MODULE ChangeTracking ---------------------------
(***************************************************************************)
(* How a change comes to be recorded and announced:                         *)
(* middleware/audit-middleware.ts, request-context.ts,                      *)
(* services/change-fold.ts and services/change-service.ts.                  *)
(*                                                                          *)
(* Requests run transactions.  Around a create, update or delete of one row *)
(* the middleware reads the row on the base client, lets the write run,     *)
(* puts a draft on the request's collector and writes an audit row outside  *)
(* the transaction; every other write goes past it.                         *)
(* Once the request is answered its drafts are folded, and each folded      *)
(* change becomes an event, notifications and an email.  A transaction may  *)
(* be rolled back and run again; what it collected stays.                   *)
(*                                                                          *)
(* A record is one column of a row of a watched, announced model.           *)
(***************************************************************************)
EXTENDS Naturals, Sequences, FiniteSets

CONSTANTS
  Request,
  Record,      \* those there are, and the ids to be given out
  Value,
  Absent,      \* what a record that is not there holds
  Start,       \* what each record holds at first
  Lifecycle,   \* those whose coming and going is audited too: accounts and roles
  MaxTx,       \* bound, per request: its transactions, runs again included
  MaxWrites,   \* bound, per request: its writes
  MaxFaults    \* bound: stops of the server, and statements beside the request that fail

ASSUME RecordAssumption ==
  Record # {} /\ Absent \notin Value /\ Start \in [Record -> Value \cup {Absent}]
  /\ Lifecycle \subseteq Record
ASSUME BoundAssumption ==
  MaxTx \in [Request -> Nat] /\ MaxWrites \in [Request -> Nat] /\ MaxFaults \in Nat

VARIABLES
  value,     \* what is committed
  born,      \* ids given out, kept or not
  trail,     \* audit_trail
  events,    \* per request: the change events written for it
  mailed,    \* per request: how many of its events have been handed to the email queue
  pc,        \* per request: where it is
  tx,        \* what its transaction has written and not committed
  op,        \* the update or deletion in progress, and the row as read before it
  drafts,    \* its collector
  todo,      \* folded changes still to announce
  commits,   \* history, per request: what each commit wrote, and over what
  undone,    \* history: <<request, record>> written by a transaction that was rolled back
  misread,   \* history: <<request, record>> whose row before was not read, or not the row replaced
  past,      \* history: <<request, record>> written past the middleware
  unaudited, \* history: <<request, record>> whose audit row was lost
  untold,    \* history: <<request, record, action>> whose announcing a fault cut short
  runs, writes, faults   \* history: what the bounds count

db == <<value, born, trail>>
news == <<events, mailed>>
request == <<tx, op, drafts>>
history == <<commits, undone, misread, past, unaudited, untold>>
counts == <<runs, writes, faults>>
vars == <<db, news, pc, request, todo, history, counts>>

-----------------------------------------------------------------------------
Nothing == [x \in {} |-> Absent]

Held == Value \cup {Absent}

Action == {"CREATE", "UPDATE", "DELETE"}

Change == [rec : Record, action : {"CREATE"}, old : {Absent}, new : Value]
          \cup [rec : Record, action : {"UPDATE"}, old : Value, new : Value]
          \cup [rec : Record, action : {"DELETE"}, old : Value, new : {Absent}]

NoOp == [rec |-> CHOOSE y \in Record : TRUE, new |-> Absent, before |-> Absent, then |-> Absent]

Places == {"idle", "open", "write", "between", "rolled", "failed", "flush", "notify", "mail"}

Goto(r, from, to) == pc[r] = from /\ pc' = [pc EXCEPT ![r] = to]

Fault == faults < MaxFaults /\ faults' = faults + 1

\* The row as the transaction of r sees it.
Current(r, x) == IF x \in DOMAIN tx[r] THEN tx[r][x] ELSE value[x]

Writing(r, x, v) ==
  /\ tx' = [tx EXCEPT ![r] = [y \in DOMAIN tx[r] \cup {x} |-> IF y = x THEN v ELSE tx[r][y]]]
  /\ writes' = [writes EXCEPT ![r] = @ + 1]

Collect(r, draft) == drafts' = [drafts EXCEPT ![r] = Append(@, draft)]

Undoing(r) == {<<r, x>> : x \in DOMAIN tx[r]}

-----------------------------------------------------------------------------
(* A request at work *)

Open(r) ==
  /\ pc[r] \in {"idle", "between", "rolled"} /\ runs[r] < MaxTx[r]
  /\ pc' = [pc EXCEPT ![r] = "open"]
  /\ runs' = [runs EXCEPT ![r] = @ + 1]
  /\ UNCHANGED <<db, news, request, todo, history, writes, faults>>

\* An id that was never given out is, and never will be again.
GiveOut(x) == x \notin born /\ Start[x] = Absent /\ born' = born \cup {x}

\* An update is audited, a creation or deletion only of an account or a role.
Recorded(draft) == draft.action = "UPDATE" \/ draft.rec \in Lifecycle

\* The audit row, written on its own and at once, or lost.
AuditRow(r, draft) ==
  IF Recorded(draft)
  THEN \/ /\ trail' = trail \cup {[by |-> r, was |-> draft]}
          /\ UNCHANGED <<faults, unaudited>>
       \/ /\ Fault /\ unaudited' = unaudited \cup {<<r, draft.rec>>}
          /\ UNCHANGED trail
  ELSE UNCHANGED <<trail, faults, unaudited>>

\* The row is written, then audited and its draft collected.
CreateRecord(r, x, v) ==
  LET draft == [rec |-> x, action |-> "CREATE", old |-> Absent, new |-> v] IN
  /\ pc[r] = "open" /\ writes[r] < MaxWrites[r]
  /\ GiveOut(x)
  /\ Writing(r, x, v)
  /\ Collect(r, draft) /\ AuditRow(r, draft)
  /\ UNCHANGED <<value, news, pc, op, todo, commits, undone, misread, past, untold, runs>>

\* No other transaction holds the row.
Lockable(r, x) == \A q \in Request \ {r} : x \notin DOMAIN tx[q]

\* updateMany, deleteMany, createMany, upsert and nested writes: neither read, audited
\* nor collected.
BulkWrite(r, x, new) ==
  /\ pc[r] = "open" /\ writes[r] < MaxWrites[r]
  /\ \/ Current(r, x) # Absent /\ Lockable(r, x) /\ UNCHANGED born
     \/ new # Absent /\ GiveOut(x)
  /\ Writing(r, x, new)
  /\ past' = past \cup {<<r, x>>}
  /\ UNCHANGED <<value, trail, news, pc, op, drafts, todo, commits, undone, misread,
                 unaudited, untold, runs, faults>>

\* Mutant of Before: the row is read once it has been written.
BeforeAsWritten(r, x, new) == IF new = Absent THEN value[x] ELSE new

\* findBefore: on the base client, so what is committed.
Before(r, x, new) == value[x]

\* The row is read before the write, or cannot be, which reads as no row.
UpdateBefore(r, x, new) ==
  /\ Goto(r, "open", "write") /\ writes[r] < MaxWrites[r]
  /\ Current(r, x) # Absent
  /\ \/ /\ op' = [op EXCEPT ![r] = [rec |-> x, new |-> new, before |-> Before(r, x, new),
                                    then |-> value[x]]]
        /\ UNCHANGED <<faults, misread>>
     \/ /\ Fault
        /\ op' = [op EXCEPT ![r] = [rec |-> x, new |-> new, before |-> Absent, then |-> value[x]]]
        /\ misread' = misread \cup {<<r, x>>}
  /\ UNCHANGED <<db, news, tx, drafts, todo, commits, undone, past, unaudited, untold,
                 runs, writes>>

\* Mutant of Differs: a row that was not found differs too.
DiffersFromNone(o) == o.before # o.new

\* There was a row, and the column differs from it.
Differs(o) == o.before # Absent /\ o.before # o.new

Draft(o) ==
  [rec |-> o.rec, action |-> IF o.new = Absent THEN "DELETE" ELSE "UPDATE",
   old |-> o.before, new |-> o.new]

\* The update or deletion, once no other transaction holds the row.
UpdateWrite(r) ==
  LET o == op[r] IN
  /\ Goto(r, "write", "open")
  /\ Lockable(r, o.rec) /\ Current(r, o.rec) # Absent
  /\ Writing(r, o.rec, o.new)
  /\ misread' = IF o.then = Current(r, o.rec) THEN misread ELSE misread \cup {<<r, o.rec>>}
  /\ IF Differs(o) THEN Collect(r, Draft(o)) /\ AuditRow(r, Draft(o))
     ELSE UNCHANGED <<drafts, trail, faults, unaudited>>
  /\ op' = [op EXCEPT ![r] = NoOp]
  /\ UNCHANGED <<value, born, news, todo, commits, undone, past, untold, runs>>

Commit(r) ==
  /\ Goto(r, "open", "between") /\ DOMAIN tx[r] # {}
  /\ value' = [x \in Record |-> IF x \in DOMAIN tx[r] THEN tx[r][x] ELSE value[x]]
  /\ commits' = [commits EXCEPT ![r] = Append(@, [over |-> value, wrote |-> tx[r]])]
  /\ tx' = [tx EXCEPT ![r] = Nothing]
  /\ UNCHANGED <<born, trail, news, op, drafts, todo, undone, misread, past,
                 unaudited, untold, counts>>

\* A conflict, a deadlock, a row that is gone, a check that fails: the transaction is
\* undone, and what it collected is not.
Rollback(r) ==
  /\ pc[r] \in {"open", "write"}
  /\ pc' = [pc EXCEPT ![r] = "rolled"]
  /\ tx' = [tx EXCEPT ![r] = Nothing]
  /\ undone' = undone \cup Undoing(r)
  /\ op' = [op EXCEPT ![r] = NoOp]
  /\ UNCHANGED <<db, news, drafts, todo, commits, misread, past, unaudited, untold, counts>>

-----------------------------------------------------------------------------
(* The answer: the finish listener and foldChanges *)

\* Mutant of Folded: every draft is a change.
FoldedNot(d) == {d[i] : i \in DOMAIN d}

\* Mutant of Folded: the column as it was first written.
FoldedFirst(d) ==
  {d[i] : i \in {k \in DOMAIN d :
                   \A j \in DOMAIN d : d[j].rec = d[k].rec /\ d[j].action = d[k].action => k <= j}}

\* Drafts of one change, i the first and j the last of them.
Ends(d, i, j) ==
  LET same(k) == d[k].rec = d[i].rec /\ d[k].action = d[i].action
  IN  same(j) /\ \A k \in DOMAIN d : same(k) => i <= k /\ k <= j

\* One change per record and kind: the first value before, the last one after.
Folded(d) ==
  {[d[p[1]] EXCEPT !.new = d[p[2]].new] :
     p \in {ij \in (DOMAIN d) \X (DOMAIN d) : Ends(d, ij[1], ij[2])}}

\* Answered with success, even if the last transaction failed: a bulk operation goes on
\* to its next line.
Succeed(r) ==
  /\ pc[r] \in {"between", "rolled"}
  /\ pc' = [pc EXCEPT ![r] = "flush"]
  /\ todo' = [todo EXCEPT ![r] = Folded(drafts[r])]
  /\ UNCHANGED <<db, news, request, history, counts>>

\* Nothing is announced of a request that failed, whatever it had committed.
Fail(r) ==
  /\ pc[r] \in {"between", "rolled"}
  /\ pc' = [pc EXCEPT ![r] = "failed"]
  /\ UNCHANGED <<db, news, request, todo, history, counts>>

-----------------------------------------------------------------------------
(* recordChanges, for somebody is always told: one change after another *)

WriteEvent(r, c) ==
  /\ Goto(r, "flush", "notify") /\ c \in todo[r]
  /\ todo' = [todo EXCEPT ![r] = @ \ {c}]
  /\ events' = [events EXCEPT ![r] = Append(@, c)]
  /\ UNCHANGED <<db, mailed, request, history, counts>>

\* Mutant of Others: the loop is left.
OthersLeft(r, c) == {}

\* What is still announced when the event of c could not be written.
Others(r, c) == todo[r] \ {c}

Silenced(r, changes) == {<<r, c.rec, c.action>> : c \in changes}

\* The event cannot be written: the change is passed over.
EventFails(r, c) ==
  /\ pc[r] = "flush" /\ c \in todo[r] /\ Fault
  /\ todo' = [todo EXCEPT ![r] = Others(r, c)]
  /\ untold' = untold \cup Silenced(r, {c})
  /\ UNCHANGED <<db, news, pc, request, commits, undone, misread, past, unaudited, runs, writes>>

\* The notifications, written or not: the email goes on all the same.
Notify(r) ==
  /\ Goto(r, "notify", "mail")
  /\ UNCHANGED <<db, news, request, todo, history, counts>>

Mail(r) ==
  /\ Goto(r, "mail", "flush")
  /\ mailed' = [mailed EXCEPT ![r] = @ + 1]
  /\ UNCHANGED <<db, events, request, todo, history, counts>>

\* The change being announced, if its event is written.
InHand(r) == IF pc[r] \in {"notify", "mail"} THEN {events[r][Len(events[r])]} ELSE {}

\* Looking up whom to tell fails: the request's other changes go with it.
RouteFails(r) ==
  /\ \/ pc[r] = "flush" /\ todo[r] # {}
     \/ pc[r] \in {"notify", "mail"}
  /\ pc' = [pc EXCEPT ![r] = "flush"]
  /\ todo' = [todo EXCEPT ![r] = {}]
  /\ untold' = untold \cup Silenced(r, todo[r] \cup InHand(r))
  /\ Fault
  /\ UNCHANGED <<db, news, request, commits, undone, misread, past, unaudited, runs, writes>>

Busy(r) == ~(pc[r] \in {"idle", "failed"} \/ (pc[r] = "flush" /\ todo[r] = {}))

\* The server stops: transactions are undone, and what was not announced never will be.
Crash ==
  /\ Fault /\ \E r \in Request : Busy(r)
  /\ pc' = [r \in Request |-> IF Busy(r) THEN "failed" ELSE pc[r]]
  /\ untold' = untold \cup UNION {Silenced(r, todo[r] \cup InHand(r)) : r \in Request}
  /\ tx' = [r \in Request |-> Nothing]
  /\ undone' = undone \cup UNION {Undoing(r) : r \in Request}
  /\ todo' = [r \in Request |-> {}]
  /\ op' = [r \in Request |-> NoOp]
  /\ UNCHANGED <<db, news, drafts, commits, misread, past, unaudited, runs, writes>>

-----------------------------------------------------------------------------
Init ==
  /\ value = Start
  /\ born = {} /\ trail = {}
  /\ events = [r \in Request |-> <<>>] /\ mailed = [r \in Request |-> 0]
  /\ pc = [r \in Request |-> "idle"] /\ tx = [r \in Request |-> Nothing]
  /\ op = [r \in Request |-> NoOp] /\ drafts = [r \in Request |-> <<>>]
  /\ todo = [r \in Request |-> {}]
  /\ commits = [r \in Request |-> <<>>] /\ undone = {} /\ misread = {}
  /\ past = {} /\ unaudited = {} /\ untold = {}
  /\ runs = [r \in Request |-> 0] /\ writes = [r \in Request |-> 0] /\ faults = 0

Work(r) ==
  \/ Open(r) \/ UpdateWrite(r) \/ Commit(r) \/ Rollback(r) \/ Succeed(r) \/ Fail(r)
  \/ \E x \in Record, v \in Value : CreateRecord(r, x, v)
  \/ \E x \in Record, new \in Held : UpdateBefore(r, x, new) \/ BulkWrite(r, x, new)

Announce(r) == (\E c \in todo[r] : WriteEvent(r, c)) \/ Notify(r) \/ Mail(r)

Spoil(r) == RouteFails(r) \/ \E c \in todo[r] : EventFails(r, c)

Next == Crash \/ \E r \in Request : Work(r) \/ Announce(r) \/ Spoil(r)

Spec == Init /\ [][Next]_vars

-----------------------------------------------------------------------------
(* What it promises *)

TypeOK ==
  /\ value \in [Record -> Held]
  /\ born \subseteq {x \in Record : Start[x] = Absent}
  /\ trail \subseteq [by : Request, was : Change]
  /\ events \in [Request -> Seq(Change)] /\ drafts \in [Request -> Seq(Change)]
  /\ mailed \in [Request -> Nat]
  /\ pc \in [Request -> Places]
  /\ todo \in [Request -> SUBSET Change]
  /\ op \in [Request -> [rec : Record, new : Held, before : Held, then : Held]]
  /\ \A r \in Request : DOMAIN tx[r] \subseteq Record
  /\ undone \cup misread \cup past \cup unaudited \subseteq Request \X Record
  /\ untold \subseteq Request \X Record \X Action

\* What a commit did to a record.
Kind(c, x) ==
  IF c.over[x] = c.wrote[x] THEN "NONE"
  ELSE IF c.over[x] = Absent THEN "CREATE"
  ELSE IF c.wrote[x] = Absent THEN "DELETE" ELSE "UPDATE"

Did(r, x, action) ==
  {i \in DOMAIN commits[r] : x \in DOMAIN commits[r][i].wrote /\ Kind(commits[r][i], x) = action}

Real(r, e) ==
  LET did == Did(r, e.rec, e.action) IN
  \E i, j \in did : /\ \A k \in did : i <= k /\ k <= j
                    /\ commits[r][i].over[e.rec] = e.old /\ commits[r][j].wrote[e.rec] = e.new

\* An event says what its request really did to the record, from the first value to the
\* last, unless a transaction that wrote it was rolled back, or the row was another's, or
\* the transaction's own, between the reading and the write, or the request also wrote it
\* past the middleware (findBefore, foldChanges).
NewsIsTrue ==
  \A r \in Request : \A n \in DOMAIN events[r] :
    \/ <<r, events[r][n].rec>> \in undone \cup misread \cup past
    \/ Real(r, events[r][n])

\* However often a request wrote a record, and however often its transaction was run
\* again, the record is news once for each kind of change (foldChanges).
ToldOnce ==
  \A r \in Request : \A m, n \in DOMAIN events[r] :
    m # n => \/ events[r][m].rec # events[r][n].rec
             \/ events[r][m].action # events[r][n].action

Audited(r, i, x) ==
  \E t \in trail : /\ t.by = r /\ t.was.rec = x
                   /\ t.was.old = commits[r][i].over[x] /\ t.was.new = commits[r][i].wrote[x]

\* What of a record is to be found in the audit trail.
Kept(x) == IF x \in Lifecycle THEN Action ELSE {"UPDATE"}

\* Every committed update, and every creation and deletion of an account or a role, has
\* its audit row, with the value it replaced, unless the row was misread, its audit row
\* was lost, or the request wrote it past the middleware (auditMiddleware).
TrailIsComplete ==
  \A r \in Request, x \in Record : \A action \in Kept(x) : \A i \in Did(r, x, action) :
    <<r, x>> \in misread \cup unaudited \cup past \/ Audited(r, i, x)

Told(r, x, action) ==
  \E n \in 1 .. mailed[r] : events[r][n].rec = x /\ events[r][n].action = action

\* Each kind of change that request r committed has been announced and mailed, but those
\* to a row misread or written past the middleware, and those a fault befell themselves.
AllTold(r) ==
  \A x \in Record, action \in Action :
    Did(r, x, action) # {} =>
      <<r, x>> \in misread \cup past \/ <<r, x, action>> \in untold \/ Told(r, x, action)

\* Once a successful request's changes are through, all it committed has been announced: a
\* fault in writing an event costs that change alone.  Looking up whom to tell is not so
\* guarded: it costs the change it befell and the rest (flushChanges, recordChanges).
AllAnnounced == \A r \in Request : pc[r] = "flush" /\ todo[r] = {} => AllTold(r)

=============================================================================

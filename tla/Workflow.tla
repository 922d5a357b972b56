------------------------------ MODULE Workflow ------------------------------
(***************************************************************************)
(* The tasks of one order: starting, completing, reopening, the tasks that  *)
(* complete themselves (services/workflow-service.ts, routes/tasks.ts) and  *)
(* the corrective action of a failed audit, which is a task and a flag on   *)
(* the audit at once (routes/quality.ts).                                   *)
(*                                                                          *)
(* Transactions are Read Committed: a statement sees what has been committed *)
(* and its own transaction's writes, and waits for the row locks it needs.  *)
(* A completion reads and checks outside its transaction; then, in it, it   *)
(* locks the task, updates the audit, releases the next group and tells it, *)
(* and nobody sees any of that before the commit.  Every other write is a   *)
(* statement of its own, made on what an earlier statement read.            *)
(***************************************************************************)
EXTENDS Integers, FiniteSets

CONSTANTS
  Actor,           \* people, and the server completing tasks by itself
  Task,
  Group,           \* sequence numbers
  Sequence,        \* the group of each task
  SelfCompleting,  \* tasks whose data tells the system they are done
  Audit,
  SourceAudit,     \* the audit whose corrective action a task is, or NoAudit
  NoAudit,
  Nobody

ASSUME GroupAssumption == Group = 1..Cardinality(Group) /\ Sequence \in [Task -> Group]
ASSUME AuditAssumption ==
  /\ NoAudit \notin Audit /\ SourceAudit \in [Task -> Audit \cup {NoAudit}]
  /\ Nobody \notin Actor
\* A corrective action has no template, and only a template names a task that completes
\* itself.
ASSUME SelfCompletingAssumption == \A t \in SelfCompleting : t \in Task /\ SourceAudit[t] = NoAudit

VARIABLES
  status,       \* tasks.status; a corrective action does not exist before its audit
  completions,  \* history: how often the task was completed since it last was open
  audit,        \* none yet, its corrective action open, or closed
  told,         \* groups told it is their turn, since the group before was last open
  reopened,     \* tasks whose reopening is in the activity log
  lock,         \* the session holding each row, tasks and audits
  stage,        \* per session: where in its request it is
  request       \* what it works on, the status it will write, and what its
                \* transaction has released and whom it will tell

tables == <<status, completions, audit, told, reopened>>
tasksVars == <<tables, lock, stage, request>>

\* OPEN stands for NOT_STARTED, IN_PROGRESS and WAITING: nothing here tells one
\* from another.
TaskStatus == {"OPEN", "BLOCKED", "COMPLETED"}

InGroup(g) == {t \in Task : Sequence[t] = g /\ status[t] # "ABSENT"}

Open(g) == {t \in InGroup(g) : status[t] # "COMPLETED"}

\* assertTaskCompletable: the group before is done; a corrective action waits for
\* none.  (What data a task needs is left open: a completion it refuses is one
\* that is not attempted.)
Completable(t) == SourceAudit[t] = NoAudit => Open(Sequence[t] - 1) = {}

-----------------------------------------------------------------------------
(* Requests, rows and locks. *)

NoRequest == [on |-> NoAudit, to |-> "OPEN", freed |-> {}, tell |-> {}]

Free(x) == lock[x] = Nobody

\* Mutant of Unlocked: a transaction that ends leaves its rows locked.
LeftLocked(p, rows) == [x \in DOMAIN lock |-> IF x \in rows THEN p ELSE lock[x]]

\* The locks once p has let go of all it holds and taken these.
Unlocked(p, rows) ==
  [x \in DOMAIN lock |-> IF x \in rows THEN p ELSE IF lock[x] = p THEN Nobody ELSE lock[x]]

BeginRequest(p, where, x, s) ==
  /\ stage[p] = "idle"
  /\ stage' = [stage EXCEPT ![p] = where]
  /\ request' = [request EXCEPT ![p] = [NoRequest EXCEPT !.on = x, !.to = s]]

Goto(p, from, where) == stage[p] = from /\ stage' = [stage EXCEPT ![p] = where]

\* p takes these rows as well.
Lock(p, rows) == lock' = [x \in DOMAIN lock |-> IF x \in rows THEN p ELSE lock[x]]

\* The request is answered: its locks go with it.
Answer(p) ==
  /\ stage' = [stage EXCEPT ![p] = "idle"]
  /\ request' = [request EXCEPT ![p] = NoRequest]
  /\ lock' = Unlocked(p, {})

\* These tasks become complete.
Complete(done) ==
  completions' = [t \in Task |-> IF t \in done THEN completions[t] + 1 ELSE completions[t]]

\* This one is open, or blocked, and so its group is to be finished again.
SetStatus(t, s) ==
  /\ status' = [status EXCEPT ![t] = s]
  /\ completions' = [completions EXCEPT ![t] = 0]
  /\ told' = told \ {Sequence[t] + 1}

-----------------------------------------------------------------------------
(* completeTask *)

CompleteCheck(p, t) ==
  /\ status[t] \notin {"ABSENT", "COMPLETED"}
  /\ Completable(t)
  /\ BeginRequest(p, "checked", t, "COMPLETED")
  /\ UNCHANGED <<tables, lock>>

\* Mutant of CompleteLock: the status is not read again under the lock.
CompleteLockUnread(p) ==
  /\ Goto(p, "checked", "locked") /\ Free(request[p].on)
  /\ Lock(p, {request[p].on})
  /\ UNCHANGED <<tables, request>>

\* SELECT ... FOR UPDATE, the status read again, and the update.
CompleteLock(p) ==
  LET t == request[p].on
  IN  /\ stage[p] = "checked" /\ Free(t)
      /\ IF status[t] = "COMPLETED"
         THEN Answer(p)
         ELSE Goto(p, "checked", "locked") /\ Lock(p, {t}) /\ UNCHANGED request
      /\ UNCHANGED tables

\* Mutant of AuditsOf: completing the task leaves the audit as it is.
NoAudits(t) == {}

\* The audits whose corrective action is this task.
AuditsOf(t) == {SourceAudit[t]} \ {NoAudit}

CompleteAudit(p) ==
  /\ Goto(p, "locked", "audited")
  /\ LET rows == {a \in AuditsOf(request[p].on) : audit[a] = "open"}
     IN  (\A a \in rows : Free(a)) /\ Lock(p, rows)
  /\ UNCHANGED <<tables, request>>

\* unblockDependents: what the next group has waiting, once this group is done.
Dependents(t, done) ==
  IF Open(Sequence[t]) \subseteq done
  THEN {d \in InGroup(Sequence[t] + 1) : status[d] = "BLOCKED"}
  ELSE {}

CompleteUnblock(p) ==
  /\ Goto(p, "audited", "released")
  /\ LET rows == Dependents(request[p].on, {request[p].on})
     IN  /\ \A t \in rows : Free(t)
         /\ Lock(p, rows)
         /\ request' = [request EXCEPT ![p].freed = rows]
  /\ UNCHANGED tables

\* Mutant of NextUp: a next group is told whether or not there is one.
NextUpRegardless(t, done) ==
  IF Open(Sequence[t]) \subseteq done THEN {Sequence[t] + 1} ELSE {}

\* notifyNextGroup: the group to tell, if this one is done and that has work.
NextUp(t, done) ==
  IF Open(Sequence[t]) \subseteq done /\ Open(Sequence[t] + 1) # {}
  THEN {Sequence[t] + 1} ELSE {}

CompleteNotify(p) ==
  /\ Goto(p, "released", "notified")
  /\ request' = [request EXCEPT ![p].tell = NextUp(request[p].on, {request[p].on})]
  /\ UNCHANGED <<tables, lock>>

\* The commit: everything becomes visible.
CompleteCommit(p) ==
  LET t == request[p].on
  IN  /\ stage[p] = "notified"
      /\ status' = [x \in Task |-> IF x = t THEN "COMPLETED"
                                   ELSE IF x \in request[p].freed THEN "OPEN" ELSE status[x]]
      /\ Complete({t})
      /\ audit' = [a \in Audit |-> IF a \in AuditsOf(t) THEN "closed" ELSE audit[a]]
      /\ told' = told \cup request[p].tell
      /\ Answer(p)
      /\ UNCHANGED reopened

-----------------------------------------------------------------------------
(* startTask and PATCH: a status read, checked, and overwritten.            *)

SetStatusRead(p, t, s) ==
  /\ status[t] \notin {"ABSENT", "COMPLETED"}
  /\ BeginRequest(p, "status", t, s)
  /\ UNCHANGED <<tables, lock>>

SetStatusWrite(p) ==
  /\ stage[p] = "status" /\ Free(request[p].on)
  /\ SetStatus(request[p].on, request[p].to)
  /\ Answer(p)
  /\ UNCHANGED <<audit, reopened>>

\* Reopening: the task first, then the activity log that keeps the system from
\* completing it again.
Reopen(p, t) ==
  /\ status[t] # "ABSENT" /\ Free(t)
  /\ BeginRequest(p, "reopened", t, "OPEN")
  /\ SetStatus(t, "OPEN")
  /\ UNCHANGED <<audit, reopened, lock>>

ReopenLog(p) ==
  /\ stage[p] = "reopened"
  /\ reopened' = reopened \cup {request[p].on}
  /\ Answer(p)
  /\ UNCHANGED <<status, completions, audit, told>>

-----------------------------------------------------------------------------
(* autoCompleteTasks, one task: each statement stands alone.                *)

AutoRead(p, t) ==
  /\ t \in SelfCompleting \ reopened
  /\ status[t] \notin {"ABSENT", "COMPLETED"}
  /\ BeginRequest(p, "autoRead", t, "COMPLETED")
  /\ UNCHANGED <<tables, lock>>

AutoCheck(p) ==
  /\ stage[p] = "autoRead"
  /\ IF Completable(request[p].on)
     THEN Goto(p, "autoRead", "auto") /\ UNCHANGED <<request, lock>>
     ELSE Answer(p)
  /\ UNCHANGED tables

\* Its update is conditional on the task being open still.
AutoWrite(p) ==
  LET t == request[p].on
  IN  /\ stage[p] = "auto" /\ Free(t)
      /\ IF status[t] = "COMPLETED"
         THEN Answer(p) /\ UNCHANGED <<status, completions>>
         ELSE /\ Goto(p, "auto", "autoDone")
              /\ status' = [status EXCEPT ![t] = "COMPLETED"]
              /\ Complete({t})
              /\ UNCHANGED <<request, lock>>
      /\ UNCHANGED <<audit, told, reopened>>

AutoUnblock(p) ==
  /\ Goto(p, "autoDone", "autoNext")
  /\ LET rows == Dependents(request[p].on, {})
     IN  /\ \A t \in rows : Free(t)
         /\ status' = [t \in Task |-> IF t \in rows THEN "OPEN" ELSE status[t]]
  /\ UNCHANGED <<completions, audit, told, reopened, lock, request>>

AutoNotify(p) ==
  /\ stage[p] = "autoNext"
  /\ told' = told \cup NextUp(request[p].on, {})
  /\ Answer(p)
  /\ UNCHANGED <<status, completions, audit, reopened>>

-----------------------------------------------------------------------------
(* Quality *)

\* A failed audit and its corrective-action task, in one transaction.
FailAudit(a) ==
  LET tasks == {t \in Task : SourceAudit[t] = a}
  IN  /\ audit[a] = "none"
      /\ audit' = [audit EXCEPT ![a] = "open"]
      /\ status' = [t \in Task |-> IF t \in tasks THEN "OPEN" ELSE status[t]]
      /\ told' = told \ {Sequence[t] + 1 : t \in tasks}
      /\ UNCHANGED <<completions, reopened, lock, stage, request>>

\* Closing it from the Quality tab: the audit first, ...
CloseAudit(p, a) ==
  /\ audit[a] # "none" /\ Free(a)
  /\ BeginRequest(p, "closing", a, "COMPLETED")
  /\ Lock(p, {a})
  /\ UNCHANGED tables

\* ... then its open tasks, and the commit.
CloseTasks(p) ==
  LET rows == {t \in Task : SourceAudit[t] = request[p].on /\ status[t] # "COMPLETED"}
  IN  /\ stage[p] = "closing"
      /\ \A t \in rows : Free(t)
      /\ audit' = [audit EXCEPT ![request[p].on] = "closed"]
      /\ status' = [t \in Task |-> IF t \in rows THEN "COMPLETED" ELSE status[t]]
      /\ Complete(rows)
      /\ Answer(p)
      /\ UNCHANGED <<told, reopened>>

\* A completion and a closing, each waiting for the other's row: PostgreSQL
\* rolls one of them back.
Deadlocked(p, q) ==
  /\ stage[p] = "locked" /\ stage[q] = "closing"
  /\ SourceAudit[request[p].on] = request[q].on /\ audit[request[q].on] = "open"

Abort(p) ==
  /\ \E q \in Actor : Deadlocked(p, q) \/ Deadlocked(q, p)
  /\ Answer(p)
  /\ UNCHANGED tables

-----------------------------------------------------------------------------
TasksInit ==
  /\ status = [t \in Task |-> IF SourceAudit[t] = NoAudit THEN "OPEN" ELSE "ABSENT"]
  /\ completions = [t \in Task |-> 0]     /\ audit = [a \in Audit |-> "none"]
  /\ told = {}                            /\ reopened = {}
  /\ lock = [x \in Task \cup Audit |-> Nobody]
  /\ stage = [p \in Actor |-> "idle"]      /\ request = [p \in Actor |-> NoRequest]

\* Someone asks for something.
Ask(p) ==
  \/ \E t \in Task :
       \/ CompleteCheck(p, t) \/ Reopen(p, t) \/ AutoRead(p, t)
       \/ \E s \in TaskStatus \ {"COMPLETED"} : SetStatusRead(p, t, s)
  \/ \E a \in Audit : CloseAudit(p, a)

\* What the server does of it without being asked again.
Serve(p) ==
  \/ CompleteLock(p) \/ CompleteAudit(p) \/ CompleteUnblock(p)
  \/ CompleteNotify(p) \/ CompleteCommit(p)
  \/ SetStatusWrite(p) \/ ReopenLog(p) \/ CloseTasks(p) \/ Abort(p)
  \/ AutoCheck(p) \/ AutoWrite(p) \/ AutoUnblock(p) \/ AutoNotify(p)

TasksNext ==
  \/ \E p \in Actor : Ask(p) \/ Serve(p)
  \/ \E a \in Audit : FailAudit(a)

TasksSpec == TasksInit /\ [][TasksNext]_tasksVars

\* A statement waiting for a lock gets it in its turn, so it is not passed over
\* for ever.
FairTasksSpec == TasksSpec /\ \A p \in Actor : SF_tasksVars(Serve(p))

-----------------------------------------------------------------------------
(* Properties *)

\* The tables hold what the code stores in them; only a group with work in it is
\* told that it is its turn.
TasksTypeOK ==
  /\ status \in [Task -> TaskStatus \cup {"ABSENT"}]
  /\ completions \in [Task -> Nat]
  /\ audit \in [Audit -> {"none", "open", "closed"}]
  /\ told \subseteq Group /\ reopened \subseteq Task
  /\ lock \in [Task \cup Audit -> Actor \cup {Nobody}]
  /\ \A p \in Actor :
       /\ request[p].on \in Task \cup Audit \cup {NoAudit} /\ request[p].to \in TaskStatus
       /\ request[p].freed \subseteq Task /\ request[p].tell \subseteq Group

\* "Completing is done once": two people pressing Complete, the system completing
\* the task beside them and the audit closed from the Quality tab, between them,
\* complete a task once until somebody opens it again.
CompletedOnce == \A t \in Task : completions[t] <= 1

\* "A corrective-action task can never be marked done while the audit it answers
\* still says its corrective action is open", whichever of the two is closed.
AuditAnswered == \A t \in Task :
  SourceAudit[t] # NoAudit /\ status[t] = "COMPLETED" => audit[SourceAudit[t]] = "closed"

\* Every request is answered: no completion, closing or start waits for ever for
\* a row, the completion and the closing that wait for each other included.
Answered == \A p \in Actor : stage[p] # "idle" ~> stage[p] = "idle"

-----------------------------------------------------------------------------
(* What the comments say, and the code does not do.                         *)

\* "Tell the next group's owners that they are up": when the last request that
\* completes a group is answered, the group after it has been told.
NextGroupIsTold == [][\A g \in Group :
  /\ Open(g) # {} /\ Open(g)' = {} /\ Open(g + 1)' # {}
  /\ \A p \in Actor : stage'[p] = "idle"
  => g + 1 \in told']_tasksVars

=============================================================================

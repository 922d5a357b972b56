----------------------------- MODULE EmailQueue -----------------------------
(***************************************************************************)
(* The outbound email queue: services/email/email-queue.ts and backoff.ts.  *)
(*                                                                          *)
(* A message is a row.  It is attempted at once when it is written, and by   *)
(* each process's retry loop when it is due.  An attempt reads the row,      *)
(* claims it by moving nextAttemptAt on if that still is what it read, sends *)
(* without holding anything, and records what became of it.  Processes stop  *)
(* and start again, an answer may be lost, and so may a record.              *)
(***************************************************************************)
EXTENDS Integers, FiniteSets

CONSTANTS
  Process,
  Message,      \* numbered in the order they are written (createdAt)
  MAX_ATTEMPTS,
  Limit,        \* how many messages one pass lists
  MaxFaults,    \* bound: stops, lost answers and lost records
  MaxWaits      \* bound: how often a message is put off without the settings

ASSUME MessageAssumption == Message \subseteq Nat \ {0}
ASSUME AttemptsAssumption == MAX_ATTEMPTS \in Nat \ {0} /\ MaxFaults \in Nat /\ MaxWaits \in Nat

\* Each message has an immediate attempt in the process that wrote it, and each
\* process a retry loop, working on one message at a time.
Loop == 0
Attempt == Process \X (Message \cup {Loop})

VARIABLES
  status, attempts,  \* email_deliveries
  version,           \* nextAttemptAt: every value written to it is a new one
  due,               \* messages whose nextAttemptAt has come
  job,               \* per attempt: where it is, on what, and what it read
  listed,            \* per process: what its pass has listed and not come to
  configured,        \* the Microsoft Graph settings are present
  faults,
  accepted,          \* history: how often Graph took the message
  failures,          \* history: attempts that ended in an error
  excuses            \* history: claims taken from an attempt still at work, and
                     \* acceptances whose record was lost

row == <<status, attempts, version, due>>
history == <<accepted, failures, excuses>>
vars == <<row, job, listed, configured, faults, history>>

-----------------------------------------------------------------------------
NoJob == [at |-> "idle", on |-> Loop, version |-> 0, attempts |-> 0]

Idle(a) == job[a].at = "idle"
Goto(a, from, to) == job[a].at = from /\ job' = [job EXCEPT ![a].at = to]
End(a) == job' = [job EXCEPT ![a] = NoJob]

\* An attempt that has claimed its message and not recorded the outcome.
AtWork == {"sending", "accepted", "failed"}
Working(m) == {a \in Attempt : job[a].on = m /\ job[a].at \in AtWork}

\* The next attempt is put off: the row's nextAttemptAt is a new value, later.
PutOff(m) ==
  /\ version' = [version EXCEPT ![m] = @ + 1]
  /\ due' = due \ {m}

Plus(f, m) == [f EXCEPT ![m] = @ + 1]

Fault == faults < MaxFaults /\ faults' = faults + 1

-----------------------------------------------------------------------------
(* enqueueEmail, drainQueue *)

Enqueue(p, m) ==
  /\ Idle(<<p, m>>)
  /\ status[m] = "NONE" /\ \A n \in Message : n < m => status[n] # "NONE"
  /\ status' = [status EXCEPT ![m] = "PENDING"]
  /\ due' = due \cup {m}
  /\ job' = [job EXCEPT ![<<p, m>>] = [NoJob EXCEPT !.at = "start", !.on = m]]
  /\ UNCHANGED <<attempts, version, listed, configured, faults, history>>

\* Mutant of Due: what was tried once is not listed again.
DueUntried == {m \in due : status[m] = "PENDING" /\ attempts[m] = 0}

Due == {m \in due : status[m] = "PENDING"}

\* The oldest messages that are due, as many as the limit allows.
Oldest == {m \in Due : Cardinality({n \in Due : n < m}) < Limit}

\* One pass at a time per process.
Drain(p) ==
  /\ listed[p] = {} /\ Idle(<<p, Loop>>)
  /\ Due # {}
  /\ listed' = [listed EXCEPT ![p] = Oldest]
  /\ UNCHANGED <<row, job, configured, faults, history>>

DrainNext(p) ==
  /\ Idle(<<p, Loop>>)
  /\ \E m \in listed[p] :
       /\ \A n \in listed[p] : m <= n
       /\ listed' = [listed EXCEPT ![p] = @ \ {m}]
       /\ job' = [job EXCEPT ![<<p, Loop>>] = [NoJob EXCEPT !.at = "start", !.on = m]]
  /\ UNCHANGED <<row, configured, faults, history>>

-----------------------------------------------------------------------------
(* attemptDelivery *)

Read(a) ==
  LET m == job[a].on
  IN  /\ job[a].at = "start"
      /\ IF status[m] = "SENT"
         THEN End(a)
         ELSE job' = [job EXCEPT ![a] = [at |-> "read", on |-> m, version |-> version[m],
                                         attempts |-> attempts[m]]]
      /\ UNCHANGED <<row, listed, configured, faults, history>>

\* Mutant of Claimable: the claim asks for the status only.
ClaimablePending(a) == status[job[a].on] = "PENDING"

\* What the claim's WHERE asks: the row is as it was read.  It does not ask whether
\* the message is due.
Claimable(a) ==
  status[job[a].on] = "PENDING" /\ version[job[a].on] = job[a].version

Claim(a) ==
  LET m == job[a].on
  IN  /\ job[a].at = "read"
      /\ IF Claimable(a)
         THEN /\ PutOff(m)
              /\ IF configured THEN Goto(a, "read", "sending") ELSE End(a)
              /\ excuses' = IF configured /\ Working(m) # {} THEN Plus(excuses, m)
                            ELSE excuses
         ELSE End(a) /\ UNCHANGED <<version, due, excuses>>
      /\ UNCHANGED <<status, attempts, listed, configured, faults, accepted, failures>>

Accept(a) ==
  /\ Goto(a, "sending", "accepted")
  /\ accepted' = Plus(accepted, job[a].on)
  /\ UNCHANGED <<row, listed, configured, faults, failures, excuses>>

\* A refusal, or no connection: nothing was sent.
Fail(a) ==
  /\ Goto(a, "sending", "failed")
  /\ failures' = Plus(failures, job[a].on)
  /\ UNCHANGED <<row, listed, configured, faults, accepted, excuses>>

\* The message was taken but the answer did not arrive within 30 seconds, or SENT
\* could not be written: the same catch takes both for a failure.
LoseAnswer(a) ==
  /\ Goto(a, "accepted", "failed") /\ Fault
  /\ failures' = Plus(failures, job[a].on)
  /\ excuses' = Plus(excuses, job[a].on)
  /\ UNCHANGED <<row, listed, configured, accepted>>

\* Mutant of RecordSent: SENT is not written.
RecordNothing(a) ==
  /\ job[a].at = "accepted" /\ End(a)
  /\ UNCHANGED <<row, listed, configured, faults, history>>

RecordSent(a) ==
  /\ job[a].at = "accepted" /\ End(a)
  /\ status' = [status EXCEPT ![job[a].on] = "SENT"]
  /\ UNCHANGED <<attempts, version, due, listed, configured, faults, history>>

\* Mutant of AttemptsAfter: counted twice.
AttemptsTwice(a) == job[a].attempts + 2

AttemptsAfter(a) == job[a].attempts + 1

\* Mutant of Exhausted: one attempt too many.
ExhaustedLate(n) == n > MAX_ATTEMPTS

Exhausted(n) == n >= MAX_ATTEMPTS

\* By id alone, whatever the row has become since.
RecordFailure(a) ==
  LET m == job[a].on
  IN  /\ job[a].at = "failed" /\ End(a)
      /\ attempts' = [attempts EXCEPT ![m] = AttemptsAfter(a)]
      /\ status' = [status EXCEPT ![m] =
                      IF Exhausted(AttemptsAfter(a)) THEN "FAILED" ELSE "PENDING"]
      /\ PutOff(m)
      /\ UNCHANGED <<listed, configured, faults, history>>

\* That update failing is swallowed: the row stays claimed for ten minutes.
LoseFailure(a) ==
  /\ job[a].at = "failed" /\ End(a) /\ Fault
  /\ UNCHANGED <<row, listed, configured, history>>

-----------------------------------------------------------------------------
(* The world around. *)

\* The claim's ten minutes, or the five or more of a back-off, are over.  An attempt
\* at work is two calls of at most 30 seconds each and a statement: it has ended
\* by then.
BecomeDue(m) ==
  /\ status[m] = "PENDING" /\ m \notin due /\ Working(m) = {}
  /\ configured \/ version[m] < MaxWaits
  /\ due' = due \cup {m}
  /\ UNCHANGED <<status, attempts, version, job, listed, configured, faults, history>>

\* The process ends and another takes its place.
Forget(ps) ==
  /\ job' = [a \in Attempt |-> IF a[1] \in ps THEN NoJob ELSE job[a]]
  /\ listed' = [p \in Process |-> IF p \in ps THEN {} ELSE listed[p]]

Crash(p) ==
  /\ Fault /\ Forget({p})
  /\ excuses' = [m \in Message |-> IF \E a \in Working(m) : a[1] = p /\ job[a].at = "accepted"
                                   THEN excuses[m] + 1 ELSE excuses[m]]
  /\ UNCHANGED <<row, configured, accepted, failures>>

\* The settings are read when a process starts.
Configure ==
  /\ ~configured /\ configured' = TRUE
  /\ Forget(Process)
  /\ UNCHANGED <<row, faults, history>>

-----------------------------------------------------------------------------
Init ==
  /\ status = [m \in Message |-> "NONE"]  /\ attempts = [m \in Message |-> 0]
  /\ version = [m \in Message |-> 0]      /\ due = {}
  /\ job = [a \in Attempt |-> NoJob]      /\ listed = [p \in Process |-> {}]
  /\ configured \in BOOLEAN               /\ faults = 0
  /\ accepted = [m \in Message |-> 0]     /\ failures = [m \in Message |-> 0]
  /\ excuses = [m \in Message |-> 0]

Step(a) ==
  Read(a) \/ Claim(a) \/ Accept(a) \/ Fail(a) \/ RecordSent(a) \/ RecordFailure(a)

Next ==
  \/ \E p \in Process : Drain(p) \/ DrainNext(p) \/ Crash(p) \/ \E m \in Message : Enqueue(p, m)
  \/ \E a \in Attempt : Step(a) \/ LoseAnswer(a) \/ LoseFailure(a)
  \/ \E m \in Message : BecomeDue(m)
  \/ Configure

Spec == Init /\ [][Next]_vars

\* Timers fire, time passes and what was begun is carried on.
FairSpec ==
  /\ Spec
  /\ \A p \in Process : WF_vars(Drain(p)) /\ WF_vars(DrainNext(p))
  /\ \A a \in Attempt : WF_vars(Step(a))
  /\ \A m \in Message : WF_vars(BecomeDue(m))

-----------------------------------------------------------------------------
(* Properties *)

Job == [at : {"idle", "start", "read"} \cup AtWork, on : Message \cup {Loop},
        version : Nat, attempts : Nat]

JobsOK ==
  /\ job \in [Attempt -> Job]
  /\ \A a \in Attempt : ~Idle(a) => job[a].on \in Message

\* The rows hold what the code writes, an attempt's reading is not ahead of the
\* row, and what a loop has listed exists.
TypeOK ==
  /\ status \in [Message -> {"NONE", "PENDING", "SENT", "FAILED"}]
  /\ attempts \in [Message -> 0 .. MAX_ATTEMPTS] /\ version \in [Message -> Nat]
  /\ due \subseteq Message
  /\ JobsOK
  /\ listed \in [Process -> SUBSET Message]
  /\ configured \in BOOLEAN /\ faults \in Nat
  /\ accepted \in [Message -> Nat] /\ failures \in [Message -> Nat]
  /\ excuses \in [Message -> Nat]

\* "Only one of them gets a row back": of the attempts that read a row as it was at
\* one moment, at most one sends it.
OneSenderPerReading == \A a, b \in Attempt :
  /\ a # b /\ job[a].on = job[b].on
  /\ job[a].at \in AtWork /\ job[b].at \in AtWork
  => job[a].version # job[b].version

\* A message is recorded as sent only if Graph took it, and given up only after
\* MAX_ATTEMPTS attempts have ended in an error: stops, overlapping attempts and
\* waiting for the settings are not counted against it.
RecordsAreTrue == \A m \in Message :
  /\ status[m] = "SENT" => accepted[m] > 0
  /\ status[m] = "FAILED" => failures[m] >= MAX_ATTEMPTS

\* Nobody gets a message twice but for a reason: an attempt still at work lost its
\* claim to another, or what Graph answered was never recorded.
DuplicatesExplained == \A m \in Message : accepted[m] <= 1 + excuses[m]

\* The settings once present, every message written is in the end recorded as sent
\* or as failed, and stays so, whatever stopped or was lost on the way.
Settles == \A m \in Message :
  (status[m] # "NONE" /\ configured) ~> [](status[m] \in {"SENT", "FAILED"})

=============================================================================

-------------------------- MODULE EmailQueueProofs --------------------------
(***************************************************************************)
(* The safety properties of EmailQueue, for any number of processes and     *)
(* messages, any number of attempts allowed and any bound on faults.        *)
(***************************************************************************)
EXTENDS EmailQueue, FiniteSetTheorems, TLAPS

-----------------------------------------------------------------------------
(* The inductive invariant                                                  *)

\* What an attempt has read is not ahead of the row, and is the row's own
\* count of attempts while the row has not been put off.
Reading(a) == job[a].at \notin {"idle", "start"} =>
  /\ job[a].version <= version[job[a].on]
  /\ job[a].version = version[job[a].on] => job[a].attempts = attempts[job[a].on]
  /\ job[a].attempts <= failures[job[a].on]

\* An attempt at work has put the row off, had an attempt left when it did, and
\* says truly what became of it.
Sending(a) == job[a].at \in AtWork =>
  /\ job[a].version < version[job[a].on]
  /\ job[a].attempts < MAX_ATTEMPTS
  /\ job[a].at = "accepted" => accepted[job[a].on] > 0
  /\ job[a].at = "failed" => failures[job[a].on] > job[a].attempts
  /\ configured

\* A row's status and its count of attempts agree with what happened.
Recorded(m) ==
  /\ attempts[m] <= failures[m]
  /\ status[m] = "NONE" => attempts[m] = 0
  /\ status[m] = "PENDING" => attempts[m] < MAX_ATTEMPTS
  /\ status[m] = "FAILED" => attempts[m] >= MAX_ATTEMPTS
  /\ status[m] = "SENT" => accepted[m] > 0

IInv ==
  /\ TypeOK
  /\ \A a \in Attempt : Reading(a) /\ Sending(a)
  /\ \A m \in Message : Recorded(m)
  /\ OneSenderPerReading

\* The rows start empty and nobody is at work.
LEMMA InitSafe == Init => IInv
<1> SUFFICES ASSUME Init PROVE IInv
  OBVIOUS
<1> USE AttemptsAssumption DEF Init, NoJob, AtWork, Loop
<1>1. TypeOK
  BY DEF TypeOK, JobsOK, Job, Idle
<1>2. \A a \in Attempt : Reading(a) /\ Sending(a)
  BY DEF Reading, Sending
<1>3. \A m \in Message : Recorded(m)
  BY DEF Recorded
<1>4. OneSenderPerReading
  BY DEF OneSenderPerReading
<1> QED
  BY <1>1, <1>2, <1>3, <1>4 DEF IInv

\* An attempt's record after it has taken another value: the others keep theirs,
\* and the records stay records if the value is one.
LEMMA JobSet ==
  ASSUME TypeOK, NEW a \in Attempt, NEW j, job' = [job EXCEPT ![a] = j]
  PROVE  /\ \A b \in Attempt : job'[b] = IF b = a THEN j ELSE job[b]
         /\ j \in Job /\ (j.at # "idle" => j.on \in Message) => JobsOK'
BY DEF TypeOK, JobsOK, Idle

\* The same when it ends and when it moves on.
LEMMA JobsOf ==
  ASSUME TypeOK, NEW a \in Attempt, NEW from, NEW to
  PROVE  /\ End(a) => /\ \A b \in Attempt : job'[b] = IF b = a THEN NoJob ELSE job[b]
                      /\ JobsOK'
         /\ Goto(a, from, to) /\ ~Idle(a) /\ to \in AtWork =>
              /\ \A b \in Attempt : job'[b] = IF b = a THEN [job[a] EXCEPT !.at = to] ELSE job[b]
              /\ JobsOK'
<1>1. ASSUME Goto(a, from, to), ~Idle(a), to \in AtWork
      PROVE  /\ \A b \in Attempt : job'[b] = IF b = a THEN [job[a] EXCEPT !.at = to] ELSE job[b]
             /\ JobsOK'
  <2> DEFINE j == [job[a] EXCEPT !.at = to]
  <2>1. job[a] \in Job /\ job[a].on \in Message
    BY <1>1 DEF TypeOK, JobsOK
  <2>2. j \in Job /\ j.on \in Message
    BY <1>1, <2>1 DEF Job, AtWork
  <2>3. job' = [job EXCEPT ![a] = j]
    BY <1>1 DEF Goto
  <2> HIDE DEF j
  <2>4. (\A b \in Attempt : job'[b] = IF b = a THEN j ELSE job[b]) /\ JobsOK'
    BY <2>2, <2>3, JobSet
  <2> QED
    BY <2>4 DEF j
<1>2. (End(a) => /\ \A b \in Attempt : job'[b] = IF b = a THEN NoJob ELSE job[b]
                 /\ JobsOK')
  <2>1. NoJob \in Job /\ NoJob.at = "idle"
    BY DEF NoJob, Job, Loop
  <2> HIDE DEF NoJob
  <2> QED
    BY <2>1, JobSet DEF End
<1> QED
  BY <1>1, <1>2

\* Counting one more, and putting a row off.
LEMMA PlusOne ==
  ASSUME NEW f \in [Message -> Nat], NEW m \in Message
  PROVE  /\ Plus(f, m) \in [Message -> Nat]
         /\ \A n \in Message : Plus(f, m)[n] = IF n = m THEN f[n] + 1 ELSE f[n]
BY DEF Plus

LEMMA RowPutOff ==
  ASSUME TypeOK, NEW m \in Message, PutOff(m)
  PROVE  /\ version' \in [Message -> Nat] /\ due' \subseteq Message
         /\ \A n \in Message : version'[n] = IF n = m THEN version[n] + 1 ELSE version[n]
BY DEF TypeOK, PutOff

-----------------------------------------------------------------------------
(* Writing a message and listing the due ones                               *)

LEMMA EnqueueKeeps ==
  ASSUME IInv, NEW p \in Process, NEW m \in Message, Enqueue(p, m)  PROVE IInv'
<1> USE AttemptsAssumption DEF IInv, Enqueue, NoJob, AtWork, Loop, history
<1> <<p, m>> \in Attempt
  BY DEF Attempt
<1> DEFINE j == [NoJob EXCEPT !.at = "start", !.on = m]
<1>0. j \in Job
  BY DEF Job
<1>2. (\A b \in Attempt : job'[b] = IF b = <<p, m>> THEN j ELSE job[b]) /\ JobsOK'
  <2> HIDE DEF j
  <2>1. job' = [job EXCEPT ![<<p, m>>] = j]
    BY DEF j
  <2>2. j.on \in Message
    BY DEF j
  <2> QED
    BY <1>0, <2>1, <2>2, JobSet
<1>1. TypeOK'
  BY <1>2 DEF TypeOK
<1>3. \A a \in Attempt : Reading(a)' /\ Sending(a)'
  BY <1>2 DEF Reading, Sending, TypeOK, JobsOK, Job
<1>4. \A n \in Message : Recorded(n)'
  BY DEF Recorded, TypeOK
<1>5. OneSenderPerReading'
  BY <1>2 DEF OneSenderPerReading, TypeOK, JobsOK, Job
<1> QED
  BY <1>1, <1>3, <1>4, <1>5

LEMMA DrainKeeps ==
  ASSUME IInv, NEW p \in Process, Drain(p) \/ DrainNext(p)  PROVE IInv'
<1> USE AttemptsAssumption DEF IInv, NoJob, AtWork, Loop, history, row
<1> <<p, Loop>> \in Attempt
  BY DEF Attempt
<1>1. CASE Drain(p)
  <2>1. TypeOK'
    BY <1>1 DEF TypeOK, JobsOK, Drain, Oldest, Due, Idle
  <2>2. \A a \in Attempt : Reading(a)' /\ Sending(a)'
    BY <1>1 DEF Reading, Sending, Drain
  <2>3. (\A n \in Message : Recorded(n)') /\ OneSenderPerReading'
    BY <1>1 DEF Recorded, OneSenderPerReading, Drain
  <2> QED
    BY <2>1, <2>2, <2>3
<1>2. CASE DrainNext(p)
  <2>1. PICK m \in listed[p] :
          /\ listed' = [listed EXCEPT ![p] = @ \ {m}]
          /\ job' = [job EXCEPT ![<<p, Loop>>] = [NoJob EXCEPT !.at = "start", !.on = m]]
          /\ UNCHANGED <<row, configured, faults, history>>
    BY <1>2 DEF DrainNext
  <2> m \in Message
    BY DEF TypeOK
  <2> DEFINE j == [NoJob EXCEPT !.at = "start", !.on = m]
  <2>0. j \in Job
    BY DEF Job
  <2>3. (\A b \in Attempt : job'[b] = IF b = <<p, Loop>> THEN j ELSE job[b]) /\ JobsOK'
    <3>1. job' = [job EXCEPT ![<<p, Loop>>] = j] /\ j.on \in Message
      BY <2>1
    <3> HIDE DEF j, Loop
    <3> QED
      BY <2>0, <3>1, JobSet
  <2>2. TypeOK'
    BY <2>1, <2>3 DEF TypeOK
  <2>4. \A a \in Attempt : Reading(a)' /\ Sending(a)'
    BY <2>1, <2>3 DEF Reading, Sending, TypeOK, JobsOK, Job
  <2>5. (\A n \in Message : Recorded(n)') /\ OneSenderPerReading'
    BY <2>1, <2>3 DEF Recorded, OneSenderPerReading, TypeOK
  <2> QED
    BY <2>2, <2>4, <2>5
<1> QED
  BY <1>1, <1>2

-----------------------------------------------------------------------------
(* An attempt                                                               *)

LEMMA ReadKeeps == ASSUME IInv, NEW a \in Attempt, Read(a)  PROVE IInv'
<1> USE AttemptsAssumption DEF IInv, NoJob, AtWork, Loop, history, row
<1> DEFINE m == job[a].on
<1>0. m \in Message /\ job[a].at = "start"
  BY DEF TypeOK, JobsOK, Read, Idle
<1>1. CASE End(a)
  <2>1. (\A b \in Attempt : job'[b] = IF b = a THEN NoJob ELSE job[b]) /\ JobsOK'
    BY <1>1, JobsOf
  <2>2. TypeOK'
    BY <2>1 DEF TypeOK, Read
  <2>3. \A b \in Attempt : Reading(b)' /\ Sending(b)'
    BY <2>1 DEF Reading, Sending, Read
  <2>4. (\A n \in Message : Recorded(n)') /\ OneSenderPerReading'
    BY <2>1 DEF Recorded, OneSenderPerReading, Read
  <2> QED
    BY <2>2, <2>3, <2>4
<1> DEFINE j == [at |-> "read", on |-> m, version |-> version[m], attempts |-> attempts[m]]
<1>2. CASE job' = [job EXCEPT ![a] = j]
  <2>0. j \in Job
    <3>1. version[m] \in Nat /\ attempts[m] \in Nat
      BY <1>0 DEF TypeOK
    <3> QED
      BY <1>0, <3>1 DEF Job
  <2>1. (\A b \in Attempt : job'[b] = IF b = a THEN j ELSE job[b]) /\ JobsOK'
    <3>1. j.on \in Message
      BY <1>0
    <3> HIDE DEF j
    <3> QED
      BY <1>2, <2>0, <3>1, JobSet
  <2>2. TypeOK'
    BY <2>1 DEF TypeOK, Read
  <2>3. \A b \in Attempt : Reading(b)' /\ Sending(b)'
    BY <1>0, <2>1 DEF Reading, Sending, Read, Recorded, TypeOK, JobsOK, Job
  <2>4. (\A n \in Message : Recorded(n)') /\ OneSenderPerReading'
    BY <2>1 DEF Recorded, OneSenderPerReading, Read
  <2> QED
    BY <2>2, <2>3, <2>4
<1> QED
  BY <1>1, <1>2 DEF Read

\* The claim is where one reading is kept from being sent twice: whoever sends
\* on the same reading has put the row off already, and the claim is refused.
LEMMA ClaimKeeps == ASSUME IInv, NEW a \in Attempt, Claim(a)  PROVE IInv'
<1> USE AttemptsAssumption DEF IInv, NoJob, AtWork, Loop, row, history
<1> DEFINE m == job[a].on
<1>0. m \in Message /\ job[a].at = "read"
  BY DEF TypeOK, JobsOK, Claim, Idle
<1>1. CASE ~Claimable(a) \/ ~configured
  <2>1. End(a) /\ UNCHANGED <<status, attempts, accepted, failures, configured, listed, faults>>
    BY <1>1 DEF Claim
  <2>2. (\A b \in Attempt : job'[b] = IF b = a THEN NoJob ELSE job[b]) /\ JobsOK'
    BY <2>1, JobsOf
  <2>3. /\ version' \in [Message -> Nat] /\ due' \in SUBSET Message
        /\ excuses' \in [Message -> Nat]
        /\ \A n \in Message : version'[n] >= version[n]
    <3>1. CASE Claimable(a)
      BY <1>0, <1>1, <3>1, RowPutOff DEF Claim, TypeOK
    <3>2. CASE ~Claimable(a)
      BY <3>2 DEF Claim, TypeOK
    <3> QED
      BY <3>1, <3>2
  <2>4. TypeOK'
    BY <2>1, <2>2, <2>3 DEF TypeOK
  <2>5. \A b \in Attempt : Reading(b)' /\ Sending(b)'
    BY <2>1, <2>2, <2>3 DEF Reading, Sending, TypeOK, JobsOK, Job, Idle
  <2>6. (\A n \in Message : Recorded(n)') /\ OneSenderPerReading'
    BY <2>1, <2>2 DEF Recorded, OneSenderPerReading
  <2> QED
    BY <2>4, <2>5, <2>6
<1>2. CASE Claimable(a) /\ configured
  <2>1. /\ PutOff(m) /\ Goto(a, "read", "sending")
        /\ UNCHANGED <<status, attempts, accepted, failures, configured, listed, faults>>
    BY <1>2 DEF Claim
  <2>2. /\ \A b \in Attempt : job'[b] = IF b = a THEN [job[a] EXCEPT !.at = "sending"] ELSE job[b]
        /\ JobsOK'
    BY <1>0, <2>1, JobsOf DEF Idle
  <2>3. /\ version' \in [Message -> Nat] /\ due' \in SUBSET Message
        /\ \A n \in Message : version'[n] = IF n = m THEN version[n] + 1 ELSE version[n]
    BY <1>0, <2>1, RowPutOff
  <2>4. excuses' \in [Message -> Nat]
    BY <1>0, PlusOne DEF Claim, TypeOK
  <2>5. TypeOK'
    BY <2>1, <2>2, <2>3, <2>4 DEF TypeOK
  <2>6. job[a].version = version[m] /\ job[a].attempts < MAX_ATTEMPTS
    BY <1>0, <1>2 DEF Claimable, Reading, Recorded
  <2>7. \A b \in Attempt : Reading(b)' /\ Sending(b)'
    BY SMTT(30), <1>0, <1>2, <2>1, <2>2, <2>3, <2>6 DEF Reading, Sending, TypeOK, JobsOK, Job, Idle
  <2>8. \A n \in Message : Recorded(n)'
    BY <2>1 DEF Recorded
  <2>9. OneSenderPerReading'
    BY <1>0, <2>2, <2>6 DEF OneSenderPerReading, Sending, TypeOK, JobsOK, Job
  <2> QED
    BY <2>5, <2>7, <2>8, <2>9
<1> QED
  BY <1>1, <1>2

LEMMA SendKeeps ==
  ASSUME IInv, NEW a \in Attempt, Accept(a) \/ Fail(a) \/ LoseAnswer(a)  PROVE IInv'
<1> USE AttemptsAssumption DEF IInv, NoJob, AtWork, Loop, row, history
<1> DEFINE m == job[a].on
<1>0. m \in Message /\ ~Idle(a)
  BY DEF TypeOK, JobsOK, Accept, Fail, LoseAnswer, Goto, Idle
<1>1. PICK to \in {"accepted", "failed"} :
        /\ Goto(a, "sending", to) \/ Goto(a, "accepted", to)
        /\ to = "accepted" => accepted'[m] > 0
        /\ to = "failed" => failures'[m] = failures[m] + 1
  BY <1>0, PlusOne DEF Accept, Fail, LoseAnswer, TypeOK
<1>2. (\A b \in Attempt : job'[b] = IF b = a THEN [job[a] EXCEPT !.at = to] ELSE job[b]) /\ JobsOK'
  BY <1>0, <1>1, JobsOf
<1>3. /\ accepted' \in [Message -> Nat] /\ failures' \in [Message -> Nat]
      /\ excuses' \in [Message -> Nat] /\ faults' \in Nat
      /\ \A n \in Message : accepted'[n] >= accepted[n] /\ failures'[n] >= failures[n]
      /\ UNCHANGED <<row, listed, configured>>
  <2>0. /\ accepted \in [Message -> Nat] /\ failures \in [Message -> Nat]
        /\ excuses \in [Message -> Nat] /\ faults \in Nat
        /\ \A n \in Message : accepted[n] \in Nat /\ failures[n] \in Nat
    BY DEF TypeOK
  <2>1. CASE Accept(a)
    <3>1. /\ accepted' \in [Message -> Nat]
          /\ \A n \in Message : accepted'[n] = IF n = m THEN accepted[n] + 1 ELSE accepted[n]
      BY <1>0, <2>0, <2>1, PlusOne DEF Accept
    <3> QED
      BY <2>0, <2>1, <3>1 DEF Accept
  <2>2. CASE Fail(a) \/ LoseAnswer(a)
    <3>1. /\ failures' \in [Message -> Nat]
          /\ \A n \in Message : failures'[n] = IF n = m THEN failures[n] + 1 ELSE failures[n]
      BY <1>0, <2>0, <2>2, PlusOne DEF Fail, LoseAnswer
    <3>2. excuses' \in [Message -> Nat]
      BY <1>0, <2>0, <2>2, PlusOne DEF Fail, LoseAnswer
    <3> QED
      BY <2>0, <2>2, <3>1, <3>2 DEF Fail, LoseAnswer, Fault
  <2> QED
    BY <2>1, <2>2
<1>4. TypeOK'
  BY <1>2, <1>3 DEF TypeOK
<1>5. \A b \in Attempt : Reading(b)' /\ Sending(b)'
  BY SMTT(30), <1>0, <1>1, <1>2, <1>3 DEF Reading, Sending, TypeOK, JobsOK, Job, Idle, Goto
<1>6. \A n \in Message : Recorded(n)'
  BY <1>3 DEF Recorded, TypeOK
<1>7. OneSenderPerReading'
  BY <1>1, <1>2 DEF OneSenderPerReading, Goto, TypeOK, JobsOK, Job
<1> QED
  BY <1>4, <1>5, <1>6, <1>7

LEMMA RecordKeeps ==
  ASSUME IInv, NEW a \in Attempt, RecordSent(a) \/ RecordFailure(a) \/ LoseFailure(a)
  PROVE  IInv'
<1> USE AttemptsAssumption DEF IInv, NoJob, AtWork, Loop, row, history
<1> DEFINE m == job[a].on
<1>0. m \in Message /\ End(a) /\ job[a].at \in AtWork
  BY DEF TypeOK, JobsOK, RecordSent, RecordFailure, LoseFailure, Idle
<1>1. (\A b \in Attempt : job'[b] = IF b = a THEN NoJob ELSE job[b]) /\ JobsOK'
  BY <1>0, JobsOf
<1>2. OneSenderPerReading'
  BY <1>1 DEF OneSenderPerReading
<1>3. CASE RecordSent(a) \/ LoseFailure(a)
  <2>1. TypeOK'
    BY <1>0, <1>1, <1>3 DEF TypeOK, RecordSent, LoseFailure, Fault
  <2>2. \A b \in Attempt : Reading(b)' /\ Sending(b)'
    BY <1>1, <1>3 DEF Reading, Sending, RecordSent, LoseFailure
  <2>3. \A n \in Message : Recorded(n)'
    BY <1>0, <1>3 DEF Recorded, Sending, RecordSent, LoseFailure, TypeOK
  <2> QED
    BY <1>2, <2>1, <2>2, <2>3
<1>4. CASE RecordFailure(a)
  <2>1. /\ \A n \in Message : attempts'[n] = IF n = m THEN job[a].attempts + 1 ELSE attempts[n]
        /\ \A n \in Message : status'[n] = IF n # m THEN status[n]
             ELSE IF job[a].attempts + 1 >= MAX_ATTEMPTS THEN "FAILED" ELSE "PENDING"
        /\ \A n \in Message : version'[n] = IF n = m THEN version[n] + 1 ELSE version[n]
        /\ version' \in [Message -> Nat]
        /\ UNCHANGED <<listed, configured, faults, accepted, failures, excuses>>
    BY <1>0, <1>4 DEF RecordFailure, PutOff, TypeOK, AttemptsAfter, Exhausted
  <2>2. job[a].attempts < MAX_ATTEMPTS /\ failures[m] > job[a].attempts
    BY <1>0, <1>4 DEF Sending, RecordFailure
  <2>3. TypeOK'
    <3>1. job[a].attempts + 1 \in 0 .. MAX_ATTEMPTS
      BY <2>2 DEF TypeOK, JobsOK, Job
    <3>2. attempts' \in [Message -> 0 .. MAX_ATTEMPTS]
      BY <1>4, <3>1 DEF RecordFailure, AttemptsAfter, TypeOK
    <3>3. status' \in [Message -> {"NONE", "PENDING", "SENT", "FAILED"}] /\ due' \subseteq Message
      BY <1>4 DEF RecordFailure, PutOff, TypeOK
    <3> QED
      BY <1>1, <2>1, <3>2, <3>3 DEF TypeOK
  <2>4. \A b \in Attempt : Reading(b)' /\ Sending(b)'
    <3> TAKE b \in Attempt
    <3>1. CASE b = a
      BY <1>1, <3>1 DEF Reading, Sending
    <3>2. CASE b # a /\ job[b].at \in {"idle", "start"}
      BY <1>1, <3>2 DEF Reading, Sending
    <3>3. CASE b # a /\ job[b].at \notin {"idle", "start"}
      <4>1. job[b].on \in Message /\ job'[b] = job[b]
        BY <1>1, <3>3 DEF TypeOK, JobsOK, Idle
      <4> QED
        BY <2>1, <3>3, <4>1 DEF Reading, Sending, TypeOK, JobsOK, Job
    <3> QED
      BY <3>1, <3>2, <3>3
  <2>5. \A n \in Message : Recorded(n)'
    <3> TAKE n \in Message
    <3>1. CASE n = m
      <4>1. job[a].attempts \in Nat /\ failures[m] \in Nat
        BY <1>0 DEF TypeOK, JobsOK, Job
      <4> QED
        BY <1>0, <2>1, <2>2, <3>1, <4>1 DEF Recorded
    <3>2. CASE n # m
      BY <2>1, <3>2 DEF Recorded
    <3> QED
      BY <3>1, <3>2
  <2> QED
    BY <1>2, <2>3, <2>4, <2>5
<1> QED
  BY <1>3, <1>4

-----------------------------------------------------------------------------
(* The world around                                                         *)

\* Processes that end leave the rows as they are.
LEMMA ForgetKeeps ==
  ASSUME IInv, NEW ps \in SUBSET Process, Forget(ps),
         UNCHANGED <<row, accepted, failures>>, faults' \in Nat,
         excuses' \in [Message -> Nat], configured' \in BOOLEAN, configured => configured'
  PROVE  IInv'
<1> USE AttemptsAssumption DEF IInv, NoJob, AtWork, Loop, row
<1>1. \A a \in Attempt : job'[a] = IF a[1] \in ps THEN NoJob ELSE job[a]
  BY DEF Forget
<1>2. TypeOK'
  <2>1. \A a \in Attempt : job'[a] \in Job /\ (~Idle(a)' => job'[a].on \in Message)
    BY <1>1 DEF TypeOK, JobsOK, Job, Idle
  <2>2. job' \in [Attempt -> Job]
    BY <2>1 DEF Forget
  <2>3. JobsOK' /\ listed' \in [Process -> SUBSET Message]
    BY <2>1, <2>2 DEF JobsOK, TypeOK, Forget
  <2> QED
    BY <2>3 DEF TypeOK
<1>3. \A a \in Attempt : Reading(a)' /\ Sending(a)'
  BY <1>1 DEF Reading, Sending
<1>4. (\A m \in Message : Recorded(m)') /\ OneSenderPerReading'
  BY <1>1 DEF Recorded, OneSenderPerReading
<1> QED
  BY <1>2, <1>3, <1>4

LEMMA WorldKeeps ==
  ASSUME IInv, (\E m \in Message : BecomeDue(m)) \/ (\E p \in Process : Crash(p)) \/ Configure
  PROVE  IInv'
<1>1. CASE \E m \in Message : BecomeDue(m)
  BY <1>1 DEF IInv, BecomeDue, TypeOK, JobsOK, Reading, Sending, Recorded, OneSenderPerReading, history, Idle
<1>2. ASSUME NEW p \in Process, Crash(p)  PROVE IInv'
  <2>1. excuses' \in [Message -> Nat]
    BY <1>2 DEF Crash, IInv, TypeOK
  <2>2. {p} \in SUBSET Process /\ faults' \in Nat
    BY <1>2 DEF Crash, Fault, IInv, TypeOK
  <2> QED
    BY <1>2, <2>1, <2>2, ForgetKeeps DEF Crash, IInv, TypeOK
<1>3. CASE Configure
  BY <1>3, ForgetKeeps DEF Configure, history, IInv, TypeOK
<1> QED
  BY <1>1, <1>2, <1>3

\* One step per action.
LEMMA NextSafe == IInv /\ [Next]_vars => IInv'
<1> SUFFICES ASSUME IInv, [Next]_vars  PROVE IInv'
  OBVIOUS
<1>1. ASSUME NEW p \in Process, NEW m \in Message, Enqueue(p, m)  PROVE IInv'
  BY <1>1, EnqueueKeeps
<1>2. ASSUME NEW p \in Process, Drain(p) \/ DrainNext(p)  PROVE IInv'
  BY <1>2, DrainKeeps
<1>3. ASSUME NEW a \in Attempt, Read(a) \/ Claim(a)  PROVE IInv'
  BY <1>3, ReadKeeps, ClaimKeeps
<1>4. ASSUME NEW a \in Attempt, Accept(a) \/ Fail(a) \/ LoseAnswer(a)  PROVE IInv'
  BY <1>4, SendKeeps
<1>5. ASSUME NEW a \in Attempt, RecordSent(a) \/ RecordFailure(a) \/ LoseFailure(a)  PROVE IInv'
  BY <1>5, RecordKeeps
<1>6. CASE (\E m \in Message : BecomeDue(m)) \/ (\E p \in Process : Crash(p)) \/ Configure
  BY <1>6, WorldKeeps
<1>7. CASE UNCHANGED vars
  BY <1>7 DEF vars, row, history, IInv, TypeOK, JobsOK, Reading, Sending, Recorded,
              OneSenderPerReading, Idle
<1> QED
  BY <1>1, <1>2, <1>3, <1>4, <1>5, <1>6, <1>7 DEF Next, Step

-----------------------------------------------------------------------------
(* Messages taken more than once                                            *)

\* Attempts that may yet be taken, or were not as far as they know.
InDoubt(m) == {a \in Attempt : job[a].on = m /\ job[a].at \in {"sending", "failed"}}

\* What is in doubt may be taken once more than there are excuses for; a message that
\* nobody works on and that will be claimed again has been taken no more often than
\* there are excuses.
Counted(m) ==
  /\ IsFiniteSet(InDoubt(m))
  /\ accepted[m] + Cardinality(InDoubt(m)) <= excuses[m] + 1
  /\ status[m] # "SENT" /\ Working(m) = {} => accepted[m] <= excuses[m]

\* An attempt that takes another place leaves, stays in or joins what is in doubt
\* and what is worked on.
LEMMA Places ==
  ASSUME NEW a \in Attempt, NEW j, \A b \in Attempt : job'[b] = IF b = a THEN j ELSE job[b],
         NEW m
  PROVE  /\ InDoubt(m)' = IF j.on = m /\ j.at \in {"sending", "failed"}
                          THEN InDoubt(m) \cup {a} ELSE InDoubt(m) \ {a}
         /\ Working(m)' = IF j.on = m /\ j.at \in AtWork
                          THEN Working(m) \cup {a} ELSE Working(m) \ {a}
BY DEF InDoubt, Working

\* What an attempt in doubt leaves behind, and what the joining of one adds.
LEMMA CountOf ==
  ASSUME NEW m, IsFiniteSet(InDoubt(m)), NEW a
  PROVE  /\ Cardinality(InDoubt(m)) \in Nat
         /\ IsFiniteSet(InDoubt(m) \cup {a}) /\ IsFiniteSet(InDoubt(m) \ {a})
         /\ Cardinality(InDoubt(m) \cup {a}) <= Cardinality(InDoubt(m)) + 1
         /\ Cardinality(InDoubt(m) \ {a}) <= Cardinality(InDoubt(m))
         /\ a \in InDoubt(m) => Cardinality(InDoubt(m) \ {a}) = Cardinality(InDoubt(m)) - 1
<1>1. Cardinality(InDoubt(m)) \in Nat
  BY FS_CardinalityType
<1>2. IsFiniteSet(InDoubt(m) \cup {a}) /\ Cardinality(InDoubt(m) \cup {a}) <= Cardinality(InDoubt(m)) + 1
  BY <1>1, FS_AddElement
<1>3. /\ IsFiniteSet(InDoubt(m) \ {a}) /\ Cardinality(InDoubt(m) \ {a}) <= Cardinality(InDoubt(m))
      /\ a \in InDoubt(m) => Cardinality(InDoubt(m) \ {a}) = Cardinality(InDoubt(m)) - 1
  BY <1>1, FS_RemoveElement
<1> QED
  BY <1>1, <1>2, <1>3

\* An attempt that was not at work and is not leaves everything as it was.
LEMMA StillCounted ==
  ASSUME \A n \in Message : Counted(n), NEW a \in Attempt, NEW j,
         \A b \in Attempt : job'[b] = IF b = a THEN j ELSE job[b],
         job[a].at \notin AtWork, j.at \notin AtWork,
         UNCHANGED <<accepted, excuses>>,
         \A n \in Message : status'[n] = "SENT" <=> status[n] = "SENT"
  PROVE  \A n \in Message : Counted(n)'
<1> TAKE n \in Message
<1>1. InDoubt(n)' = InDoubt(n) /\ Working(n)' = Working(n)
  BY Places DEF InDoubt, Working, AtWork
<1> QED
  BY <1>1 DEF Counted

\* Whoever claims a message that is being worked on has an excuse; whoever claims one
\* that is not finds that what was taken has been excused.
LEMMA ClaimCounted ==
  ASSUME IInv, \A n \in Message : Counted(n), NEW a \in Attempt, Claim(a)
  PROVE  \A n \in Message : Counted(n)'
<1>0. PICK m \in Message : m = job[a].on /\ job[a].at = "read" /\ TypeOK
  BY DEF IInv, TypeOK, JobsOK, Claim, Idle
<1>1. CASE ~Claimable(a) \/ ~configured
  <2>1. End(a) /\ UNCHANGED <<status, accepted, excuses>>
    BY <1>1 DEF Claim
  <2>2. \A b \in Attempt : job'[b] = IF b = a THEN NoJob ELSE job[b]
    BY <1>0, <2>1, JobsOf
  <2> QED
    BY <1>0, <2>1, <2>2, StillCounted DEF NoJob, AtWork
<1>2. CASE Claimable(a) /\ configured
  <2> DEFINE j == [job[a] EXCEPT !.at = "sending"]
  <2>1. /\ Goto(a, "read", "sending") /\ UNCHANGED <<status, accepted>>
        /\ excuses' = IF Working(m) # {} THEN Plus(excuses, m) ELSE excuses
    BY <1>0, <1>2 DEF Claim
  <2>2. \A b \in Attempt : job'[b] = IF b = a THEN j ELSE job[b]
    BY <1>0, <2>1, JobsOf DEF Idle, AtWork
  <2>3. j.on = m /\ j.at = "sending" /\ a \notin InDoubt(m) /\ status[m] = "PENDING"
    BY <1>0, <1>2 DEF TypeOK, JobsOK, Job, InDoubt, Claimable
  <2> HIDE DEF j
  <2>4. \A n \in Message : accepted[n] \in Nat /\ excuses[n] \in Nat
    BY <1>0 DEF TypeOK
  <2>5. Counted(m)'
    <3>1. InDoubt(m)' = InDoubt(m) \cup {a} /\ Working(m)' = Working(m) \cup {a}
      BY <2>2, <2>3, Places DEF AtWork
    <3>2. IsFiniteSet(InDoubt(m)')
          /\ Cardinality(InDoubt(m)') <= Cardinality(InDoubt(m)) + 1
          /\ Cardinality(InDoubt(m)) \in Nat /\ Cardinality(InDoubt(m)') \in Nat
      <4>1. IsFiniteSet(InDoubt(m))
        BY <1>0 DEF Counted
      <4>2. IsFiniteSet(InDoubt(m) \cup {a})
        BY <4>1, CountOf
      <4> QED
        BY <3>1, <4>1, <4>2, CountOf, FS_CardinalityType
    <3>3. accepted[m] + Cardinality(InDoubt(m)) <= excuses'[m]
      <4>1. CASE Working(m) # {}
        <5>1. excuses'[m] = excuses[m] + 1
          BY <1>0, <2>1, <4>1, PlusOne DEF TypeOK
        <5> QED
          BY <1>0, <5>1 DEF Counted
      <4>2. CASE Working(m) = {}
        <5>1. InDoubt(m) = {}
          BY <4>2 DEF InDoubt, Working, AtWork
        <5> QED
          BY <1>0, <2>1, <2>3, <2>4, <4>2, <5>1, FS_EmptySet DEF Counted
      <4> QED
        BY <4>1, <4>2
    <3>4. excuses'[m] \in Nat
      BY <1>0, <2>1, PlusOne DEF TypeOK
    <3> QED
      BY <1>0, <2>1, <2>4, <3>1, <3>2, <3>3, <3>4 DEF Counted
  <2>6. ASSUME NEW n \in Message, n # m  PROVE Counted(n)'
    <3>1. InDoubt(n)' = InDoubt(n) /\ Working(n)' = Working(n)
      BY <1>0, <2>2, <2>3, <2>6, Places DEF InDoubt, Working
    <3>2. excuses'[n] = excuses[n]
      BY <1>0, <2>1, <2>6, PlusOne DEF TypeOK
    <3> QED
      BY <2>1, <3>1, <3>2 DEF Counted
  <2> QED
    BY <2>5, <2>6
<1> QED
  BY <1>1, <1>2

LEMMA SendCounted ==
  ASSUME IInv, \A n \in Message : Counted(n), NEW a \in Attempt,
         Accept(a) \/ Fail(a) \/ LoseAnswer(a)
  PROVE  \A n \in Message : Counted(n)'
<1>0. PICK m \in Message : m = job[a].on /\ ~Idle(a) /\ TypeOK
  BY DEF IInv, TypeOK, JobsOK, Accept, Fail, LoseAnswer, Goto, Idle
<1>1. PICK to \in {"accepted", "failed"} :
        /\ Goto(a, "sending", to) \/ Goto(a, "accepted", to)
        /\ Accept(a) => to = "accepted"
        /\ ~Accept(a) => to = "failed"
  BY DEF Accept, Fail, LoseAnswer
<1> DEFINE j == [job[a] EXCEPT !.at = to]
<1>2. \A b \in Attempt : job'[b] = IF b = a THEN j ELSE job[b]
  BY <1>0, <1>1, JobsOf DEF AtWork
<1>3. j.on = m /\ j.at = to /\ a \in Working(m) /\ status' = status
  BY <1>0, <1>1 DEF TypeOK, JobsOK, Job, Working, AtWork, Goto, Accept, Fail, LoseAnswer, row
<1> HIDE DEF j
<1>4. \A n \in Message : accepted[n] \in Nat /\ excuses[n] \in Nat
  BY <1>0 DEF TypeOK
<1>5. ASSUME NEW n \in Message, n # m  PROVE Counted(n)'
  <2>1. InDoubt(n)' = InDoubt(n) /\ Working(n)' = Working(n)
    BY <1>2, <1>3, <1>5, Places DEF InDoubt, Working
  <2>2. accepted'[n] = accepted[n] /\ excuses'[n] = excuses[n]
    BY <1>0, <1>5, PlusOne DEF TypeOK, Accept, Fail, LoseAnswer
  <2> QED
    BY <1>3, <2>1, <2>2 DEF Counted
<1>6. Working(m)' # {}
  BY <1>2, <1>3, Places DEF AtWork
<1>7. IsFiniteSet(InDoubt(m)) /\ Cardinality(InDoubt(m)) \in Nat
      /\ accepted[m] + Cardinality(InDoubt(m)) <= excuses[m] + 1
  BY <1>0, FS_CardinalityType DEF Counted
<1>8. CASE Accept(a)
  <2>1. a \in InDoubt(m) /\ InDoubt(m)' = InDoubt(m) \ {a}
    BY <1>0, <1>1, <1>2, <1>3, <1>8, Places DEF InDoubt, Accept, Goto
  <2>2. IsFiniteSet(InDoubt(m)') /\ Cardinality(InDoubt(m)') = Cardinality(InDoubt(m)) - 1
    BY <1>7, <2>1, CountOf
  <2>3. accepted'[m] = accepted[m] + 1 /\ excuses' = excuses
    BY <1>0, <1>8, PlusOne DEF Accept, TypeOK
  <2> QED
    BY <1>4, <1>5, <1>6, <1>7, <2>2, <2>3 DEF Counted
<1>9. CASE Fail(a) /\ ~Accept(a)
  <2>1. InDoubt(m)' = InDoubt(m) /\ UNCHANGED <<accepted, excuses>>
    BY <1>1, <1>2, <1>3, <1>9, Places DEF InDoubt, Fail, Goto
  <2> QED
    BY <1>5, <1>6, <1>7, <2>1 DEF Counted
<1>10. CASE LoseAnswer(a) /\ ~Accept(a)
  <2>1. InDoubt(m)' = InDoubt(m) \cup {a} /\ accepted' = accepted
    BY <1>1, <1>2, <1>3, <1>10, Places DEF LoseAnswer
  <2>2. IsFiniteSet(InDoubt(m)') /\ Cardinality(InDoubt(m)') <= Cardinality(InDoubt(m)) + 1
        /\ Cardinality(InDoubt(m)') \in Nat
    BY <1>7, <2>1, CountOf, FS_CardinalityType
  <2>3. excuses'[m] = excuses[m] + 1
    BY <1>0, <1>10, PlusOne DEF LoseAnswer, TypeOK
  <2> QED
    BY <1>4, <1>5, <1>6, <1>7, <2>1, <2>2, <2>3 DEF Counted
<1> QED
  BY <1>8, <1>9, <1>10

\* A failure on record leaves one attempt less in doubt, so that what was taken has
\* been excused by the time somebody may claim again.
LEMMA RecordCounted ==
  ASSUME IInv, \A n \in Message : Counted(n), NEW a \in Attempt,
         RecordSent(a) \/ RecordFailure(a) \/ LoseFailure(a)
  PROVE  \A n \in Message : Counted(n)'
<1>0. PICK m \in Message : m = job[a].on /\ End(a) /\ TypeOK /\ UNCHANGED <<accepted, excuses>>
  BY DEF IInv, TypeOK, JobsOK, RecordSent, RecordFailure, LoseFailure, Idle, history
<1>1. \A b \in Attempt : job'[b] = IF b = a THEN NoJob ELSE job[b]
  BY <1>0, JobsOf
<1>2. \A n \in Message : InDoubt(n)' = InDoubt(n) \ {a} /\ Working(n)' = Working(n) \ {a}
  BY <1>1, Places DEF NoJob, AtWork
<1>3. ASSUME NEW n \in Message, n # m  PROVE Counted(n)'
  <2>1. InDoubt(n)' = InDoubt(n) /\ Working(n)' = Working(n)
    BY <1>0, <1>2, <1>3 DEF InDoubt, Working
  <2>2. status'[n] = status[n]
    BY <1>0, <1>3 DEF TypeOK, RecordSent, RecordFailure, LoseFailure, row
  <2> QED
    BY <1>0, <2>1, <2>2 DEF Counted
<1>4. /\ IsFiniteSet(InDoubt(m)) /\ Cardinality(InDoubt(m)) \in Nat
      /\ accepted[m] + Cardinality(InDoubt(m)) <= excuses[m] + 1
      /\ accepted[m] \in Nat /\ excuses[m] \in Nat
  BY <1>0, FS_CardinalityType DEF Counted, TypeOK
<1>5. /\ IsFiniteSet(InDoubt(m)') /\ Cardinality(InDoubt(m)') \in Nat
      /\ Cardinality(InDoubt(m)') <= Cardinality(InDoubt(m))
  <2>1. InDoubt(m)' = InDoubt(m) \ {a} /\ IsFiniteSet(InDoubt(m) \ {a})
    BY <1>2, <1>4, CountOf
  <2> QED
    BY <1>4, <2>1, CountOf, FS_CardinalityType
<1>6. CASE RecordSent(a)
  <2>1. status'[m] = "SENT"
    BY <1>0, <1>6 DEF RecordSent, TypeOK
  <2> QED
    BY <1>0, <1>3, <1>4, <1>5, <2>1 DEF Counted
<1>7. CASE RecordFailure(a) \/ LoseFailure(a)
  <2>1. a \in InDoubt(m)
    BY <1>0, <1>7 DEF InDoubt, RecordFailure, LoseFailure
  <2>2. Cardinality(InDoubt(m)') = Cardinality(InDoubt(m)) - 1
    BY <1>0, <1>2, <1>4, <2>1, CountOf
  <2> QED
    BY <1>0, <1>3, <1>4, <1>5, <2>2 DEF Counted
<1> QED
  BY <1>6, <1>7

\* A process that ends takes its attempts with it, with an excuse for each message
\* whose acceptance it had not recorded.
LEMMA CrashCounted ==
  ASSUME IInv, \A n \in Message : Counted(n), NEW p \in Process, Crash(p)
  PROVE  \A n \in Message : Counted(n)'
<1>0. TypeOK
  BY DEF IInv
<1> SUFFICES ASSUME NEW n \in Message  PROVE Counted(n)'
  OBVIOUS
<1> DEFINE known == \E a \in Working(n) : a[1] = p /\ job[a].at = "accepted"
<1>1. \A a \in Attempt : job'[a] = IF a[1] \in {p} THEN NoJob ELSE job[a]
  BY DEF Crash, Forget
<1>2. /\ InDoubt(n)' = {a \in InDoubt(n) : a[1] # p}
      /\ Working(n)' = {a \in Working(n) : a[1] # p}
  BY <1>1 DEF InDoubt, Working, NoJob, AtWork
<1>3. /\ IsFiniteSet(InDoubt(n)) /\ Cardinality(InDoubt(n)) \in Nat
      /\ accepted[n] + Cardinality(InDoubt(n)) <= excuses[n] + 1
      /\ accepted[n] \in Nat /\ excuses[n] \in Nat
  BY <1>0, FS_CardinalityType DEF Counted, TypeOK
<1>4. /\ IsFiniteSet(InDoubt(n)') /\ Cardinality(InDoubt(n)') \in Nat
      /\ Cardinality(InDoubt(n)') <= Cardinality(InDoubt(n))
  <2>1. InDoubt(n)' \subseteq InDoubt(n)
    BY <1>2
  <2> QED
    BY <1>3, <2>1, FS_Subset, FS_CardinalityType
<1>5. /\ accepted' = accepted /\ status' = status
      /\ excuses'[n] = IF known THEN excuses[n] + 1 ELSE excuses[n]
  BY DEF Crash, row
<1>6. ASSUME status[n] # "SENT", Working(n)' = {}  PROVE accepted[n] <= excuses'[n]
  <2>1. CASE known
    BY <1>3, <1>5, <2>1
  <2>2. CASE ~known /\ Working(n) = {}
    BY <1>5, <1>6, <2>2 DEF Counted
  <2>3. CASE ~known /\ Working(n) # {}
    <3>1. PICK a \in Working(n) : TRUE
      BY <2>3
    <3>2. a \in InDoubt(n)
      BY <1>2, <1>6, <2>3, <3>1 DEF Working, InDoubt, AtWork
    <3>3. Cardinality(InDoubt(n)) # 0
      BY <1>3, <3>2, FS_EmptySet
    <3> QED
      BY <1>3, <1>5, <2>3, <3>3
  <2> QED
    BY <2>1, <2>2, <2>3
<1> QED
  BY <1>3, <1>4, <1>5, <1>6 DEF Counted

\* Whoever takes up a message, or reads its row, is not at work on anything.
LEMMA StartCounted ==
  ASSUME IInv, \A n \in Message : Counted(n),
         \/ \E p \in Process, m \in Message : Enqueue(p, m)
         \/ \E p \in Process : Drain(p) \/ DrainNext(p)
         \/ \E a \in Attempt : Read(a)
  PROVE  \A n \in Message : Counted(n)'
<1>0. TypeOK
  BY DEF IInv
<1>1. \A n \in Message : status'[n] = "SENT" <=> status[n] = "SENT"
  BY <1>0 DEF TypeOK, Enqueue, Drain, DrainNext, Read, row
<1>2. UNCHANGED <<accepted, excuses>>
  BY DEF Enqueue, Drain, DrainNext, Read, history
<1>3. CASE UNCHANGED job
  BY <1>1, <1>2, <1>3 DEF Counted, InDoubt, Working
<1>4. ASSUME NEW a \in Attempt, NEW j, job' = [job EXCEPT ![a] = j],
             job[a].at \notin AtWork, j.at \notin AtWork
      PROVE  \A n \in Message : Counted(n)'
  BY <1>0, <1>1, <1>2, <1>4, JobSet, StillCounted
<1>5. ASSUME NEW p \in Process, NEW m \in Message, Enqueue(p, m)
      PROVE  \A n \in Message : Counted(n)'
  <2> DEFINE j == [NoJob EXCEPT !.at = "start", !.on = m]
  <2>1. /\ job' = [job EXCEPT ![<<p, m>>] = j] /\ <<p, m>> \in Attempt
        /\ j.at \notin AtWork /\ job[<<p, m>>].at \notin AtWork
    BY <1>5 DEF Enqueue, Attempt, NoJob, AtWork, Idle
  <2> HIDE DEF j
  <2> QED
    BY <2>1, <1>4
<1>6. ASSUME NEW p \in Process, NEW m \in Message, Idle(<<p, Loop>>),
             job' = [job EXCEPT ![<<p, Loop>>] = [NoJob EXCEPT !.at = "start", !.on = m]]
      PROVE  \A n \in Message : Counted(n)'
  <2> DEFINE j == [NoJob EXCEPT !.at = "start", !.on = m]
  <2>1. /\ job' = [job EXCEPT ![<<p, Loop>>] = j] /\ <<p, Loop>> \in Attempt
        /\ j.at \notin AtWork /\ job[<<p, Loop>>].at \notin AtWork
    BY <1>6 DEF Attempt, NoJob, AtWork, Idle
  <2> HIDE DEF j
  <2> QED
    BY <2>1, <1>4
<1>7. ASSUME NEW a \in Attempt, Read(a)  PROVE \A n \in Message : Counted(n)'
  <2>1. job[a].at \notin AtWork /\ (End(a) => job' = [job EXCEPT ![a] = NoJob])
        /\ NoJob.at \notin AtWork
    BY <1>7 DEF Read, AtWork, End, NoJob
  <2> DEFINE j == [at |-> "read", on |-> job[a].on, version |-> version[job[a].on],
                   attempts |-> attempts[job[a].on]]
  <2>2. End(a) \/ job' = [job EXCEPT ![a] = j]
    BY <1>7 DEF Read
  <2>3. j.at \notin AtWork
    BY DEF AtWork
  <2> HIDE DEF j
  <2> QED
    BY <2>1, <2>2, <2>3, <1>4
<1> QED
  <2>1. \A p \in Process : DrainNext(p) => \E m \in Message : Idle(<<p, Loop>>) /\
          job' = [job EXCEPT ![<<p, Loop>>] = [NoJob EXCEPT !.at = "start", !.on = m]]
    BY <1>0 DEF DrainNext, TypeOK
  <2>2. \A p \in Process : Drain(p) => UNCHANGED job
    BY DEF Drain
  <2> QED
    BY <1>3, <1>5, <1>6, <1>7, <2>1, <2>2

AllCounted == \A n \in Message : Counted(n)

LEMMA NextCounted == IInv /\ AllCounted /\ [Next]_vars => AllCounted'
<1> SUFFICES ASSUME IInv, \A n \in Message : Counted(n), [Next]_vars
             PROVE  \A n \in Message : Counted(n)'
  BY DEF AllCounted
<1>1. CASE \/ \E p \in Process, m \in Message : Enqueue(p, m)
           \/ \E p \in Process : Drain(p) \/ DrainNext(p)
           \/ \E a \in Attempt : Read(a)
  BY <1>1, StartCounted
<1>2. ASSUME NEW a \in Attempt, Claim(a)  PROVE \A n \in Message : Counted(n)'
  BY <1>2, ClaimCounted
<1>3. ASSUME NEW a \in Attempt, Accept(a) \/ Fail(a) \/ LoseAnswer(a)
      PROVE  \A n \in Message : Counted(n)'
  BY <1>3, SendCounted
<1>4. ASSUME NEW a \in Attempt, RecordSent(a) \/ RecordFailure(a) \/ LoseFailure(a)
      PROVE  \A n \in Message : Counted(n)'
  BY <1>4, RecordCounted
<1>5. ASSUME NEW p \in Process, Crash(p)  PROVE \A n \in Message : Counted(n)'
  BY <1>5, CrashCounted
<1>6. CASE Configure
  <2>1. \A a \in Attempt : job[a].at \notin AtWork
    BY <1>6 DEF Configure, IInv, Sending
  <2>2. \A a \in Attempt : job'[a].at \notin AtWork
    BY <1>6 DEF Configure, Forget, NoJob, AtWork, Attempt
  <2>3. \A n \in Message : /\ InDoubt(n)' = InDoubt(n) /\ Working(n)' = Working(n)
    BY <2>1, <2>2 DEF InDoubt, Working, AtWork
  <2> QED
    BY <1>6, <2>3 DEF Configure, Counted, row, history
<1>7. CASE UNCHANGED vars \/ \E m \in Message : BecomeDue(m)
  BY <1>7 DEF vars, row, history, BecomeDue, Counted, InDoubt, Working
<1> QED
  BY <1>1, <1>2, <1>3, <1>4, <1>5, <1>6, <1>7 DEF Next, Step

-----------------------------------------------------------------------------
(* Theorems                                                                 *)

\* Every reachable state is safe: the invariant the others follow from.
THEOREM Invariance == Spec => []IInv
BY InitSafe, NextSafe, PTL DEF Spec

\* The rows hold what the code writes, and no row counts more attempts than are
\* allowed.
THEOREM TypeCorrect == Spec => []TypeOK
<1>1. IInv => TypeOK
  BY DEF IInv
<1> QED
  BY Invariance, <1>1, PTL

\* Of the attempts that read a row as it was at one moment, at most one sends it:
\* the conditional update of the claim, whatever the processes and their loops do.
THEOREM OneSenderEach == Spec => []OneSenderPerReading
<1>1. IInv => OneSenderPerReading
  BY DEF IInv
<1> QED
  BY Invariance, <1>1, PTL

\* SENT is written only of what Graph took, and FAILED only after MAX_ATTEMPTS
\* attempts that ended in an error.
THEOREM RecordsStayTrue == Spec => []RecordsAreTrue
<1>1. IInv => RecordsAreTrue
  BY AttemptsAssumption DEF IInv, RecordsAreTrue, Recorded, TypeOK
<1> QED
  BY Invariance, <1>1, PTL

\* No message is taken more often than once beyond the claims taken from an attempt
\* still at work and the acceptances that were never recorded.
THEOREM DuplicatesAreExplained == Spec => []DuplicatesExplained
<1>1. Init => AllCounted
  <2> SUFFICES ASSUME Init, NEW n \in Message  PROVE Counted(n)
    BY DEF AllCounted
  <2>1. InDoubt(n) = {} /\ accepted[n] = 0 /\ excuses[n] = 0
    BY DEF Init, InDoubt, NoJob
  <2> QED
    BY <2>1, FS_EmptySet DEF Counted
<1>2. IInv /\ AllCounted => DuplicatesExplained
  <2> SUFFICES ASSUME IInv, \A n \in Message : Counted(n), NEW n \in Message
               PROVE  accepted[n] <= 1 + excuses[n]
    BY DEF DuplicatesExplained, AllCounted
  <2>1. Cardinality(InDoubt(n)) \in Nat /\ accepted[n] \in Nat /\ excuses[n] \in Nat
    BY FS_CardinalityType DEF Counted, IInv, TypeOK
  <2> QED
    BY <2>1 DEF Counted
<1> QED
  BY <1>1, <1>2, Invariance, NextCounted, PTL DEF Spec

=============================================================================

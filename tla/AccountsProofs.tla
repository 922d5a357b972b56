--------------------------- MODULE AccountsProofs ---------------------------
(***************************************************************************)
(* Somebody can always manage accounts, and the flag is on no account that  *)
(* cannot use it, for every set of persons and any number of sessions.      *)
(*                                                                          *)
(* What carries the first is that a guarded transaction the database would  *)
(* still let commit has somebody left beside its target: only a plain write *)
(* can have come in between, and a plain write takes nobody away, unless it *)
(* is a role change that did not see the flag, and then that is remembered  *)
(* for as long as such a transaction goes on.                               *)
(***************************************************************************)
EXTENDS Accounts, FiniteSetTheorems, TLAPS

SomebodyElse(p) == \E m \in Managers : m # p

GuardHolds ==
  \A s \in Session : job[s].at = "guarded" /\ s \notin clash => SomebodyElse(job[s].target) \/ missed

GrantsAreAllowed == \A s \in Session : job[s].change = "grant" => job[s].target \in allowed

DesertedIsIdle == deserted => Managers = {} /\ \A s \in Session : job[s].at = "idle"

IInv == TypeOK /\ SomebodyManages /\ FlagIsUsable /\ GuardHolds /\ GrantsAreAllowed /\ DesertedIsIdle

-----------------------------------------------------------------------------
LEMMA IdleIsJob == Idle \in Job /\ Idle.at = "idle" /\ Idle.change = "create"
<1>1. PICK q \in Person : TRUE
  BY FoundersAssumption
<1>2. Idle.target \in Person
  BY <1>1 DEF Idle
<1> QED
  BY <1>2 DEF Idle, Job, Change, Account, Nobody

\* An account is made with the role and the flag together, or with neither.
LEMMA CreatedRow ==
  ASSUME NEW j \in Job, NEW a, j.change = "create", NEW b \in Written(j, a)
  PROVE  b \in Account /\ b.manages = b.flag /\ (b.flag => j.target \in allowed)
<1> DEFINE M == {FALSE} \cup (IF j.target \in allowed THEN {TRUE} ELSE {})
<1>1. Written(j, a) = {[there |-> TRUE, manages |-> m, flag |-> m, active |-> TRUE] : m \in M}
  BY DEF Written
<1>2. PICK m \in M : b = [there |-> TRUE, manages |-> m, flag |-> m, active |-> TRUE]
  BY <1>1
<1>3. CASE m = TRUE
  <2>1. b = [there |-> TRUE, manages |-> TRUE, flag |-> TRUE, active |-> TRUE] /\ j.target \in allowed
    BY <1>2, <1>3
  <2> QED
    BY <2>1 DEF Account
<1>4. CASE m = FALSE
  <2>1. b = [there |-> TRUE, manages |-> FALSE, flag |-> FALSE, active |-> TRUE]
    BY <1>2, <1>4
  <2> QED
    BY <2>1 DEF Account
<1>5. m \in {TRUE, FALSE}
  OBVIOUS
<1> QED
  BY <1>3, <1>4, <1>5

\* A write gives a row of the same type.
LEMMA WrittenIsAccount ==
  ASSUME NEW j \in Job, NEW a \in Account, NEW b \in Written(j, a)
  PROVE  b \in Account
<1>1. CASE j.change = "create"
  BY <1>1, CreatedRow
<1>2. CASE j.change = "demote"
  <2>1. b = [a EXCEPT !.manages = FALSE, !.flag = a.flag /\ ~LosesRights(j.change, j.seen)]
    BY <1>2 DEF Written
  <2>2. (a.flag /\ ~LosesRights(j.change, j.seen)) \in BOOLEAN
    OBVIOUS
  <2> QED
    BY <2>1, <2>2 DEF Account
<1>3. CASE j.change \notin {"create", "demote"}
  BY <1>3 DEF Written, Account, Job, Change
<1> QED
  BY <1>1, <1>2, <1>3

\* What Save writes, named.
LEMMA SaveWrites ==
  ASSUME TypeOK, NEW s \in Session, Save(s)
  PROVE  \E b \in Written(job[s], account[job[s].target]) :
           /\ account' = [account EXCEPT ![job[s].target] = b]
           /\ b \in Account /\ account'[job[s].target] = b
           /\ \A p \in Person : p # job[s].target => account'[p] = account[p]
<1>1. PICK b \in Written(job[s], account[job[s].target]) : account' = [account EXCEPT ![job[s].target] = b]
  BY DEF Save
<1>2. job[s] \in Job /\ job[s].target \in Person /\ account[job[s].target] \in Account
  BY DEF TypeOK, Job
<1>3. b \in Account
  BY <1>2, WrittenIsAccount
<1> QED
  BY <1>1, <1>2, <1>3 DEF TypeOK

\* What Save does beside the row, and what was asked before it.
LEMMA SaveRemembers ==
  ASSUME TypeOK, NEW s \in Session, Save(s)
  PROVE  LET j == job[s]  a == account[job[s].target]
             lost == Unseeing(j, a) /\ Manages(j.target) IN
         /\ job' = [job EXCEPT ![s] = Idle] /\ UNCHANGED <<allowed, requests, deploys, deserted>>
         /\ clash' = (clash \cup Overtaken(s)) \ {s}
         /\ missed' = ((missed \/ lost) /\ (Managers' = {} \/ \E q \in Session : job'[q].at = "guarded"))
         /\ blind' = {p \in blind \cup (IF Blind(j, a) THEN {j.target} ELSE {}) :
                        account'[p].flag /\ ~account'[p].manages}
         /\ struck' = {p \in struck : account'[p].flag}
BY DEF Save, End, bounds

\* A plain write takes nobody away from the managers, unless it is a role change that had
\* not seen the flag of a manager.
LEMMA PlainKeepsManagers ==
  ASSUME TypeOK, NEW s \in Session, PlainWrite(s), NEW m \in Managers,
         ~(Unseeing(job[s], account[job[s].target]) /\ Manages(job[s].target))
  PROVE  m \in Managers'
<1> DEFINE j == job[s]  t == job[s].target
<1>1. /\ j \in Job /\ t \in Person /\ account[t] \in Account /\ Save(s) /\ ~AsksWhoIsLeft(j)
      /\ j.change = "create" => ~account[t].there
  BY DEF PlainWrite, TypeOK, Job
<1>2. PICK b \in Written(j, account[t]) :
        account'[t] = b /\ \A p \in Person : p # t => account'[p] = account[p]
  BY <1>1, SaveWrites
<1>3. allowed' = allowed
  BY <1>1, SaveRemembers
<1>4. CASE m # t
  BY <1>2, <1>3, <1>4 DEF Managers, Manages
<1>5. CASE m = t
  <2>1. account[t].there /\ account[t].active /\ account[t].flag /\ account[t].manages /\ t \in allowed
    BY <1>5 DEF Managers, Manages
  <2>2. j.change \in {"enable", "promote", "demote", "grant"}
    BY <1>1, <2>1 DEF AsksWhoIsLeft, Job, Change
  <2>3. CASE j.change = "demote"
    <3>1. Manages(t)
      BY <2>1 DEF Manages
    <3>2. j.seen.flag
      BY <2>1, <2>3, <3>1 DEF Unseeing
    <3> QED
      BY <1>1, <2>3, <3>2 DEF AsksWhoIsLeft, LosesRights
  <2>4. CASE j.change \in {"enable", "promote", "grant"}
    <3>1. b.there /\ b.active /\ b.flag /\ b.manages
      BY <1>1, <2>1, <2>4 DEF Written, Account
    <3> QED
      BY <1>2, <1>3, <1>5, <2>1, <3>1 DEF Managers, Manages
  <2> QED
    BY <2>2, <2>3, <2>4
<1> QED
  BY <1>4, <1>5

\* A guarded write changes its target and nobody else.
LEMMA GuardedKeepsOthers ==
  ASSUME TypeOK, NEW s \in Session, Save(s), NEW m \in Managers, m # job[s].target
  PROVE  m \in Managers'
BY SaveWrites, SaveRemembers DEF Managers, Manages

-----------------------------------------------------------------------------
LEMMA InitIInv == Init => IInv
<1> SUFFICES ASSUME Init PROVE IInv
  OBVIOUS
<1>1. account \in [Person -> Account] /\ job \in [Session -> Job]
  BY IdleIsJob DEF Init, Account, Nobody
<1>2. TypeOK
  <2>1. allowed \subseteq Person /\ clash = {} /\ blind = {} /\ struck = {}
    BY FoundersAssumption DEF Init
  <2>2. requests \in 0 .. MaxRequests /\ deploys \in 0 .. MaxDeploys
    BY BoundAssumption DEF Init
  <2>3. missed \in BOOLEAN /\ deserted \in BOOLEAN
    BY DEF Init
  <2> QED
    BY <1>1, <2>1, <2>2, <2>3 DEF TypeOK
<1>3. PICK f \in Founders : TRUE
  BY FoundersAssumption
<1>4. f \in Managers
  BY <1>3, FoundersAssumption DEF Init, Managers, Manages
<1>5. FlagIsUsable
  BY FoundersAssumption DEF Init, FlagIsUsable, Nobody
<1> QED
  BY <1>2, <1>4, <1>5, IdleIsJob
  DEF IInv, SomebodyManages, GuardHolds, GrantsAreAllowed, DesertedIsIdle, Init

LEMMA AskPreserves ==
  ASSUME IInv, NEW s \in Session, NEW actor \in Person, NEW p \in Person, NEW c \in Change,
         Ask(s, actor, c, p)
  PROVE  IInv'
<1> DEFINE j == [at |-> "read", change |-> c, target |-> p, seen |-> account[p]]
<1> USE DEF IInv
<1>1. job' = [job EXCEPT ![s] = j]
      /\ UNCHANGED <<account, allowed, clash, deploys, missed, blind, struck, deserted>>
  BY DEF Ask
<1>2. j \in Job
  BY DEF TypeOK, Job
<1>3. s \notin clash
  BY DEF Ask, TypeOK
<1>4. TypeOK'
  <2>1. clash' \subseteq {q \in Session : job'[q].at = "guarded"}
    BY <1>1, <1>3 DEF TypeOK
  <2>2. requests' \in 0 .. MaxRequests
    BY BoundAssumption DEF Ask, TypeOK
  <2>3. job' \in [Session -> Job]
    BY <1>1, <1>2 DEF TypeOK
  <2> QED
    BY <1>1, <2>1, <2>2, <2>3 DEF TypeOK
<1>5. SomebodyManages' /\ FlagIsUsable'
  BY <1>1 DEF SomebodyManages, FlagIsUsable, Managers, Manages
<1>6. GuardHolds'
  <2>1. \A q \in Session : job'[q].at = "guarded" => q # s /\ job'[q] = job[q]
    BY <1>1 DEF TypeOK
  <2>2. Managers' = Managers
    BY <1>1 DEF Managers, Manages
  <2> QED
    BY <1>1, <2>1, <2>2 DEF GuardHolds, SomebodyElse
<1>7. GrantsAreAllowed'
  <2>1. c = "grant" => p \in allowed
    BY DEF Ask, Accepts
  <2> QED
    BY <1>1, <2>1 DEF GrantsAreAllowed, TypeOK
<1>8. DesertedIsIdle'
  <2>1. Managers # {}
    BY DEF Ask, Managers
  <2> QED
    BY <1>1, <2>1 DEF DesertedIsIdle
<1> QED
  BY <1>4, <1>5, <1>6, <1>7, <1>8

LEMMA GuardPreserves ==
  ASSUME IInv, NEW s \in Session, Guard(s)
  PROVE  IInv'
<1> USE DEF IInv
<1>1. job' = [job EXCEPT ![s].at = "guarded"] /\ ~deserted
      /\ UNCHANGED <<account, allowed, clash, requests, deploys, missed, blind, struck, deserted>>
  BY DEF Guard, history, bounds, DesertedIsIdle
<1>2. /\ job'[s].at = "guarded" /\ job'[s].target = job[s].target /\ job'[s].change = job[s].change
      /\ job' \in [Session -> Job]
      /\ \A q \in Session : q # s => job'[q] = job[q]
  BY <1>1 DEF TypeOK, Job
<1>3. TypeOK'
  BY <1>1, <1>2 DEF TypeOK
<1>4. SomebodyManages' /\ FlagIsUsable'
  BY <1>1 DEF SomebodyManages, FlagIsUsable, Managers, Manages
<1>5. Managers' = Managers
  BY <1>1 DEF Managers, Manages
<1>6. SomebodyElse(job[s].target) \/ missed
  <2> SUFFICES ASSUME ~missed PROVE SomebodyElse(job[s].target)
    OBVIOUS
  <2>1. Managers # {}
    BY <1>1 DEF SomebodyManages
  <2>2. CASE job[s].target \notin Managers
    BY <2>1, <2>2 DEF SomebodyElse
  <2>3. CASE job[s].target \in Managers
    <3>1. ~(Cardinality(Managers) <= 1)
      BY <2>3 DEF Guard
    <3>2. ASSUME Managers = {job[s].target} PROVE FALSE
      <4>1. Cardinality({job[s].target}) = 1
        BY FS_Singleton
      <4>2. ~(Cardinality({job[s].target}) <= 1)
        BY <3>1, <3>2
      <4> QED
        BY <4>1, <4>2
    <3> QED
      BY <2>3, <3>2 DEF SomebodyElse
  <2> QED
    BY <2>2, <2>3
<1>7. GuardHolds'
  BY <1>1, <1>2, <1>5, <1>6 DEF GuardHolds, SomebodyElse
<1>8. GrantsAreAllowed' /\ DesertedIsIdle'
  BY <1>1, <1>2 DEF GrantsAreAllowed, DesertedIsIdle
<1> QED
  BY <1>3, <1>4, <1>7, <1>8

LEMMA RefusePreserves ==
  ASSUME IInv, NEW s \in Session, Refuse(s)
  PROVE  IInv'
<1> USE DEF IInv
<1>1. job' = [job EXCEPT ![s] = Idle] /\ clash' = clash \ {s} /\ ~deserted
      /\ missed' = (missed /\ (Managers' = {} \/ \E q \in Session : job'[q].at = "guarded"))
      /\ UNCHANGED <<account, allowed, requests, deploys, blind, struck, deserted>>
  BY DEF Refuse, End, bounds, DesertedIsIdle, TypeOK
<1>2. job'[s] = Idle /\ job' \in [Session -> Job] /\ \A q \in Session : q # s => job'[q] = job[q]
  BY <1>1, IdleIsJob DEF TypeOK
<1>3. TypeOK'
  BY <1>1, <1>2 DEF TypeOK
<1>4. Managers' = Managers
  BY <1>1 DEF Managers, Manages
<1>5. SomebodyManages' /\ FlagIsUsable'
  BY <1>1, <1>4 DEF SomebodyManages, FlagIsUsable
<1>6. GuardHolds'
  BY <1>1, <1>2, <1>4, IdleIsJob DEF GuardHolds, SomebodyElse
<1>7. GrantsAreAllowed' /\ DesertedIsIdle'
  BY <1>1, <1>2, IdleIsJob DEF GrantsAreAllowed, DesertedIsIdle
<1> QED
  BY <1>3, <1>5, <1>6, <1>7

LEMMA DeployPreserves ==
  ASSUME IInv, NEW list \in SUBSET Person, Deploy(list)
  PROVE  IInv'
<1> USE DEF IInv
<1>1. /\ account' = account /\ allowed' = list /\ job' = [s \in Session |-> Idle] /\ clash' = {}
      /\ requests' = requests /\ deploys' = deploys + 1 /\ deploys < MaxDeploys
      /\ deserted' = (Managers' = {}) /\ missed' = (missed /\ Managers' = {})
      /\ blind' = blind /\ struck' = {p \in Person \ list : account[p].flag}
  BY DEF Deploy
<1>2. \A s \in Session : job'[s] = Idle
  BY <1>1
<1>3. TypeOK'
  <2>1. job' \in [Session -> Job]
    BY <1>1, IdleIsJob
  <2>2. deploys' \in 0 .. MaxDeploys
    BY <1>1, BoundAssumption DEF TypeOK
  <2>3. missed' \in BOOLEAN /\ deserted' \in BOOLEAN
    BY <1>1
  <2> QED
    BY <1>1, <2>1, <2>2, <2>3 DEF TypeOK
<1>4. SomebodyManages' /\ DesertedIsIdle'
  BY <1>1, <1>2, IdleIsJob DEF SomebodyManages, DesertedIsIdle
<1>5. FlagIsUsable'
  BY <1>1 DEF FlagIsUsable
<1>6. GuardHolds' /\ GrantsAreAllowed'
  BY <1>2, IdleIsJob DEF GuardHolds, GrantsAreAllowed
<1> QED
  BY <1>3, <1>4, <1>5, <1>6

\* What any write keeps: types, the flag where it can be used, and the server attended.
LEMMA SaveKeeps ==
  ASSUME IInv, NEW s \in Session, Save(s), job[s].at # "idle"
  PROVE  TypeOK' /\ FlagIsUsable' /\ GrantsAreAllowed' /\ DesertedIsIdle' /\ ~deserted
<1> DEFINE j == job[s]  t == job[s].target
<1> USE DEF IInv
<1>1. j \in Job /\ t \in Person /\ account[t] \in Account
  BY DEF TypeOK, Job
<1>2. PICK b \in Written(j, account[t]) :
        /\ account' = [account EXCEPT ![t] = b] /\ b \in Account /\ account'[t] = b
        /\ \A p \in Person : p # t => account'[p] = account[p]
  BY SaveWrites
<1>3. /\ job' = [job EXCEPT ![s] = Idle]
      /\ requests' = requests /\ deploys' = deploys /\ allowed' = allowed /\ deserted' = deserted
      /\ clash' = (clash \cup Overtaken(s)) \ {s}
      /\ missed' \in BOOLEAN
      /\ blind' = {p \in blind \cup (IF Blind(j, account[t]) THEN {t} ELSE {}) :
                     account'[p].flag /\ ~account'[p].manages}
      /\ struck' = {p \in struck : account'[p].flag}
  BY SaveRemembers
<1>4. job'[s] = Idle /\ job' \in [Session -> Job] /\ \A q \in Session : q # s => job'[q] = job[q]
  BY <1>3, IdleIsJob DEF TypeOK
<1>5. TypeOK'
  <2>1. Overtaken(s) \subseteq {q \in Session : job[q].at = "guarded"}
    BY DEF Overtaken
  <2>2. clash' \subseteq {q \in Session : job'[q].at = "guarded"}
    BY <1>3, <1>4, <2>1 DEF TypeOK
  <2>3. account' \in [Person -> Account] /\ blind' \subseteq Person /\ struck' \subseteq Person
    BY <1>1, <1>2, <1>3 DEF TypeOK
  <2> QED
    BY <1>3, <1>4, <2>2, <2>3 DEF TypeOK
<1>6. GrantsAreAllowed'
  BY <1>3, <1>4, IdleIsJob DEF GrantsAreAllowed
<1>7. ~deserted /\ DesertedIsIdle'
  BY <1>3 DEF DesertedIsIdle
<1>8. j.change \in {"disable", "enable", "promote", "revoke"} =>
        (b.flag => account[t].flag) /\ (account[t].manages => b.manages)
  BY <1>1 DEF Written, Account
<1>9. j.change = "demote" => (b.flag => account[t].flag /\ ~j.seen.flag)
  BY <1>1 DEF Written, Account, LosesRights
<1>10. j.change = "grant" => b.manages = account[t].manages
  BY <1>1 DEF Written, Account
<1>11. j.change = "create" => b.manages = b.flag /\ (b.flag => t \in allowed)
  BY <1>1, CreatedRow
<1>12. account[t].flag => (account[t].manages \/ t \in blind) /\ (t \in allowed \/ t \in struck)
  BY <1>1 DEF FlagIsUsable
<1>13. b.flag => b.manages \/ t \in blind'
  <2> SUFFICES ASSUME b.flag, ~b.manages PROVE t \in blind \/ Blind(j, account[t])
    BY <1>1, <1>2, <1>3
  <2>1. CASE j.change = "demote"
    BY <1>9, <2>1 DEF Blind, Unseeing
  <2>2. CASE j.change = "grant"
    BY <1>10, <2>2 DEF Blind
  <2>3. CASE j.change \in {"disable", "enable", "promote", "revoke"}
    BY <1>8, <1>12, <2>3
  <2> QED
    BY <1>1, <1>11, <2>1, <2>2, <2>3 DEF Job, Change
<1>14. b.flag => t \in allowed' \/ t \in struck'
  <2> SUFFICES ASSUME b.flag PROVE t \in allowed \/ t \in struck
    BY <1>2, <1>3
  <2>1. CASE j.change = "grant"
    BY <2>1 DEF GrantsAreAllowed
  <2>2. CASE j.change \in {"disable", "enable", "promote", "revoke", "demote"}
    BY <1>8, <1>9, <1>12, <2>2
  <2> QED
    BY <1>1, <1>11, <2>1, <2>2 DEF Job, Change
<1>15. FlagIsUsable'
  <2> SUFFICES ASSUME NEW p \in Person, account'[p].flag
               PROVE  (account'[p].manages \/ p \in blind') /\ (p \in allowed' \/ p \in struck')
    BY DEF FlagIsUsable
  <2>1. CASE p = t
    BY <1>2, <1>13, <1>14, <2>1
  <2>2. CASE p # t
    BY <1>2, <1>3, <2>2 DEF FlagIsUsable
  <2> QED
    BY <2>1, <2>2
<1> QED
  BY <1>5, <1>6, <1>7, <1>15

\* Who is left of the guarded transactions once this one has written.
LEMMA StillGuarded ==
  ASSUME IInv, NEW s \in Session, Save(s), NEW q \in Session, job'[q].at = "guarded", q \notin clash'
  PROVE  /\ q # s /\ job'[q] = job[q] /\ q \notin clash
         /\ job[s].at # "guarded" /\ job[q].target # job[s].target
<1>1. job' = [job EXCEPT ![s] = Idle] /\ clash' = (clash \cup Overtaken(s)) \ {s}
  BY SaveRemembers DEF IInv
<1>2. q # s /\ job'[q] = job[q]
  BY <1>1, IdleIsJob DEF IInv, TypeOK
<1>3. q \notin clash /\ q \notin Overtaken(s)
  BY <1>1, <1>2
<1> QED
  BY <1>2, <1>3 DEF Overtaken

LEMMA GuardedWritePreserves ==
  ASSUME IInv, NEW s \in Session, GuardedWrite(s)
  PROVE  IInv'
<1>1. Save(s) /\ job[s].at = "guarded" /\ s \notin clash
  BY DEF GuardedWrite
<1>2. TypeOK' /\ FlagIsUsable' /\ GrantsAreAllowed' /\ DesertedIsIdle'
  BY <1>1, SaveKeeps
<1>3. SomebodyManages'
  <2>1. CASE missed
    BY <1>1, <2>1, SaveRemembers DEF IInv, SomebodyManages
  <2>2. CASE ~missed
    <3>1. PICK m \in Managers : m # job[s].target
      BY <1>1, <2>2 DEF IInv, GuardHolds, SomebodyElse
    <3>2. m \in Managers'
      BY <1>1, <3>1, GuardedKeepsOthers DEF IInv
    <3> QED
      BY <3>2 DEF SomebodyManages
  <2> QED
    BY <2>1, <2>2
<1>4. GuardHolds'
  <2>1. \A q \in Session : ~(job'[q].at = "guarded" /\ q \notin clash')
    BY <1>1, StillGuarded
  <2> QED
    BY <2>1 DEF GuardHolds
<1> QED
  BY <1>2, <1>3, <1>4 DEF IInv

LEMMA PlainWritePreserves ==
  ASSUME IInv, NEW s \in Session, PlainWrite(s)
  PROVE  IInv'
<1> DEFINE lost == Unseeing(job[s], account[job[s].target]) /\ Manages(job[s].target)
<1>1. Save(s) /\ job[s].at = "read"
  BY DEF PlainWrite
<1>2. TypeOK' /\ FlagIsUsable' /\ GrantsAreAllowed' /\ DesertedIsIdle' /\ ~deserted
  BY <1>1, SaveKeeps
<1>3. ~lost => Managers \subseteq Managers'
  BY PlainKeepsManagers DEF IInv
<1>4. missed' = ((missed \/ lost) /\ (Managers' = {} \/ \E q \in Session : job'[q].at = "guarded"))
  BY <1>1, SaveRemembers DEF IInv
<1>5. SomebodyManages'
  BY <1>2, <1>3, <1>4 DEF IInv, SomebodyManages
<1>6. GuardHolds'
  <2> SUFFICES ASSUME NEW q \in Session, job'[q].at = "guarded", q \notin clash', ~missed'
               PROVE  \E m \in Managers' : m # job'[q].target
    BY DEF GuardHolds, SomebodyElse
  <2>1. job'[q] = job[q] /\ q \notin clash
    BY <1>1, StillGuarded
  <2>2. ~missed /\ ~lost
    BY <1>4
  <2>3. \E m \in Managers : m # job[q].target
    BY <2>1, <2>2 DEF IInv, GuardHolds, SomebodyElse
  <2> QED
    BY <1>3, <2>1, <2>2, <2>3
<1> QED
  BY <1>2, <1>5, <1>6 DEF IInv

-----------------------------------------------------------------------------
(* The theorems *)

\* Every reachable state satisfies the inductive invariant: user-service.ts as a whole.
THEOREM Invariance == Spec => []IInv
<1>1. IInv /\ [Next]_vars => IInv'
  <2> SUFFICES ASSUME IInv, [Next]_vars PROVE IInv'
    OBVIOUS
  <2>1. CASE UNCHANGED vars
    BY <2>1 DEF vars, history, bounds, IInv, TypeOK, SomebodyManages, FlagIsUsable, GuardHolds,
                GrantsAreAllowed, DesertedIsIdle, SomebodyElse, Managers, Manages
  <2>2. ASSUME NEW s \in Session, Serve(s) PROVE IInv'
    BY <2>2, AskPreserves, GuardPreserves, GuardedWritePreserves, PlainWritePreserves,
       RefusePreserves DEF Serve
  <2>3. ASSUME NEW list \in SUBSET Person, Deploy(list) PROVE IInv'
    BY <2>3, DeployPreserves
  <2> QED
    BY <2>1, <2>2, <2>3 DEF Next
<1> QED
  BY <1>1, InitIInv, PTL DEF Spec

\* Somebody can manage accounts, but for an allowlist that left nobody and a role change
\* that missed the flag of a manager (guarded, assertNotLastSuperAdmin, changeRole).
THEOREM SomebodyIsLeft == Spec => []SomebodyManages
BY Invariance, PTL DEF IInv

\* The flag is only on accounts that can use it, but for those written blind and those whose
\* address was struck off the allowlist (createUser, changeRole, setSuperAdmin).
THEOREM FlagsAreUsable == Spec => []FlagIsUsable
BY Invariance, PTL DEF IInv

=============================================================================

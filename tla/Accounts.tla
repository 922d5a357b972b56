------------------------------ MODULE Accounts ------------------------------
(***************************************************************************)
(* Who may manage accounts: services/user-service.ts and routes/admin.ts,   *)
(* behind the gates of middleware/auth.ts.                                  *)
(*                                                                          *)
(* An account manages accounts if it is active, has the super-administrator *)
(* flag, an address on the allowlist and the role that grants account       *)
(* management.  A request reads its target and decides on what it read;     *)
(* then, in a serializable transaction that is not retried, it asks whether *)
(* the target is the last manager, where it takes rights away, and writes.  *)
(*                                                                          *)
(* The allowlist is read when the server starts: to change it is to start   *)
(* the server again, and the requests it was serving are lost.              *)
(***************************************************************************)
EXTENDS Naturals, FiniteSets

CONSTANTS
  Person,
  Listed,        \* SUPER_ADMIN_EMAILS, at first
  Founders,      \* those who manage accounts at first
  Session,
  MaxRequests,   \* bound: requests made
  MaxDeploys     \* bound: starts of the server with another allowlist

ASSUME FoundersAssumption == Founders # {} /\ Founders \subseteq Listed /\ Listed \subseteq Person
ASSUME BoundAssumption == MaxRequests \in Nat /\ MaxDeploys \in Nat

VARIABLES
  account,    \* users
  allowed,    \* isAllowlistedSuperAdmin: the allowlist the server was started with
  job,        \* per session: the request it is serving
  clash,      \* sessions whose transaction the database will refuse
  requests,   \* history: how many were begun
  deploys,    \* history: how often the server was started again
  missed,     \* history: a role change took a manager away without having seen the flag, and
              \* nobody is left, or a request that may have counted on that manager goes on
  blind,      \* history: those left with the flag and no role by a request that had read the
              \* account before another changed it
  struck,     \* history: those left with the flag when their address was off the new allowlist
  deserted    \* history: nobody on the new allowlist managed accounts

bounds == <<requests, deploys>>
history == <<bounds, missed, blind, struck, deserted>>
vars == <<account, allowed, job, clash, history>>

-----------------------------------------------------------------------------
Account == [there : BOOLEAN, manages : BOOLEAN, flag : BOOLEAN, active : BOOLEAN]

Nobody == [there |-> FALSE, manages |-> FALSE, flag |-> FALSE, active |-> FALSE]

Change == {"create", "disable", "enable", "promote", "demote", "grant", "revoke"}

Job == [at : {"idle", "read", "guarded"}, change : Change, target : Person, seen : Account]

Idle == [at |-> "idle", change |-> "create", target |-> CHOOSE p \in Person : TRUE, seen |-> Nobody]

\* effectiveSuperAdmins
Manages(p) ==
  account[p].there /\ account[p].active /\ account[p].flag /\ account[p].manages /\ p \in allowed

Managers == {p \in Person : Manages(p)}

-----------------------------------------------------------------------------
(* What a request asks for, and is refused, on the account as it was read *)

\* Mutant of LosesRights: the role changes, and the flag stays.
RoleAlone(change, seen) == FALSE

\* A demotion takes the flag with it, if there was one to see.
LosesRights(change, seen) == change = "demote" /\ seen.flag

\* assertNotSelf
OnSelf(change) == change \in {"create", "enable"}

\* Refusals, and answers with nothing to do.  Of the roles only one manages accounts: to
\* demote is to give any of the others, to whoever does not have that one already.
Accepts(change, p, seen) ==
  CASE change = "create"  -> ~seen.there
    [] change = "disable" -> seen.there /\ seen.active
    [] change = "enable"  -> seen.there /\ ~seen.active
    [] change = "promote" -> seen.there /\ ~seen.manages /\ p \in allowed
    [] change = "demote"  -> seen.there
    [] change = "grant"   -> seen.there /\ ~seen.flag /\ seen.manages /\ p \in allowed
    [] change = "revoke"  -> seen.there /\ seen.flag

\* Whether the transaction begins with assertNotLastSuperAdmin.
AsksWhoIsLeft(j) == j.change \in {"disable", "revoke"} \/ LosesRights(j.change, j.seen)

\* The gates, and the read of the target.
Ask(s, actor, change, p) ==
  /\ job[s].at = "idle" /\ requests < MaxRequests
  /\ Manages(actor) /\ (actor = p => OnSelf(change))
  /\ Accepts(change, p, account[p])
  /\ job' = [job EXCEPT ![s] = [at |-> "read", change |-> change, target |-> p, seen |-> account[p]]]
  /\ requests' = requests + 1
  /\ UNCHANGED <<account, allowed, clash, deploys, missed, blind, struck, deserted>>

-----------------------------------------------------------------------------
(* The transaction *)

\* What the write makes of the row.  An account is made with the manager's role and the
\* flag together, or with neither.
Written(j, a) ==
  CASE j.change = "create"  -> {[there |-> TRUE, manages |-> m, flag |-> m, active |-> TRUE] :
                                  m \in {FALSE} \cup (IF j.target \in allowed THEN {TRUE} ELSE {})}
    [] j.change = "disable" -> {[a EXCEPT !.active = FALSE]}
    [] j.change = "enable"  -> {[a EXCEPT !.active = TRUE]}
    [] j.change = "promote" -> {[a EXCEPT !.manages = TRUE]}
    [] j.change = "demote"  -> {[a EXCEPT !.manages = FALSE,
                                          !.flag = @ /\ ~LosesRights(j.change, j.seen)]}
    [] j.change = "grant"   -> {[a EXCEPT !.flag = TRUE]}
    [] j.change = "revoke"  -> {[a EXCEPT !.flag = FALSE]}

\* The request is answered, and what it had read of the managers is done with.
End(s, lost) ==
  /\ job' = [job EXCEPT ![s] = Idle]
  /\ missed' = ((missed \/ lost) /\ (Managers' = {} \/ \E q \in Session : job'[q].at = "guarded"))

\* Mutant of Overtaken: nobody is refused, as at read committed.
NobodyOvertaken(s) == {}

\* Guarded transactions read all the managers: one that commits refuses the others.  One
\* that only writes refuses those about the same account.
Overtaken(s) ==
  {q \in Session \ {s} :
     job[q].at = "guarded" /\ (job[s].at = "guarded" \/ job[q].target = job[s].target)}

\* A role change that had not seen the flag of the account it changes.
Unseeing(j, a) == j.change = "demote" /\ a.flag /\ ~j.seen.flag

\* Whether the write rests on a reading of the account that another has overtaken.
Blind(j, a) == Unseeing(j, a) \/ (j.change = "grant" /\ ~a.manages)

Save(s) ==
  LET j == job[s]  a == account[j.target] IN
  /\ \E b \in Written(j, a) : account' = [account EXCEPT ![j.target] = b]
  /\ UNCHANGED <<allowed, bounds, deserted>>
  /\ clash' = (clash \cup Overtaken(s)) \ {s}
  /\ blind' = {p \in blind \cup (IF Blind(j, a) THEN {j.target} ELSE {}) :
                 account'[p].flag /\ ~account'[p].manages}
  /\ struck' = {p \in struck : account'[p].flag}
  /\ End(s, Unseeing(j, a) /\ Manages(j.target))

\* assertNotLastSuperAdmin, on the transaction's snapshot
Guard(s) ==
  /\ job[s].at = "read" /\ AsksWhoIsLeft(job[s])
  /\ ~(Cardinality(Managers) <= 1 /\ job[s].target \in Managers)
  /\ job' = [job EXCEPT ![s].at = "guarded"]
  /\ UNCHANGED <<account, allowed, clash, history>>

GuardedWrite(s) == job[s].at = "guarded" /\ s \notin clash /\ Save(s)

\* No rights are taken away: a write and nothing else.  A new address must still be free.
PlainWrite(s) ==
  /\ job[s].at = "read" /\ ~AsksWhoIsLeft(job[s])
  /\ (job[s].change = "create" => ~account[job[s].target].there)
  /\ Save(s)

\* The last manager's account, an address that is taken, a transaction the database
\* refuses (as it may without a clash): an error, and nothing is written.
Refuse(s) ==
  /\ job[s].at # "idle"
  /\ clash' = clash \ {s}
  /\ UNCHANGED <<account, allowed, bounds, blind, struck, deserted>>
  /\ End(s, FALSE)

-----------------------------------------------------------------------------
(* Another allowlist *)

\* The server is stopped, with the requests it was serving, and started on another list.
Deploy(list) ==
  /\ deploys < MaxDeploys /\ list # allowed
  /\ allowed' = list /\ UNCHANGED <<account, requests, blind>>
  /\ job' = [s \in Session |-> Idle] /\ clash' = {}
  /\ deploys' = deploys + 1
  /\ deserted' = (Managers' = {})
  /\ missed' = (missed /\ Managers' = {})
  /\ struck' = {p \in Person \ list : account[p].flag}

-----------------------------------------------------------------------------
Init ==
  /\ account = [p \in Person |->
       IF p \in Founders THEN [there |-> TRUE, manages |-> TRUE, flag |-> TRUE, active |-> TRUE] ELSE Nobody]
  /\ allowed = Listed
  /\ job = [s \in Session |-> Idle] /\ clash = {}
  /\ requests = 0 /\ deploys = 0
  /\ missed = FALSE /\ blind = {} /\ struck = {} /\ deserted = FALSE

Serve(s) ==
  \/ \E actor, p \in Person, change \in Change : Ask(s, actor, change, p)
  \/ Guard(s) \/ GuardedWrite(s) \/ PlainWrite(s) \/ Refuse(s)

Next ==
  \/ \E s \in Session : Serve(s)
  \/ \E list \in SUBSET Person : Deploy(list)

Spec == Init /\ [][Next]_vars

-----------------------------------------------------------------------------
(* What it promises *)

TypeOK ==
  /\ account \in [Person -> Account] /\ allowed \subseteq Person /\ job \in [Session -> Job]
  /\ clash \subseteq {s \in Session : job[s].at = "guarded"}
  /\ requests \in 0 .. MaxRequests /\ deploys \in 0 .. MaxDeploys
  /\ missed \in BOOLEAN /\ blind \subseteq Person /\ struck \subseteq Person /\ deserted \in BOOLEAN

\* Somebody can manage accounts, whoever is disabled, demoted or deprived at once, but for
\* an allowlist that left nobody, and a role change that took a manager away, without the
\* guard, because it had read the account before the flag was given: it may have taken the
\* last one, or the one that a guarded request still going on had counted as left (guarded,
\* assertNotLastSuperAdmin, changeRole).
SomebodyManages == Managers # {} \/ missed \/ deserted

\* The flag is on no account that cannot use it.  Without the role: only where a role change
\* had not seen the flag, or the flag was given by a request that had seen the role before it
\* was taken.  Off the allowlist: only those who had it when their address was struck off it
\* (createUser, changeRole, setSuperAdmin).
FlagIsUsable ==
  \A p \in Person : account[p].flag =>
    (account[p].manages \/ p \in blind) /\ (p \in allowed \/ p \in struck)

=============================================================================

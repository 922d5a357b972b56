----------------------------- MODULE MCWorkflow -----------------------------
(* Instances of Workflow for TLC: two groups; in the first, a task and either
   the corrective action of an audit or a second task. *)
EXTENDS Workflow

CONSTANTS ann, bob, cut, fix, sew, a1

\* fix is the corrective action of a1, in cut's group; sew follows.
WithAudit == [t \in {cut, fix, sew} |-> IF t = fix THEN a1 ELSE NoAudit]
NoneFromAudits == [t \in {cut, fix, sew} |-> NoAudit]
CutThenSew == [t \in {cut, fix, sew} |-> IF t = sew THEN 2 ELSE 1]

=============================================================================

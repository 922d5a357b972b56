SPECIFICATION FairTasksSpec
CONSTANTS
  ann = ann  bob = bob  cut = cut  fix = fix  sew = sew  a1 = a1
  Actor = {ann, bob}
  Task = {cut, fix, sew}
  Group = {1, 2}
  Sequence <- CutThenSew
  SelfCompleting = {cut}
  Audit = {a1}
  SourceAudit <- WithAudit
  NoAudit = NoAudit
  Nobody = Nobody
INVARIANTS
  TasksTypeOK
  CompletedOnce
  AuditAnswered
PROPERTIES
  Answered

SPECIFICATION TasksSpec
CONSTANTS
  ann = ann  bob = bob  cut = cut  fix = fix  sew = sew  a1 = a1
  Actor = {ann, bob}
  Task = {cut, fix, sew}
  Group = {1, 2}
  Sequence <- CutThenSew
  SelfCompleting = {}
  Audit = {}
  SourceAudit <- NoneFromAudits
  NoAudit = NoAudit
  Nobody = Nobody
PROPERTIES
  NextGroupIsTold

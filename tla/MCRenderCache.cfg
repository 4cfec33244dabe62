SPECIFICATION Spec
CONSTANTS
  Proc = {p1, p2, p3}
  Content = {c1, c2}
  NotPng = NotPng
  Bad = Bad
  NoFile = NoFile
  MaxDamage = 1
SYMMETRY Renaming
INVARIANTS
  ReportIsExact
  EntryIsWhole
  RaiseNeedsRival

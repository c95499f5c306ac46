SPECIFICATION Spec
CONSTANTS
  u1 = u1
  f1 = f1
  Uri = {u1}
  Root = {f1}
  RootOf <- OneFile
  Text = {t1, t2}
  Reader = {r1, r2}
  Scanner = {s1, s2}
  MaxVersion = 2
  MaxWrites = 2
  MaxFolderChanges = 1
  Nothing = Nothing
INVARIANTS TypeOK OpenBuffersWin ClosedHasNoDiagnostics
PROPERTIES DiagnosticsForward DiagnosticsCatchUp IndexCatchesUp
CHECK_DEADLOCK FALSE

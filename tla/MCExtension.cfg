\* Every step of a test run may fail, servers die and the bundled one may fail;
\* nothing is asked for once the extension is being deactivated and no test
\* file is deleted while discovery runs.  An idle extension stops.
CONSTANTS
  d1 = d1  d2 = d2  s1 = s1  s2 = s2  f1 = f1  f2 = f2  c1 = c1  c2 = c2
  t1 = t1  t2 = t2  t3 = t3  p1 = p1  child = child  Nothing = Nothing
  MaxOperations = 3
  MaxDeaths = 1
  BundledFails = TRUE
  LateRequests = FALSE
  Doc = {d1, d2}
  Slot = {s1, s2}
  MaxVersion <- Versions
  MaxSaves <- Saves
  File = {f1, f2}
  Tests = {t1, t2}
  Caller = {c1, c2}
  MaxChanges = 2
  DeletedInDiscovery = FALSE
  Test = {t1, t2, t3}
  Groups <- Files
  MayFail <- Anything
  Process = {child, p1}
SPECIFICATION ExtensionSpec
INVARIANTS ClientExact OneLiveCheck OutcomesExact
PROPERTIES SettingsTakeEffect PublishesRight SavesAreChecked CallsSeeTheFiles ItemsCatchUp CancelledRunsEnd QuietAfterReturn
CHECK_DEADLOCK FALSE

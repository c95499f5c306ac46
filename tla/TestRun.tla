------------------------------ MODULE TestRun ------------------------------
(***************************************************************************)
(* A run of tests in the VS Code extension (YcplTesting.run in             *)
(* editors/vscode/extension/src/testing.ts, with instrument and            *)
(* reportCoverage of testCoverage.ts).  The selected tests are grouped by  *)
(* file; a group gets a directory, a runner built in it, an               *)
(* instrumentation when coverage is asked for, and one process for each    *)
(* test.  The user may cancel at any time, and steps may fail.             *)
(***************************************************************************)
EXTENDS Naturals, Sequences, FiniteSets

CONSTANTS
  Test,       \* the tests selected
  Groups,     \* the sets of tests that share a file
  MayFail     \* steps that may fail by themselves

Steps == {"compiler", "directory", "runner", "build", "instrument", "test", "coverage", "remove"}

ASSUME GroupsAssumption == /\ UNION Groups = Test /\ {} \notin Groups
                           /\ \A g, h \in Groups : g = h \/ g \cap h = {}
ASSUME TestAssumption == IsFiniteSet(Test)
ASSUME MayFailAssumption == MayFail \subseteq Steps

VARIABLES
  at,         \* the step the run awaits, or is about to take
  groups,     \* groups not reached
  group,      \* tests of the group at hand that are to be run
  current,    \* the test that is running, in a set
  cancelled,  \* the run's cancellation token
  coverage,   \* whether the run is one for coverage
  reports,    \* what was reported of each test, in order
  finished,   \* the set of that name
  faults,     \* for the properties: what went wrong in the run
  directories,\* per-run directories on the disk
  summary

asked == <<cancelled, coverage>>
vars  == <<at, groups, group, current, asked, reports, finished, faults, directories, summary>>

Outcomes == {"passed", "failed", "errored", "skipped"}

Init ==
  /\ at = "next" /\ groups = Groups
  /\ group = {} /\ current = {}
  /\ cancelled \in BOOLEAN /\ coverage \in BOOLEAN
  /\ reports = [t \in Test |-> <<>>]
  /\ finished = {} /\ faults = {} /\ directories = {}
  /\ summary = [o \in Outcomes |-> 0]

-----------------------------------------------------------------------------
Cancel ==
  /\ at # "ended" /\ ~cancelled /\ cancelled' = TRUE
  /\ UNCHANGED <<at, groups, group, current, coverage, reports, finished, faults, directories, summary>>

\* Each of the tests ts is reported, and counted, with the outcome.
Report(ts, outcome) ==
  /\ reports' = [t \in Test |-> IF t \in ts THEN Append(reports[t], outcome) ELSE reports[t]]
  /\ summary' = [summary EXCEPT ![outcome] = @ + Cardinality(ts)]

Finish(ts, outcome) == Report(ts, outcome) /\ finished' = finished \cup ts
ReportNothing == UNCHANGED <<reports, summary, finished>>

\* A step ends in an exception because it fails or the user cancelled it.
Causes(step) == (IF step \in MayFail THEN {"failure"} ELSE {})
                  \cup (IF cancelled THEN {"cancellation"} ELSE {})
Throw(cause) == at' = "catch" /\ faults' = faults \cup {cause}

\* The finally of a group removes its directory before what comes next, whatever went wrong
\* before; that it cannot is an exception as well.
Remove(next, wrong) ==
  \/ at' = next /\ directories' = {} /\ faults' = faults \cup wrong
  \/ /\ "remove" \in MayFail /\ at' = "catch" /\ faults' = faults \cup wrong \cup {"removal"}
     /\ UNCHANGED directories

-----------------------------------------------------------------------------
(* A group.                                                                *)

SkipGroup ==
  /\ at = "next" /\ cancelled
  /\ \E g \in groups : groups' = groups \ {g} /\ Finish(g, "skipped")
  /\ UNCHANGED <<at, group, current, asked, faults, directories>>

Prepare ==
  /\ at = "next" /\ ~cancelled
  /\ \E g \in groups : groups' = groups \ {g} /\ group' = g
  /\ at' = "directory"
  /\ UNCHANGED <<current, asked, reports, finished, faults, directories, summary>>

\* No compiler is found, or the directory cannot be made.
PrepareFails ==
  /\ at = "directory" /\ {"compiler", "directory"} \cap MayFail # {}
  /\ Throw("failure") /\ ReportNothing
  /\ UNCHANGED <<groups, group, current, asked, directories>>

MakeDirectory ==
  /\ at = "directory" /\ at' = "runner"
  /\ directories' = {group} /\ ReportNothing
  /\ UNCHANGED <<groups, group, current, asked, faults>>

RunnerFails ==
  /\ at = "runner" /\ "runner" \in MayFail
  /\ Remove("catch", {"failure"}) /\ ReportNothing
  /\ UNCHANGED <<groups, group, current, asked>>

WriteRunner ==
  /\ at = "runner" /\ at' = "build" /\ ReportNothing
  /\ UNCHANGED <<groups, group, current, asked, faults, directories>>

Built ==
  /\ at = "build"
  /\ at' = (IF coverage THEN "instrument" ELSE "tests") /\ ReportNothing
  /\ UNCHANGED <<groups, group, current, asked, faults, directories>>

\* A slip: a build that failed leaves the group's directory behind.
BuildFailsKept ==
  /\ at = "build" /\ (cancelled \/ "build" \in MayFail)
  /\ Finish(group, IF cancelled THEN "skipped" ELSE "errored")
  /\ at' = "next" /\ group' = {} /\ faults' = faults \cup IF cancelled THEN {} ELSE {"build"}
  /\ UNCHANGED <<groups, current, asked, directories>>

\* The compiler failed or was killed; a cancelled build may also end well.
BuildFails ==
  /\ at = "build" /\ (cancelled \/ "build" \in MayFail)
  /\ Finish(group, IF cancelled THEN "skipped" ELSE "errored")
  /\ group' = {} /\ Remove("next", IF cancelled THEN {} ELSE {"build"})
  /\ UNCHANGED <<groups, current, asked>>

Instrumented ==
  /\ at = "instrument" /\ ~cancelled /\ at' = "tests" /\ ReportNothing
  /\ UNCHANGED <<groups, group, current, asked, faults, directories>>

InstrumentFails ==
  /\ at = "instrument" /\ \E cause \in Causes("instrument") : Remove("catch", {cause})
  /\ ReportNothing
  /\ UNCHANGED <<groups, group, current, asked>>

-----------------------------------------------------------------------------
(* The tests of a group.                                                   *)

SkipTest ==
  /\ at = "tests" /\ cancelled
  /\ \E t \in group : group' = group \ {t} /\ Finish({t}, "skipped")
  /\ UNCHANGED <<at, groups, current, asked, faults, directories>>

StartTest ==
  /\ at = "tests" /\ ~cancelled
  /\ \E t \in group : group' = group \ {t} /\ current' = {t}
  /\ at' = "test" /\ ReportNothing
  /\ UNCHANGED <<groups, asked, faults, directories>>

\* A slip: a test that ended is not in the set of the finished.
TestEndsUnfinished ==
  /\ at = "test" /\ at' = "tests" /\ current' = {}
  /\ \E outcome \in IF cancelled THEN {"skipped"} ELSE {"passed", "failed"} : Report(current, outcome)
  /\ UNCHANGED <<groups, group, finished, asked, faults, directories>>

\* execute and debugTest report the cancellation with the exit code.
TestEnds ==
  /\ at = "test" /\ at' = "tests" /\ current' = {}
  /\ \E outcome \in IF cancelled THEN {"skipped"} ELSE {"passed", "failed"} : Finish(current, outcome)
  /\ UNCHANGED <<groups, group, asked, faults, directories>>

\* debugTest or the configuration throws.
TestThrows ==
  /\ at = "test" /\ "test" \in MayFail
  /\ Remove("catch", {"failure"}) /\ ReportNothing
  /\ UNCHANGED <<groups, group, current, asked>>

TestsDone ==
  /\ at = "tests" /\ group = {} /\ ReportNothing
  /\ IF coverage /\ ~cancelled THEN at' = "coverage" /\ UNCHANGED <<directories, faults>>
     ELSE Remove("next", {})
  /\ UNCHANGED <<groups, group, current, asked>>

Covered ==
  /\ at = "coverage" /\ Remove("next", {}) /\ ReportNothing
  /\ UNCHANGED <<groups, group, current, asked>>

CoverageFails ==
  /\ at = "coverage" /\ \E cause \in Causes("coverage") : Remove("catch", {cause})
  /\ ReportNothing
  /\ UNCHANGED <<groups, group, current, asked>>

-----------------------------------------------------------------------------
\* An exception is the error of every test that has not finished.
Catch ==
  /\ at = "catch" /\ at' = "ended"
  /\ Report(Test \ finished, "errored")
  /\ UNCHANGED <<groups, group, current, finished, asked, faults, directories>>

EndRun ==
  /\ at = "next" /\ groups = {} /\ at' = "ended"
  /\ ReportNothing
  /\ UNCHANGED <<groups, group, current, asked, faults, directories>>

Advance ==
  \/ SkipGroup \/ Prepare \/ PrepareFails \/ MakeDirectory \/ RunnerFails \/ WriteRunner
  \/ InstrumentFails \/ Instrumented \/ SkipTest \/ StartTest \/ TestsDone
  \/ Covered \/ CoverageFails \/ Catch \/ EndRun

Build == Built \/ BuildFails

Next == Cancel \/ Advance \/ Build \/ TestEnds \/ TestThrows

Spec == Init /\ [][Next]_vars

-----------------------------------------------------------------------------
\* Every test has exactly one outcome when the run ends, and none more than
\* one before, whichever steps fail and whenever the user cancels.
OneOutcome ==
  \A t \in Test : Len(reports[t]) <= 1 /\ (at = "ended" => Len(reports[t]) = 1)

\* The summary counts what was reported.
SummaryExact ==
  \A o \in Outcomes : summary[o] = Cardinality({t \in Test : reports[t] = <<o>>})

\* Temporary per-run directories are removed afterwards (the extension's README): a group's is
\* gone before the next, whatever failed, and the last is left only when its own removal
\* fails, which ends the run.
DirectoriesRemoved ==
  /\ at = "next" => directories = {}
  /\ at \in {"catch", "ended"} => directories = {} \/ "removal" \in faults
  /\ "removal" \in faults => at \in {"catch", "ended"}

\* A test is an error only when something failed, or the user cancelled a run for coverage
\* (instrument and reportCoverage throw then).
ErrorsExplained ==
  \A t \in Test : reports[t] = <<"errored">> =>
    faults # {} /\ (faults = {"cancellation"} => cancelled /\ coverage)

\* All: what the user is told of the tests is what became of them, and nothing of the run
\* stays behind that could be removed.
OutcomesExact == OneOutcome /\ SummaryExact /\ DirectoriesRemoved /\ ErrorsExplained

=============================================================================

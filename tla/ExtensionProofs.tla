-------------------------- MODULE ExtensionProofs --------------------------
(***************************************************************************)
(* Proofs about TestRun, TestProcesses and Extension, for every finite set *)
(* of tests, every way they are grouped by file, every set of steps that   *)
(* fail, every set of files and commands, every project and every number   *)
(* of compiler processes, edits and saves.  An execution of the extension  *)
(* is one of each part, so that what is proved here of a run of tests, of  *)
(* discovery and of the checks, and what ServerLifecycleProofs proves of   *)
(* the server alone, holds of the extension.                               *)
(*                                                                         *)
(* The argument for OutcomesExact: a test that has no outcome yet is in    *)
(* exactly one of the places the run still has to come by (a group not     *)
(* reached, the group at hand, the test that runs), so that no step        *)
(* reports a test twice, and an exception finds in `finished' all that     *)
(* were reported before.                                                   *)
(* Every exception has a cause: a step's failure, a removal's, or the      *)
(* user's cancellation of a run for coverage; a directory that cannot be   *)
(* removed ends the run, so that it is the only one left.                  *)
(*                                                                         *)
(* The argument for CallsSeeTheFiles: as long as a call waits since whose  *)
(* begin no file has changed, discovery runs, and either it will run once  *)
(* more or all it has listed and read is what the files hold.              *)
(***************************************************************************)
EXTENDS Extension, FiniteSetTheorems, TLAPS

-----------------------------------------------------------------------------
(* A run of tests.                                                         *)

Places == {"next", "directory", "runner", "build", "instrument", "tests",
           "test", "coverage", "catch", "ended"}

TypeOK ==
  /\ at \in Places
  /\ groups \subseteq Groups /\ group \subseteq Test /\ current \subseteq Test
  /\ cancelled \in BOOLEAN /\ coverage \in BOOLEAN
  /\ reports \in [Test -> {<<>>} \cup {<<o>> : o \in Outcomes}]
  /\ finished \subseteq Test
  /\ summary \in [Outcomes -> Nat]

\* The tests without an outcome are those the run has yet to come by, each in
\* one place.
Accounted ==
  at # "ended" =>
    /\ \A t \in Test : reports[t] = <<>> <=> t \notin finished
    /\ Test \ finished = (UNION groups) \cup group \cup current
    /\ group \cap current = {}
    /\ (UNION groups) \cap (group \cup current) = {}

\* Where the run is tells what it has at hand.
AtHand ==
  /\ at \in {"next", "coverage"} => group = {}
  /\ current # {} => at \in {"test", "catch", "ended"}

AllReported == at = "ended" => \A t \in Test : reports[t] # <<>>

\* Only what could not be removed is left, and that ends the run.
OneDirectory ==
  /\ at \in {"next", "directory"} => directories = {}
  /\ at \in {"catch", "ended"} => directories = {} \/ "removal" \in faults
  /\ "removal" \in faults => at \in {"catch", "ended"}

\* An exception has a cause, and the user's cancellation is one in runs for coverage only.
CausesRight ==
  /\ at \in {"instrument", "coverage"} => coverage
  /\ "cancellation" \in faults => cancelled /\ coverage
  /\ at = "catch" => faults # {}

ErrorsCaused == \A t \in Test : reports[t] = <<"errored">> => faults # {}

IInv == /\ TypeOK /\ Accounted /\ AtHand /\ AllReported /\ SummaryExact
        /\ OneDirectory /\ CausesRight /\ ErrorsCaused

-----------------------------------------------------------------------------
(* Reporting.                                                              *)

\* What a report leaves, of tests that had no outcome: each has this one, and
\* the summary counts them.
LEMMA ReportStep ==
  ASSUME TypeOK, SummaryExact, NEW ts \in SUBSET Test, NEW outcome \in Outcomes,
         \A t \in ts : reports[t] = <<>>, Report(ts, outcome)
  PROVE  /\ reports' \in [Test -> {<<>>} \cup {<<o>> : o \in Outcomes}]
         /\ summary' \in [Outcomes -> Nat]
         /\ \A t \in Test : reports'[t] = IF t \in ts THEN <<outcome>> ELSE reports[t]
         /\ SummaryExact'
<1> DEFINE With(o)  == {t \in Test : reports[t] = <<o>>}
           WithN(o) == {t \in Test : reports'[t] = <<o>>}
<1>1. \A t \in Test : reports'[t] = IF t \in ts THEN <<outcome>> ELSE reports[t]
  <2>1. Append(<<>>, outcome) = <<outcome>>
    OBVIOUS
  <2> QED  BY <2>1 DEF Report
<1>2. reports' \in [Test -> {<<>>} \cup {<<o>> : o \in Outcomes}]
  BY <1>1 DEF Report, TypeOK
<1>3. IsFiniteSet(ts) /\ \A o : IsFiniteSet(With(o))
  BY TestAssumption, FS_Subset
<1>4. WithN(outcome) = With(outcome) \cup ts /\ With(outcome) \cap ts = {}
  BY <1>1
<1>5. \A o \in Outcomes : o # outcome => WithN(o) = With(o)
  BY <1>1
<1>6. Cardinality(WithN(outcome)) = Cardinality(With(outcome)) + Cardinality(ts)
  <2>1. Cardinality(With(outcome) \cup ts)
          = Cardinality(With(outcome)) + Cardinality(ts) - Cardinality(With(outcome) \cap ts)
    BY <1>3, FS_Union
  <2>2. Cardinality(With(outcome) \cap ts) = 0
    BY <1>4, FS_EmptySet
  <2>3. Cardinality(With(outcome)) \in Nat /\ Cardinality(ts) \in Nat
    BY <1>3, FS_CardinalityType
  <2> HIDE DEF With, WithN
  <2> QED  BY <1>4, <2>1, <2>2, <2>3
<1>7. summary' = [summary EXCEPT ![outcome] = @ + Cardinality(ts)] /\ Cardinality(ts) \in Nat
  BY <1>3, FS_CardinalityType DEF Report
<1>8. summary' \in [Outcomes -> Nat]
  BY <1>7 DEF TypeOK
<1>9. SummaryExact'
  <2> SUFFICES ASSUME NEW o \in Outcomes PROVE summary'[o] = Cardinality(WithN(o))
    BY DEF SummaryExact
  <2>1. summary[o] = Cardinality(With(o)) /\ summary[outcome] = Cardinality(With(outcome))
    BY DEF SummaryExact
  <2> HIDE DEF With, WithN
  <2>2. CASE o = outcome
    BY <1>6, <1>7, <2>1, <2>2 DEF TypeOK
  <2>3. CASE o # outcome
    BY <1>5, <1>7, <2>1, <2>3 DEF TypeOK
  <2> QED  BY <2>2, <2>3
<1> QED  BY <1>1, <1>2, <1>8, <1>9

\* A group that is taken out of those not reached takes exactly its tests.
LEMMA TakeGroup ==
  ASSUME NEW gs \in SUBSET Groups, NEW g \in gs
  PROVE  /\ UNION (gs \ {g}) = (UNION gs) \ g
         /\ g \subseteq Test /\ g \subseteq UNION gs
BY GroupsAssumption

-----------------------------------------------------------------------------
(* The inductive invariant.                                                *)

LEMMA InvInit == Init => IInv
<1> SUFFICES ASSUME Init PROVE IInv
  OBVIOUS
<1>1. TypeOK
  BY DEF Init, TypeOK, Places, Outcomes
<1>2. Accounted /\ AtHand /\ AllReported
  BY GroupsAssumption DEF Init, Accounted, AtHand, AllReported
<1>3. SummaryExact
  <2>1. \A o \in Outcomes : {t \in Test : reports[t] = <<o>>} = {}
    BY DEF Init
  <2> QED  BY <2>1, FS_EmptySet DEF Init, SummaryExact
<1>4. OneDirectory /\ CausesRight /\ ErrorsCaused
  BY DEF Init, OneDirectory, CausesRight, ErrorsCaused
<1> QED  BY <1>1, <1>2, <1>3, <1>4 DEF IInv

\* Finishing tests the run has yet to come by keeps the accounts.
LEMMA FinishStep ==
  ASSUME IInv, at # "ended", NEW ts \in SUBSET Test, NEW outcome \in Outcomes,
         ts \subseteq (UNION groups) \cup group \cup current, Finish(ts, outcome)
  PROVE  /\ reports' \in [Test -> {<<>>} \cup {<<o>> : o \in Outcomes}]
         /\ summary' \in [Outcomes -> Nat]
         /\ finished' \subseteq Test /\ finished' = finished \cup ts
         /\ \A t \in Test : reports'[t] = <<>> <=> t \notin finished'
         /\ SummaryExact'
         /\ \A t \in Test : reports'[t] = IF t \in ts THEN <<outcome>> ELSE reports[t]
<1>1. \A t \in ts : reports[t] = <<>>
  BY DEF IInv, Accounted
<1>2. Report(ts, outcome) /\ finished' = finished \cup ts
  BY DEF Finish
<1>3. /\ reports' \in [Test -> {<<>>} \cup {<<o>> : o \in Outcomes}]
      /\ summary' \in [Outcomes -> Nat]
      /\ \A t \in Test : reports'[t] = IF t \in ts THEN <<outcome>> ELSE reports[t]
      /\ SummaryExact'
  BY <1>1, <1>2, ReportStep DEF IInv
<1>4. \A t \in Test : reports'[t] = <<>> <=> t \notin finished'
  BY <1>2, <1>3 DEF IInv, Accounted
<1> QED  BY <1>2, <1>3, <1>4 DEF IInv, TypeOK

\* Tests that are reported with another outcome are no errors.
LEMMA NoNewErrors ==
  ASSUME ErrorsCaused, faults \subseteq faults', NEW ts, NEW outcome,
         \A t \in Test : reports'[t] = IF t \in ts THEN <<outcome>> ELSE reports[t],
         outcome # "errored" \/ faults' # {}
  PROVE  ErrorsCaused'
<1> SUFFICES ASSUME NEW t \in Test, reports'[t] = <<"errored">> PROVE faults' # {}
  BY DEF ErrorsCaused
<1>1. CASE t \in ts
  BY <1>1
<1>2. CASE t \notin ts
  BY <1>2 DEF ErrorsCaused
<1> QED  BY <1>1, <1>2

\* A step that reports nothing and hands nothing from one place to another
\* keeps the accounts.
LEMMA QuietStep ==
  ASSUME IInv, ReportNothing, UNCHANGED <<groups, group, current, asked>>, faults \subseteq faults',
         at # "ended", at' \in Places \ {"ended"}, AtHand', OneDirectory', CausesRight'
  PROVE  IInv'
<1>1. TypeOK'
  BY DEF IInv, TypeOK, ReportNothing, asked
<1>2. Accounted' /\ AllReported'
  BY DEF IInv, Accounted, AllReported, ReportNothing
<1>3. SummaryExact' /\ ErrorsCaused'
  BY DEF IInv, SummaryExact, ErrorsCaused, ReportNothing
<1> QED  BY <1>1, <1>2, <1>3 DEF IInv

LEMMA SkipGroupStep == ASSUME IInv, SkipGroup PROVE IInv'
<1> PICK g \in groups : groups' = groups \ {g} /\ Finish(g, "skipped")
  BY DEF SkipGroup
<1>1. at = "next" /\ UNCHANGED <<at, group, current, asked, faults, directories>>
  BY DEF SkipGroup
<1>2. UNION groups' = (UNION groups) \ g /\ g \subseteq Test /\ g \subseteq UNION groups
  BY TakeGroup DEF IInv, TypeOK, asked
<1>3. /\ reports' \in [Test -> {<<>>} \cup {<<o>> : o \in Outcomes}]
      /\ summary' \in [Outcomes -> Nat]
      /\ finished' \subseteq Test /\ finished' = finished \cup g
      /\ \A t \in Test : reports'[t] = <<>> <=> t \notin finished'
      /\ SummaryExact'
      /\ \A u \in Test : reports'[u] = IF u \in g THEN <<"skipped">> ELSE reports[u]
  BY <1>1, <1>2, FinishStep DEF Outcomes
<1>4. TypeOK'
  BY <1>1, <1>3 DEF IInv, TypeOK, asked
<1>5. Accounted'
  BY <1>1, <1>2, <1>3 DEF IInv, Accounted
<1>6. AtHand' /\ AllReported' /\ OneDirectory' /\ CausesRight'
  BY <1>1 DEF IInv, AtHand, AllReported, OneDirectory, CausesRight, asked
<1>7. ErrorsCaused'
  BY <1>1, <1>3, NoNewErrors DEF IInv
<1> QED  BY <1>3, <1>4, <1>5, <1>6, <1>7 DEF IInv

LEMMA PrepareStep == ASSUME IInv, Prepare PROVE IInv'
<1> PICK g \in groups : groups' = groups \ {g} /\ group' = g
  BY DEF Prepare
<1>1. /\ at = "next" /\ at' = "directory"
      /\ UNCHANGED <<current, asked, faults, reports, finished, directories, summary>>
  BY DEF Prepare
<1>2. UNION groups' = (UNION groups) \ g /\ g \subseteq Test /\ g \subseteq UNION groups
  BY TakeGroup DEF IInv, TypeOK, asked
<1>3. TypeOK'
  BY <1>1, <1>2 DEF IInv, TypeOK, asked, Places
<1>4. Accounted'
  BY <1>1, <1>2 DEF IInv, Accounted, AtHand
<1>5. AtHand' /\ AllReported' /\ OneDirectory' /\ CausesRight'
  BY <1>1 DEF IInv, AtHand, AllReported, OneDirectory, CausesRight, asked
<1>6. SummaryExact' /\ ErrorsCaused'
  BY <1>1 DEF IInv, SummaryExact, ErrorsCaused
<1> QED  BY <1>3, <1>4, <1>5, <1>6 DEF IInv

LEMMA BuildFailsStep == ASSUME IInv, BuildFails PROVE IInv'
<1>1. /\ at = "build" /\ group' = {} /\ faults \subseteq faults' /\ UNCHANGED <<groups, current, asked>>
  BY DEF BuildFails, Remove
<1> DEFINE wrong == IF cancelled THEN {} ELSE {"build"}
<1>a. \/ at' = "next" /\ directories' = {} /\ faults' = faults \cup wrong
      \/ at' = "catch" /\ "removal" \in faults' /\ faults' = faults \cup wrong \cup {"removal"}
  BY DEF BuildFails, Remove
<1> PICK outcome \in Outcomes : Finish(group, outcome) /\ (outcome # "errored" \/ faults' # {})
  BY <1>a DEF BuildFails, Outcomes
<1>2. group \in SUBSET Test
  BY DEF IInv, TypeOK, asked
<1>3. /\ reports' \in [Test -> {<<>>} \cup {<<o>> : o \in Outcomes}]
      /\ summary' \in [Outcomes -> Nat]
      /\ finished' \subseteq Test /\ finished' = finished \cup group
      /\ \A t \in Test : reports'[t] = <<>> <=> t \notin finished'
      /\ SummaryExact'
      /\ \A u \in Test : reports'[u] = IF u \in group THEN <<outcome>> ELSE reports[u]
  BY <1>1, <1>2, FinishStep
<1>4. TypeOK'
  BY <1>1, <1>a, <1>3 DEF IInv, TypeOK, asked, Places
<1>5. Accounted'
  BY <1>1, <1>a, <1>3 DEF IInv, Accounted
<1>6. AtHand' /\ AllReported' /\ OneDirectory' /\ CausesRight'
  BY <1>1, <1>a DEF IInv, AtHand, AllReported, OneDirectory, CausesRight, asked
<1>7. ErrorsCaused'
  BY <1>1, <1>3, NoNewErrors DEF IInv
<1> QED  BY <1>3, <1>4, <1>5, <1>6, <1>7 DEF IInv

LEMMA SkipTestStep == ASSUME IInv, SkipTest PROVE IInv'
<1> PICK t \in group : group' = group \ {t} /\ Finish({t}, "skipped")
  BY DEF SkipTest
<1>1. at = "tests" /\ UNCHANGED <<at, groups, current, asked, faults, directories>>
  BY DEF SkipTest
<1> DEFINE one == {t}
<1>2. one \in SUBSET Test /\ one \subseteq group /\ "skipped" \in Outcomes
  BY DEF IInv, TypeOK, asked, Outcomes
<1>0. Finish(one, "skipped")
  OBVIOUS
<1> HIDE DEF one
<1>3. /\ reports' \in [Test -> {<<>>} \cup {<<o>> : o \in Outcomes}]
      /\ summary' \in [Outcomes -> Nat]
      /\ finished' \subseteq Test /\ finished' = finished \cup one
      /\ \A u \in Test : reports'[u] = <<>> <=> u \notin finished'
      /\ SummaryExact'
      /\ \A u \in Test : reports'[u] = IF u \in one THEN <<"skipped">> ELSE reports[u]
  BY <1>0, <1>1, <1>2, FinishStep
<1>4. TypeOK'
  BY <1>1, <1>3 DEF IInv, TypeOK, asked
<1>5. Accounted'
  BY <1>1, <1>3 DEF IInv, Accounted, one
<1>6. AtHand' /\ AllReported' /\ OneDirectory' /\ CausesRight'
  BY <1>1 DEF IInv, AtHand, AllReported, OneDirectory, CausesRight, asked
<1>7. ErrorsCaused'
  BY <1>1, <1>3, NoNewErrors DEF IInv
<1> QED  BY <1>3, <1>4, <1>5, <1>6, <1>7 DEF IInv

LEMMA StartTestStep == ASSUME IInv, StartTest PROVE IInv'
<1> PICK t \in group : group' = group \ {t} /\ current' = {t}
  BY DEF StartTest
<1>1. at = "tests" /\ at' = "test" /\ UNCHANGED <<groups, asked, faults, directories>>
  BY DEF StartTest
<1>2. UNCHANGED <<reports, summary, finished>>
  BY DEF StartTest, ReportNothing
<1>3. TypeOK'
  BY <1>1, <1>2 DEF IInv, TypeOK, asked, Places
<1>4. Accounted'
  BY <1>1, <1>2 DEF IInv, Accounted, AtHand
<1>5. AtHand' /\ AllReported' /\ OneDirectory' /\ CausesRight'
  BY <1>1 DEF IInv, AtHand, AllReported, OneDirectory, CausesRight, asked
<1>6. SummaryExact' /\ ErrorsCaused'
  BY <1>1, <1>2 DEF IInv, SummaryExact, ErrorsCaused
<1> QED  BY <1>3, <1>4, <1>5, <1>6 DEF IInv

LEMMA TestEndsStep == ASSUME IInv, TestEnds PROVE IInv'
<1>1. /\ at = "test" /\ at' = "tests" /\ current' = {}
      /\ UNCHANGED <<groups, group, asked, faults, directories>>
  BY DEF TestEnds
<1> PICK outcome \in Outcomes \ {"errored"} : Finish(current, outcome)
  BY DEF TestEnds, Outcomes
<1>2. current \in SUBSET Test
  BY DEF IInv, TypeOK, asked
<1>3. /\ reports' \in [Test -> {<<>>} \cup {<<o>> : o \in Outcomes}]
      /\ summary' \in [Outcomes -> Nat]
      /\ finished' \subseteq Test /\ finished' = finished \cup current
      /\ \A t \in Test : reports'[t] = <<>> <=> t \notin finished'
      /\ SummaryExact'
      /\ \A u \in Test : reports'[u] = IF u \in current THEN <<outcome>> ELSE reports[u]
  BY <1>1, <1>2, FinishStep
<1>4. TypeOK'
  BY <1>1, <1>3 DEF IInv, TypeOK, asked, Places
<1>5. Accounted'
  BY <1>1, <1>3 DEF IInv, Accounted
<1>6. AtHand' /\ AllReported' /\ OneDirectory' /\ CausesRight'
  BY <1>1 DEF IInv, AtHand, AllReported, OneDirectory, CausesRight, asked
<1>7. ErrorsCaused'
  BY <1>1, <1>3, NoNewErrors DEF IInv
<1> QED  BY <1>3, <1>4, <1>5, <1>6, <1>7 DEF IInv

\* The exception reports the tests that are not in `finished`: those without
\* an outcome.
LEMMA CatchStep == ASSUME IInv, Catch PROVE IInv'
<1>1. /\ at = "catch" /\ at' = "ended" /\ Report(Test \ finished, "errored")
      /\ UNCHANGED <<groups, group, current, finished, asked, faults, directories>>
  BY DEF Catch
<1>2. \A t \in Test \ finished : reports[t] = <<>>
  BY <1>1 DEF IInv, Accounted
<1>3. /\ reports' \in [Test -> {<<>>} \cup {<<o>> : o \in Outcomes}]
      /\ summary' \in [Outcomes -> Nat]
      /\ \A t \in Test : reports'[t] = IF t \in Test \ finished THEN <<"errored">> ELSE reports[t]
      /\ SummaryExact'
  BY <1>1, <1>2, ReportStep DEF IInv, Outcomes
<1>4. TypeOK'
  BY <1>1, <1>3 DEF IInv, TypeOK, asked, Places
<1>5. AllReported'
  BY <1>1, <1>3 DEF IInv, Accounted, AllReported
<1>6. Accounted' /\ AtHand' /\ OneDirectory' /\ CausesRight'
  BY <1>1 DEF IInv, Accounted, AtHand, OneDirectory, CausesRight, asked
<1>7. ErrorsCaused'
  BY <1>1 DEF IInv, CausesRight, ErrorsCaused
<1> QED  BY <1>3, <1>4, <1>5, <1>6, <1>7 DEF IInv

LEMMA EndRunStep == ASSUME IInv, EndRun PROVE IInv'
<1>1. /\ at = "next" /\ groups = {} /\ at' = "ended"
      /\ UNCHANGED <<groups, group, current, asked, faults, directories, reports, summary, finished>>
  BY DEF EndRun, ReportNothing
<1>2. TypeOK'
  BY <1>1 DEF IInv, TypeOK, asked, Places
<1>3. AllReported'
  BY <1>1 DEF IInv, Accounted, AtHand, AllReported
<1>4. Accounted' /\ AtHand' /\ OneDirectory' /\ CausesRight'
  BY <1>1 DEF IInv, Accounted, AtHand, OneDirectory, CausesRight, asked
<1>5. SummaryExact' /\ ErrorsCaused'
  BY <1>1 DEF IInv, SummaryExact, ErrorsCaused
<1> QED  BY <1>2, <1>3, <1>4, <1>5 DEF IInv

\* The steps that report nothing and hand nothing on.
Moving ==
  \/ PrepareFails \/ MakeDirectory \/ RunnerFails \/ WriteRunner \/ Built \/ Instrumented
  \/ InstrumentFails \/ TestThrows \/ TestsDone \/ Covered \/ CoverageFails

LEMMA MovingStep == ASSUME IInv, Moving PROVE IInv'
<1> USE DEF AtHand, OneDirectory, CausesRight, Places, Throw, Remove, Causes, asked
<1>1. CASE PrepareFails
  BY <1>1, QuietStep DEF PrepareFails, IInv
<1>2. CASE MakeDirectory
  BY <1>2, QuietStep DEF MakeDirectory, IInv
<1>3. CASE RunnerFails
  BY <1>3, QuietStep DEF RunnerFails, IInv
<1>4. CASE WriteRunner
  BY <1>4, QuietStep DEF WriteRunner, IInv
<1>5. CASE Built
  BY <1>5, QuietStep DEF Built, IInv
<1>6. CASE Instrumented
  BY <1>6, QuietStep DEF Instrumented, IInv
<1>7. CASE InstrumentFails
  BY <1>7, QuietStep DEF InstrumentFails, IInv
<1>8. CASE TestThrows
  BY <1>8, QuietStep DEF TestThrows, IInv
<1>9. CASE TestsDone
  BY <1>9, QuietStep DEF TestsDone, IInv
<1>10. CASE Covered
  BY <1>10, QuietStep DEF Covered, IInv
<1>11. CASE CoverageFails
  BY <1>11, QuietStep DEF CoverageFails, IInv
<1> QED  BY <1>1, <1>2, <1>3, <1>4, <1>5, <1>6, <1>7, <1>8, <1>9, <1>10, <1>11 DEF Moving

LEMMA CancelStep == ASSUME IInv, Cancel PROVE IInv'
<1>1. at # "ended" /\ cancelled' = TRUE
      /\ UNCHANGED <<at, groups, group, current, coverage, reports, finished, faults, directories, summary>>
  BY DEF Cancel
<1>2. TypeOK'
  BY <1>1 DEF IInv, TypeOK
<1>3. Accounted' /\ AtHand' /\ AllReported' /\ SummaryExact'
  BY <1>1 DEF IInv, Accounted, AtHand, AllReported, SummaryExact
<1>4. OneDirectory' /\ CausesRight' /\ ErrorsCaused'
  BY <1>1 DEF IInv, OneDirectory, CausesRight, ErrorsCaused
<1> QED  BY <1>2, <1>3, <1>4 DEF IInv

LEMMA InvStep == ASSUME IInv, [Next]_vars PROVE IInv'
<1>1. CASE Next
  <2>1. \/ Cancel \/ SkipGroup \/ Prepare \/ BuildFails \/ SkipTest \/ StartTest
        \/ TestEnds \/ Catch \/ EndRun \/ Moving
    BY <1>1 DEF Next, Advance, Build, Moving
  <2> QED
    BY <2>1, CancelStep, SkipGroupStep, PrepareStep, BuildFailsStep, SkipTestStep,
       StartTestStep, TestEndsStep, CatchStep, EndRunStep, MovingStep
<1>2. CASE UNCHANGED vars
  <2>1. TypeOK' /\ Accounted' /\ AtHand'
    BY <1>2 DEF vars, asked, IInv, TypeOK, Accounted, AtHand
  <2>2. AllReported' /\ SummaryExact'
    BY <1>2 DEF vars, IInv, AllReported, SummaryExact
  <2>3. OneDirectory' /\ CausesRight' /\ ErrorsCaused'
    BY <1>2 DEF vars, asked, IInv, OneDirectory, CausesRight, ErrorsCaused
  <2> QED  BY <2>1, <2>2, <2>3 DEF IInv
<1> QED  BY <1>1, <1>2

LEMMA InvOutcomes == IInv => OutcomesExact
<1> SUFFICES ASSUME IInv PROVE OutcomesExact
  OBVIOUS
<1>1. ASSUME NEW t \in Test
      PROVE  Len(reports[t]) <= 1 /\ (at = "ended" => Len(reports[t]) = 1)
  <2>1. reports[t] \in {<<>>} \cup {<<o>> : o \in Outcomes}
    BY <1>1 DEF IInv, TypeOK
  <2>2. CASE reports[t] = <<>>
    BY <2>2, Len(<<>>) = 0 DEF IInv, AllReported
  <2>3. CASE reports[t] # <<>>
    <3> PICK o \in Outcomes : reports[t] = <<o>>
      BY <2>1, <2>3
    <3> QED  BY Len(<<o>>) = 1
  <2> QED  BY <2>2, <2>3
<1>2. OneOutcome
  BY <1>1 DEF OneOutcome
<1>3. DirectoriesRemoved
  BY DEF IInv, OneDirectory, DirectoriesRemoved
<1>4. ErrorsExplained
  BY DEF IInv, CausesRight, ErrorsCaused, ErrorsExplained
<1> QED  BY <1>2, <1>3, <1>4 DEF IInv, OutcomesExact

-----------------------------------------------------------------------------
(* The call of execute that is under way, or the last one.                 *)

\* A call that has returned has seen its child exit, and no timer of it is set.
CallEnded == resolved => exited /\ force # "set"

LEMMA CallInit == InitAll => CallEnded
BY DEF InitAll, NoCall, CallEnded

LEMMA CallStep == ASSUME CallEnded, [NextAll]_all PROVE CallEnded'
<1> USE DEF CallEnded, Call!StopGroup
<1>1. CASE CancelRun
  BY <1>1 DEF CancelRun, Call!Cancel, call
<1>2. CASE Continue
  <2>1. CASE Execute
    <3>1. resolved' = cancelled /\ exited' = cancelled /\ force' = "none"
      BY <2>1 DEF Execute
    <3>2. force' # "set"
      BY <3>1
    <3>3. resolved' => exited'
      BY <3>1, Zenon
    <3> QED  BY <3>2, <3>3
  <2>2. CASE UNCHANGED call
    BY <2>2 DEF call
  <2> QED  BY <1>2, <2>1, <2>2 DEF Continue
<1>3. CASE Processes
  <2>1. ASSUME NEW p \in Process, Call!Fork(p) \/ Call!Finish(p)
        PROVE  CallEnded'
    BY <2>1 DEF Call!Fork, Call!Finish
  <2>2. ASSUME Call!Kill \/ Call!Exit \/ Call!Close
        PROVE  CallEnded'
    BY <2>2 DEF Call!Kill, Call!Exit, Call!Close
  <2> QED  BY <1>3, <2>1, <2>2 DEF Processes
<1>4. CASE UNCHANGED all
  BY <1>4 DEF all, call
<1> QED  BY <1>1, <1>2, <1>3, <1>4 DEF NextAll

\* What QuietAfterReturn says of a step.
SendsNothing ==
  resolved /\ resolved' => signalled' \subseteq signalled /\ (force' = "fired" => force = "fired")

LEMMA QuietCall == ASSUME CallEnded, [NextAll]_all PROVE SendsNothing
<1> USE DEF CallEnded, SendsNothing
<1>1. CASE CancelRun
  BY <1>1 DEF CancelRun, Call!Cancel, call
<1>2. CASE Continue
  BY <1>2 DEF Continue, Execute, call
<1>3. CASE Processes
  <2>1. ASSUME NEW p \in Process, Call!Fork(p) \/ Call!Finish(p)
        PROVE  SendsNothing
    BY <2>1 DEF Call!Fork, Call!Finish
  <2>2. ASSUME Call!Kill \/ Call!Exit \/ Call!Close
        PROVE  SendsNothing
    BY <2>2 DEF Call!Kill, Call!Exit, Call!Close
  <2> QED  BY <1>3, <2>1, <2>2 DEF Processes
<1>4. CASE UNCHANGED all
  BY <1>4 DEF all, call
<1> QED  BY <1>1, <1>2, <1>3, <1>4 DEF NextAll

\* A step of the run and its processes is one of the run, or none to it.
LEMMA RunAlone == [NextAll]_all => [Next]_vars
BY DEF NextAll, all, CancelRun, Continue, Processes, Next

-----------------------------------------------------------------------------
\* When a run of tests ends, or while it goes on, every test has the outcomes
\* it should, the summary counts them, no directory is left behind but one whose own removal
\* failed, and each error has a cause (YcplTesting.run), whatever fails and whenever the user
\* cancels.
THEOREM RunOutcomes == Spec => []OutcomesExact
<1>1. IInv /\ [Next]_vars => IInv'
  BY InvStep
<1> QED  BY <1>1, InvInit, InvOutcomes, PTL DEF Spec

\* Once execute has returned it sends no signal to the process group: neither
\* a late cancellation nor the SIGKILL timer nor the exit event does.
THEOREM CallsEndQuietly == SpecAll => QuietAfterReturn
<1>1. CallEnded /\ [NextAll]_all => CallEnded'
  BY CallStep
<1>2. CallEnded /\ [NextAll]_all => [SendsNothing]_all
  BY QuietCall
<1>3. QuietAfterReturn <=> [][SendsNothing]_all
  BY DEF QuietAfterReturn, SendsNothing
<1> QED  BY <1>1, <1>2, <1>3, CallInit, PTL DEF SpecAll

-----------------------------------------------------------------------------
(* The parts of the extension.                                             *)

ServerProofs == INSTANCE ServerLifecycleProofs

\* A step of the extension is one of each part, or none to it.
LEMMA PartSteps ==
  ASSUME [ExtensionNext]_extension
  PROVE  /\ [Server!Next]_serverVars /\ [Checks!Next]_checkVars
         /\ [Refresh!Next]_refreshVars /\ [NextAll]_all
BY DEF ExtensionNext, extension, ServerStep, CheckStep, RefreshStep, RunStep

-----------------------------------------------------------------------------
(* Test discovery.                                                         *)

Held == Tests \cup {Nothing}

RefreshTypeOK ==
  /\ testFiles \in [File -> Held] /\ opened \in [File -> Held]
  /\ found \subseteq File
  /\ discovering \in {"no", "list", "open"}

\* A call that is quiet has not returned, and discovery runs for it.
QuietWaits == quiet \subseteq waiting /\ (quiet # {} => discovering # "no")

\* What has been read for a quiet call is what the files hold.
ReadsNow ==
  quiet # {} /\ discovering = "open" /\ ~refreshRequested =>
    \A f \in File \ found : opened[f] = testFiles[f]

RefreshInv == RefreshTypeOK /\ QuietWaits /\ ReadsNow

LEMMA RefreshInit == Refresh!Init => RefreshInv
BY DEF Refresh!Init, Refresh!Empty, RefreshInv, RefreshTypeOK, Held, QuietWaits, ReadsNow

LEMMA RefreshChange ==
  ASSUME RefreshInv, NEW f \in File, NEW t \in Held, Refresh!Change(f, t)
  PROVE  RefreshInv'
<1>1. /\ testFiles' = [testFiles EXCEPT ![f] = t] /\ quiet' = {}
      /\ UNCHANGED <<opened, found, discovering>>
  BY DEF Refresh!Change
<1> QED  BY <1>1 DEF RefreshInv, RefreshTypeOK, QuietWaits, ReadsNow

\* refresh, with a call that joins or for a change that was reported: a
\* discovery that has listed the files is asked to begin again.
LEMMA RefreshAsked ==
  ASSUME RefreshInv, Refresh!Refresh,
         UNCHANGED <<testFiles, found, opened>>,
         quiet' \subseteq waiting'
  PROVE  RefreshInv'
<1>1. CASE discovering = "no"
  BY <1>1 DEF Refresh!Refresh, RefreshInv, RefreshTypeOK, QuietWaits, ReadsNow
<1>2. CASE discovering # "no"
  BY <1>2 DEF Refresh!Refresh, RefreshInv, RefreshTypeOK, QuietWaits, ReadsNow
<1> QED  BY <1>1, <1>2

\* discover: what is not among the files found holds no tests, and a file that
\* is opened is read as it is then.
LEMMA RefreshDiscover ==
  ASSUME RefreshInv, Refresh!Discover
  PROVE  RefreshInv'
<1> USE DEF RefreshInv, RefreshTypeOK, QuietWaits, ReadsNow, Held
<1>1. CASE Refresh!List
  BY <1>1 DEF Refresh!List, Refresh!Empty
<1>2. ASSUME NEW f \in File, Refresh!Open(f)
      PROVE  RefreshInv'
  BY <1>2 DEF Refresh!Open
<1>3. CASE Refresh!End
  BY <1>3 DEF Refresh!End
<1> QED  BY <1>1, <1>2, <1>3 DEF Refresh!Discover

LEMMA RefreshStepInv ==
  ASSUME RefreshInv, [Refresh!Next]_refreshVars
  PROVE  RefreshInv'
<1>1. ASSUME NEW f \in File, Refresh!Changed(f)
      PROVE  RefreshInv'
  BY <1>1, RefreshAsked DEF Refresh!Changed, RefreshInv, QuietWaits
<1>2. ASSUME NEW f \in File, Refresh!Deleted(f)
      PROVE  RefreshInv'
  BY <1>2 DEF Refresh!Deleted, RefreshInv, RefreshTypeOK, QuietWaits, ReadsNow
<1>3. ASSUME NEW c \in Caller, Refresh!Call(c)
      PROVE  RefreshInv'
  BY <1>3, RefreshAsked DEF Refresh!Call, RefreshInv, QuietWaits
<1>4. CASE Refresh!Dispose
  BY <1>4 DEF Refresh!Dispose, RefreshInv, RefreshTypeOK, QuietWaits, ReadsNow
<1>5. CASE UNCHANGED refreshVars
  BY <1>5 DEF refreshVars, RefreshInv, RefreshTypeOK, QuietWaits, ReadsNow
<1> QED
  BY <1>1, <1>2, <1>3, <1>4, <1>5, RefreshChange, RefreshDiscover DEF Refresh!Next, Held

\* What CallsSeeTheFiles says of a step: the calls return at the end of a
\* discovery.
CallsReturnSeeing ==
  quiet # {} /\ quiet' = {} /\ waiting' = {} /\ ~stopped => items' = testFiles

LEMMA RefreshReturns ==
  ASSUME RefreshInv, [Refresh!Next]_refreshVars
  PROVE  CallsReturnSeeing
<1> SUFFICES ASSUME quiet # {}, quiet' = {}, waiting' = {}, ~stopped
             PROVE  items' = testFiles
  BY DEF CallsReturnSeeing
<1>1. waiting # {}
  BY DEF RefreshInv, QuietWaits
<1>2. Refresh!End
  BY <1>1
     DEF refreshVars, Refresh!Next, Refresh!Discover, Refresh!Change, Refresh!Changed,
         Refresh!Deleted,
     Refresh!Call, Refresh!List, Refresh!Open, Refresh!Dispose
<1>3. discovering = "open" /\ found = {} /\ items' = opened /\ ~refreshRequested
  BY <1>1, <1>2 DEF Refresh!End
<1>4. \A f \in File : opened[f] = testFiles[f]
  BY <1>3 DEF RefreshInv, ReadsNow
<1> QED  BY <1>3, <1>4 DEF RefreshInv, RefreshTypeOK

-----------------------------------------------------------------------------
(* The server.  ServerProofs has the definitions of Server under names of  *)
(* its own, which are identified first, action by action.                  *)

LEMMA SameCardinality == \A S : Server!Cardinality(S) = ServerProofs!Cardinality(S)
BY DEF Server!Cardinality, ServerProofs!Cardinality

LEMMA SameServerInit == Server!Init => ServerProofs!Init
BY DEF Server!Init, ServerProofs!Init, Server!Settings, ServerProofs!Settings,
       Server!Operation, ServerProofs!Operation, Server!None, ServerProofs!None

LEMMA SameServerStep ==
  ASSUME NEW i, Server!Step(i)
  PROVE  ServerProofs!Step(i)
<1> USE DEF Server!At, ServerProofs!At, Server!Move, ServerProofs!Move, Server!None, ServerProofs!None
<1>1. ASSUME Server!Stop(i) PROVE ServerProofs!Stop(i)
  BY <1>1 DEF Server!Stop, ServerProofs!Stop, Server!Ended, ServerProofs!Ended,
              Server!Stopped, ServerProofs!Stopped,
              Server!DropWatcher, ServerProofs!DropWatcher
<1>2. ASSUME Server!StopEnds(i) PROVE ServerProofs!StopEnds(i)
  BY <1>2 DEF Server!StopEnds, ServerProofs!StopEnds, Server!Stopped, ServerProofs!Stopped,
              Server!DropWatcher, ServerProofs!DropWatcher
<1>3. \A s : /\ Server!Found(s) = ServerProofs!Found(s)
             /\ Server!Refused(s) = ServerProofs!Refused(s)
             /\ Server!Probed(s) = ServerProofs!Probed(s)
  BY DEF Server!Found, ServerProofs!Found, Server!Refused, ServerProofs!Refused,
         Server!Probed, ServerProofs!Probed
<1>4. \A kind, read : Server!Launch(i, kind, read) => ServerProofs!Launch(i, kind, read)
  BY DEF Server!Launch, ServerProofs!Launch, Server!Connect, ServerProofs!Connect
<1>5. ASSUME Server!Missing(i) PROVE ServerProofs!Missing(i)
  BY <1>3, <1>5 DEF Server!Missing, ServerProofs!Missing
<1>6. ASSUME Server!Probe(i) PROVE ServerProofs!Probe(i)
  BY <1>3, <1>6 DEF Server!Probe, ServerProofs!Probe
<1>7. ASSUME Server!Start(i) PROVE ServerProofs!Start(i)
  BY <1>3, <1>4, <1>7 DEF Server!Start, ServerProofs!Start
<1>8. ASSUME Server!StartProbed(i) PROVE ServerProofs!StartProbed(i)
  BY <1>4, <1>8 DEF Server!StartProbed, ServerProofs!StartProbed
<1>9. Server!Starting(i) = ServerProofs!Starting(i)
  BY DEF Server!Starting, ServerProofs!Starting
<1>10. ASSUME Server!Started(i) PROVE ServerProofs!Started(i)
  BY <1>9, <1>10 DEF Server!Started, ServerProofs!Started
<1>11. ASSUME Server!StartFails(i) PROVE ServerProofs!StartFails(i)
  BY <1>9, <1>11 DEF Server!StartFails, ServerProofs!StartFails
<1>12. ASSUME Server!FailureEnds(i) PROVE ServerProofs!FailureEnds(i)
  BY <1>12 DEF Server!FailureEnds, ServerProofs!FailureEnds
<1>13. ASSUME Server!BundledStartFails(i) PROVE ServerProofs!BundledStartFails(i)
  BY <1>13 DEF Server!BundledStartFails, ServerProofs!BundledStartFails
<1>14. ASSUME Server!StopFails(i) PROVE ServerProofs!StopFails(i)
  BY <1>14 DEF Server!StopFails, ServerProofs!StopFails, Server!DropWatcher, ServerProofs!DropWatcher
<1> QED
  BY <1>1, <1>2, <1>5, <1>6, <1>7, <1>8, <1>10, <1>11, <1>12, <1>13, <1>14
     DEF Server!Step, ServerProofs!Step

LEMMA SameServerNext == [Server!Next]_serverVars => [ServerProofs!Next]_ServerProofs!vars
<1>a. Server!Settings = ServerProofs!Settings
  BY DEF Server!Settings, ServerProofs!Settings
<1>b. /\ Server!Deactivating <=> ServerProofs!Deactivating
      /\ Server!Restarts = ServerProofs!Restarts
  BY DEF Server!Deactivating, ServerProofs!Deactivating, Server!Restarts, ServerProofs!Restarts
<1>c. Server!Restart => ServerProofs!Restart
  BY DEF Server!Restart, ServerProofs!Restart, Server!Operation, ServerProofs!Operation,
         Server!None, ServerProofs!None
<1>1. ASSUME NEW new, Server!Request(new) PROVE ServerProofs!Request(new)
  BY <1>1, <1>b, <1>c, SameCardinality DEF Server!Request, ServerProofs!Request
<1>2. ASSUME Server!Deactivate PROVE ServerProofs!Deactivate
  BY <1>2 DEF Server!Deactivate, ServerProofs!Deactivate, Server!Deactivating,
              ServerProofs!Deactivating, Server!Operation, ServerProofs!Operation,
              Server!None, ServerProofs!None
<1>3. ASSUME NEW s, Server!Die(s) PROVE ServerProofs!Die(s)
  BY <1>3 DEF Server!Die, ServerProofs!Die
<1>4. Server!Next => ServerProofs!Next
  BY <1>a, <1>1, <1>2, <1>3, SameServerStep DEF Server!Next, ServerProofs!Next
<1> QED  BY <1>4 DEF serverVars, ServerProofs!vars

LEMMA SameClientExact ==
  ASSUME ServerProofs!SerialInv, LateRequests => ~Server!Deactivating
  PROVE  ClientExact
<1>1. ServerProofs!Serial
  BY DEF ServerProofs!Serial, ServerProofs!Deactivating, Server!Deactivating
<1>2. ServerProofs!ClientExact
  BY <1>1, ServerProofs!InvClient
<1>3. Server!Idle <=> ServerProofs!Idle
  BY DEF Server!Idle, ServerProofs!Idle, Server!Ended, ServerProofs!Ended
<1>4. Server!OneServer /\ Server!NoWatcherLost
  BY <1>2, SameCardinality
     DEF ServerProofs!ClientExact, ServerProofs!OneServer, ServerProofs!NoWatcherLost,
              Server!OneServer, Server!NoWatcherLost
<1>5. Server!StatusOfClient
  BY <1>2, <1>3 DEF ServerProofs!ClientExact, ServerProofs!StatusOfClient, Server!StatusOfClient,
                    ServerProofs!None, Server!None
<1>6. Server!NothingAfterDeactivation
  BY <1>2, <1>3 DEF ServerProofs!ClientExact, ServerProofs!NothingAfterDeactivation,
                    Server!NothingAfterDeactivation, ServerProofs!Deactivating, Server!Deactivating
<1> QED  BY <1>4, <1>5, <1>6 DEF ClientExact, Server!ClientExact

-----------------------------------------------------------------------------
(* Checks on save.  A check that a save started and nobody has cancelled   *)
(* is the one in the map automaticChecks of its document, no timer of that *)
(* document is set beside it, and the setting is on.  What cancels checks  *)
(* goes through that map, so it reaches all of them.                       *)

Check == [doc : {{d} : d \in Doc}, version : Nat, cancelled : BOOLEAN, read : [Doc -> Nat]]

ChecksTypeOK ==
  /\ enabled \in BOOLEAN /\ open \subseteq Doc
  /\ version \in [Doc -> Nat] /\ disk \in [Doc -> Nat] /\ saveTimers \in [Doc -> Nat]
  /\ automaticChecks \in [Doc -> SUBSET Slot]
  /\ checks \in [Slot -> Check \cup {Checks!NoCheck}]

\* A timer is of a text that was saved, and what is on the disk was in the
\* editor.
TextsInOrder == \A d \in Doc : saveTimers[d] <= disk[d] /\ disk[d] <= version[d]

\* Beside a timer nothing of its document runs uncancelled.
TimersAlone ==
  \A d \in Doc : saveTimers[d] # 0 => enabled /\ \A s \in automaticChecks[d] : checks[s].cancelled

\* The map has at most one source for each document, that of a check a save of
\* the document started.
MapExact ==
  \A d \in Doc : \A s \in automaticChecks[d] :
    /\ Checks!Automatic(s) /\ checks[s].doc = {d}
    /\ \A t \in automaticChecks[d] : s = t

Live(s) == Checks!Automatic(s) /\ ~checks[s].cancelled

\* The map has every check that can still publish.
LiveInMap ==
  \A s \in Slot : Live(s) => enabled /\ \A d \in checks[s].doc : s \in automaticChecks[d]

\* Such a check reads its document no earlier than it was saved for it.
LiveReadLate ==
  \A s \in Slot : Live(s) => \A d \in checks[s].doc :
    /\ checks[s].version <= disk[d]
    /\ checks[s].read # Checks!Unread =>
         checks[s].version <= checks[s].read[d] /\ checks[s].read[d] <= version[d]

ChecksInv == ChecksTypeOK /\ TextsInOrder /\ TimersAlone /\ MapExact /\ LiveInMap /\ LiveReadLate

\* A slot has a check, of one document, or none.
LEMMA RunningCheck ==
  ASSUME ChecksTypeOK, NEW s \in Slot
  PROVE  /\ Checks!Running(s) => checks[s] \in Check /\ \E d \in Doc : checks[s].doc = {d}
         /\ checks[s] \in Check => Checks!Running(s)
<1>1. \A c \in Check : c # Checks!NoCheck
  BY DEF Check, Checks!NoCheck
<1>2. Checks!Running(s) => checks[s] \in Check
  BY DEF ChecksTypeOK, Checks!Running
<1>3. checks[s] \in Check => \E d \in Doc : checks[s].doc = {d}
  BY DEF Check
<1> QED  BY <1>1, <1>2, <1>3 DEF Checks!Running

\* Cancelling checks that run changes nothing of a check but its flag, and
\* that of no other check.
LEMMA CancelChecks ==
  ASSUME ChecksTypeOK, NEW sources \in SUBSET Slot, \A s \in sources : Checks!Running(s),
         checks' = Checks!Cancelled(sources)
  PROVE  /\ checks' \in [Slot -> Check \cup {Checks!NoCheck}]
         /\ \A s \in Slot :
              /\ Checks!Running(s)' <=> Checks!Running(s)
              /\ s \notin sources => checks'[s] = checks[s]
              /\ s \in sources => /\ checks'[s].doc = checks[s].doc
                                  /\ checks'[s].version = checks[s].version
                                  /\ checks'[s].read = checks[s].read
                                  /\ checks'[s].cancelled = TRUE
<1>1. ASSUME NEW s \in sources
      PROVE  /\ checks'[s] \in Check
             /\ checks'[s].doc = checks[s].doc
             /\ checks'[s].version = checks[s].version
             /\ checks'[s].read = checks[s].read
             /\ checks'[s].cancelled = TRUE
  <2>1. checks[s] \in Check
    BY <1>1, RunningCheck
  <2>2. checks'[s] = [checks[s] EXCEPT !.cancelled = TRUE]
    BY <1>1 DEF Checks!Cancelled
  <2> QED  BY <2>1, <2>2 DEF Check
<1>2. \A s \in Slot \ sources : checks'[s] = checks[s]
  BY DEF Checks!Cancelled
<1>3. checks' \in [Slot -> Check \cup {Checks!NoCheck}]
  BY <1>1, <1>2 DEF Checks!Cancelled, ChecksTypeOK
<1>4. \A c \in Check : c # Checks!NoCheck
  BY DEF Check, Checks!NoCheck
<1>5. \A s \in Slot : Checks!Running(s)' <=> Checks!Running(s)
  BY <1>1, <1>2, <1>4 DEF Checks!Running
<1> QED  BY <1>1, <1>2, <1>3, <1>5

\* A step that only cancels checks, and leaves the map as it is, keeps the map
\* exact and lets no check live that did not.
LEMMA CancelKeeps ==
  ASSUME ChecksInv, NEW sources \in SUBSET Slot, \A s \in sources : Checks!Running(s),
         checks' = Checks!Cancelled(sources)
  PROVE  /\ \A s \in Slot : Live(s)' => Live(s) /\ s \notin sources /\ checks'[s] = checks[s]
         /\ \A s \in Slot : Checks!Running(s) /\ checks[s].cancelled => checks'[s].cancelled
         /\ automaticChecks' = automaticChecks => MapExact'
<1>1. /\ checks' \in [Slot -> Check \cup {Checks!NoCheck}]
      /\ \A s \in Slot :
           /\ Checks!Running(s)' <=> Checks!Running(s)
           /\ s \notin sources => checks'[s] = checks[s]
           /\ s \in sources => /\ checks'[s].doc = checks[s].doc
                               /\ checks'[s].version = checks[s].version
                               /\ checks'[s].cancelled = TRUE
  BY CancelChecks DEF ChecksInv
<1>2. \A s \in Slot : (Checks!Automatic(s)' <=> Checks!Automatic(s)) /\ checks'[s].doc = checks[s].doc
  BY <1>1 DEF Checks!Automatic
<1>3. \A s \in Slot : Live(s)' => Live(s) /\ s \notin sources /\ checks'[s] = checks[s]
  BY <1>1, <1>2 DEF Live
<1>4. \A s \in Slot : Checks!Running(s) /\ checks[s].cancelled => checks'[s].cancelled
  BY <1>1
<1>5. automaticChecks' = automaticChecks => MapExact'
  BY <1>2 DEF MapExact, ChecksInv, ChecksTypeOK
<1> QED  BY <1>3, <1>4, <1>5

\* The checks in the map run.
LEMMA MapRuns ==
  ASSUME ChecksInv, NEW d \in Doc
  PROVE  automaticChecks[d] \in SUBSET Slot /\ \A s \in automaticChecks[d] : Checks!Running(s)
BY DEF ChecksInv, ChecksTypeOK, MapExact, Checks!Automatic

-----------------------------------------------------------------------------
(* The editor's steps.                                                     *)

LEMMA EditStep == ASSUME ChecksInv, NEW d \in Doc, Checks!Edit(d) PROVE ChecksInv'
<1> USE DEF ChecksInv
<1>1. /\ version' = [version EXCEPT ![d] = @ + 1] /\ checks' = Checks!Cancelled(automaticChecks[d])
      /\ UNCHANGED <<enabled, open, disk, saveTimers, automaticChecks>>
  BY DEF Checks!Edit
<1>2. \A e \in Doc : version[e] \in Nat /\ version'[e] \in Nat /\ version[e] <= version'[e]
  BY <1>1 DEF ChecksTypeOK
<1>3. ChecksTypeOK'
  <2>1. checks' \in [Slot -> Check \cup {Checks!NoCheck}]
    BY <1>1, CancelChecks, MapRuns
  <2> QED  BY <1>1, <1>2, <2>1 DEF ChecksTypeOK
<1>4. TextsInOrder'
  BY <1>1, <1>2 DEF TextsInOrder, ChecksTypeOK
<1>5. MapExact' /\ TimersAlone'
  BY <1>1, CancelKeeps, MapRuns DEF TimersAlone, ChecksTypeOK
<1>6. LiveInMap'
  BY <1>1, CancelKeeps, MapRuns DEF LiveInMap
<1>7. LiveReadLate'
  <2> SUFFICES ASSUME NEW s \in Slot, Live(s)', NEW e \in checks'[s].doc
               PROVE  /\ checks'[s].version <= disk'[e]
                      /\ checks'[s].read # Checks!Unread =>
                           /\ checks'[s].version <= checks'[s].read[e]
                           /\ checks'[s].read[e] <= version'[e]
    BY DEF LiveReadLate, Checks!Unread
  <2>1. Live(s) /\ checks'[s] = checks[s]
    BY <1>1, CancelKeeps, MapRuns
  <2>2. checks[s] \in Check /\ e \in Doc
    BY <2>1, RunningCheck DEF Live, Checks!Automatic
  <2>3. checks[s].read[e] \in Nat /\ checks[s].version \in Nat
    BY <2>2 DEF Check
  <2> QED  BY <1>1, <1>2, <2>1, <2>2, <2>3 DEF LiveReadLate
<1> QED  BY <1>3, <1>4, <1>5, <1>6, <1>7

LEMMA SaveStep == ASSUME ChecksInv, NEW d \in Doc, Checks!Save(d) PROVE ChecksInv'
<1> USE DEF ChecksInv
<1>1. /\ disk' = [disk EXCEPT ![d] = version[d]]
      /\ UNCHANGED <<enabled, open, version, automaticChecks>>
  BY DEF Checks!Save
<1>2. \A e \in Doc : /\ disk[e] \in Nat /\ disk'[e] \in Nat /\ version[e] \in Nat
                     /\ disk[e] <= disk'[e] /\ disk'[e] <= version[e]
  BY <1>1 DEF ChecksTypeOK, TextsInOrder
<1>3. \A s \in Slot : Live(s)' => Live(s) /\ checks'[s] = checks[s]
  BY CancelKeeps, MapRuns DEF Checks!Save, Checks!Schedule, Live, Checks!Automatic, Checks!Running
<1>4. LiveReadLate'
  <2> SUFFICES ASSUME NEW s \in Slot, Live(s)', NEW e \in checks'[s].doc
               PROVE  /\ checks'[s].version <= disk'[e]
                      /\ checks'[s].read # Checks!Unread =>
                           /\ checks'[s].version <= checks'[s].read[e]
                           /\ checks'[s].read[e] <= version'[e]
    BY DEF LiveReadLate, Checks!Unread
  <2>1. Live(s) /\ checks'[s] = checks[s]
    BY <1>3
  <2>2. checks[s] \in Check /\ e \in Doc
    BY <2>1, RunningCheck DEF Live, Checks!Automatic
  <2>3. checks[s].version \in Nat
    BY <2>2 DEF Check
  <2> QED  BY <1>1, <1>2, <2>1, <2>2, <2>3 DEF LiveReadLate
<1>5. LiveInMap'
  BY <1>1, <1>3 DEF LiveInMap
<1>6. CASE enabled
  <2>1. /\ saveTimers' = [saveTimers EXCEPT ![d] = version[d]]
        /\ checks' = Checks!Cancelled(automaticChecks[d])
    BY <1>6 DEF Checks!Save, Checks!Schedule
  <2>2. ChecksTypeOK'
    <3>1. checks' \in [Slot -> Check \cup {Checks!NoCheck}]
      BY <2>1, CancelChecks, MapRuns
    <3> QED  BY <1>1, <1>2, <2>1, <3>1 DEF ChecksTypeOK
  <2>3. TextsInOrder'
    BY <1>1, <1>2, <2>1 DEF TextsInOrder, ChecksTypeOK
  <2>4. MapExact'
    BY <1>1, <2>1, CancelKeeps, MapRuns
  <2>5. \A s \in automaticChecks[d] : checks'[s].cancelled
    BY <2>1, CancelChecks, MapRuns
  <2>6. TimersAlone'
    BY <1>1, <1>6, <2>1, <2>5, CancelKeeps, MapRuns DEF TimersAlone, ChecksTypeOK
  <2> QED  BY <1>4, <1>5, <2>2, <2>3, <2>4, <2>6
<1>7. CASE ~enabled
  <2>1. UNCHANGED <<saveTimers, checks>>
    BY <1>7 DEF Checks!Save, Checks!Schedule
  <2>2. ChecksTypeOK' /\ TextsInOrder'
    BY <1>1, <1>2, <2>1 DEF ChecksTypeOK, TextsInOrder
  <2>3. MapExact' /\ TimersAlone'
    BY <1>1, <2>1 DEF MapExact, TimersAlone, Checks!Automatic, Checks!Running
  <2> QED  BY <1>4, <1>5, <2>2, <2>3
<1> QED  BY <1>6, <1>7

LEMMA CloseStep == ASSUME ChecksInv, NEW d \in Doc, Checks!Close(d) PROVE ChecksInv'
<1>1. /\ open' = open \ {d}
      /\ UNCHANGED <<enabled, version, disk, saveTimers, automaticChecks, checks>>
  BY DEF Checks!Close
<1>2. ChecksTypeOK' /\ TextsInOrder' /\ TimersAlone'
  BY <1>1 DEF ChecksInv, ChecksTypeOK, TextsInOrder, TimersAlone
<1>3. MapExact' /\ LiveInMap' /\ LiveReadLate'
  BY <1>1 DEF ChecksInv, MapExact, LiveInMap, LiveReadLate, Live, Checks!Automatic,
              Checks!Running, Checks!Unread
<1> QED  BY <1>2, <1>3 DEF ChecksInv

LEMMA TurnOnStep == ASSUME ChecksInv, Checks!TurnOn PROVE ChecksInv'
<1>1. /\ enabled' = TRUE
      /\ UNCHANGED <<open, version, disk, saveTimers, automaticChecks, checks>>
  BY DEF Checks!TurnOn
<1>2. ChecksTypeOK' /\ TextsInOrder' /\ TimersAlone'
  BY <1>1 DEF ChecksInv, ChecksTypeOK, TextsInOrder, TimersAlone
<1>3. MapExact' /\ LiveInMap' /\ LiveReadLate'
  BY <1>1 DEF ChecksInv, MapExact, LiveInMap, LiveReadLate, Live, Checks!Automatic,
              Checks!Running, Checks!Unread
<1> QED  BY <1>2, <1>3 DEF ChecksInv

\* Every check that can still publish is in the map, so that all of them are
\* cancelled with the setting.
LEMMA TurnOffStep == ASSUME ChecksInv, Checks!TurnOff PROVE ChecksInv'
<1> DEFINE sources == UNION {automaticChecks[d] : d \in Doc}
<1>1. /\ enabled' = FALSE /\ saveTimers' = [d \in Doc |-> 0]
      /\ checks' = Checks!Cancelled(sources) /\ automaticChecks' = [d \in Doc |-> Checks!NoSlot]
      /\ UNCHANGED <<open, version, disk>>
  BY DEF Checks!TurnOff
<1>2. sources \in SUBSET Slot /\ \A s \in sources : Checks!Running(s)
  BY MapRuns
<1>3. checks' \in [Slot -> Check \cup {Checks!NoCheck}]
  BY <1>1, <1>2, CancelChecks DEF ChecksInv
<1>4. ChecksTypeOK' /\ TextsInOrder'
  <2> HIDE DEF sources
  <2>1. saveTimers' \in [Doc -> Nat] /\ automaticChecks' \in [Doc -> SUBSET Slot]
    BY <1>1 DEF Checks!NoSlot
  <2>2. ChecksTypeOK'
    BY <1>1, <1>3, <2>1 DEF ChecksInv, ChecksTypeOK
  <2>3. TextsInOrder'
    BY <1>1 DEF ChecksInv, ChecksTypeOK, TextsInOrder
  <2> QED  BY <2>2, <2>3
<1>5. TimersAlone' /\ MapExact'
  BY <1>1 DEF TimersAlone, MapExact, Checks!NoSlot
<1>6. ASSUME NEW s \in Slot, Live(s)'
      PROVE  FALSE
  <2>1. Live(s) /\ s \notin sources
    BY <1>1, <1>2, <1>6, CancelKeeps
  <2>2. PICK d \in Doc : checks[s].doc = {d}
    BY <2>1, RunningCheck DEF ChecksInv, Live, Checks!Automatic
  <2>3. s \in automaticChecks[d]
    BY <2>1, <2>2 DEF ChecksInv, LiveInMap
  <2> QED  BY <2>1, <2>3
<1> QED  BY <1>4, <1>5, <1>6 DEF ChecksInv, LiveInMap, LiveReadLate

-----------------------------------------------------------------------------
(* The checks' steps.                                                      *)

LEMMA BeginCheck ==
  ASSUME ChecksTypeOK, NEW s \in Slot, NEW d \in Doc, NEW v \in Nat, Checks!Begin(s, d, v)
  PROVE  /\ ~Checks!Running(s)
         /\ checks' \in [Slot -> Check \cup {Checks!NoCheck}]
         /\ checks'[s] \in Check
         /\ checks'[s].doc = {d} /\ checks'[s].version = v /\ checks'[s].read = Checks!Unread
         /\ ~checks'[s].cancelled
         /\ \A t \in Slot : t # s => checks'[t] = checks[t]
<1> DEFINE new == [doc |-> {d}, version |-> v, cancelled |-> FALSE, read |-> Checks!Unread]
<1>1. ~Checks!Running(s) /\ checks' = [checks EXCEPT ![s] = new]
  BY DEF Checks!Begin
<1>2. Checks!Unread \in [Doc -> Nat]
  BY DEF Checks!Unread
<1>3. new \in Check
  BY <1>2 DEF Check
<1> HIDE DEF new
<1>4. checks'[s] = new /\ \A t \in Slot : t # s => checks'[t] = checks[t]
  BY <1>1 DEF ChecksTypeOK
<1>5. checks' \in [Slot -> Check \cup {Checks!NoCheck}]
  BY <1>1, <1>3 DEF ChecksTypeOK
<1> QED  BY <1>1, <1>3, <1>4, <1>5 DEF new

\* The check that begins takes the place of one that is cancelled: no timer is
\* set beside a check that is not.
LEMMA FireStep == ASSUME ChecksInv, NEW d \in Doc, Checks!Fire(d) PROVE ChecksInv'
<1>1. /\ saveTimers[d] # 0 /\ saveTimers' = [saveTimers EXCEPT ![d] = 0]
      /\ UNCHANGED <<enabled, open, version, disk>>
  BY DEF Checks!Fire
<1> PICK s \in Slot : /\ Checks!Begin(s, d, saveTimers[d])
                      /\ automaticChecks' = [automaticChecks EXCEPT ![d] = {s}]
  BY DEF Checks!Fire
<1>2. saveTimers[d] \in Nat
  BY DEF ChecksInv, ChecksTypeOK
<1>3. /\ ~Checks!Running(s)
      /\ checks' \in [Slot -> Check \cup {Checks!NoCheck}]
      /\ checks'[s] \in Check
      /\ checks'[s].doc = {d} /\ checks'[s].version = saveTimers[d] /\ checks'[s].read = Checks!Unread
      /\ \A t \in Slot : t # s => checks'[t] = checks[t]
  BY <1>2, BeginCheck DEF ChecksInv
<1>4. ChecksTypeOK' /\ TextsInOrder'
  BY <1>1, <1>3 DEF ChecksInv, ChecksTypeOK, TextsInOrder
<1>5. Checks!Automatic(s)'
  <2>1. Checks!Running(s)'
    BY <1>3, <1>4, RunningCheck DEF Check, Checks!Running, Checks!NoCheck
  <2> QED  BY <1>1, <1>3, <2>1 DEF Checks!Automatic
<1>6. \A t \in Slot : t # s =>
        (Checks!Automatic(t)' <=> Checks!Automatic(t)) /\ (Live(t)' <=> Live(t))
  BY <1>3 DEF Checks!Automatic, Checks!Running, Live
<1>7. \A e \in Doc : \A t \in automaticChecks[e] : t \in Slot /\ t # s
  BY <1>3, MapRuns
<1>8. MapExact'
  BY <1>3, <1>5, <1>6, <1>7 DEF ChecksInv, ChecksTypeOK, MapExact
<1>9. TimersAlone'
  BY <1>1, <1>3, <1>7 DEF ChecksInv, ChecksTypeOK, TimersAlone
<1>10. LiveInMap'
  <2>1. enabled
    BY <1>1 DEF ChecksInv, TimersAlone
  <2>2. ASSUME NEW t \in Slot, Live(t)', NEW e \in checks'[t].doc
        PROVE  t \in automaticChecks'[e]
    <3>1. CASE t = s
      BY <1>3, <2>2, <3>1 DEF ChecksInv, ChecksTypeOK
    <3>2. CASE t # s
      <4>1. Live(t) /\ checks'[t] = checks[t]
        BY <1>3, <1>6, <2>2, <3>2
      <4>2. e \in Doc /\ t \in automaticChecks[e]
        BY <2>2, <4>1, RunningCheck DEF ChecksInv, LiveInMap, Live, Checks!Automatic
      <4>3. e # d
        BY <1>1, <4>1, <4>2 DEF ChecksInv, TimersAlone, Live
      <4> QED  BY <4>2, <4>3 DEF ChecksInv, ChecksTypeOK
    <3> QED  BY <3>1, <3>2
  <2> QED  BY <1>1, <2>1, <2>2 DEF LiveInMap
<1>11. LiveReadLate'
  <2> SUFFICES ASSUME NEW t \in Slot, Live(t)', NEW e \in checks'[t].doc
               PROVE  /\ checks'[t].version <= disk'[e]
                      /\ checks'[t].read # Checks!Unread =>
                           /\ checks'[t].version <= checks'[t].read[e]
                           /\ checks'[t].read[e] <= version'[e]
    BY DEF LiveReadLate, Checks!Unread
  <2>1. CASE t = s
    BY <1>1, <1>3, <2>1 DEF ChecksInv, TextsInOrder
  <2>2. CASE t # s
    BY <1>1, <1>3, <1>6, <2>2 DEF ChecksInv, LiveReadLate
  <2> QED  BY <2>1, <2>2
<1> QED  BY <1>4, <1>8, <1>9, <1>10, <1>11 DEF ChecksInv

\* A step that begins, ends or changes a command's check only, and ends no
\* other, is nothing to the map.
LEMMA CommandStep == ASSUME ChecksInv, NEW d \in Doc, Checks!Command(d) PROVE ChecksInv'
<1>1. UNCHANGED <<enabled, open, version, disk, saveTimers, automaticChecks>>
  BY DEF Checks!Command
<1> PICK s \in Slot : Checks!Begin(s, d, 0)
  BY DEF Checks!Command
<1>2. /\ ~Checks!Running(s)
      /\ checks' \in [Slot -> Check \cup {Checks!NoCheck}]
      /\ checks'[s].version = 0
      /\ \A t \in Slot : t # s => checks'[t] = checks[t]
  BY BeginCheck DEF ChecksInv
<1>3. ~Checks!Automatic(s)' /\ ~Live(s)'
  BY <1>2 DEF Checks!Automatic, Live
<1>4. \A t \in Slot : t # s =>
        (Checks!Automatic(t)' <=> Checks!Automatic(t)) /\ (Live(t)' <=> Live(t))
  BY <1>2 DEF Checks!Automatic, Checks!Running, Live
<1>5. \A e \in Doc : \A t \in automaticChecks[e] : t \in Slot /\ t # s
  BY <1>2, MapRuns
<1>6. ChecksTypeOK' /\ TextsInOrder'
  BY <1>1, <1>2 DEF ChecksInv, ChecksTypeOK, TextsInOrder
<1>7. MapExact' /\ TimersAlone'
  BY <1>1, <1>2, <1>4, <1>5 DEF ChecksInv, MapExact, TimersAlone
<1>8. LiveInMap' /\ LiveReadLate'
  BY <1>1, <1>2, <1>3, <1>4 DEF ChecksInv, LiveInMap, LiveReadLate, Checks!Unread
<1> QED  BY <1>6, <1>7, <1>8 DEF ChecksInv

LEMMA CancelCommandStep == ASSUME ChecksInv, NEW s \in Slot, Checks!CancelCommand(s) PROVE ChecksInv'
<1>1. /\ {s} \in SUBSET Slot /\ Checks!Running(s) /\ checks' = Checks!Cancelled({s})
      /\ UNCHANGED <<enabled, open, version, disk, saveTimers, automaticChecks>>
  BY DEF Checks!CancelCommand
<1>2. checks' \in [Slot -> Check \cup {Checks!NoCheck}]
  BY <1>1, CancelChecks DEF ChecksInv
<1>3. ChecksTypeOK' /\ TextsInOrder'
  BY <1>1, <1>2 DEF ChecksInv, ChecksTypeOK, TextsInOrder
<1>4. /\ \A t \in Slot : Live(t)' => Live(t) /\ checks'[t] = checks[t]
      /\ \A t \in Slot : Checks!Running(t) /\ checks[t].cancelled => checks'[t].cancelled
      /\ MapExact'
  BY <1>1, CancelKeeps
<1>5. TimersAlone'
  BY <1>1, <1>4, MapRuns DEF ChecksInv, TimersAlone
<1>6. LiveInMap' /\ LiveReadLate'
  BY <1>1, <1>4 DEF ChecksInv, LiveInMap, LiveReadLate, Checks!Unread
<1> QED  BY <1>3, <1>4, <1>5, <1>6 DEF ChecksInv

\* What is read is the disk, where the saved text or a later one is.
LEMMA ReadStep == ASSUME ChecksInv, NEW s \in Slot, Checks!Read(s) PROVE ChecksInv'
<1>1. /\ Checks!Running(s) /\ checks' = [checks EXCEPT ![s].read = disk]
      /\ UNCHANGED <<enabled, open, version, disk, saveTimers, automaticChecks>>
  BY DEF Checks!Read
<1>2. checks[s] \in Check
  BY <1>1, RunningCheck DEF ChecksInv
<1>3. /\ checks'[s] \in Check
      /\ checks'[s].doc = checks[s].doc /\ checks'[s].version = checks[s].version
      /\ checks'[s].cancelled = checks[s].cancelled /\ checks'[s].read = disk
      /\ \A t \in Slot : t # s => checks'[t] = checks[t]
  BY <1>1, <1>2 DEF ChecksInv, ChecksTypeOK, Check
<1>4. ChecksTypeOK' /\ TextsInOrder'
  <2>1. checks' \in [Slot -> Check \cup {Checks!NoCheck}]
    BY <1>1, <1>3 DEF ChecksInv, ChecksTypeOK
  <2> QED  BY <1>1, <2>1 DEF ChecksInv, ChecksTypeOK, TextsInOrder
<1>5. Checks!Running(s)'
  BY <1>3, <1>4, RunningCheck DEF Checks!Running, Check, Checks!NoCheck
<1>6. \A t \in Slot : (Checks!Automatic(t)' <=> Checks!Automatic(t)) /\ (Live(t)' <=> Live(t))
  BY <1>1, <1>3, <1>5 DEF Checks!Automatic, Checks!Running, Live
<1>7. \A t \in Slot : checks'[t].doc = checks[t].doc /\ checks'[t].cancelled = checks[t].cancelled
  BY <1>3
<1>8. MapExact' /\ TimersAlone' /\ LiveInMap'
  BY <1>1, <1>6, <1>7 DEF ChecksInv, ChecksTypeOK, MapExact, TimersAlone, LiveInMap
<1>9. LiveReadLate'
  <2> SUFFICES ASSUME NEW t \in Slot, Live(t)', NEW e \in checks'[t].doc
               PROVE  /\ checks'[t].version <= disk'[e]
                      /\ checks'[t].read # Checks!Unread =>
                           /\ checks'[t].version <= checks'[t].read[e]
                           /\ checks'[t].read[e] <= version'[e]
    BY DEF LiveReadLate, Checks!Unread
  <2>1. CASE t = s
    <3>1. Live(s) /\ e \in Doc /\ checks[s].version <= disk[e]
      BY <1>2, <1>3, <1>6, <2>1 DEF ChecksInv, LiveReadLate, Check
    <3> QED  BY <1>1, <1>3, <2>1, <3>1 DEF ChecksInv, TextsInOrder
  <2>2. CASE t # s
    BY <1>1, <1>3, <1>6, <2>2 DEF ChecksInv, LiveReadLate
  <2> QED  BY <2>1, <2>2
<1> QED  BY <1>4, <1>8, <1>9 DEF ChecksInv

LEMMA EndStep == ASSUME ChecksInv, NEW s \in Slot, Checks!End(s) PROVE ChecksInv'
<1>1. /\ checks' = [checks EXCEPT ![s] = Checks!NoCheck]
      /\ automaticChecks' = [d \in Doc |-> automaticChecks[d] \ {s}]
      /\ UNCHANGED <<enabled, open, version, disk, saveTimers>>
  BY DEF Checks!End, Checks!Forget
<1>2. checks'[s] = Checks!NoCheck /\ \A t \in Slot : t # s => checks'[t] = checks[t]
  BY <1>1 DEF ChecksInv, ChecksTypeOK
<1>3. ChecksTypeOK' /\ TextsInOrder'
  <2>1. checks' \in [Slot -> Check \cup {Checks!NoCheck}] /\ automaticChecks' \in [Doc -> SUBSET Slot]
    BY <1>1 DEF ChecksInv, ChecksTypeOK
  <2> QED  BY <1>1, <2>1 DEF ChecksInv, ChecksTypeOK, TextsInOrder
<1>4. ~Live(s)'
  BY <1>2 DEF Live, Checks!Automatic, Checks!Running
<1>5. \A t \in Slot : t # s =>
        (Checks!Automatic(t)' <=> Checks!Automatic(t)) /\ (Live(t)' <=> Live(t))
  BY <1>2 DEF Checks!Automatic, Checks!Running, Live
<1>6. MapExact' /\ TimersAlone'
  BY <1>1, <1>2, <1>5, MapRuns DEF ChecksInv, MapExact, TimersAlone
<1>7. LiveInMap'
  <2> SUFFICES ASSUME NEW t \in Slot, Live(t)'
               PROVE  enabled' /\ \A e \in checks'[t].doc : t \in automaticChecks'[e]
    BY DEF LiveInMap
  <2>1. t # s /\ Live(t) /\ checks'[t] = checks[t]
    BY <1>2, <1>4, <1>5
  <2>2. checks[t].doc \subseteq Doc
    BY <2>1, RunningCheck DEF ChecksInv, Live, Checks!Automatic
  <2> QED  BY <1>1, <2>1, <2>2 DEF ChecksInv, LiveInMap
<1>8. LiveReadLate'
  BY <1>1, <1>2, <1>4, <1>5 DEF ChecksInv, LiveReadLate, Checks!Unread
<1> QED  BY <1>3, <1>6, <1>7, <1>8 DEF ChecksInv

-----------------------------------------------------------------------------
\* The invariant is inductive, and gives OneLiveCheck.
LEMMA ChecksInit == Checks!Init => ChecksInv
<1> SUFFICES ASSUME Checks!Init PROVE ChecksInv
  OBVIOUS
<1>1. checks \in [Slot -> {Checks!NoCheck}] /\ automaticChecks \in [Doc -> {Checks!NoSlot}]
  BY DEF Checks!Init
<1>2. ChecksTypeOK /\ TextsInOrder
  BY <1>1 DEF Checks!Init, ChecksTypeOK, TextsInOrder, Checks!NoSlot
<1>3. \A s \in Slot : ~Live(s)
  BY <1>1 DEF Live, Checks!Automatic, Checks!Running
<1>4. TimersAlone /\ MapExact /\ LiveInMap /\ LiveReadLate
  BY <1>1, <1>3 DEF Checks!Init, TimersAlone, MapExact, LiveInMap, LiveReadLate, Checks!NoSlot
<1> QED  BY <1>2, <1>4 DEF ChecksInv

LEMMA ChecksStep == ASSUME ChecksInv, [Checks!Next]_checkVars PROVE ChecksInv'
<1>1. CASE Checks!Next
  <2>1. ASSUME NEW d \in Doc,
               \/ Checks!Edit(d) \/ Checks!Close(d) \/ Checks!Save(d)
               \/ Checks!Fire(d) \/ Checks!Command(d)
        PROVE  ChecksInv'
    BY <2>1, EditStep, CloseStep, SaveStep, FireStep, CommandStep
  <2>2. ASSUME NEW s \in Slot, Checks!CancelCommand(s) \/ Checks!Read(s) \/ Checks!End(s)
        PROVE  ChecksInv'
    BY <2>2, CancelCommandStep, ReadStep, EndStep
  <2> QED  BY <1>1, <2>1, <2>2, TurnOnStep, TurnOffStep DEF Checks!Next
<1>2. CASE UNCHANGED checkVars
  <2>1. ChecksTypeOK' /\ TextsInOrder' /\ TimersAlone'
    BY <1>2 DEF checkVars, ChecksInv, ChecksTypeOK, TextsInOrder, TimersAlone
  <2>2. MapExact' /\ LiveInMap' /\ LiveReadLate'
    BY <1>2 DEF checkVars, ChecksInv, MapExact, LiveInMap, LiveReadLate, Live, Checks!Automatic,
                Checks!Running, Checks!Unread
  <2> QED  BY <2>1, <2>2 DEF ChecksInv
<1> QED  BY <1>1, <1>2

LEMMA ChecksOneLive == ChecksInv => Checks!OneLiveCheck
<1> SUFFICES ASSUME ChecksInv, NEW s \in Slot, NEW t \in Slot,
                    s # t, Checks!Automatic(s), Checks!Automatic(t), checks[s].doc = checks[t].doc,
                    ~checks[s].cancelled, ~checks[t].cancelled
             PROVE  FALSE
  BY DEF Checks!OneLiveCheck
<1>1. PICK d \in Doc : checks[s].doc = {d}
  BY RunningCheck DEF ChecksInv, Checks!Automatic
<1>2. s \in automaticChecks[d] /\ t \in automaticChecks[d]
  BY <1>1 DEF ChecksInv, LiveInMap, Live
<1> QED  BY <1>2 DEF ChecksInv, MapExact

\* What PublishedIsCurrent says of a step.
PublishesCurrent ==
  \A s \in Slot :
    Checks!End(s) /\ Checks!Automatic(s) /\ shown' # shown =>
      \A d \in checks[s].doc : d \in open /\ shown'[d] = version[d]

\* A result that is published is of the version it was started for, and was
\* read no earlier than that version was saved.
LEMMA PublishStep == ASSUME ChecksInv, [Checks!Next]_checkVars PROVE PublishesCurrent
<1> SUFFICES ASSUME NEW s \in Slot, Checks!End(s), Checks!Automatic(s), shown' # shown,
                    NEW d \in checks[s].doc
             PROVE  d \in open /\ shown'[d] = version[d]
  BY DEF PublishesCurrent
<1>1. Checks!Publishes(s) /\ shown' = checks[s].read
  BY DEF Checks!End
<1>2. Live(s) /\ checks[s].read # Checks!Unread /\ d \in open /\ version[d] = checks[s].version
  BY <1>1 DEF Checks!Publishes, Live
<1>3. checks[s].version <= checks[s].read[d] /\ checks[s].read[d] <= version[d]
  BY <1>2 DEF ChecksInv, LiveReadLate
<1>4. checks[s] \in Check /\ d \in Doc
  BY <1>2, RunningCheck DEF ChecksInv, Live, Checks!Automatic
<1>5. checks[s].read[d] \in Nat /\ version[d] \in Nat
  BY <1>4 DEF ChecksInv, ChecksTypeOK, Check
<1> QED  BY <1>1, <1>2, <1>3, <1>5

\* What OffPublishesNothing says of a step.
PublishesNothingOff ==
  ~enabled /\ shown' # shown => \E s \in Slot : Checks!End(s) /\ ~Checks!Automatic(s)

\* Only the end of a check changes what is shown, and with the setting off no
\* automatic check can publish.
LEMMA OffStep == ASSUME ChecksInv, [Checks!Next]_checkVars PROVE PublishesNothingOff
<1> SUFFICES ASSUME ~enabled, shown' # shown
             PROVE  \E s \in Slot : Checks!End(s) /\ ~Checks!Automatic(s)
  BY DEF PublishesNothingOff
<1>1. PICK s \in Slot : Checks!End(s)
  BY DEF Checks!Next, checkVars, Checks!Edit, Checks!Close, Checks!Save, Checks!Fire,
         Checks!Command, Checks!TurnOn, Checks!TurnOff, Checks!CancelCommand, Checks!Read
<1>2. Checks!Publishes(s)
  BY <1>1 DEF Checks!End
<1>3. ~Live(s)
  BY DEF ChecksInv, LiveInMap
<1> QED  BY <1>1, <1>2, <1>3 DEF Checks!Publishes, Live

-----------------------------------------------------------------------------
\* What is proved of an execution of each part alone holds of the extension:
\* activate leaves each part in an initial state and no step of another part
\* touches it.
THEOREM PartsAlone ==
  ExtensionSpec => /\ Server!Init  /\ [][Server!Next]_serverVars
                   /\ Checks!Init  /\ [][Checks!Next]_checkVars
                   /\ Refresh!Init /\ [][Refresh!Next]_refreshVars
                   /\ InitAll      /\ [][NextAll]_all
<1>1. Activate => Server!Init /\ Checks!Init /\ Refresh!Init /\ InitAll
  BY DEF Activate
<1> QED  BY <1>1, PartSteps, PTL DEF ExtensionSpec

\* Until the extension is deactivated, and after it unless a restart is asked
\* for then, there is one server or none, and client, watcher and status bar
\* agree with it (serverOperation, stopLanguageServer, startLanguageServer).
THEOREM ExtensionClient == ExtensionSpec => []((LateRequests => ~Server!Deactivating) => ClientExact)
<1>1. Activate => ServerProofs!SerialInv
  BY SameServerInit, ServerProofs!InvInit DEF Activate
<1>2. ServerProofs!SerialInv /\ [ExtensionNext]_extension => ServerProofs!SerialInv'
  BY PartSteps, SameServerNext, ServerProofs!InvStep
<1>3. ServerProofs!SerialInv => ((LateRequests => ~Server!Deactivating) => ClientExact)
  BY SameClientExact
<1> QED  BY <1>1, <1>2, <1>3, PTL DEF ExtensionSpec

\* Of the checks that saves started for a document at most one is uncancelled.
THEOREM ExtensionChecksAlone == ExtensionSpec => []OneLiveCheck
<1>1. Activate => ChecksInv
  BY ChecksInit DEF Activate
<1>2. ChecksInv /\ [ExtensionNext]_extension => ChecksInv'
  BY PartSteps, ChecksStep
<1>3. ChecksInv => OneLiveCheck
  BY ChecksOneLive DEF OneLiveCheck
<1> QED  BY <1>1, <1>2, <1>3, PTL DEF ExtensionSpec

\* What an automatic check publishes is of the text the editor has, and none
\* publishes with the setting off.
THEOREM ExtensionPublishesRight == ExtensionSpec => PublishesRight
<1>1. Activate => ChecksInv
  BY ChecksInit DEF Activate
<1>2. ChecksInv /\ [ExtensionNext]_extension => ChecksInv'
  BY PartSteps, ChecksStep
<1>3. ChecksInv /\ [ExtensionNext]_extension => [PublishesCurrent /\ PublishesNothingOff]_checkVars
  BY PartSteps, PublishStep, OffStep
<1>4. PublishesRight <=> [][PublishesCurrent /\ PublishesNothingOff]_checkVars
  <2>1. Checks!PublishedIsCurrent <=> [][PublishesCurrent]_checkVars
    BY DEF Checks!PublishedIsCurrent, PublishesCurrent, Checks!vars, checkVars
  <2>2. Checks!OffPublishesNothing <=> [][PublishesNothingOff]_checkVars
    BY DEF Checks!OffPublishesNothing, PublishesNothingOff, Checks!vars, checkVars
  <2> QED  BY <2>1, <2>2, PTL DEF PublishesRight
<1> QED  BY <1>1, <1>2, <1>3, <1>4, PTL DEF ExtensionSpec

\* A command that awaited a refresh (refresh and discover of testing.ts) acts
\* on the tests the files hold, whenever it was called and whatever the
\* discovery it joined had read by then.
THEOREM CommandsSeeTheFiles == ExtensionSpec => CallsSeeTheFiles
<1>1. Activate => RefreshInv
  BY RefreshInit DEF Activate
<1>2. RefreshInv /\ [ExtensionNext]_extension => RefreshInv'
  BY PartSteps, RefreshStepInv
<1>3. RefreshInv /\ [ExtensionNext]_extension => [CallsReturnSeeing]_refreshVars
  BY PartSteps, RefreshReturns
<1>4. CallsSeeTheFiles <=> [][CallsReturnSeeing]_refreshVars
  BY DEF CallsSeeTheFiles, Refresh!CallsSeeTheFiles, CallsReturnSeeing, Refresh!vars, refreshVars
<1> QED  BY <1>1, <1>2, <1>3, <1>4, PTL DEF ExtensionSpec

\* OutcomesExact of a run of tests beside the processes it starts, whatever
\* they leave behind and whichever of them ignore SIGTERM, and beside the rest
\* of the extension: one outcome for each test, an exact summary, no directory
\* but one whose removal failed, no error without a cause.
THEOREM ExtensionOutcomes == ExtensionSpec => []OutcomesExact
<1>1. Activate => IInv
  BY InvInit DEF Activate, InitAll
<1>2. IInv /\ [ExtensionNext]_extension => IInv'
  BY PartSteps, RunAlone, InvStep
<1> QED  BY <1>1, <1>2, InvOutcomes, PTL DEF ExtensionSpec
=============================================================================

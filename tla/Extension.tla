------------------------------ MODULE Extension ------------------------------
(***************************************************************************)
(* The parts of the VS Code extension that activate                        *)
(* (editors/vscode/extension/src/extension.ts) sets up: the language       *)
(* server's lifecycle, checks on save, test discovery and test runs.  They *)
(* share the event loop and no state, so that what one does is what it     *)
(* does alone: an execution is that of one part, chosen at its start,      *)
(* while the others are as activation leaves them.                         *)
(***************************************************************************)
EXTENDS TestProcesses

CONSTANTS
  MaxOperations, MaxDeaths, BundledFails, LateRequests,            \* ServerLifecycle
  Doc, Slot, MaxVersion, MaxSaves,                                 \* CheckOnSave
  File, Tests, Nothing, Caller, MaxChanges, DeletedInDiscovery     \* TestRefresh

ASSUME BoundsAssumption ==
  /\ MaxOperations \in Nat /\ MaxDeaths \in Nat /\ MaxChanges \in Nat
  /\ MaxVersion \in [Doc -> Nat] /\ MaxSaves \in [Doc -> Nat]

VARIABLES
  part,
  settings, operations, serverOperation, client, servers, watchers, sourceWatcher, status, deaths,
  enabled, open, version, disk, saves, saveTimers, automaticChecks, checks, shown,
  testFiles, events, changes, items, refreshRequested, found, opened, discovering, waiting, quiet, stopped

serverVars  == <<settings, operations, serverOperation, client, servers, watchers, sourceWatcher, status, deaths>>
checkVars   == <<enabled, open, version, disk, saves, saveTimers, automaticChecks, checks, shown>>
refreshVars == <<testFiles, events, changes, items, refreshRequested, found, opened, discovering, waiting, quiet, stopped>>
extension   == <<part, serverVars, checkVars, refreshVars, all>>

Server  == INSTANCE ServerLifecycle
Checks  == INSTANCE CheckOnSave
Refresh == INSTANCE TestRefresh WITH disk <- testFiles

\* activate: the choices of a part at rest are of no consequence.
Activate ==
  /\ part \in {"server", "checks", "refresh", "run"}
  /\ Server!Init  /\ (part # "server"  => settings = [mode |-> "typescript", native |-> "missing"])
  /\ Checks!Init  /\ (part # "checks"  => enabled)
  /\ Refresh!Init /\ (part # "refresh" => testFiles = Refresh!Empty)
  /\ InitAll      /\ (part # "run"     => ~cancelled /\ ~coverage)

ServerStep  == part = "server"  /\ Server!Next  /\ UNCHANGED <<part, checkVars, refreshVars, all>>
CheckStep   == part = "checks"  /\ Checks!Next  /\ UNCHANGED <<part, serverVars, refreshVars, all>>
RefreshStep == part = "refresh" /\ Refresh!Next /\ UNCHANGED <<part, serverVars, checkVars, all>>
RunStep     == part = "run"     /\ NextAll      /\ UNCHANGED <<part, serverVars, checkVars, refreshVars>>

ExtensionNext == ServerStep \/ CheckStep \/ RefreshStep \/ RunStep

\* Each part has the fairness of its own specification.
ExtensionSpec ==
  /\ Activate /\ [][ExtensionNext]_extension
  /\ \A i \in 1 .. MaxOperations + 1 : WF_serverVars(part = "server" /\ Server!Step(i))
  /\ \A d \in Doc : WF_checkVars(part = "checks" /\ Checks!Fire(d))
  /\ \A s \in Slot : WF_checkVars(part = "checks" /\ (Checks!Read(s) \/ Checks!End(s)))
  /\ WF_refreshVars(part = "refresh" /\ Refresh!Discover)
  /\ \A f \in File : WF_refreshVars(part = "refresh" /\ (Refresh!Changed(f) \/ Refresh!Deleted(f)))
  /\ WF_all(part = "run" /\ Continue)
  /\ \A p \in Process : WF_all(part = "run" /\ Call!Die(p) /\ UNCHANGED vars)
  /\ WF_all(part = "run" /\ Call!Kill /\ UNCHANGED vars)
  /\ WF_all(part = "run" /\ Call!Exit /\ UNCHANGED vars)
  /\ WF_all(part = "run" /\ Call!Close /\ UNCHANGED vars)

-----------------------------------------------------------------------------
\* However restarts, a deactivation and failed starts interleave, there are
\* never two language servers; between operations the watcher and the status
\* bar go with the client the extension holds, and a deactivated one has none.
ClientExact == Server!ClientExact

\* The settings of the last request are those in force in the end, whatever
\* was under way when they came, unless its stop of the server was rejected.
SettingsTakeEffect == part = "server" => Server!SettingsTakeEffect

\* Of the checks saves started for a document at most one can still publish.
OneLiveCheck == Checks!OneLiveCheck

\* What an automatic check publishes is of the text the editor has, and none
\* publishes once the setting is off.
PublishesRight == Checks!PublishedIsCurrent /\ Checks!OffPublishesNothing

\* A save nothing overtakes is checked.
SavesAreChecked == part = "checks" => Checks!SavesAreChecked

\* A command acts on the tests the files hold, whichever refresh it joined.
CallsSeeTheFiles == Refresh!CallsSeeTheFiles

\* In the end the tests shown are those of the files.
ItemsCatchUp == part = "refresh" => Refresh!ItemsCatchUp
=============================================================================

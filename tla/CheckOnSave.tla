---------------------------- MODULE CheckOnSave ----------------------------
(***************************************************************************)
(* Compiler checks of the VS Code extension (scheduleCheckOnSave,          *)
(* clearSaveTimer and runCompilerCommand in                                *)
(* editors/vscode/extension/src/extension.ts): a save starts a timer, the  *)
(* timer a compiler process, and its result is published when it ends, by  *)
(* when the document may have been edited, saved again or closed, and the  *)
(* setting turned off.                                                     *)
(*                                                                         *)
(* A text is known by the version of the document that has it, and a       *)
(* result by the texts of the project's documents the compiler read.  The  *)
(* compiler is found and the workspace trusted.                            *)
(***************************************************************************)
EXTENDS Naturals, FiniteSets

CONSTANTS
  Doc,          \* the documents of a project
  Slot,         \* bound: compiler processes at once
  MaxVersion,   \* bound: versions of each document
  MaxSaves      \* bound: saves of each document

VARIABLES
  enabled,         \* checkOnSave
  open,            \* documents in an editor; closed ones stay closed
  version,         \* of each document
  disk,            \* version last saved
  saves,
  saveTimers,      \* version a timer was started for, 0 for none
  automaticChecks, \* cancellation sources of the map of that name, by slot
  checks,          \* calls of runCompilerCommand
  shown            \* texts the compiler had read for the diagnostics shown

vars == <<enabled, open, version, disk, saves, saveTimers, automaticChecks, checks, shown>>

NoCheck == [doc |-> {}]
NoSlot  == {}
Unread  == [d \in Doc |-> 0]

Running(s) == checks[s] # NoCheck
Automatic(s) == Running(s) /\ checks[s].version # 0

Init ==
  /\ enabled \in BOOLEAN
  /\ open = Doc
  /\ version = [d \in Doc |-> 1] /\ disk = version
  /\ saves = [d \in Doc |-> 0]
  /\ saveTimers = [d \in Doc |-> 0]
  /\ automaticChecks = [d \in Doc |-> NoSlot]
  /\ checks = [s \in Slot |-> NoCheck]
  /\ shown = Unread

-----------------------------------------------------------------------------
(* The editor.                                                             *)

Cancelled(sources) ==
  [s \in Slot |-> IF s \in sources THEN [checks[s] EXCEPT !.cancelled = TRUE] ELSE checks[s]]

Edit(d) ==
  /\ d \in open /\ version[d] < MaxVersion[d]
  /\ version' = [version EXCEPT ![d] = @ + 1]
  /\ checks' = Cancelled(automaticChecks[d])
  /\ UNCHANGED <<enabled, open, disk, saves, saveTimers, automaticChecks, shown>>

Close(d) ==
  /\ d \in open /\ disk[d] = version[d]
  /\ open' = open \ {d}
  /\ UNCHANGED <<enabled, version, disk, saves, saveTimers, automaticChecks, checks, shown>>

\* A slip: a save restarts the timer and lets the check that runs go on.
ScheduleBeside(d) ==
  /\ saveTimers' = IF enabled THEN [saveTimers EXCEPT ![d] = version[d]] ELSE saveTimers
  /\ UNCHANGED checks

\* scheduleCheckOnSave, which restarts the timer and cancels the check
Schedule(d) ==
  IF enabled
  THEN /\ saveTimers' = [saveTimers EXCEPT ![d] = version[d]]
       /\ checks' = Cancelled(automaticChecks[d])
  ELSE UNCHANGED <<saveTimers, checks>>

Save(d) ==
  /\ d \in open
  /\ saves[d] < MaxSaves[d] /\ saves' = [saves EXCEPT ![d] = @ + 1]
  /\ disk' = [disk EXCEPT ![d] = version[d]]
  /\ Schedule(d)
  /\ UNCHANGED <<enabled, open, version, automaticChecks, shown>>

TurnOn ==
  /\ ~enabled /\ enabled' = TRUE
  /\ UNCHANGED <<open, version, disk, saves, saveTimers, automaticChecks, checks, shown>>

\* clearSaveTimer
TurnOff ==
  /\ enabled /\ enabled' = FALSE
  /\ saveTimers' = [d \in Doc |-> 0]
  /\ checks' = Cancelled(UNION {automaticChecks[d] : d \in Doc})
  /\ automaticChecks' = [d \in Doc |-> NoSlot]
  /\ UNCHANGED <<open, version, disk, saves, shown>>

-----------------------------------------------------------------------------
(* The checks.                                                             *)

Begin(s, d, v) ==
  /\ ~Running(s)
  /\ checks' = [checks EXCEPT ![s] = [doc |-> {d}, version |-> v, cancelled |-> FALSE, read |-> Unread]]

\* A slip: the timer does nothing while a check of the document still runs.
FireUnlessRunning(d) ==
  /\ saveTimers[d] # 0
  /\ saveTimers' = [saveTimers EXCEPT ![d] = 0]
  /\ IF automaticChecks[d] # NoSlot THEN UNCHANGED <<checks, automaticChecks>>
     ELSE \E s \in Slot : /\ Begin(s, d, saveTimers[d])
                          /\ automaticChecks' = [automaticChecks EXCEPT ![d] = {s}]
  /\ UNCHANGED <<enabled, open, version, disk, saves, shown>>

\* The timer's callback, up to the compiler process
Fire(d) ==
  /\ saveTimers[d] # 0
  /\ saveTimers' = [saveTimers EXCEPT ![d] = 0]
  /\ \E s \in Slot : /\ Begin(s, d, saveTimers[d])
                     /\ automaticChecks' = [automaticChecks EXCEPT ![d] = {s}]
  /\ UNCHANGED <<enabled, open, version, disk, saves, shown>>

\* The command, after its saveAll: it has no source in the map and no version.
\* A timer that is set keeps a slot, the model's bound, to itself.
Command(d) ==
  /\ d \in open /\ \A e \in open : disk[e] = version[e]
  /\ (\E e \in Doc : saveTimers[e] # 0) => \A s \in Slot : ~Running(s)
  /\ \E s \in Slot : Begin(s, d, 0)
  /\ UNCHANGED <<enabled, open, version, disk, saves, saveTimers, automaticChecks, shown>>

\* The user may cancel a command's check.
CancelCommand(s) ==
  /\ Running(s) /\ ~Automatic(s)
  /\ checks' = Cancelled({s})
  /\ UNCHANGED <<enabled, open, version, disk, saves, saveTimers, automaticChecks, shown>>

\* The compiler process reads the files.
Read(s) ==
  /\ Running(s) /\ checks[s].read = Unread
  /\ checks' = [checks EXCEPT ![s].read = disk]
  /\ UNCHANGED <<enabled, open, version, disk, saves, saveTimers, automaticChecks, shown>>

\* A slip: a result is good as long as nobody cancelled it.
PublishesUncancelled(s) ==
  Running(s) /\ checks[s].read # Unread /\ ~checks[s].cancelled

Publishes(s) ==
  /\ Running(s) /\ checks[s].read # Unread /\ ~checks[s].cancelled
  /\ Automatic(s) => \A d \in checks[s].doc : d \in open /\ version[d] = checks[s].version

\* The finally of the timer: only the check's own source leaves the map.
Forget(s) ==
  automaticChecks' = [d \in Doc |-> automaticChecks[d] \ {s}]

\* The process has ended, killed or not, and the call goes on to its end.
End(s) ==
  /\ Running(s) /\ (checks[s].read # Unread \/ checks[s].cancelled)
  /\ shown' = IF Publishes(s) THEN checks[s].read ELSE shown
  /\ checks' = [checks EXCEPT ![s] = NoCheck]
  /\ Forget(s)
  /\ UNCHANGED <<enabled, open, version, disk, saves, saveTimers>>

-----------------------------------------------------------------------------
Next ==
  \/ \E d \in Doc : Edit(d) \/ Close(d) \/ Save(d) \/ Fire(d) \/ Command(d)
  \/ TurnOn \/ TurnOff
  \/ \E s \in Slot : CancelCommand(s) \/ Read(s) \/ End(s)

\* Timers fire and compilers end.
Fairness ==
  /\ \A d \in Doc : WF_vars(Fire(d))
  /\ \A s \in Slot : WF_vars(Read(s) \/ End(s))

Spec == Init /\ [][Next]_vars /\ Fairness

-----------------------------------------------------------------------------
\* Of the checks saves started for one document, at most one is not cancelled,
\* however saves, edits and ends of checks follow each other.
OneLiveCheck ==
  \A s, t \in Slot :
    /\ s # t /\ Automatic(s) /\ Automatic(t) /\ checks[s].doc = checks[t].doc
    => checks[s].cancelled \/ checks[t].cancelled

\* Diagnostics an automatic check publishes are of the text its document has
\* in the editor then (the version test, for edits before the timer fired).
PublishedIsCurrent ==
  [][\A s \in Slot :
       End(s) /\ Automatic(s) /\ shown' # shown =>
         \A d \in checks[s].doc : d \in open /\ shown'[d] = version[d]]_vars

\* Once the setting is off no automatic check publishes anything: the command
\* alone does.
OffPublishesNothing ==
  [][~enabled /\ shown' # shown => \E s \in Slot : End(s) /\ ~Automatic(s)]_vars

\* A save is checked, unless its document is edited, closed or saved again, or
\* the setting is turned off.
SavesAreChecked ==
  \A d \in Doc : \A n \in 1 .. MaxSaves[d] :
    (saveTimers[d] = version[d] /\ saves[d] = n) ~>
      (shown[d] = disk[d] \/ version[d] # disk[d] \/ saves[d] # n \/ d \notin open \/ ~enabled)
=============================================================================

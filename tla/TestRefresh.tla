---------------------------- MODULE TestRefresh ----------------------------
(***************************************************************************)
(* Test discovery in the VS Code extension (refresh and discover in        *)
(* editors/vscode/extension/src/testing.ts).  Refreshes asked for while    *)
(* one runs share its promise and make it discover once more; discovery    *)
(* lists the files and opens them one by one, while they change and the    *)
(* watcher reports it, late and in order for each file.                    *)
(***************************************************************************)
EXTENDS Naturals, Sequences

CONSTANTS
  File, Tests,      \* test files, and the sets of tests they may hold
  Nothing,          \* no file, or none with tests
  Caller,           \* commands that await a refresh (runSelection)
  MaxChanges,       \* bound: changes made to the files
  DeletedInDiscovery\* whether a file may go while discovery runs

VARIABLES
  disk,             \* what each file holds; Nothing for no file
  events,           \* changes the watcher has yet to report
  changes,
  items,            \* controller.items: the tests shown of each file
  refreshRequested,
  found, opened,    \* of discover: files to open, and those opened
  discovering,      \* "no": there is no refreshPromise
  waiting,          \* calls that await refreshPromise
  quiet,            \* those since whose call no file has changed
  stopped

vars == <<disk, events, changes, items, refreshRequested, found, opened, discovering, waiting, quiet, stopped>>

Empty == [f \in File |-> Nothing]

Init ==
  /\ disk \in [File -> Tests \cup {Nothing}]
  /\ events = [f \in File |-> <<>>]
  /\ changes = 0
  /\ items = Empty
  /\ refreshRequested = FALSE
  /\ discovering = "list" /\ found = {} /\ opened = Empty \* the constructor's refresh
  /\ waiting = {} /\ quiet = {}
  /\ stopped = FALSE

-----------------------------------------------------------------------------
\* The files, and what the watcher will report of them: a file left without
\* tests was changed or deleted.
Change(f, tests) ==
  /\ changes < MaxChanges /\ changes' = changes + 1
  /\ tests # disk[f] /\ disk' = [disk EXCEPT ![f] = tests]
  /\ \E event \in {"changed", "deleted"} :
       /\ event = "deleted" => tests = Nothing /\ (DeletedInDiscovery \/ discovering = "no")
       /\ events' = [events EXCEPT ![f] = Append(@, event)]
  /\ quiet' = {}
  /\ UNCHANGED <<items, refreshRequested, found, opened, discovering, waiting, stopped>>

\* A slip: a call joins the discovery under way, whatever it has read.
RefreshJoins ==
  /\ discovering' = IF discovering = "no" THEN "list" ELSE discovering
  /\ UNCHANGED refreshRequested

\* refresh, up to the await of findFiles
Refresh ==
  IF discovering = "no" THEN discovering' = "list" /\ refreshRequested' = FALSE
  ELSE refreshRequested' = TRUE /\ UNCHANGED discovering

Call(c) ==
  /\ ~stopped /\ c \notin waiting
  /\ Refresh
  /\ waiting' = waiting \cup {c} /\ quiet' = quiet \cup {c}
  /\ UNCHANGED <<disk, events, changes, items, found, opened, stopped>>

\* watcher.onDidCreate and onDidChange, a save
Changed(f) ==
  /\ ~stopped /\ events[f] # <<>> /\ Head(events[f]) = "changed"
  /\ events' = [events EXCEPT ![f] = Tail(@)]
  /\ Refresh
  /\ UNCHANGED <<disk, changes, items, found, opened, waiting, quiet, stopped>>

\* A slip: a deletion is left to the next refresh.
DeletedLater(f) ==
  /\ ~stopped /\ events[f] # <<>> /\ Head(events[f]) = "deleted"
  /\ events' = [events EXCEPT ![f] = Tail(@)]
  /\ UNCHANGED <<disk, changes, items, refreshRequested, found, opened, discovering, waiting, quiet, stopped>>

\* watcher.onDidDelete takes the file's tests away and asks for no refresh.
Deleted(f) ==
  /\ ~stopped /\ events[f] # <<>> /\ Head(events[f]) = "deleted"
  /\ events' = [events EXCEPT ![f] = Tail(@)]
  /\ items' = [items EXCEPT ![f] = Nothing]
  /\ UNCHANGED <<disk, changes, refreshRequested, found, opened, discovering, waiting, quiet, stopped>>

Dispose ==
  /\ ~stopped /\ stopped' = TRUE
  /\ UNCHANGED <<disk, events, changes, items, refreshRequested, found, opened, discovering, waiting, quiet>>

-----------------------------------------------------------------------------
(* discover                                                                *)

List ==
  /\ discovering = "list" /\ discovering' = "open"
  /\ found' = {f \in File : disk[f] # Nothing} /\ opened' = Empty
  /\ UNCHANGED <<disk, events, changes, items, refreshRequested, waiting, quiet, stopped>>

\* A file that is gone by now is skipped.
Open(f) ==
  /\ discovering = "open" /\ f \in found
  /\ found' = found \ {f} /\ opened' = [opened EXCEPT ![f] = disk[f]]
  /\ UNCHANGED <<disk, events, changes, items, refreshRequested, discovering, waiting, quiet, stopped>>

\* The items are replaced, and discovery begins again or all calls return.
End ==
  /\ discovering = "open" /\ found = {}
  /\ items' = IF stopped THEN items ELSE opened
  /\ IF refreshRequested /\ ~stopped
     THEN discovering' = "list" /\ refreshRequested' = FALSE /\ UNCHANGED <<waiting, quiet>>
     ELSE discovering' = "no" /\ waiting' = {} /\ quiet' = {} /\ UNCHANGED refreshRequested
  /\ UNCHANGED <<disk, events, changes, found, opened, stopped>>

-----------------------------------------------------------------------------
Discover == List \/ (\E f \in File : Open(f)) \/ End

Next ==
  \/ \E f \in File : Changed(f) \/ Deleted(f) \/ (\E t \in Tests \cup {Nothing} : Change(f, t))
  \/ \E c \in Caller : Call(c)
  \/ Discover \/ Dispose

\* Listing and opening are answered; the watcher reports every change.
Fairness == WF_vars(Discover) /\ \A f \in File : WF_vars(Changed(f) \/ Deleted(f))

Spec == Init /\ [][Next]_vars /\ Fairness

-----------------------------------------------------------------------------
\* A command that awaited a refresh acts on the tests there are: if no file
\* changed since its call, the items are those of the files, although the
\* discovery it joined may have begun, and listed or read them, before.
CallsSeeTheFiles ==
  [][quiet # {} /\ quiet' = {} /\ waiting' = {} /\ ~stopped => items' = disk]_vars

\* In the end the tests shown are those of the files, and no test of a file
\* that is gone is left.
ItemsCatchUp == []<>(items = disk \/ stopped)
=============================================================================

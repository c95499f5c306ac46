---------------------------- MODULE ProcessGroup ----------------------------
(***************************************************************************)
(* The processes behind one call of execute                                *)
(* (editors/vscode/extension/src/process.ts, not on Windows): the child    *)
(* leads a process group, cancellation and the child's exit send SIGTERM   *)
(* to the group and start a timer for SIGKILL, and the call returns when   *)
(* the child has exited and nobody holds its output pipes any more.  No    *)
(* process leaves the group.                                               *)
(***************************************************************************)

CONSTANTS
  Process,  \* bound: the child and the processes it may leave behind
  child     \* the one execute spawns, a member of Process

VARIABLES
  born, alive,  \* processes there were, and are
  stubborn,     \* processes that ignore SIGTERM
  holders,      \* processes that have the output pipes open
  signalled,    \* processes SIGTERM was sent to
  cancelled,    \* the flag of that name
  force,        \* the timer of SIGKILL
  exited,       \* whether the exit event was handled
  resolved      \* whether the call has returned

vars == <<born, alive, stubborn, holders, signalled, cancelled, force, exited, resolved>>

Init ==
  /\ born = {child} /\ alive = {child}
  /\ stubborn \in SUBSET {child} /\ holders = {child}
  /\ signalled = {}
  /\ cancelled = FALSE /\ force = "none" /\ exited = FALSE /\ resolved = FALSE

-----------------------------------------------------------------------------
(* The processes.                                                          *)

Fork(p) ==
  /\ p \notin born
  /\ born' = born \cup {p} /\ alive' = alive \cup {p}
  /\ stubborn' \in {stubborn, stubborn \cup {p}}
  /\ \E parent \in alive :
       holders' \in {holders, IF parent \in holders THEN holders \cup {p} ELSE holders}
  /\ UNCHANGED <<signalled, cancelled, force, exited, resolved>>

\* A process ends by itself, if it ever does.
Finish(p) ==
  /\ p \in alive /\ alive' = alive \ {p}
  /\ UNCHANGED <<born, stubborn, holders, signalled, cancelled, force, exited, resolved>>

Die(p) == p \in signalled \ stubborn /\ Finish(p)

-----------------------------------------------------------------------------
(* execute                                                                 *)

StopGroup ==
  /\ signalled' = signalled \cup alive
  /\ force' = IF force = "none" THEN "set" ELSE force

\* terminate
Cancel ==
  /\ ~cancelled /\ ~resolved /\ cancelled' = TRUE
  /\ StopGroup
  /\ UNCHANGED <<born, alive, stubborn, holders, exited, resolved>>

Kill ==
  /\ force = "set" /\ force' = "fired"
  /\ alive' = {}
  /\ UNCHANGED <<born, stubborn, holders, signalled, cancelled, exited, resolved>>

Exit ==
  /\ child \notin alive /\ ~exited /\ exited' = TRUE
  /\ StopGroup
  /\ UNCHANGED <<born, alive, stubborn, holders, cancelled, resolved>>

\* A slip: the timer goes on after the call has returned.
CloseKeepsTimer ==
  /\ exited /\ ~resolved /\ alive \cap holders = {}
  /\ resolved' = TRUE
  /\ UNCHANGED <<born, alive, stubborn, holders, signalled, cancelled, force, exited>>

Close ==
  /\ exited /\ ~resolved /\ alive \cap holders = {}
  /\ resolved' = TRUE
  /\ force' = IF force = "set" THEN "cleared" ELSE force
  /\ UNCHANGED <<born, alive, stubborn, holders, signalled, cancelled, exited>>

-----------------------------------------------------------------------------
Next ==
  \/ \E p \in Process : Fork(p) \/ Finish(p)
  \/ Cancel \/ Kill \/ Exit \/ Close

Spec == Init /\ [][Next]_vars

-----------------------------------------------------------------------------
=============================================================================

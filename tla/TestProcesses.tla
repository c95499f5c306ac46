--------------------------- MODULE TestProcesses ---------------------------
(***************************************************************************)
(* A run of tests together with the processes it starts: the compiler, the *)
(* coverage tools and the tests all go through execute                     *)
(* (editors/vscode/extension/src/process.ts), and the run goes on when the *)
(* call returns.  Cancelling the run cancels the call under way; the step  *)
(* after a call follows it in the same turn of the event loop, so that no  *)
(* cancellation comes between.                                             *)
(*                                                                         *)
(* A step that makes several calls in a row is one call here.  Tests that  *)
(* are debugged (debugTest) go another way and are left out.               *)
(***************************************************************************)
EXTENDS TestRun

CONSTANTS Process, child

VARIABLES born, alive, stubborn, holders, signalled, killed, force, exited, resolved

Call == INSTANCE ProcessGroup WITH cancelled <- killed

call == <<born, alive, stubborn, holders, signalled, killed, force, exited, resolved>>

ASSUME ChildAssumption == child \in Process

Executing(place) == place \in {"build", "instrument", "test", "coverage"}

\* A call begins: nothing is spawned when the token was cancelled before.  What
\* the last call left behind is the user's.
Execute ==
  LET spawned == IF cancelled THEN {} ELSE {child} IN
  /\ born' = spawned /\ alive' = spawned /\ holders' = spawned
  /\ stubborn' \in SUBSET spawned /\ signalled' = {}
  /\ killed' = cancelled /\ force' = "none"
  /\ exited' = cancelled /\ resolved' = cancelled

NoCall ==
  /\ born = {} /\ alive = {} /\ stubborn = {} /\ holders = {} /\ signalled = {}
  /\ killed = FALSE /\ force = "none" /\ exited = TRUE /\ resolved = TRUE

InitAll == Init /\ NoCall

\* A slip: the cancellation does not reach the call.
CancelRunOnly == Cancel /\ (Executing(at) => ~resolved) /\ UNCHANGED call

CancelRun ==
  /\ Cancel
  /\ IF Executing(at) THEN Call!Cancel ELSE UNCHANGED call

\* The run takes a step: it does not wait for a call, or the call has returned.
Continue ==
  /\ Executing(at) => resolved
  /\ Advance \/ Build \/ TestEnds \/ TestThrows
  /\ IF Executing(at') THEN Execute ELSE UNCHANGED call

Processes ==
  /\ \/ \E p \in Process : Call!Fork(p) \/ Call!Finish(p)
     \/ Call!Kill \/ Call!Exit \/ Call!Close
  /\ UNCHANGED vars

NextAll == CancelRun \/ Continue \/ Processes

all == <<vars, call>>

\* The extension goes on, signals arrive, timers fire and events come.  A
\* process that no signal ends may run for ever.
FairnessAll ==
  /\ WF_all(Continue)
  /\ \A p \in Process : WF_all(Call!Die(p) /\ UNCHANGED vars)
  /\ WF_all(Call!Kill /\ UNCHANGED vars)
  /\ WF_all(Call!Exit /\ UNCHANGED vars)
  /\ WF_all(Call!Close /\ UNCHANGED vars)

SpecAll == InitAll /\ [][NextAll]_all /\ FairnessAll

-----------------------------------------------------------------------------
\* A run that is cancelled ends, although its compiler or test, or what they
\* left behind, ignores SIGTERM and holds the output pipes.
CancelledRunsEnd == cancelled ~> at = "ended"

\* Once a call has returned no signal is sent to its group, whose number may
\* be another's by then.
QuietAfterReturn ==
  [][resolved /\ resolved' => signalled' \subseteq signalled /\ (force' = "fired" => force = "fired")]_all
=============================================================================

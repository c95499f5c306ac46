----------------------- MODULE ServerLifecycleProofs -----------------------
(***************************************************************************)
(* Proofs about ServerLifecycle, for every number of restarts and deaths.  *)
(*                                                                         *)
(* The argument: each operation waits for the one asked for before it, so  *)
(* that at most one is under way; where it is tells which server may run   *)
(* (none, that of the client, or the one it is stopping), and what the     *)
(* client, the watcher and the status bar are.  The chain has one gap: an  *)
(* operation asked for after the deactivation waits for the restart before *)
(* the deactivation and not for the deactivation itself.  Serial says that *)
(* this does not happen.                                                   *)
(***************************************************************************)
EXTENDS ServerLifecycle, FiniteSetTheorems, SequenceTheorems, TLAPS

Serial == LateRequests => ~Deactivating

Places == {"queued", "stopping", "stopped", "probing", "native", "typescript", "bundled",
           "native failed", "failed", "done", "stop failed"}

LanguageServer == Nat \X {"none", "native", "typescript"}

OperationType ==
  [restart : BOOLEAN, after : Nat, at : Places, read : Settings, victim : LanguageServer]

TypeOK ==
  /\ settings \in Settings
  /\ operations \in Seq(OperationType) /\ serverOperation \in Nat
  /\ client \in LanguageServer
  /\ servers \subseteq LanguageServer \ {None}

\* Each operation waits for the one before it, and the deactivation is the last.
Chained ==
  /\ Len(operations) >= 1
  /\ \A i \in DOMAIN operations :
       operations[i].after = i - 1 /\ (i < Len(operations) => operations[i].restart)
  /\ ~Deactivating => serverOperation = Len(operations)

\* What has begun had nothing before it that had not ended.
InOrder ==
  \A i, j \in DOMAIN operations :
    j < i /\ operations[i].at # "queued" => operations[j].at \in {"done", "stop failed"}

OnlyStops ==
  \A i \in DOMAIN operations :
    ~operations[i].restart => operations[i].at \in {"queued", "stopping", "done", "stop failed"}

\* An operation stops the server that may run.
StopsServer ==
  \A i \in DOMAIN operations : operations[i].at \in {"stopping", "native failed", "failed"} =>
    client = None /\ servers \subseteq {operations[i].victim}

\* It starts one when there is none, nor a watcher.
NothingRuns ==
  \A i \in DOMAIN operations : operations[i].at \in {"stopped", "probing"} =>
    client = None /\ servers = {} /\ watchers = {} /\ sourceWatcher = 0

\* It waits for the server it started, which the status bar names.
StartsServer ==
  \A i \in DOMAIN operations : operations[i].at \in {"native", "typescript", "bundled"} =>
    LET kind == IF operations[i].at = "native" THEN "native" ELSE "typescript"
    IN  client = <<i, kind>> /\ status = kind /\ servers \subseteq {client}

StatusRight == status \in IF client = None THEN {"hidden", "missing", "failed"} ELSE {client[2]}

\* Between operations only the client's server runs.
Underway(i) == operations[i].at \notin {"queued", "done", "stop failed"}
Resting == (\A i \in DOMAIN operations : ~Underway(i)) => servers \subseteq {client} /\ StatusRight

\* What a deactivation leaves.
Over ==
  \A i \in DOMAIN operations : ~operations[i].restart /\ operations[i].at \in {"done", "stop failed"} =>
    client = None /\ servers = {} /\ sourceWatcher = 0 /\ status = "hidden"

IInv ==
  /\ Chained /\ InOrder /\ OnlyStops
  /\ StopsServer /\ NothingRuns /\ StartsServer /\ Resting /\ Over
  /\ NoWatcherLost
-----------------------------------------------------------------------------
(* Operations.                                                             *)

LEMMA Rewritten ==
  ASSUME TypeOK, NEW i \in DOMAIN operations, NEW r \in OperationType,
         operations' = [operations EXCEPT ![i] = r]
  PROVE  /\ operations' \in Seq(OperationType)
         /\ Len(operations') = Len(operations) /\ DOMAIN operations' = DOMAIN operations
         /\ operations'[i] = r
         /\ \A j \in DOMAIN operations : j # i => operations'[j] = operations[j]
<1>1. DOMAIN operations = 1 .. Len(operations)
  BY LenProperties DEF TypeOK
<1>2. /\ operations' \in Seq(OperationType) /\ Len(operations') = Len(operations)
      /\ \A j \in 1 .. Len(operations) : operations'[j] = IF j = i THEN r ELSE operations[j]
  BY <1>1, ExceptSeq DEF TypeOK
<1> QED  BY <1>1, <1>2, LenProperties

LEMMA OperationTyped ==
  ASSUME TypeOK, NEW i \in DOMAIN operations
  PROVE  operations[i] \in OperationType
BY LenProperties, ElementOfSeq DEF TypeOK

LEMMA NoneTyped == None \in LanguageServer
BY DEF None, LanguageServer

\* Where a step of an operation takes it; it goes on waiting for the same one.
Moved(i, places) ==
  /\ operations' \in Seq(OperationType)
  /\ Len(operations') = Len(operations) /\ DOMAIN operations' = DOMAIN operations
  /\ \A j \in DOMAIN operations : j # i => operations'[j] = operations[j]
  /\ operations'[i].restart = operations[i].restart /\ operations'[i].after = operations[i].after
  /\ operations'[i].at \in places

LEMMA MoveMoved ==
  ASSUME TypeOK, NEW i \in DOMAIN operations, NEW place \in Places, Move(i, place)
  PROVE  Moved(i, {place})
<1> DEFINE r == [operations[i] EXCEPT !.at = place]
<1>1. r \in OperationType
  BY OperationTyped DEF OperationType
<1>2. operations' = [operations EXCEPT ![i] = r]
  BY DEF Move
<1>3. r.restart = operations[i].restart /\ r.after = operations[i].after /\ r.at = place
  BY OperationTyped DEF OperationType
<1> HIDE DEF r
<1> QED  BY <1>1, <1>2, <1>3, Rewritten DEF Moved

LEMMA VictimMoved ==
  ASSUME TypeOK, NEW i \in DOMAIN operations, NEW place \in Places,
         \/ operations' = [operations EXCEPT ![i].victim = client, ![i].at = place]
         \/ operations' = [operations EXCEPT ![i].at = place, ![i].victim = client]
  PROVE  Moved(i, {place}) /\ operations'[i].victim = client
<1> DEFINE r == [operations[i] EXCEPT !.victim = client, !.at = place]
<1>1. r \in OperationType
  BY OperationTyped DEF OperationType, TypeOK
<1>2. operations' = [operations EXCEPT ![i] = r]
  OBVIOUS
<1>3. /\ r.restart = operations[i].restart /\ r.after = operations[i].after
      /\ r.at = place /\ r.victim = client
  BY OperationTyped DEF OperationType
<1> HIDE DEF r
<1> QED  BY <1>1, <1>2, <1>3, Rewritten DEF Moved

LEMMA ReadMoved ==
  ASSUME TypeOK, NEW i \in DOMAIN operations, NEW place \in Places, NEW read \in Settings,
         operations' = [operations EXCEPT ![i].at = place, ![i].read = read]
  PROVE  Moved(i, {place})
<1> DEFINE r == [operations[i] EXCEPT !.at = place, !.read = read]
<1>1. r \in OperationType
  BY OperationTyped DEF OperationType, TypeOK
<1>2. operations' = [operations EXCEPT ![i] = r]
  OBVIOUS
<1>3. /\ r.restart = operations[i].restart /\ r.after = operations[i].after
      /\ r.at = place
  BY OperationTyped DEF OperationType
<1> HIDE DEF r
<1> QED  BY <1>1, <1>2, <1>3, Rewritten DEF Moved
-----------------------------------------------------------------------------
(* One operation at a time.                                                *)

\* What the invariant says of the operation that took a step.
Local(i) ==
  /\ operations[i].at \in {"stopping", "native failed", "failed"} =>
       client = None /\ servers \subseteq {operations[i].victim}
  /\ operations[i].at \in {"stopped", "probing"} =>
       client = None /\ servers = {} /\ watchers = {} /\ sourceWatcher = 0
  /\ operations[i].at \in {"native", "typescript", "bundled"} =>
       LET kind == IF operations[i].at = "native" THEN "native" ELSE "typescript"
       IN  client = <<i, kind>> /\ status = kind /\ servers \subseteq {client}
  /\ operations[i].at \in {"done", "stop failed"} => servers \subseteq {client} /\ StatusRight
  /\ operations[i].at \in {"done", "stop failed"} /\ ~operations[i].restart =>
       client = None /\ servers = {} /\ sourceWatcher = 0 /\ status = "hidden"

\* An operation may take its step: those before it have ended.
Ready(i) ==
  /\ operations[i].at \notin {"done", "stop failed"}
  /\ \A j \in DOMAIN operations : j < i => operations[j].at \in {"done", "stop failed"}

\* Beside an operation that is ready nothing is under way, and no deactivation
\* has ended.
LEMMA Alone ==
  ASSUME TypeOK, IInv, NEW i \in DOMAIN operations, Ready(i)
  PROVE  \A j \in DOMAIN operations : j # i =>
           /\ ~Underway(j)
           /\ operations[j].restart \/ operations[j].at = "queued"
<1> SUFFICES ASSUME NEW j \in DOMAIN operations, j # i
             PROVE  ~Underway(j) /\ (operations[j].restart \/ operations[j].at = "queued")
  OBVIOUS
<1>1. DOMAIN operations = 1 .. Len(operations) /\ Len(operations) \in Nat
  BY LenProperties DEF TypeOK
<1>2. CASE j < i
  <2>1. operations[j].at \in {"done", "stop failed"}
    BY <1>2 DEF Ready
  <2>2. j < Len(operations)
    BY <1>1, <1>2
  <2> QED  BY <2>1, <2>2 DEF Underway, IInv, Chained
<1>3. CASE i < j
  <2>1. operations[j].at = "queued"
    BY <1>3 DEF Ready, IInv, InOrder
  <2> QED  BY <2>1 DEF Underway
<1> QED  BY <1>1, <1>2, <1>3

\* A step of an operation that is ready keeps the invariant when it does for
\* the operation itself.
LEMMA StepKeeps ==
  ASSUME TypeOK, IInv, NEW i \in DOMAIN operations, Ready(i),
         Moved(i, Places \ {"queued"}), serverOperation' = serverOperation,
         operations[i].restart \/ operations'[i].at \in {"stopping", "done", "stop failed"},
         Local(i)', NoWatcherLost'
  PROVE  IInv'
<1>1. DOMAIN operations = 1 .. Len(operations) /\ Len(operations) \in Nat
  BY LenProperties DEF TypeOK
<1>2. /\ Len(operations') = Len(operations) /\ DOMAIN operations' = DOMAIN operations
      /\ \A j \in DOMAIN operations : j # i => operations'[j] = operations[j]
      /\ operations'[i].restart = operations[i].restart /\ operations'[i].after = operations[i].after
      /\ operations'[i].at # "queued"
  BY DEF Moved
<1>3. \A j \in DOMAIN operations : j # i =>
        /\ operations'[j].at \in {"queued", "done", "stop failed"}
        /\ operations'[j].restart \/ operations'[j].at = "queued"
  BY <1>2, Alone DEF Underway
<1>4. \A j \in DOMAIN operations : operations'[j].restart = operations[j].restart
  BY <1>2
<1>5. Chained'
  BY <1>2, <1>4 DEF IInv, Chained, Deactivating
<1>6. InOrder'
  <2> SUFFICES ASSUME NEW j \in DOMAIN operations, NEW k \in DOMAIN operations,
                      k < j, operations'[j].at # "queued"
               PROVE  operations'[k].at \in {"done", "stop failed"}
    BY <1>2 DEF InOrder
  <2>1. CASE j = i
    BY <1>1, <1>2, <2>1 DEF Ready
  <2>2. CASE j # i
    <3>1. operations[j].at # "queued"
      BY <1>2, <2>2
    <3>2. operations[k].at \in {"done", "stop failed"}
      BY <3>1 DEF IInv, InOrder
    <3> QED  BY <1>2, <3>2 DEF Ready
  <2> QED  BY <2>1, <2>2
<1>7. OnlyStops'
  BY <1>2, <1>3 DEF OnlyStops
<1>8. StopsServer' /\ NothingRuns'
  BY <1>2, <1>3 DEF StopsServer, NothingRuns, Local
<1>9. StartsServer'
  BY <1>2, <1>3 DEF StartsServer, Local
<1>10. Resting'
  BY <1>2 DEF Resting, Underway, Local
<1>11. Over'
  BY <1>2, <1>3 DEF Over, Local
<1> QED  BY <1>5, <1>6, <1>7, <1>8, <1>9, <1>10, <1>11 DEF IInv

\* What is under way is ready.
LEMMA UnderwayReady ==
  ASSUME IInv, NEW i \in DOMAIN operations, Underway(i)
  PROVE  Ready(i) /\ (operations[i].at # "stopping" => operations[i].restart)
<1>1. operations[i].at \notin {"queued", "done", "stop failed"}
  BY DEF Underway
<1> QED  BY <1>1 DEF IInv, InOrder, OnlyStops, Ready
\* A server is not None.
LEMMA ServerNamed ==
  ASSUME TypeOK, NEW i \in DOMAIN operations, NEW kind \in {"native", "typescript"}
  PROVE  <<i, kind>> \in LanguageServer \ {None} /\ <<i, kind>>[2] = kind
<1>1. i \in Nat
  BY LenProperties DEF TypeOK
<1> QED  BY <1>1 DEF LanguageServer, None

-----------------------------------------------------------------------------
(* Each step of an operation, with the types.                              *)

LEMMA StopMoves ==
  ASSUME TypeOK, NEW i \in DOMAIN operations, Stop(i)
  PROVE  /\ TypeOK' /\ Moved(i, {"stopping", "stopped", "done"})
         /\ client # None => Moved(i, {"stopping"}) /\ operations'[i].victim = client
         /\ client = None => Moved(i, {Stopped(i)})
<1>1. /\ operations[i].at = "queued" /\ client' = None
      /\ UNCHANGED <<settings, serverOperation, servers>>
  BY DEF Stop, At
<1>2. CASE client = None
  <2>1. Move(i, Stopped(i)) /\ Stopped(i) \in {"stopped", "done"}
    BY <1>2 DEF Stop, Stopped
  <2>2. Moved(i, {Stopped(i)})
    BY <2>1, MoveMoved DEF Places
  <2> QED  BY <1>1, <1>2, <2>1, <2>2, NoneTyped DEF TypeOK, Moved
<1>3. CASE client # None
  <2>1. operations' = [operations EXCEPT ![i].at = "stopping", ![i].victim = client]
    BY <1>3 DEF Stop
  <2>2. Moved(i, {"stopping"}) /\ operations'[i].victim = client
    BY <2>1, VictimMoved DEF Places
  <2> QED  BY <1>1, <1>3, <2>2, NoneTyped DEF TypeOK, Moved
<1> QED  BY <1>2, <1>3

LEMMA StopEndsMoves ==
  ASSUME TypeOK, NEW i \in DOMAIN operations, StopEnds(i)
  PROVE  TypeOK' /\ Moved(i, {Stopped(i)})
<1>1. Move(i, Stopped(i)) /\ Stopped(i) \in Places
  BY DEF StopEnds, Stopped, Places
<1>2. Moved(i, {Stopped(i)})
  BY <1>1, MoveMoved
<1> QED  BY <1>2 DEF TypeOK, Moved, StopEnds

LEMMA StopFailsMoves ==
  ASSUME TypeOK, NEW i \in DOMAIN operations, StopFails(i)
  PROVE  TypeOK' /\ Moved(i, {"stop failed"})
<1>1. Moved(i, {"stop failed"})
  BY MoveMoved DEF StopFails, Places
<1> QED  BY <1>1 DEF TypeOK, Moved, StopFails

LEMMA MissingMoves ==
  ASSUME TypeOK, NEW i \in DOMAIN operations, Missing(i)
  PROVE  TypeOK' /\ Moved(i, {"done"})
<1>1. Moved(i, {"done"})
  BY MoveMoved DEF Missing, Places
<1> QED  BY <1>1 DEF TypeOK, Moved, Missing

LEMMA ProbeMoves ==
  ASSUME TypeOK, NEW i \in DOMAIN operations, Probe(i)
  PROVE  TypeOK' /\ Moved(i, {"probing"})
<1>1. settings \in Settings /\ "probing" \in Places
  BY DEF TypeOK, Places
<1>2. Moved(i, {"probing"})
  BY <1>1, ReadMoved DEF Probe
<1> QED  BY <1>2 DEF TypeOK, Moved, Probe

LEMMA LaunchMoves ==
  ASSUME TypeOK, NEW i \in DOMAIN operations, NEW kind \in {"native", "typescript"},
         NEW read \in Settings, Launch(i, kind, read)
  PROVE  TypeOK' /\ Moved(i, {kind})
<1>1. Moved(i, {kind})
  BY ReadMoved DEF Launch, Places
<1>2. <<i, kind>> \in LanguageServer \ {None}
  BY ServerNamed
<1> QED  BY <1>1, <1>2 DEF TypeOK, Moved, Launch, Connect

LEMMA StartLaunches ==
  ASSUME TypeOK, NEW i \in DOMAIN operations, Start(i) \/ StartProbed(i)
  PROVE  \E kind \in {"native", "typescript"}, read \in Settings : Launch(i, kind, read)
<1>1. CASE Start(i)
  BY <1>1 DEF Start, TypeOK
<1>2. CASE StartProbed(i)
  <2>1. operations[i].read \in Settings
    BY OperationTyped DEF OperationType
  <2> QED  BY <1>2, <2>1 DEF StartProbed
<1> QED  BY <1>1, <1>2

LEMMA StartedMoves ==
  ASSUME TypeOK, NEW i \in DOMAIN operations, Started(i)
  PROVE  TypeOK' /\ Moved(i, {"done"})
<1>1. Moved(i, {"done"})
  BY MoveMoved DEF Started, Places
<1> QED  BY <1>1 DEF TypeOK, Moved, Started

LEMMA StartFailsMoves ==
  ASSUME TypeOK, NEW i \in DOMAIN operations, StartFails(i)
  PROVE  /\ TypeOK' /\ Moved(i, {"native failed", "failed"})
         /\ operations'[i].victim = client
<1> DEFINE place == IF operations[i].at = "native" THEN "native failed" ELSE "failed"
<1>1. place \in {"native failed", "failed"} /\ place \in Places
  BY DEF Places
<1>2. operations' = [operations EXCEPT ![i].victim = client, ![i].at = place]
  BY DEF StartFails
<1> HIDE DEF place
<1>3. Moved(i, {place}) /\ operations'[i].victim = client
  BY <1>1, <1>2, VictimMoved
<1>4. Moved(i, {"native failed", "failed"})
  BY <1>1, <1>3 DEF Moved
<1>5. UNCHANGED <<settings, serverOperation, servers>> /\ client' = None
  BY DEF StartFails
<1> QED  BY <1>3, <1>4, <1>5, NoneTyped DEF TypeOK, Moved

LEMMA FailureEndsMoves ==
  ASSUME TypeOK, NEW i \in DOMAIN operations, FailureEnds(i)
  PROVE  /\ TypeOK'
         /\ IF operations[i].at = "native failed" /\ operations[i].read.mode = "auto"
            THEN Moved(i, {"bundled"}) ELSE Moved(i, {"done"})
<1>1. "bundled" \in Places /\ "done" \in Places
  BY DEF Places
<1>2. <<i, "typescript">> \in LanguageServer \ {None}
  BY ServerNamed
<1>3. CASE operations[i].at = "native failed" /\ operations[i].read.mode = "auto"
  <2>1. Moved(i, {"bundled"})
    BY <1>1, <1>3, MoveMoved DEF FailureEnds, At
  <2>2. /\ client' = <<i, "typescript">> /\ servers' \subseteq servers \cup {<<i, "typescript">>}
        /\ UNCHANGED <<settings, serverOperation>>
    BY <1>3 DEF FailureEnds, At
  <2>3. TypeOK'
    BY <1>2, <2>1, <2>2 DEF TypeOK, Moved
  <2> QED  BY <1>3, <2>1, <2>3
<1>4. CASE ~(operations[i].at = "native failed" /\ operations[i].read.mode = "auto")
  <2>1. Moved(i, {"done"})
    BY <1>1, <1>4, MoveMoved DEF FailureEnds, At
  <2>2. client' = client /\ servers' \subseteq servers /\ UNCHANGED <<settings, serverOperation>>
    BY <1>4 DEF FailureEnds, At
  <2>3. TypeOK'
    BY <2>1, <2>2 DEF TypeOK, Moved
  <2> QED  BY <1>4, <2>1, <2>3
<1> QED  BY <1>3, <1>4

LEMMA BundledStartFailsMoves ==
  ASSUME TypeOK, NEW i \in DOMAIN operations, BundledStartFails(i)
  PROVE  TypeOK' /\ Moved(i, {"done"})
<1>1. Moved(i, {"done"})
  BY MoveMoved DEF BundledStartFails, Places
<1> QED  BY <1>1 DEF TypeOK, Moved, BundledStartFails
-----------------------------------------------------------------------------
(* Each step of an operation keeps the invariant.                          *)

LEMMA StopReady ==
  ASSUME TypeOK, IInv, NEW i \in DOMAIN operations, Stop(i)
  PROVE  Ready(i) /\ servers \subseteq {client} /\ operations[i].at = "queued"
<1>1. DOMAIN operations = 1 .. Len(operations) /\ Len(operations) \in Nat
  BY LenProperties DEF TypeOK
<1>2. /\ operations[i].at = "queued"
      /\ operations[i].after \in DOMAIN operations => Ended(operations[i].after)
  BY DEF Stop, At
<1>3. operations[i].after = i - 1
  BY DEF IInv, Chained
<1>4. ASSUME NEW j \in DOMAIN operations, j < i
      PROVE  operations[j].at \in {"done", "stop failed"}
  <2>0. i - 1 \in DOMAIN operations
    BY <1>1, <1>4
  <2>1. i - 1 \in DOMAIN operations /\ operations[i - 1].at \in {"done", "stop failed"}
    BY <1>2, <1>3, <2>0 DEF Ended
  <2>2. CASE j = i - 1
    BY <2>1, <2>2
  <2>3. CASE j # i - 1
    <3>1. j < i - 1
      BY <1>1, <1>4, <2>3
    <3> QED  BY <2>1, <3>1 DEF IInv, InOrder
  <2> QED  BY <2>2, <2>3
<1>5. Ready(i)
  BY <1>2, <1>4 DEF Ready
<1>6. \A j \in DOMAIN operations : ~Underway(j)
  BY <1>2, <1>5, Alone DEF Underway
<1> QED  BY <1>2, <1>5, <1>6 DEF IInv, Resting

LEMMA StopStep ==
  ASSUME TypeOK, IInv, NEW i \in DOMAIN operations, Stop(i)
  PROVE  IInv'
<1>1. Ready(i) /\ servers \subseteq {client} /\ operations[i].at = "queued"
  BY StopReady
<1>2. client' = None /\ UNCHANGED <<serverOperation, servers>>
  BY DEF Stop
<1>3. watchers \subseteq {sourceWatcher} /\ None \notin servers
  BY DEF IInv, NoWatcherLost, TypeOK
<1>4. Moved(i, Places \ {"queued"})
  BY StopMoves DEF Moved, Places
<1>5. CASE client = None
  <2>1. watchers' = {} /\ sourceWatcher' = 0 /\ status' = "hidden" /\ servers = {}
    BY <1>1, <1>3, <1>5 DEF Stop, DropWatcher
  <2>2. operations'[i].restart = operations[i].restart /\ operations'[i].at = Stopped(i)
    BY <1>5, StopMoves DEF Moved
  <2>3. operations'[i].at = IF operations[i].restart THEN "stopped" ELSE "done"
    BY <2>2 DEF Stopped
  <2>4. Local(i)'
    BY <1>2, <2>1, <2>3 DEF Local, StatusRight
  <2>5. NoWatcherLost'
    BY <2>1 DEF NoWatcherLost
  <2> QED  BY <1>1, <1>2, <1>4, <2>3, <2>4, <2>5, StepKeeps
<1>6. CASE client # None
  <2>1. UNCHANGED <<watchers, sourceWatcher>>
    BY <1>6 DEF Stop
  <2>2. operations'[i].at = "stopping" /\ operations'[i].victim = client
    BY <1>6, StopMoves DEF Moved
  <2>3. Local(i)'
    BY <1>1, <1>2, <2>2 DEF Local
  <2>4. NoWatcherLost'
    BY <1>3, <2>1 DEF NoWatcherLost
  <2> QED  BY <1>1, <1>2, <1>4, <2>2, <2>3, <2>4, StepKeeps
<1> QED  BY <1>5, <1>6

LEMMA StopEndsStep ==
  ASSUME TypeOK, IInv, NEW i \in DOMAIN operations, StopEnds(i)
  PROVE  IInv'
<1>1. /\ operations[i].at = "stopping" /\ servers' = servers \ {operations[i].victim}
      /\ watchers' = watchers \ {sourceWatcher} /\ sourceWatcher' = 0 /\ status' = "hidden"
      /\ UNCHANGED <<serverOperation, client>>
  BY DEF StopEnds, At, DropWatcher
<1>2. Ready(i)
  BY <1>1, UnderwayReady DEF Underway
<1>3. client = None /\ servers \subseteq {operations[i].victim} /\ watchers \subseteq {sourceWatcher}
  BY <1>1 DEF IInv, StopsServer, NoWatcherLost
<1>4. servers' = {} /\ watchers' = {}
  BY <1>1, <1>3
<1>5. Moved(i, {Stopped(i)})
  BY StopEndsMoves
<1>6. /\ operations'[i].restart = operations[i].restart
      /\ operations'[i].at = IF operations[i].restart THEN "stopped" ELSE "done"
  BY <1>5 DEF Moved, Stopped
<1>7. Moved(i, Places \ {"queued"})
  BY <1>5, <1>6 DEF Moved, Places
<1>8. Local(i)' /\ NoWatcherLost'
  BY <1>1, <1>3, <1>4, <1>6 DEF Local, StatusRight, NoWatcherLost
<1> QED  BY <1>1, <1>2, <1>6, <1>7, <1>8, StepKeeps

LEMMA StopFailsStep ==
  ASSUME TypeOK, IInv, NEW i \in DOMAIN operations, StopFails(i)
  PROVE  IInv'
<1>1. /\ operations[i].at = "stopping" /\ servers' = servers \ {operations[i].victim}
      /\ watchers' = watchers \ {sourceWatcher} /\ sourceWatcher' = 0 /\ status' = "hidden"
      /\ UNCHANGED <<serverOperation, client>>
  BY DEF StopFails, At, DropWatcher
<1>2. Ready(i)
  BY <1>1, UnderwayReady DEF Underway
<1>3. client = None /\ servers \subseteq {operations[i].victim} /\ watchers \subseteq {sourceWatcher}
  BY <1>1 DEF IInv, StopsServer, NoWatcherLost
<1>4. servers' = {} /\ watchers' = {}
  BY <1>1, <1>3
<1>5. operations'[i].at = "stop failed" /\ Moved(i, Places \ {"queued"})
  BY StopFailsMoves DEF Moved, Places
<1>6. Local(i)' /\ NoWatcherLost'
  BY <1>1, <1>3, <1>4, <1>5 DEF Local, StatusRight, NoWatcherLost
<1> QED  BY <1>1, <1>2, <1>5, <1>6, StepKeeps

LEMMA MissingStep ==
  ASSUME TypeOK, IInv, NEW i \in DOMAIN operations, Missing(i)
  PROVE  IInv'
<1>1. /\ operations[i].at = "stopped" /\ status' = "missing"
      /\ UNCHANGED <<serverOperation, client, servers, watchers, sourceWatcher>>
  BY DEF Missing, At
<1>2. Ready(i) /\ operations[i].restart
  BY <1>1, UnderwayReady DEF Underway
<1>3. client = None /\ servers = {} /\ watchers = {}
  BY <1>1 DEF IInv, NothingRuns
<1>4. Moved(i, {"done"})
  BY MissingMoves
<1>5. operations'[i].at = "done" /\ operations'[i].restart /\ Moved(i, Places \ {"queued"})
  BY <1>2, <1>4 DEF Moved, Places
<1>6. Local(i)' /\ NoWatcherLost'
  BY <1>1, <1>3, <1>5 DEF Local, StatusRight, NoWatcherLost
<1> QED  BY <1>1, <1>2, <1>5, <1>6, StepKeeps

LEMMA ProbeStep ==
  ASSUME TypeOK, IInv, NEW i \in DOMAIN operations, Probe(i)
  PROVE  IInv'
<1>1. /\ operations[i].at = "stopped"
      /\ UNCHANGED <<serverOperation, client, servers, watchers, sourceWatcher>>
  BY DEF Probe, At
<1>2. Ready(i) /\ operations[i].restart
  BY <1>1, UnderwayReady DEF Underway
<1>3. client = None /\ servers = {} /\ watchers = {} /\ sourceWatcher = 0
  BY <1>1 DEF IInv, NothingRuns
<1>4. Moved(i, {"probing"})
  BY ProbeMoves
<1>5. operations'[i].at = "probing" /\ Moved(i, Places \ {"queued"})
  BY <1>4 DEF Moved, Places
<1>6. Local(i)' /\ NoWatcherLost'
  BY <1>1, <1>3, <1>5 DEF Local, NoWatcherLost
<1> QED  BY <1>1, <1>2, <1>5, <1>6, StepKeeps

LEMMA LaunchStep ==
  ASSUME TypeOK, IInv, NEW i \in DOMAIN operations, Start(i) \/ StartProbed(i)
  PROVE  IInv'
<1> PICK kind \in {"native", "typescript"}, read \in Settings : Launch(i, kind, read)
  BY StartLaunches
<1>1. operations[i].at \in {"stopped", "probing"}
  BY DEF Start, StartProbed, At
<1>2. /\ watchers' = watchers \cup {i} /\ sourceWatcher' = i
      /\ client' = <<i, kind>> /\ servers' = servers \cup {<<i, kind>>} /\ status' = kind
      /\ serverOperation' = serverOperation
  BY DEF Launch, Connect
<1>3. Ready(i) /\ operations[i].restart
  BY <1>1, UnderwayReady DEF Underway
<1>4. servers = {} /\ watchers = {}
  BY <1>1 DEF IInv, NothingRuns
<1>5. Moved(i, {kind})
  BY LaunchMoves
<1>6. operations'[i].at = kind /\ Moved(i, Places \ {"queued"})
  BY <1>5 DEF Moved, Places
<1>7. Local(i)' /\ NoWatcherLost'
  BY <1>2, <1>4, <1>6 DEF Local, NoWatcherLost
<1> QED  BY <1>2, <1>3, <1>6, <1>7, StepKeeps

LEMMA StartedStep ==
  ASSUME TypeOK, IInv, NEW i \in DOMAIN operations, Started(i)
  PROVE  IInv'
<1>1. /\ operations[i].at \in {"native", "typescript", "bundled"}
      /\ UNCHANGED <<serverOperation, client, servers, watchers, sourceWatcher, status>>
  BY DEF Started, Starting, At
<1>2. Ready(i) /\ operations[i].restart
  BY <1>1, UnderwayReady DEF Underway
<1> DEFINE kind == IF operations[i].at = "native" THEN "native" ELSE "typescript"
<1>3. client = <<i, kind>> /\ status = kind /\ servers \subseteq {client} /\ kind \in {"native", "typescript"}
  BY <1>1 DEF IInv, StartsServer
<1> HIDE DEF kind
<1>4. client # None /\ client[2] = kind
  BY <1>3, ServerNamed
<1>5. watchers \subseteq {sourceWatcher}
  BY DEF IInv, NoWatcherLost
<1>6. Moved(i, {"done"})
  BY StartedMoves
<1>7. operations'[i].at = "done" /\ operations'[i].restart /\ Moved(i, Places \ {"queued"})
  BY <1>2, <1>6 DEF Moved, Places
<1>8. Local(i)' /\ NoWatcherLost'
  BY <1>1, <1>3, <1>4, <1>5, <1>7 DEF Local, StatusRight, NoWatcherLost
<1> QED  BY <1>1, <1>2, <1>7, <1>8, StepKeeps

LEMMA StartFailsStep ==
  ASSUME TypeOK, IInv, NEW i \in DOMAIN operations, StartFails(i)
  PROVE  IInv'
<1>1. /\ operations[i].at \in {"native", "typescript"} /\ client' = None
      /\ UNCHANGED <<serverOperation, servers, watchers, sourceWatcher>>
  BY DEF StartFails, Starting, At
<1>2. Ready(i) /\ operations[i].restart
  BY <1>1, UnderwayReady DEF Underway
<1>3. servers \subseteq {client} /\ watchers \subseteq {sourceWatcher}
  BY <1>1 DEF IInv, StartsServer, NoWatcherLost
<1>4. Moved(i, {"native failed", "failed"}) /\ operations'[i].victim = client
  BY StartFailsMoves
<1>5. operations'[i].at \in {"native failed", "failed"} /\ Moved(i, Places \ {"queued"})
  BY <1>4 DEF Moved, Places
<1>6. Local(i)' /\ NoWatcherLost'
  BY <1>1, <1>3, <1>4, <1>5 DEF Local, NoWatcherLost
<1> QED  BY <1>1, <1>2, <1>5, <1>6, StepKeeps

LEMMA FailureEndsStep ==
  ASSUME TypeOK, IInv, NEW i \in DOMAIN operations, FailureEnds(i)
  PROVE  IInv'
<1> DEFINE again == operations[i].at = "native failed" /\ operations[i].read.mode = "auto"
           rest  == servers \ {operations[i].victim}
<1>1. operations[i].at \in {"native failed", "failed"} /\ UNCHANGED <<serverOperation, watchers, sourceWatcher>>
  BY DEF FailureEnds, At
<1>2. Ready(i) /\ operations[i].restart
  BY <1>1, UnderwayReady DEF Underway
<1>3. client = None /\ rest = {} /\ watchers \subseteq {sourceWatcher}
  BY <1>1 DEF IInv, StopsServer, NoWatcherLost
<1>4. NoWatcherLost'
  BY <1>1, <1>3 DEF NoWatcherLost
<1>5. CASE again
  <2>1. Moved(i, {"bundled"})
    BY <1>5, FailureEndsMoves
  <2>2. operations'[i].at = "bundled" /\ Moved(i, Places \ {"queued"})
    BY <2>1 DEF Moved, Places
  <2>3. /\ status' = "typescript" /\ client' = <<i, "typescript">>
        /\ servers' = rest \cup {<<i, "typescript">>}
    BY <1>5 DEF FailureEnds, At
  <2>4. Local(i)'
    BY <1>3, <2>2, <2>3 DEF Local
  <2> QED  BY <1>1, <1>2, <1>4, <2>2, <2>4, StepKeeps
<1>6. CASE ~again
  <2>1. Moved(i, {"done"})
    BY <1>6, FailureEndsMoves
  <2>2. operations'[i].at = "done" /\ operations'[i].restart /\ Moved(i, Places \ {"queued"})
    BY <1>2, <2>1 DEF Moved, Places
  <2>3. status' = "failed" /\ servers' = rest /\ client' = client
    BY <1>6 DEF FailureEnds, At
  <2>4. Local(i)'
    BY <1>3, <2>2, <2>3 DEF Local, StatusRight
  <2> QED  BY <1>1, <1>2, <1>4, <2>2, <2>4, StepKeeps
<1> QED  BY <1>5, <1>6

LEMMA BundledStartFailsStep ==
  ASSUME TypeOK, IInv, NEW i \in DOMAIN operations, BundledStartFails(i)
  PROVE  IInv'
<1>1. /\ operations[i].at = "bundled" /\ servers' = servers \ {client}
      /\ UNCHANGED <<serverOperation, client, watchers, sourceWatcher, status>>
  BY DEF BundledStartFails, At
<1>2. Ready(i) /\ operations[i].restart
  BY <1>1, UnderwayReady DEF Underway
<1>3. /\ client = <<i, "typescript">> /\ status = "typescript"
      /\ servers \subseteq {client} /\ watchers \subseteq {sourceWatcher}
  BY <1>1 DEF IInv, StartsServer, NoWatcherLost
<1>4. client # None /\ client[2] = "typescript"
  BY <1>3, ServerNamed
<1>5. Moved(i, {"done"})
  BY BundledStartFailsMoves
<1>6. operations'[i].at = "done" /\ operations'[i].restart /\ Moved(i, Places \ {"queued"})
  BY <1>2, <1>5 DEF Moved, Places
<1>7. Local(i)' /\ NoWatcherLost'
  BY <1>1, <1>3, <1>4, <1>6 DEF Local, StatusRight, NoWatcherLost
<1> QED  BY <1>1, <1>2, <1>6, <1>7, StepKeeps

-----------------------------------------------------------------------------
(* What is asked for, and deaths.                                          *)

\* An operation is asked for.
LEMMA Asked ==
  ASSUME TypeOK, NEW restart \in BOOLEAN, NEW after \in Nat,
         operations' = Append(operations, Operation(restart, after))
  PROVE  /\ operations' \in Seq(OperationType)
         /\ Len(operations') = Len(operations) + 1
         /\ DOMAIN operations' = 1 .. Len(operations) + 1
         /\ \A i \in DOMAIN operations : i \in DOMAIN operations' /\ operations'[i] = operations[i]
         /\ operations'[Len(operations) + 1] = Operation(restart, after)
<1>1. Operation(restart, after) \in OperationType
  BY NoneTyped DEF Operation, OperationType, Places, TypeOK
<1>2. DOMAIN operations = 1 .. Len(operations) /\ Len(operations) \in Nat
  BY LenProperties DEF TypeOK
<1> DEFINE new == Operation(restart, after)
<1> HIDE DEF new
<1>3. operations' = Append(operations, new) /\ new \in OperationType /\ operations \in Seq(OperationType)
  BY <1>1 DEF new, TypeOK
<1>4. operations' \in Seq(OperationType) /\ Len(operations') = Len(operations) + 1
  BY <1>3
<1>5. DOMAIN operations' = 1 .. Len(operations) + 1
  BY <1>4, LenProperties
<1>6. /\ \A i \in DOMAIN operations : i \in DOMAIN operations' /\ operations'[i] = operations[i]
      /\ operations'[Len(operations) + 1] = new
  BY <1>2, <1>3, <1>5
<1> QED  BY <1>4, <1>5, <1>6 DEF new

\* One that waits for the last changes nothing until it begins.
LEMMA AskedKeeps ==
  ASSUME TypeOK, IInv, ~Deactivating, NEW restart \in BOOLEAN,
         operations' = Append(operations, Operation(restart, serverOperation)),
         restart => serverOperation' = Len(operations) + 1,
         UNCHANGED <<client, servers, watchers, sourceWatcher, status>>
  PROVE  IInv'
<1> DEFINE last == Len(operations) + 1
<1>1. DOMAIN operations = 1 .. Len(operations) /\ Len(operations) \in Nat /\ Len(operations) >= 1
  BY LenProperties DEF TypeOK, IInv, Chained
<1>2. serverOperation = Len(operations)
  BY DEF IInv, Chained
<1>3. /\ Len(operations') = last /\ DOMAIN operations' = 1 .. last
      /\ \A i \in DOMAIN operations : i \in DOMAIN operations' /\ operations'[i] = operations[i]
      /\ operations'[last] = Operation(restart, serverOperation)
  BY <1>1, <1>2, Asked
<1>4. /\ operations'[last].restart = restart /\ operations'[last].after = serverOperation
      /\ operations'[last].at = "queued"
  BY <1>3 DEF Operation
<1>5. \A i \in DOMAIN operations' : i = last \/ i \in DOMAIN operations
  BY <1>1, <1>3
<1>6. Chained'
  <2>1. \A i \in DOMAIN operations : operations[i].restart /\ operations[i].after = i - 1
    BY DEF IInv, Chained, Deactivating
  <2>2. ~Deactivating' => restart
    BY <1>1, <1>3, <1>4 DEF Deactivating
  <2> QED  BY <1>1, <1>2, <1>3, <1>4, <1>5, <2>1, <2>2 DEF Chained
<1> HIDE DEF last
<1>7. InOrder'
  <2> SUFFICES ASSUME NEW i \in DOMAIN operations', NEW j \in DOMAIN operations',
                      j < i, operations'[i].at # "queued"
               PROVE  operations'[j].at \in {"done", "stop failed"}
    BY DEF InOrder
  <2>1. i # last /\ i \in DOMAIN operations
    BY <1>4, <1>5
  <2>2. j # last /\ j \in DOMAIN operations
    BY <1>1, <1>5, <2>1 DEF last
  <2> QED  BY <1>3, <2>1, <2>2 DEF IInv, InOrder
<1>8. OnlyStops' /\ Over'
  BY <1>3, <1>4, <1>5 DEF IInv, OnlyStops, Over
<1>9. StopsServer' /\ NothingRuns'
  BY <1>3, <1>4, <1>5 DEF IInv, StopsServer, NothingRuns
<1>10. StartsServer'
  BY <1>3, <1>4, <1>5 DEF IInv, StartsServer
<1>11. Resting'
  BY <1>3 DEF IInv, Resting, Underway, StatusRight
<1>12. NoWatcherLost'
  BY DEF IInv, NoWatcherLost
<1> QED  BY <1>6, <1>7, <1>8, <1>9, <1>10, <1>11, <1>12 DEF IInv

LEMMA RequestStep ==
  ASSUME TypeOK, NEW new \in Settings, Request(new)
  PROVE  /\ TypeOK'
         /\ Serial /\ IInv => IInv'
<1>1. /\ operations' = Append(operations, Operation(TRUE, serverOperation))
      /\ serverOperation' = Len(operations) + 1
      /\ settings' = new /\ UNCHANGED <<client, servers, watchers, sourceWatcher, status>>
  BY DEF Request, Restart
<1>2. TypeOK'
  <2>1. serverOperation \in Nat /\ Len(operations) \in Nat
    BY LenProperties DEF TypeOK
  <2>2. operations' \in Seq(OperationType)
    BY <1>1, <2>1, Asked
  <2>3. settings' \in Settings /\ serverOperation' \in Nat /\ UNCHANGED <<client, servers>>
    BY <1>1, <2>1
  <2> QED  BY <2>2, <2>3 DEF TypeOK
<1>3. Serial => ~Deactivating
  BY DEF Serial, Request
<1> QED  BY <1>1, <1>2, <1>3, AskedKeeps

LEMMA DeactivateStep ==
  ASSUME TypeOK, Deactivate
  PROVE  TypeOK' /\ (IInv => IInv')
<1>1. /\ ~Deactivating /\ operations' = Append(operations, Operation(FALSE, serverOperation))
      /\ UNCHANGED <<settings, serverOperation, client, servers, watchers, sourceWatcher, status>>
  BY DEF Deactivate
<1>2. TypeOK'
  BY <1>1, Asked DEF TypeOK
<1> QED  BY <1>1, <1>2, AskedKeeps

LEMMA DieStep ==
  ASSUME TypeOK, NEW s \in servers, Die(s)
  PROVE  TypeOK' /\ (IInv => IInv')
<1>1. /\ servers' \subseteq servers
      /\ UNCHANGED <<settings, operations, serverOperation, client, watchers, sourceWatcher, status>>
  BY DEF Die
<1>2. TypeOK'
  BY <1>1 DEF TypeOK
<1>3. ASSUME IInv
      PROVE  IInv'
  <2> USE <1>3 DEF IInv
  <2>1. Chained' /\ InOrder' /\ OnlyStops'
    BY <1>1 DEF Chained, InOrder, OnlyStops, Deactivating
  <2>2. StopsServer' /\ NothingRuns'
    BY <1>1 DEF StopsServer, NothingRuns
  <2>3. StartsServer'
    BY <1>1 DEF StartsServer
  <2>4. Resting' /\ Over' /\ NoWatcherLost'
    BY <1>1 DEF Resting, Underway, StatusRight, Over, NoWatcherLost
  <2> QED  BY <2>1, <2>2, <2>3, <2>4
<1> QED  BY <1>2, <1>3

LEMMA OperationStep ==
  ASSUME TypeOK, NEW i \in DOMAIN operations, Step(i)
  PROVE  TypeOK' /\ (IInv => IInv')
<1>1. CASE Stop(i)
  BY <1>1, StopMoves, StopStep
<1>2. CASE StopEnds(i)
  BY <1>2, StopEndsMoves, StopEndsStep
<1>3. CASE StopFails(i)
  BY <1>3, StopFailsMoves, StopFailsStep
<1>4. CASE Missing(i)
  BY <1>4, MissingMoves, MissingStep
<1>5. CASE Probe(i)
  BY <1>5, ProbeMoves, ProbeStep
<1>6. CASE Start(i) \/ StartProbed(i)
  <2>1. TypeOK'
    BY <1>6, StartLaunches, LaunchMoves
  <2> QED  BY <1>6, <2>1, LaunchStep
<1>7. CASE Started(i)
  BY <1>7, StartedMoves, StartedStep
<1>8. CASE StartFails(i)
  BY <1>8, StartFailsMoves, StartFailsStep
<1>9. CASE FailureEnds(i)
  BY <1>9, FailureEndsMoves, FailureEndsStep
<1>10. CASE BundledStartFails(i)
  BY <1>10, BundledStartFailsMoves, BundledStartFailsStep
<1> QED
  BY <1>1, <1>2, <1>3, <1>4, <1>5, <1>6, <1>7, <1>8, <1>9, <1>10 DEF Step

-----------------------------------------------------------------------------
(* The invariant holds until something is asked for in deactivation.       *)

SerialInv == TypeOK /\ (Serial => IInv)

LEMMA InvInit == Init => SerialInv
<1> SUFFICES ASSUME Init PROVE TypeOK /\ IInv
  BY DEF SerialInv
<1> DEFINE first == Operation(TRUE, 0)
<1>1. /\ first.restart = TRUE /\ first.after = 0 /\ first.at = "queued"
      /\ first \in OperationType
  BY NoneTyped DEF Init, Operation, OperationType, Places
<1>2. operations = <<first>>
  BY DEF Init
<1> HIDE DEF first
<1>3. /\ operations \in Seq(OperationType) /\ Len(operations) = 1
      /\ DOMAIN operations = {1} /\ operations[1] = first
  BY <1>1, <1>2
<1>4. TypeOK
  <2>1. settings \in Settings /\ serverOperation = 1 /\ client = None /\ servers = {}
    BY DEF Init
  <2> QED  BY <1>3, <2>1, NoneTyped DEF TypeOK
<1>5. Chained
  <2>1. serverOperation = 1
    BY DEF Init
  <2> QED  BY <1>1, <1>3, <2>1 DEF Chained
<1>6. InOrder /\ OnlyStops
  BY <1>1, <1>3 DEF InOrder, OnlyStops
<1>7. StopsServer /\ NothingRuns /\ StartsServer
  BY <1>1, <1>3 DEF StopsServer, NothingRuns, StartsServer
<1>8. Resting /\ Over /\ NoWatcherLost
  BY <1>1, <1>3 DEF Init, Resting, StatusRight, Over, NoWatcherLost
<1> QED  BY <1>4, <1>5, <1>6, <1>7, <1>8 DEF IInv

\* A deactivation that was asked for stays.
LEMMA SerialBefore ==
  ASSUME TypeOK, [Next]_vars, Serial'
  PROVE  Serial
<1> SUFFICES ASSUME NEW i \in DOMAIN operations, ~operations[i].restart
             PROVE  \E j \in DOMAIN operations' : ~operations'[j].restart
  BY DEF Serial, Deactivating
<1> SUFFICES i \in DOMAIN operations' /\ operations'[i].restart = operations[i].restart
  OBVIOUS
<1>1. ASSUME NEW new \in Settings, Request(new)
      PROVE  i \in DOMAIN operations' /\ operations'[i] = operations[i]
  BY <1>1, Asked DEF Request, Restart, TypeOK
<1>2. CASE Deactivate
  BY <1>2, Asked DEF Deactivate, TypeOK
<1>3. ASSUME NEW k \in DOMAIN operations, Step(k)
      PROVE  i \in DOMAIN operations' /\ operations'[i].restart = operations[i].restart
  <2>1. \E places \in SUBSET Places : Moved(k, places)
    BY <1>3, StopMoves, StopEndsMoves, StopFailsMoves, MissingMoves, ProbeMoves, StartLaunches, LaunchMoves,
       StartedMoves, StartFailsMoves, FailureEndsMoves, BundledStartFailsMoves DEF Step, Places, Stopped
  <2> QED  BY <2>1 DEF Moved
<1>4. ASSUME NEW s \in servers, Die(s)
      PROVE  operations' = operations
  BY <1>4 DEF Die
<1> QED  BY <1>1, <1>2, <1>3, <1>4 DEF Next, vars

LEMMA InvStep == ASSUME SerialInv, [Next]_vars PROVE SerialInv'
<1>1. Serial' => Serial
  BY SerialBefore DEF SerialInv
<1>2. TypeOK' /\ (Serial /\ IInv => IInv')
  <2>1. CASE Next
    BY <2>1, RequestStep, DeactivateStep, OperationStep, DieStep DEF Next, SerialInv
  <2>2. CASE UNCHANGED vars
    <3>1. TypeOK'
      BY <2>2 DEF SerialInv, TypeOK, vars
    <3>2. ASSUME IInv
          PROVE  IInv'
      BY <2>2, <3>2
         DEF vars, IInv, Chained, InOrder, OnlyStops, Deactivating, StopsServer, NothingRuns,
         StartsServer, Resting, Underway, StatusRight, Over, NoWatcherLost
    <3> QED  BY <3>1, <3>2
  <2> QED  BY <2>1, <2>2
<1> QED  BY <1>1, <1>2 DEF SerialInv

LEMMA InvOneServer == SerialInv /\ Serial => OneServer
<1> SUFFICES ASSUME TypeOK, IInv PROVE OneServer
  BY DEF SerialInv
<1>1. \E s : servers \subseteq {s}
  <2>1. CASE \A i \in DOMAIN operations : ~Underway(i)
    BY <2>1 DEF IInv, Resting
  <2>2. CASE \E i \in DOMAIN operations : Underway(i)
    <3> PICK i \in DOMAIN operations : Underway(i)
      BY <2>2
    <3>1. operations[i].at \in Places \ {"queued", "done", "stop failed"}
      BY OperationTyped DEF OperationType, Underway
    <3>2. CASE operations[i].at \in {"stopping", "native failed", "failed"}
      BY <3>2 DEF IInv, StopsServer
    <3>3. CASE operations[i].at \in {"stopped", "probing"}
      BY <3>3 DEF IInv, NothingRuns
    <3>4. CASE operations[i].at \in {"native", "typescript", "bundled"}
      BY <3>4 DEF IInv, StartsServer
    <3> QED  BY <3>1, <3>2, <3>3, <3>4 DEF Places
  <2> QED  BY <2>1, <2>2
<1> PICK s : servers \subseteq {s}
  BY <1>1
<1>2. IsFiniteSet({s}) /\ Cardinality({s}) = 1
  BY FS_Singleton
<1>3. servers \in SUBSET {s}
  OBVIOUS
<1>4. IsFiniteSet(servers) /\ Cardinality(servers) <= Cardinality({s})
  BY <1>2, <1>3, FS_Subset
<1> QED  BY <1>2, <1>4 DEF OneServer

LEMMA InvClient == SerialInv /\ Serial => ClientExact
<1> SUFFICES ASSUME SerialInv, Serial PROVE ClientExact
  OBVIOUS
<1>0. TypeOK /\ IInv
  BY DEF SerialInv
<1>1. NoWatcherLost
  BY <1>0 DEF IInv
<1>2. StatusOfClient
  BY <1>0 DEF IInv, Resting, Underway, StatusRight, StatusOfClient, Idle, Ended
<1>3. NothingAfterDeactivation
  BY <1>0 DEF IInv, Over, NothingAfterDeactivation, Idle, Ended, Deactivating
<1>4. OneServer
  BY InvOneServer
<1> QED  BY <1>1, <1>2, <1>3, <1>4 DEF ClientExact

-----------------------------------------------------------------------------
\* While nothing is asked for in deactivation there are never two language
\* servers (the chain of serverOperation, stopLanguageServer and
\* startLanguageServer of extension.ts), whatever fails and dies.
THEOREM OneServerAtATime == Spec => [](Serial => OneServer)
<1>1. SerialInv /\ [Next]_vars => SerialInv'
  BY InvStep
<1> QED  BY <1>1, InvInit, InvOneServer, PTL DEF Spec

\* As long, there is one server at most, no watcher is lost, the status bar between operations
\* is that of the client the extension holds, and a deactivation that has ended leaves nothing.
THEOREM ClientAgrees == Spec => [](Serial => ClientExact)
<1>1. SerialInv /\ [Next]_vars => SerialInv'
  BY InvStep
<1> QED  BY <1>1, InvInit, InvClient, PTL DEF Spec
=============================================================================

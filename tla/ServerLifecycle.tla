--------------------------- MODULE ServerLifecycle ---------------------------
(***************************************************************************)
(* How the VS Code extension starts, restarts and stops its language       *)
(* server (editors/vscode/extension/src/extension.ts).  Activation, a      *)
(* settings change, a grant of trust and the restart command each chain a  *)
(* stop and a start after the operation before; probing a native server,   *)
(* starting and stopping one are awaits, in which servers may also die.    *)
(*                                                                         *)
(* A server, its client and the file watcher made for it are named after   *)
(* the operation that started them.                                        *)
(***************************************************************************)
EXTENDS Naturals, Sequences, FiniteSets

CONSTANTS
  MaxOperations, \* bound: restarts asked for, with the one of activation
  MaxDeaths,     \* bound: servers that die by themselves
  BundledFails,  \* whether the bundled server may fail to start
  LateRequests   \* whether restarts are still asked for in deactivation

VARIABLES
  settings,       \* server.mode, and what the native server found does
  operations,     \* restarts and the deactivation, in the order asked for
  serverOperation,\* the last restart
  client,         \* the client, of the server <<operation, kind>>
  servers,        \* server processes
  watchers,       \* file watchers not disposed of
  sourceWatcher,  \* the one the extension holds, 0 for none
  status,         \* the status bar item
  deaths

vars == <<settings, operations, serverOperation, client, servers, watchers, sourceWatcher, status, deaths>>

\* A workspace that is not trusted has the mode "typescript".  Which native
\* server there is matters where one is looked for, and whether it answers a
\* probe where it is probed.
Settings == {[mode |-> "typescript", native |-> "missing"]}
            \cup [mode : {"auto"}, native : {"missing", "crashes", "fails", "works"}]
            \cup [mode : {"native"}, native : {"missing", "fails", "works"}]

None == <<0, "none">>

Operation(restart, after) ==
  [restart |-> restart, after |-> after, at |-> "queued", read |-> settings, victim |-> None]

Restarts == {i \in DOMAIN operations : operations[i].restart}
At(i, place) == i \in DOMAIN operations /\ operations[i].at = place
Move(i, place) == operations' = [operations EXCEPT ![i].at = place]
Ended(i) == operations[i].at \in {"done", "stop failed"}
Idle == \A i \in DOMAIN operations : Ended(i)
Deactivating == \E i \in DOMAIN operations : ~operations[i].restart

Init ==
  /\ settings \in Settings
  /\ operations = <<Operation(TRUE, 0)>>
  /\ serverOperation = 1
  /\ client = None
  /\ servers = {} /\ watchers = {} /\ sourceWatcher = 0
  /\ status = "hidden"
  /\ deaths = 0

-----------------------------------------------------------------------------
(* What is asked for.                                                      *)

\* A slip: a restart is not chained when one is under way already.
RestartJoins ==
  IF Idle THEN /\ operations' = Append(operations, Operation(TRUE, serverOperation))
               /\ serverOperation' = Len(operations) + 1
          ELSE UNCHANGED <<operations, serverOperation>>

Restart ==
  /\ operations' = Append(operations, Operation(TRUE, serverOperation))
  /\ serverOperation' = Len(operations) + 1

\* The restart command, or new settings or trust
Request(new) ==
  /\ Cardinality(Restarts) < MaxOperations
  /\ LateRequests \/ ~Deactivating
  /\ settings' = new
  /\ Restart
  /\ UNCHANGED <<client, servers, watchers, sourceWatcher, status, deaths>>

\* A slip: deactivation stops what is there without waiting.
DeactivateAtOnce ==
  /\ ~Deactivating
  /\ operations' = Append(operations, Operation(FALSE, 0))
  /\ UNCHANGED <<settings, serverOperation, client, servers, watchers, sourceWatcher, status, deaths>>

Deactivate ==
  /\ ~Deactivating
  /\ operations' = Append(operations, Operation(FALSE, serverOperation))
  /\ UNCHANGED <<settings, serverOperation, client, servers, watchers, sourceWatcher, status, deaths>>

-----------------------------------------------------------------------------
(* stopLanguageServer                                                      *)

Stopped(i) == IF operations[i].restart THEN "stopped" ELSE "done"

DropWatcher == watchers' = watchers \ {sourceWatcher} /\ sourceWatcher' = 0

\* An operation begins when the one before has ended, well or badly.
Stop(i) ==
  /\ At(i, "queued") /\ (operations[i].after \in DOMAIN operations => Ended(operations[i].after))
  /\ client' = None
  /\ IF client = None
     THEN Move(i, Stopped(i)) /\ DropWatcher /\ status' = "hidden"
     ELSE /\ operations' = [operations EXCEPT ![i].at = "stopping", ![i].victim = client]
          /\ UNCHANGED <<watchers, sourceWatcher, status>>
  /\ UNCHANGED <<settings, serverOperation, servers, deaths>>

\* The client's server has stopped, or had died and the client is disposed.
StopEnds(i) ==
  /\ At(i, "stopping")
  /\ servers' = servers \ {operations[i].victim}
  /\ Move(i, Stopped(i)) /\ DropWatcher /\ status' = "hidden"
  /\ UNCHANGED <<settings, serverOperation, client, deaths>>

\* Neither stop nor dispose works: what finally does is done, but the operation is rejected and
\* no server is started.  The client library ends the process of a client it gives up.
StopFails(i) ==
  /\ At(i, "stopping")
  /\ servers' = servers \ {operations[i].victim}
  /\ Move(i, "stop failed") /\ DropWatcher /\ status' = "hidden"
  /\ UNCHANGED <<settings, serverOperation, client, deaths>>

-----------------------------------------------------------------------------
(* startLanguageServer                                                     *)

\* findNativeServer, for the modes that look for one
Found(s) == s.mode # "typescript" /\ s.native # "missing"
Refused(s) == s.mode = "native" /\ ~Found(s)
Probed(s) == s.mode = "auto" /\ Found(s)

\* What the settings ask for
Wanted(s) == IF Refused(s) THEN "missing"
             ELSE IF Found(s) /\ (s.mode = "native" \/ s.native = "works") THEN "native"
             ELSE "typescript"

Connect(i, kind) ==
  client' = <<i, kind>> /\ servers' = servers \cup {<<i, kind>>} /\ status' = kind

Launch(i, kind, read) ==
  /\ operations' = [operations EXCEPT ![i].at = kind, ![i].read = read]
  /\ watchers' = watchers \cup {i} /\ sourceWatcher' = i
  /\ Connect(i, kind)
  /\ UNCHANGED <<settings, serverOperation, deaths>>

Missing(i) ==
  /\ At(i, "stopped") /\ Refused(settings)
  /\ Move(i, "done") /\ status' = "missing"
  /\ UNCHANGED <<settings, serverOperation, client, servers, watchers, sourceWatcher, deaths>>

Probe(i) ==
  /\ At(i, "stopped") /\ Probed(settings)
  /\ operations' = [operations EXCEPT ![i].at = "probing", ![i].read = settings]
  /\ UNCHANGED <<settings, serverOperation, client, servers, watchers, sourceWatcher, status, deaths>>

Start(i) ==
  /\ At(i, "stopped") /\ ~Refused(settings) /\ ~Probed(settings)
  /\ Launch(i, IF Found(settings) THEN "native" ELSE "typescript", settings)

\* A probed server that crashed, or did not answer in time, is not started.
StartProbed(i) ==
  /\ At(i, "probing")
  /\ LET read == operations[i].read
     IN  Launch(i, IF read.native = "crashes" THEN "typescript" ELSE "native", read)

Starting(i) == {kind \in {"native", "typescript", "bundled"} : At(i, kind)}

Started(i) ==
  /\ \E kind \in Starting(i) : kind = "native" => operations[i].read.native = "works"
  /\ Move(i, "done")
  /\ UNCHANGED <<settings, serverOperation, client, servers, watchers, sourceWatcher, status, deaths>>

\* A start that fails takes the extension's client, whoever's it is by then.
StartFails(i) ==
  /\ \E kind \in Starting(i) \ {"bundled"} :
       IF kind = "native" THEN operations[i].read.native # "works" ELSE BundledFails
  /\ client' = None
  /\ operations' = [operations EXCEPT ![i].victim = client,
                                      ![i].at = IF @ = "native" THEN "native failed" ELSE "failed"]
  /\ UNCHANGED <<settings, serverOperation, servers, watchers, sourceWatcher, status, deaths>>

\* A slip: the server that failed is not stopped.
FailureEndsKept(i) ==
  /\ At(i, "native failed") \/ At(i, "failed")
  /\ IF At(i, "native failed") /\ operations[i].read.mode = "auto"
     THEN Move(i, "bundled") /\ Connect(i, "typescript")
     ELSE Move(i, "done") /\ status' = "failed" /\ UNCHANGED <<client, servers>>
  /\ UNCHANGED <<settings, serverOperation, watchers, sourceWatcher, deaths>>

\* It has been stopped or disposed of.  In mode auto the bundled one follows.
FailureEnds(i) ==
  /\ At(i, "native failed") \/ At(i, "failed")
  /\ LET rest == servers \ {operations[i].victim}
     IN  IF At(i, "native failed") /\ operations[i].read.mode = "auto"
         THEN /\ Move(i, "bundled") /\ status' = "typescript"
              /\ client' = <<i, "typescript">> /\ servers' = rest \cup {<<i, "typescript">>}
         ELSE /\ Move(i, "done") /\ status' = "failed" /\ servers' = rest /\ UNCHANGED client
  /\ UNCHANGED <<settings, serverOperation, watchers, sourceWatcher, deaths>>

\* startBundledServer leaves its client and the status as they are.
BundledStartFails(i) ==
  /\ At(i, "bundled") /\ BundledFails
  /\ Move(i, "done")
  /\ servers' = servers \ {client}
  /\ UNCHANGED <<settings, serverOperation, client, watchers, sourceWatcher, status, deaths>>

\* The error handler asks for no new server and shows nothing.
Die(s) ==
  /\ s \in servers /\ deaths < MaxDeaths /\ deaths' = deaths + 1
  /\ servers' = servers \ {s}
  /\ UNCHANGED <<settings, operations, serverOperation, client, watchers, sourceWatcher, status>>

-----------------------------------------------------------------------------
Step(i) ==
  \/ Stop(i) \/ StopEnds(i) \/ StopFails(i)
  \/ Missing(i) \/ Probe(i) \/ Start(i) \/ StartProbed(i)
  \/ Started(i) \/ StartFails(i) \/ FailureEnds(i) \/ BundledStartFails(i)

Next ==
  \/ \E new \in Settings : Request(new)
  \/ Deactivate
  \/ \E i \in DOMAIN operations : Step(i)
  \/ \E s \in servers : Die(s)

\* Starts and stops are answered, or given up by the client or the probe.
Fairness == \A i \in 1 .. MaxOperations + 1 : WF_vars(Step(i))

Spec == Init /\ [][Next]_vars /\ Fairness

-----------------------------------------------------------------------------
\* However restarts, deactivation and failed starts interleave, there are
\* never two language servers (the chain of operations, the stop of a server
\* that failed to start before the bundled one).
OneServer == Cardinality(servers) <= 1

\* No file watcher is lost: each is disposed of or the one the extension
\* holds, also when a server dies, fails to start or cannot be stopped.
NoWatcherLost == watchers \subseteq {sourceWatcher}

\* What the status bar says between operations is of the client the extension holds: no
\* server's name is left beside no client, nor an error beside a client.  The server behind it
\* may have died, or never have started.
StatusOfClient ==
  Idle => status \in IF client = None THEN {"hidden", "missing", "failed"} ELSE {client[2]}

\* After deactivation nothing is left running.
NothingAfterDeactivation ==
  Idle /\ Deactivating => servers = {} /\ sourceWatcher = 0 /\ status = "hidden"

\* All together: there is one server or none, and the watcher and the status bar go with the
\* client.
ClientExact == OneServer /\ NoWatcherLost /\ StatusOfClient /\ NothingAfterDeactivation

\* The settings of the last request are those in force in the end, whatever was under way when
\* they came: no restart is lost or overtaken, and the only one that starts nothing and says
\* nothing is one whose stop was rejected (the dispose of stopLanguageServer).
SettingsTakeEffect ==
  <>[](Deactivating
       \/ /\ Idle
          /\ client # None => client[2] = Wanted(settings)
          /\ client = None => \/ status = "failed"
                              \/ status = "missing" /\ Wanted(settings) = "missing"
                              \/ status = "hidden" /\ At(serverOperation, "stop failed"))
=============================================================================

--------------------------- MODULE DocumentIndex ---------------------------
(***************************************************************************)
(* Documents, diagnostics and the workspace index of the TypeScript        *)
(* language server (editors/vscode/language-server/src/server.ts and       *)
(* analysis/workspaceScanner.ts).  One thread runs the handlers, but each  *)
(* await lets others in: a file is read in one step and indexed in a later *)
(* one, and by then the client may have opened, edited or closed it, a     *)
(* watcher reported it, another scan reached it or its folder gone.        *)
(*                                                                         *)
(* The client's messages are taken as they arrive; the file watcher's come *)
(* later, in order for each file, and only for files in workspace folders. *)
(***************************************************************************)
EXTENDS Naturals, Sequences

CONSTANTS
  Uri,              \* source files
  Text,             \* their contents
  Root,             \* folders a workspace may have
  RootOf,           \* the folder of each file
  Reader, Scanner,  \* bounds: reads and scans under way at once
  MaxVersion,       \* bound: versions of an open document
  MaxWrites,        \* bound: changes made to the files
  MaxFolderChanges, \* bound: changes made to the workspace folders
  Nothing           \* no document, no entry, no file, no content

ASSUME RootAssumption == RootOf \in [Uri -> Root]
ASSUME MaxVersionAssumption == MaxVersion \in Nat /\ MaxVersion > 0

VARIABLES
  disk,        \* what each file holds
  watched,     \* changes the watcher has yet to report, for each file
  roots,       \* workspaceRoots
  documents,   \* TextDocuments: the open documents
  index,       \* WorkspaceIndex.documents; version 0 is a file's
  shown,       \* version whose diagnostics the client shows, 0 for none
  publishing,  \* indexAndPublish calls that await their diagnostics
  reads,       \* indexFile calls that await their file
  scans,       \* scanWorkspaces calls
  used         \* writes and folder changes made so far, and files written
               \* unseen: while being read, or in no workspace folder

vars == <<disk, watched, roots, documents, index, shown, publishing, reads, scans, used>>

Entry(versions) == [version : versions, text : Text]

ASSUME NothingAssumption == Nothing \notin Entry(0 .. MaxVersion) /\ Nothing \notin Uri

Unread == [uri |-> Nothing]
Idle   == [todo |-> {}, at |-> Nothing, got |-> Unread]
Scan(rs) == [todo |-> {u \in Uri : RootOf[u] \in rs}, at |-> Nothing, got |-> Unread]

IsOpen(u) == documents[u] # Nothing
Reading(u) == \/ \E r \in Reader : reads[r].uri = u
              \/ \E s \in Scanner : scans[s].at = u

-----------------------------------------------------------------------------
Init ==
  /\ disk \in [Uri -> Text \cup {Nothing}]
  /\ watched = [u \in Uri |-> <<>>]
  /\ roots \in SUBSET Root
  /\ documents = [u \in Uri |-> Nothing]
  /\ index = [u \in Uri |-> Nothing]
  /\ shown = [u \in Uri |-> 0]
  /\ publishing = {}
  /\ reads = [r \in Reader |-> Unread]
  /\ \E s \in Scanner : scans = [x \in Scanner |-> IF x = s THEN Scan(roots) ELSE Idle]
  /\ used = [writes |-> 0, folders |-> 0, unseen |-> {}]

(* The files.                                                              *)

Change(u, content) ==
  /\ used.writes < MaxWrites
  /\ used' = [used EXCEPT !.writes = @ + 1,
                         !.unseen = IF Reading(u) \/ RootOf[u] \notin roots THEN @ \cup {u} ELSE @]
  /\ content # disk[u]
  /\ disk' = [disk EXCEPT ![u] = content]
  /\ watched' = IF RootOf[u] \in roots
                THEN [watched EXCEPT ![u] = Append(@, IF content = Nothing THEN "deleted" ELSE "changed")]
                ELSE watched
  /\ UNCHANGED <<roots, documents, index, shown, publishing, reads, scans>>

-----------------------------------------------------------------------------
(* The index and the diagnostics.                                          *)

\* A parse is published only while it is the one in the index.
Superseded(u) == {IF p.uri = u THEN [p EXCEPT !.current = FALSE] ELSE p : p \in publishing}

\* WorkspaceIndex.update and remove
Update(u, entry) ==
  /\ index' = [index EXCEPT ![u] = entry]
  /\ publishing' = Superseded(u)

\* indexAndPublish up to its await
IndexAndPublish(u, doc) ==
  /\ index' = [index EXCEPT ![u] = doc]
  /\ publishing' = Superseded(u) \cup {[uri |-> u, version |-> doc.version, current |-> TRUE]}

\* A slip: what was computed is published, whatever happened meanwhile.
PublishUnchecked(p) ==
  /\ p \in publishing /\ publishing' = publishing \ {p}
  /\ shown' = [shown EXCEPT ![p.uri] = p.version]
  /\ UNCHANGED <<disk, watched, roots, documents, index, reads, scans, used>>

\* A slip: it is enough that the document is still open.
PublishIfOpen(p) ==
  /\ p \in publishing /\ publishing' = publishing \ {p}
  /\ shown' = IF IsOpen(p.uri) THEN [shown EXCEPT ![p.uri] = p.version] ELSE shown
  /\ UNCHANGED <<disk, watched, roots, documents, index, reads, scans, used>>

\* The rest of indexAndPublish, when the diagnostics have come.
Publish(p) ==
  /\ p \in publishing /\ publishing' = publishing \ {p}
  /\ shown' = IF p.current /\ IsOpen(p.uri) /\ documents[p.uri].version = p.version
              THEN [shown EXCEPT ![p.uri] = p.version] ELSE shown
  /\ UNCHANGED <<disk, watched, roots, documents, index, reads, scans, used>>

-----------------------------------------------------------------------------
(* Documents.                                                              *)

DidOpen(u) ==
  /\ ~IsOpen(u) /\ disk[u] # Nothing
  /\ LET doc == [version |-> 1, text |-> disk[u]]
     IN  documents' = [documents EXCEPT ![u] = doc] /\ IndexAndPublish(u, doc)
  /\ UNCHANGED <<disk, watched, roots, shown, reads, scans, used>>

DidChange(u, text) ==
  /\ IsOpen(u) /\ documents[u].version < MaxVersion
  /\ LET doc == [version |-> documents[u].version + 1, text |-> text]
     IN  documents' = [documents EXCEPT ![u] = doc] /\ IndexAndPublish(u, doc)
  /\ UNCHANGED <<disk, watched, roots, shown, reads, scans, used>>

\* indexFile on a file that is not open, up to its await
StartRead(u) == \E r \in Reader : reads[r] = Unread /\ reads' = [reads EXCEPT ![r] = [uri |-> u]]

\* A slip: the document leaves the index and the file is not read again.
DidCloseUnread(u) ==
  /\ IsOpen(u)
  /\ documents' = [documents EXCEPT ![u] = Nothing]
  /\ Update(u, Nothing)
  /\ shown' = [shown EXCEPT ![u] = 0]
  /\ UNCHANGED <<disk, watched, roots, reads, scans, used>>

DidClose(u) ==
  /\ IsOpen(u)
  /\ documents' = [documents EXCEPT ![u] = Nothing]
  /\ Update(u, Nothing)
  /\ StartRead(u)
  /\ shown' = [shown EXCEPT ![u] = 0]
  /\ UNCHANGED <<disk, watched, roots, scans, used>>

\* onDidChangeWatchedFiles: an open document keeps its index entry.
WatchedDeleted(u) ==
  /\ watched[u] # <<>> /\ Head(watched[u]) = "deleted"
  /\ watched' = [watched EXCEPT ![u] = Tail(@)]
  /\ IF IsOpen(u) THEN UNCHANGED <<index, publishing, shown>>
     ELSE Update(u, Nothing) /\ shown' = [shown EXCEPT ![u] = 0]
  /\ UNCHANGED <<disk, roots, documents, reads, scans, used>>

\* A slip: an open document is indexed again and its diagnostics are not.
WatchedChangedSilent(u) ==
  /\ watched[u] # <<>> /\ Head(watched[u]) = "changed"
  /\ watched' = [watched EXCEPT ![u] = Tail(@)]
  /\ IF IsOpen(u) THEN Update(u, documents[u]) /\ UNCHANGED reads
     ELSE StartRead(u) /\ UNCHANGED <<index, publishing>>
  /\ UNCHANGED <<disk, roots, documents, shown, scans, used>>

WatchedChanged(u) ==
  /\ watched[u] # <<>> /\ Head(watched[u]) = "changed"
  /\ watched' = [watched EXCEPT ![u] = Tail(@)]
  /\ IF IsOpen(u) THEN IndexAndPublish(u, documents[u]) /\ UNCHANGED reads
     ELSE StartRead(u) /\ UNCHANGED <<index, publishing>>
  /\ UNCHANGED <<disk, roots, documents, shown, scans, used>>

\* The file system answers; a file that is gone is an error.
ReadFile(r) ==
  /\ DOMAIN reads[r] = {"uri"} /\ reads[r].uri # Nothing
  /\ reads' = [reads EXCEPT ![r] = [uri |-> @.uri, text |-> disk[@.uri]]]
  /\ UNCHANGED <<disk, watched, roots, documents, index, shown, publishing, scans, used>>

FileEntry(text) == [version |-> 0, text |-> text]

\* A slip: whatever was read goes into the index, nothing is looked at again.
IndexReadAlways(r) ==
  /\ "text" \in DOMAIN reads[r]
  /\ reads' = [reads EXCEPT ![r] = Unread]
  /\ IF reads[r].text # Nothing THEN Update(reads[r].uri, FileEntry(reads[r].text))
     ELSE UNCHANGED <<index, publishing>>
  /\ UNCHANGED <<disk, watched, roots, documents, shown, scans, used>>

\* A slip: a failed read is indexed as if it had succeeded.
IndexReadFailed(r) ==
  /\ "text" \in DOMAIN reads[r]
  /\ reads' = [reads EXCEPT ![r] = Unread]
  /\ IF IsOpen(reads[r].uri) THEN UNCHANGED <<index, publishing>>
     ELSE Update(reads[r].uri, FileEntry(reads[r].text))
  /\ UNCHANGED <<disk, watched, roots, documents, shown, scans, used>>

\* The rest of indexFile: an open document or an equal text is left alone.
IndexRead(r) ==
  /\ "text" \in DOMAIN reads[r]
  /\ reads' = [reads EXCEPT ![r] = Unread]
  /\ LET u == reads[r].uri
         text == reads[r].text
     IN  IF text = Nothing \/ IsOpen(u) \/ (index[u] # Nothing /\ index[u].text = text)
         THEN UNCHANGED <<index, publishing>>
         ELSE Update(u, FileEntry(text))
  /\ UNCHANGED <<disk, watched, roots, documents, shown, scans, used>>

-----------------------------------------------------------------------------
(* Scans.                                                                  *)

At(s, u) == scans[s].at = Nothing /\ u \in scans[s].todo
Past(s, u) == scans' = [scans EXCEPT ![s] = [todo |-> @.todo \ {u}, at |-> Nothing, got |-> Unread]]

\* The directory no longer, or not yet, lists the file.
ScanMiss(s, u) ==
  /\ At(s, u) /\ disk[u] = Nothing
  /\ Past(s, u)
  /\ UNCHANGED <<disk, watched, roots, documents, index, shown, publishing, reads, used>>

ScanSkip(s, u) ==
  /\ At(s, u) /\ index[u] # Nothing
  /\ Past(s, u)
  /\ UNCHANGED <<disk, watched, roots, documents, index, shown, publishing, reads, used>>

ScanVisit(s, u) ==
  /\ At(s, u) /\ index[u] = Nothing
  /\ scans' = [scans EXCEPT ![s].at = u]
  /\ UNCHANGED <<disk, watched, roots, documents, index, shown, publishing, reads, used>>

ScanRead(s) ==
  /\ scans[s].at # Nothing /\ scans[s].got = Unread
  /\ scans' = [scans EXCEPT ![s].got = [text |-> disk[scans[s].at]]]
  /\ UNCHANGED <<disk, watched, roots, documents, index, shown, publishing, reads, used>>

\* The index is consulted again after the read.
ScanIndex(s) ==
  /\ scans[s].at # Nothing /\ scans[s].got # Unread
  /\ LET u == scans[s].at
         text == scans[s].got.text
     IN  /\ IF text = Nothing \/ index[u] # Nothing THEN UNCHANGED <<index, publishing>>
            ELSE Update(u, FileEntry(text))
         /\ Past(s, u)
  /\ UNCHANGED <<disk, watched, roots, documents, shown, reads, used>>

\* didChangeWorkspaceFolders: what no folder holds any more leaves the index
\* unless it is open, and a new scan starts beside those under way.
ChangeFolders(rs) ==
  /\ rs # roots
  /\ used.folders < MaxFolderChanges /\ used' = [used EXCEPT !.folders = @ + 1]
  /\ roots' = rs
  /\ LET gone == {u \in Uri : index[u] # Nothing /\ ~IsOpen(u) /\ RootOf[u] \notin rs}
     IN  /\ index' = [u \in Uri |-> IF u \in gone THEN Nothing ELSE index[u]]
         /\ publishing' = {IF p.uri \in gone THEN [p EXCEPT !.current = FALSE] ELSE p : p \in publishing}
  /\ \E s \in Scanner : scans[s] = Idle /\ scans' = [scans EXCEPT ![s] = Scan(rs)]
  /\ UNCHANGED <<disk, watched, documents, shown, reads>>

-----------------------------------------------------------------------------
Client == \E u \in Uri : \/ DidOpen(u) \/ DidClose(u)
                         \/ \E t \in Text : DidChange(u, t)

ScanStep(s) == \/ \E u \in Uri : ScanMiss(s, u) \/ ScanSkip(s, u) \/ ScanVisit(s, u)
               \/ ScanRead(s) \/ ScanIndex(s)

Next ==
  \/ Client
  \/ \E u \in Uri, c \in Text \cup {Nothing} : Change(u, c)
  \/ \E rs \in SUBSET Root : ChangeFolders(rs)
  \/ \E u \in Uri : WatchedDeleted(u) \/ WatchedChanged(u)
  \/ \E p \in publishing : Publish(p)
  \/ \E r \in Reader : ReadFile(r) \/ IndexRead(r)
  \/ \E s \in Scanner : ScanStep(s)

\* Reads end, awaited diagnostics come, and the event loop starves nobody.
Fairness ==
  /\ \A u \in Uri : WF_vars(WatchedDeleted(u)) /\ WF_vars(WatchedChanged(u))
  /\ WF_vars(\E p \in publishing : Publish(p))
  /\ \A r \in Reader : WF_vars(ReadFile(r)) /\ WF_vars(IndexRead(r))
  /\ \A s \in Scanner : WF_vars(ScanStep(s))

Spec == Init /\ [][Next]_vars /\ Fairness

-----------------------------------------------------------------------------
TypeOK ==
  /\ disk \in [Uri -> Text \cup {Nothing}]
  /\ watched \in [Uri -> Seq({"changed", "deleted"})]
  /\ roots \subseteq Root
  /\ documents \in [Uri -> Entry(1 .. MaxVersion) \cup {Nothing}]
  /\ index \in [Uri -> Entry(0 .. MaxVersion) \cup {Nothing}]
  /\ shown \in [Uri -> 0 .. MaxVersion]
  /\ publishing \subseteq [uri : Uri, version : 1 .. MaxVersion, current : BOOLEAN]
  /\ reads \in [Reader -> {Unread} \cup [uri : Uri] \cup [uri : Uri, text : Text \cup {Nothing}]]
  /\ scans \in [Scanner -> [todo : SUBSET Uri, at : Uri \cup {Nothing},
                          got : {Unread} \cup [text : Text \cup {Nothing}]]]

\* Whatever reads, scans, watcher reports and folder changes are under way,
\* the index holds an open document as the editor has it.
OpenBuffersWin == \A u \in Uri : IsOpen(u) => index[u] = documents[u]

\* No diagnostics stay on, or come back to, a document that was closed
\* (the checks indexAndPublish makes after its await).
ClosedHasNoDiagnostics == \A u \in Uri : ~IsOpen(u) => shown[u] = 0

\* While a document stays open its diagnostics never go back to an earlier
\* version.
DiagnosticsForward ==
  [][\A u \in Uri : IsOpen(u) /\ IsOpen(u)' => shown'[u] >= shown[u]]_vars

\* An open document does not keep the diagnostics of an earlier version:
\* unless it is closed or edited again, those of its last version come.
DiagnosticsCatchUp ==
  \A u \in Uri : []<>(IsOpen(u) => shown[u] = documents[u].version)

\* Nor does the index keep an old state of a closed file of the workspace: it
\* comes to hold the file as it is on disk, and no file that was deleted,
\* unless it was written while a read of it was under way, or nothing watched.
IndexCatchesUp ==
  \A u \in Uri :
    []<>(u \notin used.unseen /\ ~IsOpen(u) /\ RootOf[u] \in roots =>
           IF disk[u] = Nothing THEN index[u] = Nothing
           ELSE index[u] = FileEntry(disk[u]))
=============================================================================

------------------------ MODULE DocumentIndexProofs ------------------------
(***************************************************************************)
(* Proofs about DocumentIndex, for every set of files, folders and texts   *)
(* and every number of reads and scans under way: what the index and the   *)
(* client's diagnostics hold of open and of closed documents.              *)
(***************************************************************************)
EXTENDS DocumentIndex, TLAPS

\* Diagnostics are never those of a version still to come.
ShownNotAhead == \A u \in Uri : IsOpen(u) => shown[u] <= documents[u].version

IInv == TypeOK /\ OpenBuffersWin /\ ClosedHasNoDiagnostics /\ ShownNotAhead

-----------------------------------------------------------------------------
(* Typing.                                                                 *)

USE RootAssumption, MaxVersionAssumption, NothingAssumption

EntryOrNothing == Entry(0 .. MaxVersion) \cup {Nothing}
Publishing == [uri : Uri, version : 1 .. MaxVersion, current : BOOLEAN]
ReadState == {Unread} \cup [uri : Uri] \cup [uri : Uri, text : Text \cup {Nothing}]
ScanState == [todo : SUBSET Uri, at : Uri \cup {Nothing},
              got : {Unread} \cup [text : Text \cup {Nothing}]]

\* A file's text makes an entry.
LEMMA FileEntryTyped ==
  ASSUME NEW text \in Text
  PROVE  FileEntry(text) \in EntryOrNothing
BY DEF FileEntry, Entry, EntryOrNothing

\* The entry of an open document is an entry of the index.
LEMMA DocumentIsEntry ==
  ASSUME NEW doc \in Entry(1 .. MaxVersion)
  PROVE  /\ doc \in EntryOrNothing /\ doc # Nothing
         /\ doc.version \in 1 .. MaxVersion
BY DEF Entry, EntryOrNothing

\* A pending publication that was superseded is still one.
LEMMA SupersededTyped ==
  ASSUME TypeOK, NEW p \in publishing
  PROVE  p \in Publishing /\ [p EXCEPT !.current = FALSE] \in Publishing
<1>1. p \in Publishing
  BY DEF TypeOK, Publishing
<1> QED  BY <1>1 DEF Publishing

\* Replacing an entry keeps the index and the pending diagnostics typed.
LEMMA UpdateTyped ==
  ASSUME TypeOK, NEW u \in Uri, NEW entry \in EntryOrNothing, Update(u, entry)
  PROVE  index' \in [Uri -> EntryOrNothing] /\ publishing' \subseteq Publishing
<1>1. index' \in [Uri -> EntryOrNothing]
  BY DEF TypeOK, Update, EntryOrNothing
<1>2. publishing' \subseteq Publishing
  BY SupersededTyped DEF Update, Superseded
<1> QED  BY <1>1, <1>2

\* So does indexing an open document.
LEMMA IndexAndPublishTyped ==
  ASSUME TypeOK, NEW u \in Uri, NEW doc \in Entry(1 .. MaxVersion), IndexAndPublish(u, doc)
  PROVE  index' \in [Uri -> EntryOrNothing] /\ publishing' \subseteq Publishing
<1>1. index' \in [Uri -> EntryOrNothing]
  BY DocumentIsEntry DEF TypeOK, IndexAndPublish, EntryOrNothing
<1>2. [uri |-> u, version |-> doc.version, current |-> TRUE] \in Publishing
  BY DocumentIsEntry DEF Publishing
<1>3. publishing' \subseteq Publishing
  BY <1>2, SupersededTyped DEF IndexAndPublish, Superseded
<1> QED  BY <1>1, <1>3

\* A read that begins, and a scan that passes a file, stay typed.
LEMMA StartReadTyped ==
  ASSUME TypeOK, NEW u \in Uri, StartRead(u)
  PROVE  reads' \in [Reader -> ReadState]
BY DEF TypeOK, StartRead, ReadState

LEMMA PastTyped ==
  ASSUME TypeOK, NEW s \in Scanner, NEW u \in Uri, Past(s, u)
  PROVE  scans' \in [Scanner -> ScanState]
<1>1. scans \in [Scanner -> ScanState]
  BY DEF TypeOK, ScanState
<1>2. [todo |-> scans[s].todo \ {u}, at |-> Nothing, got |-> Unread] \in ScanState
  BY <1>1 DEF ScanState
<1> QED  BY <1>1, <1>2 DEF Past

\* The initial states and the idle scans are typed.
LEMMA InitTyped == Init => TypeOK
<1> SUFFICES ASSUME Init PROVE TypeOK
  OBVIOUS
<1>1. \A rs : Scan(rs) \in ScanState /\ Idle \in ScanState
  BY DEF Scan, Idle, ScanState
<1>2. scans \in [Scanner -> ScanState]
  BY <1>1 DEF Init
<1>3. reads \in [Reader -> ReadState]
  BY DEF Init, Unread, ReadState
<1> QED  BY <1>2, <1>3 DEF Init, TypeOK, ScanState, ReadState

\* The type invariant, from the primed types of the four structured variables.
LEMMA TypeOKPrime ==
  ASSUME disk' \in [Uri -> Text \cup {Nothing}],
         watched' \in [Uri -> Seq({"changed", "deleted"})],
         roots' \subseteq Root,
         documents' \in [Uri -> Entry(1 .. MaxVersion) \cup {Nothing}],
         index' \in [Uri -> EntryOrNothing],
         shown' \in [Uri -> 0 .. MaxVersion],
         publishing' \subseteq Publishing,
         reads' \in [Reader -> ReadState],
         scans' \in [Scanner -> ScanState]
  PROVE  TypeOK'
BY DEF TypeOK, EntryOrNothing, Publishing, ReadState, ScanState

\* The type invariant under the names this module gives its parts.
LEMMA TypeOKParts ==
  ASSUME TypeOK
  PROVE  /\ disk \in [Uri -> Text \cup {Nothing}]
         /\ watched \in [Uri -> Seq({"changed", "deleted"})]
         /\ roots \subseteq Root
         /\ documents \in [Uri -> Entry(1 .. MaxVersion) \cup {Nothing}]
         /\ index \in [Uri -> EntryOrNothing]
         /\ shown \in [Uri -> 0 .. MaxVersion]
         /\ publishing \subseteq Publishing
         /\ reads \in [Reader -> ReadState]
         /\ scans \in [Scanner -> ScanState]
BY DEF TypeOK, EntryOrNothing, Publishing, ReadState, ScanState

-----------------------------------------------------------------------------
(* Typing, action by action.                                               *)

\* A change to a file.
LEMMA ChangeTyped ==
  ASSUME TypeOK, NEW u \in Uri, NEW c \in Text \cup {Nothing}, Change(u, c)
  PROVE  TypeOK'
<1>1. disk' \in [Uri -> Text \cup {Nothing}]
  BY TypeOKParts DEF Change
<1>2. watched' \in [Uri -> Seq({"changed", "deleted"})]
  BY TypeOKParts DEF Change
<1> QED  BY <1>1, <1>2, TypeOKParts, TypeOKPrime DEF Change

\* A document opened by the client.
LEMMA DidOpenTyped ==
  ASSUME TypeOK, NEW u \in Uri, DidOpen(u)
  PROVE  TypeOK'
<1> DEFINE doc == [version |-> 1, text |-> disk[u]]
<1>1. doc \in Entry(1 .. MaxVersion)
  BY TypeOKParts DEF DidOpen, Entry
<1>2. documents' = [documents EXCEPT ![u] = doc] /\ IndexAndPublish(u, doc)
  BY DEF DidOpen
<1> HIDE DEF doc
<1>3. documents' \in [Uri -> Entry(1 .. MaxVersion) \cup {Nothing}]
  BY <1>1, <1>2, TypeOKParts
<1> QED  BY <1>1, <1>2, <1>3, IndexAndPublishTyped, TypeOKParts, TypeOKPrime DEF DidOpen

\* A document edited by the client.
LEMMA DidChangeTyped ==
  ASSUME TypeOK, NEW u \in Uri, NEW text \in Text, DidChange(u, text)
  PROVE  TypeOK'
<1> DEFINE doc == [version |-> documents[u].version + 1, text |-> text]
<1>1. documents[u] \in Entry(1 .. MaxVersion)
  BY TypeOKParts DEF DidChange, IsOpen
<1>2. doc \in Entry(1 .. MaxVersion)
  BY <1>1 DEF DidChange, Entry
<1>3. documents' = [documents EXCEPT ![u] = doc] /\ IndexAndPublish(u, doc)
  BY DEF DidChange
<1> HIDE DEF doc
<1>4. documents' \in [Uri -> Entry(1 .. MaxVersion) \cup {Nothing}]
  BY <1>2, <1>3, TypeOKParts
<1> QED  BY <1>2, <1>3, <1>4, IndexAndPublishTyped, TypeOKParts, TypeOKPrime DEF DidChange

\* A document closed by the client.
LEMMA DidCloseTyped ==
  ASSUME TypeOK, NEW u \in Uri, DidClose(u)
  PROVE  TypeOK'
<1>1. documents' \in [Uri -> Entry(1 .. MaxVersion) \cup {Nothing}]
  BY TypeOKParts DEF DidClose
<1>2. index' \in [Uri -> EntryOrNothing] /\ publishing' \subseteq Publishing
  BY UpdateTyped DEF DidClose, EntryOrNothing
<1>3. shown' \in [Uri -> 0 .. MaxVersion]
  BY TypeOKParts DEF DidClose
<1> QED  BY <1>1, <1>2, <1>3, StartReadTyped, TypeOKParts, TypeOKPrime DEF DidClose

\* Diagnostics that come.
LEMMA PublishTyped ==
  ASSUME TypeOK, NEW p \in publishing, Publish(p)
  PROVE  TypeOK'
<1>1. p \in Publishing
  BY TypeOKParts
<1>2. p.uri \in Uri /\ p.version \in 0 .. MaxVersion
  BY <1>1 DEF Publishing
<1>3. shown' \in [Uri -> 0 .. MaxVersion]
  BY <1>2, TypeOKParts DEF Publish
<1> QED  BY <1>3, TypeOKParts, TypeOKPrime DEF Publish

\* A report that a file was deleted.
LEMMA WatchedDeletedTyped ==
  ASSUME TypeOK, NEW u \in Uri, WatchedDeleted(u)
  PROVE  TypeOK'
<1>1. watched' \in [Uri -> Seq({"changed", "deleted"})]
  BY TypeOKParts DEF WatchedDeleted
<1>2. index' \in [Uri -> EntryOrNothing] /\ publishing' \subseteq Publishing
  BY UpdateTyped, TypeOKParts DEF WatchedDeleted, EntryOrNothing
<1>3. shown' = shown \/ shown' = [shown EXCEPT ![u] = 0]
  BY DEF WatchedDeleted
<1>4. [shown EXCEPT ![u] = 0] \in [Uri -> 0 .. MaxVersion]
  BY TypeOKParts
<1>5. shown' \in [Uri -> 0 .. MaxVersion]
  <2>1. CASE shown' = shown
    BY <2>1, TypeOKParts
  <2>2. CASE shown' = [shown EXCEPT ![u] = 0]
    BY <1>4, <2>2
  <2> QED  BY <1>3, <2>1, <2>2
<1> QED  BY <1>1, <1>2, <1>5, TypeOKParts, TypeOKPrime DEF WatchedDeleted

\* A report that a file was created or changed.
LEMMA WatchedChangedTyped ==
  ASSUME TypeOK, NEW u \in Uri, WatchedChanged(u)
  PROVE  TypeOK'
<1>1. watched' \in [Uri -> Seq({"changed", "deleted"})]
  BY TypeOKParts DEF WatchedChanged
<1>2. CASE IsOpen(u)
  <2>1. documents[u] \in Entry(1 .. MaxVersion)
    BY <1>2, TypeOKParts DEF IsOpen
  <2> QED  BY <1>1, <1>2, <2>1, IndexAndPublishTyped, TypeOKParts, TypeOKPrime DEF WatchedChanged
<1>3. CASE ~IsOpen(u)
  BY <1>1, <1>3, StartReadTyped, TypeOKParts, TypeOKPrime DEF WatchedChanged
<1> QED  BY <1>2, <1>3

\* A file that was read.
LEMMA ReadFileTyped ==
  ASSUME TypeOK, NEW r \in Reader, ReadFile(r)
  PROVE  TypeOK'
<1>1. reads[r].uri \in Uri
  BY TypeOKParts DEF ReadFile, ReadState, Unread
<1>2. [uri |-> reads[r].uri, text |-> disk[reads[r].uri]] \in ReadState
  BY <1>1, TypeOKParts DEF ReadState
<1>3. reads' \in [Reader -> ReadState]
  BY <1>2, TypeOKParts DEF ReadFile
<1> QED  BY <1>3, TypeOKParts, TypeOKPrime DEF ReadFile

\* What was read goes into the index, or does not.
LEMMA IndexReadTyped ==
  ASSUME TypeOK, NEW r \in Reader, IndexRead(r)
  PROVE  TypeOK'
<1>1. reads[r].uri \in Uri /\ reads[r].text \in Text \cup {Nothing}
  <2>1. reads[r] \in ReadState /\ "text" \in DOMAIN reads[r]
    BY TypeOKParts DEF IndexRead
  <2>2. reads[r] # Unread /\ reads[r] \notin [uri : Uri]
    BY <2>1 DEF Unread
  <2> QED  BY <2>1, <2>2 DEF ReadState
<1>2. reads' \in [Reader -> ReadState]
  BY TypeOKParts DEF IndexRead, ReadState, Unread
<1>3. index' \in [Uri -> EntryOrNothing] /\ publishing' \subseteq Publishing
  BY <1>1, FileEntryTyped, UpdateTyped, TypeOKParts DEF IndexRead
<1> QED  BY <1>2, <1>3, TypeOKParts, TypeOKPrime DEF IndexRead

\* A scan that passes over a file, visits it, or has it read.
LEMMA ScanOtherTyped ==
  ASSUME TypeOK, NEW s \in Scanner, NEW u \in Uri,
         ScanMiss(s, u) \/ ScanSkip(s, u) \/ ScanVisit(s, u) \/ ScanRead(s)
  PROVE  TypeOK'
<1>1. scans[s] \in ScanState
  BY TypeOKParts
<1>2. CASE ScanMiss(s, u) \/ ScanSkip(s, u)
  BY <1>2, PastTyped, TypeOKParts, TypeOKPrime DEF ScanMiss, ScanSkip
<1>3. CASE ScanVisit(s, u)
  <2>1. [scans[s] EXCEPT !.at = u] \in ScanState
    BY <1>1 DEF ScanState
  <2>2. scans' = [scans EXCEPT ![s] = [scans[s] EXCEPT !.at = u]]
    BY <1>3 DEF ScanVisit
  <2> QED  BY <1>3, <2>1, <2>2, TypeOKParts, TypeOKPrime DEF ScanVisit
<1>4. CASE ScanRead(s)
  <2> DEFINE read == [text |-> disk[scans[s].at]]
  <2>1. scans[s].at \in Uri
    BY <1>1, <1>4 DEF ScanRead, ScanState
  <2>2. read \in [text : Text \cup {Nothing}]
    BY <2>1, TypeOKParts
  <2>3. scans' = [scans EXCEPT ![s] = [scans[s] EXCEPT !.got = read]]
    BY <1>4 DEF ScanRead
  <2> HIDE DEF read
  <2>4. [scans[s] EXCEPT !.got = read] \in ScanState
    BY <1>1, <2>2 DEF ScanState
  <2> QED  BY <1>4, <2>3, <2>4, TypeOKParts, TypeOKPrime DEF ScanRead
<1> QED  BY <1>2, <1>3, <1>4

\* What a scan read goes into the index, or does not.
LEMMA ScanIndexTyped ==
  ASSUME TypeOK, NEW s \in Scanner, ScanIndex(s)
  PROVE  TypeOK' /\ scans[s].at \in Uri
<1>1. scans[s] \in ScanState
  BY TypeOKParts
<1>2. scans[s].at \in Uri /\ scans[s].got.text \in Text \cup {Nothing}
  BY <1>1 DEF ScanIndex, ScanState
<1>3. index' \in [Uri -> EntryOrNothing] /\ publishing' \subseteq Publishing
  BY <1>2, FileEntryTyped, UpdateTyped, TypeOKParts DEF ScanIndex
<1>4. scans' \in [Scanner -> ScanState]
  BY <1>2, PastTyped DEF ScanIndex
<1> QED  BY <1>2, <1>3, <1>4, TypeOKParts, TypeOKPrime DEF ScanIndex

\* Folders that come and go.
LEMMA ChangeFoldersTyped ==
  ASSUME TypeOK, NEW rs \in SUBSET Root, ChangeFolders(rs)
  PROVE  TypeOK'
<1>1. index' \in [Uri -> EntryOrNothing]
  BY TypeOKParts DEF ChangeFolders, EntryOrNothing
<1>2. publishing' \subseteq Publishing
  BY SupersededTyped DEF ChangeFolders
<1>3. Scan(rs) \in ScanState
  BY DEF Scan, ScanState
<1>4. scans' \in [Scanner -> ScanState]
  BY <1>3, TypeOKParts DEF ChangeFolders
<1> QED  BY <1>1, <1>2, <1>4, TypeOKParts, TypeOKPrime DEF ChangeFolders

\* A step that changes nothing.
LEMMA StutterTyped == TypeOK /\ UNCHANGED vars => TypeOK'
BY DEF vars, TypeOK

\* The variables keep their types.
THEOREM TypeCorrect == Spec => []TypeOK
<1>1. TypeOK /\ [Next]_vars => TypeOK'
  <2> SUFFICES ASSUME TypeOK, [Next]_vars PROVE TypeOK'
    OBVIOUS
  <2>1. ASSUME Client PROVE TypeOK'
    BY <2>1, DidOpenTyped, DidCloseTyped, DidChangeTyped DEF Client
  <2>2. ASSUME NEW u \in Uri, NEW c \in Text \cup {Nothing}, Change(u, c) PROVE TypeOK'
    BY <2>2, ChangeTyped
  <2>3. ASSUME NEW rs \in SUBSET Root, ChangeFolders(rs) PROVE TypeOK'
    BY <2>3, ChangeFoldersTyped
  <2>4. ASSUME NEW u \in Uri, WatchedDeleted(u) \/ WatchedChanged(u) PROVE TypeOK'
    BY <2>4, WatchedDeletedTyped, WatchedChangedTyped
  <2>5. ASSUME NEW p \in publishing, Publish(p) PROVE TypeOK'
    BY <2>5, PublishTyped
  <2>6. ASSUME NEW r \in Reader, ReadFile(r) \/ IndexRead(r) PROVE TypeOK'
    BY <2>6, ReadFileTyped, IndexReadTyped
  <2>7. ASSUME NEW s \in Scanner, ScanStep(s) PROVE TypeOK'
    <3>1. CASE ScanRead(s)
      <4>1. scans[s].at \in Uri
        BY <3>1, TypeOKParts DEF ScanRead, ScanState
      <4> QED  BY <3>1, <4>1, ScanOtherTyped
    <3> QED  BY <2>7, <3>1, ScanOtherTyped, ScanIndexTyped DEF ScanStep
  <2> QED  BY <2>1, <2>2, <2>3, <2>4, <2>5, <2>6, <2>7, StutterTyped DEF Next
<1> QED  BY <1>1, InitTyped, PTL DEF Spec
-----------------------------------------------------------------------------
(* What the index and the diagnostics hold.                                *)

\* An operation that leaves the documents, the index and the diagnostics
\* alone keeps the invariant.
LEMMA FrameKept ==
  ASSUME IInv, TypeOK', UNCHANGED <<documents, index, shown>>
  PROVE  IInv'
BY DEF IInv, OpenBuffersWin, ClosedHasNoDiagnostics, ShownNotAhead, IsOpen

\* Indexing an open document under a version that is not below that of the
\* diagnostics it has keeps the invariant.
LEMMA DocumentKept ==
  ASSUME IInv, TypeOK', NEW u \in Uri, NEW doc \in Entry(1 .. MaxVersion),
         shown[u] <= doc.version, UNCHANGED shown,
         documents' = [documents EXCEPT ![u] = doc], index' = [index EXCEPT ![u] = doc]
  PROVE  IInv'
<1>1. doc # Nothing
  BY DocumentIsEntry
<1>2. TypeOK
  BY DEF IInv
<1>3. documents'[u] = doc /\ index'[u] = doc
  BY <1>2, TypeOKParts
<1>4. \A v \in Uri \ {u} : documents'[v] = documents[v] /\ index'[v] = index[v]
  BY <1>2, TypeOKParts
<1> QED  BY <1>1, <1>3, <1>4 DEF IInv, OpenBuffersWin, ClosedHasNoDiagnostics, ShownNotAhead, IsOpen

\* Changing the index of a closed document keeps it too.
LEMMA ClosedKept ==
  ASSUME IInv, TypeOK', NEW u \in Uri, ~IsOpen(u), UNCHANGED documents,
         shown' = shown \/ shown' = [shown EXCEPT ![u] = 0],
         \A v \in Uri \ {u} : index'[v] = index[v]
  PROVE  IInv'
<1>1. TypeOK
  BY DEF IInv
<1>2. \A v \in Uri \ {u} : shown'[v] = shown[v]
  BY <1>1, TypeOKParts
<1>3. shown'[u] = 0
  BY <1>1, TypeOKParts DEF IInv, ClosedHasNoDiagnostics
<1> QED  BY <1>2, <1>3 DEF IInv, OpenBuffersWin, ClosedHasNoDiagnostics, ShownNotAhead, IsOpen

\* The client's messages keep the invariant.
LEMMA ClientKeeps ==
  ASSUME IInv, TypeOK', Client
  PROVE  IInv'
<1>1. TypeOK
  BY DEF IInv
<1>2. ASSUME NEW u \in Uri, DidOpen(u) PROVE IInv'
  <2> DEFINE doc == [version |-> 1, text |-> disk[u]]
  <2>1. doc \in Entry(1 .. MaxVersion) /\ shown[u] <= doc.version
    BY <1>1, <1>2, TypeOKParts DEF DidOpen, Entry, IInv, ClosedHasNoDiagnostics
  <2>2. /\ documents' = [documents EXCEPT ![u] = doc] /\ index' = [index EXCEPT ![u] = doc]
        /\ UNCHANGED shown
    BY <1>2 DEF DidOpen, IndexAndPublish
  <2> HIDE DEF doc
  <2> QED  BY <2>1, <2>2, DocumentKept
<1>3. ASSUME NEW u \in Uri, DidClose(u) PROVE IInv'
  <2>1. documents'[u] = Nothing /\ shown'[u] = 0
    BY <1>1, <1>3, TypeOKParts DEF DidClose
  <2>2. \A v \in Uri \ {u} :
          documents'[v] = documents[v] /\ index'[v] = index[v] /\ shown'[v] = shown[v]
    BY <1>1, <1>3, TypeOKParts DEF DidClose, Update
  <2> QED  BY <2>1, <2>2 DEF IInv, OpenBuffersWin, ClosedHasNoDiagnostics, ShownNotAhead, IsOpen
<1>4. ASSUME NEW u \in Uri, NEW text \in Text, DidChange(u, text) PROVE IInv'
  <2> DEFINE doc == [version |-> documents[u].version + 1, text |-> text]
  <2>1. documents[u] \in Entry(1 .. MaxVersion) /\ shown[u] <= documents[u].version
    BY <1>1, <1>4, TypeOKParts DEF DidChange, IsOpen, IInv, ShownNotAhead
  <2>2. documents[u].version \in 1 .. MaxVersion /\ shown[u] \in 0 .. MaxVersion
    BY <1>1, <2>1, TypeOKParts DEF Entry
  <2>3. doc \in Entry(1 .. MaxVersion) /\ shown[u] <= doc.version
    BY <1>4, <2>1, <2>2 DEF DidChange, Entry
  <2>4. /\ documents' = [documents EXCEPT ![u] = doc] /\ index' = [index EXCEPT ![u] = doc]
        /\ UNCHANGED shown
    BY <1>4 DEF DidChange, IndexAndPublish
  <2> HIDE DEF doc
  <2> QED  BY <2>3, <2>4, DocumentKept
<1> QED  BY <1>2, <1>3, <1>4 DEF Client

\* So do the reports of the file watcher.
LEMMA WatchedKeeps ==
  ASSUME IInv, TypeOK', NEW u \in Uri, WatchedDeleted(u) \/ WatchedChanged(u)
  PROVE  IInv'
<1>1. TypeOK
  BY DEF IInv
<1>2. CASE IsOpen(u) /\ WatchedChanged(u)
  <2>1. documents[u] \in Entry(1 .. MaxVersion) /\ shown[u] <= documents[u].version
    BY <1>1, <1>2, TypeOKParts DEF IsOpen, IInv, ShownNotAhead
  <2>2. documents' = [documents EXCEPT ![u] = documents[u]]
    BY <1>1, <1>2, TypeOKParts DEF WatchedChanged
  <2>3. index' = [index EXCEPT ![u] = documents[u]] /\ UNCHANGED shown
    BY <1>2 DEF WatchedChanged, IndexAndPublish
  <2> QED  BY <2>1, <2>2, <2>3, DocumentKept
<1>3. CASE IsOpen(u) /\ WatchedDeleted(u)
  BY <1>3, FrameKept DEF WatchedDeleted
<1>4. CASE ~IsOpen(u)
  <2>1. \A v \in Uri \ {u} : index'[v] = index[v]
    BY <1>1, <1>4, TypeOKParts DEF WatchedDeleted, WatchedChanged, Update
  <2> QED  BY <1>4, <2>1, ClosedKept DEF WatchedDeleted, WatchedChanged
<1> QED  BY <1>2, <1>3, <1>4

\* Diagnostics that come late, for an old version or a closed document, are
\* dropped.
LEMMA PublishKeeps ==
  ASSUME IInv, TypeOK', NEW p \in publishing, Publish(p)
  PROVE  IInv'
<1>1. TypeOK
  BY DEF IInv
<1>2. p.uri \in Uri /\ p.version \in 1 .. MaxVersion
  BY <1>1, TypeOKParts DEF Publishing
<1>3. CASE shown' = shown
  BY <1>3, FrameKept DEF Publish
<1>4. CASE shown' # shown
  <2>1. IsOpen(p.uri) /\ documents[p.uri].version = p.version
        /\ shown' = [shown EXCEPT ![p.uri] = p.version]
    BY <1>4 DEF Publish
  <2>2. shown'[p.uri] = p.version
    BY <1>1, <1>2, <2>1, TypeOKParts
  <2>3. \A v \in Uri \ {p.uri} : shown'[v] = shown[v]
    BY <1>1, <2>1, TypeOKParts
  <2> QED  BY <1>2, <2>1, <2>2, <2>3
           DEF Publish, IInv, OpenBuffersWin, ClosedHasNoDiagnostics, ShownNotAhead, IsOpen
<1> QED  BY <1>3, <1>4

\* A file's text, read while anything happened, is not put in the place of an
\* open document.
LEMMA ReadsKeep ==
  ASSUME IInv, TypeOK', NEW r \in Reader, IndexRead(r)
  PROVE  IInv'
<1>1. TypeOK
  BY DEF IInv
<1>2. CASE index' = index
  BY <1>2, FrameKept DEF IndexRead
<1>3. CASE index' # index
  <2>1. ~IsOpen(reads[r].uri) /\ Update(reads[r].uri, FileEntry(reads[r].text))
    BY <1>3 DEF IndexRead
  <2>2. reads[r] \in ReadState /\ "text" \in DOMAIN reads[r]
    BY <1>1, TypeOKParts DEF IndexRead
  <2>3. reads[r] # Unread
    BY <2>2 DEF Unread
  <2>4. reads[r].uri \in Uri
    BY <2>2, <2>3 DEF ReadState
  <2>5. \A v \in Uri \ {reads[r].uri} : index'[v] = index[v]
    BY <1>1, <2>1, TypeOKParts DEF Update
  <2> QED  BY <2>1, <2>4, <2>5, ClosedKept DEF IndexRead
<1> QED  BY <1>2, <1>3

\* Nor is one that a scan read: an open document is in the index, and a scan
\* adds to the index only what is not there.
LEMMA ScansKeep ==
  ASSUME IInv, TypeOK', NEW s \in Scanner, ScanIndex(s)
  PROVE  IInv'
<1>1. TypeOK /\ scans[s].at \in Uri
  BY ScanIndexTyped DEF IInv
<1>2. CASE index' = index
  BY <1>2, FrameKept DEF ScanIndex
<1>3. CASE index' # index
  <2>1. index[scans[s].at] = Nothing /\ Update(scans[s].at, FileEntry(scans[s].got.text))
    BY <1>3 DEF ScanIndex
  <2>2. ~IsOpen(scans[s].at)
    BY <1>1, <2>1 DEF IInv, OpenBuffersWin, IsOpen
  <2>3. \A v \in Uri \ {scans[s].at} : index'[v] = index[v]
    BY <1>1, <2>1, TypeOKParts DEF Update
  <2> QED  BY <1>1, <2>2, <2>3, ClosedKept DEF ScanIndex
<1> QED  BY <1>2, <1>3

\* A folder that goes takes only closed documents out of the index.
LEMMA FoldersKeep ==
  ASSUME IInv, TypeOK', NEW rs \in SUBSET Root, ChangeFolders(rs)
  PROVE  IInv'
<1>1. \A v \in Uri : IsOpen(v) => index'[v] = index[v]
  BY DEF ChangeFolders
<1> QED  BY <1>1 DEF ChangeFolders, IInv, OpenBuffersWin, ClosedHasNoDiagnostics, ShownNotAhead, IsOpen

\* Every step keeps the invariant.
LEMMA StepKeeps == IInv /\ TypeOK' /\ [Next]_vars => IInv'
<1> SUFFICES ASSUME IInv, TypeOK', [Next]_vars PROVE IInv'
  OBVIOUS
<1>1. CASE UNCHANGED <<documents, index, shown>>
  BY <1>1, FrameKept
<1>2. ASSUME NEW s \in Scanner, ScanStep(s) PROVE IInv'
  BY <1>2, <1>1, ScansKeep DEF ScanStep, ScanMiss, ScanSkip, ScanVisit, ScanRead
<1>3. ASSUME NEW r \in Reader, ReadFile(r) \/ IndexRead(r) PROVE IInv'
  BY <1>3, <1>1, ReadsKeep DEF ReadFile
<1>4. ASSUME NEW u \in Uri, NEW c \in Text \cup {Nothing}, Change(u, c) PROVE IInv'
  BY <1>4, <1>1 DEF Change
<1>5. CASE UNCHANGED vars
  BY <1>5, <1>1 DEF vars
<1> QED  BY <1>2, <1>3, <1>4, <1>5, ClientKeeps, WatchedKeeps, PublishKeeps, FoldersKeep DEF Next

\* The invariant holds of every reachable state.
LEMMA Invariant == Spec => []IInv
<1>1. Init => IInv
  <2>1. Init => OpenBuffersWin /\ ClosedHasNoDiagnostics /\ ShownNotAhead
    BY DEF Init, OpenBuffersWin, ClosedHasNoDiagnostics, ShownNotAhead, IsOpen
  <2> QED  BY <2>1, InitTyped DEF IInv
<1> QED  BY <1>1, StepKeeps, TypeCorrect, PTL DEF Spec

\* The index holds every open document as the editor has it.
THEOREM OpenWins == Spec => []OpenBuffersWin
<1>1. IInv => OpenBuffersWin
  BY DEF IInv
<1> QED  BY <1>1, Invariant, PTL

\* A closed document shows no diagnostics.
THEOREM ClosedIsQuiet == Spec => []ClosedHasNoDiagnostics
<1>1. IInv => ClosedHasNoDiagnostics
  BY DEF IInv
<1> QED  BY <1>1, Invariant, PTL

\* The diagnostics of a document that stays open only move forward.
THEOREM Forward == Spec => DiagnosticsForward
<1> DEFINE A == \A u \in Uri : IsOpen(u) /\ IsOpen(u)' => shown'[u] >= shown[u]
<1>1. IInv /\ [Next]_vars => [A]_vars
  <2> SUFFICES ASSUME IInv, Next, NEW u \in Uri, IsOpen(u), IsOpen(u)'
               PROVE  shown'[u] >= shown[u]
    OBVIOUS
  <2>1. TypeOK
    BY DEF IInv
  <2>2. shown[u] \in 0 .. MaxVersion /\ shown[u] <= documents[u].version
    BY <2>1, TypeOKParts DEF IInv, ShownNotAhead
  <2>3. CASE shown'[u] = shown[u]
    BY <2>2, <2>3
  <2>4. ASSUME NEW v \in Uri, DidClose(v) PROVE shown'[u] = shown[u]
    BY <2>1, <2>4, TypeOKParts DEF DidClose, IsOpen
  <2>5. ASSUME NEW v \in Uri, WatchedDeleted(v) PROVE shown'[u] = shown[u]
    BY <2>1, <2>5, TypeOKParts DEF WatchedDeleted
  <2>6. ASSUME NEW p \in publishing, Publish(p) PROVE shown'[u] >= shown[u]
    <3>1. p.uri \in Uri /\ p.version \in 1 .. MaxVersion
      BY <2>1, TypeOKParts DEF Publishing
    <3>2. CASE shown' = shown
      BY <2>2, <3>2
    <3>3. CASE shown' # shown
      BY <2>1, <2>2, <2>6, <3>1, <3>3, TypeOKParts DEF Publish
    <3> QED  BY <3>2, <3>3
  <2>7. CASE UNCHANGED shown
    BY <2>3, <2>7
  <2> QED  BY <2>3, <2>4, <2>5, <2>6, <2>7
           DEF Next, Client, DidOpen, DidChange, Change, ChangeFolders, WatchedChanged,
               ReadFile, IndexRead, ScanStep, ScanMiss, ScanSkip, ScanVisit, ScanRead, ScanIndex
<1> QED  BY <1>1, Invariant, PTL DEF Spec, DiagnosticsForward
=============================================================================

---------------------------- MODULE RuntimeFiles ----------------------------
(***************************************************************************)
(* The file helpers of the managed runtime (bootstrap/cpp/runtime/         *)
(* yc_runtime.c): the search for source files through directories and the  *)
(* links that may lead round in them, the making of a path's directories   *)
(* by several compilers at once, and the reading and writing of a file.    *)
(* Every allocation may fail, and every call of the system but readdir and *)
(* the stat of an entry, whose errors the code takes for the end of the    *)
(* directory and for a link that leads nowhere.                            *)
(***************************************************************************)
EXTENDS Naturals, Sequences, SequencesExt, FiniteSets, TLC

CONSTANTS
  Searches,  \* file systems: what each directory's names lead to, unreadable directories, root
  Order,     \* the names in the order of their characters, a directory's with the slash it ends in
  Places,    \* for each compiler, the path whose directories it makes
  Obstacles, \* sets of paths at which files stand
  Data,      \* lengths of files and texts
  None       \* NULL

\* Every name is somewhere in the order, and names in one place are one name; no directory is
\* taken for one of the kinds of what is none.
ASSUME OrderAssumption ==
  /\ Order \in Seq(STRING) /\ IsInjective(Order)
  /\ \A s \in Searches : \A d \in DOMAIN s.dirs : DOMAIN s.dirs[d] \subseteq Range(Order)
ASSUME KindsAssumption ==
  \A s \in Searches : {"source", "other", "dangling"} \cap DOMAIN s.dirs = {}
ASSUME PathsAssumption == \A c \in DOMAIN Places : Places[c] \in Seq(STRING) \ {<<>>}
ASSUME DataAssumption  == Data \subseteq Nat
ASSUME NullAssumption  == None \notin BOOLEAN \cup Seq(Seq(Range(Order)))

VARIABLES
  job,      \* the kind of call: search, mkdirs, read, write or append
  at,       \* where it is
  handles,  \* open directories and files
  strings,  \* blocks allocated
  cause,    \* what failed: an allocation, the opening or the reading of something, or none
  found,    \* what it returned
  fs,       \* the directories searched
  frames,   \* calls of yc_collect_yc_paths under way, the innermost last
  visited,  \* directories marked
  list,     \* paths listed
  ok,       \* no failure in the search so far
  dirs, files, \* directories and plain files
  making,   \* each compiler's progress through its path
  content,  \* length of the file, None if there is none
  old,      \* its length before the call
  data,     \* length of what is written
  len, cap  \* how much is read or written, and the room of the buffer

callVars   == <<job, at, handles, strings, cause, found>>
searchVars == <<fs, frames, visited, list, ok>>
makeVars   == <<dirs, files, making>>
copyVars   == <<content, old, data, len, cap>>
fileVars   == <<callVars, searchVars, makeVars, copyVars>>

Goes(label) == at' = label /\ UNCHANGED found
Returns(x)  == at' = "returned" /\ found' = x

-----------------------------------------------------------------------------
(* yc_fs_collect_yc_files. *)

IsDir(x) == x \in DOMAIN fs.dirs
Frame(dir, path) == [dir |-> dir, path |-> path, left |-> DOMAIN fs.dirs[dir]]

\* A slip: a directory that was visited before is taken for a failure to mark it.
ProudVisit(dir, path, below) ==
  \/ /\ dir \in visited /\ frames' = below /\ ok' = FALSE
     /\ UNCHANGED <<visited, cause, handles, strings>>
  \/ /\ dir \notin visited
     /\ visited' = visited \cup {dir} /\ frames' = Append(below, Frame(dir, path))
     /\ handles' = handles + 1 /\ strings' = strings + 1
     /\ UNCHANGED <<ok, cause>>

\* Entering a directory: it is looked at again, marked, and opened, once.  One that may be read
\* is refused when too many are open.
Visit(dir, path, below) ==
  \/ /\ dir \in visited /\ frames' = below
     /\ UNCHANGED <<visited, ok, cause, handles, strings>>
  \/ /\ frames' = below /\ ok' = FALSE
     /\ \/ cause' = "refused" /\ UNCHANGED visited
        \/ dir \notin visited /\ cause' = "memory" /\ UNCHANGED visited
        \/ /\ dir \notin visited /\ visited' = visited \cup {dir}
           /\ IF dir \in fs.closed THEN UNCHANGED cause ELSE cause' = "refused"
     /\ UNCHANGED <<handles, strings>>
  \/ /\ dir \notin visited \cup fs.closed
     /\ visited' = visited \cup {dir} /\ frames' = Append(below, Frame(dir, path))
     /\ handles' = handles + 1 /\ strings' = strings + 1
     /\ UNCHANGED <<ok, cause>>

\* The start's path is a block as the entries' are.
Search ==
  /\ job = "search" /\ at = "call"
  /\ \/ IsDir(fs.root) /\ Visit(fs.root, <<>>, <<>>)
     \/ ~IsDir(fs.root) /\ ok' = FALSE /\ UNCHANGED <<visited, frames, cause, handles, strings>>
  /\ Goes("walk")
  /\ UNCHANGED <<job, fs, list, makeVars, copyVars>>

\* yc_path_list_push: the list keeps a copy of the path.
Push(path) == list' = Append(list, path) /\ strings' = strings + 1

\* One name of the innermost directory, in any order.  Its path is a block while a directory
\* is walked, and another when it is listed.
Entry ==
  /\ job = "search" /\ frames # <<>> /\ ok
  /\ \E name \in Last(frames).left :
       LET target == fs.dirs[Last(frames).dir][name]
           path   == Append(Last(frames).path, name)
           rest   == [frames EXCEPT ![Len(frames)].left = @ \ {name}]
       IN  \/ /\ ok' = FALSE /\ cause' = "memory" /\ frames' = rest
              /\ UNCHANGED <<visited, list, handles, strings>>
           \/ IsDir(target) /\ Visit(target, path, rest) /\ UNCHANGED list
           \/ /\ target = "source" /\ frames' = rest
              /\ Push(path)
              /\ UNCHANGED <<visited, ok, cause, handles>>
           \/ /\ target \in {"other", "dangling"} /\ frames' = rest
              /\ UNCHANGED <<visited, list, ok, cause, handles, strings>>
  /\ UNCHANGED <<job, at, found, fs, makeVars, copyVars>>

\* A failure ends every directory on the way out.
Close ==
  /\ job = "search" /\ frames # <<>> /\ (Last(frames).left = {} \/ ~ok)
  /\ frames' = Front(frames) /\ handles' = handles - 1 /\ strings' = strings - 1
  /\ UNCHANGED <<job, at, found, cause, fs, visited, list, ok, makeVars, copyVars>>

\* yc_compare_paths
Before(p, q) ==
  LET Place(name) == CHOOSE i \in DOMAIN Order : Order[i] = name
      first == CHOOSE i \in DOMAIN p : p[i] # q[i] /\ SubSeq(p, 1, i - 1) = SubSeq(q, 1, i - 1)
  IN  p # q /\ Place(p[first]) < Place(q[first])

\* What qsort leaves: the list in another order, no path behind one that comes after it.
Arranged(paths) ==
  {sorted \in {[i \in DOMAIN paths |-> paths[place[i]]] :
                place \in Bijection(DOMAIN paths, DOMAIN paths)} :
     \A i, j \in DOMAIN paths : i < j => ~Before(sorted[j], sorted[i])}

Collected ==
  /\ job = "search" /\ at = "walk" /\ frames = <<>>
  /\ strings' = strings - Len(list)
  /\ \/ ok /\ (\E sorted \in Arranged(list) : Returns(sorted)) /\ UNCHANGED cause
     \/ ok /\ Returns(None) /\ cause' = "memory"
     \/ ~ok /\ Returns(None) /\ UNCHANGED cause
  /\ UNCHANGED <<job, handles, searchVars, makeVars, copyVars>>

-----------------------------------------------------------------------------
(* yc_fs_create_dirs, by several compilers. *)

Prefix(c) == SubSeq(Places[c], 1, making[c].depth + 1)
Proceeds(c) ==
  making' = [making EXCEPT ![c].depth = @ + 1,
               ![c].at = IF making[c].depth + 1 = Len(Places[c]) THEN "made" ELSE "mkdir"]
GivesUp(c, why) == making' = [making EXCEPT ![c].at = "failed", ![c].why = why]

\* It works on a copy of the path.
CopyPath(c) ==
  /\ job = "mkdirs" /\ making[c].at = "call"
  /\ making' = [making EXCEPT ![c].at = "mkdir"] \/ GivesUp(c, "memory")
  /\ UNCHANGED <<callVars, searchVars, dirs, files, copyVars>>

\* A slip: a directory somebody else made is a failure.
ProudMkdir(c) ==
  /\ job = "mkdirs" /\ making[c].at = "mkdir"
  /\ IF Prefix(c) \notin dirs \cup files /\ Front(Prefix(c)) \in dirs
     THEN dirs' = dirs \cup {Prefix(c)} /\ Proceeds(c)
     ELSE GivesUp(c, "none") /\ UNCHANGED dirs
  /\ UNCHANGED <<callVars, searchVars, files, copyVars>>

\* A mkdir may be refused for other reasons than that there is something.
Mkdir(c) ==
  /\ job = "mkdirs" /\ making[c].at = "mkdir"
  /\ \/ /\ Prefix(c) \notin dirs \cup files /\ Front(Prefix(c)) \in dirs
        /\ dirs' = dirs \cup {Prefix(c)} /\ Proceeds(c)
     \/ /\ Prefix(c) \in dirs \cup files
        /\ making' = [making EXCEPT ![c].at = "exists"] /\ UNCHANGED dirs
     \/ GivesUp(c, "refused") /\ UNCHANGED dirs
  /\ UNCHANGED <<callVars, searchVars, files, copyVars>>

Exists(c) ==
  /\ job = "mkdirs" /\ making[c].at = "exists"
  /\ \/ IF Prefix(c) \in dirs THEN Proceeds(c) ELSE GivesUp(c, "none")
     \/ GivesUp(c, "refused")
  /\ UNCHANGED <<callVars, searchVars, dirs, files, copyVars>>

-----------------------------------------------------------------------------
(* yc_fs_read_all and yc_fs_write_all. *)

Fails(why) == Returns(None) /\ handles' = 0 /\ strings' = 0 /\ cause' = why

OpenToRead ==
  /\ job = "read" /\ at = "call"
  /\ \/ content = None /\ Returns(None) /\ UNCHANGED <<handles, strings, cap, cause>>
     \/ content # None /\ (\E why \in {"refused", "memory"} : Fails(why)) /\ UNCHANGED cap
     \/ /\ content # None
        /\ Goes("copy") /\ handles' = 1 /\ strings' = 1 /\ cap' = 2 /\ UNCHANGED cause
  /\ UNCHANGED <<job, searchVars, makeVars, content, old, data, len>>

GrowBuffer ==
  /\ job = "read" /\ at = "copy" /\ len = cap
  /\ \/ cap' = 2 * cap /\ UNCHANGED <<at, found, handles, strings, cause>>
     \/ Fails("memory") /\ UNCHANGED cap
  /\ UNCHANGED <<job, searchVars, makeVars, content, old, data, len>>

\* At the end the bytes move into a block of the runtime.
ReadSome ==
  /\ job = "read" /\ at = "copy" /\ len < cap
  /\ \/ /\ \E n \in 1 .. cap - len : len + n <= content /\ len' = len + n
        /\ UNCHANGED <<at, found, handles, strings, cause>>
     \/ Fails("unread") /\ UNCHANGED len
     \/ len = content /\ Fails("memory") /\ UNCHANGED len
     \/ /\ len = content /\ Returns(len) /\ handles' = 0 /\ strings' = 0
        /\ UNCHANGED <<len, cause>>
  /\ UNCHANGED <<job, searchVars, makeVars, content, old, data, cap>>

OpenToWrite ==
  /\ job \in {"write", "append"} /\ at = "call"
  /\ \/ Returns(FALSE) /\ UNCHANGED <<content, handles>>
     \/ /\ Goes("copy") /\ handles' = 1
        /\ content' = IF job = "append" /\ content # None THEN content ELSE 0
  /\ UNCHANGED <<job, strings, cause, searchVars, makeVars, old, data, len, cap>>

\* fwrite may take less than it is given, and fclose may fail.
WriteSome ==
  /\ job \in {"write", "append"} /\ at = "copy"
  /\ \/ /\ len < data
        /\ \E n \in 1 .. data - len : len' = len + n /\ content' = content + n
        /\ UNCHANGED <<at, found, handles>>
     \/ /\ handles' = 0 /\ \E whole \in {FALSE, len = data} : Returns(whole)
        /\ UNCHANGED <<len, content>>
  /\ UNCHANGED <<job, strings, cause, searchVars, makeVars, old, data, cap>>

-----------------------------------------------------------------------------
FilesStart(kind) ==
  /\ job = kind /\ at = "call" /\ handles = 0 /\ strings = 0 /\ cause = "none" /\ found = None
  /\ frames = <<>> /\ visited = {} /\ list = <<>> /\ ok = TRUE
  /\ dirs = {<<>>} /\ making = [c \in DOMAIN Places |-> [at |-> "call", depth |-> 0, why |-> "none"]]
  /\ len = 0 /\ cap = 0
  /\ IF kind = "search" THEN fs \in Searches ELSE fs = None
  /\ IF kind = "mkdirs" THEN files \in Obstacles ELSE files = {}
  /\ IF kind \in {"read", "write", "append"} THEN content \in Data \cup {None} /\ data \in Data
     ELSE content = None /\ data = 0
  /\ old = content
FilesOff  == FilesStart("off")
FilesInit == \E kind \in {"search", "mkdirs", "read", "write", "append"} : FilesStart(kind)

SearchNext == Search \/ Entry \/ Close \/ Collected
CopyNext   == OpenToRead \/ GrowBuffer \/ ReadSome \/ OpenToWrite \/ WriteSome
FilesNext  == SearchNext \/ CopyNext \/ \E c \in DOMAIN Places : CopyPath(c) \/ Mkdir(c) \/ Exists(c)
=============================================================================

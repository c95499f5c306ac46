--------------------------- MODULE RuntimeHelpers ---------------------------
(* The helpers of the managed runtime together: a behaviour is one call of one of them, with
   the child process or the other compilers it runs beside. *)
EXTENDS RuntimeFiles, RuntimeProcess

vars == <<processVars, fileVars>>

Init == \/ ProcessInit /\ FilesOff
        \/ ProcessOff /\ FilesInit
OfProcess == CallerNext /\ UNCHANGED fileVars
OfChild   == ChildNext /\ UNCHANGED fileVars
OfFiles   == FilesNext /\ UNCHANGED processVars
Next == OfProcess \/ OfChild \/ OfFiles

\* The caller and the programs it starts run on; those programs end when they can write.
Spec == Init /\ [][Next]_vars /\ WF_vars(OfProcess) /\ WF_vars(OfChild) /\ WF_vars(OfFiles)

-----------------------------------------------------------------------------
Called == pc = "returned" \/ at = "returned"

\* Whichever allocation, pipe, fork, directory or file fails, a helper that has returned left
\* no descriptor open, no block allocated and no child unwaited for (yc_process_run,
\* yc_process_capture, yc_native_link, yc_fs_collect_yc_files, yc_fs_read_all,
\* yc_fs_write_all).
NothingLeft ==
  Called => /\ held = {} /\ child.state \in {"none", "reaped"}
            /\ handles = 0 /\ strings = 0 /\ frames = <<>>

\* The directories of a file system that links lead to from its root: the least set that has
\* the root and is closed under them.
ClosedIn(s, S) ==
  /\ s.root \in S
  /\ \A d \in S : \A n \in DOMAIN s.dirs[d] : s.dirs[d][n] \in DOMAIN s.dirs => s.dirs[d][n] \in S
Reachable(s) == {d \in DOMAIN s.dirs : \A S \in SUBSET DOMAIN s.dirs : ClosedIn(s, S) => d \in S}
SourcesIn(s, S) ==
  UNION {{<<d, n>> : n \in {m \in DOMAIN s.dirs[d] : s.dirs[d][m] = "source"}} : d \in S}

\* The directory a path leads to from the root, and the file it is the name of.
LeadsTo(s, path, dir) ==
  \E way \in [0 .. Len(path) -> DOMAIN s.dirs] :
    /\ way[0] = s.root /\ way[Len(path)] = dir
    /\ \A i \in 1 .. Len(path) : /\ path[i] \in DOMAIN s.dirs[way[i - 1]]
                                 /\ way[i] = s.dirs[way[i - 1]][path[i]]
FileAt(s, path) == <<CHOOSE dir \in DOMAIN s.dirs : LeadsTo(s, Front(path), dir), Last(path)>>

Launched == IF call.op = "link" THEN LinkArguments ELSE call.args

\* What a program helper returns is what the child did (yc_process_run, yc_process_capture,
\* yc_native_link): status 0 only if the program ran with just the arguments meant and ended
\* so, of a child that was waited for its own status, as text all it wrote.  With SIGCHLD
\* ignored there is no status to return.
ProgramsExact ==
  pc = "returned" /\ ~call.ignored =>
    /\ status = 0 => child.ran /\ child.end = 0 /\ child.argv = Launched
    /\ call.op = "run" /\ child.state = "reaped" => status = child.end
    /\ result # Null => result = child.wrote /\ status = child.end

\* A search lists every source file of every directory it can reach once, in the order of
\* their paths, whatever links lead round, and passes over no directory it may not read; it
\* fails only because memory or the opening of a directory did (yc_fs_collect_yc_files).
SearchExact ==
  job = "search" /\ at = "returned" =>
    /\ found # None => /\ {FileAt(fs, found[i]) : i \in DOMAIN found} = SourcesIn(fs, Reachable(fs))
                       /\ Len(found) = Cardinality(SourcesIn(fs, Reachable(fs)))
                       /\ \A i \in 2 .. Len(found) : Before(found[i - 1], found[i])
                       /\ cause = "none" /\ Reachable(fs) \cap fs.closed = {}
    /\ found = None => cause # "none" \/ ~IsDir(fs.root) \/ Reachable(fs) \cap fs.closed # {}

\* A file is read whole unless it is missing or memory, its opening or a read fails, and no
\* such failure is passed over (yc_fs_read_all); one written is what it was given, after what
\* it held when that is kept, or the call fails (yc_fs_write_all).
CopiesExact ==
  /\ job = "read" /\ at = "returned" => found = IF cause = "none" THEN content ELSE None
  /\ job = "write" /\ found = TRUE => content = data
  /\ job = "append" /\ found = TRUE => content = data + (IF old = None THEN 0 ELSE old)

\* Of compilers that make the directories of their paths at once, one that succeeds has all
\* of them, and one fails only by its own malloc, a call the system refused it, or a file in
\* the way: never because another made a directory before it (yc_fs_create_dirs).
DirectoriesExact ==
  \A c \in DOMAIN Places :
    LET Upto(n) == SubSeq(Places[c], 1, n)
    IN  /\ making[c].at = "made" => \A n \in DOMAIN Places[c] : Upto(n) \in dirs
        /\ making[c].at = "failed" /\ making[c].why = "none" =>
             \E n \in DOMAIN Places[c] : Upto(n) \in files

FilesExact == CopiesExact /\ DirectoriesExact

\* Both: what a helper answers is what happened.
ResultsExact == ProgramsExact /\ FilesExact

\* Every call returns: the search although links lead round, the capture although the child
\* writes more than the pipe holds and the caller then waits for it, as long as the child ends.
CallsReturn == <>(Called \/ \A c \in DOMAIN Places : making[c].at \in {"made", "failed"})
=============================================================================

--------------------------- MODULE RuntimeProcess ---------------------------
(***************************************************************************)
(* The process helpers of the managed runtime (bootstrap/cpp/runtime/      *)
(* yc_runtime.c: yc_process_run, yc_process_capture, their packed forms    *)
(* and yc_native_link), by which the self-hosted compiler runs llc, clang  *)
(* and llvm-config, with the child they start.  Every allocation, the pipe *)
(* and the fork may fail; output is counted in blocks.                     *)
(***************************************************************************)
EXTENDS Naturals, Sequences, SequencesExt, TLC

CONSTANTS
  Calls,    \* calls made: what they do, their arguments, whether SIGCHLD is ignored
  PipeSize, \* blocks a pipe holds
  Output,   \* bound: blocks a child writes
  Null      \* NULL

\* yc_native_link has no packed form.
ASSUME LinkAssumption == \A c \in Calls : c.op = "link" => c.bytes = Null

VARIABLES
  call,     \* the call going on
  pc,       \* where it is
  argv,     \* arguments for the program it is about to start
  held,     \* what it has allocated and opened
  child,    \* the process it started last
  pipe,     \* blocks in the pipe
  got, room,\* blocks read, blocks the buffer has room for
  exit,     \* the status of the part under way
  status,   \* what it returned
  result    \* the text it returned, as a number of blocks

processVars == <<call, pc, argv, held, child, pipe, got, room, exit, status, result>>

NoChild == [state |-> "none", argv |-> <<>>, wrote |-> 0, ran |-> FALSE, end |-> 0]

\* yc_unpack_argv: strings each closed by a NUL.
Unpacked(bytes) ==
  LET Read(r, b) == IF b = "NUL" THEN [all |-> Append(r.all, r.word), word |-> ""]
                    ELSE [r EXCEPT !.word = @ \o b]
      r == FoldLeft(Read, [all |-> <<>>, word |-> ""], bytes)
  IN  IF r.word # "" THEN Null ELSE r.all

\* yc_arg_vector_push: a vector of copies; that one of them fails is in LinkWords.
Pushed(all, word) == Append(all, word)

\* yc_arg_vector_push_words: words between blanks.
Words(text) ==
  LET Read(r, b) == IF b \notin {" ", "\n"} THEN [r EXCEPT !.word = @ \o b]
                    ELSE IF r.word = "" THEN r
                    ELSE [all |-> Pushed(r.all, r.word), word |-> ""]
  IN  FoldLeft(Read, [all |-> <<>>, word |-> ""], Append(text, " ")).all
LinkArguments == Pushed(Words(call.linkflags) \o <<"object", "runtime", "-o", "output">>
                        \o Words(call.flags), "-lm")

Configuring == call.op = "link" /\ "flags" \notin held
Capturing   == call.op = "capture" \/ Configuring

-----------------------------------------------------------------------------
ProcessOff ==
  /\ call = Null /\ pc = "off" /\ argv = <<>> /\ held = {} /\ child = NoChild /\ pipe = 0
  /\ got = 0 /\ room = 0 /\ exit = 0 /\ status = Null /\ result = Null
ProcessInit ==
  /\ call \in Calls /\ pc = "call" /\ argv = <<>> /\ held = {} /\ child = NoChild /\ pipe = 0
  /\ got = 0 /\ room = 0 /\ exit = 0 /\ status = Null /\ result = Null

Return(code, text, kept) ==
  /\ pc' = "returned" /\ status' = code /\ result' = text /\ held' = kept

\* The end of yc_process_run or yc_process_capture, in the call that made it.
Leave(code, text, kept) ==
  IF ~Configuring
  THEN Return(code, text, kept \ {"packed", "words", "flags"})
  ELSE IF code # 0 \/ text = Null THEN Return(IF code = 0 THEN 127 ELSE code, Null, kept)
  ELSE pc' = "words" /\ held' = kept \cup {"flags"} /\ UNCHANGED <<status, result>>

Goto(label, kept) == pc' = label /\ held' = kept /\ UNCHANGED <<status, result>>

Call ==
  /\ pc = "call"
  /\ LET given == IF call.bytes = Null THEN call.args ELSE Unpacked(call.bytes)
     IN  \/ /\ given # Null
            /\ argv' = given
            /\ Goto("enter", IF call.bytes = Null THEN {} ELSE {"packed"})
         \/ call.bytes # Null /\ Return(127, Null, {}) /\ UNCHANGED argv
  /\ UNCHANGED <<call, child, pipe, got, room, exit>>

Enter ==
  /\ pc = "enter"
  /\ \/ ~Capturing /\ Goto("argv", held)
     \/ Capturing /\ Goto("argv", held \cup {"read", "write"})
     \/ Capturing /\ Leave(127, Null, held)
  /\ child' = NoChild /\ pipe' = 0 /\ got' = 0
  /\ UNCHANGED <<call, argv, room, exit>>

MakeArgv ==
  /\ pc = "argv"
  /\ \/ Goto("fork", held \cup {"argv"})
     \/ Leave(127, Null, held \ {"read", "write"})
  /\ UNCHANGED <<call, argv, child, pipe, got, room, exit>>

Fork ==
  /\ pc = "fork"
  /\ \/ /\ child' = [NoChild EXCEPT !.state = "forked", !.argv = argv]
        /\ Goto(IF Capturing THEN "buffer" ELSE "wait", held \ {"argv", "write"})
     \/ Leave(127, Null, held \ {"argv", "read", "write"}) /\ UNCHANGED child
  /\ UNCHANGED <<call, argv, pipe, got, room, exit>>

\* A slip: the pipe stays open when there is no memory for the output.
LeakingBuffer ==
  /\ pc = "buffer"
  /\ \/ Goto("read", held \cup {"buffer"}) /\ room' = 2
     \/ Goto("abandon", held) /\ UNCHANGED room
  /\ UNCHANGED <<call, argv, child, pipe, got, exit>>

Buffer ==
  /\ pc = "buffer"
  /\ \/ Goto("read", held \cup {"buffer"}) /\ room' = 2
     \/ Goto("abandon", held \ {"read"}) /\ UNCHANGED room
  /\ UNCHANGED <<call, argv, child, pipe, got, exit>>

Grow ==
  /\ pc = "read" /\ got = room
  /\ \/ room' = 2 * room /\ UNCHANGED <<pc, held, status, result>>
     \/ Goto("abandon", held \ {"buffer", "read"}) /\ UNCHANGED room
  /\ UNCHANGED <<call, argv, child, pipe, got, exit>>

\* A slip: the child is waited for before its output is read.
LateTake ==
  /\ pc = "read" /\ got < room /\ pipe > 0 /\ child.state = "exited"
  /\ \E n \in 1 .. pipe : n <= room - got /\ got' = got + n /\ pipe' = pipe - n
  /\ UNCHANGED <<call, pc, argv, held, child, room, exit, status, result>>

Take ==
  /\ pc = "read" /\ got < room /\ pipe > 0
  /\ \E n \in 1 .. pipe : n <= room - got /\ got' = got + n /\ pipe' = pipe - n
  /\ UNCHANGED <<call, pc, argv, held, child, room, exit, status, result>>

\* A slip: a read of less than was asked for is taken for the end.
HastyEndOfFile ==
  /\ pc = "read" /\ got < room /\ "write" \notin held
  /\ Goto("wait", held \ {"read"})
  /\ UNCHANGED <<call, argv, child, pipe, got, room, exit>>

\* read returns 0 when nobody is left to write.
EndOfFile ==
  /\ pc = "read" /\ got < room /\ pipe = 0
  /\ "write" \notin held /\ child.state = "exited"
  /\ Goto("wait", held \ {"read"})
  /\ UNCHANGED <<call, argv, child, pipe, got, room, exit>>

\* waitpid; with SIGCHLD ignored the child leaves no status and the call fails.
Wait ==
  /\ pc = "wait" /\ child.state = "exited"
  /\ child' = [child EXCEPT !.state = "reaped"]
  /\ LET code == CASE ~call.ignored -> child.end
                   [] call.ignored /\ Capturing -> 0
                   [] OTHER -> 127
     IN  IF Capturing THEN exit' = code /\ Goto("text", held)
         ELSE Leave(code, Null, held) /\ UNCHANGED exit
  /\ UNCHANGED <<call, argv, pipe, got, room>>

\* Out of memory: the child is waited for all the same.
Abandon ==
  /\ pc = "abandon" /\ child.state = "exited"
  /\ child' = [child EXCEPT !.state = "reaped"]
  /\ Leave(127, Null, held)
  /\ UNCHANGED <<call, argv, pipe, got, room, exit>>

Text ==
  /\ pc = "text"
  /\ \E text \in {got, Null} : Leave(exit, text, held \ {"buffer"})
  /\ UNCHANGED <<call, argv, child, pipe, got, room, exit>>

LinkWords ==
  /\ pc = "words"
  /\ \/ argv' = LinkArguments /\ Goto("enter", held \cup {"words"})
     \/ Return(127, Null, held \ {"flags"}) /\ UNCHANGED argv
  /\ UNCHANGED <<call, child, pipe, got, room, exit>>

CallerNext == \/ Call \/ Enter \/ MakeArgv \/ Fork \/ Buffer \/ Grow \/ Take \/ EndOfFile
              \/ Wait \/ Abandon \/ Text \/ LinkWords

-----------------------------------------------------------------------------
(* The child. *)

Ends(code) == child' = [child EXCEPT !.state = "exited", !.end = code] /\ UNCHANGED pipe

\* dup2 and execvp.
ChildStarts ==
  /\ child.state = "forked"
  /\ \/ child' = [child EXCEPT !.state = "running", !.ran = TRUE] /\ UNCHANGED pipe
     \/ Ends(127)
\* Its write waits for room in the pipe, and kills it when nobody is left to read.
ChildWrites ==
  /\ child.state = "running" /\ Capturing /\ child.wrote < Output
  /\ child' = [child EXCEPT !.state = "writing"] /\ UNCHANGED pipe
ChildWrote ==
  /\ child.state = "writing"
  /\ \/ /\ "read" \in held /\ pipe < PipeSize
        /\ pipe' = pipe + 1
        /\ child' = [child EXCEPT !.state = "running", !.wrote = @ + 1]
     \/ "read" \notin held /\ Ends(141)
ChildEnds == child.state = "running" /\ \E code \in {0, 1, 137} : Ends(code)

ChildNext ==
  /\ ChildStarts \/ ChildWrites \/ ChildWrote \/ ChildEnds
  /\ UNCHANGED <<call, pc, argv, held, got, room, exit, status, result>>
=============================================================================

------------------------ MODULE RuntimeHelpersProofs ------------------------
(***************************************************************************)
(* Proofs about RuntimeHelpers, for every file system, every call, every   *)
(* size of pipe, output and file, and every set of compilers.              *)
(*                                                                         *)
(* The argument: where a call is tells what it holds.  A program helper    *)
(* holds what its part has opened since it began and what the call around  *)
(* it keeps, and has a child from the fork on until it has waited; a       *)
(* search has one open directory and one block for each frame, and a block *)
(* for each path listed.  What the child wrote is in the buffer or in the  *)
(* pipe, and the pipe is empty when the end is read.                       *)
(*                                                                         *)
(* A search: each open directory was entered once, by a path that leads to *)
(* it, and every name of a directory seen is still to be looked at, or     *)
(* what it leads to is known or listed.  When no directory is open, the    *)
(* directories seen are closed under links and so are all there are.       *)
(***************************************************************************)
EXTENDS RuntimeHelpers, SequenceTheorems, FiniteSetTheorems, WellFoundedInduction, TLAPS

(* The program helpers. *)

\* What the call around a part keeps, and what the part itself holds.
Kept == held \cap {"packed", "flags", "words"}
Part == held \ {"packed", "flags", "words"}

Capturings == {"buffer", "read", "abandon", "text"}
Parts == Capturings \cup {"enter", "argv", "fork", "wait"}

KeptExact ==
  /\ pc \in Parts \cup {"off", "call", "words", "returned"}
  /\ pc \in {"off", "call", "returned"} => Kept = {}
  /\ pc = "words" => call.op = "link" /\ Kept = {"flags"}
  /\ pc \in Parts => IF call.op = "link" THEN Kept \in {{}, {"flags", "words"}}
                     ELSE Kept \subseteq {"packed"}
  /\ pc # "off" => call \in Calls

PartExact ==
  /\ pc \in {"off", "call", "enter", "abandon", "words", "returned"} => Part = {}
  /\ pc = "argv"   => Part = IF Capturing THEN {"read", "write"} ELSE {}
  /\ pc = "fork"   => Part = IF Capturing THEN {"argv", "read", "write"} ELSE {"argv"}
  /\ pc = "buffer" => Part = {"read"}
  /\ pc = "read"   => Part = {"read", "buffer"}
  /\ pc = "wait"   => Part = IF Capturing THEN {"buffer"} ELSE {}
  /\ pc = "text"   => Part = {"buffer"}
  /\ pc \in Capturings => Capturing

\* There is a child to wait for from the fork on, until it was waited for.
ChildExact ==
  /\ DOMAIN child = {"state", "argv", "wrote", "ran", "end"}
  /\ pc \in {"off", "call", "argv", "fork"} => child = NoChild
  /\ pc \in {"enter", "words", "returned"} => child.state \in {"none", "reaped"}
  /\ pc = "text" => child.state = "reaped"
  /\ pc \in {"buffer", "read", "abandon", "wait"} =>
       child.state \in {"forked", "running", "writing", "exited"}
  /\ pc = "wait" /\ Capturing => child.state = "exited"

\* What the child wrote has been read or is in the pipe.
OutputExact ==
  /\ child.wrote \in Nat /\ got \in Nat /\ pipe \in Nat
  /\ pc \in {"argv", "fork", "buffer", "read"} => child.wrote = got + pipe
  /\ pc \in {"wait", "text"} /\ Capturing => got = child.wrote

\* The program is started with what the caller meant,
ArgvExact ==
  /\ pc \in Parts =>
       IF "flags" \in held THEN argv = LinkArguments
       ELSE IF call.bytes = Null THEN argv = call.args
       ELSE argv # Null /\ argv = Unpacked(call.bytes)
  /\ pc \in {"buffer", "read", "abandon", "wait", "text"} => child.argv = argv

\* and ended as it is told to have.
EndExact ==
  /\ child.state \in {"running", "writing"} => child.ran
  /\ child.state \in {"exited", "reaped"} /\ child.end = 0 => child.ran
  /\ pc = "text" /\ ~call.ignored => exit = child.end

\* A packed form carries the arguments, or is refused.
PackedRight == \A c \in Calls : c.bytes # Null => Unpacked(c.bytes) \in {c.args, Null}

ProcessInv ==
  /\ KeptExact /\ PartExact /\ ChildExact /\ OutputExact /\ ArgvExact
  /\ EndExact
  /\ PackedRight => ProgramsExact

LEMMA SameLink == call' = call => LinkArguments' = LinkArguments
BY DEF LinkArguments

LEMMA CallHolds == ProcessInv /\ Call => ProcessInv'
<1> SUFFICES ASSUME ProcessInv, Call PROVE ProcessInv'
  OBVIOUS
<1> USE DEF Kept, Part, Parts, Capturings, Configuring, Capturing, Goto, Return, Call
<1>1. KeptExact'
  BY LinkAssumption DEF ProcessInv, KeptExact
<1>2. PartExact'
  BY DEF PartExact
<1>3. ChildExact'
  BY DEF ProcessInv, ChildExact, NoChild
<1>4. OutputExact'
  BY DEF ProcessInv, OutputExact
<1>5. ArgvExact'
  BY DEF ArgvExact
<1>6. EndExact'
  BY DEF ProcessInv, EndExact
<1>7. (PackedRight => ProgramsExact)'
  BY DEF ProcessInv, ProgramsExact, ChildExact, NoChild
<1> QED
  BY <1>1, <1>2, <1>3, <1>4, <1>5, <1>6, <1>7 DEF ProcessInv

LEMMA EnterHolds == ProcessInv /\ Enter => ProcessInv'
<1> SUFFICES ASSUME ProcessInv, Enter PROVE ProcessInv'
  OBVIOUS
<1> USE DEF Kept, Part, Parts, Capturings, Configuring, Capturing, Goto, Leave, Return, Enter
<1>1. KeptExact'
  BY DEF ProcessInv, KeptExact
<1>2. PartExact'
  BY DEF ProcessInv, PartExact
<1>3. ChildExact'
  BY DEF ChildExact, NoChild
<1>4. OutputExact'
  BY DEF OutputExact, NoChild
<1>5. ArgvExact'
  BY SameLink DEF ProcessInv, ArgvExact
<1>6. EndExact'
  BY DEF EndExact, NoChild
<1>7. (PackedRight => ProgramsExact)'
  BY DEF ProgramsExact
<1> QED
  BY <1>1, <1>2, <1>3, <1>4, <1>5, <1>6, <1>7 DEF ProcessInv

LEMMA MakeArgvHolds == ProcessInv /\ MakeArgv => ProcessInv'
<1> SUFFICES ASSUME ProcessInv, MakeArgv PROVE ProcessInv'
  OBVIOUS
<1> USE DEF Kept, Part, Parts, Capturings, Configuring, Capturing, Goto, Leave, Return, MakeArgv
<1>1. KeptExact'
  BY DEF ProcessInv, KeptExact
<1>2. PartExact'
  BY DEF ProcessInv, PartExact
<1>3. ChildExact'
  BY DEF ProcessInv, ChildExact, NoChild
<1>4. OutputExact'
  BY DEF ProcessInv, OutputExact
<1>5. ArgvExact'
  BY SameLink DEF ProcessInv, ArgvExact
<1>6. EndExact'
  BY DEF ProcessInv, EndExact
<1>7. (PackedRight => ProgramsExact)'
  BY DEF ProcessInv, ProgramsExact, ChildExact, NoChild
<1> QED
  BY <1>1, <1>2, <1>3, <1>4, <1>5, <1>6, <1>7 DEF ProcessInv

LEMMA ForkHolds == ProcessInv /\ Fork => ProcessInv'
<1> SUFFICES ASSUME ProcessInv, Fork PROVE ProcessInv'
  OBVIOUS
<1> USE DEF Kept, Part, Parts, Capturings, Configuring, Capturing, Goto, Leave, Return, Fork
<1>a. child = NoChild /\ child.wrote = 0 /\ child.state = "none"
  BY DEF ProcessInv, ChildExact, NoChild
<1>b. \/ child' = child /\ pc' = "returned"
      \/ child' = [NoChild EXCEPT !.state = "forked", !.argv = argv]
  OBVIOUS
<1>0. /\ child = NoChild /\ child.wrote = 0 /\ child.state = "none"
      /\ \/ child' = NoChild /\ pc' = "returned"
         \/ /\ DOMAIN child' = {"state", "argv", "wrote", "ran", "end"}
            /\ child'.state = "forked" /\ child'.argv = argv /\ child'.wrote = 0
  <2>1. CASE child' = child /\ pc' = "returned"
    BY <1>a, <2>1
  <2>2. CASE child' = [NoChild EXCEPT !.state = "forked", !.argv = argv]
    BY <1>a DEF NoChild
  <2> QED
    BY <1>b, <2>1, <2>2
<1>1. KeptExact'
  BY DEF ProcessInv, KeptExact
<1>2. PartExact'
  BY DEF ProcessInv, PartExact
<1>3. ChildExact'
  BY <1>0 DEF ChildExact, NoChild
<1>4. OutputExact'
  BY <1>0 DEF ProcessInv, OutputExact
<1>5. ArgvExact'
  BY <1>0, SameLink DEF ProcessInv, ArgvExact
<1>6. EndExact'
  BY <1>0 DEF EndExact
<1>7. (PackedRight => ProgramsExact)'
  BY <1>0 DEF ProgramsExact
<1> QED
  BY <1>1, <1>2, <1>3, <1>4, <1>5, <1>6, <1>7 DEF ProcessInv

LEMMA BufferHolds == ProcessInv /\ Buffer => ProcessInv'
<1> SUFFICES ASSUME ProcessInv, Buffer PROVE ProcessInv'
  OBVIOUS
<1> USE DEF Kept, Part, Parts, Capturings, Configuring, Capturing, Goto, Buffer
<1>1. KeptExact'
  BY DEF ProcessInv, KeptExact
<1>2. PartExact'
  BY DEF ProcessInv, PartExact
<1>3. ChildExact'
  BY DEF ProcessInv, ChildExact
<1>4. OutputExact'
  BY DEF ProcessInv, OutputExact
<1>5. ArgvExact'
  BY SameLink DEF ProcessInv, ArgvExact
<1>6. EndExact'
  BY DEF ProcessInv, EndExact
<1>7. (PackedRight => ProgramsExact)'
  BY DEF ProgramsExact
<1> QED
  BY <1>1, <1>2, <1>3, <1>4, <1>5, <1>6, <1>7 DEF ProcessInv

LEMMA GrowHolds == ProcessInv /\ Grow => ProcessInv'
<1> SUFFICES ASSUME ProcessInv, Grow PROVE ProcessInv'
  OBVIOUS
<1> USE DEF Kept, Part, Parts, Capturings, Configuring, Capturing, Goto, Grow
<1>1. KeptExact'
  BY DEF ProcessInv, KeptExact
<1>2. PartExact'
  BY DEF ProcessInv, PartExact
<1>3. ChildExact'
  BY DEF ProcessInv, ChildExact
<1>4. OutputExact'
  BY DEF ProcessInv, OutputExact
<1>5. ArgvExact'
  BY SameLink DEF ProcessInv, ArgvExact
<1>6. EndExact'
  BY DEF ProcessInv, EndExact
<1>7. (PackedRight => ProgramsExact)'
  BY DEF ProgramsExact
<1> QED
  BY <1>1, <1>2, <1>3, <1>4, <1>5, <1>6, <1>7 DEF ProcessInv

LEMMA TakeHolds == ProcessInv /\ Take => ProcessInv'
<1> SUFFICES ASSUME ProcessInv, Take PROVE ProcessInv'
  OBVIOUS
<1> USE DEF Kept, Part, Parts, Capturings, Configuring, Capturing, Goto, Take
<1>1. KeptExact'
  BY DEF ProcessInv, KeptExact
<1>2. PartExact'
  BY DEF ProcessInv, PartExact
<1>3. ChildExact'
  BY DEF ProcessInv, ChildExact
<1>4. OutputExact'
  BY DEF ProcessInv, OutputExact
<1>5. ArgvExact'
  BY SameLink DEF ProcessInv, ArgvExact
<1>6. EndExact'
  BY DEF ProcessInv, EndExact
<1>7. (PackedRight => ProgramsExact)'
  BY DEF ProgramsExact
<1> QED
  BY <1>1, <1>2, <1>3, <1>4, <1>5, <1>6, <1>7 DEF ProcessInv

LEMMA EndOfFileHolds == ProcessInv /\ EndOfFile => ProcessInv'
<1> SUFFICES ASSUME ProcessInv, EndOfFile PROVE ProcessInv'
  OBVIOUS
<1> USE DEF Kept, Part, Parts, Capturings, Configuring, Capturing, Goto, EndOfFile
<1>1. KeptExact'
  BY DEF ProcessInv, KeptExact
<1>2. PartExact'
  BY DEF ProcessInv, PartExact
<1>3. ChildExact'
  BY DEF ProcessInv, ChildExact
<1>4. OutputExact'
  BY DEF ProcessInv, OutputExact
<1>5. ArgvExact'
  BY SameLink DEF ProcessInv, ArgvExact
<1>6. EndExact'
  BY DEF ProcessInv, EndExact
<1>7. (PackedRight => ProgramsExact)'
  BY DEF ProgramsExact
<1> QED
  BY <1>1, <1>2, <1>3, <1>4, <1>5, <1>6, <1>7 DEF ProcessInv

LEMMA WaitHolds == ProcessInv /\ Wait => ProcessInv'
<1> SUFFICES ASSUME ProcessInv, Wait PROVE ProcessInv'
  OBVIOUS
<1> USE DEF Kept, Part, Parts, Capturings, Configuring, Capturing, Goto, Leave, Return, Wait
<1>1. KeptExact'
  BY DEF ProcessInv, KeptExact
<1>2. PartExact'
  BY DEF ProcessInv, PartExact
<1>3. ChildExact'
  BY DEF ProcessInv, ChildExact
<1>4. OutputExact'
  BY DEF ProcessInv, OutputExact
<1>5. ArgvExact'
  BY SameLink DEF ProcessInv, ArgvExact
<1>6. EndExact'
  BY DEF ProcessInv, EndExact
<1>7. (PackedRight => ProgramsExact)'
  BY SameLink DEF ProcessInv, ProgramsExact, ArgvExact, EndExact, KeptExact, PackedRight, Launched
<1> QED
  BY <1>1, <1>2, <1>3, <1>4, <1>5, <1>6, <1>7 DEF ProcessInv

LEMMA AbandonHolds == ProcessInv /\ Abandon => ProcessInv'
<1> SUFFICES ASSUME ProcessInv, Abandon PROVE ProcessInv'
  OBVIOUS
<1> USE DEF Kept, Part, Parts, Capturings, Configuring, Capturing, Goto, Leave, Return, Abandon
<1>1. KeptExact'
  BY DEF ProcessInv, KeptExact
<1>2. PartExact'
  BY DEF ProcessInv, PartExact
<1>3. ChildExact'
  BY DEF ProcessInv, ChildExact
<1>4. OutputExact'
  BY DEF ProcessInv, OutputExact
<1>5. ArgvExact'
  BY DEF ArgvExact
<1>6. EndExact'
  BY DEF ProcessInv, EndExact
<1>7. (PackedRight => ProgramsExact)'
  BY DEF ProcessInv, ProgramsExact, PartExact
<1> QED
  BY <1>1, <1>2, <1>3, <1>4, <1>5, <1>6, <1>7 DEF ProcessInv

LEMMA TextHolds == ProcessInv /\ Text => ProcessInv'
<1> SUFFICES ASSUME ProcessInv, Text PROVE ProcessInv'
  OBVIOUS
<1> USE DEF Kept, Part, Parts, Capturings, Configuring, Capturing, Goto, Leave, Return, Text
<1>1. KeptExact'
  BY DEF ProcessInv, KeptExact
<1>2. PartExact'
  BY DEF ProcessInv, PartExact
<1>3. ChildExact'
  BY DEF ProcessInv, ChildExact
<1>4. OutputExact'
  BY DEF ProcessInv, OutputExact
<1>5. ArgvExact'
  BY DEF ArgvExact
<1>6. EndExact'
  BY DEF ProcessInv, EndExact
<1>7. (PackedRight => ProgramsExact)'
  <2>1. CASE call.op = "link"
    BY <2>1 DEF ProcessInv, ProgramsExact, PartExact
  <2>2. CASE call.op # "link"
    <3>1. "flags" \notin held /\ child.argv = argv /\ got = child.wrote
      BY DEF ProcessInv, KeptExact, PartExact, OutputExact, ArgvExact
    <3>2. PackedRight => child.argv = Launched
      BY <2>2 DEF ProcessInv, ArgvExact, KeptExact, PackedRight, Launched
    <3>3. Launched' = Launched
      BY SameLink DEF Launched
    <3>4. ~call.ignored => exit = child.end /\ (exit = 0 => child.ran)
      BY DEF ProcessInv, EndExact, ChildExact
    <3>5. pc' = "returned" /\ status' = exit /\ (result' # Null => result' = got)
          /\ child' = child /\ call' = call /\ call.op # "run"
      BY <2>2 DEF ProcessInv, PartExact
    <3> QED
      BY <3>1, <3>2, <3>3, <3>4 DEF ProgramsExact
  <2> QED
    BY <2>1, <2>2
<1> QED
  BY <1>1, <1>2, <1>3, <1>4, <1>5, <1>6, <1>7 DEF ProcessInv

LEMMA LinkWordsHolds == ProcessInv /\ LinkWords => ProcessInv'
<1> SUFFICES ASSUME ProcessInv, LinkWords PROVE ProcessInv'
  OBVIOUS
<1> USE DEF Kept, Part, Parts, Capturings, Configuring, Capturing, Goto, Return, LinkWords
<1>1. KeptExact'
  BY DEF ProcessInv, KeptExact
<1>2. PartExact'
  BY DEF ProcessInv, PartExact
<1>3. ChildExact'
  BY DEF ProcessInv, ChildExact
<1>4. OutputExact'
  BY DEF ProcessInv, OutputExact
<1>5. ArgvExact'
  BY SameLink DEF ProcessInv, ArgvExact, KeptExact
<1>6. EndExact'
  BY DEF ProcessInv, EndExact
<1>7. (PackedRight => ProgramsExact)'
  BY DEF ProcessInv, ProgramsExact, KeptExact
<1> QED
  BY <1>1, <1>2, <1>3, <1>4, <1>5, <1>6, <1>7 DEF ProcessInv

LEMMA ChildHolds == ProcessInv /\ ChildNext => ProcessInv'
<1> SUFFICES ASSUME ProcessInv, ChildNext PROVE ProcessInv'
  OBVIOUS
<1> USE DEF Kept, Part, Parts, Capturings, Configuring, Capturing
<1>0. /\ pc \in {"buffer", "read", "abandon", "wait"}
      /\ child.state \in {"forked", "running", "writing"} /\ (Capturing => pc # "wait")
  BY DEF ProcessInv, ChildExact, KeptExact, NoChild, ChildNext, ChildStarts, ChildWrites,
         ChildWrote, ChildEnds
<1>1. KeptExact' /\ PartExact'
  BY DEF ProcessInv, KeptExact, PartExact, ChildNext
<1>2. (PackedRight => ProgramsExact)'
  BY <1>0 DEF ProcessInv, ProgramsExact, ChildNext
<1>3. SUFFICES ASSUME DOMAIN child = {"state", "argv", "wrote", "ran", "end"},
                      ChildExact, OutputExact, ArgvExact, EndExact
               PROVE  ChildExact' /\ OutputExact' /\ ArgvExact' /\ EndExact'
  BY <1>1, <1>2 DEF ProcessInv, ChildExact
<1>4. CASE ChildStarts
  <2>1. child'.wrote = child.wrote /\ child'.argv = child.argv /\ pipe' = pipe
        /\ DOMAIN child' = DOMAIN child /\ child'.state \in {"running", "exited"}
    BY <1>3, <1>4 DEF ChildStarts, Ends
  <2>2. CASE child' = [child EXCEPT !.state = "running", !.ran = TRUE]
    <3>1. child'.ran /\ child'.state = "running"
      BY <1>3, <2>2
    <3> QED
      BY <1>0, <1>3, <2>1, <3>1, SameLink
         DEF ChildNext, ChildExact, OutputExact, ArgvExact, EndExact
  <2>3. CASE Ends(127)
    <3>1. child'.end # 0 /\ child'.state = "exited"
      BY <1>3, <2>3 DEF Ends
    <3> QED
      BY <1>0, <1>3, <2>1, <3>1, SameLink
         DEF ChildNext, ChildExact, OutputExact, ArgvExact, EndExact
  <2> QED
    BY <1>4, <2>2, <2>3 DEF ChildStarts
<1>5. CASE ChildWrites
  <2>1. child'.wrote = child.wrote /\ child'.argv = child.argv /\ pipe' = pipe
        /\ DOMAIN child' = DOMAIN child /\ child'.state = "writing" /\ child.state = "running"
    BY <1>3, <1>5 DEF ChildWrites
  <2>2. child'.ran
    BY <1>3, <1>5 DEF ChildWrites, EndExact
  <2> QED
    BY <1>0, <1>3, <2>1, <2>2, SameLink
       DEF ChildNext, ChildExact, OutputExact, ArgvExact, EndExact
<1>6. CASE ChildWrote
  <2>1. CASE Ends(141)
    <3>1. /\ child'.wrote = child.wrote /\ child'.argv = child.argv /\ pipe' = pipe
          /\ DOMAIN child' = DOMAIN child /\ child'.state = "exited" /\ child'.end # 0
      BY <1>3, <2>1 DEF Ends
    <3> QED
      BY <1>0, <1>3, <3>1, SameLink
         DEF ChildNext, ChildExact, OutputExact, ArgvExact, EndExact
  <2>2. CASE ~Ends(141)
    <3>1. /\ child'.wrote = child.wrote + 1 /\ child'.argv = child.argv /\ pipe' = pipe + 1
          /\ DOMAIN child' = DOMAIN child /\ child'.state = "running"
      BY <1>3, <1>6, <2>2 DEF ChildWrote
    <3>2. child'.ran
      BY <1>3, <1>6, <2>2 DEF ChildWrote, EndExact
    <3> QED
      BY <1>0, <1>3, <3>1, <3>2, SameLink
         DEF ChildNext, ChildExact, OutputExact, ArgvExact, EndExact
  <2> QED
    BY <2>1, <2>2
<1>7. CASE ChildEnds
  <2>1. child'.wrote = child.wrote /\ child'.argv = child.argv /\ pipe' = pipe
        /\ DOMAIN child' = DOMAIN child /\ child'.state = "exited"
    BY <1>3, <1>7 DEF ChildEnds, Ends
  <2>2. child'.ran
    BY <1>3, <1>7 DEF ChildEnds, Ends, EndExact
  <2> QED
    BY <1>0, <1>3, <2>1, <2>2, SameLink
       DEF ChildNext, ChildExact, OutputExact, ArgvExact, EndExact
<1> QED
  BY <1>4, <1>5, <1>6, <1>7 DEF ChildNext

-----------------------------------------------------------------------------
(* The file helpers. *)

Dirs  == UNION {DOMAIN f.dirs : f \in Searches}
Names == UNION {UNION {DOMAIN f.dirs[d] : d \in DOMAIN f.dirs} : f \in Searches}
Walk  == [dir : Dirs, path : Seq(Names), left : SUBSET Names]

SearchHolds ==
  IF job = "search"
  THEN /\ fs \in Searches /\ frames \in Seq(Walk) /\ list \in Seq(Seq(Names))
       /\ at \in {"call", "walk", "returned"}
       /\ handles = Len(frames)
       /\ strings = Len(frames) + (IF at = "returned" THEN 0 ELSE Len(list))
       /\ at # "walk" => frames = <<>>
       /\ at = "call" => list = <<>>
  ELSE frames = <<>>

CopyHolds ==
  job # "search" =>
    /\ at # "copy" => handles = 0 /\ strings = 0
    /\ job # "read" => strings = 0
    /\ job \in {"off", "mkdirs"} => at = "call"

\* Nothing has failed before the call returns; what has been written comes after what was kept.
CopyExact ==
  /\ job = "read" => at \in {"call", "copy", "returned"} /\ (at # "returned" => cause = "none")
  /\ job \in {"write", "append"} =>
      LET kept == IF job = "append" /\ old # None THEN old ELSE 0
      IN  /\ kept \in Nat /\ data \in Nat /\ len \in 0 .. data
          /\ at \in {"call", "copy", "returned"}
          /\ at # "returned" => found = None
          /\ at = "call" => content = old /\ len = 0
          /\ at = "copy" => content = kept + len

\* A compiler is at a component of its path; what comes before it is made.
MakeExact ==
  /\ \A c \in DOMAIN Places :
       /\ DOMAIN making[c] = {"at", "depth", "why"} /\ making[c].depth \in Nat
       /\ making[c].depth <= Len(Places[c])
       /\ \A n \in 1 .. making[c].depth : SubSeq(Places[c], 1, n) \in dirs
       /\ making[c].at \in {"call", "mkdir", "exists"} => making[c].depth < Len(Places[c])
       /\ making[c].at = "exists" => Prefix(c) \in dirs \cup files
       /\ making[c].at = "made" => making[c].depth = Len(Places[c])
  /\ DOMAIN making = DOMAIN Places

FilesInv == SearchHolds /\ CopyHolds /\ CopyExact /\ MakeExact /\ FilesExact

OneCall == (pc = "off" \/ job = "off") /\ (job = "off" => at = "call")

IInv == ProcessInv /\ FilesInv /\ OneCall

LEMMA VisitHolds ==
  ASSUME NEW dir \in DOMAIN fs.dirs, NEW path \in Seq(Names), NEW below \in Seq(Walk),
         fs \in Searches, Visit(dir, path, below), handles \in Nat, strings \in Nat
  PROVE  /\ frames' \in Seq(Walk)
         /\ \E n \in {0, 1} : /\ Len(frames') = Len(below) + n
                             /\ handles' = handles + n /\ strings' = strings + n
<1>1. Frame(dir, path) \in Walk
  BY DEF Frame, Walk, Dirs, Names
<1>2. CASE frames' = below /\ UNCHANGED <<handles, strings>>
  BY <1>2
<1>3. CASE /\ frames' = Append(below, Frame(dir, path))
           /\ handles' = handles + 1 /\ strings' = strings + 1
  BY <1>1, <1>3
<1> QED
  BY <1>2, <1>3 DEF Visit

LEMMA SearchStarts == FilesInv /\ Search => FilesInv'
<1> SUFFICES ASSUME FilesInv, Search PROVE FilesInv'
  OBVIOUS
<1>1. /\ fs \in Searches /\ frames = <<>> /\ list = <<>> /\ handles = 0 /\ strings = 0
      /\ job = "search" /\ at = "call"
  BY DEF FilesInv, SearchHolds, Search
<1>2. SearchHolds'
  <2>1. CASE IsDir(fs.root) /\ Visit(fs.root, <<>>, <<>>)
    <3>1. <<>> \in Seq(Names) /\ <<>> \in Seq(Walk) /\ Len(<<>>) = 0 /\ fs.root \in DOMAIN fs.dirs
      BY <2>1 DEF IsDir
    <3>2. /\ frames' \in Seq(Walk)
          /\ \E n \in {0, 1} : /\ Len(frames') = Len(<<>>) + n
                              /\ handles' = handles + n /\ strings' = strings + n
      BY <1>1, <2>1, <3>1, VisitHolds
    <3>3. /\ handles' = Len(frames') /\ strings' = Len(frames')
          /\ list' = <<>> /\ at' = "walk" /\ job' = job /\ fs' = fs
      BY <1>1, <3>1, <3>2 DEF Search, Goes
    <3>4. list' \in Seq(Seq(Names)) /\ Len(list') = 0 /\ Len(frames') \in Nat
      BY <3>2, <3>3
    <3> QED
      BY <1>1, <3>2, <3>3, <3>4 DEF SearchHolds
  <2>2. CASE UNCHANGED <<frames, handles, strings>>
    BY <1>1, <2>2 DEF Search, SearchHolds, Goes
  <2> QED
    BY <2>1, <2>2 DEF Search
<1>3. CopyHolds' /\ CopyExact' /\ MakeExact' /\ FilesExact'
  BY <1>1 DEF FilesInv, CopyHolds, CopyExact, MakeExact, FilesExact, CopiesExact, DirectoriesExact, Search, Goes, Prefix, makeVars,
              copyVars
<1> QED
  BY <1>2, <1>3 DEF FilesInv

LEMMA EntryHolds == FilesInv /\ Entry => FilesInv'
<1> SUFFICES ASSUME FilesInv, Entry PROVE FilesInv'
  OBVIOUS
<1>1. /\ fs \in Searches /\ frames \in Seq(Walk) /\ list \in Seq(Seq(Names))
      /\ frames # <<>> /\ handles = Len(frames) /\ strings = Len(frames) + Len(list)
      /\ job = "search" /\ at = "walk"
  BY DEF FilesInv, SearchHolds, Entry
<1>2. SearchHolds'
  <2>1. PICK name \in Last(frames).left :
          LET target == fs.dirs[Last(frames).dir][name]
              path   == Append(Last(frames).path, name)
              rest   == [frames EXCEPT ![Len(frames)].left = @ \ {name}]
          IN  \/ frames' = rest /\ UNCHANGED <<list, handles, strings>>
              \/ IsDir(target) /\ Visit(target, path, rest) /\ UNCHANGED list
              \/ frames' = rest /\ Push(path) /\ UNCHANGED handles
    BY DEF Entry
  <2> DEFINE path == Append(Last(frames).path, name)
             rest == [frames EXCEPT ![Len(frames)].left = @ \ {name}]
             target == fs.dirs[Last(frames).dir][name]
  <2>2. Last(frames) \in Walk
    BY <1>1 DEF Last
  <2>3. path \in Seq(Names)
    BY <2>2 DEF Walk
  <2>4. rest \in Seq(Walk) /\ Len(rest) = Len(frames)
    BY <1>1, <2>2 DEF Last, Walk
  <2>5. /\ frames' \in Seq(Walk) /\ list' \in Seq(Seq(Names))
        /\ handles' = Len(frames') /\ strings' = Len(frames') + Len(list')
    <3>1. CASE frames' = rest /\ UNCHANGED <<list, handles, strings>>
      BY <3>1, <1>1, <2>4
    <3>2. CASE IsDir(target) /\ Visit(target, path, rest) /\ UNCHANGED list
      <4>1. target \in DOMAIN fs.dirs /\ Visit(target, path, rest)
        BY <3>2 DEF IsDir
      <4> HIDE DEF path, rest, target
      <4>2. /\ frames' \in Seq(Walk)
            /\ \E n \in {0, 1} : /\ Len(frames') = Len(rest) + n
                                /\ handles' = handles + n /\ strings' = strings + n
        BY <4>1, <1>1, <2>3, <2>4, VisitHolds
      <4>3. /\ Len(frames) \in Nat /\ Len(list) \in Nat /\ Len(rest) = Len(frames)
            /\ list' = list
        BY <3>2, <1>1, <2>4
      <4> QED
        BY <4>2, <4>3, <1>1
    <3>3. CASE frames' = rest /\ Push(path) /\ UNCHANGED handles
      <4> HIDE DEF path, rest
      <4> QED
        BY <3>3, <1>1, <2>3, <2>4 DEF Push
    <3> QED
      BY <2>1, <3>1, <3>2, <3>3
  <2> QED
    BY <1>1, <2>5 DEF SearchHolds, Entry
<1>3. CopyHolds' /\ CopyExact' /\ MakeExact' /\ FilesExact'
  BY <1>1 DEF FilesInv, CopyHolds, CopyExact, MakeExact, FilesExact, CopiesExact, DirectoriesExact, Entry, Prefix, makeVars,
              copyVars
<1> QED
  BY <1>2, <1>3 DEF FilesInv

LEMMA CloseHolds == FilesInv /\ Close => FilesInv'
<1> SUFFICES ASSUME FilesInv, Close PROVE FilesInv'
  OBVIOUS
<1>1. /\ frames \in Seq(Walk) /\ frames # <<>> /\ job = "search" /\ at = "walk"
  BY DEF FilesInv, SearchHolds, Close
<1>2. frames' \in Seq(Walk) /\ Len(frames') = Len(frames) - 1
  <2>1. \A i \in 1 .. Len(frames) - 1 : frames[i] \in Walk
    BY <1>1
  <2>2. Len(frames) \in Nat \ {0} /\ frames' = SubSeq(frames, 1, Len(frames) - 1)
    BY <1>1 DEF Close, Front
  <2> DEFINE n == Len(frames) - 1
  <2>3. n \in Int /\ n >= 0 /\ frames' = SubSeq(frames, 1, n)
    BY <2>2
  <2>4. SubSeq(frames, 1, n) \in Seq(Walk) /\ Len(SubSeq(frames, 1, n)) = IF 1 <= n THEN n ELSE 0
    <3> HIDE DEF n
    <3> QED
      BY <2>1, <2>3, SubSeqProperties DEF n
  <2>5. Len(frames) - 1 = n
    OBVIOUS
  <2> HIDE DEF n
  <2> QED
    BY <2>3, <2>4, <2>5
<1>3. SearchHolds'
  BY <1>1, <1>2 DEF FilesInv, SearchHolds, Close
<1>4. CopyHolds' /\ CopyExact' /\ MakeExact' /\ FilesExact'
  BY <1>1 DEF FilesInv, CopyHolds, CopyExact, MakeExact, FilesExact, CopiesExact, DirectoriesExact, Close, Prefix, makeVars,
              copyVars
<1> QED
  BY <1>3, <1>4 DEF FilesInv

LEMMA CollectedHolds == FilesInv /\ Collected => FilesInv'
<1> SUFFICES ASSUME FilesInv, Collected PROVE FilesInv'
  OBVIOUS
<1>1. job = "search" /\ at' = "returned" /\ handles' = handles /\ strings' = strings - Len(list)
  BY DEF Collected, Returns
<1>2. SearchHolds'
  BY <1>1 DEF FilesInv, SearchHolds, Collected, searchVars
<1>3. CopyHolds' /\ CopyExact' /\ MakeExact' /\ FilesExact'
  BY <1>1 DEF FilesInv, CopyHolds, CopyExact, MakeExact, FilesExact, CopiesExact, DirectoriesExact, Collected, Prefix, makeVars,
              copyVars
<1> QED
  BY <1>2, <1>3 DEF FilesInv

LEMMA OpenToReadHolds == FilesInv /\ OpenToRead => FilesInv'
<1> SUFFICES ASSUME FilesInv, OpenToRead PROVE FilesInv'
  OBVIOUS
<1> USE DEF OpenToRead, Fails, Goes, Returns, searchVars, makeVars
<1>1. SearchHolds' /\ MakeExact'
  BY DEF FilesInv, SearchHolds, MakeExact, Prefix
<1>2. CopyHolds'
  BY DEF FilesInv, CopyHolds
<1>3. CopyExact'
  BY NullAssumption DEF FilesInv, CopyExact
<1>4. FilesExact'
  BY NullAssumption DEF FilesInv, FilesExact, CopiesExact, DirectoriesExact, CopyExact
<1> QED
  BY <1>1, <1>2, <1>3, <1>4 DEF FilesInv

LEMMA GrowBufferHolds == FilesInv /\ GrowBuffer => FilesInv'
<1> SUFFICES ASSUME FilesInv, GrowBuffer PROVE FilesInv'
  OBVIOUS
<1> USE DEF GrowBuffer, Fails, Goes, Returns, searchVars, makeVars
<1>1. SearchHolds' /\ MakeExact'
  BY DEF FilesInv, SearchHolds, MakeExact, Prefix
<1>2. CopyHolds'
  BY DEF FilesInv, CopyHolds
<1>3. CopyExact'
  BY NullAssumption DEF FilesInv, CopyExact
<1>4. FilesExact'
  BY NullAssumption DEF FilesInv, FilesExact, CopiesExact, DirectoriesExact, CopyExact
<1> QED
  BY <1>1, <1>2, <1>3, <1>4 DEF FilesInv

LEMMA ReadSomeHolds == FilesInv /\ ReadSome => FilesInv'
<1> SUFFICES ASSUME FilesInv, ReadSome PROVE FilesInv'
  OBVIOUS
<1> USE DEF ReadSome, Fails, Goes, Returns, searchVars, makeVars
<1>1. SearchHolds' /\ MakeExact'
  BY DEF FilesInv, SearchHolds, MakeExact, Prefix
<1>2. CopyHolds'
  BY DEF FilesInv, CopyHolds
<1>3. CopyExact'
  BY NullAssumption DEF FilesInv, CopyExact
<1>4. FilesExact'
  BY NullAssumption DEF FilesInv, FilesExact, CopiesExact, DirectoriesExact, CopyExact
<1> QED
  BY <1>1, <1>2, <1>3, <1>4 DEF FilesInv

LEMMA OpenToWriteHolds == FilesInv /\ OpenToWrite => FilesInv'
<1> SUFFICES ASSUME FilesInv, OpenToWrite PROVE FilesInv'
  OBVIOUS
<1> USE DEF OpenToWrite, Goes, Returns, searchVars, makeVars
<1>1. SearchHolds' /\ MakeExact'
  BY DEF FilesInv, SearchHolds, MakeExact, Prefix
<1>2. CopyHolds'
  BY DEF FilesInv, CopyHolds
<1>3. CopyExact'
  BY NullAssumption DEF FilesInv, CopyExact
<1>4. FilesExact'
  BY NullAssumption DEF FilesInv, FilesExact, CopiesExact, DirectoriesExact, CopyExact
<1> QED
  BY <1>1, <1>2, <1>3, <1>4 DEF FilesInv

LEMMA WriteSomeHolds == FilesInv /\ WriteSome => FilesInv'
<1> SUFFICES ASSUME FilesInv, WriteSome PROVE FilesInv'
  OBVIOUS
<1> USE DEF WriteSome, Goes, Returns, searchVars, makeVars
<1>1. SearchHolds' /\ MakeExact'
  BY DEF FilesInv, SearchHolds, MakeExact, Prefix
<1>2. CopyHolds'
  BY DEF FilesInv, CopyHolds
<1>3. \/ /\ \E n \in 1 .. data - len : len' = len + n /\ content' = content + n
         /\ UNCHANGED <<at, found>>
      \/ UNCHANGED <<len, content>> /\ at' = "returned" /\ (found' = TRUE => len = data)
  <2>1. ASSUME NEW whole \in {FALSE, len = data}, found' = whole, found' = TRUE
        PROVE  len = data
    BY <2>1
  <2> QED
    BY <2>1
<1>4. CopyExact'
  BY <1>3 DEF FilesInv, CopyExact
<1>5. FilesExact'
  BY <1>3, NullAssumption DEF FilesInv, FilesExact, CopiesExact, DirectoriesExact, CopyExact
<1> QED
  BY <1>1, <1>2, <1>4, <1>5 DEF FilesInv

LEMMA ProceedsHolds ==
  ASSUME NEW c \in DOMAIN Places, MakeExact, making[c].at \in {"mkdir", "exists"}, Proceeds(c),
         Prefix(c) \in dirs', dirs \subseteq dirs', files' = files, FilesExact,
         UNCHANGED <<job, at, found, content, cause, data, old>>
  PROVE  MakeExact' /\ FilesExact'
<1> DEFINE next == making[c].depth + 1
<1>1. DOMAIN making[c] = {"at", "depth", "why"} /\ next \in Nat \ {0} /\ next <= Len(Places[c])
      /\ Places[c] \in Seq(STRING) /\ DOMAIN Places[c] = 1 .. Len(Places[c])
  BY PathsAssumption DEF MakeExact
<1>2. /\ making'[c].at = (IF next = Len(Places[c]) THEN "made" ELSE "mkdir")
      /\ making'[c].depth = next /\ DOMAIN making'[c] = {"at", "depth", "why"}
      /\ \A d \in DOMAIN Places \ {c} : making'[d] = making[d]
      /\ DOMAIN making' = DOMAIN Places
  BY <1>1 DEF Proceeds, MakeExact
<1>3. ASSUME NEW n \in 1 .. next
      PROVE  SubSeq(Places[c], 1, n) \in dirs'
  <2>1. CASE n = next
    BY <2>1 DEF Prefix
  <2>2. CASE n # next
    BY <1>1, <2>2 DEF MakeExact
  <2> QED
    BY <2>1, <2>2
<1>4. MakeExact'
  BY <1>1, <1>2, <1>3 DEF MakeExact, Prefix
<1>5. FilesExact'
  BY <1>1, <1>2, <1>3 DEF FilesExact, CopiesExact, DirectoriesExact
<1> QED
  BY <1>4, <1>5

LEMMA GivesUpHolds ==
  ASSUME NEW c \in DOMAIN Places, MakeExact, NEW why, GivesUp(c, why),
         making[c].at \in {"call", "mkdir", "exists"},
         why # "none" \/ (making[c].at = "exists" /\ Prefix(c) \notin dirs),
         dirs' = dirs, files' = files, FilesExact,
         UNCHANGED <<job, at, found, content, cause, data, old>>
  PROVE  MakeExact' /\ FilesExact'
<1> DEFINE next == making[c].depth + 1
<1>1. why = "none" => next \in DOMAIN Places[c] /\ SubSeq(Places[c], 1, next) \in files
  BY PathsAssumption DEF MakeExact, Prefix
<1>2. /\ making'[c].at = "failed" /\ DOMAIN making'[c] = {"at", "depth", "why"}
      /\ making'[c].depth = making[c].depth /\ making'[c].why = why
      /\ \A d \in DOMAIN Places \ {c} : making'[d] = making[d]
      /\ DOMAIN making' = DOMAIN Places
  BY DEF GivesUp, MakeExact
<1>3. MakeExact'
  BY <1>2 DEF MakeExact, Prefix
<1>4. FilesExact'
  BY <1>1, <1>2 DEF FilesExact, CopiesExact, DirectoriesExact
<1> QED
  BY <1>3, <1>4

\* A step to the next place of the same component.
LEMMA GoesOnHolds ==
  ASSUME NEW c \in DOMAIN Places, MakeExact, NEW place \in {"mkdir", "exists"},
         making' = [making EXCEPT ![c].at = place], making[c].at \in {"call", "mkdir"},
         place = "exists" => Prefix(c) \in dirs \cup files,
         dirs' = dirs, files' = files, FilesExact,
         UNCHANGED <<job, at, found, content, cause, data, old>>
  PROVE  MakeExact' /\ FilesExact'
<1>1. /\ making'[c].at = place /\ DOMAIN making'[c] = {"at", "depth", "why"}
      /\ making'[c].depth = making[c].depth
      /\ \A d \in DOMAIN Places \ {c} : making'[d] = making[d]
      /\ DOMAIN making' = DOMAIN Places
  BY DEF MakeExact
<1>2. MakeExact'
  BY <1>1 DEF MakeExact, Prefix
<1>3. FilesExact'
  BY <1>1 DEF FilesExact, CopiesExact, DirectoriesExact
<1> QED
  BY <1>2, <1>3

LEMMA CopyPathHolds == ASSUME NEW c \in DOMAIN Places, FilesInv, CopyPath(c) PROVE FilesInv'
<1>1. SearchHolds' /\ CopyHolds' /\ CopyExact'
  BY DEF FilesInv, SearchHolds, CopyHolds, CopyExact, CopyPath, callVars, searchVars, copyVars
<1>2. UNCHANGED <<job, at, found, content, cause, data, old, files, dirs>>
      /\ making[c].at = "call"
  BY DEF CopyPath, callVars, copyVars
<1>3. MakeExact' /\ FilesExact'
  <2>1. CASE making' = [making EXCEPT ![c].at = "mkdir"]
    BY <1>2, <2>1, GoesOnHolds DEF FilesInv
  <2>2. CASE GivesUp(c, "memory")
    BY <1>2, <2>2, GivesUpHolds DEF FilesInv
  <2> QED
    BY <2>1, <2>2 DEF CopyPath
<1> QED
  BY <1>1, <1>3 DEF FilesInv

LEMMA MkdirHolds == ASSUME NEW c \in DOMAIN Places, FilesInv, Mkdir(c) PROVE FilesInv'
<1>1. SearchHolds' /\ CopyHolds' /\ CopyExact'
  BY DEF FilesInv, SearchHolds, CopyHolds, CopyExact, Mkdir, callVars, searchVars, copyVars
<1>2. UNCHANGED <<job, at, found, content, cause, data, old, files>> /\ making[c].at = "mkdir"
  BY DEF Mkdir, callVars, copyVars
<1>3. MakeExact' /\ FilesExact'
  <2>1. CASE dirs' = dirs \cup {Prefix(c)} /\ Proceeds(c)
    BY <1>2, <2>1, ProceedsHolds DEF FilesInv
  <2>2. CASE /\ Prefix(c) \in dirs \cup files
             /\ making' = [making EXCEPT ![c].at = "exists"] /\ UNCHANGED dirs
    BY <1>2, <2>2, GoesOnHolds DEF FilesInv
  <2>3. CASE GivesUp(c, "refused") /\ UNCHANGED dirs
    BY <1>2, <2>3, GivesUpHolds DEF FilesInv
  <2> QED
    BY <2>1, <2>2, <2>3 DEF Mkdir
<1> QED
  BY <1>1, <1>3 DEF FilesInv

LEMMA ExistsHolds == ASSUME NEW c \in DOMAIN Places, FilesInv, Exists(c) PROVE FilesInv'
<1>1. SearchHolds' /\ CopyHolds' /\ CopyExact'
  BY DEF FilesInv, SearchHolds, CopyHolds, CopyExact, Exists, callVars, searchVars, copyVars
<1>2. UNCHANGED <<job, at, found, content, cause, data, old, files, dirs>>
      /\ making[c].at = "exists"
  BY DEF Exists, callVars, copyVars
<1>3. MakeExact' /\ FilesExact'
  <2>1. CASE Prefix(c) \in dirs /\ Proceeds(c)
    BY <1>2, <2>1, ProceedsHolds DEF FilesInv
  <2>2. CASE Prefix(c) \notin dirs /\ GivesUp(c, "none")
    BY <1>2, <2>2, GivesUpHolds DEF FilesInv
  <2>3. CASE GivesUp(c, "refused")
    BY <1>2, <2>3, GivesUpHolds DEF FilesInv
  <2> QED
    BY <2>1, <2>2, <2>3 DEF Exists
<1> QED
  BY <1>1, <1>3 DEF FilesInv

-----------------------------------------------------------------------------
(* A call of either kind. *)

LEMMA InitHolds == Init => IInv
<1>1. ProcessInit \/ ProcessOff => ProcessInv
  BY DEF ProcessInit, ProcessOff, ProcessInv, KeptExact, PartExact, ChildExact, OutputExact,
         ArgvExact, EndExact, ProgramsExact, NoChild, Kept, Part, Parts, Capturings
<1>2. ASSUME NEW kind, FilesStart(kind) PROVE FilesInv
  <2> USE DEF FilesStart
  <2>1. SearchHolds
    <3>1. <<>> \in Seq(Walk) /\ <<>> \in Seq(Seq(Names)) /\ Len(<<>>) = 0
      OBVIOUS
    <3> QED
      BY <1>2, <3>1 DEF SearchHolds
  <2>2. CopyHolds
    BY <1>2 DEF CopyHolds
  <2>3. CopyExact
    <3>1. job \in {"write", "append"} => data \in Nat /\ (content # None => content \in Nat)
      BY <1>2, DataAssumption
    <3>2. at = "call" /\ old = content /\ len = 0 /\ found = None /\ cause = "none"
      BY <1>2
    <3> QED
      BY <3>1, <3>2 DEF CopyExact
  <2>4. MakeExact
    BY <1>2, PathsAssumption DEF MakeExact
  <2>5. FilesExact
    BY <1>2, NullAssumption DEF FilesExact, CopiesExact, DirectoriesExact
  <2> QED
    BY <2>1, <2>2, <2>3, <2>4, <2>5 DEF FilesInv
<1>3. FilesOff => FilesInv /\ job = "off" /\ at = "call"
  BY <1>2 DEF FilesOff, FilesStart
<1>4. FilesInit => FilesInv /\ job # "off"
  BY <1>2 DEF FilesInit, FilesStart
<1> QED
  BY <1>1, <1>3, <1>4 DEF Init, IInv, OneCall, ProcessInit, ProcessOff

\* Which kind of call it is does not change.
LEMMA KindsHold == IInv /\ [Next]_vars => OneCall'
<1> SUFFICES ASSUME IInv, [Next]_vars PROVE OneCall'
  OBVIOUS
<1>1. CASE OfProcess \/ OfChild
  <2>1. pc # "off"
    BY <1>1 DEF IInv, ProcessInv, ChildExact, NoChild, OfProcess, OfChild, CallerNext, ChildNext,
                Call, Enter, MakeArgv, Fork, Buffer, Grow, Take, EndOfFile, Wait, Abandon, Text,
                LinkWords, ChildStarts, ChildWrites, ChildWrote, ChildEnds
  <2> QED
    BY <1>1, <2>1 DEF IInv, OneCall, OfProcess, OfChild, ChildNext, fileVars, callVars, processVars
<1>2. CASE OfFiles
  <2>1. job # "off" /\ job' = job
    BY <1>2 DEF OfFiles, FilesNext, SearchNext, CopyNext, Search, Entry, Close, Collected,
                OpenToRead, GrowBuffer, ReadSome, OpenToWrite, WriteSome, CopyPath, Mkdir,
                Exists, callVars
  <2> QED
    BY <1>2, <2>1 DEF IInv, OneCall, OfFiles, processVars
<1>3. CASE UNCHANGED vars
  BY <1>3 DEF IInv, OneCall, vars, fileVars, callVars, processVars
<1> QED
  BY <1>1, <1>2, <1>3 DEF Next

LEMMA ProcessAtRest == ProcessInv /\ UNCHANGED processVars => ProcessInv'
BY SameLink DEF ProcessInv, KeptExact, PartExact, ChildExact, OutputExact, ArgvExact, EndExact,
       ProgramsExact, Launched, Kept, Part, Capturing, Configuring, processVars

LEMMA FilesAtRest == FilesInv /\ UNCHANGED fileVars => FilesInv'
BY DEF FilesInv, SearchHolds, CopyHolds, CopyExact, MakeExact, FilesExact, CopiesExact, DirectoriesExact, Prefix, fileVars,
       callVars, searchVars, makeVars, copyVars

LEMMA StepHolds == IInv /\ [Next]_vars => IInv'
<1> SUFFICES ASSUME IInv, [Next]_vars PROVE ProcessInv' /\ FilesInv'
  BY KindsHold DEF IInv
<1> USE DEF IInv
<1>1. CASE OfProcess
  BY <1>1, CallHolds, EnterHolds, MakeArgvHolds, ForkHolds, BufferHolds, GrowHolds, TakeHolds,
     EndOfFileHolds, WaitHolds, AbandonHolds, TextHolds, LinkWordsHolds, FilesAtRest
     DEF OfProcess, CallerNext
<1>2. CASE OfChild
  BY <1>2, ChildHolds, FilesAtRest DEF OfChild
<1>3. CASE OfFiles
  BY <1>3, SearchStarts, EntryHolds, CloseHolds, CollectedHolds, OpenToReadHolds,
     GrowBufferHolds, ReadSomeHolds, OpenToWriteHolds, WriteSomeHolds, CopyPathHolds, MkdirHolds,
     ExistsHolds,
     ProcessAtRest DEF OfFiles, FilesNext, SearchNext, CopyNext
<1>4. CASE UNCHANGED vars
  BY <1>4, ProcessAtRest, FilesAtRest DEF vars
<1> QED
  BY <1>1, <1>2, <1>3, <1>4 DEF Next

LEMMA Invariance == Spec => []IInv
BY InitHolds, StepHolds, PTL DEF Spec

\* Whichever step of a helper fails, when it has returned no descriptor is open, no block is
\* allocated and no child is left to wait for: the clean-up of every early return in
\* yc_process_run, yc_process_capture, yc_native_link, yc_collect_yc_paths, yc_fs_read_all
\* and yc_fs_write_all is complete.
THEOREM HelpersLeaveNothing == Spec => []NothingLeft
<1>1. IInv => NothingLeft
  <2> SUFFICES ASSUME IInv, Called PROVE NothingLeft
    BY DEF NothingLeft
  <2>1. held = {} /\ child.state \in {"none", "reaped"}
    <3>1. pc \in {"off", "returned"}
      BY DEF IInv, OneCall, Called
    <3> QED
      BY <3>1 DEF IInv, ProcessInv, KeptExact, PartExact, ChildExact, NoChild, Kept, Part
  <2>2. handles = 0 /\ strings = 0 /\ frames = <<>>
    <3>1. job = "off" \/ at = "returned"
      BY DEF IInv, OneCall, Called
    <3> QED
      BY <3>1 DEF IInv, OneCall, FilesInv, SearchHolds, CopyHolds
  <2> QED
    BY <2>1, <2>2 DEF NothingLeft
<1> QED
  BY <1>1, Invariance, PTL

\* What yc_process_run, yc_process_capture and yc_native_link return is what the child did,
\* whatever it writes and however it ends, if the packed arguments are what the caller meant
\* or are refused (yc_unpack_argv).
THEOREM ProgramsReportTheChild == Spec => [](PackedRight => ProgramsExact)
<1>1. IInv => (PackedRight => ProgramsExact)
  BY DEF IInv, ProcessInv
<1> QED
  BY <1>1, Invariance, PTL

\* A file that exists is read whole just when nothing failed on the way, and one is written
\* whole or the call fails (yc_fs_read_all, yc_fs_write_all); of any number of compilers that
\* make directories of common beginnings at once none fails but by its own malloc, a call the
\* system refused it, or a file in the way (yc_fs_create_dirs).
THEOREM FilesWholeOrFailed == Spec => []FilesExact
<1>1. IInv => FilesExact
  BY DEF IInv, FilesInv
<1> QED
  BY <1>1, Invariance, PTL

\* Both: what a helper answers, of programs or of files, is what happened.
THEOREM ResultsTrue == Spec => [](PackedRight => ResultsExact)
<1>1. IInv => (PackedRight => ResultsExact)
  BY DEF IInv, ProcessInv, FilesInv, ResultsExact
<1> QED
  BY <1>1, Invariance, PTL

-----------------------------------------------------------------------------
(* Where paths lead. *)

\* A nonempty set of numbers has a least element.
LEMMA LeastNumber ==
  ASSUME NEW S, S \subseteq Nat, S # {}
  PROVE  \E x \in S : \A y \in S : x <= y
<1>1. PICK x \in S : \A y \in S : ~ (<<y, x>> \in OpToRel(<, Nat))
  BY NatLessThanWellFounded, WFMin, Zenon
<1>2. \A y \in S : ~ (y < x)
  BY <1>1 DEF OpToRel
<1>3. x \in Nat /\ S \subseteq Nat
  OBVIOUS
<1> QED
  BY <1>2, <1>3

IsWay(s, path, way) ==
  /\ way \in [0 .. Len(path) -> DOMAIN s.dirs]
  /\ way[0] = s.root
  /\ \A i \in 1 .. Len(path) : /\ path[i] \in DOMAIN s.dirs[way[i - 1]]
                               /\ way[i] = s.dirs[way[i - 1]][path[i]]

LEMMA LeadsToIs ==
  ASSUME NEW s, NEW path, NEW dir
  PROVE  LeadsTo(s, path, dir) <=> \E way : IsWay(s, path, way) /\ way[Len(path)] = dir
BY DEF LeadsTo, IsWay

LEMMA LeadsToRoot ==
  ASSUME NEW s, s.root \in DOMAIN s.dirs
  PROVE  LeadsTo(s, <<>>, s.root)
<1>1. IsWay(s, <<>>, [i \in 0 .. 0 |-> s.root])
  BY DEF IsWay
<1> QED
  BY <1>1, LeadsToIs

LEMMA LeadsOn ==
  ASSUME NEW s, NEW path \in Seq(Names), NEW d, LeadsTo(s, path, d),
         NEW n \in DOMAIN s.dirs[d], s.dirs[d][n] \in DOMAIN s.dirs
  PROVE  LeadsTo(s, Append(path, n), s.dirs[d][n])
<1>1. PICK way : IsWay(s, path, way) /\ way[Len(path)] = d
  BY LeadsToIs
<1> DEFINE l == Len(path)
           longer == [i \in 0 .. l + 1 |-> IF i <= l THEN way[i] ELSE s.dirs[d][n]]
<1>2. l \in Nat /\ Len(Append(path, n)) = l + 1 /\ Append(path, n)[l + 1] = n
      /\ \A i \in 1 .. l : Append(path, n)[i] = path[i]
  OBVIOUS
<1>3. longer \in [0 .. l + 1 -> DOMAIN s.dirs] /\ longer[0] = s.root
      /\ longer[l + 1] = s.dirs[d][n] /\ longer[l] = d
  BY <1>1, <1>2 DEF IsWay
<1>4. ASSUME NEW i \in 1 .. l + 1
      PROVE  /\ Append(path, n)[i] \in DOMAIN s.dirs[longer[i - 1]]
             /\ longer[i] = s.dirs[longer[i - 1]][Append(path, n)[i]]
  <2>1. CASE i = l + 1
    BY <1>2, <1>3, <2>1
  <2>2. CASE i # l + 1
    <3>1. i \in 1 .. l /\ longer[i] = way[i] /\ longer[i - 1] = way[i - 1]
      BY <1>2, <2>2
    <3> HIDE DEF longer, l
    <3> QED
      BY <1>1, <1>2, <3>1 DEF IsWay, l
  <2> QED
    BY <2>1, <2>2
<1>5. IsWay(s, Append(path, n), longer)
  <2> HIDE DEF longer
  <2> QED
    BY <1>2, <1>3, <1>4 DEF IsWay
<1> QED
  BY <1>2, <1>3, <1>5, LeadsToIs

\* Ways with a common beginning have the same directories there.
LEMMA WaysMeet ==
  ASSUME NEW s, NEW p \in Seq(Names), NEW q \in Seq(Names), NEW v, NEW w,
         IsWay(s, p, v), IsWay(s, q, w),
         Len(p) <= Len(q), \A i \in 1 .. Len(p) : p[i] = q[i]
  PROVE  \A i \in 0 .. Len(p) : v[i] = w[i]
<1> DEFINE Apart == {i \in 0 .. Len(p) : v[i] # w[i]}
<1>1. SUFFICES ASSUME Apart # {} PROVE FALSE
  OBVIOUS
<1>2. PICK i \in Apart : \A j \in Apart : i <= j
  <2> Apart \subseteq Nat
    OBVIOUS
  <2> HIDE DEF Apart
  <2> QED
    BY <1>1, LeastNumber
<1>3. i # 0 /\ i \in 1 .. Len(p) /\ i - 1 \in 0 .. Len(p) /\ i \in 1 .. Len(q)
  BY DEF IsWay
<1>4. v[i - 1] = w[i - 1]
  BY <1>2, <1>3
<1> QED
  BY <1>3, <1>4 DEF IsWay

LEMMA LeadsToOne ==
  ASSUME NEW s, NEW path \in Seq(Names), NEW d, NEW e, LeadsTo(s, path, d), LeadsTo(s, path, e)
  PROVE  d = e
<1>1. PICK v : IsWay(s, path, v) /\ v[Len(path)] = d
  BY LeadsToIs
<1>2. PICK w : IsWay(s, path, w) /\ w[Len(path)] = e
  BY LeadsToIs
<1>3. Len(path) \in Nat
  OBVIOUS
<1>4. \A i \in 0 .. Len(path) : v[i] = w[i]
  BY <1>1, <1>2, <1>3, WaysMeet
<1> QED
  BY <1>1, <1>2, <1>3, <1>4

\* The path of a source file.
IsSource(s, path, d, n) ==
  /\ d \in DOMAIN s.dirs /\ n \in DOMAIN s.dirs[d] /\ s.dirs[d][n] = "source"
  /\ \E q \in Seq(Names) : path = Append(q, n) /\ LeadsTo(s, q, d)

LEMMA SourceAt ==
  ASSUME NEW s \in Searches, NEW path, NEW d, NEW n, IsSource(s, path, d, n)
  PROVE  FileAt(s, path) = <<d, n>>
<1>1. PICK q \in Seq(Names) : path = Append(q, n) /\ LeadsTo(s, q, d)
  BY DEF IsSource
<1>2. n \in Names
  BY DEF IsSource, Names
<1>3. Front(path) = q /\ Last(path) = n
  <2>1. path \in Seq(Names) /\ Len(path) = Len(q) + 1 /\ Len(q) \in Nat
    BY <1>1, <1>2
  <2>2. Front(path) \in Seq(Names) /\ Len(Front(path)) = Len(q)
    <3> DEFINE l == Len(q)
    <3>1. l \in Nat /\ Front(path) = SubSeq(path, 1, l) /\ \A i \in 1 .. l : path[i] \in Names
      BY <2>1 DEF Front
    <3> HIDE DEF l
    <3>2. SubSeq(path, 1, l) \in Seq(Names) /\ Len(SubSeq(path, 1, l)) = l
      BY <3>1, SubSeqProperties
    <3> QED
      BY <3>1, <3>2 DEF l
  <2>3. \A i \in 1 .. Len(q) : Front(path)[i] = q[i]
    BY <1>1, <2>1 DEF Front
  <2> QED
    BY <1>1, <2>1, <2>2, <2>3 DEF Last
<1>4. d \in DOMAIN s.dirs
  BY DEF IsSource
<1>5. \A e \in DOMAIN s.dirs : LeadsTo(s, q, e) => e = d
  BY <1>1, LeadsToOne
<1> QED
  BY <1>1, <1>3, <1>4, <1>5 DEF FileAt

\* The path of a file does not go on.
LEMMA PathsEnd ==
  ASSUME NEW s \in Searches, NEW p, NEW q, NEW d, NEW n, NEW e, NEW m,
         IsSource(s, p, d, n), IsSource(s, q, e, m),
         Len(p) < Len(q), \A i \in 1 .. Len(p) : p[i] = q[i]
  PROVE  FALSE
<1>1. PICK p0 \in Seq(Names) : p = Append(p0, n) /\ LeadsTo(s, p0, d)
  BY DEF IsSource
<1>2. PICK q0 \in Seq(Names) : q = Append(q0, m) /\ LeadsTo(s, q0, e)
  BY DEF IsSource
<1>3. PICK v : IsWay(s, p0, v) /\ v[Len(p0)] = d
  BY <1>1, LeadsToIs
<1>4. PICK w : IsWay(s, q0, w)
  BY <1>2, LeadsToIs
<1> DEFINE k == Len(p0)
           l == Len(q0)
<1>5. k \in Nat /\ l \in Nat /\ Len(p) = k + 1 /\ Len(q) = l + 1 /\ k + 1 <= l
  BY <1>1, <1>2
<1>6. /\ \A i \in 1 .. k : p[i] = p0[i]
      /\ \A i \in 1 .. l : q[i] = q0[i]
      /\ p[k + 1] = n
  BY <1>1, <1>2
<1>7. (\A i \in 1 .. k : p0[i] = q0[i]) /\ q0[k + 1] = n
  BY <1>5, <1>6
<1>8. w[k] = d
  BY <1>3, <1>4, <1>5, <1>7, WaysMeet
<1>9. w[k + 1] = s.dirs[d][n] /\ w[k + 1] \in DOMAIN s.dirs
  <2>1. k + 1 \in 1 .. l /\ (k + 1) - 1 = k /\ k + 1 \in 0 .. l
    BY <1>5
  <2> HIDE DEF k
  <2> QED
    BY <1>4, <1>7, <1>8, <2>1 DEF IsWay
<1> QED
  BY <1>9, KindsAssumption DEF IsSource

-----------------------------------------------------------------------------
(* The order of paths. *)

\* A name has its place in the order for itself.
LEMMA PlaceOf ==
  ASSUME NEW a \in Names, NEW b \in Names, a # b
  PROVE  LET Place(name) == CHOOSE i \in DOMAIN Order : Order[i] = name
         IN  Place(a) \in Nat /\ Place(b) \in Nat /\ Place(a) # Place(b)
<1>1. a \in Range(Order) /\ b \in Range(Order)
  BY OrderAssumption DEF Names
<1>2. (\E i \in DOMAIN Order : Order[i] = a) /\ (\E i \in DOMAIN Order : Order[i] = b)
  BY <1>1 DEF Range
<1>3. DOMAIN Order \subseteq Nat
  BY OrderAssumption
<1> QED
  BY <1>2, <1>3

\* Different paths of files are one before the other.
LEMMA Comparable ==
  ASSUME NEW s \in Searches, NEW p, NEW q, NEW d, NEW n, NEW e, NEW m,
         IsSource(s, p, d, n), IsSource(s, q, e, m), p # q
  PROVE  Before(p, q) \/ Before(q, p)
<1>1. p \in Seq(Names) /\ q \in Seq(Names)
  BY DEF IsSource, Names
<1> DEFINE Apart == {i \in DOMAIN p : i \in DOMAIN q /\ p[i] # q[i]}
<1>2. Apart # {}
  <2> SUFFICES ASSUME Apart = {} PROVE FALSE
    OBVIOUS
  <2>1. Len(p) \in Nat /\ Len(q) \in Nat
        /\ DOMAIN p = 1 .. Len(p) /\ DOMAIN q = 1 .. Len(q)
    BY <1>1
  <2>2. CASE Len(p) < Len(q)
    <3>1. \A i \in 1 .. Len(p) : p[i] = q[i]
      BY <2>1, <2>2
    <3> QED
      BY <2>2, <3>1, PathsEnd
  <2>3. CASE Len(q) < Len(p)
    <3>1. \A i \in 1 .. Len(q) : q[i] = p[i]
      BY <2>1, <2>3
    <3> QED
      BY <2>3, <3>1, PathsEnd
  <2>4. CASE Len(p) = Len(q)
    BY <1>1, <2>1, <2>4
  <2>5. Len(p) < Len(q) \/ Len(q) < Len(p) \/ Len(p) = Len(q)
    <3>1. \A x, y \in Nat : x < y \/ y < x \/ x = y
      OBVIOUS
    <3> QED
      BY <2>1, <3>1
  <2> QED
    BY <2>2, <2>3, <2>4, <2>5
<1>3. PICK k \in Apart : \A i \in Apart : k <= i
  <2> Apart \subseteq Nat
    BY <1>1
  <2> HIDE DEF Apart
  <2> QED
    BY <1>2, LeastNumber
<1>4. k \in DOMAIN p /\ k \in DOMAIN q /\ p[k] # q[k] /\ k \in Nat \ {0}
  BY <1>1
<1>5. \A i \in 1 .. k - 1 : i \in DOMAIN p /\ i \in DOMAIN q /\ p[i] = q[i]
  BY <1>1, <1>3, <1>4
<1> DEFINE First(x, y, i) == /\ i \in DOMAIN x /\ x[i] # y[i]
                             /\ SubSeq(x, 1, i - 1) = SubSeq(y, 1, i - 1)
<1>6. First(p, q, k) /\ First(q, p, k)
  <2>1. SubSeq(p, 1, k - 1) = SubSeq(q, 1, k - 1)
    BY <1>4, <1>5
  <2> QED
    BY <1>4, <2>1
<1>7. ASSUME NEW i, First(p, q, i) \/ First(q, p, i) PROVE i = k
  <2>1. i \in Nat \ {0}
    BY <1>1, <1>7
  <2>2. CASE i < k
    <3>1. i \in 1 .. k - 1
      BY <1>4, <2>1, <2>2
    <3> QED
      BY <1>5, <1>7, <3>1
  <2>3. CASE k < i
    <3>1. k \in 1 .. i - 1
      BY <1>4, <2>1, <2>3
    <3>2. SubSeq(p, 1, i - 1)[k] = p[k] /\ SubSeq(q, 1, i - 1)[k] = q[k]
      BY <2>1, <3>1
    <3> QED
      BY <1>4, <1>7, <3>2
  <2> QED
    BY <1>4, <2>1, <2>2, <2>3
<1>8. (CHOOSE i \in DOMAIN p : p[i] # q[i] /\ SubSeq(p, 1, i - 1) = SubSeq(q, 1, i - 1)) = k
  BY <1>6, <1>7
<1>9. (CHOOSE i \in DOMAIN q : q[i] # p[i] /\ SubSeq(q, 1, i - 1) = SubSeq(p, 1, i - 1)) = k
  BY <1>6, <1>7
<1>10. p[k] \in Names /\ q[k] \in Names
  BY <1>1, <1>4
<1> HIDE DEF Apart, First
<1> DEFINE a == CHOOSE i \in DOMAIN Order : Order[i] = p[k]
           b == CHOOSE i \in DOMAIN Order : Order[i] = q[k]
<1>11. a \in Nat /\ b \in Nat /\ a # b
  BY <1>4, <1>10, PlaceOf
<1>12. (Before(p, q) <=> a < b) /\ (Before(q, p) <=> b < a)
  BY <1>8, <1>9 DEF Before
<1> HIDE DEF a, b
<1> QED
  BY <1>11, <1>12

-----------------------------------------------------------------------------
(* The search. *)

\* The open directories were entered once each, by paths that lead to them.
FramesRight(s, open, seen) ==
  /\ \A i \in DOMAIN open : /\ open[i].dir \in seen /\ LeadsTo(s, open[i].path, open[i].dir)
                            /\ open[i].left \subseteq DOMAIN s.dirs[open[i].dir]
  /\ \A i, j \in DOMAIN open : open[i].dir = open[j].dir => i = j

\* A name of a directory that has yet to be looked at.
Pending(open, d, n) == \E i \in DOMAIN open : open[i].dir = d /\ n \in open[i].left

\* What is listed are source files that were looked at, each once.
ListedRight(s, open, seen, paths) ==
  /\ \A i \in DOMAIN paths : \E d \in seen : \E n \in DOMAIN s.dirs[d] :
       IsSource(s, paths[i], d, n) /\ ~Pending(open, d, n)
  /\ \A i, j \in DOMAIN paths : FileAt(s, paths[i]) = FileAt(s, paths[j]) => i = j

\* What was looked at in the directories seen led to one known or is listed.
NoneMissed(s, open, seen, known, paths) ==
  \A d \in seen : \A n \in DOMAIN s.dirs[d] :
    \/ Pending(open, d, n)
    \/ /\ s.dirs[d][n] \in DOMAIN s.dirs => s.dirs[d][n] \in known
       /\ s.dirs[d][n] = "source" => \E i \in DOMAIN paths : FileAt(s, paths[i]) = <<d, n>>

Excused == cause # "none" \/ ~IsDir(fs.root) \/ Reachable(fs) \cap fs.closed # {}

SearchInv ==
  job = "search" =>
    /\ FramesRight(fs, frames, visited) /\ ListedRight(fs, frames, visited, list)
    /\ visited \subseteq Reachable(fs)
    /\ ok \in BOOLEAN
    /\ ok => /\ visited \cap fs.closed = {} /\ (at # "returned" => cause = "none")
             /\ NoneMissed(fs, frames, visited, visited, list)
    /\ ~ok => Excused
    /\ at = "call" => ok /\ visited = {}
    /\ at # "call" /\ ok => fs.root \in visited
    /\ SearchExact

LEMMA ReachableClosed ==
  ASSUME NEW s
  PROVE  /\ s.root \in DOMAIN s.dirs => s.root \in Reachable(s)
         /\ \A d \in Reachable(s) : \A n \in DOMAIN s.dirs[d] :
              s.dirs[d][n] \in DOMAIN s.dirs => s.dirs[d][n] \in Reachable(s)
         /\ Reachable(s) \subseteq DOMAIN s.dirs
         /\ \A S \in SUBSET DOMAIN s.dirs : ClosedIn(s, S) => Reachable(s) \subseteq S
<1>1. Reachable(s) \subseteq DOMAIN s.dirs
  BY DEF Reachable
<1>2. \A S \in SUBSET DOMAIN s.dirs : ClosedIn(s, S) => Reachable(s) \subseteq S
  BY DEF Reachable
<1>3. s.root \in DOMAIN s.dirs => s.root \in Reachable(s)
  BY DEF Reachable, ClosedIn
<1>4. ASSUME NEW d \in Reachable(s), NEW n \in DOMAIN s.dirs[d], s.dirs[d][n] \in DOMAIN s.dirs
      PROVE  s.dirs[d][n] \in Reachable(s)
  <2>1. ASSUME NEW S \in SUBSET DOMAIN s.dirs, ClosedIn(s, S) PROVE s.dirs[d][n] \in S
    <3>1. d \in S
      BY <1>2, <2>1
    <3> QED
      BY <1>4, <2>1, <3>1 DEF ClosedIn
  <2> QED
    BY <1>4, <2>1 DEF Reachable
<1> QED
  BY <1>1, <1>2, <1>3, <1>4

LEMMA SourceOf ==
  ASSUME NEW s, NEW S, NEW x \in SourcesIn(s, S)
  PROVE  \E d \in S : \E n \in DOMAIN s.dirs[d] : s.dirs[d][n] = "source" /\ x = <<d, n>>
<1> DEFINE Of(d) == {<<d, n>> : n \in {m \in DOMAIN s.dirs[d] : s.dirs[d][m] = "source"}}
<1>1. x \in UNION {Of(d) : d \in S}
  BY DEF SourcesIn
<1>2. PICK d \in S : x \in Of(d)
  BY <1>1
<1> QED
  BY <1>2

\* Sorting a list leaves the same files.
LEMMA SameFiles ==
  ASSUME NEW paths \in Seq(Seq(Names)), NEW sorted \in Arranged(paths), NEW s
  PROVE  /\ sorted \in Seq(Seq(Names)) /\ Len(sorted) = Len(paths)
         /\ \A j \in DOMAIN paths : \E i \in DOMAIN sorted : sorted[i] = paths[j]
         /\ (\A i, j \in DOMAIN paths : FileAt(s, paths[i]) = FileAt(s, paths[j]) => i = j) =>
              \A i, j \in DOMAIN sorted : FileAt(s, sorted[i]) = FileAt(s, sorted[j]) => i = j
         /\ \A i \in DOMAIN sorted : \E j \in DOMAIN paths : sorted[i] = paths[j]
         /\ \A i, j \in DOMAIN sorted : i < j => ~Before(sorted[j], sorted[i])
<1>1. PICK place \in Bijection(DOMAIN paths, DOMAIN paths) :
        sorted = [i \in DOMAIN paths |-> paths[place[i]]]
  BY DEF Arranged
<1>2. /\ place \in [DOMAIN paths -> DOMAIN paths]
      /\ \A i, j \in DOMAIN paths : place[i] = place[j] => i = j
      /\ \A j \in DOMAIN paths : \E i \in DOMAIN paths : place[i] = j
  BY <1>1 DEF Bijection, Injection, Surjection, IsInjective
<1>3. DOMAIN paths = 1 .. Len(paths) /\ Len(paths) \in Nat
      /\ \A i \in DOMAIN paths : paths[i] \in Seq(Names)
  OBVIOUS
<1>4. sorted \in Seq(Seq(Names)) /\ Len(sorted) = Len(paths) /\ DOMAIN sorted = DOMAIN paths
  <2> DEFINE l == Len(paths)
             T == Seq(Names)
  <2>1. l \in Nat /\ sorted \in [1 .. l -> T] /\ sorted = [i \in 1 .. l |-> paths[place[i]]]
    BY <1>1, <1>2, <1>3
  <2> HIDE DEF l, T
  <2>2. sorted \in Seq(T) /\ Len(sorted) = l /\ DOMAIN sorted = 1 .. l
    BY <2>1
  <2> QED
    BY <1>3, <2>2 DEF l, T
<1>5. \A i \in DOMAIN paths : sorted[i] = paths[place[i]]
  BY <1>1
<1>6. \A i, j \in DOMAIN sorted : i < j => ~Before(sorted[j], sorted[i])
  BY <1>4 DEF Arranged
<1>7. \A j \in DOMAIN paths : \E i \in DOMAIN sorted : sorted[i] = paths[j]
  BY <1>2, <1>4, <1>5
<1>8. ASSUME \A i, j \in DOMAIN paths : FileAt(s, paths[i]) = FileAt(s, paths[j]) => i = j,
             NEW i \in DOMAIN sorted, NEW j \in DOMAIN sorted,
             FileAt(s, sorted[i]) = FileAt(s, sorted[j])
      PROVE  i = j
  BY <1>2, <1>4, <1>5, <1>8
<1>9. \A i \in DOMAIN sorted : \E j \in DOMAIN paths : sorted[i] = paths[j]
  BY <1>2, <1>4, <1>5
<1> QED
  BY <1>4, <1>6, <1>7, <1>8, <1>9

\* What a search that has seen everything returns.
LEMMA Answered ==
  ASSUME NEW s \in Searches, NEW seen, NEW paths \in Seq(Seq(Names)), NEW sorted \in Arranged(paths),
         seen \subseteq Reachable(s), s.root \in seen,
         ListedRight(s, <<>>, seen, paths), NoneMissed(s, <<>>, seen, seen, paths)
  PROVE  /\ {FileAt(s, sorted[i]) : i \in DOMAIN sorted} = SourcesIn(s, Reachable(s))
         /\ Len(sorted) = Cardinality(SourcesIn(s, Reachable(s)))
         /\ \A i \in 2 .. Len(sorted) : Before(sorted[i - 1], sorted[i])
         /\ seen = Reachable(s)
<1> DEFINE Listed == {FileAt(s, paths[i]) : i \in DOMAIN paths}
           All == SourcesIn(s, Reachable(s))
<1>1. \A d, n : ~Pending(<<>>, d, n)
  BY DEF Pending
<1>2. seen = Reachable(s)
  <2>1. seen \subseteq DOMAIN s.dirs
    BY ReachableClosed
  <2>2. ClosedIn(s, seen)
    BY <1>1 DEF ClosedIn, NoneMissed
  <2> QED
    BY <2>1, <2>2, ReachableClosed
<1>3. ASSUME NEW i \in DOMAIN paths
      PROVE  \E d \in seen : \E n \in DOMAIN s.dirs[d] :
               IsSource(s, paths[i], d, n) /\ FileAt(s, paths[i]) = <<d, n>>
  BY SourceAt DEF ListedRight
<1>4. Listed \subseteq All
  <2> SUFFICES ASSUME NEW i \in DOMAIN paths PROVE FileAt(s, paths[i]) \in All
    OBVIOUS
  <2>1. PICK d \in seen : \E n \in DOMAIN s.dirs[d] :
               IsSource(s, paths[i], d, n) /\ FileAt(s, paths[i]) = <<d, n>>
    BY <1>3
  <2> QED
    BY <1>2, <2>1 DEF SourcesIn, IsSource
<1>5. All \subseteq Listed
  <2>1. ASSUME NEW d \in Reachable(s), NEW n \in DOMAIN s.dirs[d], s.dirs[d][n] = "source"
        PROVE  <<d, n>> \in Listed
    <3>1. PICK i \in DOMAIN paths : FileAt(s, paths[i]) = <<d, n>>
      BY <1>1, <1>2, <2>1 DEF NoneMissed
    <3> QED
      BY <3>1
  <2>2. ASSUME NEW x \in All PROVE x \in Listed
    <3>1. PICK d \in Reachable(s) : \E n \in DOMAIN s.dirs[d] :
                 s.dirs[d][n] = "source" /\ x = <<d, n>>
      BY SourceOf
    <3> QED
      BY <2>1, <3>1
  <2> QED
    BY <2>2
<1>6. /\ sorted \in Seq(Seq(Names)) /\ Len(sorted) \in Nat /\ DOMAIN sorted = 1 .. Len(sorted)
      /\ {FileAt(s, sorted[i]) : i \in DOMAIN sorted} = Listed
      /\ \A i, j \in DOMAIN sorted : FileAt(s, sorted[i]) = FileAt(s, sorted[j]) => i = j
      /\ \A i \in DOMAIN sorted : \E j \in DOMAIN paths : sorted[i] = paths[j]
      /\ \A i, j \in DOMAIN sorted : i < j => ~Before(sorted[j], sorted[i])
  <2>1. \A i, j \in DOMAIN paths : FileAt(s, paths[i]) = FileAt(s, paths[j]) => i = j
    BY DEF ListedRight
  <2>2. Len(paths) \in Nat /\ \A t \in Seq(Seq(Names)) : DOMAIN t = 1 .. Len(t)
    OBVIOUS
  <2>3. sorted \in Seq(Seq(Names)) /\ Len(sorted) = Len(paths)
    BY SameFiles
  <2>4. {FileAt(s, sorted[i]) : i \in DOMAIN sorted} = Listed
    <3>1. \A j \in DOMAIN paths : \E i \in DOMAIN sorted : sorted[i] = paths[j]
      BY SameFiles
    <3>2. \A i \in DOMAIN sorted : \E j \in DOMAIN paths : sorted[i] = paths[j]
      BY SameFiles
    <3> QED
      BY <3>1, <3>2
  <2>5. \A i, j \in DOMAIN sorted : FileAt(s, sorted[i]) = FileAt(s, sorted[j]) => i = j
    BY <2>1, SameFiles
  <2>6. \A i \in DOMAIN sorted : \E j \in DOMAIN paths : sorted[i] = paths[j]
    BY SameFiles
  <2>7. \A i, j \in DOMAIN sorted : i < j => ~Before(sorted[j], sorted[i])
    BY SameFiles
  <2> QED
    BY <2>2, <2>3, <2>4, <2>5, <2>6, <2>7
<1>7. Len(sorted) = Cardinality(All)
  <2> DEFINE place == [i \in 1 .. Len(sorted) |-> FileAt(s, sorted[i])]
  <2>1. place \in Bijection(1 .. Len(sorted), Listed)
    BY <1>6 DEF Bijection, Injection, Surjection, IsInjective
  <2>2. ExistsBijection(1 .. Len(sorted), Listed)
    BY <2>1 DEF ExistsBijection
  <2> HIDE DEF Listed
  <2>3. Cardinality(Listed) = Len(sorted)
    BY <1>6, <2>2, FS_CountingElements
  <2>4. Listed = All
    BY <1>4, <1>5
  <2> QED
    BY <2>3, <2>4
<1>8. ASSUME NEW i \in 2 .. Len(sorted) PROVE Before(sorted[i - 1], sorted[i])
  <2>1. i \in DOMAIN sorted /\ i - 1 \in DOMAIN sorted /\ i - 1 < i /\ i - 1 # i
    BY <1>6
  <2>2. sorted[i - 1] # sorted[i]
    BY <1>6, <2>1
  <2>3. PICK k \in DOMAIN paths : sorted[i] = paths[k]
    BY <1>6, <2>1
  <2>4. PICK j \in DOMAIN paths : sorted[i - 1] = paths[j]
    BY <1>6, <2>1
  <2>5. \E d, n : IsSource(s, sorted[i], d, n)
    BY <1>3, <2>3
  <2>6. \E d, n : IsSource(s, sorted[i - 1], d, n)
    BY <1>3, <2>4
  <2>7. Before(sorted[i - 1], sorted[i]) \/ Before(sorted[i], sorted[i - 1])
    BY <2>2, <2>5, <2>6, Comparable
  <2> QED
    BY <1>6, <2>1, <2>7
<1> HIDE DEF Listed, All
<1> QED
  BY <1>2, <1>4, <1>5, <1>6, <1>7, <1>8 DEF All

\* Entering a directory that a name of one seen leads to.
LEMMA VisitRight ==
  ASSUME fs \in Searches, NEW dir \in Reachable(fs), NEW path \in Seq(Names),
         NEW below \in Seq(Walk), Visit(dir, path, below), ok = TRUE, LeadsTo(fs, path, dir),
         FramesRight(fs, below, visited), ListedRight(fs, below, visited, list),
         visited \subseteq Reachable(fs), visited \cap fs.closed = {},
         NoneMissed(fs, below, visited, visited \cup {dir}, list)
  PROVE  /\ FramesRight(fs, frames', visited') /\ ListedRight(fs, frames', visited', list)
         /\ visited \subseteq visited' /\ visited' \subseteq Reachable(fs)
         /\ ok' \in BOOLEAN
         /\ ok' => /\ visited' \cap fs.closed = {} /\ dir \in visited'
                   /\ NoneMissed(fs, frames', visited', visited', list)
         /\ ok' => cause' = cause
         /\ ~ok' => cause' # "none" \/ Reachable(fs) \cap fs.closed # {}
<1>1. CASE dir \in visited /\ frames' = below /\ UNCHANGED <<visited, ok, cause>>
  <2>1. visited \cup {dir} = visited
    BY <1>1
  <2> QED
    BY <1>1, <2>1
<1>2. ASSUME frames' = below, ok' = FALSE, visited' = visited \/ visited' = visited \cup {dir},
             cause' # "none" \/ dir \in fs.closed
      PROVE  /\ FramesRight(fs, frames', visited') /\ ListedRight(fs, frames', visited', list)
             /\ visited \subseteq visited' /\ visited' \subseteq Reachable(fs)
             /\ cause' # "none" \/ Reachable(fs) \cap fs.closed # {}
  <2>1. visited \subseteq visited' /\ visited' \subseteq Reachable(fs)
    BY <1>2
  <2>2. FramesRight(fs, frames', visited')
    BY <1>2, <2>1 DEF FramesRight
  <2>3. ListedRight(fs, frames', visited', list)
    BY <1>2, <2>1 DEF ListedRight
  <2> QED
    BY <1>2, <2>1, <2>2, <2>3
<1>3. CASE /\ dir \notin visited \cup fs.closed
           /\ visited' = visited \cup {dir} /\ frames' = Append(below, Frame(dir, path))
           /\ UNCHANGED <<ok, cause>>
  <2> DEFINE new == Frame(dir, path)
             l == Len(below)
  <2>1. new.dir = dir /\ new.path = path /\ new.left = DOMAIN fs.dirs[dir]
    BY DEF Frame
  <2>2. /\ l \in Nat /\ DOMAIN below = 1 .. l /\ DOMAIN frames' = 1 .. l + 1
        /\ frames'[l + 1] = new
        /\ \A i \in 1 .. l : frames'[i] = below[i]
    BY <1>3
  <2> HIDE DEF new, l
  <2>3. \A i \in DOMAIN frames' : \/ i \in DOMAIN below /\ frames'[i] = below[i]
                                  \/ i = l + 1 /\ frames'[i] = new
    <3>1. \A i \in 1 .. l + 1 : i \in 1 .. l \/ i = l + 1
      BY <2>2
    <3> QED
      BY <2>2, <3>1
  <2>4. FramesRight(fs, frames', visited')
    <3>1. ASSUME NEW i \in DOMAIN frames'
          PROVE  /\ frames'[i].dir \in visited' /\ LeadsTo(fs, frames'[i].path, frames'[i].dir)
                 /\ frames'[i].left \subseteq DOMAIN fs.dirs[frames'[i].dir]
      BY <1>3, <2>1, <2>3 DEF FramesRight
    <3>2. ASSUME NEW i \in DOMAIN frames', NEW j \in DOMAIN frames', frames'[i].dir = frames'[j].dir
          PROVE  i = j
      BY <1>3, <2>1, <2>3, <3>2 DEF FramesRight
    <3> QED
      BY <3>1, <3>2 DEF FramesRight
  <2>5. ASSUME NEW d, NEW n
        PROVE  Pending(frames', d, n) <=> \/ Pending(below, d, n)
                                          \/ d = dir /\ n \in DOMAIN fs.dirs[dir]
    <3>1. DOMAIN below \subseteq DOMAIN frames' /\ l + 1 \in DOMAIN frames'
      BY <2>2
    <3> QED
      BY <2>1, <2>2, <2>3, <3>1 DEF Pending
  <2>6. ListedRight(fs, frames', visited', list)
    BY <1>3, <2>5 DEF ListedRight
  <2>7. NoneMissed(fs, frames', visited', visited', list)
    BY <1>3, <2>5 DEF NoneMissed
  <2>8. visited' \cap fs.closed = {} /\ visited' \subseteq Reachable(fs)
    BY <1>3
  <2> QED
    BY <1>3, <2>4, <2>6, <2>7, <2>8
<1> QED
  BY <1>1, <1>2, <1>3 DEF Visit

\* What a step of the search has to keep.
Sought ==
  /\ FramesRight(fs, frames, visited) /\ ListedRight(fs, frames, visited, list)
  /\ visited \subseteq Reachable(fs)
  /\ ok \in BOOLEAN
  /\ ok => /\ visited \cap fs.closed = {} /\ fs.root \in visited /\ cause = "none"
           /\ NoneMissed(fs, frames, visited, visited, list)
  /\ ~ok => Excused

LEMMA SearchBegins ==
  FilesInv /\ SearchInv /\ Search => Sought' /\ SearchInv'
<1> SUFFICES ASSUME FilesInv, SearchInv, Search PROVE Sought' /\ SearchInv'
  OBVIOUS
<1>1. /\ fs \in Searches /\ frames = <<>> /\ list = <<>> /\ job = "search" /\ at = "call"
      /\ ok = TRUE /\ visited = {} /\ cause = "none"
  BY DEF FilesInv, SearchHolds, SearchInv, Search
<1>2. fs' = fs /\ list' = list /\ at' = "walk" /\ job' = job
  BY DEF Search, Goes
<1>3. /\ FramesRight(fs, <<>>, {}) /\ ListedRight(fs, <<>>, {}, <<>>)
      /\ NoneMissed(fs, <<>>, {}, {fs.root}, <<>>)
  BY DEF FramesRight, ListedRight, NoneMissed
<1>4. Sought'
  <2>1. CASE IsDir(fs.root) /\ Visit(fs.root, <<>>, <<>>)
    <3>1. fs.root \in Reachable(fs) /\ LeadsTo(fs, <<>>, fs.root)
      BY <2>1, ReachableClosed, LeadsToRoot DEF IsDir
    <3>2. <<>> \in Seq(Names) /\ <<>> \in Seq(Walk) /\ {} \cup {fs.root} = {fs.root}
      OBVIOUS
    <3>3. /\ FramesRight(fs, frames', visited') /\ ListedRight(fs, frames', visited', list)
          /\ visited \subseteq visited' /\ visited' \subseteq Reachable(fs)
          /\ ok' \in BOOLEAN
          /\ ok' => /\ visited' \cap fs.closed = {} /\ fs.root \in visited'
                    /\ NoneMissed(fs, frames', visited', visited', list)
          /\ ok' => cause' = cause
          /\ ~ok' => cause' # "none" \/ Reachable(fs) \cap fs.closed # {}
      BY <1>1, <1>3, <2>1, <3>1, <3>2, VisitRight
    <3> QED
      BY <1>1, <1>2, <3>3 DEF Sought, Excused
  <2>2. CASE ~IsDir(fs.root) /\ ok' = FALSE /\ UNCHANGED <<visited, frames>>
    BY <1>1, <1>2, <1>3, <2>2 DEF Sought, Excused, IsDir
  <2> QED
    BY <2>1, <2>2 DEF Search
<1> QED
  BY <1>2, <1>4 DEF Sought, SearchInv, SearchExact

LEMMA EntryGoesOn ==
  FilesInv /\ SearchInv /\ Entry => Sought' /\ SearchInv'
<1> SUFFICES ASSUME FilesInv, SearchInv, Entry PROVE Sought' /\ SearchInv'
  OBVIOUS
<1>1. /\ fs \in Searches /\ frames \in Seq(Walk) /\ frames # <<>> /\ list \in Seq(Seq(Names))
      /\ job = "search" /\ at = "walk" /\ ok = TRUE /\ cause = "none"
  BY DEF FilesInv, SearchHolds, SearchInv, Entry
<1>2. UNCHANGED <<fs, at, job>>
  BY DEF Entry
<1>3. /\ FramesRight(fs, frames, visited) /\ ListedRight(fs, frames, visited, list)
      /\ visited \subseteq Reachable(fs) /\ visited \cap fs.closed = {} /\ fs.root \in visited
      /\ NoneMissed(fs, frames, visited, visited, list)
  BY <1>1 DEF SearchInv
<1> DEFINE top == Last(frames)
           d == top.dir
<1>4. PICK name \in top.left :
        LET target == fs.dirs[d][name]
            path   == Append(top.path, name)
            rest   == [frames EXCEPT ![Len(frames)].left = @ \ {name}]
        IN  \/ ok' = FALSE /\ cause' = "memory" /\ frames' = rest /\ UNCHANGED <<visited, list>>
            \/ IsDir(target) /\ Visit(target, path, rest) /\ UNCHANGED list
            \/ /\ target = "source" /\ frames' = rest /\ list' = Append(list, path)
               /\ UNCHANGED <<visited, ok, cause>>
            \/ /\ target \in {"other", "dangling"} /\ frames' = rest
               /\ UNCHANGED <<visited, list, ok, cause>>
  BY DEF Entry, Push
<1> DEFINE target == fs.dirs[d][name]
           path   == Append(top.path, name)
           rest   == [frames EXCEPT ![Len(frames)].left = @ \ {name}]
           l      == Len(frames)
<1>5. /\ l \in DOMAIN frames /\ top = frames[l] /\ top \in Walk /\ l \in Nat
      /\ DOMAIN frames = 1 .. l
  BY <1>1 DEF Last
<1>6. /\ d \in visited /\ LeadsTo(fs, top.path, d) /\ name \in DOMAIN fs.dirs[d]
      /\ top.path \in Seq(Names) /\ d \in Reachable(fs) /\ d \in DOMAIN fs.dirs
      /\ name \in Names
  BY <1>3, <1>5, ReachableClosed DEF FramesRight, Walk
<1>7. /\ rest \in Seq(Walk) /\ DOMAIN rest = DOMAIN frames
      /\ \A i \in DOMAIN frames : /\ rest[i].dir = frames[i].dir /\ rest[i].path = frames[i].path
                                 /\ rest[i].left = IF i = l THEN frames[i].left \ {name}
                                                   ELSE frames[i].left
  <2>1. [top EXCEPT !.left = @ \ {name}] \in Walk
    BY <1>5 DEF Walk
  <2>2. \A i \in DOMAIN frames : rest[i] = IF i = l THEN [top EXCEPT !.left = @ \ {name}] ELSE frames[i]
    BY <1>5
  <2>3. \A i \in DOMAIN frames : frames[i] \in Walk
    BY <1>1
  <2>4. rest \in Seq(Walk) /\ DOMAIN rest = DOMAIN frames
    BY <1>1, <1>5, <2>1
  <2> HIDE DEF rest, top
  <2>5. ASSUME NEW i \in DOMAIN frames
        PROVE  /\ rest[i].dir = frames[i].dir /\ rest[i].path = frames[i].path
               /\ rest[i].left = IF i = l THEN frames[i].left \ {name} ELSE frames[i].left
    <3>1. CASE i = l
      BY <1>5, <2>2, <3>1 DEF Walk
    <3>2. CASE i # l
      BY <2>2, <3>2
    <3> QED
      BY <3>1, <3>2
  <2> QED
    BY <2>4, <2>5
<1> HIDE DEF rest, top, l, d
<1>8. FramesRight(fs, rest, visited)
  BY <1>3, <1>7 DEF FramesRight
<1>9. ASSUME NEW e, NEW n
      PROVE  Pending(rest, e, n) <=> Pending(frames, e, n) /\ ~(e = d /\ n = name)
  <2>1. \A i \in DOMAIN frames : frames[i].dir = d => i = l
    BY <1>3, <1>5 DEF FramesRight, d
  <2> QED
    BY <1>5, <1>7, <2>1 DEF Pending, d
<1>10. Pending(frames, d, name)
  BY <1>4, <1>5 DEF Pending, d
<1>11. ListedRight(fs, rest, visited, list)
  BY <1>3, <1>9 DEF ListedRight
<1>12. Sought'
  <2>1. CASE ok' = FALSE /\ cause' = "memory" /\ frames' = rest /\ UNCHANGED <<visited, list>>
    BY <1>2, <1>3, <1>8, <1>11, <2>1 DEF Sought, Excused
  <2>2. CASE IsDir(target) /\ Visit(target, path, rest) /\ UNCHANGED list
    <3>1. /\ target \in Reachable(fs) /\ path \in Seq(Names) /\ LeadsTo(fs, path, target)
          /\ target # "source"
      BY <1>1, <1>6, <2>2, ReachableClosed, LeadsOn, KindsAssumption DEF IsDir
    <3>2. NoneMissed(fs, rest, visited, visited \cup {target}, list)
      BY <1>3, <1>9, <3>1 DEF NoneMissed
    <3> HIDE DEF target, path
    <3>3. /\ FramesRight(fs, frames', visited') /\ ListedRight(fs, frames', visited', list)
          /\ visited \subseteq visited' /\ visited' \subseteq Reachable(fs)
          /\ ok' \in BOOLEAN
          /\ ok' => /\ visited' \cap fs.closed = {} /\ target \in visited'
                    /\ NoneMissed(fs, frames', visited', visited', list)
          /\ ok' => cause' = cause
          /\ ~ok' => cause' # "none" \/ Reachable(fs) \cap fs.closed # {}
      BY <1>1, <1>3, <1>7, <1>8, <1>11, <2>2, <3>1, <3>2, VisitRight
    <3> QED
      BY <1>1, <1>2, <1>3, <2>2, <3>3 DEF Sought, Excused
  <2>3. CASE /\ target = "source" /\ frames' = rest /\ list' = Append(list, path)
             /\ UNCHANGED <<visited, ok, cause>>
    <3> DEFINE k == Len(list)
    <3>1. /\ k \in Nat /\ DOMAIN list = 1 .. k /\ DOMAIN list' = 1 .. k + 1
          /\ list'[k + 1] = path /\ \A i \in 1 .. k : list'[i] = list[i]
      BY <1>1, <2>3
    <3> HIDE DEF k
    <3>2. \A i \in DOMAIN list' : \/ i \in DOMAIN list /\ list'[i] = list[i]
                                  \/ i = k + 1 /\ list'[i] = path
      <4>1. \A i \in 1 .. k + 1 : i \in 1 .. k \/ i = k + 1
        BY <3>1
      <4> QED
        BY <3>1, <4>1
    <3>3. IsSource(fs, path, d, name) /\ FileAt(fs, path) = <<d, name>>
      BY <1>1, <1>6, <2>3, SourceAt DEF IsSource
    <3>4. \A i \in DOMAIN list : FileAt(fs, list[i]) # <<d, name>>
      <4> SUFFICES ASSUME NEW i \in DOMAIN list PROVE FileAt(fs, list[i]) # <<d, name>>
        OBVIOUS
      <4>1. PICK e \in visited : \E n \in DOMAIN fs.dirs[e] :
              IsSource(fs, list[i], e, n) /\ ~Pending(frames, e, n)
        BY <1>3 DEF ListedRight
      <4>2. PICK n \in DOMAIN fs.dirs[e] : IsSource(fs, list[i], e, n) /\ ~Pending(frames, e, n)
        BY <4>1
      <4>3. FileAt(fs, list[i]) = <<e, n>>
        BY <1>1, <4>2, SourceAt
      <4> QED
        BY <1>10, <4>2, <4>3
    <3> HIDE DEF path, target
    <3>5. ListedRight(fs, rest, visited, list')
      <4>1. ASSUME NEW i \in DOMAIN list'
            PROVE  \E e \in visited : \E n \in DOMAIN fs.dirs[e] :
                     IsSource(fs, list'[i], e, n) /\ ~Pending(rest, e, n)
        BY <1>6, <1>9, <1>11, <3>2, <3>3 DEF ListedRight
      <4>2. ASSUME NEW i \in DOMAIN list', NEW j \in DOMAIN list',
                   FileAt(fs, list'[i]) = FileAt(fs, list'[j])
            PROVE  i = j
        BY <1>3, <3>2, <3>3, <3>4, <4>2 DEF ListedRight
      <4> QED
        BY <4>1, <4>2 DEF ListedRight
    <3>6. NoneMissed(fs, rest, visited, visited, list')
      <4> SUFFICES ASSUME NEW e \in visited, NEW n \in DOMAIN fs.dirs[e], ~Pending(rest, e, n)
                   PROVE  /\ fs.dirs[e][n] \in DOMAIN fs.dirs => fs.dirs[e][n] \in visited
                          /\ fs.dirs[e][n] = "source" =>
                               \E i \in DOMAIN list' : FileAt(fs, list'[i]) = <<e, n>>
        BY DEF NoneMissed
      <4>1. k + 1 \in DOMAIN list' /\ \A i \in DOMAIN list : i \in DOMAIN list' /\ list'[i] = list[i]
        BY <3>1
      <4>2. CASE e = d /\ n = name
        BY <1>1, <2>3, <3>1, <3>3, <4>1, <4>2, KindsAssumption DEF target
      <4>3. CASE ~(e = d /\ n = name)
        <5>1. ~Pending(frames, e, n)
          BY <1>9, <4>3
        <5> QED
          BY <1>3, <4>1, <5>1 DEF NoneMissed
      <4> QED
        BY <4>2, <4>3
    <3> QED
      BY <1>1, <1>2, <1>3, <1>8, <2>3, <3>5, <3>6 DEF Sought
  <2>4. CASE /\ target \in {"other", "dangling"} /\ frames' = rest
             /\ UNCHANGED <<visited, list, ok, cause>>
    <3>1. target \notin DOMAIN fs.dirs /\ target # "source"
      BY <1>1, <2>4, KindsAssumption
    <3>2. NoneMissed(fs, rest, visited, visited, list)
      BY <1>3, <1>9, <3>1 DEF NoneMissed
    <3> QED
      BY <1>1, <1>2, <1>3, <1>8, <1>11, <2>4, <3>2 DEF Sought
  <2> QED
    BY <1>4, <2>1, <2>2, <2>3, <2>4 DEF target, path, rest, d
<1> QED
  BY <1>1, <1>2, <1>12 DEF Sought, SearchInv, SearchExact

LEMMA CloseGoesOn ==
  FilesInv /\ SearchInv /\ Close => SearchInv'
<1> SUFFICES ASSUME FilesInv, SearchInv, Close PROVE SearchInv'
  OBVIOUS
<1>1. /\ frames \in Seq(Walk) /\ frames # <<>> /\ job = "search" /\ at = "walk"
      /\ frames' = Front(frames) /\ (Last(frames).left = {} \/ ~ok)
      /\ UNCHANGED <<fs, at, job, found, cause, visited, list, ok>>
  BY DEF FilesInv, SearchHolds, Close
<1> DEFINE l == Len(frames)
<1>2. /\ l \in Nat \ {0} /\ DOMAIN frames = 1 .. l /\ DOMAIN frames' = 1 .. l - 1
      /\ \A i \in 1 .. l - 1 : frames'[i] = frames[i]
  BY <1>1 DEF Front
<1> HIDE DEF l
<1>3. \A i \in DOMAIN frames' : i \in DOMAIN frames /\ frames'[i] = frames[i]
  BY <1>2
<1>4. \A d, n : Pending(frames', d, n) => Pending(frames, d, n)
  BY <1>3 DEF Pending
<1>5. ASSUME ok, NEW d, NEW n, Pending(frames, d, n) PROVE Pending(frames', d, n)
  <2>1. PICK i \in DOMAIN frames : frames[i].dir = d /\ n \in frames[i].left
    BY <1>5 DEF Pending
  <2>2. i # l
    BY <1>1, <1>5, <2>1 DEF Last, l
  <2>3. i \in DOMAIN frames'
    BY <1>2, <2>2
  <2> QED
    BY <1>3, <2>1, <2>3 DEF Pending
<1>6. FramesRight(fs, frames', visited) /\ ListedRight(fs, frames', visited, list)
  BY <1>1, <1>3, <1>4 DEF SearchInv, FramesRight, ListedRight
<1>7. ok => NoneMissed(fs, frames', visited, visited, list)
  BY <1>1, <1>5 DEF SearchInv, NoneMissed
<1> QED
  BY <1>1, <1>6, <1>7 DEF SearchInv, SearchExact, Excused, IsDir

LEMMA CollectedRight ==
  FilesInv /\ SearchInv /\ Collected => SearchInv'
<1> SUFFICES ASSUME FilesInv, SearchInv, Collected PROVE SearchInv'
  OBVIOUS
<1>1. /\ job = "search" /\ at = "walk" /\ frames = <<>> /\ fs \in Searches
      /\ list \in Seq(Seq(Names)) /\ at' = "returned"
      /\ UNCHANGED <<job, fs, frames, visited, list, ok>>
  BY DEF FilesInv, SearchHolds, Collected, Returns, searchVars
<1>2. SearchExact'
  <2>1. CASE ok /\ (\E sorted \in Arranged(list) : Returns(sorted)) /\ UNCHANGED cause
    <3>1. PICK sorted \in Arranged(list) : found' = sorted
      BY <2>1 DEF Returns
    <3>2. /\ {FileAt(fs, sorted[i]) : i \in DOMAIN sorted} = SourcesIn(fs, Reachable(fs))
          /\ Len(sorted) = Cardinality(SourcesIn(fs, Reachable(fs)))
          /\ \A i \in 2 .. Len(sorted) : Before(sorted[i - 1], sorted[i])
          /\ visited = Reachable(fs)
      BY <1>1, <2>1, Answered DEF SearchInv
    <3>3. sorted # None
      <4>1. sorted \in Seq(Seq(Names))
        BY <1>1, SameFiles
      <4>2. Names \subseteq Range(Order)
        BY OrderAssumption DEF Names
      <4>3. Seq(Names) \subseteq Seq(Range(Order))
        BY <4>2
      <4>4. Seq(Seq(Names)) \subseteq Seq(Seq(Range(Order)))
        BY <4>3
      <4> QED
        BY <4>1, <4>4, NullAssumption
    <3>4. cause' = "none" /\ Reachable(fs) \cap fs.closed = {}
      BY <1>1, <2>1, <3>2 DEF SearchInv
    <3> QED
      BY <1>1, <3>1, <3>2, <3>3, <3>4 DEF SearchExact
  <2>2. CASE found' = None /\ (cause' = "memory" \/ (~ok /\ UNCHANGED cause))
    <3>1. cause' # "none" \/ ~IsDir(fs.root) \/ Reachable(fs) \cap fs.closed # {}
      BY <1>1, <2>2 DEF SearchInv, Excused
    <3> QED
      BY <1>1, <2>2, <3>1 DEF SearchExact, IsDir
  <2> QED
    BY <2>1, <2>2 DEF Collected, Returns
<1>3. ~ok' => Excused'
  BY <1>1 DEF SearchInv, Excused, Collected, IsDir
<1> QED
  BY <1>1, <1>2, <1>3 DEF SearchInv

LEMMA SearchAtRest == SearchInv /\ UNCHANGED fileVars => SearchInv'
BY DEF SearchInv, SearchExact, Excused, IsDir, fileVars, callVars, searchVars

LEMMA SearchGoesOn == IInv /\ SearchInv /\ [Next]_vars => SearchInv'
<1> SUFFICES ASSUME IInv, SearchInv, [Next]_vars PROVE SearchInv'
  OBVIOUS
<1>1. CASE OfFiles
  <2>1. CASE SearchNext
    BY <2>1, SearchBegins, EntryGoesOn, CloseGoesOn, CollectedRight DEF IInv, SearchNext
  <2>2. CASE CopyNext \/ \E c \in DOMAIN Places : CopyPath(c) \/ Mkdir(c) \/ Exists(c)
    <3>1. job # "search" /\ job' = job
      BY <2>2 DEF CopyNext, OpenToRead, GrowBuffer, ReadSome, OpenToWrite, WriteSome, CopyPath, Mkdir,
                  Exists, callVars
    <3> QED
      BY <3>1 DEF SearchInv
  <2> QED
    BY <1>1, <2>1, <2>2 DEF OfFiles, FilesNext
<1>2. CASE UNCHANGED fileVars
  BY <1>2, SearchAtRest
<1> QED
  BY <1>1, <1>2 DEF Next, OfProcess, OfChild, vars

\* A search that succeeds has listed every source file it can reach once and in order, however
\* links lead round, and one that fails had a reason (yc_fs_collect_yc_files).
THEOREM SearchFindsAll == Spec => []SearchExact
<1>1. Init => SearchInv
  <2>1. ASSUME NEW kind, FilesStart(kind) PROVE SearchInv
    BY <2>1 DEF FilesStart, SearchInv, SearchExact, FramesRight, ListedRight, NoneMissed
  <2> QED
    BY <2>1 DEF Init, FilesOff, FilesInit
<1>2. SearchInv => SearchExact
  BY DEF SearchInv, SearchExact
<1> QED
  BY <1>1, <1>2, Invariance, SearchGoesOn, PTL DEF Spec
=============================================================================

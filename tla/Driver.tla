------------------------------- MODULE Driver -------------------------------
(***************************************************************************)
(* The command line of the C++ bootstrap compiler (bootstrap/cpp/src/cli/  *)
(* driver.cpp) around its import resolution (Resolver.tla): arguments, the *)
(* project's configuration, the sources, code generation, the tools that   *)
(* make the executable, and its run.  Commands are given one after the     *)
(* other, and the files change between them.  Code generation, writing a   *)
(* file, the tools and the program may each fail.                          *)
(***************************************************************************)
EXTENDS Resolver

CONSTANTS
  Commands,  \* pairs of a file tree (files, current directory, configurations,
             \* environment) and a command line
  Again,     \* those given when an earlier command has left files
  MaxBuilds  \* bound: commands given

\* A file's imports are numbered, and no file declares itself the module a standard import
\* makes up, whose name has a "/".
ASSUME FilesAssumption ==
  \A c \in Commands \cup Again :
    /\ Nothing \notin DOMAIN c[1].files
    /\ \A f \in DOMAIN c[1].files :
         /\ DOMAIN c[1].files[f].imports \subseteq Nat
         /\ c[1].files[f].module = <<>> \/ c[1].files[f].module[1] # "std/"

VARIABLES
  tree,      \* the file tree a command finds
  args,      \* its arguments
  stage,     \* where it is
  base,      \* output_base
  out,       \* output_dir
  disk,      \* which command made each output file
  status,    \* its exit status
  ran,       \* which command made the program it ran, 0 if it ran none
  builds     \* commands given so far

driverVars == <<tree, args, stage, base, out, disk, status, ran, builds>>
vars == <<resolverVars, driverVars>>

-----------------------------------------------------------------------------
(* Arguments. *)

Modes == [ll |-> "ir", ir |-> "ir", build |-> "native", run |-> "run", debug |-> "debug"]
         @@ ("build-ir" :> "ir")
NoOptions == [mode |-> "native", keep |-> FALSE, llvm |-> FALSE, out |-> "", inputs |-> <<>>,
              stop |-> "", at |-> "words"]

\* One word of the command line; "at" is "value" after -o and "program" after --.
Word(o, a) ==
  CASE o.stop # "" \/ o.at = "program" -> o
    [] o.at = "value"              -> [o EXCEPT !.out = a, !.at = "words"]
    [] OTHER ->
         CASE a = "--"                     -> [o EXCEPT !.at = "program"]
           [] a \in {"-o", "--output"}     -> [o EXCEPT !.at = "value"]
           [] a = "help"                   -> [o EXCEPT !.stop = "help"]
           [] a \in DOMAIN Modes           -> [o EXCEPT !.mode = Modes[a]]
           [] a = "--keep-obj"             -> [o EXCEPT !.keep = TRUE]
           [] a = "--link-llvm"            -> [o EXCEPT !.llvm = TRUE]
           [] OTHER                        -> [o EXCEPT !.inputs = Append(@, a)]
OptionsOf(words) ==
  LET o == FoldLeft(Word, NoOptions, words)
  IN  IF o.at = "value" \/ words = <<>> THEN [o EXCEPT !.stop = "usage"] ELSE o

Options     == OptionsOf(args)
ProjectMode == Options.inputs = <<>> /\ Options.mode # "debug"
Native      == Options.mode \in {"native", "run"}

\* The first of the current directory and those above it that has something, if one has.
FirstAbove(limit, having) ==
  LET up(n) == SubSeq(tree.cwd, 1, Len(tree.cwd) - n)
      found == {n \in 0 .. limit - 1 : n <= Len(tree.cwd) /\ up(n) \in having}
  IN  IF found = {} THEN Nothing ELSE up(CHOOSE n \in found : \A m \in found : n <= m)

ConfigDir     == FirstAbove(10, DOMAIN tree.configs)
RuntimeSource == FirstAbove(16, tree.runtime)

\* ProjectConfig::load: what YCPL.json says, and what holds where it says nothing.
ProjectConfig(json) ==
  LET value(key, default) == IF json[key] = Nothing THEN default ELSE json[key]
  IN  [name |-> value("name", "unnamed"), src |-> value("src", <<<<"src">>>>),
       output |-> value("output", "build")]

\* The source files an argument names, itself or as the directory they are in.
InputFiles(input) == CASE input \in DOMAIN tree.inputs -> tree.inputs[input] [] OTHER -> {}

-----------------------------------------------------------------------------
(* Tools. *)

Executable(place, tool) == <<place, tool>> \in tree.env.tools
\* The first of some places a tool is in.
FirstIn(places, tool) ==
  LET having == SelectSeq(places, LAMBDA p : Executable(p, tool))
  IN  IF having = <<>> THEN Nothing ELSE Head(having)

LlvmConfig == FirstIn(<<"LLVM_CONFIG", "fixed", "PATH">>, "llvm-config")

\* The directory the llvm-config of the environment names and the one it lies in.
ConfigBindirs == IF Executable("LLVM_CONFIG", "llvm-config")
                 THEN <<"bindir of LLVM_CONFIG", "beside LLVM_CONFIG">> ELSE <<>>

\* A tool the environment names is taken as it is; one found nowhere is left to the shell.
Command(tool) ==
  LET place == FirstIn(<<"LLVM_BINDIR">> \o ConfigBindirs \o <<"fixed">>, tool)
  IN  CASE tool \in tree.env.explicit -> <<"explicit", tool>>
        [] tool \notin tree.env.explicit /\ place # Nothing -> <<place, tool>>
        [] OTHER -> <<"PATH", tool>>
Works(tool) == Command(tool) \in tree.env.tools
\* Without an llvm-config there are none, and a program that calls LLVM does not link.
LlvmFlags   == LlvmConfig # Nothing
NeedsLlvm   == \/ Options.llvm
               \/ \E d \in LinkProgram.functions : d[2].kind = "extern" /\ d[2].as = "LLVMOpen"

-----------------------------------------------------------------------------
DriverInit ==
  /\ ResolverInit
  /\ \E c \in Commands : tree = c[1] /\ args = c[2]
  /\ stage = "start" /\ base = "merged" /\ out = <<>> /\ disk = <<>>
  /\ status = 0 /\ ran = 0 /\ builds = 1

Exit(code) == stage' = "done" /\ status' = code
Goto(s)    == stage' = s /\ UNCHANGED status
At(s)     == stage = s /\ UNCHANGED <<tree, args, builds>>
Idle       == UNCHANGED resolverVars

Start ==
  /\ At("start")
  /\ CASE Options.stop = "help"  -> Exit(0)
       [] Options.stop = "usage" -> Exit(1)
       [] OTHER                  -> Goto("sources")
  /\ out' = IF Options.out = "" THEN tree.cwd ELSE Append(tree.cwd, Options.out)
  /\ Idle /\ UNCHANGED <<base, disk, ran>>

\* Inputs that are no file or directory are passed over with a message.
FindSources ==
  LET config  == ProjectConfig(tree.configs[ConfigDir])
      In(dirs) == SelectSeq(tree.sorted, LAMBDA f : \E d \in dirs : IsPrefix(d, Dir(f)))
      project == In({ConfigDir \o d : d \in ToSet(config.src)})
      inputs  == SelectSeq(tree.sorted, LAMBDA f : \E i \in ToSet(Options.inputs) :
                                                     f \in InputFiles(i))
      below   == [i \in DOMAIN inputs |-> SubSeq(Dir(inputs[i]), Len(tree.cwd) + 1,
                                                 Len(Dir(inputs[i])))]
      found   == IF ProjectMode THEN ConfigDir # Nothing /\ tree.configs[ConfigDir].object /\ project # <<>>
                 ELSE inputs # <<>>
  IN  /\ At("sources")
      /\ \/ ~found /\ Exit(1) /\ Idle /\ UNCHANGED <<base, out>>
         \/ /\ found /\ ProjectMode
            /\ ResolveAll(tree.files, ConfigDir, config.src, project)
            /\ base' = IF config.name = "" THEN "merged" ELSE config.name
            /\ out' = IF Options.out = "" THEN Append(ConfigDir, config.output) ELSE out
            /\ Goto("resolve")
         \/ /\ found /\ ~ProjectMode
            /\ ResolveAll(tree.files, tree.cwd, <<<<>>>> \o below, inputs)
            /\ base' = IF Len(inputs) = 1 THEN Stem(inputs[1]) ELSE "merged"
            /\ Goto("resolve") /\ UNCHANGED out
      /\ UNCHANGED <<disk, ran>>

Resolve == stage = "resolve" /\ ResolverNext /\ UNCHANGED driverVars

ResolutionFailed ==
  At("resolve") /\ phase = "failed" /\ Exit(1) /\ Idle /\ UNCHANGED <<base, out, disk, ran>>

\* A step that may fail, and the file it makes when it does not.
Makes(from, works, file, next) ==
  /\ At(from)
  /\ \/ works /\ disk' = Put(disk, file, builds) /\ next
     \/ Exit(1) /\ UNCHANGED disk
  /\ Idle /\ UNCHANGED <<base, out, ran>>

Maker(file) == IF file \in DOMAIN disk THEN disk[file] ELSE 0
Output(ext) == <<out, base, ext>>
Runtime     == <<out, "yc_runtime", ".o">>

\* CodeGen::generate and write_ir_to_file.
Generate == phase = "linked" /\ Makes("resolve", TRUE, Output(".ll"),
                                      IF Native THEN Goto("llc") ELSE Exit(0))
RunLlc  == Makes("llc", RuntimeSource # Nothing /\ Works("llc"), Output(".o"), Goto("runtime"))
Compile == Makes("runtime", Works("clang"), Runtime, Goto("link"))

\* A slip: the linker's result is not looked at.
CarelessLink ==
  /\ At("link")
  /\ \/ disk' = Put(disk, Output(""), builds)
     \/ UNCHANGED disk
  /\ Goto("clean") /\ Idle /\ UNCHANGED <<base, out, ran>>

Link == Makes("link", Works("clang") /\ (NeedsLlvm => LlvmFlags), Output(""), Goto("clean"))

Clean ==
  /\ At("clean")
  /\ disk' = IF Options.keep THEN disk
             ELSE [f \in DOMAIN disk \ {Output(".o"), Runtime} |-> disk[f]]
  /\ IF Options.mode = "run" THEN Goto("run") ELSE Exit(0)
  /\ Idle /\ UNCHANGED <<base, out, ran>>

\* Whatever the program's own status, the command's is 0 or 1.
RunProgram ==
  /\ At("run")
  /\ ran' = Maker(Output(""))
  /\ \E code \in {0, 1} : Exit(code)
  /\ Idle /\ UNCHANGED <<base, out, disk>>

NextCommand ==
  /\ stage = "done" /\ builds < MaxBuilds
  /\ \E c \in Again : tree' = c[1] /\ args' = c[2]
  /\ stage' = "start" /\ base' = "merged" /\ out' = <<>> /\ status' = 0 /\ ran' = 0
  /\ builds' = builds + 1
  /\ world' = Nothing /\ phase' = "idle" /\ given' = <<>> /\ modules' = <<>> /\ owner' = <<>>
  /\ failed' = FALSE /\ changed' = TRUE /\ sweep' = {} /\ visit' = NoVisit /\ bound' = <<>>
  /\ UNCHANGED disk

Working == \/ Start \/ FindSources \/ Resolve \/ ResolutionFailed \/ Generate \/ RunLlc
            \/ Compile \/ Link \/ Clean \/ RunProgram
Next == Working \/ NextCommand

\* A command runs on its own until it exits; nobody need give another.
Spec == DriverInit /\ [][Next]_vars /\ WF_vars(Working)

-----------------------------------------------------------------------------
(* What a build owes its sources, said of the files alone. *)

Imports(file) == ToSet(world.files[file].imports)
Opened(f) == IF Parsable(f) THEN {Resolved(i, f) : i \in Imports(f)} \ {Nothing} ELSE {}

\* The files a build needs: the least set with its sources and all that its files open.
Needed ==
  LET all    == world.sources \cup DOMAIN world.files
      closed == {S \in SUBSET all : world.sources \subseteq S /\ \A f \in S : Opened(f) \subseteq S}
  IN  {g \in all : \A S \in closed : g \in S}

Leads(i, f)   == Resolved(i, f) # Nothing \/ (~i.relative /\ IsStd(i.path))
Offered(f, a) == LET i == ImportOf(f, a)
                 IN  IF Resolved(i, f) = Nothing THEN StdModule(i.path).exports
                     ELSE Exports(Resolved(i, f))
Functions(offer) == {s \in DOMAIN offer : offer[s].function}

\* What a call of a file means: of a function by its name alone, through an alias, as a
\* method.
Offering(f, name) == {a \in Aliases(f) : name \in Functions(Offered(f, a))}
PlainMeaning(f, name) ==
  LET local == {fn \in world.files[f].functions : fn.name = name}
  IN  CASE local # {} -> Named(LinkName(ModuleName(f), The(local)))
        [] local = {} -> IF \E a \in Aliases(f) : name \in DOMAIN Offered(f, a) THEN Invalid
                         ELSE Named(name)
AliasMeaning(f, a, name) ==
  LET i == ImportOf(f, a)
  IN  CASE Resolved(i, f) = Nothing -> Named(Intrinsic(i.path, name))
        [] Resolved(i, f) # Nothing /\ a \in Offering(f, name) -> Named(Offered(f, a)[name].link)
        [] OTHER -> Invalid
MethodMeaning(f, name) ==
  IF name \notin VecMethods /\ \E a \in Offering(f, name) : Offering(f, name) = {a}
  THEN Named(Offered(f, The(Offering(f, name)))[name].link)
  ELSE Named(name)
Meaning(f, call) ==
  CASE call.on = "" -> PlainMeaning(f, call.name)
    [] call.on # "" /\ call.on \in Aliases(f) -> AliasMeaning(f, call.on, call.name)
    [] OTHER -> MethodMeaning(f, call.name)

Calls(f) == {call \in world.files[f].calls : Reached(call)}
Buildable ==
  \A f \in Needed :
    /\ Parsable(f) /\ Sound(f)
    /\ \A i \in Imports(f) : Leads(i, f)
    /\ \A call \in Calls(f) : Meaning(f, call) # Invalid
NamesDiffer == \A f, g \in Needed : ModuleName(f) = ModuleName(g) => f = g

\* Whatever the order in which hash tables give modules and imports, and however the imports
\* lead round in circles, sources whose modules have names of their own are resolved exactly
\* when every file they need is there, parses and calls only what it may; then just those
\* files are linked and each call is bound to the function it means (ModuleResolver::
\* resolve_all; the capacity of a Vec literal excepted, which the rewriting does not enter).
ResolvesExactly ==
  stage = "resolve" /\ phase \in {"linked", "failed"} /\ NamesDiffer =>
    /\ phase = "linked" <=> Buildable
    /\ phase = "linked" =>
         /\ {modules[m].file : m \in Loaded} = Needed
         /\ \A f \in Needed : \A call \in Calls(f) :
              bound[ModuleName(f)][call] = Meaning(f, call)

\* A command tells the truth about what it left: with status 0 the IR, and the executable
\* when it makes one, are this command's own and not an earlier one's under the same name,
\* its objects are gone unless --keep-obj, and the program it ran is the one it built
\* (run_ycc, build_native_executable).
ReportsTruly ==
  /\ ran # 0 => ran = builds
  /\ stage = "done" /\ status = 0 /\ Options.stop = "" =>
       /\ Maker(Output(".ll")) = builds
       /\ Native => Maker(Output("")) = builds
       /\ Native => (Options.keep <=> Output(".o") \in DOMAIN disk)
       /\ Options.mode = "run" => ran = builds

\* Every command ends, whatever its imports: the sweeps over the modules stop although files
\* import each other and a file that does not parse is tried again by each of its importers.
BuildEnds == stage = "start" ~> stage = "done"
=============================================================================

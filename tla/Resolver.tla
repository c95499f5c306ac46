------------------------------ MODULE Resolver ------------------------------
(***************************************************************************)
(* Import resolution of the C++ bootstrap compiler (bootstrap/cpp/src/     *)
(* module/resolver.cpp): the given files are parsed, their imports are     *)
(* followed until none is new, the calls of every module are rewritten to  *)
(* link names and the modules are merged into one program.                 *)
(*                                                                         *)
(* A file is a pair of its directory, a sequence of names, and its stem.   *)
(* What it holds is a record: whether it lexes and parses, its module      *)
(* declaration, imports, functions, other declarations and calls.  Hash    *)
(* tables are walked in any order.                                         *)
(***************************************************************************)
EXTENDS Naturals, Sequences, SequencesExt, TLC

CONSTANT Nothing   \* no file, no module

VARIABLES
  world,    \* the files, project_root_, source_dirs_ and the sources given
  phase,    \* what resolve_all is at: idle, parse, imports, rewrite, linked or failed
  given,    \* source files not parsed yet, at their places in the list
  modules,  \* modules_, by name
  owner,    \* file_to_module_
  failed,   \* an error of resolve_imports
  changed,  \* a file was parsed in this sweep over the modules
  sweep,    \* modules the sweep has yet to visit
  visit,    \* the module being visited, with its aliases left to resolve
  bound     \* what the calls of each linked module became

resolverVars == <<world, phase, given, modules, owner, failed, changed, sweep, visit, bound>>

\* A table with an entry set.
Put(table, key, value) ==
  [k \in DOMAIN table \cup {key} |-> IF k = key THEN value ELSE table[k]]

\* The one element of a set, or some element.
The(S) == CHOOSE x \in S : TRUE

\* The name of no module: what an import that failed leads to.
NoName == <<>>

Stem(f) == f[2]
Dir(f)  == f[1]
Exists(f) == f \in DOMAIN world.files

-----------------------------------------------------------------------------
(* Names. *)

Sanitized(name) ==
  FoldLeft(LAMBDA text, part : IF text = "" THEN part ELSE text \o "__" \o part, "", name)
Mangled(module, f) == IF f = "main" THEN "main" ELSE Sanitized(module) \o "__" \o f
Intrinsic(module, f) == "__YCPL_" \o Sanitized(module) \o "_" \o f

StdSymbols == [fmt   |-> {"print", "println", "printf"},
               array |-> {"new", "len", "cap", "append", "get", "set", "free"},
               mem   |-> {"alloc", "calloc", "realloc", "free", "copy", "set", "sizeof"},
               str   |-> {"len", "eq", "cmp", "copy"},
               math  |-> {"abs", "pow", "sin", "cos", "sqrt"}]
IsStd(path) == path \in {<<"std", name>> : name \in DOMAIN StdSymbols}
IsInternal(module) == module[1] = "std" \/ module = <<"c", "llvm">>
VecMethods == {"push", "len", "capacity", "reserve", "clear", "as_slice"}

LinkName(module, fn) ==
  CASE fn.kind = "intrinsic" -> Intrinsic(module, fn.name)
    [] fn.kind = "extern" -> fn.as
    [] OTHER -> Mangled(module, fn.name)

-----------------------------------------------------------------------------
(* Where an import leads. *)

Under(root, path) ==
  LET file == <<root \o Front(path), Last(path)>>
      index == <<root \o path, "index">>
  IN  CASE Exists(file) -> file
        [] ~Exists(file) /\ Exists(index) -> index
        [] OTHER -> Nothing

\* Beside the file, then in the source directories, then in the stl of the project root
\* and of the directories above it.
Resolved(import, from) ==
  LET dirs  == Len(world.dirs)
      depth == Len(world.root)
      above == IF depth < 12 THEN depth + 1 ELSE 12
      Root(n) == CASE n = 0 -> Dir(from)
                   [] n \in 1 .. dirs -> world.root \o world.dirs[n]
                   [] OTHER -> Append(SubSeq(world.root, 1, depth + 1 - (n - dirs)), "stl")
      found == {n \in (IF import.relative THEN 0 ELSE 1) .. dirs + above :
                  Under(Root(n), import.path) # Nothing}
  IN  IF found = {} THEN Nothing
      ELSE Under(Root(CHOOSE n \in found : \A k \in found : n <= k), import.path)

-----------------------------------------------------------------------------
(* A parsed file. *)

Alias(import)  == IF import.alias = "" THEN Last(import.path) ELSE import.alias
Aliases(file)  == {Alias(world.files[file].imports[i]) : i \in DOMAIN world.files[file].imports}
ModuleName(file) == IF world.files[file].module = <<>> THEN <<Stem(file)>>
                    ELSE world.files[file].module

\* The last import of an alias is the one kept.
ImportOf(file, alias) ==
  LET is == world.files[file].imports
  IN  is[CHOOSE i \in DOMAIN is : /\ Alias(is[i]) = alias
                                  /\ \A j \in DOMAIN is : Alias(is[j]) = alias => j <= i]

Sound(file) ==
  LET is == world.files[file].imports
  IN  /\ \A i, j \in DOMAIN is : Alias(is[i]) = Alias(is[j]) => i = j
      /\ \A fn \in world.files[file].functions :
           /\ fn.kind \in {"extern", "intrinsic"} => ~fn.body
           /\ fn.kind = "intrinsic" => IsInternal(ModuleName(file))

Info(file) == [file |-> file, virtual |-> FALSE, exports |-> <<>>, targets |-> <<>>,
               aliases |-> [a \in Aliases(file) |-> ImportOf(file, a)]]

\* parse_file keeps what it parsed even when a declaration in it is an error, in place of
\* any module of that name.
Parsable(file) == file \in DOMAIN world.files /\ world.files[file].parses
Registered(file) == Put(modules, ModuleName(file), Info(file))

Exports(file) ==
  LET c == world.files[file]
      public == {fn \in c.functions : fn.pub}
  IN  [s \in {fn.name : fn \in public} \cup c.structs |->
         IF s \in c.structs THEN [link |-> Mangled(ModuleName(file), s), function |-> FALSE]
         ELSE [link |-> LinkName(ModuleName(file), CHOOSE fn \in public : fn.name = s),
               function |-> TRUE]]

StdModule(path) ==
  [file |-> Nothing, virtual |-> TRUE, targets |-> <<>>, aliases |-> <<>>,
   exports |-> [s \in StdSymbols[path[2]] |->
                  [link |-> Intrinsic(path, s), function |-> TRUE]]]
StdName(path) == <<"std/", path[2]>>

-----------------------------------------------------------------------------
\* No module is being visited.
NoVisit == [module |-> Nothing, from |-> Nothing, left |-> {}]

ResolverInit ==
  /\ world = Nothing /\ phase = "idle" /\ given = <<>>
  /\ modules = <<>> /\ owner = <<>> /\ failed = FALSE /\ changed = TRUE
  /\ sweep = {} /\ visit = NoVisit /\ bound = <<>>

\* A resolver is made for each command.
ResolveAll(files, root, dirs, sources) ==
  /\ world' = [files |-> files, root |-> root, dirs |-> dirs, sources |-> ToSet(sources)]
  /\ phase' = "parse"
  /\ given' = sources /\ modules' = <<>> /\ owner' = <<>> /\ failed' = FALSE
  /\ changed' = TRUE /\ sweep' = {} /\ visit' = NoVisit /\ bound' = <<>>

ParseGiven ==
  /\ phase = "parse"
  /\ \E next \in DOMAIN given :
       LET file == given[next]
       IN  /\ \A place \in DOMAIN given : next <= place
           /\ given' = [place \in DOMAIN given \ {next} |-> given[place]]
           /\ IF Parsable(file)
              THEN /\ modules' = Registered(file)
                   /\ owner' = Put(owner, file, ModuleName(file))
                   /\ phase' = IF Sound(file) THEN "parse" ELSE "failed"
              ELSE phase' = "failed" /\ UNCHANGED <<modules, owner>>
  /\ UNCHANGED <<world, failed, changed, sweep, visit, bound>>

ExtractExports ==
  /\ phase = "parse" /\ DOMAIN given = {}
  /\ phase' = "imports"
  /\ modules' = [m \in DOMAIN modules |->
                   [modules[m] EXCEPT !.exports = Exports(modules[m].file)]]
  /\ UNCHANGED <<world, given, owner, failed, changed, sweep, visit, bound>>

\* A slip: the modules are swept as long as there are any.
EndlessBeginSweep ==
  /\ phase = "imports" /\ sweep = {} /\ visit.left = {}
  /\ changed' = FALSE
  /\ sweep' = {m \in DOMAIN modules : ~modules[m].virtual}
  /\ UNCHANGED <<world, phase, given, modules, owner, failed, visit, bound>>

BeginSweep ==
  /\ phase = "imports" /\ changed /\ sweep = {} /\ visit.left = {}
  /\ changed' = FALSE
  /\ sweep' = {m \in DOMAIN modules : ~modules[m].virtual}
  /\ UNCHANGED <<world, phase, given, modules, owner, failed, visit, bound>>

Visiting(m, file, left) ==
  IF left = {} THEN NoVisit ELSE [module |-> m, from |-> file, left |-> left]
VisitModule ==
  /\ visit.left = {}
  /\ \E m \in sweep :
       /\ sweep' = sweep \ {m}
       /\ visit' = Visiting(m, modules[m].file,
                            {<<a, modules[m].aliases[a]>> : a \in DOMAIN modules[m].aliases})
  /\ UNCHANGED <<world, phase, given, modules, owner, failed, changed, bound>>

Targets(ms, alias, target) ==
  [ms EXCEPT ![visit.module].targets = Put(@, alias, target)]
\* The standard module of a path, if it is not among the modules yet.
WithStd(path) ==
  IF StdName(path) \in DOMAIN modules THEN modules
  ELSE Put(modules, StdName(path), StdModule(path))

ResolveAlias ==
  /\ \E a \in visit.left :
       LET alias == a[1] import == a[2] file == Resolved(import, visit.from)
           known == alias \in DOMAIN modules[visit.module].targets
           std   == file = Nothing /\ ~import.relative /\ IsStd(import.path)
       IN  /\ visit' = Visiting(visit.module, visit.from, visit.left \ {a})
           /\ CASE known -> UNCHANGED <<modules, owner, failed, changed>>
                [] ~known /\ std ->
                     /\ modules' = Targets(WithStd(import.path), alias, StdName(import.path))
                     /\ UNCHANGED <<owner, failed, changed>>
                [] ~known /\ ~std /\ file \in DOMAIN owner ->
                     /\ modules' = Targets(modules, alias, owner[file])
                     /\ UNCHANGED <<owner, failed, changed>>
                [] ~known /\ ~std /\ file \notin DOMAIN owner /\ Parsable(file) ->
                     /\ owner' = Put(owner, file, ModuleName(file))
                     /\ modules' = IF Sound(file)
                                   THEN Targets([Registered(file) EXCEPT
                                                   ![ModuleName(file)].exports = Exports(file)],
                                                alias, ModuleName(file))
                                   ELSE Targets(Registered(file), alias, NoName)
                     /\ failed' = (failed \/ ~Sound(file))
                     /\ changed' = (changed \/ Sound(file))
                [] OTHER ->
                     /\ modules' = Targets(modules, alias, NoName)
                     /\ failed' = TRUE
                     /\ UNCHANGED <<owner, changed>>
  /\ UNCHANGED <<world, phase, given, sweep, bound>>

EndSweeps ==
  /\ phase = "imports" /\ ~changed /\ sweep = {} /\ visit.left = {}
  /\ phase' = IF failed THEN "failed" ELSE "rewrite"
  /\ UNCHANGED <<world, given, modules, owner, failed, changed, sweep, visit, bound>>

-----------------------------------------------------------------------------
(* Calls.  A call names a function alone, through a word that may be an alias, or as a
   method of some expression.  What it becomes is a link name, or nothing when it is an
   error. *)

Named(name) == <<name>>
Invalid     == <<>>
Exported(m) == {s \in DOMAIN modules[m].exports : modules[m].exports[s].function}
TargetsOf(m) == {a \in DOMAIN modules[m].targets : modules[m].targets[a] \in DOMAIN modules}
Local(m, f) == {fn \in world.files[modules[m].file].functions : fn.name = f}
OffersOf(m, f) == {a \in TargetsOf(m) : f \in Exported(modules[m].targets[a])}

\* A slip: one of the functions of that name is taken.
FirstMethodName(m, f) ==
  IF f \notin VecMethods /\ OffersOf(m, f) # {}
  THEN Named(modules[modules[m].targets[The(OffersOf(m, f))]].exports[f].link)
  ELSE Named(f)

MethodName(m, f) ==
  IF f \notin VecMethods /\ \E a \in OffersOf(m, f) : OffersOf(m, f) = {a}
  THEN Named(modules[modules[m].targets[The(OffersOf(m, f))]].exports[f].link)
  ELSE Named(f)

\* A function called by its name alone, and one called through an alias.
PlainName(m, f) ==
  CASE Local(m, f) # {} -> Named(LinkName(m, The(Local(m, f))))
    [] Local(m, f) = {} ->
         IF \E a \in TargetsOf(m) : f \in DOMAIN modules[modules[m].targets[a]].exports
         THEN Invalid ELSE Named(f)
AliasName(m, a, f) ==
  LET t == modules[m].targets[a]
  IN  CASE t = NoName -> Invalid
        [] t # NoName /\ modules[t].virtual -> Named(Intrinsic(modules[m].aliases[a].path, f))
        [] OTHER -> IF f \in Exported(t) THEN Named(modules[t].exports[f].link) ELSE Invalid

Rewritten(m, call) ==
  CASE call.on = "" -> PlainName(m, call.name)
    [] call.on # "" /\ call.on \in DOMAIN modules[m].targets ->
         AliasName(m, call.on, call.name)
    [] OTHER -> MethodName(m, call.name)

\* rewrite_stmt and rewrite_expr enter every statement and expression but the capacity of a
\* Vec literal.
Entered == {"expression", "return", "defer", "variable", "assignment", "block", "if", "switch",
            "case", "for", "for in", "for ;;"}
Reached(call) == call.stmt \in Entered /\ call.place # "capacity"
Loaded == {m \in DOMAIN modules : ~modules[m].virtual}

RewriteModules ==
  /\ phase = "rewrite"
  /\ bound' = [m \in Loaded |->
                 [call \in world.files[modules[m].file].calls |->
                    IF Reached(call) THEN Rewritten(m, call) ELSE Named(call.name)]]
  /\ phase' = IF \E m \in Loaded : \E call \in DOMAIN bound'[m] : bound'[m][call] = Invalid
              THEN "failed" ELSE "linked"
  /\ UNCHANGED <<world, given, modules, owner, failed, changed, sweep, visit>>

ResolverNext == \/ ParseGiven \/ ExtractExports \/ BeginSweep \/ VisitModule \/ ResolveAlias
                \/ EndSweeps \/ RewriteModules

\* link_program: the types of every module, its structs, then its functions; statements
\* outside functions are left out.
Linked(part) == UNION {{<<modules[m].file, d>> : d \in world.files[modules[m].file][part]} :
                         m \in Loaded}
LinkProgram == [types |-> Linked("types"), structs |-> Linked("structs"),
                functions |-> Linked("functions")]
=============================================================================

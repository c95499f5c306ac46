---------------------------- MODULE DriverProofs ----------------------------
(***************************************************************************)
(* Proofs about Driver, for all file trees, command lines and failures.    *)
(*                                                                         *)
(* The argument for ReportsTruly: a stage is reached only through those    *)
(* before it in the same command, and each of them leaves a file of this   *)
(* command that nothing later takes away, so that what the command has to  *)
(* show at its end has gathered on the way.                                *)
(*                                                                         *)
(* The argument for ResolvesExactly: the tables hold only files that are   *)
(* needed, and an import that was followed leads where its path says.  A   *)
(* sweep that met no new file has followed every import, so the table is   *)
(* closed under imports and holds the least closed set, what is needed;    *)
(* the rewriting then finds in it what the sources mean.                   *)
(***************************************************************************)
EXTENDS Driver, TLAPS

Stages == {"start", "sources", "resolve", "llc", "runtime", "link", "clean", "run", "done"}

DriverTypeOK ==
  /\ stage \in Stages /\ status \in {0, 1}
  /\ builds \in Nat \ {0} /\ ran \in Nat

Mine(ext) == Output(ext) \in DOMAIN disk /\ disk[Output(ext)] = builds

\* What a stage has found or left when it is reached.
Gathered ==
  /\ stage \in {"llc", "runtime", "link", "clean", "run"} => Native /\ Mine(".ll")
  /\ stage \in {"runtime", "link", "clean"} => Output(".o") \in DOMAIN disk
  /\ stage \in {"clean", "run"} => Mine("")
  /\ stage = "run" => /\ Options.mode = "run"
                      /\ Options.keep <=> Output(".o") \in DOMAIN disk

\* The program run is the one this command has built.
RanOwn == ran # 0 => stage = "done" /\ ran = builds

\* What is there at a successful end.
Delivered ==
  stage = "done" /\ status = 0 /\ Options.stop = "" =>
    /\ Mine(".ll")
    /\ Native => Mine("") /\ (Options.keep <=> Output(".o") \in DOMAIN disk)
    /\ Options.mode = "run" => ran = builds

DriverIInv == DriverTypeOK /\ Gathered /\ RanOwn /\ Delivered

-----------------------------------------------------------------------------
(* What the resolver has found so far.                                     *)

\* The facts about the files FilesAssumption states.
FilesOK ==
  /\ Nothing \notin DOMAIN world.files
  /\ \A f \in DOMAIN world.files :
       /\ DOMAIN world.files[f].imports \subseteq Nat
       /\ world.files[f].module = <<>> \/ world.files[f].module[1] # "std/"

IsModule(r) ==
  r = [file |-> r.file, virtual |-> r.virtual, exports |-> r.exports, targets |-> r.targets,
       aliases |-> r.aliases]

\* Each file parsed is needed, and a module has its name.
ParsedOK(ow, ms) ==
  \A f \in DOMAIN ow :
    /\ f \in Needed /\ Parsable(f) /\ Sound(f) /\ ow[f] = ModuleName(f)
    /\ ModuleName(f) \in DOMAIN ms /\ ~ms[ModuleName(f)].virtual /\ ms[ModuleName(f)].file = f

\* An import leads where its path says, to a standard module made up or to a file parsed.
LeadsTo(ow, ms, i, f, target) ==
  \/ /\ Resolved(i, f) = Nothing /\ ~i.relative /\ IsStd(i.path)
     /\ target = StdName(i.path) /\ target \in DOMAIN ms
  \/ /\ Resolved(i, f) \in DOMAIN ow /\ target = ModuleName(Resolved(i, f))

\* What a file's entry among the modules holds.
EntryOK(ow, ms, m, ph) ==
  LET f == ms[m].file
  IN  /\ IsModule(ms[m]) /\ f \in DOMAIN ow /\ m = ModuleName(f)
      /\ ms[m].aliases = [a \in Aliases(f) |-> ImportOf(f, a)]
      /\ ph # "parse" => ms[m].exports = Exports(f)
      /\ \A a \in DOMAIN ms[m].targets :
           a \in Aliases(f) /\ LeadsTo(ow, ms, ImportOf(f, a), f, ms[m].targets[a])
VirtualOK(ms, m) ==
  \E s \in DOMAIN StdSymbols : m = <<"std/", s>> /\ ms[m] = StdModule(<<"std", s>>)
ModulesOK(ow, ms, ph) ==
  \A m \in DOMAIN ms : IF ms[m].virtual THEN VirtualOK(ms, m) ELSE EntryOK(ow, ms, m, ph)

\* The sources are parsed or still given.
GivenOK(gv, ow) ==
  /\ \A f \in world.sources : f \in DOMAIN ow \/ \E n \in DOMAIN gv : gv[n] = f
  /\ \A n \in DOMAIN gv : gv[n] \in world.sources

\* The sweep has modules of files before it, and the visit is at imports of one.
SweepOK(ms, sw, vi) ==
  /\ \A m \in sw : m \in DOMAIN ms /\ ~ms[m].virtual
  /\ vi.left # {} =>
       /\ vi.module \in DOMAIN ms /\ ~ms[vi.module].virtual /\ vi.from = ms[vi.module].file
       /\ \A x \in vi.left : \E a \in Aliases(vi.from) : x = <<a, ImportOf(vi.from, a)>>

AllLed(ms, m) == Aliases(ms[m].file) \subseteq DOMAIN ms[m].targets

\* Unless a new file was parsed in this sweep, the modules it has passed are complete.
SweptOK(ms, sw, vi) ==
  \A m \in DOMAIN ms :
    \/ ms[m].virtual \/ m \in sw \/ AllLed(ms, m)
    \/ /\ vi.left # {} /\ vi.module = m
       /\ \A a \in Aliases(ms[m].file) :
            a \in DOMAIN ms[m].targets \/ <<a, ImportOf(ms[m].file, a)>> \in vi.left

ResolvedAt(ow, ms, gv, sw, vi, ch, ph) ==
  /\ ParsedOK(ow, ms) /\ ModulesOK(ow, ms, ph)
  /\ GivenOK(gv, ow) /\ SweepOK(ms, sw, vi)
  /\ ph = "parse" => ch /\ \A m \in DOMAIN ms : ~ms[m].virtual
  /\ ph \in {"imports", "rewrite", "linked"} => DOMAIN gv = {}
  /\ ph = "imports" => ch \/ SweptOK(ms, sw, vi)
  /\ ph \in {"rewrite", "linked"} => \A m \in DOMAIN ms : ms[m].virtual \/ AllLed(ms, m)
ResolvedSoFar == ResolvedAt(owner, modules, given, sweep, visit, changed, phase)

Conclusion ==
  /\ phase = "linked" <=> Buildable
  /\ phase = "linked" =>
       /\ {modules[m].file : m \in Loaded} = Needed
       /\ \A f \in Needed : \A call \in Calls(f) : bound[ModuleName(f)][call] = Meaning(f, call)

ResolverIInv ==
  /\ phase \in {"parse", "imports", "rewrite", "linked", "failed"}
  /\ phase # "imports" => sweep = {} /\ visit.left = {}
  /\ failed => phase \in {"imports", "failed"}
  /\ FilesOK
  /\ NamesDiffer =>
       /\ failed \/ phase = "failed" => ~Buildable
       /\ ~failed /\ phase # "failed" => ResolvedSoFar
       /\ phase \in {"linked", "failed"} => Conclusion

-----------------------------------------------------------------------------
(* What the files say, whatever the resolver has done. *)

LEMMA SameFiles ==
  ASSUME world' = world
  PROVE  \A f : /\ Parsable(f)' <=> Parsable(f)
                /\ ModuleName(f)' = ModuleName(f)
                /\ Imports(f)' = Imports(f)
                /\ Aliases(f)' = Aliases(f)
                /\ \A a : ImportOf(f, a)' = ImportOf(f, a)
BY DEF Parsable, ModuleName, Imports, Aliases, ImportOf

LEMMA SameImports ==
  ASSUME world' = world
  PROVE  \A i, f : Resolved(i, f)' = Resolved(i, f)
BY DEF Resolved, Under, Exists

LEMMA SameExports ==
  ASSUME world' = world
  PROVE  \A f : Exports(f)' = Exports(f)
BY DEF Exports, ModuleName

LEMMA SameSound ==
  ASSUME world' = world
  PROVE  \A f : Sound(f)' <=> Sound(f)
BY DEF Sound, ModuleName

LEMMA SameNeeded ==
  ASSUME world' = world
  PROVE  Needed' = Needed
<1>1. \A f : Opened(f)' = Opened(f)
  BY SameImports, SameFiles DEF Opened
<1>2. QED
  BY <1>1 DEF Needed

LEMMA SameMeaning ==
  ASSUME world' = world
  PROVE  \A f, call : Meaning(f, call)' = Meaning(f, call)
<1>1. \A f, a : Offered(f, a)' = Offered(f, a)
  BY SameExports, SameImports, SameFiles DEF Offered
<1>2. \A f, n : Offering(f, n)' = Offering(f, n)
  BY <1>1, SameFiles DEF Offering
<1>3. \A f, n : PlainMeaning(f, n)' = PlainMeaning(f, n)
  BY <1>1, SameFiles DEF PlainMeaning
<1>4. \A f, a, n : AliasMeaning(f, a, n)' = AliasMeaning(f, a, n)
  BY <1>1, <1>2, SameImports, SameFiles DEF AliasMeaning
<1>5. \A f, n : MethodMeaning(f, n)' = MethodMeaning(f, n)
  BY <1>1, <1>2 DEF MethodMeaning
<1>6. TAKE f, call
<1>7. Aliases(f)' = Aliases(f)
  BY SameFiles
<1>8. CASE call.on = ""
  BY <1>3, <1>8 DEF Meaning
<1>9. CASE call.on # "" /\ call.on \in Aliases(f)
  BY <1>4, <1>7, <1>9 DEF Meaning
<1>10. CASE call.on # "" /\ call.on \notin Aliases(f)
  BY <1>5, <1>7, <1>10 DEF Meaning
<1>11. QED
  BY <1>8, <1>9, <1>10

LEMMA SameVerdict ==
  ASSUME world' = world
  PROVE  /\ Buildable' <=> Buildable
         /\ FilesOK' <=> FilesOK
         /\ NamesDiffer' <=> NamesDiffer
<1>1. \A f : Calls(f)' = Calls(f)
  BY DEF Calls
<1>2. \A i, f : Leads(i, f)' <=> Leads(i, f)
  BY SameImports DEF Leads
<1>3. Buildable' <=> Buildable
  BY <1>1, <1>2, SameMeaning, SameNeeded, SameSound, SameFiles DEF Buildable
<1>4. QED
  BY <1>3, SameNeeded, SameFiles DEF FilesOK, NamesDiffer

LEMMA SameResolved ==
  ASSUME world' = world
  PROVE  ResolvedSoFar' <=> ResolvedAt(owner', modules', given', sweep', visit', changed', phase')
<1>1. \A i, f, target : LeadsTo(owner, modules, i, f, target)' <=>
                          LeadsTo(owner', modules', i, f, target)
  BY SameImports, SameFiles DEF LeadsTo
<1>2. \A m : EntryOK(owner, modules, m, phase)' <=> EntryOK(owner', modules', m, phase')
  BY <1>1, SameFiles, SameExports DEF EntryOK
<1>3. ParsedOK(owner, modules)' <=> ParsedOK(owner', modules')
  BY SameNeeded, SameSound, SameFiles DEF ParsedOK
<1>4. ModulesOK(owner, modules, phase)' <=> ModulesOK(owner', modules', phase')
  BY <1>2 DEF ModulesOK
<1>5. GivenOK(given, owner)' <=> GivenOK(given', owner')
  BY DEF GivenOK
<1>6. SweepOK(modules, sweep, visit)' <=> SweepOK(modules', sweep', visit')
  BY SameFiles DEF SweepOK
<1>7. \A m : AllLed(modules, m)' <=> AllLed(modules', m)
  BY SameFiles DEF AllLed
<1>8. SweptOK(modules, sweep, visit)' <=> SweptOK(modules', sweep', visit')
  BY <1>7, SameFiles DEF SweptOK
<1>9. QED
  BY <1>3, <1>4, <1>5, <1>6, <1>7, <1>8 DEF ResolvedSoFar, ResolvedAt

\* An import leads to a file that is there, or nowhere.
LEMMA ResolvedIs == \A i, f : Resolved(i, f) \in DOMAIN world.files \cup {Nothing}
<1>1. \A root, path : Under(root, path) \in DOMAIN world.files \cup {Nothing}
  BY DEF Under, Exists
<1>2. QED
  BY <1>1 DEF Resolved

\* What a build needs is the least set with the sources and what its files open.
LEMMA NeededIs ==
  /\ world.sources \subseteq Needed
  /\ \A f \in Needed : Opened(f) \subseteq Needed
  /\ \A S : world.sources \subseteq S /\ (\A f \in S : Opened(f) \subseteq S) => Needed \subseteq S
<1> DEFINE all    == world.sources \cup DOMAIN world.files
           closed == {S \in SUBSET all : /\ world.sources \subseteq S
                                         /\ \A f \in S : Opened(f) \subseteq S}
<1>1. Needed = {g \in all : \A S \in closed : g \in S}
  BY DEF Needed
<1>2. \A f : Opened(f) \subseteq all
  BY ResolvedIs DEF Opened
<1>3. world.sources \subseteq Needed
  BY <1>1
<1>4. \A f \in Needed : Opened(f) \subseteq Needed
  BY <1>1, <1>2
<1>5. ASSUME NEW S, world.sources \subseteq S, \A f \in S : Opened(f) \subseteq S
      PROVE  Needed \subseteq S
  <2>1. S \cap all \in closed
    BY <1>2, <1>5
  <2>2. QED
    BY <1>1, <2>1
<1>6. QED
  BY <1>3, <1>4, <1>5

\* Of a sound file, an alias stands for one import.
LEMMA ImportOfIs ==
  ASSUME FilesOK, NEW f, Parsable(f), Sound(f)
  PROVE  /\ \A a \in Aliases(f) : ImportOf(f, a) \in Imports(f)
         /\ \A i \in Imports(f) : Alias(i) \in Aliases(f) /\ ImportOf(f, Alias(i)) = i
<1> DEFINE is == world.files[f].imports
           Kept(a, k) == Alias(is[k]) = a /\ \A j \in DOMAIN is : Alias(is[j]) = a => j <= k
<1>1. DOMAIN is \subseteq Nat
  BY DEF FilesOK, Parsable
<1>2. \A j, k \in DOMAIN is : Alias(is[j]) = Alias(is[k]) => j = k
  BY DEF Sound
<1>3. ASSUME NEW k \in DOMAIN is PROVE ImportOf(f, Alias(is[k])) = is[k]
  <2>1. Kept(Alias(is[k]), k) /\ \A j \in DOMAIN is : Kept(Alias(is[k]), j) => j = k
    BY <1>1, <1>2
  <2>2. ImportOf(f, Alias(is[k])) = is[CHOOSE j \in DOMAIN is : Kept(Alias(is[k]), j)]
    BY DEF ImportOf
  <2>3. (CHOOSE j \in DOMAIN is : Kept(Alias(is[k]), j)) = k
    <3> HIDE DEF Kept, is
    <3>1. QED
      BY <2>1
  <2>4. QED
    BY <2>2, <2>3
<1>4. Imports(f) = {is[k] : k \in DOMAIN is} /\ Aliases(f) = {Alias(is[k]) : k \in DOMAIN is}
  BY DEF Imports, Aliases, ToSet
<1> HIDE DEF is
<1>5. QED
  BY <1>3, <1>4

\* The module of a file is none that a standard import makes up.
LEMMA OwnName ==
  ASSUME FilesOK, NEW f, Parsable(f)
  PROVE  ModuleName(f) # NoName /\ \A s : ModuleName(f) # <<"std/", s>>
BY DEF FilesOK, Parsable, ModuleName, NoName

LEMMA PutIs ==
  ASSUME NEW t, NEW k, NEW v
  PROVE  /\ DOMAIN Put(t, k, v) = DOMAIN t \cup {k}
         /\ Put(t, k, v)[k] = v
         /\ \A x \in DOMAIN t : x # k => Put(t, k, v)[x] = t[x]
BY DEF Put

LEMMA InfoIs ==
  ASSUME NEW f
  PROVE  /\ IsModule(Info(f)) /\ Info(f).file = f /\ Info(f).virtual = FALSE
         /\ Info(f).aliases = [a \in Aliases(f) |-> ImportOf(f, a)]
         /\ DOMAIN Info(f).targets = {}
BY DEF Info, IsModule

-----------------------------------------------------------------------------
(* The steps of the resolver.  Those that concern the tables are about any values of     *)
(* them, so that they hold of what a step makes of them.                                 *)

\* What is known of an import, and of a file's entry, stays known when the tables grow.
LEMMA EntryStays ==
  ASSUME NEW ow, NEW ms, NEW ow2, NEW ms2, DOMAIN ow \subseteq DOMAIN ow2,
         DOMAIN ms \subseteq DOMAIN ms2
  PROVE  /\ \A i, f, t : LeadsTo(ow, ms, i, f, t) => LeadsTo(ow2, ms2, i, f, t)
         /\ \A m, ph : EntryOK(ow, ms, m, ph) /\ ms2[m] = ms[m] => EntryOK(ow2, ms2, m, ph)
<1>1. \A i, f, t : LeadsTo(ow, ms, i, f, t) => LeadsTo(ow2, ms2, i, f, t)
  BY DEF LeadsTo
<1>2. QED
  BY <1>1 DEF EntryOK

\* A module of a file is known by the file's name.
LEMMA EntryIs ==
  ASSUME FilesOK, NEW ow, NEW ms, NEW ph, ParsedOK(ow, ms), ModulesOK(ow, ms, ph)
  PROVE  /\ \A m \in DOMAIN ms : ~ms[m].virtual =>
              /\ ms[m].file \in DOMAIN ow /\ m = ModuleName(ms[m].file)
              /\ IsModule(ms[m])
         /\ \A s : <<"std/", s>> \in DOMAIN ms => ms[<<"std/", s>>].virtual
         /\ \A f : f \in DOMAIN ow => f \in Needed /\ f \in DOMAIN world.files /\ f # Nothing
<1>1. \A m \in DOMAIN ms : ~ms[m].virtual =>
        ms[m].file \in DOMAIN ow /\ m = ModuleName(ms[m].file) /\ IsModule(ms[m])
  BY DEF ModulesOK, EntryOK
<1>2. \A f : f \in DOMAIN ow => f \in Needed /\ Parsable(f)
  BY DEF ParsedOK
<1>3. \A s : <<"std/", s>> \in DOMAIN ms => ms[<<"std/", s>>].virtual
  BY <1>1, <1>2, OwnName
<1>4. QED
  BY <1>1, <1>2, <1>3 DEF Parsable, FilesOK

\* A file registered for the first time, or once more while the given files are parsed.
LEMMA RegisteredIs ==
  ASSUME FilesOK, NamesDiffer, NEW ow, NEW ms, NEW ph, NEW f \in Needed, Parsable(f), Sound(f),
         ParsedOK(ow, ms), ModulesOK(ow, ms, ph), ph = "parse" \/ f \notin DOMAIN ow,
         NEW info, IsModule(info), info.file = f, info.virtual = FALSE,
         info.aliases = [a \in Aliases(f) |-> ImportOf(f, a)],
         DOMAIN info.targets = {}, ph # "parse" => info.exports = Exports(f)
  PROVE  /\ ParsedOK(Put(ow, f, ModuleName(f)), Put(ms, ModuleName(f), info))
         /\ ModulesOK(Put(ow, f, ModuleName(f)), Put(ms, ModuleName(f), info), ph)
         /\ ModuleName(f) \in DOMAIN ms => f \in DOMAIN ow
<1> DEFINE name == ModuleName(f)
           ow2  == Put(ow, f, name)
           ms2  == Put(ms, name, info)
<1>1. DOMAIN ow2 = DOMAIN ow \cup {f} /\ ow2[f] = name
      /\ \A g \in DOMAIN ow : g # f => ow2[g] = ow[g]
  BY DEF Put
<1>2. DOMAIN ms2 = DOMAIN ms \cup {name} /\ ms2[name] = info
      /\ \A m \in DOMAIN ms : m # name => ms2[m] = ms[m]
  BY DEF Put
<1>3. name \in DOMAIN ms => ~ms[name].virtual /\ ms[name].file = f /\ f \in DOMAIN ow
  <2>1. ASSUME name \in DOMAIN ms PROVE ~ms[name].virtual
    BY <2>1, OwnName DEF ModulesOK, VirtualOK
  <2>2. ASSUME name \in DOMAIN ms PROVE ms[name].file \in DOMAIN ow /\ ms[name].file = f
    BY <2>1, <2>2, EntryIs DEF NamesDiffer
  <2>3. QED
    BY <2>1, <2>2
<1> HIDE DEF ow2, ms2
<1>4. ASSUME NEW g \in DOMAIN ow2
      PROVE  /\ g \in Needed /\ Parsable(g) /\ Sound(g) /\ ow2[g] = ModuleName(g)
             /\ ModuleName(g) \in DOMAIN ms2 /\ ~ms2[ModuleName(g)].virtual
             /\ ms2[ModuleName(g)].file = g
  <2>1. CASE g = f
    BY <1>1, <1>2, <2>1
  <2>2. CASE g # f
    <3>1. g \in DOMAIN ow /\ ow2[g] = ow[g]
      BY <1>1, <2>2
    <3>2. g \in Needed /\ ModuleName(g) # name
      BY <2>2, <3>1 DEF NamesDiffer, ParsedOK
    <3>3. QED
      BY <1>2, <3>1, <3>2 DEF ParsedOK
  <2>3. QED
    BY <2>1, <2>2
<1>5. EntryOK(ow2, ms2, name, ph)
  BY <1>1, <1>2 DEF EntryOK
<1>6. ASSUME NEW m \in DOMAIN ms2
      PROVE  IF ms2[m].virtual THEN VirtualOK(ms2, m) ELSE EntryOK(ow2, ms2, m, ph)
  <2>1. CASE m = name
    BY <1>2, <1>5, <2>1
  <2>2. CASE m # name
    <3>1. m \in DOMAIN ms /\ ms2[m] = ms[m]
      BY <1>2, <2>2
    <3>2. CASE ms[m].virtual
      BY <3>1, <3>2 DEF ModulesOK, VirtualOK
    <3>3. CASE ~ms[m].virtual
      <4>1. EntryOK(ow, ms, m, ph)
        BY <3>1, <3>3 DEF ModulesOK
      <4>2. QED
        BY <1>1, <1>2, <3>1, <3>3, <4>1, EntryStays
    <3>4. QED
      BY <3>2, <3>3
  <2>3. QED
    BY <2>1, <2>2
<1>7. QED
  BY <1>3, <1>4, <1>6 DEF ParsedOK, ModulesOK, ow2, ms2

\* A resolution that fails, and one that goes on.
LEMMA Failing ==
  ASSUME world' = world, FilesOK, phase' = "failed", sweep' = {}, visit'.left = {},
         NamesDiffer => ~Buildable
  PROVE  ResolverIInv'
<1>1. (Buildable' <=> Buildable) /\ FilesOK' /\ (NamesDiffer' <=> NamesDiffer)
  BY SameVerdict
<1>2. QED
  BY <1>1 DEF ResolverIInv, Conclusion

LEMMA Going ==
  ASSUME world' = world, FilesOK, phase' \in {"parse", "imports", "rewrite"},
         phase' # "imports" => sweep' = {} /\ visit'.left = {}, failed' => phase' = "imports",
         NamesDiffer /\ failed' => ~Buildable,
         NamesDiffer /\ ~failed' =>
           ResolvedAt(owner', modules', given', sweep', visit', changed', phase')
  PROVE  ResolverIInv'
<1>1. (Buildable' <=> Buildable) /\ FilesOK' /\ (NamesDiffer' <=> NamesDiffer)
  BY SameVerdict
<1>2. NamesDiffer /\ ~failed' => ResolvedSoFar'
  BY SameResolved
<1>3. QED
  BY <1>1, <1>2 DEF ResolverIInv

LEMMA ParseGivenStep ==
  ASSUME ResolverIInv, ParseGiven
  PROVE  ResolverIInv'
<1>1. PICK next \in DOMAIN given :
        /\ given' = [place \in DOMAIN given \ {next} |-> given[place]]
        /\ IF Parsable(given[next])
           THEN /\ modules' = Registered(given[next])
                /\ owner' = Put(owner, given[next], ModuleName(given[next]))
                /\ phase' = IF Sound(given[next]) THEN "parse" ELSE "failed"
           ELSE phase' = "failed" /\ UNCHANGED <<modules, owner>>
  BY DEF ParseGiven
<1> DEFINE f == given[next]
<1>2. /\ phase = "parse" /\ ~failed /\ sweep = {} /\ visit.left = {} /\ FilesOK
      /\ world' = world /\ failed' = failed /\ sweep' = sweep /\ visit' = visit
      /\ changed' = changed
  BY DEF ParseGiven, ResolverIInv
<1>3. ASSUME NamesDiffer
      PROVE  ResolvedAt(owner, modules, given, sweep, visit, changed, "parse") /\ f \in Needed
  <2>1. ResolvedAt(owner, modules, given, sweep, visit, changed, "parse")
    BY <1>2, <1>3 DEF ResolverIInv, ResolvedSoFar
  <2>2. QED
    BY <2>1, NeededIs DEF ResolvedAt, GivenOK
<1>4. CASE ~Parsable(f) \/ ~Sound(f)
  <2>1. NamesDiffer => ~Buildable
    BY <1>3, <1>4 DEF Buildable
  <2>2. phase' = "failed"
    BY <1>1, <1>4
  <2>3. QED
    BY <1>2, <2>1, <2>2, Failing
<1>5. CASE Parsable(f) /\ Sound(f)
  <2>1. /\ modules' = Put(modules, ModuleName(f), Info(f)) /\ phase' = "parse"
        /\ owner' = Put(owner, f, ModuleName(f))
    BY <1>1, <1>5 DEF Registered
  <2>2. ASSUME NamesDiffer
        PROVE  ResolvedAt(owner', modules', given', sweep', visit', changed', phase')
    <3>1. ParsedOK(owner, modules) /\ ModulesOK(owner, modules, "parse")
          /\ GivenOK(given, owner) /\ changed /\ \A m \in DOMAIN modules : ~modules[m].virtual
      BY <1>3, <2>2 DEF ResolvedAt
    <3>2. ParsedOK(owner', modules') /\ ModulesOK(owner', modules', "parse")
      <4>1. /\ ParsedOK(Put(owner, f, ModuleName(f)), Put(modules, ModuleName(f), Info(f)))
            /\ ModulesOK(Put(owner, f, ModuleName(f)), Put(modules, ModuleName(f), Info(f)),
                         "parse")
        <5>1. f \in Needed
          BY <1>3, <2>2
        <5>2. /\ IsModule(Info(f)) /\ Info(f).file = f /\ Info(f).virtual = FALSE
              /\ Info(f).aliases = [a \in Aliases(f) |-> ImportOf(f, a)]
              /\ DOMAIN Info(f).targets = {}
          BY InfoIs
        <5> HIDE DEF f
        <5>3. QED
          BY <1>2, <1>5, <2>2, <3>1, <5>1, <5>2, RegisteredIs
      <4>2. QED
        BY <2>1, <4>1
    <3> HIDE DEF f
    <3>3. DOMAIN owner' = DOMAIN owner \cup {f}
      BY <2>1 DEF Put
    <3>4. GivenOK(given', owner')
      BY <1>1, <3>1, <3>3 DEF GivenOK, f
    <3>5. SweepOK(modules', sweep', visit')
      BY <1>2 DEF SweepOK
    <3>6. \A m \in DOMAIN modules' : ~modules'[m].virtual
      BY <2>1, <3>1, InfoIs DEF Put
    <3>7. QED
      BY <1>2, <2>1, <3>1, <3>2, <3>4, <3>5, <3>6 DEF ResolvedAt
  <2>3. QED
    BY <1>2, <2>1, <2>2, Going
<1>6. QED
  BY <1>4, <1>5

LEMMA ExtractExportsStep ==
  ASSUME ResolverIInv, ExtractExports
  PROVE  ResolverIInv'
<1>1. /\ phase = "parse" /\ ~failed /\ sweep = {} /\ visit.left = {} /\ FilesOK
      /\ world' = world /\ failed' = failed /\ sweep' = sweep /\ visit' = visit
      /\ changed' = changed /\ owner' = owner /\ given' = given /\ phase' = "imports"
      /\ DOMAIN given = {}
  BY DEF ExtractExports, ResolverIInv
<1>2. modules' = [m \in DOMAIN modules |->
                    [modules[m] EXCEPT !.exports = Exports(modules[m].file)]]
  BY DEF ExtractExports
<1>3. ASSUME NamesDiffer
      PROVE  ResolvedAt(owner', modules', given', sweep', visit', changed', phase')
  <2>1. /\ ParsedOK(owner, modules) /\ ModulesOK(owner, modules, "parse")
        /\ GivenOK(given, owner) /\ changed /\ \A m \in DOMAIN modules : ~modules[m].virtual
    BY <1>1, <1>3 DEF ResolverIInv, ResolvedSoFar, ResolvedAt
  <2>2. ASSUME NEW m \in DOMAIN modules
        PROVE  /\ modules'[m].file = modules[m].file /\ ~modules'[m].virtual
               /\ modules'[m].exports = Exports(modules[m].file)
               /\ modules'[m].targets = modules[m].targets
               /\ modules'[m].aliases = modules[m].aliases /\ IsModule(modules'[m])
    <3>1. IsModule(modules[m]) /\ ~modules[m].virtual
      BY <2>1 DEF ModulesOK, EntryOK
    <3>2. modules'[m] = [modules[m] EXCEPT !.exports = Exports(modules[m].file)]
      BY <1>2
    <3>3. QED
      BY <3>1, <3>2 DEF IsModule
  <2>3. DOMAIN modules' = DOMAIN modules
    BY <1>2
  <2>4. ParsedOK(owner', modules')
    BY <1>1, <2>1, <2>2, <2>3 DEF ParsedOK
  <2>5. \A i, f, t : LeadsTo(owner, modules, i, f, t) => LeadsTo(owner', modules', i, f, t)
    BY <1>1, <2>3 DEF LeadsTo
  <2>6. ASSUME NEW m \in DOMAIN modules' PROVE EntryOK(owner', modules', m, "imports")
    <3>1. EntryOK(owner, modules, m, "parse")
      BY <2>1, <2>3 DEF ModulesOK
    <3>2. QED
      BY <1>1, <2>2, <2>3, <2>5, <3>1 DEF EntryOK
  <2>7. ModulesOK(owner', modules', "imports")
    BY <2>2, <2>3, <2>6 DEF ModulesOK
  <2>8. SweepOK(modules', sweep', visit')
    BY <1>1 DEF SweepOK
  <2>9. QED
    BY <1>1, <2>1, <2>4, <2>7, <2>8 DEF ResolvedAt, GivenOK
<1>4. QED
  BY <1>1, <1>3, Going

LEMMA BeginSweepStep ==
  ASSUME ResolverIInv, BeginSweep
  PROVE  ResolverIInv'
<1>1. /\ phase = "imports" /\ FilesOK /\ visit.left = {}
      /\ sweep' = {m \in DOMAIN modules : ~modules[m].virtual}
      /\ UNCHANGED <<world, phase, given, modules, owner, failed, visit>>
  BY DEF BeginSweep, ResolverIInv
<1>2. NamesDiffer /\ failed' => ~Buildable
  BY <1>1 DEF ResolverIInv
<1>3. ASSUME NamesDiffer, ~failed'
      PROVE  ResolvedAt(owner', modules', given', sweep', visit', changed', phase')
  <2>1. /\ ParsedOK(owner, modules) /\ ModulesOK(owner, modules, "imports")
        /\ GivenOK(given, owner) /\ DOMAIN given = {}
    BY <1>1, <1>3 DEF ResolverIInv, ResolvedSoFar, ResolvedAt
  <2>2. SweepOK(modules', sweep', visit') /\ SweptOK(modules', sweep', visit')
    BY <1>1 DEF SweepOK, SweptOK
  <2>3. QED
    BY <1>1, <2>1, <2>2 DEF ResolvedAt
<1>4. QED
  BY <1>1, <1>2, <1>3, Going

LEMMA EndSweepsStep ==
  ASSUME ResolverIInv, EndSweeps
  PROVE  ResolverIInv'
<1>1. /\ phase = "imports" /\ FilesOK /\ visit.left = {} /\ sweep = {} /\ ~changed
      /\ phase' = IF failed THEN "failed" ELSE "rewrite"
      /\ UNCHANGED <<world, given, modules, owner, failed, changed, sweep, visit>>
  BY DEF EndSweeps, ResolverIInv
<1>2. NamesDiffer /\ failed => ~Buildable
  BY <1>1 DEF ResolverIInv
<1>3. CASE failed
  BY <1>1, <1>2, <1>3, Failing
<1>4. CASE ~failed
  <2>1. ASSUME NamesDiffer
        PROVE  ResolvedAt(owner', modules', given', sweep', visit', changed', phase')
    <3>1. /\ ParsedOK(owner, modules) /\ ModulesOK(owner, modules, "imports")
          /\ GivenOK(given, owner) /\ DOMAIN given = {}
          /\ SweepOK(modules, sweep, visit) /\ SweptOK(modules, sweep, visit)
      BY <1>1, <1>4, <2>1 DEF ResolverIInv, ResolvedSoFar, ResolvedAt
    <3>2. \A m \in DOMAIN modules : modules[m].virtual \/ AllLed(modules, m)
      BY <1>1, <3>1 DEF SweptOK
    <3>3. ModulesOK(owner, modules, "rewrite")
      BY <3>1 DEF ModulesOK, EntryOK
    <3>4. QED
      BY <1>1, <1>4, <3>1, <3>2, <3>3 DEF ResolvedAt
  <2>2. QED
    BY <1>1, <1>4, <2>1, Going
<1>5. QED
  BY <1>3, <1>4

\* What is left of a visit.
LEMMA VisitingIs ==
  ASSUME NEW m, NEW f, NEW left
  PROVE  /\ Visiting(m, f, left).left = left
         /\ left # {} => Visiting(m, f, left).module = m /\ Visiting(m, f, left).from = f
BY DEF Visiting, NoVisit

LEMMA VisitModuleStep ==
  ASSUME ResolverIInv, VisitModule
  PROVE  ResolverIInv'
<1>1. PICK m \in sweep :
        /\ sweep' = sweep \ {m}
        /\ visit' = Visiting(m, modules[m].file,
                             {<<a, modules[m].aliases[a]>> : a \in DOMAIN modules[m].aliases})
  BY DEF VisitModule
<1>2. /\ phase = "imports" /\ FilesOK /\ visit.left = {}
      /\ UNCHANGED <<world, phase, given, modules, owner, failed, changed>>
  BY <1>1 DEF VisitModule, ResolverIInv
<1>3. NamesDiffer /\ failed' => ~Buildable
  BY <1>2 DEF ResolverIInv
<1>4. ASSUME NamesDiffer, ~failed'
      PROVE  ResolvedAt(owner', modules', given', sweep', visit', changed', phase')
  <2>1. /\ ParsedOK(owner, modules) /\ ModulesOK(owner, modules, "imports")
        /\ GivenOK(given, owner) /\ DOMAIN given = {}
        /\ SweepOK(modules, sweep, visit) /\ (changed \/ SweptOK(modules, sweep, visit))
    BY <1>2, <1>4 DEF ResolverIInv, ResolvedSoFar, ResolvedAt
  <2>2. m \in DOMAIN modules /\ ~modules[m].virtual
    BY <2>1 DEF SweepOK
  <2> DEFINE f    == modules[m].file
             left == {<<a, ImportOf(f, a)>> : a \in Aliases(f)}
  <2>3. modules[m].aliases = [a \in Aliases(f) |-> ImportOf(f, a)]
    BY <2>1, <2>2 DEF ModulesOK, EntryOK
  <2>4. visit' = Visiting(m, f, left)
    BY <1>1, <2>3
  <2>5. /\ visit'.left = left
        /\ left # {} => visit'.module = m /\ visit'.from = f
    BY <2>4, VisitingIs
  <2>6. SweepOK(modules', sweep', visit')
    BY <1>1, <1>2, <2>1, <2>2, <2>5 DEF SweepOK
  <2>7. SweptOK(modules, sweep, visit) => SweptOK(modules', sweep', visit')
    <3>1. SUFFICES ASSUME SweptOK(modules, sweep, visit), NEW n \in DOMAIN modules
                   PROVE  \/ modules[n].virtual \/ n \in sweep' \/ AllLed(modules, n)
                          \/ /\ visit'.left # {} /\ visit'.module = n
                             /\ \A a \in Aliases(modules[n].file) :
                                  \/ a \in DOMAIN modules[n].targets
                                  \/ <<a, ImportOf(modules[n].file, a)>> \in visit'.left
      BY <1>2 DEF SweptOK
    <3>2. CASE n # m
      BY <1>1, <1>2, <3>1, <3>2 DEF SweptOK
    <3>3. CASE n = m
      BY <2>5, <3>3 DEF AllLed
    <3>4. QED
      BY <3>2, <3>3
  <2>8. QED
    BY <1>2, <2>1, <2>6, <2>7 DEF ResolvedAt
<1>5. QED
  BY <1>2, <1>3, <1>4, Going

\* An alias gets its target, and nothing else changes.
LEMMA TargetsIs ==
  ASSUME NEW ms, NEW a, NEW t, visit.module \in DOMAIN ms, IsModule(ms[visit.module])
  PROVE  /\ DOMAIN Targets(ms, a, t) = DOMAIN ms
         /\ \A m \in DOMAIN ms : m # visit.module => Targets(ms, a, t)[m] = ms[m]
         /\ \A m \in DOMAIN ms : /\ Targets(ms, a, t)[m].file = ms[m].file
                                 /\ Targets(ms, a, t)[m].virtual = ms[m].virtual
                                 /\ Targets(ms, a, t)[m].exports = ms[m].exports
                                 /\ Targets(ms, a, t)[m].aliases = ms[m].aliases
         /\ IsModule(Targets(ms, a, t)[visit.module])
         /\ Targets(ms, a, t)[visit.module].targets = Put(ms[visit.module].targets, a, t)
<1> DEFINE ms2 == Targets(ms, a, t)
           v   == visit.module
<1>1. ms2 = [ms EXCEPT ![v] = [ms[v] EXCEPT !.targets = Put(ms[v].targets, a, t)]]
  BY DEF Targets
<1>2. /\ DOMAIN ms2 = DOMAIN ms /\ \A m \in DOMAIN ms : m # v => ms2[m] = ms[m]
      /\ ms2[v] = [ms[v] EXCEPT !.targets = Put(ms[v].targets, a, t)]
  BY <1>1
<1>3. /\ IsModule(ms2[v]) /\ ms2[v].targets = Put(ms[v].targets, a, t)
      /\ ms2[v].file = ms[v].file /\ ms2[v].virtual = ms[v].virtual
      /\ ms2[v].exports = ms[v].exports /\ ms2[v].aliases = ms[v].aliases
  BY <1>2 DEF IsModule
<1> HIDE DEF ms2, v
<1>4. QED
  BY <1>2, <1>3 DEF ms2, v

LEMMA TargetsOK ==
  ASSUME FilesOK, NEW ow, NEW ms, ParsedOK(ow, ms), ModulesOK(ow, ms, "imports"),
         visit.module \in DOMAIN ms, ~ms[visit.module].virtual,
         NEW a \in Aliases(ms[visit.module].file), NEW t,
         LeadsTo(ow, ms, ImportOf(ms[visit.module].file, a), ms[visit.module].file, t)
  PROVE  ParsedOK(ow, Targets(ms, a, t)) /\ ModulesOK(ow, Targets(ms, a, t), "imports")
<1> DEFINE ms2 == Targets(ms, a, t)
           v   == visit.module
           f   == ms[v].file
<1>1. EntryOK(ow, ms, v, "imports")
  BY DEF ModulesOK
<1>2. IsModule(ms[v])
  BY <1>1 DEF EntryOK
<1>3. /\ DOMAIN ms2 = DOMAIN ms
      /\ \A m \in DOMAIN ms : m # v => ms2[m] = ms[m]
      /\ \A m \in DOMAIN ms : ms2[m].file = ms[m].file /\ ms2[m].virtual = ms[m].virtual
      /\ ms2[v].exports = ms[v].exports /\ ms2[v].aliases = ms[v].aliases
      /\ IsModule(ms2[v]) /\ ms2[v].targets = Put(ms[v].targets, a, t)
  BY <1>2, TargetsIs
<1>4. LeadsTo(ow, ms, ImportOf(f, a), f, t)
  OBVIOUS
<1> HIDE DEF ms2
<1>5. ParsedOK(ow, ms2)
  BY <1>3 DEF ParsedOK
<1>6. \A i, g, u : LeadsTo(ow, ms, i, g, u) => LeadsTo(ow, ms2, i, g, u)
  BY <1>3 DEF LeadsTo
<1>7. EntryOK(ow, ms2, v, "imports")
  <2>1. \A b \in DOMAIN ms2[v].targets :
          b \in Aliases(f) /\ LeadsTo(ow, ms2, ImportOf(f, b), f, ms2[v].targets[b])
    <3>1. TAKE b \in DOMAIN ms2[v].targets
    <3>2. CASE b = a
      <4>1. ms2[v].targets[b] = t
        BY <1>3, <3>2 DEF Put
      <4>2. QED
        BY <1>4, <1>6, <3>2, <4>1
    <3>3. CASE b # a
      <4>1. b \in DOMAIN ms[v].targets /\ ms2[v].targets[b] = ms[v].targets[b]
        BY <1>3, <3>1, <3>3 DEF Put
      <4>2. QED
        BY <1>1, <1>6, <4>1 DEF EntryOK
    <3>4. QED
      BY <3>2, <3>3
  <2>2. QED
    BY <1>1, <1>3, <2>1 DEF EntryOK
<1>8. ASSUME NEW m \in DOMAIN ms2
      PROVE  IF ms2[m].virtual THEN VirtualOK(ms2, m) ELSE EntryOK(ow, ms2, m, "imports")
  <2>1. CASE m = v
    BY <1>3, <1>7, <2>1
  <2>2. CASE m # v
    BY <1>3, <2>2, EntryStays DEF ModulesOK, VirtualOK
  <2>3. QED
    BY <2>1, <2>2
<1>9. QED
  BY <1>5, <1>8 DEF ModulesOK, ms2

\* An import of the visit is dealt with.
LEMMA VisitedOK ==
  ASSUME NEW x \in visit.left, NEW ms, SweepOK(modules, sweep, visit),
         DOMAIN modules \subseteq DOMAIN ms,
         \A m \in DOMAIN modules : /\ ms[m].virtual = modules[m].virtual
                                   /\ ms[m].file = modules[m].file
                                   /\ DOMAIN modules[m].targets \subseteq DOMAIN ms[m].targets,
         x[1] \in DOMAIN ms[visit.module].targets
  PROVE  LET visit2 == Visiting(visit.module, visit.from, visit.left \ {x})
         IN  /\ SweepOK(ms, sweep, visit2)
             /\ /\ SweptOK(modules, sweep, visit)
                /\ \A m \in DOMAIN ms \ DOMAIN modules : ms[m].virtual
                => SweptOK(ms, sweep, visit2)
<1> DEFINE visit2 == Visiting(visit.module, visit.from, visit.left \ {x})
<1>1. /\ visit2.left = visit.left \ {x}
      /\ visit2.left # {} => visit2.module = visit.module /\ visit2.from = visit.from
  BY VisitingIs
<1>2. /\ visit.module \in DOMAIN modules /\ visit.from = modules[visit.module].file
      /\ \A y \in visit.left : \E a \in Aliases(visit.from) : y = <<a, ImportOf(visit.from, a)>>
  BY DEF SweepOK
<1> HIDE DEF visit2
<1>3. SweepOK(ms, sweep, visit2)
  BY <1>1, <1>2 DEF SweepOK
<1>4. ASSUME SweptOK(modules, sweep, visit), \A m \in DOMAIN ms \ DOMAIN modules : ms[m].virtual,
             NEW m \in DOMAIN ms
      PROVE  \/ ms[m].virtual \/ m \in sweep \/ AllLed(ms, m)
             \/ /\ visit2.left # {} /\ visit2.module = m
                /\ \A a \in Aliases(ms[m].file) :
                     a \in DOMAIN ms[m].targets \/ <<a, ImportOf(ms[m].file, a)>> \in visit2.left
  <2>1. CASE m \notin DOMAIN modules
    BY <1>4, <2>1
  <2>2. CASE /\ m \in DOMAIN modules
             /\ modules[m].virtual \/ m \in sweep \/ AllLed(modules, m)
    BY <2>2 DEF AllLed
  <2>3. CASE /\ m = visit.module
             /\ \A a \in Aliases(modules[m].file) :
                  \/ a \in DOMAIN modules[m].targets
                  \/ <<a, ImportOf(modules[m].file, a)>> \in visit.left
    <3>1. \A a \in Aliases(ms[m].file) :
            a \in DOMAIN ms[m].targets \/ <<a, ImportOf(ms[m].file, a)>> \in visit2.left
      <4>1. TAKE a \in Aliases(ms[m].file)
      <4>2. CASE <<a, ImportOf(ms[m].file, a)>> = x
        BY <2>3, <4>2
      <4>3. CASE <<a, ImportOf(ms[m].file, a)>> # x
        BY <1>1, <1>2, <2>3, <4>1, <4>3
      <4>4. QED
        BY <4>2, <4>3
    <3>2. CASE visit2.left = {}
      BY <3>1, <3>2 DEF AllLed
    <3>3. CASE visit2.left # {}
      BY <1>1, <2>3, <3>1, <3>3
    <3>4. QED
      BY <3>2, <3>3
  <2>4. QED
    BY <1>2, <1>4, <2>1, <2>2, <2>3 DEF SweptOK
<1>5. QED
  BY <1>3, <1>4 DEF SweptOK, visit2

\* An import that leads somewhere leaves what is known as it was, and a little more.
LEMMA LedOn ==
  ASSUME FilesOK, NEW x \in visit.left, SweepOK(modules, sweep, visit),
         changed \/ SweptOK(modules, sweep, visit), GivenOK(given, owner), DOMAIN given = {},
         NEW ow, NEW ms, NEW t, NEW ch, ParsedOK(ow, ms), ModulesOK(ow, ms, "imports"),
         DOMAIN owner \subseteq DOMAIN ow, DOMAIN modules \subseteq DOMAIN ms,
         \A m \in DOMAIN modules : ms[m] = modules[m],
         changed => ch, ch \/ \A m \in DOMAIN ms \ DOMAIN modules : ms[m].virtual,
         LeadsTo(ow, ms, x[2], visit.from, t)
  PROVE  ResolvedAt(ow, Targets(ms, x[1], t), given, sweep,
                    Visiting(visit.module, visit.from, visit.left \ {x}), ch, "imports")
<1> DEFINE v      == visit.module
           f      == visit.from
           ms2    == Targets(ms, x[1], t)
           visit2 == Visiting(v, f, visit.left \ {x})
<1>1. /\ v \in DOMAIN modules /\ ~modules[v].virtual /\ f = modules[v].file
      /\ x[1] \in Aliases(f) /\ x[2] = ImportOf(f, x[1])
  BY DEF SweepOK
<1>2. v \in DOMAIN ms /\ ~ms[v].virtual /\ ms[v].file = f
  BY <1>1
<1>3. ParsedOK(ow, ms2) /\ ModulesOK(ow, ms2, "imports")
  BY <1>1, <1>2, TargetsOK
<1>4. IsModule(ms[v])
  BY <1>2 DEF ModulesOK, EntryOK
<1>5. /\ DOMAIN ms2 = DOMAIN ms
      /\ \A m \in DOMAIN ms : m # v => ms2[m] = ms[m]
      /\ \A m \in DOMAIN ms : ms2[m].file = ms[m].file /\ ms2[m].virtual = ms[m].virtual
      /\ ms2[v].targets = Put(ms[v].targets, x[1], t)
  BY <1>2, <1>4, TargetsIs
<1> HIDE DEF ms2
<1>6. /\ \A m \in DOMAIN modules : DOMAIN modules[m].targets \subseteq DOMAIN ms2[m].targets
      /\ x[1] \in DOMAIN ms2[v].targets
  BY <1>1, <1>2, <1>5 DEF Put
<1>7. /\ SweepOK(ms2, sweep, visit2)
      /\ /\ SweptOK(modules, sweep, visit) /\ \A m \in DOMAIN ms2 \ DOMAIN modules : ms2[m].virtual
         => SweptOK(ms2, sweep, visit2)
  BY <1>5, <1>6, VisitedOK
<1>8. ch \/ SweptOK(ms2, sweep, visit2)
  BY <1>5, <1>7
<1>9. GivenOK(given, ow)
  BY DEF GivenOK
<1>10. QED
  BY <1>3, <1>7, <1>8, <1>9 DEF ResolvedAt, ms2

\* The standard module of an import is among the modules, or is made up.
LEMMA WithStdIs ==
  ASSUME FilesOK, ParsedOK(owner, modules), ModulesOK(owner, modules, "imports"),
         NEW i, NEW f, Resolved(i, f) = Nothing, ~i.relative, IsStd(i.path)
  PROVE  /\ DOMAIN modules \subseteq DOMAIN WithStd(i.path)
         /\ \A m \in DOMAIN modules : WithStd(i.path)[m] = modules[m]
         /\ \A m \in DOMAIN WithStd(i.path) \ DOMAIN modules : WithStd(i.path)[m].virtual
         /\ ParsedOK(owner, WithStd(i.path)) /\ ModulesOK(owner, WithStd(i.path), "imports")
         /\ LeadsTo(owner, WithStd(i.path), i, f, StdName(i.path))
<1> DEFINE name == StdName(i.path)
           ms   == WithStd(i.path)
<1>1. CASE name \in DOMAIN modules
  BY <1>1 DEF WithStd, LeadsTo
<1>2. CASE name \notin DOMAIN modules
  <2>1. PICK s \in DOMAIN StdSymbols : i.path = <<"std", s>>
    BY DEF IsStd
  <2>2. name = <<"std/", s>> /\ StdModule(i.path).virtual
    BY <2>1 DEF StdName, StdModule
  <2>3. /\ DOMAIN ms = DOMAIN modules \cup {name} /\ ms[name] = StdModule(i.path)
        /\ \A m \in DOMAIN modules : ms[m] = modules[m]
    BY <1>2 DEF WithStd, Put
  <2> HIDE DEF name, ms
  <2>4. ParsedOK(owner, ms)
    BY <2>3 DEF ParsedOK
  <2>5. VirtualOK(ms, name)
    BY <2>1, <2>2, <2>3 DEF VirtualOK
  <2>6. \A m \in DOMAIN modules : VirtualOK(modules, m) => VirtualOK(ms, m)
    BY <2>3 DEF VirtualOK
  <2>7. \A m \in DOMAIN modules : EntryOK(owner, modules, m, "imports") =>
                                    EntryOK(owner, ms, m, "imports")
    BY <2>3, EntryStays
  <2>8. ModulesOK(owner, ms, "imports")
    <3>1. SUFFICES ASSUME NEW m \in DOMAIN ms
                   PROVE  IF ms[m].virtual THEN VirtualOK(ms, m)
                          ELSE EntryOK(owner, ms, m, "imports")
      BY DEF ModulesOK
    <3>2. CASE m = name
      BY <2>2, <2>3, <2>5, <3>2
    <3>3. CASE m # name
      BY <2>3, <2>6, <2>7, <3>3 DEF ModulesOK
    <3>4. QED
      BY <3>2, <3>3
  <2>9. LeadsTo(owner, ms, i, f, name)
    BY <2>3 DEF LeadsTo, name
  <2>10. QED
    BY <2>2, <2>3, <2>4, <2>8, <2>9 DEF name, ms
<1>3. QED
  BY <1>1, <1>2

\* A file registered in a sweep has its exports at once.
LEMMA RegisteredExports ==
  ASSUME NEW f
  PROVE  LET info == [Info(f) EXCEPT !.exports = Exports(f)]
         IN  /\ [Registered(f) EXCEPT ![ModuleName(f)].exports = Exports(f)]
                  = Put(modules, ModuleName(f), info)
             /\ IsModule(info) /\ info.file = f /\ info.virtual = FALSE
             /\ info.aliases = [a \in Aliases(f) |-> ImportOf(f, a)]
             /\ DOMAIN info.targets = {} /\ info.exports = Exports(f)
<1> DEFINE info == [Info(f) EXCEPT !.exports = Exports(f)]
           name == ModuleName(f)
<1>1. /\ IsModule(info) /\ info.file = f /\ info.virtual = FALSE
      /\ info.aliases = [a \in Aliases(f) |-> ImportOf(f, a)]
      /\ DOMAIN info.targets = {} /\ info.exports = Exports(f)
  <2> DEFINE r == Info(f)
  <2>1. /\ IsModule(r) /\ r.file = f /\ r.virtual = FALSE
        /\ r.aliases = [a \in Aliases(f) |-> ImportOf(f, a)] /\ DOMAIN r.targets = {}
    BY InfoIs
  <2>2. info = [r EXCEPT !.exports = Exports(f)]
    OBVIOUS
  <2> HIDE DEF info, r
  <2>3. QED
    BY <2>1, <2>2 DEF IsModule
<1>2. [Registered(f) EXCEPT ![name].exports = Exports(f)] = Put(modules, name, info)
  <2>1. Registered(f) = Put(modules, name, Info(f))
    BY DEF Registered
  <2>2. Put(modules, name, Info(f))[name] = Info(f)
    BY DEF Put
  <2>3. [Registered(f) EXCEPT ![name].exports = Exports(f)]
          = [Put(modules, name, Info(f)) EXCEPT ![name] = info]
    BY <2>1, <2>2
  <2> HIDE DEF info, name
  <2>4. QED
    BY <2>3 DEF Put
<1>3. QED
  BY <1>1, <1>2

LEMMA ResolveAliasStep ==
  ASSUME ResolverIInv, ResolveAlias
  PROVE  ResolverIInv'
<1> DEFINE Step(x, alias, known, file, std) ==
             /\ visit' = Visiting(visit.module, visit.from, visit.left \ {x})
             /\ CASE known -> UNCHANGED <<modules, owner, failed, changed>>
                  [] ~known /\ std ->
                       /\ modules' = Targets(WithStd(x[2].path), alias, StdName(x[2].path))
                       /\ UNCHANGED <<owner, failed, changed>>
                  [] ~known /\ ~std /\ file \in DOMAIN owner ->
                       /\ modules' = Targets(modules, alias, owner[file])
                       /\ UNCHANGED <<owner, failed, changed>>
                  [] ~known /\ ~std /\ file \notin DOMAIN owner /\ Parsable(file) ->
                       /\ owner' = Put(owner, file, ModuleName(file))
                       /\ modules' = IF Sound(file)
                                     THEN Targets([Registered(file) EXCEPT
                                                     ![ModuleName(file)].exports = Exports(file)],
                                                  alias, ModuleName(file))
                                     ELSE Targets(Registered(file), alias, NoName)
                       /\ failed' = (failed \/ ~Sound(file))
                       /\ changed' = (changed \/ Sound(file))
                  [] OTHER ->
                       /\ modules' = Targets(modules, alias, NoName)
                       /\ failed' = TRUE
                       /\ UNCHANGED <<owner, changed>>
<1>1. PICK x \in visit.left :
        LET file == Resolved(x[2], visit.from)
        IN  Step(x, x[1], x[1] \in DOMAIN modules[visit.module].targets, file,
                 file = Nothing /\ ~x[2].relative /\ IsStd(x[2].path))
  BY DEF ResolveAlias
<1> DEFINE alias == x[1]
           i     == x[2]
           f     == visit.from
           v     == visit.module
           file  == Resolved(i, f)
           std   == file = Nothing /\ ~i.relative /\ IsStd(i.path)
           known == alias \in DOMAIN modules[v].targets
           visit2 == Visiting(v, f, visit.left \ {x})
<1>2. /\ phase = "imports" /\ FilesOK
      /\ UNCHANGED <<world, phase, given, sweep>>
  BY DEF ResolveAlias, ResolverIInv
<1>3. Step(x, alias, known, file, std)
  BY <1>1
<1> HIDE DEF alias, i, f, v, file, std, known, visit2
<1>4. NamesDiffer /\ failed => ~Buildable
  BY <1>2 DEF ResolverIInv
<1>5. ASSUME NamesDiffer, ~failed
      PROVE  /\ ParsedOK(owner, modules) /\ ModulesOK(owner, modules, "imports")
             /\ GivenOK(given, owner) /\ DOMAIN given = {}
             /\ SweepOK(modules, sweep, visit) /\ (changed \/ SweptOK(modules, sweep, visit))
  BY <1>2, <1>5 DEF ResolverIInv, ResolvedSoFar, ResolvedAt
<1>6. ASSUME NamesDiffer, ~failed
      PROVE  /\ f \in Needed /\ Parsable(f) /\ Sound(f) /\ i \in Imports(f)
             /\ file \in Needed \cup {Nothing}
             /\ Buildable => std \/ (Parsable(file) /\ Sound(file))
  <2>1. /\ v \in DOMAIN modules /\ ~modules[v].virtual /\ f = modules[v].file
        /\ alias \in Aliases(f) /\ i = ImportOf(f, alias)
    BY <1>5, <1>6 DEF SweepOK, alias, i, f, v
  <2>2. f \in DOMAIN owner
    BY <1>5, <1>6, <2>1 DEF ModulesOK, EntryOK
  <2>3. f \in Needed /\ Parsable(f) /\ Sound(f)
    BY <1>5, <1>6, <2>2 DEF ParsedOK
  <2>4. i \in Imports(f)
    BY <1>2, <2>1, <2>3, ImportOfIs
  <2>5. file \in Needed \cup {Nothing}
    BY <2>3, <2>4, NeededIs DEF Opened, file
  <2>6. Buildable => file # Nothing \/ (~i.relative /\ IsStd(i.path))
    BY <2>3, <2>4 DEF Buildable, Leads, file
  <2>7. Buildable /\ file # Nothing => Parsable(file) /\ Sound(file)
    BY <2>5 DEF Buildable
  <2>8. Buildable /\ file = Nothing => std
    BY <2>6 DEF std
  <2> HIDE DEF Step
  <2>9. QED
    BY <2>3, <2>4, <2>5, <2>7, <2>8
<1>7. CASE known
  <2>1. UNCHANGED <<modules, owner, failed, changed>> /\ visit' = visit2
    BY <1>3, <1>7 DEF v, visit2, f
  <2>2. ASSUME NamesDiffer, ~failed
        PROVE  ResolvedAt(owner', modules', given', sweep', visit', changed', phase')
    <3>1. SweepOK(modules, sweep, visit2)
          /\ (SweptOK(modules, sweep, visit) => SweptOK(modules, sweep, visit2))
      BY <1>5, <1>7, <2>2, VisitedOK DEF known, alias, v, f, visit2
    <3>2. QED
      BY <1>2, <1>5, <2>1, <2>2, <3>1 DEF ResolvedAt
  <2>3. QED
    BY <1>2, <1>4, <2>1, <2>2, Going
<1>8. CASE ~known /\ std
  <2>1. /\ modules' = Targets(WithStd(i.path), alias, StdName(i.path)) /\ visit' = visit2
        /\ UNCHANGED <<owner, failed, changed>>
    BY <1>3, <1>8 DEF v, visit2, f, i
  <2>2. ASSUME NamesDiffer, ~failed
        PROVE  ResolvedAt(owner', modules', given', sweep', visit', changed', phase')
    <3>1. file = Nothing /\ ~i.relative /\ IsStd(i.path)
      BY <1>8 DEF std
    <3> DEFINE ms == WithStd(i.path)
    <3>2. /\ DOMAIN modules \subseteq DOMAIN ms /\ \A m \in DOMAIN modules : ms[m] = modules[m]
          /\ \A m \in DOMAIN ms \ DOMAIN modules : ms[m].virtual
          /\ ParsedOK(owner, ms) /\ ModulesOK(owner, ms, "imports")
          /\ LeadsTo(owner, ms, i, f, StdName(i.path))
      BY <1>2, <1>5, <2>2, <3>1, WithStdIs DEF file
    <3> HIDE DEF ms
    <3>3. ResolvedAt(owner, Targets(ms, alias, StdName(i.path)), given, sweep, visit2, changed,
                     "imports")
      BY <1>2, <1>5, <2>2, <3>2, LedOn DEF alias, i, f, v, visit2
    <3>4. QED
      BY <1>2, <2>1, <3>3 DEF ms
  <2>3. QED
    BY <1>2, <1>4, <2>1, <2>2, Going
<1>9. CASE ~known /\ ~std /\ file \in DOMAIN owner
  <2>1. /\ modules' = Targets(modules, alias, owner[file]) /\ visit' = visit2
        /\ UNCHANGED <<owner, failed, changed>>
    BY <1>3, <1>9 DEF v, visit2, f, i
  <2>2. ASSUME NamesDiffer, ~failed
        PROVE  ResolvedAt(owner', modules', given', sweep', visit', changed', phase')
    <3>1. LeadsTo(owner, modules, i, f, owner[file])
      BY <1>5, <1>9, <2>2 DEF LeadsTo, ParsedOK, file
    <3>2. ResolvedAt(owner, Targets(modules, alias, owner[file]), given, sweep, visit2, changed,
                     "imports")
      BY <1>2, <1>5, <2>2, <3>1, LedOn DEF alias, i, f, v, visit2
    <3>3. QED
      BY <1>2, <2>1, <3>2
  <2>3. QED
    BY <1>2, <1>4, <2>1, <2>2, Going
<1>10. CASE ~known /\ ~std /\ file \notin DOMAIN owner /\ Parsable(file) /\ Sound(file)
  <2>1. /\ owner' = Put(owner, file, ModuleName(file))
        /\ modules' = Targets([Registered(file) EXCEPT
                                 ![ModuleName(file)].exports = Exports(file)],
                              alias, ModuleName(file))
        /\ failed' = (failed \/ ~Sound(file)) /\ changed' = (changed \/ Sound(file))
        /\ visit' = visit2
    BY <1>3, <1>10 DEF v, visit2, f, i
  <2> DEFINE info == [Info(file) EXCEPT !.exports = Exports(file)]
             ow   == Put(owner, file, ModuleName(file))
             ms   == Put(modules, ModuleName(file), info)
  <2>2. /\ modules' = Targets(ms, alias, ModuleName(file))
        /\ IsModule(info) /\ info.file = file /\ info.virtual = FALSE
        /\ info.aliases = [a \in Aliases(file) |-> ImportOf(file, a)]
        /\ DOMAIN info.targets = {} /\ info.exports = Exports(file)
    BY <2>1, RegisteredExports
  <2> HIDE DEF info
  <2>3. ASSUME NamesDiffer, ~failed
        PROVE  ResolvedAt(owner', modules', given', sweep', visit', changed', phase')
    <3>1. file \in Needed
      BY <1>2, <1>6, <1>10, <2>3 DEF Parsable, FilesOK
    <3>2. /\ ParsedOK(ow, ms) /\ ModulesOK(ow, ms, "imports")
          /\ ModuleName(file) \notin DOMAIN modules
      BY <1>2, <1>5, <1>10, <2>2, <2>3, <3>1, RegisteredIs
    <3>3. /\ DOMAIN ow = DOMAIN owner \cup {file}
          /\ DOMAIN ms = DOMAIN modules \cup {ModuleName(file)}
          /\ \A m \in DOMAIN modules : ms[m] = modules[m]
      BY <3>2 DEF Put
    <3>4. LeadsTo(ow, ms, i, f, ModuleName(file))
      BY <3>3 DEF LeadsTo, file
    <3> HIDE DEF ow, ms
    <3>5. ResolvedAt(ow, Targets(ms, alias, ModuleName(file)), given, sweep, visit2, TRUE,
                     "imports")
      BY <1>2, <1>5, <2>3, <3>2, <3>3, <3>4, LedOn DEF alias, i, f, v, visit2
    <3>6. changed' = TRUE
      BY <1>10, <2>1
    <3>7. QED
      BY <1>2, <2>1, <2>2, <3>5, <3>6 DEF ow, ms
  <2>4. failed' <=> failed
    BY <1>10, <2>1
  <2>5. QED
    BY <1>2, <1>4, <2>3, <2>4, Going
<1>11. CASE ~known /\ ~std /\ file \notin DOMAIN owner /\ ~(Parsable(file) /\ Sound(file))
  <2>1. NamesDiffer => ~Buildable
    BY <1>4, <1>6, <1>11
  <2>2. failed'
    BY <1>3, <1>11
  <2>3. QED
    BY <1>2, <2>1, <2>2, Going
<1>12. QED
  BY <1>7, <1>8, <1>9, <1>10, <1>11

-----------------------------------------------------------------------------
(* When the sweeps have ended, the tables say what the files say. *)

\* The sweeps have ended, all imports lead somewhere, and no file is left out.
SweptAll ==
  /\ FilesOK /\ NamesDiffer
  /\ ParsedOK(owner, modules) /\ ModulesOK(owner, modules, "rewrite")
  /\ GivenOK(given, owner) /\ DOMAIN given = {}
  /\ \A m \in DOMAIN modules : modules[m].virtual \/ AllLed(modules, m)

\* The module of a file parsed.
LEMMA EntryOf ==
  ASSUME SweptAll, NEW f \in DOMAIN owner
  PROVE  LET m == ModuleName(f)
         IN  /\ f \in Needed /\ Parsable(f) /\ Sound(f)
             /\ m \in Loaded /\ modules[m].file = f /\ modules[m].exports = Exports(f)
             /\ modules[m].aliases = [a \in Aliases(f) |-> ImportOf(f, a)]
             /\ DOMAIN modules[m].targets = Aliases(f)
             /\ \A a \in Aliases(f) :
                  LeadsTo(owner, modules, ImportOf(f, a), f, modules[m].targets[a])
<1> DEFINE m == ModuleName(f)
<1>1. /\ f \in Needed /\ Parsable(f) /\ Sound(f)
      /\ m \in DOMAIN modules /\ ~modules[m].virtual /\ modules[m].file = f
  BY DEF SweptAll, ParsedOK
<1>2. EntryOK(owner, modules, m, "rewrite") /\ AllLed(modules, m)
  BY <1>1 DEF SweptAll, ModulesOK
<1>3. /\ modules[m].exports = Exports(f)
      /\ modules[m].aliases = [a \in Aliases(f) |-> ImportOf(f, a)]
      /\ \A a \in DOMAIN modules[m].targets :
           a \in Aliases(f) /\ LeadsTo(owner, modules, ImportOf(f, a), f, modules[m].targets[a])
  BY <1>1, <1>2 DEF EntryOK
<1>4. Aliases(f) \subseteq DOMAIN modules[m].targets
  BY <1>1, <1>2 DEF AllLed
<1>5. m \in Loaded
  BY <1>1 DEF Loaded
<1> HIDE DEF m
<1>6. QED
  BY <1>1, <1>3, <1>4, <1>5 DEF m

\* The files parsed are those needed, and every import of them leads somewhere.
LEMMA ParsedAll ==
  ASSUME SweptAll
  PROVE  /\ Needed = DOMAIN owner
         /\ {modules[m].file : m \in Loaded} = Needed
         /\ \A m \in Loaded : m = ModuleName(modules[m].file)
         /\ \A f \in Needed : \A i \in Imports(f) : Leads(i, f)
<1>1. FilesOK /\ ParsedOK(owner, modules) /\ ModulesOK(owner, modules, "rewrite")
  BY DEF SweptAll
<1>2. ASSUME NEW f \in DOMAIN owner, NEW i \in Imports(f)
      PROVE  Leads(i, f) /\ (Resolved(i, f) # Nothing => Resolved(i, f) \in DOMAIN owner)
  <2>1. Parsable(f) /\ Sound(f)
    BY EntryOf
  <2>2. Alias(i) \in Aliases(f) /\ ImportOf(f, Alias(i)) = i
    BY <1>1, <2>1, ImportOfIs
  <2>3. PICK t : LeadsTo(owner, modules, i, f, t)
    <3>1. \A a \in Aliases(f) : \E t : LeadsTo(owner, modules, ImportOf(f, a), f, t)
      BY EntryOf
    <3>2. QED
      BY <2>2, <3>1
  <2>4. CASE Resolved(i, f) = Nothing /\ ~i.relative /\ IsStd(i.path)
    BY <2>4 DEF Leads
  <2>5. CASE Resolved(i, f) \in DOMAIN owner
    BY <1>1, <2>5, EntryIs DEF Leads
  <2>6. QED
    BY <2>3, <2>4, <2>5 DEF LeadsTo
<1>3. world.sources \subseteq DOMAIN owner
  BY DEF SweptAll, GivenOK
<1>4. \A f \in DOMAIN owner : Opened(f) \subseteq DOMAIN owner
  BY <1>2 DEF Opened
<1>5. Needed \subseteq DOMAIN owner
  BY <1>3, <1>4, NeededIs
<1>6. DOMAIN owner \subseteq Needed
  BY EntryOf
<1>7. \A m \in Loaded : modules[m].file \in DOMAIN owner /\ m = ModuleName(modules[m].file)
  BY <1>1, EntryIs DEF Loaded
<1>8. \A f \in DOMAIN owner : \E m \in Loaded : modules[m].file = f
  BY EntryOf
<1>9. QED
  BY <1>2, <1>5, <1>6, <1>7, <1>8

\* What an alias leads to is what the import offers.
LEMMA TargetIs ==
  ASSUME SweptAll, NEW f \in Needed, NEW a \in Aliases(f)
  PROVE  LET t == modules[ModuleName(f)].targets[a]
         IN  /\ t \in DOMAIN modules /\ t # NoName
             /\ modules[t].exports = Offered(f, a)
             /\ modules[t].virtual <=> Resolved(ImportOf(f, a), f) = Nothing
<1> DEFINE t == modules[ModuleName(f)].targets[a]
           i == ImportOf(f, a)
<1>1. FilesOK /\ ParsedOK(owner, modules) /\ ModulesOK(owner, modules, "rewrite")
  BY DEF SweptAll
<1>2. f \in DOMAIN owner
  BY ParsedAll
<1>3. LeadsTo(owner, modules, i, f, t)
  BY <1>2, EntryOf
<1> HIDE DEF t, i
<1>4. CASE Resolved(i, f) = Nothing /\ IsStd(i.path) /\ t = StdName(i.path) /\ t \in DOMAIN modules
  <2>1. PICK s \in DOMAIN StdSymbols : i.path = <<"std", s>>
    BY <1>4 DEF IsStd
  <2>2. t = <<"std/", s>>
    BY <1>4, <2>1 DEF StdName
  <2>3. modules[t].virtual
    BY <1>1, <1>4, <2>2, EntryIs
  <2>4. VirtualOK(modules, t)
    BY <1>1, <1>4, <2>3 DEF ModulesOK
  <2>5. modules[t] = StdModule(i.path)
    BY <2>1, <2>2, <2>4 DEF VirtualOK
  <2>6. t # NoName
    BY <2>2 DEF NoName
  <2>7. Offered(f, a) = StdModule(i.path).exports
    BY <1>4 DEF Offered, i
  <2>8. QED
    BY <1>4, <2>3, <2>5, <2>6, <2>7 DEF t, i
<1>5. CASE Resolved(i, f) \in DOMAIN owner /\ t = ModuleName(Resolved(i, f))
  <2> DEFINE g == Resolved(i, f)
  <2>1. g # Nothing
    BY <1>1, <1>5, EntryIs
  <2>2. Offered(f, a) = Exports(g)
    BY <2>1 DEF Offered, i
  <2> HIDE DEF g
  <2>3. /\ Parsable(g) /\ t \in DOMAIN modules /\ ~modules[t].virtual
        /\ modules[t].exports = Exports(g)
    BY <1>5, EntryOf DEF Loaded, g
  <2>4. t # NoName
    BY <1>1, <1>5, <2>3, OwnName DEF g
  <2>5. QED
    BY <2>1, <2>2, <2>3, <2>4 DEF g, t, i
<1>6. QED
  BY <1>3, <1>4, <1>5 DEF LeadsTo

\* The rewriting gives every call its meaning.
LEMMA RewrittenIs ==
  ASSUME SweptAll, NEW f \in Needed, NEW call
  PROVE  Rewritten(ModuleName(f), call) = Meaning(f, call)
<1> DEFINE m == ModuleName(f)
           t(a) == modules[m].targets[a]
<1>1. /\ modules[m].file = f /\ DOMAIN modules[m].targets = Aliases(f)
      /\ modules[m].aliases = [a \in Aliases(f) |-> ImportOf(f, a)]
  BY ParsedAll, EntryOf
<1>2. \A a \in Aliases(f) : /\ t(a) \in DOMAIN modules /\ t(a) # NoName
                            /\ modules[t(a)].exports = Offered(f, a)
                            /\ modules[t(a)].virtual <=> Resolved(ImportOf(f, a), f) = Nothing
  BY TargetIs
<1> HIDE DEF m
<1>3. TargetsOf(m) = Aliases(f)
  BY <1>1, <1>2 DEF TargetsOf
<1>4. \A a \in Aliases(f) : Exported(t(a)) = Functions(Offered(f, a))
  BY <1>2 DEF Exported, Functions
<1>5. \A n : OffersOf(m, n) = Offering(f, n)
  BY <1>3, <1>4 DEF OffersOf, Offering
<1>6. ASSUME NEW n PROVE PlainName(m, n) = PlainMeaning(f, n)
  <2>1. Local(m, n) = {fn \in world.files[f].functions : fn.name = n}
    BY <1>1 DEF Local
  <2>2. (\E a \in TargetsOf(m) : n \in DOMAIN modules[t(a)].exports) <=>
          \E a \in Aliases(f) : n \in DOMAIN Offered(f, a)
    BY <1>2, <1>3
  <2>3. QED
    BY <2>1, <2>2 DEF PlainName, PlainMeaning, m
<1>7. ASSUME NEW a \in Aliases(f), NEW n PROVE AliasName(m, a, n) = AliasMeaning(f, a, n)
  <2>1. modules[m].aliases[a] = ImportOf(f, a)
    BY <1>1
  <2>2. n \in Exported(t(a)) <=> a \in Offering(f, n)
    BY <1>4 DEF Offering
  <2>3. CASE Resolved(ImportOf(f, a), f) = Nothing
    BY <1>2, <2>1, <2>3 DEF AliasName, AliasMeaning
  <2>4. CASE Resolved(ImportOf(f, a), f) # Nothing
    BY <1>2, <2>2, <2>4 DEF AliasName, AliasMeaning
  <2>5. QED
    BY <2>3, <2>4
<1>8. ASSUME NEW n PROVE MethodName(m, n) = MethodMeaning(f, n)
  <2>1. CASE n \notin VecMethods /\ \E a \in Offering(f, n) : Offering(f, n) = {a}
    <3>1. PICK a \in Offering(f, n) : Offering(f, n) = {a}
      BY <2>1
    <3>2. The(Offering(f, n)) = a /\ a \in Aliases(f)
      BY <3>1 DEF The, Offering
    <3>3. MethodName(m, n) = Named(modules[t(a)].exports[n].link)
      BY <1>5, <2>1, <3>2 DEF MethodName
    <3>4. MethodMeaning(f, n) = Named(Offered(f, a)[n].link)
      BY <2>1, <3>2 DEF MethodMeaning
    <3>5. QED
      BY <1>2, <3>2, <3>3, <3>4
  <2>2. CASE ~(n \notin VecMethods /\ \E a \in Offering(f, n) : Offering(f, n) = {a})
    BY <1>5, <2>2 DEF MethodName, MethodMeaning
  <2>3. QED
    BY <2>1, <2>2
<1>9. CASE call.on = ""
  BY <1>6, <1>9 DEF Rewritten, Meaning, m
<1>10. CASE call.on # "" /\ call.on \in Aliases(f)
  BY <1>1, <1>7, <1>10 DEF Rewritten, Meaning, m
<1>11. CASE call.on # "" /\ call.on \notin Aliases(f)
  BY <1>1, <1>8, <1>11 DEF Rewritten, Meaning, m
<1>12. QED
  BY <1>9, <1>10, <1>11

LEMMA RewriteModulesStep ==
  ASSUME ResolverIInv, RewriteModules
  PROVE  ResolverIInv'
<1>1. /\ phase = "rewrite" /\ ~failed /\ sweep = {} /\ visit.left = {} /\ FilesOK
      /\ phase' \in {"linked", "failed"}
      /\ UNCHANGED <<world, given, modules, owner, failed, changed, sweep, visit>>
  BY DEF RewriteModules, ResolverIInv
<1>2. /\ bound' = [m \in Loaded |->
                     [call \in world.files[modules[m].file].calls |->
                        IF Reached(call) THEN Rewritten(m, call) ELSE Named(call.name)]]
      /\ phase' = "failed" <=>
           \E m \in Loaded : \E call \in DOMAIN bound'[m] : bound'[m][call] = Invalid
  BY DEF RewriteModules
<1>3. (Buildable' <=> Buildable) /\ FilesOK' /\ (NamesDiffer' <=> NamesDiffer)
  BY <1>1, SameVerdict
<1>4. ASSUME NamesDiffer
      PROVE  /\ phase' = "linked" <=> Buildable
             /\ phase' = "linked" => ResolvedSoFar' /\ Conclusion'
  <2>1. ResolvedAt(owner, modules, given, sweep, visit, changed, "rewrite")
    BY <1>1, <1>4 DEF ResolverIInv, ResolvedSoFar
  <2>2. SweptAll
    BY <1>1, <1>4, <2>1 DEF ResolvedAt, SweptAll
  <2>3. /\ \A m \in Loaded : modules[m].file \in Needed /\ m = ModuleName(modules[m].file)
        /\ \A f \in Needed : ModuleName(f) \in Loaded /\ modules[ModuleName(f)].file = f
        /\ \A f \in Needed : Parsable(f) /\ Sound(f) /\ \A i \in Imports(f) : Leads(i, f)
    BY <2>2, ParsedAll, EntryOf
  <2>4. ASSUME NEW f \in Needed
        PROVE  /\ DOMAIN bound'[ModuleName(f)] = world.files[f].calls
               /\ \A call \in world.files[f].calls :
                    bound'[ModuleName(f)][call] =
                      IF Reached(call) THEN Meaning(f, call) ELSE Named(call.name)
    <3>1. bound'[ModuleName(f)] =
            [call \in world.files[f].calls |->
               IF Reached(call) THEN Rewritten(ModuleName(f), call) ELSE Named(call.name)]
      BY <1>2, <2>3
    <3>2. QED
      BY <2>2, <3>1, RewrittenIs
  <2>5. \A name : Named(name) # Invalid
    BY DEF Named, Invalid
  <2>6. phase' = "failed" <=> \E f \in Needed : \E call \in Calls(f) : Meaning(f, call) = Invalid
    <3>1. ASSUME NEW m \in Loaded, NEW call \in DOMAIN bound'[m], bound'[m][call] = Invalid
          PROVE  \E f \in Needed : \E c \in Calls(f) : Meaning(f, c) = Invalid
      BY <2>3, <2>4, <2>5, <3>1 DEF Calls
    <3>2. ASSUME NEW f \in Needed, NEW call \in Calls(f), Meaning(f, call) = Invalid
          PROVE  \E m \in Loaded : \E c \in DOMAIN bound'[m] : bound'[m][c] = Invalid
      BY <2>3, <2>4, <3>2 DEF Calls
    <3>3. QED
      BY <1>2, <3>1, <3>2
  <2>7. phase' = "linked" <=> Buildable
    BY <1>1, <2>3, <2>6 DEF Buildable
  <2>8. ASSUME phase' = "linked" PROVE ResolvedSoFar'
    <3>1. ModulesOK(owner, modules, "linked")
      BY <2>1 DEF ResolvedAt, ModulesOK, EntryOK
    <3>2. ResolvedAt(owner', modules', given', sweep', visit', changed', phase')
      BY <1>1, <2>1, <2>8, <3>1 DEF ResolvedAt
    <3>3. QED
      BY <1>1, <3>2, SameResolved
  <2>9. ASSUME phase' = "linked" PROVE Conclusion'
    <3>1. Needed' = Needed /\ Loaded' = Loaded
      BY <1>1, SameNeeded DEF Loaded
    <3>2. \A f : /\ ModuleName(f)' = ModuleName(f) /\ Calls(f)' = Calls(f)
                 /\ \A call : Meaning(f, call)' = Meaning(f, call)
      BY <1>1, SameFiles, SameMeaning DEF Calls
    <3>3. {modules'[m].file : m \in Loaded} = Needed
      BY <1>1, <2>2, ParsedAll
    <3>4. \A f \in Needed : \A call \in Calls(f) : bound'[ModuleName(f)][call] = Meaning(f, call)
      BY <2>4 DEF Calls
    <3>5. QED
      BY <1>3, <2>7, <2>9, <3>1, <3>2, <3>3, <3>4 DEF Conclusion
  <2>10. QED
    BY <2>7, <2>8, <2>9
<1>5. ASSUME NamesDiffer, phase' = "failed" PROVE Conclusion' /\ ~Buildable'
  BY <1>3, <1>4, <1>5 DEF Conclusion
<1>6. QED
  BY <1>1, <1>3, <1>4, <1>5 DEF ResolverIInv

-----------------------------------------------------------------------------
(* The files of a command. *)

\* The arguments decide the options and the mode.
LEMMA SameArgs ==
  ASSUME args' = args
  PROVE  Options' = Options /\ (Native' <=> Native)
BY DEF Options, Native

\* The names of the files follow from the output directory and the base name.
LEMMA SameNames ==
  ASSUME UNCHANGED <<out, base>>
  PROVE  /\ \A ext \in {".ll", ".o", ""} : Output(ext)' = Output(ext)
         /\ Runtime' = Runtime
BY DEF Output, Runtime

LEMMA NamesApart ==
  /\ Output(".ll") # Output(".o") /\ Output(".ll") # Output("") /\ Output(".o") # Output("")
  /\ Output(".ll") # Runtime /\ Output("") # Runtime
BY DEF Output, Runtime

\* A file that is made is this command's, and the others are kept.
LEMMA AddedFile ==
  ASSUME NEW file, disk' = Put(disk, file, builds)
  PROVE  /\ DOMAIN disk' = DOMAIN disk \cup {file}
         /\ disk'[file] = builds
         /\ \A f \in DOMAIN disk : f # file => disk'[f] = disk[f]
BY DEF Put

\* What a step that makes a file leaves when it does not fail.
LEMMA MadeFile ==
  ASSUME NEW file, disk' = Put(disk, file, builds), UNCHANGED <<args, builds, out, base>>
  PROVE  /\ Options' = Options /\ (Native' <=> Native)
         /\ \A ext \in {".ll", ".o", ""} :
              /\ Output(ext)' = Output(ext)
              /\ Output(ext) \in DOMAIN disk => Output(ext)' \in DOMAIN disk'
              /\ Mine(ext) => Mine(ext)'
              /\ file = Output(ext) => Mine(ext)'
<1>1. \A ext \in {".ll", ".o", ""} : Output(ext)' = Output(ext)
  BY SameNames
<1>2. QED
  BY <1>1, SameArgs, AddedFile DEF Mine

-----------------------------------------------------------------------------
(* The steps. *)

\* A command that ends with an error has nothing to show.
LEMMA FailedEnd ==
  ASSUME DriverIInv, stage # "done", stage' = "done", status' = 1, UNCHANGED <<ran, builds>>
  PROVE  DriverIInv'
<1>1. ran = 0
  BY DEF DriverIInv, RanOwn
<1>2. DriverTypeOK' /\ RanOwn'
  BY <1>1 DEF DriverIInv, DriverTypeOK, Stages, RanOwn
<1>3. Gathered' /\ Delivered'
  BY DEF Gathered, Delivered
<1>4. QED
  BY <1>2, <1>3 DEF DriverIInv

LEMMA StartStep ==
  ASSUME DriverIInv, Start
  PROVE  DriverIInv'
<1> USE DEF DriverIInv
<1>1. Options' = Options /\ (Native' <=> Native)
  BY SameArgs DEF Start, At
<1>2. stage' \in {"done", "sources"} /\ status' \in {0, 1} /\ ran' = ran /\ builds' = builds
  BY DEF Start, At, Exit, Goto, DriverTypeOK, Stages
<1>3. stage' = "done" => ~(status' = 0 /\ Options'.stop = "")
  BY <1>1 DEF Start, At, Exit, Goto
<1>4. ran = 0
  BY DEF Start, At, RanOwn
<1>5. DriverTypeOK' /\ Gathered' /\ RanOwn'
  BY <1>2, <1>4 DEF DriverTypeOK, Stages, Gathered, RanOwn
<1>6. QED
  BY <1>3, <1>5 DEF Delivered

LEMMA FindSourcesStep ==
  ASSUME DriverIInv, FindSources
  PROVE  DriverIInv'
<1>1. /\ stage = "sources" /\ ran' = ran /\ builds' = builds
      /\ (stage' = "resolve" /\ status' = status) \/ (stage' = "done" /\ status' = 1)
  BY DEF FindSources, At, Exit, Goto
<1>2. CASE stage' = "done" /\ status' = 1
  BY <1>1, <1>2, FailedEnd
<1>3. CASE stage' = "resolve" /\ status' = status
  <2>1. DriverTypeOK' /\ RanOwn'
    BY <1>1, <1>3 DEF DriverIInv, DriverTypeOK, Stages, RanOwn
  <2>2. Gathered' /\ Delivered'
    BY <1>3 DEF Gathered, Delivered
  <2>3. QED
    BY <2>1, <2>2 DEF DriverIInv
<1>4. QED
  BY <1>1, <1>2, <1>3

LEMMA ResolutionFailedStep ==
  ASSUME DriverIInv, ResolutionFailed
  PROVE  DriverIInv'
BY FailedEnd DEF ResolutionFailed, At, Exit

\* Steps of the resolver, and none at all.
LEMMA DriverIdle ==
  ASSUME DriverIInv, UNCHANGED driverVars
  PROVE  DriverIInv'
<1>1. UNCHANGED <<stage, status, builds, ran, disk>> /\ args' = args /\ UNCHANGED <<out, base>>
  BY DEF driverVars
<1>2. Options' = Options /\ (Native' <=> Native)
  BY <1>1, SameArgs
<1>3. \A ext \in {".ll", ".o", ""} : Output(ext)' = Output(ext)
  BY <1>1, SameNames
<1>4. (Mine(".ll")' <=> Mine(".ll")) /\ (Mine("")' <=> Mine(""))
  BY <1>1, <1>3 DEF Mine
<1>5. Output(".o")' = Output(".o")
  BY <1>3
<1>6. DriverTypeOK' /\ RanOwn'
  BY <1>1 DEF DriverIInv, DriverTypeOK, RanOwn
<1>7. Gathered'
  BY <1>1, <1>2, <1>4, <1>5 DEF DriverIInv, Gathered
<1>8. QED
  BY <1>1, <1>2, <1>4, <1>5, <1>6, <1>7 DEF DriverIInv, Delivered

LEMMA GenerateStep ==
  ASSUME DriverIInv, Generate
  PROVE  DriverIInv'
<1>1. stage = "resolve" /\ UNCHANGED <<args, builds, out, base, ran>>
  BY DEF Generate, Makes, At
<1>2. CASE Exit(1)
  BY <1>1, <1>2, FailedEnd DEF Exit
<1>3. CASE /\ disk' = Put(disk, Output(".ll"), builds)
           /\ IF Native THEN Goto("llc") ELSE Exit(0)
  <2>1. Options' = Options /\ (Native' <=> Native) /\ Mine(".ll")'
    BY <1>1, <1>3, MadeFile
  <2>2. IF Native THEN stage' = "llc" /\ status' = status ELSE stage' = "done" /\ status' = 0
    BY <1>3 DEF Goto, Exit
  <2>3. ran = 0
    BY <1>1 DEF DriverIInv, RanOwn
  <2>4. DriverTypeOK' /\ RanOwn'
    BY <1>1, <2>2, <2>3 DEF DriverIInv, DriverTypeOK, Stages, RanOwn
  <2>5. Gathered'
    BY <2>1, <2>2 DEF Gathered
  <2>6. Options.mode = "run" => Native
    BY DEF Native
  <2>7. Delivered'
    BY <2>1, <2>2, <2>6 DEF Delivered
  <2>8. QED
    BY <2>4, <2>5, <2>7 DEF DriverIInv
<1>4. QED
  BY <1>2, <1>3 DEF Generate, Makes

LEMMA RunLlcStep ==
  ASSUME DriverIInv, RunLlc
  PROVE  DriverIInv'
<1>1. stage = "llc" /\ UNCHANGED <<args, builds, out, base, ran>>
  BY DEF RunLlc, Makes, At
<1>2. CASE Exit(1)
  BY <1>1, <1>2, FailedEnd DEF Exit
<1>3. CASE disk' = Put(disk, Output(".o"), builds) /\ Goto("runtime")
  <2>1. stage' = "runtime" /\ status' = status
    BY <1>3 DEF Goto
  <2>2. (Native' <=> Native) /\ (Mine(".ll") => Mine(".ll")') /\ Mine(".o")'
    BY <1>1, <1>3, MadeFile
  <2>3. DriverTypeOK' /\ RanOwn' /\ Delivered'
    BY <1>1, <2>1 DEF DriverIInv, DriverTypeOK, Stages, RanOwn, Delivered
  <2>4. Gathered'
    BY <1>1, <2>1, <2>2 DEF DriverIInv, Gathered, Mine
  <2>5. QED
    BY <2>3, <2>4 DEF DriverIInv
<1>4. QED
  BY <1>2, <1>3 DEF RunLlc, Makes

LEMMA CompileStep ==
  ASSUME DriverIInv, Compile
  PROVE  DriverIInv'
<1>1. stage = "runtime" /\ UNCHANGED <<args, builds, out, base, ran>>
  BY DEF Compile, Makes, At
<1>2. CASE Exit(1)
  BY <1>1, <1>2, FailedEnd DEF Exit
<1>3. CASE disk' = Put(disk, Runtime, builds) /\ Goto("link")
  <2>1. stage' = "link" /\ status' = status
    BY <1>3 DEF Goto
  <2>2. /\ Native' <=> Native
        /\ Mine(".ll") => Mine(".ll")'
        /\ Output(".o") \in DOMAIN disk => Output(".o")' \in DOMAIN disk'
    BY <1>1, <1>3, MadeFile
  <2>3. DriverTypeOK' /\ RanOwn' /\ Delivered'
    BY <1>1, <2>1 DEF DriverIInv, DriverTypeOK, Stages, RanOwn, Delivered
  <2>4. Gathered'
    BY <1>1, <2>1, <2>2 DEF DriverIInv, Gathered
  <2>5. QED
    BY <2>3, <2>4 DEF DriverIInv
<1>4. QED
  BY <1>2, <1>3 DEF Compile, Makes

LEMMA LinkStep ==
  ASSUME DriverIInv, Link
  PROVE  DriverIInv'
<1>1. stage = "link" /\ UNCHANGED <<args, builds, out, base, ran>>
  BY DEF Link, Makes, At
<1>2. CASE Exit(1)
  BY <1>1, <1>2, FailedEnd DEF Exit
<1>3. CASE disk' = Put(disk, Output(""), builds) /\ Goto("clean")
  <2>1. stage' = "clean" /\ status' = status
    BY <1>3 DEF Goto
  <2>2. /\ Native' <=> Native
        /\ Mine(".ll") => Mine(".ll")'
        /\ Output(".o") \in DOMAIN disk => Output(".o")' \in DOMAIN disk'
        /\ Mine("")'
    BY <1>1, <1>3, MadeFile
  <2>3. DriverTypeOK' /\ RanOwn' /\ Delivered'
    BY <1>1, <2>1 DEF DriverIInv, DriverTypeOK, Stages, RanOwn, Delivered
  <2>4. Gathered'
    BY <1>1, <2>1, <2>2 DEF DriverIInv, Gathered
  <2>5. QED
    BY <2>3, <2>4 DEF DriverIInv
<1>4. QED
  BY <1>2, <1>3 DEF Link, Makes

LEMMA CleanStep ==
  ASSUME DriverIInv, Clean
  PROVE  DriverIInv'
<1>1. stage = "clean" /\ UNCHANGED <<args, builds, out, base, ran>>
  BY DEF Clean, At
<1>2. Options' = Options /\ (Native' <=> Native) /\ Native
  BY <1>1, SameArgs DEF DriverIInv, Gathered
<1>3. \A ext \in {".ll", ".o", ""} : Output(ext)' = Output(ext)
  BY <1>1, SameNames
<1>4. Mine(".ll") /\ Mine("") /\ Output(".o") \in DOMAIN disk
  BY <1>1 DEF DriverIInv, Gathered
<1>5. /\ Mine(".ll")' /\ Mine("")'
      /\ Options.keep <=> Output(".o") \in DOMAIN disk'
  <2>1. CASE Options.keep
    BY <1>1, <1>3, <1>4, <2>1 DEF Clean, Mine
  <2>2. CASE ~Options.keep
    <3>1. disk' = [f \in DOMAIN disk \ {Output(".o"), Runtime} |-> disk[f]]
      BY <2>2 DEF Clean
    <3>2. QED
      BY <1>1, <1>3, <1>4, <2>2, <3>1, NamesApart DEF Mine
  <2>3. QED
    BY <2>1, <2>2
<1>6. IF Options.mode = "run" THEN stage' = "run" /\ status' = status
      ELSE stage' = "done" /\ status' = 0
  BY DEF Clean, Goto, Exit
<1>7. ran = 0
  BY <1>1 DEF DriverIInv, RanOwn
<1>8. DriverTypeOK' /\ RanOwn'
  BY <1>1, <1>6, <1>7 DEF DriverIInv, DriverTypeOK, Stages, RanOwn
<1>9. Gathered'
  BY <1>2, <1>3, <1>5, <1>6 DEF Gathered
<1>10. Delivered'
  BY <1>2, <1>3, <1>5, <1>6 DEF Delivered
<1>11. QED
  BY <1>8, <1>9, <1>10 DEF DriverIInv

LEMMA RunProgramStep ==
  ASSUME DriverIInv, RunProgram
  PROVE  DriverIInv'
<1>1. /\ stage = "run" /\ UNCHANGED <<args, builds, out, base, disk>>
      /\ stage' = "done" /\ status' \in {0, 1} /\ ran' = Maker(Output(""))
  BY DEF RunProgram, At, Exit
<1>2. Options' = Options /\ (Native' <=> Native)
  BY <1>1, SameArgs
<1>3. \A ext \in {".ll", ".o", ""} : Output(ext)' = Output(ext)
  BY <1>1, SameNames
<1>4. /\ Mine(".ll") /\ Mine("")
      /\ Options.keep <=> Output(".o") \in DOMAIN disk
  BY <1>1 DEF DriverIInv, Gathered
<1>5. ran' = builds'
  BY <1>1, <1>4 DEF Maker, Mine
<1>6. Mine(".ll")' /\ Mine("")'
  BY <1>1, <1>3, <1>4 DEF Mine
<1>7. DriverTypeOK' /\ RanOwn' /\ Gathered'
  BY <1>1, <1>5 DEF DriverIInv, DriverTypeOK, Stages, RanOwn, Gathered
<1>8. Delivered'
  BY <1>1, <1>2, <1>3, <1>4, <1>5, <1>6 DEF Delivered
<1>9. QED
  BY <1>7, <1>8 DEF DriverIInv

LEMMA NextCommandStep ==
  ASSUME DriverIInv, NextCommand
  PROVE  DriverIInv'
<1>1. stage' = "start" /\ status' = 0 /\ ran' = 0 /\ builds' = builds + 1
  BY DEF NextCommand
<1>2. DriverTypeOK' /\ RanOwn'
  BY <1>1 DEF DriverIInv, DriverTypeOK, Stages, RanOwn
<1>3. Gathered' /\ Delivered'
  BY <1>1 DEF Gathered, Delivered
<1>4. QED
  BY <1>2, <1>3 DEF DriverIInv

\* A command tells the truth about what it left, and runs no program but its own.
THEOREM TruthfulReports == Spec => []ReportsTruly
<1>1. DriverInit => DriverIInv
  BY DEF DriverInit, DriverIInv, DriverTypeOK, Stages, Gathered, RanOwn, Delivered
<1>2. DriverIInv /\ [Next]_vars => DriverIInv'
  <2>1. SUFFICES ASSUME DriverIInv, [Next]_vars PROVE DriverIInv'
    OBVIOUS
  <2>2. CASE Resolve \/ UNCHANGED vars
    BY <2>1, <2>2, DriverIdle DEF Resolve, vars
  <2>3. CASE Next /\ ~Resolve
    BY <2>1, <2>3, StartStep, FindSourcesStep, ResolutionFailedStep, GenerateStep, RunLlcStep,
       CompileStep, LinkStep, CleanStep, RunProgramStep, NextCommandStep DEF Next, Working
  <2>4. QED
    BY <2>1, <2>2, <2>3
<1>3. DriverIInv => ReportsTruly
  BY DEF DriverIInv, DriverTypeOK, RanOwn, Delivered, ReportsTruly, Maker, Mine
<1>4. QED
  BY <1>1, <1>2, <1>3, PTL DEF Spec

-----------------------------------------------------------------------------
(* The resolver within the command. *)

\* The resolver's steps.
LEMMA ResolverStep ==
  ASSUME ResolverIInv, ResolverNext
  PROVE  ResolverIInv'
BY ParseGivenStep, ExtractExportsStep, BeginSweepStep, VisitModuleStep, ResolveAliasStep,
   EndSweepsStep, RewriteModulesStep DEF ResolverNext

\* A command finds one of the file trees there are, and its resolver keeps to what it knows.
CommandIInv ==
  /\ \E c \in Commands \cup Again : tree = c[1]
  /\ stage = "resolve" => ResolverIInv

\* Where the resolver stands still.
LEMMA ResolverIdle ==
  ASSUME ResolverIInv, UNCHANGED resolverVars
  PROVE  ResolverIInv'
<1>1. UNCHANGED <<world, phase, given, modules, owner, failed, changed, sweep, visit, bound>>
  BY DEF resolverVars
<1>2. (Buildable' <=> Buildable) /\ (FilesOK' <=> FilesOK) /\ (NamesDiffer' <=> NamesDiffer)
  BY <1>1, SameVerdict
<1>3. ResolvedSoFar' <=> ResolvedSoFar
  BY <1>1, SameResolved DEF ResolvedSoFar
<1>4. Conclusion' <=> Conclusion
  <2>1. Needed' = Needed /\ Loaded' = Loaded
    BY <1>1, SameNeeded DEF Loaded
  <2>2. \A f : /\ ModuleName(f)' = ModuleName(f) /\ Calls(f)' = Calls(f)
               /\ \A call : Meaning(f, call)' = Meaning(f, call)
    BY <1>1, SameFiles, SameMeaning DEF Calls
  <2>3. QED
    BY <1>1, <1>2, <2>1, <2>2 DEF Conclusion
<1>5. QED
  BY <1>1, <1>2, <1>3, <1>4 DEF ResolverIInv

\* A resolver that is made for a command.
LEMMA ResolveAllStep ==
  ASSUME CommandIInv, NEW root, NEW dirs, NEW sources, ResolveAll(tree.files, root, dirs, sources)
  PROVE  ResolverIInv'
<1>1. PICK c \in Commands \cup Again : tree = c[1]
  BY DEF CommandIInv
<1>2. /\ world'.files = tree.files /\ world'.sources = ToSet(sources) /\ phase' = "parse"
      /\ given' = sources /\ modules' = <<>> /\ owner' = <<>> /\ failed' = FALSE
      /\ changed' = TRUE /\ sweep' = {} /\ visit'.left = {}
  BY DEF ResolveAll, NoVisit
<1>3. FilesOK'
  BY <1>1, <1>2, FilesAssumption DEF FilesOK
<1>4. DOMAIN modules' = {} /\ DOMAIN owner' = {}
  BY <1>2
<1>5. GivenOK(given, owner)'
  BY <1>2 DEF GivenOK, ToSet
<1>6. /\ ParsedOK(owner, modules)' /\ ModulesOK(owner, modules, phase)'
      /\ SweepOK(modules, sweep, visit)'
  BY <1>2, <1>4 DEF ParsedOK, ModulesOK, SweepOK
<1>7. ResolvedSoFar'
  BY <1>2, <1>4, <1>5, <1>6 DEF ResolvedSoFar, ResolvedAt
<1>8. QED
  BY <1>2, <1>3, <1>7 DEF ResolverIInv

LEMMA CommandStep ==
  ASSUME CommandIInv, [Next]_vars
  PROVE  CommandIInv'
<1>1. CASE Start \/ ResolutionFailed \/ Generate \/ RunLlc \/ Compile \/ Link \/ Clean \/ RunProgram
  <2>1. tree' = tree /\ stage' # "resolve"
    BY <1>1 DEF Start, ResolutionFailed, Generate, RunLlc, Compile, Link, Clean, RunProgram,
                Makes, At, Goto, Exit
  <2>2. QED
    BY <2>1 DEF CommandIInv
<1>2. CASE FindSources
  <2>1. tree' = tree
    BY <1>2 DEF FindSources, At
  <2>2. stage' = "resolve" =>
          \E root, dirs, sources : ResolveAll(tree.files, root, dirs, sources)
    BY <1>2 DEF FindSources, Exit
  <2>3. QED
    BY <2>1, <2>2, ResolveAllStep DEF CommandIInv
<1>3. CASE Resolve
  BY <1>3, ResolverStep DEF Resolve, CommandIInv, driverVars
<1>4. CASE NextCommand
  BY <1>4 DEF NextCommand, CommandIInv
<1>5. CASE UNCHANGED vars
  BY <1>5, ResolverIdle DEF vars, driverVars, CommandIInv
<1>6. QED
  BY <1>1, <1>2, <1>3, <1>4, <1>5 DEF Next, Working

\* Sources whose modules have names of their own are resolved exactly when all they need is
\* there and may be called as it is; just those files are linked, and every call is bound to
\* the function it means, whatever the order of the hash tables.
THEOREM ExactResolution == Spec => []ResolvesExactly
<1>1. DriverInit => CommandIInv
  BY DEF DriverInit, CommandIInv
<1>2. CommandIInv /\ [Next]_vars => CommandIInv'
  BY CommandStep
<1>3. CommandIInv => ResolvesExactly
  BY DEF CommandIInv, ResolverIInv, Conclusion, ResolvesExactly
<1>4. QED
  BY <1>1, <1>2, <1>3, PTL DEF Spec
=============================================================================

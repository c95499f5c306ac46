------------------------------ MODULE MCBuild ------------------------------
(* Small file trees and command lines for Driver. *)
EXTENDS Driver

Fn(n)      == [name |-> n, pub |-> TRUE, kind |-> "plain", body |-> TRUE, as |-> ""]
Private(n) == [Fn(n) EXCEPT !.pub = FALSE]
Llvm       == [Fn("open") EXCEPT !.kind = "extern", !.body = FALSE, !.as = "LLVMOpen"]
Import(path)   == [path |-> path, alias |-> "", relative |-> FALSE]
Beside(name)   == [path |-> <<name>>, alias |-> "", relative |-> TRUE]
Call(on, name) == [on |-> on, name |-> name, stmt |-> "expression", place |-> "body"]
Code(imports, functions, calls) ==
  [parses |-> TRUE, module |-> <<>>, imports |-> imports, functions |-> functions,
   types |-> {}, structs |-> {}, calls |-> calls]

Src == <<"p", "src">>
Lib == <<"p", "src", "lib">>
MainFile == <<Src, "main">>
A    == <<Lib, "a">>
B    == <<Lib, "b">>
OuterB == <<Src, "b">>
Index  == <<Append(Lib, "a"), "index">>
Fmt    == <<<<"p", "stl", "std">>, "fmt">>

\* main imports lib/a and std/fmt; a imports b beside it and main, b imports a.
Base ==
  (MainFile :> Code(<<Import(<<"lib", "a">>), Import(<<"std", "fmt">>)>>, {Private("main"), Private("h")},
                    {Call("a", "f"), Call("fmt", "println"), Call("v", "f"), Call("v", "push"),
                     Call("", "h")}))
  @@ (A :> Code(<<Beside("b"), Import(<<"main">>)>>, {Fn("f"), Private("p")},
                {Call("b", "g"), Call("v", "f")}))
  @@ (B :> [Code(<<Import(<<"lib", "a">>)>>, {Fn("g")}, {Call("a", "f")})
              EXCEPT !.structs = {"S"}, !.module = <<"lib", "b">>])

WithCall(f, c) == [Base EXCEPT ![f].calls = @ \cup {c}]
Sources == {
  Base,
  [Base EXCEPT ![B].parses = FALSE],
  [Base EXCEPT ![MainFile].imports = Append(@, Import(<<"none">>))],
  [Base EXCEPT ![B].imports = Append(@, [Import(<<"main">>) EXCEPT !.alias = "a"])],
  WithCall(MainFile, Call("a", "p")),
  WithCall(MainFile, [Call("a", "p") EXCEPT !.place = "capacity"]),
  WithCall(MainFile, [Call("", "f") EXCEPT !.stmt = "case"]),
  WithCall(MainFile, [Call("a", "f") EXCEPT !.stmt = "for ;;"]),
  WithCall(MainFile, Call("", "println")),
  WithCall(A, Call("b", "S")),
  [WithCall(MainFile, Call("v", "g")) EXCEPT
     ![A].functions = @ \cup {Fn("g")},
     ![MainFile].imports = Append(@, [Import(<<"lib", "b">>) EXCEPT !.alias = "other"])],
  [Base EXCEPT ![B].module = <<"a">>],
  [Base EXCEPT ![B].functions = @ \cup {[Fn("i") EXCEPT !.kind = "intrinsic", !.body = FALSE]}],
  [Base EXCEPT ![MainFile].functions = @ \cup {Llvm}],
  (OuterB :> Code(<<>>, {Fn("other")}, {})) @@ Base,
  (Index :> Base[A]) @@ [f \in {MainFile, B} |-> Base[f]],
  (Fmt :> Code(<<>>, {Fn("print"), [Fn("println") EXCEPT !.kind = "intrinsic", !.body = FALSE]}, {})) @@ Base }

Complete == [explicit |-> {},
             tools |-> {<<"fixed", "llc">>, <<"fixed", "clang">>, <<"fixed", "llvm-config">>}]
Envs == {Complete,
         [Complete EXCEPT !.tools = {<<"PATH", "llc">>, <<"PATH", "clang">>}],
         [Complete EXCEPT !.explicit = {"llc"}],
         [Complete EXCEPT !.tools = {<<"LLVM_BINDIR", "llc">>, <<"beside LLVM_CONFIG", "clang">>}],
         [Complete EXCEPT !.tools = {<<"LLVM_CONFIG", "llvm-config">>, <<"PATH", "llc">>,
                                     <<"bindir of LLVM_CONFIG", "llc">>,
                                     <<"beside LLVM_CONFIG", "clang">>}]}
Config == <<"p">> :> [object |-> TRUE, name |-> "app", src |-> Nothing, output |-> "out"]

InOrder == <<OuterB, A, Index, B, MainFile, Fmt>>
Tree(files) ==
  [files |-> files, sorted |-> SelectSeq(InOrder, LAMBDA f : f \in DOMAIN files),
   cwd |-> <<"p">>, configs |-> Config,
   inputs |-> [src |-> {f \in DOMAIN files : IsPrefix(Src, Dir(f))}, main |-> {MainFile}],
   runtime |-> {<<>>}, env |-> Complete]

Machines ==
  {[Tree(Base) EXCEPT !.env = e] : e \in Envs}
  \cup {[Tree(Base) EXCEPT !.cwd = Src], [Tree(Base) EXCEPT !.configs = <<>>],
        [Tree(Base) EXCEPT !.configs[<<"p">>].object = FALSE],
        [Tree(Base) EXCEPT !.configs[<<"p">>].src = <<<<"none">>>>],
        [Tree(Base) EXCEPT !.configs[<<"p">>].src = <<<<"src", "lib">>, <<"none">>>>,
                           !.configs[<<"p">>].name = Nothing, !.configs[<<"p">>].output = Nothing],
        [Tree([Base EXCEPT ![MainFile].functions = @ \cup {Llvm}])
           EXCEPT !.env.tools = @ \ {<<"fixed", "llvm-config">>}],
        [Tree(Base) EXCEPT !.runtime = {<<"q">>}]}
Unresolved == Tree([Base EXCEPT ![B].parses = FALSE])
Llvms      == Tree([Base EXCEPT ![MainFile].functions = @ \cup {Llvm}])
MCAgain ==
  (Machines \X {<<"run">>})
  \cup ({Tree(Base), Unresolved, Llvms} \X
          {<<"build">>, <<"build", "main", "--link-llvm", "--keep-obj", "-o", "out">>})
MCCommands ==
  MCAgain
  \cup ({Tree(files) : files \in Sources} \X {<<"build">>, <<"ll", "main">>})
  \cup (Machines \X {<<"build", "main", "--link-llvm", "--keep-obj", "-o", "out">>})
  \cup ({Tree(Base)} \X {<<>>, <<"help">>, <<"build", "-o">>, <<"debug">>, <<"debug", "src">>,
                         <<"build", "ir", "src">>, <<"run", "main", "none", "--", "build">>})
=============================================================================

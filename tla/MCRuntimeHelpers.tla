-------------------------- MODULE MCRuntimeHelpers --------------------------
(* Small file systems and calls for RuntimeHelpers. *)
EXTENDS RuntimeHelpers

Runs(op, words) == [op |-> op, args |-> words, bytes |-> Null, ignored |-> FALSE,
                    linkflags |-> <<>>, flags |-> <<>>]
Packed(op, words, bytes) == [Runs(op, words) EXCEPT !.bytes = bytes]
MCCalls ==
  LET plain == {Runs(op, <<"a", "b">>) : op \in {"run", "capture"}}
  IN  plain \cup {[c EXCEPT !.ignored = TRUE] : c \in plain}
      \cup {Packed(op, <<"a", "", "b">>, <<"a", "NUL", "NUL", "b", "NUL">>) : op \in {"run", "capture"}}
      \cup {Packed(op, <<"a">>, <<"a", "NUL", "b">>) : op \in {"run", "capture"}}
      \cup {[Runs("link", <<"--libs">>) EXCEPT !.linkflags = f, !.flags = g] :
              f \in {<<>>, <<" ", "x", "y", " ", " ", "z">>}, g \in {<<"\n">>, <<"l", " ", "m", "\n">>}}

Fs(d1, d2, d3, closed) ==
  [dirs |-> [one |-> d1, two |-> d2, three |-> d3], closed |-> closed, root |-> "one"]
MCOrder == <<"a", "b", "c", "l", "me", "s", "t", "up", "x">>
MCSearches ==
  {Fs([a |-> "source", s |-> "two", l |-> "two"], [b |-> "source", up |-> "one", t |-> "three"],
      [a |-> "source", me |-> "three"], {}),
   Fs([s |-> "two", t |-> "three"], [a |-> "other", up |-> "one"],
      [c |-> "source", x |-> "dangling", l |-> "two"], {"two"}),
   Fs([a |-> "other", b |-> "dangling"], <<>>, <<>>, {}),
   [Fs(<<>>, <<>>, <<>>, {}) EXCEPT !.root = "file"]}

MCPlaces == <<<<"build", "a", "b">>, <<"build", "a", "c">>, <<"build", "a">>>>
MCObstacles == {{}, {<<"build", "a">>}, {<<"build">>}}
=============================================================================

-------------------------- MODULE MCScopeLowering --------------------------
(* The programs TLC lowers and runs: an exit or an assignment under two or *)
(* three levels of if, for, switch and standalone block, with deferred     *)
(* statements in front of, between and behind the levels.                  *)
EXTENDS BootstrapLowering, FiniteSets

Defer(d)       == [op |-> "defer", d |-> d]
Wrap(op, body) == [op |-> op, body |-> body]
Wraps          == {"if", "for", "switch", "block"}

Leaves ==
  {[op |-> "break"], [op |-> "continue"]}
  \cup {[op |-> "return", kind |-> k] : k \in {"none", "pointer", "struct"}}
  \cup {[op |-> "assign", kind |-> k] : k \in {"pointer", "struct"}}

\* A statement alone, after, or between deferred statements.
Around(s, d) == {<<s>>, <<Defer(d), s>>, <<Defer(d), s, Defer(d + 1)>>}

Nest(inner, d) == UNION {{Wrap(w, body) : w \in Wraps, body \in Around(s, d)} : s \in inner}
Deep(inner, d) == {Wrap(w, <<Defer(d), s>>) : w \in Wraps, s \in inner}

TwoLevels   == UNION {Around(s, 1) : s \in Nest(Nest(Leaves, 5), 3)}
ThreeLevels == {<<Defer(1), s>> : s \in Deep(Deep(Deep(Leaves, 4), 3), 2)}

\* break needs a loop or switch around it, continue a loop.
RECURSIVE Legal(_, _, _)
Legal(body, loop, switch) ==
  \A i \in 1 .. Len(body) :
    LET s == body[i]
    IN  CASE s.op = "break"    -> loop \/ switch
          [] s.op = "continue" -> loop
          [] s.op \in Wraps    -> Legal(s.body, loop \/ s.op = "for", switch \/ s.op = "switch")
          [] OTHER             -> TRUE

\* The statements of a body, at any depth, each with whether the nearest loop
\* or switch around it is a switch and whether a standalone block is around it.
RECURSIVE Statements(_, _, _)
Statements(body, sw, bl) ==
  UNION {LET s == body[i]
         IN  {[s |-> s, sw |-> sw, bl |-> bl]}
             \cup IF s.op \in Wraps
                  THEN Statements(s.body, s.op = "switch" \/ (sw /\ s.op # "for"),
                                  bl \/ s.op = "block")
                  ELSE {}
         : i \in 1 .. Len(body)}

In(p)          == Statements(p, FALSE, FALSE)
Deferring(p)   == \E t \in In(p) : t.s.op = "defer"
SwitchBreak(p) == \E t \in In(p) : t.s.op = "break" /\ t.sw
StructOut(p)   == \E t \in In(p) : /\ t.bl /\ t.s.op \in {"return", "assign"}
                                  /\ t.s.kind = "struct"

AllPrograms == {p \in TwoLevels \cup ThreeLevels : Legal(p, FALSE, FALSE)}

\* Without the two constructs the backend does not lower as documented.
Regular == {p \in AllPrograms : ~StructOut(p) /\ ~(SwitchBreak(p) /\ Deferring(p))}

\* The bootstrap compiler's: no statement deferred right inside a case, which has no scope.
CaseDefers(p) == \E t \in In(p) : /\ t.s.op = "switch"
                                  /\ \E i \in DOMAIN t.s.body : t.s.body[i].op = "defer"
RECURSIVE WithLoops(_, _)
WithLoops(body, loop) ==
  [i \in DOMAIN body |->
     IF body[i].op \in Wraps
     THEN Wrap(IF body[i].op = "for" THEN loop ELSE body[i].op, WithLoops(body[i].body, loop))
     ELSE body[i]]
BootstrapBodies ==
  {WithLoops(p, loop) : p \in {q \in AllPrograms : ~CaseDefers(q)},
                        loop \in {"for", "for in", "forever"}}
NoBodies == {}

\* A break that leaves a switch, with deferred statements around.
SwitchBreaks == {p \in AllPrograms : SwitchBreak(p) /\ Deferring(p) /\ ~StructOut(p)}

\* A structure returned from a standalone block.
StructReturns ==
  {p \in AllPrograms : StructOut(p) /\ ~SwitchBreak(p) /\ \E t \in In(p) : t.s.op = "return"}
=============================================================================

----------------------------- MODULE MCLowering -----------------------------
(* What TLC checks of lowering: a run is a program of MCScopeLowering, or  *)
(* a sequence of vector statements, compiled by one compiler or the other. *)
EXTENDS MCScopeLowering, TLC

CONSTANTS Block, None, MaxFrame, Var, Constant, Literals, Reserves, MaxIndex, MaxOps
VARIABLES
  unit, live, registered, owner, frame, current_frame,
  compiler, binding, depth, vec, slots, todo, reg, meant, shared, astray, used, ops

Vecs    == INSTANCE Vectors
vecVars == <<live, registered, owner, frame, current_frame, compiler, binding, depth, vec,
             slots, todo, reg, meant, shared, astray, used, ops>>

ASSUME ConstantAssumption == Constant \notin Block \cup {None}

\* The constants.
Capacities      == {-1, 0, 1}
Reserved        == {-1, 2}
Symmetry        == Permutations(Var)

LoweringInit ==
  /\ Vecs!VecInit
  /\ \/ unit = "scopes" /\ compiler = "bootstrap" /\ BothInit
     \/ /\ unit = "vectors"
        /\ work = <<>> /\ frames = 0 /\ pending = <<>> /\ turns = 0
        /\ store = [outer |-> Absent, result |-> Absent]

LoweringNext ==
  /\ UNCHANGED unit
  /\ \/ unit = "scopes" /\ Next /\ UNCHANGED vecVars
     \/ unit = "vectors" /\ Vecs!VecNext /\ UNCHANGED vars

LoweringSpec == LoweringInit /\ [][LoweringNext]_<<unit, vars, vecVars>>

\* A vector in scope has the contents the source gives it, tells where a value
\* went, and its elements live exactly as long as they are in it (Vectors: push,
\* assignment, reserve and clear of both compilers).
VecsExact == Vecs!VecsExact
=============================================================================

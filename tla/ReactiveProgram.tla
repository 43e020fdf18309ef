--------------------------- MODULE ReactiveProgram ---------------------------
(***************************************************************************)
(* Programs of the reactive language (thalos-language-service, reactive.rs *)
(* and the evaluation of expressions in reactive_eval.rs): statements that *)
(* bind a local, order an operation, wait for a signal or branch on a      *)
(* condition.  A motion, a wait and an output are alike here: operations   *)
(* handed to the runtime.                                                  *)
(*                                                                         *)
(* A value is a number or Unknown: every use of a RuntimeValue goes        *)
(* through as_f64 or as_bool, which read a Boolean as 1 or 0 and anything  *)
(* that is no number as nothing.  Numbers are counted in fractions of a    *)
(* unit, Scale to the unit, so that a reading below one exists.            *)
(***************************************************************************)
EXTENDS Integers, Sequences

CONSTANTS
  Signals,     \* channels a program reads
  Readings,    \* bound: values a channel reports
  Scale,       \* number representing 1.0
  Unknown,     \* no value: a missing channel, an unbound local
  NoElse,      \* an if without an else branch
  Completed    \* the step returned at the end of a program

ASSUME ReadingAssumption ==
  Readings \subseteq Int /\ Unknown \notin Int /\ Scale \in Nat \ {0}

\* An observation bundle: a channel may be missing.
Bundles == [Signals -> Readings \cup {Unknown}]

Truth(b) == IF b THEN Scale ELSE 0

\* `value as i64` rounds towards zero.
Whole(v) == IF v >= 0 THEN v - (v % Scale) ELSE v + ((-v) % Scale)

\* as_bool: Unknown is not true.
Holds(v) == v # Unknown /\ v # 0

Compare(op, l, r) ==
  IF Unknown \in {l, r} THEN Unknown
  ELSE Truth(CASE op = "eq" -> l = r
               [] op = "neq" -> l # r
               [] op = "gt" -> l > r
               [] op = "lt" -> l < r
               [] op = "gte" -> l >= r
               [] op = "lte" -> l <= r)

ReadSignal(e, o) ==
  LET v == o[e.signal] IN
  IF v = Unknown THEN Unknown
  ELSE CASE e.type = "bool" -> Truth(v # 0)
         [] e.type = "int" -> Whole(v)
         [] e.type = "float" -> v

ReadLocal(e, env) == IF e.name \in DOMAIN env THEN env[e.name] ELSE Unknown

EvalAtom(e, env, o) ==
  CASE e.kind = "const" -> e.value
    [] e.kind = "signal" -> ReadSignal(e, o)
    [] e.kind = "local" -> ReadLocal(e, env)

Eval(e, env, o) ==
  IF e.kind = "compare"
  THEN Compare(e.op, EvalAtom(e.left, env, o), EvalAtom(e.right, env, o))
  ELSE EvalAtom(e, env, o)
=============================================================================

----------------------- MODULE ReactiveEvaluatorProofs -----------------------
(***************************************************************************)
(* Proofs about the reactive evaluator: for every program, whatever the    *)
(* nesting and the length of its branches, the flattened instructions do   *)
(* what the structure says.                                                *)
(***************************************************************************)
EXTENDS ReactiveEvaluator, SequenceTheorems, WellFoundedInduction, TLAPS

-----------------------------------------------------------------------------
(* Recursion                                                                *)

\* What holds of some naturals holds of a smallest one.
LEMMA Smallest ==
  ASSUME NEW T, T \subseteq Nat, T # {}
  PROVE  \E m \in T : \A n \in T : m <= n
<1>. DEFINE R == OpToRel(<, Nat)
<1>1. IsWellFoundedOn(R, Nat)
  BY NatLessThanWellFounded
<1>2. \A a, b \in Nat : a < b => <<a, b>> \in R
  BY DEF OpToRel
<1>. HIDE DEF R
<1>3. PICK m \in T : \A n \in T : ~(<<n, m>> \in R)
  BY <1>1, WFMin
<1>4. ASSUME NEW n \in T
      PROVE  m <= n
  <2>1. n \in Nat /\ m \in Nat
    OBVIOUS
  <2>2. ~(n < m)
    BY <1>2, <1>3, <2>1
  <2>. QED
    BY <2>1, <2>2
<1>. QED
  BY <1>4

\* A function from functions to functions whose value at x depends on what its
\* argument is at points of smaller rank only.
Contracts(step, D, V, rank) ==
  \A f, g \in [D -> V] : \A x \in D :
    (\A y \in D : rank[y] < rank[x] => f[y] = g[y]) => step[f][x] = step[g][x]

Agree(f, g, D, rank, n) == \A x \in D : rank[x] < n => f[x] = g[x]

\* The first n values of the iterates of step.
Iterates(h, step, start, D, V, n) ==
  /\ h \in [0 .. n -> [D -> V]]
  /\ h[0] = start
  /\ \A k \in 1 .. n : h[k] = step[h[k - 1]]

LEMMA IteratesExist ==
  ASSUME NEW D, NEW V, NEW step \in [[D -> V] -> [D -> V]], NEW start \in [D -> V],
         NEW n \in Nat
  PROVE  \E h : Iterates(h, step, start, D, V, n)
<1>. DEFINE T == {m \in Nat : ~ \E h : Iterates(h, step, start, D, V, m)}
<1>1. SUFFICES ASSUME T # {} PROVE FALSE
  OBVIOUS
<1>2. PICK m \in T : \A k \in T : m <= k
  <2>1. T \subseteq Nat
    OBVIOUS
  <2>. HIDE DEF T
  <2>. QED
    BY <1>1, <2>1, Smallest
<1>3. m \in Nat /\ ~ \E h : Iterates(h, step, start, D, V, m)
  OBVIOUS
<1>4. CASE m = 0
  <2>. DEFINE h == [k \in 0 .. 0 |-> start]
  <2>1. h \in [0 .. 0 -> [D -> V]] /\ h[0] = start /\ 1 .. 0 = {}
    OBVIOUS
  <2>2. Iterates(h, step, start, D, V, 0)
    BY <2>1 DEF Iterates
  <2>. QED
    BY <1>3, <1>4, <2>2
<1>5. CASE m # 0
  <2>1. m - 1 \in Nat /\ m - 1 \notin T
    BY <1>2, <1>3, <1>5
  <2>2. PICK h : Iterates(h, step, start, D, V, m - 1)
    BY <2>1
  <2>3. h \in [0 .. m - 1 -> [D -> V]] /\ h[0] = start
        /\ \A k \in 1 .. m - 1 : h[k] = step[h[k - 1]]
    BY <2>2 DEF Iterates
  <2>. DEFINE g == [k \in 0 .. m |-> IF k = m THEN step[h[m - 1]] ELSE h[k]]
  <2>4. m - 1 \in 0 .. m - 1 /\ \A k \in 0 .. m : k = m \/ k \in 0 .. m - 1
    BY <1>3, <2>1
  <2>5. g \in [0 .. m -> [D -> V]]
    <3>1. step[h[m - 1]] \in [D -> V]
      BY <2>3, <2>4
    <3>2. \A k \in 0 .. m - 1 : h[k] \in [D -> V]
      BY <2>3
    <3>. QED
      BY <2>4, <3>1, <3>2
  <2>6. g[0] = start
    BY <1>3, <1>5, <2>3
  <2>7. \A k \in 1 .. m : g[k] = step[g[k - 1]]
    <3>. SUFFICES ASSUME NEW k \in 1 .. m PROVE g[k] = step[g[k - 1]]
      OBVIOUS
    <3>1. k \in 0 .. m /\ k - 1 \in 0 .. m /\ k - 1 # m
      BY <1>3
    <3>2. g[k - 1] = h[k - 1]
      BY <3>1
    <3>3. CASE k = m
      BY <3>1, <3>2, <3>3
    <3>4. CASE k # m
      <4>1. k \in 1 .. m - 1
        BY <1>3, <3>4
      <4>. QED
        BY <2>3, <3>1, <3>2, <3>4, <4>1
    <3>. QED
      BY <3>3, <3>4
  <2>. HIDE DEF g
  <2>8. Iterates(g, step, start, D, V, m)
    BY <2>5, <2>6, <2>7 DEF Iterates
  <2>. QED
    BY <1>3, <2>8
<1>. QED
  BY <1>4, <1>5

\* The iterates of a contracting step settle rank by rank, whatever they start
\* from: the n-th ones agree below rank n.
LEMMA IteratesSettle ==
  ASSUME NEW D, NEW V, NEW step \in [[D -> V] -> [D -> V]],
         NEW rank \in [D -> Nat], Contracts(step, D, V, rank),
         NEW a \in [D -> V], NEW b \in [D -> V], NEW n \in Nat,
         NEW f, Iterates(f, step, a, D, V, n),
         NEW g, Iterates(g, step, b, D, V, n)
  PROVE  Agree(f[n], g[n], D, rank, n)
<1>. DEFINE T == {m \in 0 .. n : ~ Agree(f[m], g[m], D, rank, m)}
<1>1. /\ f \in [0 .. n -> [D -> V]] /\ g \in [0 .. n -> [D -> V]]
      /\ \A k \in 1 .. n : f[k] = step[f[k - 1]] /\ g[k] = step[g[k - 1]]
  BY DEF Iterates
<1>2. SUFFICES ASSUME T # {} PROVE FALSE
  OBVIOUS
<1>3. PICK m \in T : \A k \in T : m <= k
  <2>1. T \subseteq Nat
    OBVIOUS
  <2>. HIDE DEF T
  <2>. QED
    BY <1>2, <2>1, Smallest
<1>4. m \in 0 .. n /\ ~ Agree(f[m], g[m], D, rank, m)
  OBVIOUS
<1>5. CASE m = 0
  <2>1. Agree(f[0], g[0], D, rank, 0)
    BY DEF Agree
  <2>. QED
    BY <1>4, <1>5, <2>1
<1>6. CASE m # 0
  <2>1. m - 1 \in 0 .. n /\ m - 1 \notin T /\ m \in 1 .. n
    BY <1>3, <1>4, <1>6
  <2>2. Agree(f[m - 1], g[m - 1], D, rank, m - 1)
    BY <2>1
  <2>3. /\ f[m - 1] \in [D -> V] /\ g[m - 1] \in [D -> V]
        /\ f[m] = step[f[m - 1]] /\ g[m] = step[g[m - 1]]
    BY <1>1, <2>1
  <2>4. ASSUME NEW x \in D, rank[x] < m
        PROVE  f[m][x] = g[m][x]
    <3>1. \A y \in D : rank[y] < rank[x] => f[m - 1][y] = g[m - 1][y]
      <4>1. \A y \in D : rank[y] < rank[x] => rank[y] < m - 1
        BY <1>4, <2>4
      <4>. QED
        BY <2>2, <4>1 DEF Agree
    <3>. QED
      BY <2>3, <3>1 DEF Contracts
  <2>5. Agree(f[m], g[m], D, rank, m)
    BY <2>4 DEF Agree
  <2>. QED
    BY <1>4, <2>5
<1>. QED
  BY <1>5, <1>6

HasFixedPoint(step, D, V) == \E F \in [D -> V] : F = step[F]

\* A contracting step has a fixed point: recursion on a rank defines a function.
LEMMA FixedPoint ==
  ASSUME NEW D, NEW V, NEW some \in V, NEW step \in [[D -> V] -> [D -> V]],
         NEW rank \in [D -> Nat], Contracts(step, D, V, rank)
  PROVE  HasFixedPoint(step, D, V)
<1>. DEFINE start == [x \in D |-> some]
            Run(n) == CHOOSE h : Iterates(h, step, start, D, V, n)
            F == [x \in D |-> Run(rank[x] + 1)[rank[x] + 1][x]]
<1>1. start \in [D -> V]
  OBVIOUS
<1>2. \A n \in Nat : Iterates(Run(n), step, start, D, V, n)
  <2>. HIDE DEF start
  <2>. QED
    BY <1>1, IteratesExist
<1>. HIDE DEF start, Run
<1>3. ASSUME NEW n \in Nat
      PROVE  /\ Run(n)[n] \in [D -> V]
             /\ n # 0 => Run(n)[n] = step[Run(n)[n - 1]] /\ Run(n)[n - 1] \in [D -> V]
  <2>1. /\ Run(n) \in [0 .. n -> [D -> V]]
        /\ \A k \in 1 .. n : Run(n)[k] = step[Run(n)[k - 1]]
    BY <1>2 DEF Iterates
  <2>2. n \in 0 .. n /\ (n # 0 => n \in 1 .. n /\ n - 1 \in 0 .. n)
    OBVIOUS
  <2>. QED
    BY <2>1, <2>2
<1>4. F \in [D -> V]
  <2>. SUFFICES ASSUME NEW x \in D PROVE Run(rank[x] + 1)[rank[x] + 1][x] \in V
    OBVIOUS
  <2>1. rank[x] + 1 \in Nat
    OBVIOUS
  <2>. QED
    BY <1>3, <2>1
\* Below rank n, longer iterations from the same start say the same.
<1>5. ASSUME NEW n \in Nat, NEW k \in 0 .. n
      PROVE  Agree(Run(k)[k], Run(n)[n], D, rank, k)
  <2>. DEFINE g == [j \in 0 .. k |-> Run(n)[j + (n - k)]]
  <2>1. /\ Run(n) \in [0 .. n -> [D -> V]]
        /\ \A j \in 1 .. n : Run(n)[j] = step[Run(n)[j - 1]]
    BY <1>2 DEF Iterates
  <2>2. g \in [0 .. k -> [D -> V]]
    <3>1. \A j \in 0 .. k : j + (n - k) \in 0 .. n
      OBVIOUS
    <3>. QED
      BY <2>1, <3>1
  <2>3. \A j \in 1 .. k : g[j] = step[g[j - 1]]
    <3>. SUFFICES ASSUME NEW j \in 1 .. k PROVE g[j] = step[g[j - 1]]
      OBVIOUS
    <3>1. /\ j \in 0 .. k /\ j - 1 \in 0 .. k /\ j + (n - k) \in 1 .. n
          /\ (j - 1) + (n - k) = (j + (n - k)) - 1
      OBVIOUS
    <3>. QED
      BY <2>1, <3>1
  <2>4. g[0] \in [D -> V]
    BY <2>2
  <2>5. Iterates(g, step, g[0], D, V, k)
    <3>. HIDE DEF g
    <3>. QED
      BY <2>2, <2>3 DEF Iterates
  <2>6. g[k] = Run(n)[n]
    <3>1. k \in 0 .. k /\ k + (n - k) = n
      OBVIOUS
    <3>. QED
      BY <3>1
  <2>7. k \in Nat /\ Iterates(Run(k), step, start, D, V, k)
    BY <1>2
  <2>. HIDE DEF g
  <2>8. Agree(Run(k)[k], g[k], D, rank, k)
    BY <1>1, <2>4, <2>5, <2>7, IteratesSettle
  <2>. QED
    BY <2>6, <2>8
<1>6. ASSUME NEW x \in D
      PROVE  F[x] = step[F][x]
  <2>. DEFINE r == rank[x]
              prior == Run(r + 1)[r]
  <2>1. r \in Nat /\ r + 1 \in Nat /\ r + 1 # 0 /\ (r + 1) - 1 = r
    OBVIOUS
  <2>2. Run(r + 1)[r + 1] = step[prior] /\ prior \in [D -> V]
    BY <1>3, <2>1
  <2>3. \A y \in D : rank[y] < r => F[y] = prior[y]
    <3>. SUFFICES ASSUME NEW y \in D, rank[y] < r PROVE F[y] = prior[y]
      OBVIOUS
    <3>1. rank[y] + 1 \in 0 .. r /\ rank[y] \in Nat /\ rank[y] < rank[y] + 1
      BY <2>1
    <3>2. Agree(Run(rank[y] + 1)[rank[y] + 1], Run(r)[r], D, rank, rank[y] + 1)
      BY <1>5, <2>1, <3>1
    <3>3. F[y] = Run(r)[r][y]
      BY <3>1, <3>2 DEF Agree
    <3>4. Agree(Run(r)[r], Run(r + 1)[r], D, rank, r)
      <4>. DEFINE h == [j \in 0 .. r |-> Run(r + 1)[j]]
      <4>1. Iterates(Run(r + 1), step, start, D, V, r + 1)
        BY <1>2, <2>1
      <4>2. Iterates(h, step, start, D, V, r)
        <5>1. /\ Run(r + 1) \in [0 .. r + 1 -> [D -> V]] /\ Run(r + 1)[0] = start
              /\ \A k \in 1 .. r + 1 : Run(r + 1)[k] = step[Run(r + 1)[k - 1]]
          BY <4>1 DEF Iterates
        <5>2. 0 .. r \subseteq 0 .. r + 1 /\ 0 \in 0 .. r
              /\ \A k \in 1 .. r : k \in 1 .. r + 1 /\ k \in 0 .. r /\ k - 1 \in 0 .. r
          BY <2>1
        <5>. HIDE DEF r
        <5>3. h \in [0 .. r -> [D -> V]]
          BY <5>1, <5>2
        <5>4. h[0] = start /\ \A k \in 1 .. r : h[k] = step[h[k - 1]]
          BY <5>1, <5>2
        <5>. HIDE DEF h
        <5>. QED
          BY <5>3, <5>4 DEF Iterates
      <4>3. h[r] = Run(r + 1)[r]
        BY <2>1
      <4>4. Iterates(Run(r), step, start, D, V, r)
        BY <1>2, <2>1
      <4>. HIDE DEF h, r
      <4>5. Agree(Run(r)[r], h[r], D, rank, r)
        BY <1>1, <2>1, <4>2, <4>4, IteratesSettle
      <4>. QED
        BY <4>3, <4>5
    <3>. QED
      BY <3>3, <3>4 DEF Agree
  <2>4. step[F][x] = step[prior][x]
    <3>. HIDE DEF F, prior
    <3>. QED
      BY <1>4, <2>2, <2>3 DEF Contracts
  <2>5. F[x] = Run(r + 1)[r + 1][x]
    OBVIOUS
  <2>. QED
    BY <2>2, <2>4, <2>5
<1>7. F = step[F]
  <2>1. step[F] \in [D -> V]
    <3>. HIDE DEF F
    <3>. QED
      BY <1>4
  <2>. HIDE DEF F
  <2>. QED
    BY <1>4, <1>6, <2>1
<1>. HIDE DEF F
<1>. QED
  BY <1>4, <1>7 DEF HasFixedPoint

-----------------------------------------------------------------------------
(* Bodies and their flattening                                              *)

\* A body is its first statement and what follows, and both it and the branches
\* of that statement are bodies of a smaller size.
LEMMA BodyParts ==
  ASSUME NEW body \in Bodies, body # <<>>
  PROVE  /\ body \in Seq(AllStatements) /\ Head(body) \in AllStatements
         /\ Tail(body) \in Bodies /\ Size[Tail(body)] < Size[body]
         /\ body = <<Head(body)>> \o Tail(body)
         /\ Head(body).op \in {"let", "operate", "await", "if"}
         /\ Head(body).op = "if" =>
              /\ Head(body).then \in Bodies /\ Size[Head(body).then] < Size[body]
              /\ Head(body).else # NoElse =>
                   Head(body).else \in Bodies /\ Size[Head(body).else] < Size[body]
<1>. DEFINE s == Head(body)
<1>1. /\ body \in Seq(AllStatements) /\ s.op \in {"let", "operate", "await", "if"}
      /\ \A part \in {Tail(body)} \cup BranchesOf(s) :
           part \in Bodies /\ Size[part] < Size[body]
  BY BodyAssumption
<1>2. s \in AllStatements /\ body = <<s>> \o Tail(body)
  BY <1>1, HeadTailProperties
<1>3. CASE s.op = "if"
  <2>1. s.then \in BranchesOf(s)
    BY <1>3 DEF BranchesOf
  <2>2. s.else # NoElse => s.else \in BranchesOf(s)
    BY <1>3 DEF BranchesOf
  <2>. HIDE DEF s
  <2>. QED
    BY <1>1, <1>2, <2>1, <2>2 DEF s
<1>4. CASE s.op # "if"
  BY <1>1, <1>2, <1>4
<1>. QED
  BY <1>3, <1>4

LEMMA BodySizes ==
  ASSUME NEW body \in Bodies
  PROVE  Size[body] \in Nat /\ body \in Seq(AllStatements)
BY BodyAssumption

Instructions ==
  AllStatements
  \cup {JumpIfFalse(s.cond, t) : s \in AllStatements, t \in Nat}
  \cup {Jump(t) : t \in Nat}

Codes == Seq(Instructions)

Layouts == [Nat -> Codes]

\* Code is put together of instructions.
LEMMA OneInstruction ==
  ASSUME NEW i \in Instructions
  PROVE  <<i>> \in Codes /\ Len(<<i>>) = 1 /\ <<i>>[1] = i
BY DEF Codes

LEMMA CodeJoined ==
  ASSUME NEW c \in Codes, NEW d \in Codes
  PROVE  /\ c \o d \in Codes /\ Len(c \o d) = Len(c) + Len(d)
         /\ Len(c) \in Nat /\ Len(d) \in Nat
BY ConcatProperties, LenProperties DEF Codes

LEMMA CodeElements ==
  ASSUME NEW c \in Codes, NEW d \in Codes
  PROVE  /\ \A k \in 1 .. Len(c) : (c \o d)[k] = c[k]
         /\ \A k \in 1 .. Len(d) : (c \o d)[Len(c) + k] = d[k]
<1>1. /\ c \o d \in Codes /\ Len(c \o d) = Len(c) + Len(d)
      /\ Len(c) \in Nat /\ Len(d) \in Nat
      /\ \A i \in 1 .. Len(c) + Len(d) :
           (c \o d)[i] = IF i <= Len(c) THEN c[i] ELSE d[i - Len(c)]
  BY ConcatProperties, LenProperties DEF Codes
<1>2. ASSUME NEW k \in 1 .. Len(c)
      PROVE  (c \o d)[k] = c[k]
  <2>1. k \in 1 .. Len(c) + Len(d) /\ k <= Len(c)
    BY <1>1
  <2>. QED
    BY <1>1, <2>1
<1>3. ASSUME NEW k \in 1 .. Len(d)
      PROVE  (c \o d)[Len(c) + k] = d[k]
  <2>1. Len(c) + k \in 1 .. Len(c) + Len(d) /\ ~(Len(c) + k <= Len(c))
        /\ (Len(c) + k) - Len(c) = k
    BY <1>1
  <2>. QED
    BY <1>1, <2>1
<1>. QED
  BY <1>1, <1>2, <1>3

\* The branches of a statement are laid out.
BranchesLaid(f, s) ==
  s.op = "if" => f[s.then] \in Layouts /\ (s.else # NoElse => f[s.else] \in Layouts)

\* The shape of a statement's code: one instruction, or a conditional jump, the
\* code of one branch, and for a second one a jump and its code.
LEMMA StatementCode ==
  ASSUME NEW s \in AllStatements, NEW at \in Nat, NEW f, BranchesLaid(f, s)
  PROVE  /\ CompileStatement(f, s, at) \in Codes
         /\ Len(CompileStatement(f, s, at)) \in Nat \ {0}
<1>. DEFINE then == f[s.then][at + 1]
            after == at + 1 + Len(then)
            else == f[s.else][after + 1]
<1>1. s \in Instructions
  BY DEF Instructions
<1>2. \A t \in Nat : JumpIfFalse(s.cond, t) \in Instructions /\ Jump(t) \in Instructions
  BY DEF Instructions
<1>3. CASE s.op # "if"
  <2>1. CompileStatement(f, s, at) = <<s>>
    BY <1>3 DEF CompileStatement
  <2>. QED
    BY <1>1, <2>1, OneInstruction
<1>4. CASE s.op = "if"
  <2>1. then \in Codes
    <3>1. f[s.then] \in Layouts
      BY <1>4, Zenon DEF BranchesLaid
    <3>2. at + 1 \in Nat
      OBVIOUS
    <3>. QED
      BY <3>1, <3>2 DEF Layouts
  <2>2. /\ s.else = NoElse =>
             CompileStatement(f, s, at) = <<JumpIfFalse(s.cond, after)>> \o then
        /\ s.else # NoElse =>
             CompileStatement(f, s, at)
               = <<JumpIfFalse(s.cond, after + 1)>> \o then
                 \o <<Jump(after + 1 + Len(else))>> \o else
    BY <1>4 DEF CompileStatement
  <2>. HIDE DEF then
  <2>3. after \in Nat /\ Len(then) \in Nat
    BY <2>1, CodeJoined
  <2>4. s.else # NoElse => else \in Codes
    BY <1>4, <2>3 DEF BranchesLaid, Layouts
  <2>. HIDE DEF after, else
  <2>5. s.else # NoElse => Len(else) \in Nat
    BY <2>4, CodeJoined
  <2>6. CASE s.else = NoElse
    <3>. DEFINE jif == <<JumpIfFalse(s.cond, after)>>
    <3>1. jif \in Codes /\ Len(jif) = 1
      BY <1>2, <2>3, OneInstruction
    <3>2. CompileStatement(f, s, at) = jif \o then
      BY <2>2, <2>6
    <3>. HIDE DEF jif
    <3>3. jif \o then \in Codes /\ Len(jif \o then) = 1 + Len(then)
      BY <2>1, <3>1, CodeJoined
    <3>. QED
      BY <2>3, <3>2, <3>3
  <2>7. CASE s.else # NoElse
    <3>. DEFINE jif == <<JumpIfFalse(s.cond, after + 1)>>
                jump == <<Jump(after + 1 + Len(else))>>
    <3>1. jif \in Codes /\ Len(jif) = 1 /\ jump \in Codes /\ Len(jump) = 1
      BY <1>2, <2>3, <2>5, <2>7, OneInstruction
    <3>2. CompileStatement(f, s, at) = ((jif \o then) \o jump) \o else
      BY <2>2, <2>7
    <3>. HIDE DEF jif, jump
    <3>3. jif \o then \in Codes /\ Len(jif \o then) = 1 + Len(then)
      BY <2>1, <3>1, CodeJoined
    <3>4. (jif \o then) \o jump \in Codes /\ Len((jif \o then) \o jump) = 2 + Len(then)
      BY <2>3, <3>1, <3>3, CodeJoined
    <3>5. /\ ((jif \o then) \o jump) \o else \in Codes
          /\ Len(((jif \o then) \o jump) \o else) = 2 + Len(then) + Len(else)
      BY <2>4, <2>7, <3>4, CodeJoined
    <3>. QED
      BY <2>3, <2>5, <2>7, <3>2, <3>5
  <2>. QED
    BY <2>6, <2>7
<1>. QED
  BY <1>3, <1>4

\* A statement's code depends on its branches only.
LEMMA StatementContracts ==
  ASSUME NEW s, NEW at \in Nat, NEW f, NEW g, BranchesLaid(f, s),
         s.op = "if" => f[s.then] = g[s.then] /\ (s.else # NoElse => f[s.else] = g[s.else])
  PROVE  CompileStatement(f, s, at) = CompileStatement(g, s, at)
<1>1. CASE s.op # "if"
  BY <1>1 DEF CompileStatement
<1>2. CASE s.op = "if" /\ s.else = NoElse
  BY <1>2 DEF CompileStatement
<1>3. CASE s.op = "if" /\ s.else # NoElse
  BY <1>3 DEF CompileStatement
<1>. QED
  BY <1>1, <1>2, <1>3

\* What a body is compiled to at every address, given what the smaller ones are.
Flatten(f, body) ==
  [at \in Nat |->
     IF body = <<>> THEN <<>>
     ELSE LET first == CompileStatement(f, Head(body), at)
          IN  first \o f[Tail(body)][at + Len(first)]]

LEMMA FlattenContracts ==
  ASSUME NEW body \in Bodies, NEW f, NEW g,
         \A part \in Bodies : Size[part] < Size[body] => f[part] \in Layouts /\ f[part] = g[part]
  PROVE  Flatten(f, body) \in Layouts /\ Flatten(f, body) = Flatten(g, body)
<1>1. CASE body = <<>>
  <2>1. <<>> \in Codes
    BY DEF Codes
  <2>. QED
    BY <1>1, <2>1 DEF Flatten, Layouts
<1>2. CASE body # <<>>
  <2>. DEFINE s == Head(body)
              rest == Tail(body)
  <2>1. /\ s \in AllStatements /\ rest \in Bodies /\ Size[rest] < Size[body]
        /\ s.op = "if" => s.then \in Bodies /\ Size[s.then] < Size[body]
        /\ s.op = "if" /\ s.else # NoElse => s.else \in Bodies /\ Size[s.else] < Size[body]
    BY <1>2, BodyParts
  <2>. HIDE DEF s, rest
  <2>2. /\ BranchesLaid(f, s)
        /\ s.op = "if" => f[s.then] = g[s.then] /\ (s.else # NoElse => f[s.else] = g[s.else])
        /\ f[rest] \in Layouts /\ f[rest] = g[rest]
    BY <2>1 DEF BranchesLaid
  <2>3. ASSUME NEW at \in Nat
        PROVE  LET first == CompileStatement(f, s, at) IN
               /\ first \in Codes /\ Len(first) \in Nat
               /\ first = CompileStatement(g, s, at)
               /\ first \o f[rest][at + Len(first)] \in Codes
    <3>. DEFINE first == CompileStatement(f, s, at)
    <3>1. first \in Codes /\ Len(first) \in Nat
      BY <2>1, <2>2, StatementCode
    <3>2. first = CompileStatement(g, s, at)
      BY <2>2, StatementContracts
    <3>. HIDE DEF first
    <3>3. f[rest][at + Len(first)] \in Codes
      BY <2>2, <3>1 DEF Layouts
    <3>4. first \o f[rest][at + Len(first)] \in Codes
      BY <3>1, <3>3, CodeJoined
    <3>. QED
      BY <3>1, <3>2, <3>4 DEF first
  <2>4. /\ Flatten(f, body) = [at \in Nat |->
             CompileStatement(f, s, at) \o f[rest][at + Len(CompileStatement(f, s, at))]]
        /\ Flatten(g, body) = [at \in Nat |->
             CompileStatement(g, s, at) \o g[rest][at + Len(CompileStatement(g, s, at))]]
    BY <1>2 DEF Flatten, s, rest
  <2>5. Flatten(f, body) \in Layouts
    BY <2>3, <2>4 DEF Layouts
  <2>6. Flatten(f, body) = Flatten(g, body)
    BY <2>2, <2>3, <2>4
  <2>. QED
    BY <2>5, <2>6
<1>. QED
  BY <1>1, <1>2

\* CompileFrom satisfies its equation, and lays every body out at every address.
LEMMA CompileFromDef ==
  /\ CompileFrom \in [Bodies -> Layouts]
  /\ \A body \in Bodies : CompileFrom[body] = Flatten(CompileFrom, body)
<1>. DEFINE step == [f \in [Bodies -> Layouts] |-> [body \in Bodies |-> Flatten(f, body)]]
            Solves(f) == f = [body \in Bodies |-> Flatten(f, body)]
<1>1. [at \in Nat |-> <<>>] \in Layouts
  BY DEF Layouts, Codes
<1>2. ASSUME NEW f \in [Bodies -> Layouts]
      PROVE  /\ step[f] = [body \in Bodies |-> Flatten(f, body)]
             /\ step[f] \in [Bodies -> Layouts]
  <2>1. ASSUME NEW body \in Bodies
        PROVE  Flatten(f, body) \in Layouts
    BY FlattenContracts
  <2>. QED
    BY <2>1
<1>3. step \in [[Bodies -> Layouts] -> [Bodies -> Layouts]]
  <2>1. step = [f \in [Bodies -> Layouts] |-> step[f]]
    OBVIOUS
  <2>. HIDE DEF step
  <2>. QED
    BY <1>2, <2>1
<1>4. Contracts(step, Bodies, Layouts, Size)
  <2>. SUFFICES ASSUME NEW f \in [Bodies -> Layouts], NEW g \in [Bodies -> Layouts],
                       NEW body \in Bodies,
                       \A part \in Bodies : Size[part] < Size[body] => f[part] = g[part]
                PROVE  step[f][body] = step[g][body]
    BY DEF Contracts
  <2>1. Flatten(f, body) = Flatten(g, body)
    BY FlattenContracts
  <2>2. step[f][body] = Flatten(f, body) /\ step[g][body] = Flatten(g, body)
    OBVIOUS
  <2>. QED
    BY <2>1, <2>2
<1>5. Size \in [Bodies -> Nat]
  BY BodyAssumption
<1>. HIDE DEF step
<1>6. PICK F \in [Bodies -> Layouts] : F = step[F]
  <2>1. HasFixedPoint(step, Bodies, Layouts)
    BY <1>1, <1>3, <1>4, <1>5, FixedPoint
  <2>. QED
    BY <2>1 DEF HasFixedPoint
<1>7. Solves(F)
  BY <1>2, <1>6
<1>8. CompileFrom = CHOOSE f : Solves(f)
  BY DEF CompileFrom, Flatten
<1>. HIDE DEF Solves
<1>9. Solves(CompileFrom)
  BY <1>7, <1>8
<1>10. CompileFrom = [body \in Bodies |-> Flatten(CompileFrom, body)]
  BY <1>9 DEF Solves
<1>11. \A body \in Bodies : CompileFrom[body] = Flatten(CompileFrom, body)
  BY <1>10
<1>12. \A body \in Bodies : CompileFrom[body] \in Layouts
  <2>. DEFINE T == {Size[body] : body \in {b \in Bodies : CompileFrom[b] \notin Layouts}}
  <2>. SUFFICES ASSUME T # {} PROVE FALSE
    OBVIOUS
  <2>1. T \subseteq Nat
    BY <1>5
  <2>2. PICK m \in T : \A n \in T : m <= n
    <3>. HIDE DEF T
    <3>. QED
      BY <2>1, Smallest
  <2>3. PICK body \in Bodies : CompileFrom[body] \notin Layouts /\ m = Size[body]
    OBVIOUS
  <2>4. ASSUME NEW part \in Bodies, Size[part] < Size[body]
        PROVE  CompileFrom[part] \in Layouts
    <3>1. Size[part] \notin T
      <4>1. Size[part] \in Nat /\ Size[body] \in Nat
        BY <1>5
      <4>2. ~(m <= Size[part])
        BY <2>3, <2>4, <4>1
      <4>. HIDE DEF T
      <4>. QED
        BY <2>2, <4>2
    <3>. QED
      BY <3>1
  <2>5. Flatten(CompileFrom, body) \in Layouts
    BY <2>4, FlattenContracts
  <2>. QED
    BY <1>11, <2>3, <2>5
<1>. QED
  BY <1>10, <1>11, <1>12

-----------------------------------------------------------------------------
(* What is still to execute                                                 *)

Remainders == Seq(AllStatements)

\* The address behind a statement, and the one behind its first branch.
End(s, at) == at + Len(CompileStatement(CompileFrom, s, at))

After(s, at) == at + 1 + Len(CompileFrom[s.then][at + 1])

\* The statement's size: one instruction, or those of its branches and jumps.
LEMMA Extent ==
  ASSUME NEW body \in Bodies, body # <<>>, NEW at \in Nat
  PROVE  LET s == Head(body)
             else == CompileFrom[s.else][After(s, at) + 1]
         IN  /\ CompileStatement(CompileFrom, s, at) \in Codes
             /\ End(s, at) \in Nat /\ at < End(s, at)
             /\ s.op # "if" => End(s, at) = at + 1
             /\ s.op = "if" =>
                  /\ CompileFrom[s.then][at + 1] \in Codes
                  /\ After(s, at) \in Nat /\ at < After(s, at) /\ After(s, at) <= End(s, at)
                  /\ s.else = NoElse => End(s, at) = After(s, at)
                  /\ s.else # NoElse =>
                       /\ else \in Codes /\ Len(else) \in Nat
                       /\ End(s, at) = After(s, at) + 1 + Len(else)
<1>. DEFINE s == Head(body)
            c == CompileStatement(CompileFrom, s, at)
            then == CompileFrom[s.then][at + 1]
            else == CompileFrom[s.else][After(s, at) + 1]
<1>1. /\ s \in AllStatements
      /\ s.op = "if" => s.then \in Bodies
      /\ s.op = "if" /\ s.else # NoElse => s.else \in Bodies
  BY BodyParts
<1>2. CompileFrom \in [Bodies -> Layouts]
  BY CompileFromDef
<1>. HIDE DEF s
<1>3. BranchesLaid(CompileFrom, s)
  BY <1>1, <1>2 DEF BranchesLaid
<1>4. c \in Codes /\ Len(c) \in Nat \ {0}
  BY <1>1, <1>3, StatementCode
<1>5. End(s, at) \in Nat /\ at < End(s, at)
  BY <1>4 DEF End
<1>6. CASE s.op # "if"
  <2>1. c = <<s>>
    BY <1>6 DEF CompileStatement
  <2>2. End(s, at) = at + 1
    BY <2>1 DEF End
  <2>. QED
    BY <1>4, <1>5, <1>6, <2>2 DEF s
<1>7. CASE s.op = "if"
  <2>1. then \in Codes
    BY <1>1, <1>2, <1>7 DEF Layouts
  <2>2. After(s, at) = at + 1 + Len(then)
    BY DEF After
  <2>. HIDE DEF then
  <2>3. Len(then) \in Nat
    BY <2>1, CodeJoined
  <2>4. After(s, at) \in Nat /\ at < After(s, at)
    BY <2>2, <2>3
  <2>5. s.else # NoElse => else \in Codes
    BY <1>1, <1>2, <1>7, <2>4 DEF Layouts
  <2>. HIDE DEF else
  <2>6. s.else # NoElse => Len(else) \in Nat
    BY <2>5, CodeJoined, Zenon
  <2>7. /\ s.else = NoElse => c = <<JumpIfFalse(s.cond, After(s, at))>> \o then
        /\ s.else # NoElse =>
             c = <<JumpIfFalse(s.cond, After(s, at) + 1)>> \o then
                 \o <<Jump(After(s, at) + 1 + Len(else))>> \o else
    BY <1>7, <2>2 DEF CompileStatement, then, else
  <2>8. \A t \in Nat : JumpIfFalse(s.cond, t) \in Instructions /\ Jump(t) \in Instructions
    BY <1>1 DEF Instructions
  <2>9. s.else = NoElse => End(s, at) = After(s, at)
    <3>. SUFFICES ASSUME s.else = NoElse PROVE End(s, at) = After(s, at)
      OBVIOUS
    <3>. DEFINE jif == <<JumpIfFalse(s.cond, After(s, at))>>
    <3>1. jif \in Codes /\ Len(jif) = 1
      BY <2>4, <2>8, OneInstruction
    <3>2. c = jif \o then
      BY <2>7
    <3>. HIDE DEF jif, c
    <3>3. Len(c) = 1 + Len(then)
      BY <2>1, <3>1, <3>2, CodeJoined
    <3>4. End(s, at) = at + Len(c)
      BY DEF End, c
    <3>. QED
      BY <2>2, <2>3, <3>3, <3>4
  <2>10. s.else # NoElse => End(s, at) = After(s, at) + 1 + Len(else)
    <3>. SUFFICES ASSUME s.else # NoElse PROVE End(s, at) = After(s, at) + 1 + Len(else)
      OBVIOUS
    <3>. DEFINE jif == <<JumpIfFalse(s.cond, After(s, at) + 1)>>
                jump == <<Jump(After(s, at) + 1 + Len(else))>>
    <3>1. jif \in Codes /\ Len(jif) = 1 /\ jump \in Codes /\ Len(jump) = 1
      BY <2>4, <2>6, <2>8, OneInstruction
    <3>2. c = ((jif \o then) \o jump) \o else
      BY <2>7
    <3>. HIDE DEF jif, jump, c
    <3>3. jif \o then \in Codes /\ Len(jif \o then) = 1 + Len(then)
      BY <2>1, <3>1, CodeJoined
    <3>4. (jif \o then) \o jump \in Codes /\ Len((jif \o then) \o jump) = 2 + Len(then)
      BY <2>3, <3>1, <3>3, CodeJoined
    <3>5. Len(((jif \o then) \o jump) \o else) = 2 + Len(then) + Len(else)
      BY <2>5, <3>4, CodeJoined
    <3>6. Len(c) = 2 + Len(then) + Len(else)
      BY <3>2, <3>5
    <3>7. End(s, at) = at + Len(c)
      BY DEF End, c
    <3>8. Len(else) \in Nat
      BY <2>6
    <3>. HIDE DEF c
    <3>. QED
      BY <2>2, <2>3, <3>6, <3>7, <3>8
  <2>11. After(s, at) <= End(s, at)
    <3>1. CASE s.else = NoElse
      BY <2>4, <2>9, <3>1
    <3>2. CASE s.else # NoElse
      BY <2>4, <2>6, <2>10, <3>2
    <3>. QED
      BY <3>1, <3>2
  <2>. QED
    BY <1>4, <1>5, <1>7, <2>1, <2>4, <2>5, <2>6, <2>9, <2>10, <2>11 DEF s, then, else
<1>. QED
  BY <1>6, <1>7

\* What is left of a body at an address, given what is left of the smaller ones.
Remain(f, body) ==
  [at \in Nat |-> [p \in Nat |->
     IF body = <<>> THEN <<>>
     ELSE
       LET s == Head(body)
           inside == IF p <= at THEN <<s>>
                     ELSE IF p <= After(s, at) THEN f[s.then][at + 1][p]
                     ELSE f[s.else][After(s, at) + 1][p]
       IN IF p >= End(s, at) THEN f[Tail(body)][End(s, at)][p]
          ELSE inside \o Tail(body)]]

Views == [Nat -> [Nat -> Remainders]]

\* What is left at p: before the statement, in its first branch, in its second,
\* and behind it.
Parted(left, s, rest, f, at, p) ==
  /\ p <= at => left = <<s>> \o rest
  /\ p > at /\ p < End(s, at) => s.op = "if"
  /\ p > at /\ p < End(s, at) /\ p <= After(s, at) => left = f[s.then][at + 1][p] \o rest
  /\ s.op = "if" /\ p > After(s, at) /\ p < End(s, at) =>
       s.else # NoElse /\ left = f[s.else][After(s, at) + 1][p] \o rest
  /\ p >= End(s, at) => left = f[rest][End(s, at)][p]

LEMMA RemainCases ==
  ASSUME NEW body \in Bodies, body # <<>>, NEW at \in Nat, NEW p \in Nat, NEW f
  PROVE  Parted(Remain(f, body)[at][p], Head(body), Tail(body), f, at, p)
<1>. DEFINE s == Head(body)
            after == After(s, at)
            end == End(s, at)
            left == Remain(f, body)[at][p]
            rest == Tail(body)
            inside == IF p <= at THEN <<s>>
                      ELSE IF p <= after THEN f[s.then][at + 1][p]
                      ELSE f[s.else][after + 1][p]
<1>1. /\ end \in Nat /\ at < end /\ (s.op # "if" => end = at + 1)
      /\ s.op = "if" => after \in Nat /\ at < after /\ (s.else = NoElse => end = after)
  BY Extent
<1>2. left = IF p >= end THEN f[Tail(body)][end][p] ELSE inside \o Tail(body)
  BY DEF Remain
<1>. HIDE DEF left, s, end, after
<1>3. p <= at => left = <<s>> \o Tail(body)
  BY <1>1, <1>2
<1>4. p > at /\ p < end => s.op = "if"
  BY <1>1
<1>5. p > at /\ p < end /\ p <= after => left = f[s.then][at + 1][p] \o Tail(body)
  <2>1. p > at /\ p <= after => inside = f[s.then][at + 1][p]
    OBVIOUS
  <2>2. p < end => ~(p >= end)
    BY <1>1
  <2>. HIDE DEF inside
  <2>3. p < end => left = inside \o Tail(body)
    BY <1>2, <2>2, Zenon
  <2>. QED
    BY <2>1, <2>3, Zenon
<1>6. s.op = "if" /\ p > after /\ p < end =>
        s.else # NoElse /\ left = f[s.else][after + 1][p] \o Tail(body)
  <2>1. s.op = "if" /\ p > after => inside = f[s.else][after + 1][p]
    BY <1>1
  <2>2. p < end => ~(p >= end)
    BY <1>1
  <2>3. s.op = "if" /\ p > after /\ p < end => s.else # NoElse
    BY <1>1
  <2>. HIDE DEF inside
  <2>4. p < end => left = inside \o Tail(body)
    BY <1>2, <2>2, Zenon
  <2>. QED
    BY <2>1, <2>3, <2>4, Zenon
<1>7. p >= end => left = f[Tail(body)][end][p]
  BY <1>2
<1>. QED
  BY <1>3, <1>4, <1>5, <1>6, <1>7 DEF Parted, left, s, end, after

LEMMA RemainContracts ==
  ASSUME NEW body \in Bodies, NEW f, NEW g,
         \A part \in Bodies : Size[part] < Size[body] => f[part] \in Views /\ f[part] = g[part]
  PROVE  Remain(f, body) \in Views /\ Remain(f, body) = Remain(g, body)
<1>1. CASE body = <<>>
  <2>1. <<>> \in Remainders
    BY DEF Remainders
  <2>2. /\ Remain(f, body) = [at \in Nat |-> [p \in Nat |-> <<>>]]
        /\ Remain(g, body) = [at \in Nat |-> [p \in Nat |-> <<>>]]
    BY <1>1 DEF Remain
  <2>. QED
    BY <2>1, <2>2 DEF Views
<1>2. CASE body # <<>>
  <2>. DEFINE s == Head(body)
              rest == Tail(body)
  <2>1. /\ s \in AllStatements /\ rest \in Bodies /\ Size[rest] < Size[body]
        /\ s.op = "if" => s.then \in Bodies /\ Size[s.then] < Size[body]
        /\ s.op = "if" /\ s.else # NoElse => s.else \in Bodies /\ Size[s.else] < Size[body]
    BY <1>2, BodyParts
  <2>2. rest \in Remainders
    BY <2>1, BodySizes DEF Remainders
  <2>3. ASSUME NEW at \in Nat, NEW p \in Nat
        PROVE  /\ Remain(f, body)[at][p] \in Remainders
               /\ Remain(f, body)[at][p] = Remain(g, body)[at][p]
    <3>. DEFINE left(h) == Remain(h, body)[at][p]
                after == After(s, at)
                end == End(s, at)
    <3>1. /\ end \in Nat /\ at < end
          /\ s.op = "if" => after \in Nat /\ at < after
      BY <1>2, Extent, Zenon
    <3>2. ASSUME NEW h
          PROVE  /\ p <= at => left(h) = <<s>> \o rest
                 /\ p > at /\ p < end => s.op = "if"
                 /\ p > at /\ p < end /\ p <= after => left(h) = h[s.then][at + 1][p] \o rest
                 /\ s.op = "if" /\ p > after /\ p < end =>
                      s.else # NoElse /\ left(h) = h[s.else][after + 1][p] \o rest
                 /\ p >= end => left(h) = h[rest][end][p]
      <4>1. Parted(left(h), s, rest, h, at, p)
        BY <1>2, RemainCases
      <4>. HIDE DEF s, rest, left
      <4>. QED
        BY <4>1 DEF Parted
    <3>. HIDE DEF s, rest, left, after, end
    <3>3. CASE p <= at
      <4>1. <<s>> \in Remainders
        BY <2>1 DEF Remainders
      <4>2. <<s>> \o rest \in Remainders
        BY <2>2, <4>1 DEF Remainders
      <4>. QED
        BY <3>2, <3>3, <4>2 DEF left
    <3>4. CASE p > at /\ p < end /\ p <= after
      <4>1. f[s.then] \in Views /\ f[s.then] = g[s.then]
        BY <2>1, <3>2, <3>4
      <4>2. f[s.then][at + 1][p] \in Remainders
        BY <4>1 DEF Views
      <4>3. f[s.then][at + 1][p] \o rest \in Remainders
        BY <2>2, <4>2 DEF Remainders
      <4>4. /\ left(f) = f[s.then][at + 1][p] \o rest
            /\ left(g) = g[s.then][at + 1][p] \o rest
        BY <3>2, <3>4
      <4>. QED
        BY <4>1, <4>3, <4>4 DEF left
    <3>5. CASE s.op = "if" /\ p > after /\ p < end
      <4>1. f[s.else] \in Views /\ f[s.else] = g[s.else]
        BY <2>1, <3>2, <3>5
      <4>2. f[s.else][after + 1][p] \in Remainders
        BY <3>1, <3>5, <4>1 DEF Views
      <4>3. f[s.else][after + 1][p] \o rest \in Remainders
        BY <2>2, <4>2 DEF Remainders
      <4>4. /\ left(f) = f[s.else][after + 1][p] \o rest
            /\ left(g) = g[s.else][after + 1][p] \o rest
        BY <3>2, <3>5
      <4>. QED
        BY <4>1, <4>3, <4>4 DEF left
    <3>6. CASE p >= end
      <4>1. f[rest] \in Views /\ f[rest] = g[rest]
        BY <2>1
      <4>2. f[rest][end][p] \in Remainders
        BY <3>1, <4>1 DEF Views
      <4>3. left(f) = f[rest][end][p] /\ left(g) = g[rest][end][p]
        BY <3>2, <3>6
      <4>. QED
        BY <4>1, <4>2, <4>3 DEF left
    <3>7. p > at /\ p < end => p <= after \/ p > after
      BY <3>1, <3>2
    <3>. QED
      BY <3>1, <3>2, <3>3, <3>4, <3>5, <3>6, <3>7
  <2>4. ASSUME NEW h
        PROVE  Remain(h, body) = [at \in Nat |-> [p \in Nat |-> Remain(h, body)[at][p]]]
    BY DEF Remain
  <2>5. Remain(f, body) \in Views
    <3>1. \A at \in Nat : [p \in Nat |-> Remain(f, body)[at][p]] \in [Nat -> Remainders]
      BY <2>3
    <3>. QED
      BY <2>4, <3>1 DEF Views
  <2>6. Remain(f, body) = Remain(g, body)
    BY <2>3, <2>4
  <2>. QED
    BY <2>5, <2>6
<1>. QED
  BY <1>1, <1>2

\* RestFrom satisfies its equation.
LEMMA RestFromDef ==
  /\ RestFrom \in [Bodies -> Views]
  /\ \A body \in Bodies : RestFrom[body] = Remain(RestFrom, body)
<1>. DEFINE step == [f \in [Bodies -> Views] |-> [body \in Bodies |-> Remain(f, body)]]
            Solves(f) == f = [body \in Bodies |-> Remain(f, body)]
<1>1. [at \in Nat |-> [p \in Nat |-> <<>>]] \in Views
  BY DEF Views, Remainders
<1>2. ASSUME NEW f \in [Bodies -> Views]
      PROVE  /\ step[f] = [body \in Bodies |-> Remain(f, body)]
             /\ step[f] \in [Bodies -> Views]
  <2>1. ASSUME NEW body \in Bodies
        PROVE  Remain(f, body) \in Views
    BY RemainContracts
  <2>. QED
    BY <2>1
<1>3. step \in [[Bodies -> Views] -> [Bodies -> Views]]
  <2>1. step = [f \in [Bodies -> Views] |-> step[f]]
    OBVIOUS
  <2>. HIDE DEF step
  <2>. QED
    BY <1>2, <2>1
<1>4. Contracts(step, Bodies, Views, Size)
  <2>. SUFFICES ASSUME NEW f \in [Bodies -> Views], NEW g \in [Bodies -> Views],
                       NEW body \in Bodies,
                       \A part \in Bodies : Size[part] < Size[body] => f[part] = g[part]
                PROVE  step[f][body] = step[g][body]
    BY DEF Contracts
  <2>1. Remain(f, body) = Remain(g, body)
    BY RemainContracts
  <2>2. step[f][body] = Remain(f, body) /\ step[g][body] = Remain(g, body)
    OBVIOUS
  <2>. QED
    BY <2>1, <2>2
<1>5. Size \in [Bodies -> Nat]
  BY BodyAssumption
<1>. HIDE DEF step
<1>6. PICK F \in [Bodies -> Views] : F = step[F]
  <2>1. HasFixedPoint(step, Bodies, Views)
    BY <1>1, <1>3, <1>4, <1>5, FixedPoint
  <2>. QED
    BY <2>1 DEF HasFixedPoint
<1>7. Solves(F)
  BY <1>2, <1>6
<1>8. RestFrom = CHOOSE f : Solves(f)
  BY DEF RestFrom, Remain, End, After
<1>. HIDE DEF Solves
<1>9. Solves(RestFrom)
  BY <1>7, <1>8
<1>10. RestFrom = [body \in Bodies |-> Remain(RestFrom, body)]
  BY <1>9 DEF Solves
<1>11. \A body \in Bodies : RestFrom[body] = Remain(RestFrom, body)
  BY <1>10
<1>12. \A body \in Bodies : RestFrom[body] \in Views
  <2>. DEFINE T == {Size[body] : body \in {b \in Bodies : RestFrom[b] \notin Views}}
  <2>. SUFFICES ASSUME T # {} PROVE FALSE
    OBVIOUS
  <2>1. T \subseteq Nat
    BY <1>5
  <2>2. PICK m \in T : \A n \in T : m <= n
    <3>. HIDE DEF T
    <3>. QED
      BY <2>1, Smallest
  <2>3. PICK body \in Bodies : RestFrom[body] \notin Views /\ m = Size[body]
    OBVIOUS
  <2>4. ASSUME NEW part \in Bodies, Size[part] < Size[body]
        PROVE  RestFrom[part] \in Views
    <3>1. Size[part] \notin T
      <4>1. Size[part] \in Nat /\ Size[body] \in Nat
        BY <1>5
      <4>2. ~(m <= Size[part])
        BY <2>3, <2>4, <4>1
      <4>. HIDE DEF T
      <4>. QED
        BY <2>2, <4>2
    <3>. QED
      BY <3>1
  <2>5. Remain(RestFrom, body) \in Views
    BY <2>4, RemainContracts
  <2>. QED
    BY <1>11, <2>3, <2>5
<1>. QED
  BY <1>10, <1>11, <1>12

-----------------------------------------------------------------------------
(* Jumps mean branches                                                      *)

Formed(s) ==
  /\ s.op \in {"let", "operate", "await", "if"}
  /\ s.op = "if" => s.then \in Bodies /\ (s.else # NoElse => s.else \in Bodies)

\* Every statement of a body, not its first one only, is a known one and its
\* branches are bodies.
LEMMA StatementsFormed ==
  ASSUME NEW s \in AllStatements
  PROVE  Formed(s)
<1>. DEFINE Bad == {b \in Bodies : \E i \in DOMAIN b : ~Formed(b[i])}
            T == {Size[b] : b \in Bad}
<1>1. Size \in [Bodies -> Nat]
  BY BodyAssumption
<1>2. Bad = {}
  <2>. SUFFICES ASSUME Bad # {} PROVE FALSE
    OBVIOUS
  <2>1. T \subseteq Nat /\ T # {}
    BY <1>1
  <2>2. PICK m \in T : \A n \in T : m <= n
    <3>. HIDE DEF T
    <3>. QED
      BY <2>1, Smallest
  <2>3. PICK b \in Bodies : (\E i \in DOMAIN b : ~Formed(b[i])) /\ m = Size[b]
    OBVIOUS
  <2>4. PICK i \in DOMAIN b : ~Formed(b[i])
    BY <2>3
  <2>5. b # <<>> /\ b \in Seq(AllStatements)
    BY <2>4, BodySizes
  <2>6. /\ Tail(b) \in Bodies /\ Size[Tail(b)] < Size[b]
        /\ Formed(Head(b))
    BY <2>5, BodyParts DEF Formed
  <2>7. i \in 1 .. Len(b) /\ Head(b) = b[1] /\ Len(Tail(b)) = Len(b) - 1
        /\ Tail(b) \in Seq(AllStatements)
        /\ \A k \in 1 .. Len(Tail(b)) : Tail(b)[k] = b[k + 1]
    BY <2>5, HeadTailProperties, LenProperties
  <2>8. i # 1
    BY <2>4, <2>6, <2>7
  <2>9. i - 1 \in 1 .. Len(Tail(b)) /\ (i - 1) + 1 = i
    <3>1. Len(b) \in Nat
      BY <2>5, LenProperties
    <3>. QED
      BY <2>7, <2>8, <3>1
  <2>10. Tail(b)[i - 1] = b[i] /\ i - 1 \in DOMAIN Tail(b)
    BY <2>7, <2>9, LenProperties
  <2>11. Tail(b) \in Bad
    BY <2>4, <2>6, <2>10
  <2>12. Size[Tail(b)] \in T
    BY <2>11
  <2>13. Size[b] \in Nat /\ Size[Tail(b)] \in Nat
    BY <1>1, <2>6
  <2>14. m <= Size[Tail(b)]
    <3>. HIDE DEF T, Bad
    <3>. QED
      BY <2>2, <2>12
  <2>. QED
    BY <2>3, <2>6, <2>13, <2>14
<1>3. PICK b \in Bodies : \E i \in DOMAIN b : s = b[i]
  BY DEF AllStatements
<1>. QED
  BY <1>2, <1>3

ElseOf(s) == IF s.else = NoElse THEN <<>> ELSE s.else

LEMMA BranchRemainders ==
  ASSUME NEW s \in AllStatements, s.op = "if"
  PROVE  s.then \in Remainders /\ ElseOf(s) \in Remainders
<1>1. s.then \in Bodies /\ (s.else # NoElse => s.else \in Bodies)
  BY StatementsFormed DEF Formed
<1>2. s.then \in Remainders
  BY <1>1, BodySizes DEF Remainders
<1>3. ElseOf(s) \in Remainders
  <2>1. CASE s.else = NoElse
    BY <2>1 DEF ElseOf, Remainders
  <2>2. CASE s.else # NoElse
    BY <1>1, <2>2, BodySizes DEF ElseOf, Remainders
  <2>. QED
    BY <2>1, <2>2
<1>. QED
  BY <1>2, <1>3

\* What the instruction i at p does to what is left, in code that ends at end: a
\* jump leaves the same, a conditional jump leaves one branch or the other before
\* what follows, anything else is the next statement and leaves what follows.
Jumps(i, p, end, R) ==
  /\ i.op = "jump"
  /\ i.target \in Nat /\ p < i.target /\ i.target <= end
  /\ R[i.target] = R[p]

Chooses(i, p, end, R) ==
  /\ i.op = "jif" /\ R[p] # <<>>
  /\ Head(R[p]).op = "if" /\ Head(R[p]).cond = i.cond
  /\ i.target \in Nat /\ p < i.target /\ i.target <= end
  /\ R[p + 1] = Head(R[p]).then \o Tail(R[p])
  /\ R[i.target] = ElseOf(Head(R[p])) \o Tail(R[p])

Advances(i, p, R) ==
  /\ i.op \in {"let", "operate", "await"}
  /\ R[p] # <<>> /\ Head(R[p]) = i /\ R[p + 1] = Tail(R[p])

Means(i, p, end, R) == Jumps(i, p, end, R) \/ Chooses(i, p, end, R) \/ Advances(i, p, R)

\* Appending to what is left.
LEMMA HeadOfMore ==
  ASSUME NEW r \in Remainders, r # <<>>, NEW t \in Remainders
  PROVE  /\ r \o t # <<>> /\ Head(r \o t) = Head(r) /\ Tail(r \o t) = Tail(r) \o t
         /\ Head(r) \in AllStatements /\ Tail(r) \in Remainders
<1>1. /\ r \in Seq(AllStatements) /\ t \in Seq(AllStatements)
      /\ Len(r) \in Nat \ {0} /\ Len(t) \in Nat
      /\ Head(r) = r[1] /\ Head(r) \in AllStatements /\ Tail(r) \in Seq(AllStatements)
      /\ Len(Tail(r)) = Len(r) - 1
  BY HeadTailProperties, LenProperties, EmptySeq DEF Remainders
<1>2. /\ r \o t \in Seq(AllStatements) /\ Len(r \o t) = Len(r) + Len(t)
      /\ \A k \in 1 .. Len(r) + Len(t) :
           (r \o t)[k] = IF k <= Len(r) THEN r[k] ELSE t[k - Len(r)]
  BY <1>1, ConcatProperties
<1>3. r \o t # <<>> /\ Head(r \o t) = Head(r)
  BY <1>1, <1>2
<1>4. Tail(r \o t) = Tail(r) \o t
  BY <1>1
<1>. QED
  BY <1>1, <1>3, <1>4 DEF Remainders

LEMMA MoreJoined ==
  ASSUME NEW a \in Remainders, NEW b \in Remainders, NEW c \in Remainders
  PROVE  (a \o b) \o c = a \o (b \o c)
BY DEF Remainders

\* What an instruction means inside a block, it means when more follows.
LEMMA MeansMore ==
  ASSUME NEW R \in [Nat -> Remainders], NEW Q \in [Nat -> Remainders], NEW t \in Remainders,
         NEW p \in Nat, NEW end \in Nat, NEW last \in Nat, p < end, end <= last,
         \A q \in Nat : p <= q /\ q <= end => Q[q] = R[q] \o t,
         NEW i, Means(i, p, end, R)
  PROVE  Means(i, p, last, Q)
<1>1. /\ p + 1 \in Nat /\ Q[p] = R[p] \o t /\ Q[p + 1] = R[p + 1] \o t
      /\ R[p] \in Remainders
      /\ \A q \in Nat : p < q /\ q <= end => Q[q] = R[q] \o t /\ q <= last
  <2>1. p + 1 \in Nat /\ p <= p + 1 /\ p + 1 <= end /\ p <= p /\ p <= end
    OBVIOUS
  <2>2. Q[p] = R[p] \o t /\ Q[p + 1] = R[p + 1] \o t
    BY <2>1
  <2>3. ASSUME NEW q \in Nat, p < q, q <= end
        PROVE  Q[q] = R[q] \o t /\ q <= last
    <3>1. p <= q /\ q <= last
      BY <2>3
    <3>. QED
      BY <2>3, <3>1
  <2>. QED
    BY <2>1, <2>2, <2>3
<1>2. CASE Jumps(i, p, end, R)
  <2>1. i.op = "jump" /\ i.target \in Nat /\ p < i.target /\ i.target <= end
        /\ R[i.target] = R[p]
    BY <1>2 DEF Jumps
  <2>2. Q[i.target] = R[i.target] \o t /\ i.target <= last
    BY <1>1, <2>1
  <2>. QED
    BY <1>1, <2>1, <2>2 DEF Means, Jumps
<1>3. CASE Chooses(i, p, end, R)
  <2>. DEFINE s == Head(R[p])
  <2>1. /\ i.op = "jif" /\ R[p] # <<>> /\ s.op = "if" /\ s.cond = i.cond
        /\ i.target \in Nat /\ p < i.target /\ i.target <= end
        /\ R[p + 1] = s.then \o Tail(R[p])
        /\ R[i.target] = ElseOf(s) \o Tail(R[p])
    BY <1>3 DEF Chooses
  <2>2. Q[i.target] = R[i.target] \o t /\ i.target <= last
    BY <1>1, <2>1
  <2>3. R[p] \in Remainders /\ R[p] # <<>> /\ Q[p] = R[p] \o t
    BY <1>1, <2>1
  <2>4. /\ Q[p] # <<>> /\ Head(Q[p]) = s /\ Tail(Q[p]) = Tail(R[p]) \o t
        /\ s \in AllStatements /\ Tail(R[p]) \in Remainders
    <3>1. /\ R[p] \o t # <<>> /\ Head(R[p] \o t) = Head(R[p])
          /\ Tail(R[p] \o t) = Tail(R[p]) \o t
          /\ Head(R[p]) \in AllStatements /\ Tail(R[p]) \in Remainders
      BY <2>3, HeadOfMore, Zenon
    <3>. QED
      BY <2>3, <3>1
  <2>. DEFINE u == Tail(R[p])
              then == s.then
              else == ElseOf(s)
  <2>. HIDE DEF s
  <2>5. then \in Remainders /\ else \in Remainders /\ u \in Remainders
    BY <2>1, <2>4, BranchRemainders
  <2>6. Q[p + 1] = (then \o u) \o t /\ Q[i.target] = (else \o u) \o t
    BY <1>1, <2>1, <2>2
  <2>. HIDE DEF u, then, else
  <2>7. Q[p + 1] = then \o (u \o t) /\ Q[i.target] = else \o (u \o t)
    BY <2>5, <2>6, MoreJoined
  <2>8. Chooses(i, p, last, Q)
    BY <2>1, <2>2, <2>4, <2>7 DEF Chooses, u, then, else
  <2>. QED
    BY <2>8 DEF Means
<1>4. CASE Advances(i, p, R)
  <2>1. /\ i.op \in {"let", "operate", "await"}
        /\ R[p] # <<>> /\ Head(R[p]) = i /\ R[p + 1] = Tail(R[p])
    BY <1>4 DEF Advances
  <2>2. Q[p] # <<>> /\ Head(Q[p]) = Head(R[p]) /\ Tail(Q[p]) = Tail(R[p]) \o t
    <3>1. R[p] \in Remainders /\ R[p] # <<>> /\ Q[p] = R[p] \o t
      BY <1>1, <2>1
    <3>2. /\ R[p] \o t # <<>> /\ Head(R[p] \o t) = Head(R[p])
          /\ Tail(R[p] \o t) = Tail(R[p]) \o t
      BY <3>1, HeadOfMore, Zenon
    <3>. QED
      BY <3>1, <3>2
  <2>. QED
    BY <1>1, <2>1, <2>2 DEF Means, Advances
<1>. QED
  BY <1>2, <1>3, <1>4 DEF Means

\* Where the instructions of a conditional stand.
LEMMA ConditionalCode ==
  ASSUME NEW body \in Bodies, body # <<>>, Head(body).op = "if", NEW at \in Nat
  PROVE  LET s == Head(body)
             after == After(s, at)
             c == CompileStatement(CompileFrom, s, at)
             then == CompileFrom[s.then][at + 1]
             else == CompileFrom[s.else][after + 1]
         IN  /\ s.else = NoElse => c[1] = JumpIfFalse(s.cond, after)
             /\ s.else # NoElse => c[1] = JumpIfFalse(s.cond, after + 1)
             /\ \A p \in Nat : at < p /\ p < after => c[p - at + 1] = then[p - (at + 1) + 1]
             /\ s.else # NoElse =>
                  /\ c[after - at + 1] = Jump(End(s, at))
                  /\ \A p \in Nat : after < p /\ p < End(s, at) =>
                       c[p - at + 1] = else[p - (after + 1) + 1]
<1>. DEFINE s == Head(body)
            after == After(s, at)
            end == End(s, at)
            c == CompileStatement(CompileFrom, s, at)
            then == CompileFrom[s.then][at + 1]
            else == CompileFrom[s.else][after + 1]
<1>1. /\ s \in AllStatements /\ s.op = "if"
  BY BodyParts
<1>2. /\ then \in Codes /\ after = at + 1 + Len(then)
      /\ after \in Nat /\ at < after /\ end \in Nat
      /\ s.else = NoElse => end = after
      /\ s.else # NoElse => else \in Codes /\ Len(else) \in Nat /\ end = after + 1 + Len(else)
  BY Extent DEF After
<1>3. /\ s.else = NoElse => c = <<JumpIfFalse(s.cond, after)>> \o then
      /\ s.else # NoElse =>
           c = <<JumpIfFalse(s.cond, after + 1)>> \o then
               \o <<Jump(after + 1 + Len(else))>> \o else
  BY <1>1, <1>2 DEF CompileStatement
<1>. HIDE DEF s, after, end, then, else
<1>4. \A t \in Nat : JumpIfFalse(s.cond, t) \in Instructions /\ Jump(t) \in Instructions
  BY <1>1 DEF Instructions
<1>5. Len(then) \in Nat
  BY <1>2, CodeJoined
<1>6. CASE s.else = NoElse
  <2>. DEFINE i == JumpIfFalse(s.cond, after)
              jif == <<i>>
  <2>1. i \in Instructions
    BY <1>2, <1>4
  <2>. HIDE DEF i
  <2>2. jif \in Codes /\ Len(jif) = 1 /\ jif[1] = i
    BY <2>1, OneInstruction
  <2>3. c = jif \o then
    BY <1>3, <1>6 DEF i
  <2>. HIDE DEF jif, c
  <2>4. c[1] = i /\ \A k \in 1 .. Len(then) : c[1 + k] = then[k]
    <3>1. /\ \A k \in 1 .. Len(jif) : (jif \o then)[k] = jif[k]
          /\ \A k \in 1 .. Len(then) : (jif \o then)[Len(jif) + k] = then[k]
      BY <1>2, <2>2, CodeElements
    <3>2. /\ \A k \in 1 .. 1 : c[k] = jif[k]
          /\ \A k \in 1 .. Len(then) : c[1 + k] = then[k]
      BY <2>2, <2>3, <3>1
    <3>3. c[1] = jif[1]
      BY <3>2
    <3>. QED
      BY <2>2, <3>2, <3>3
  <2>5. ASSUME NEW p \in Nat, at < p, p < after
        PROVE  c[p - at + 1] = then[p - (at + 1) + 1]
    <3>1. /\ p - (at + 1) + 1 \in 1 .. Len(then)
          /\ 1 + (p - (at + 1) + 1) = p - at + 1
      BY <1>2, <1>5, <2>5
    <3>. QED
      BY <2>4, <3>1
  <2>. QED
    BY <1>6, <2>4, <2>5 DEF i, c, s, after, end, then, else
<1>7. CASE s.else # NoElse
  <2>. DEFINE i == JumpIfFalse(s.cond, after + 1)
              j == Jump(end)
              first == <<i>> \o then
              second == first \o <<j>>
  <2>1. i \in Instructions /\ j \in Instructions
    BY <1>2, <1>4
  <2>2. c = (first \o <<j>>) \o else
    BY <1>2, <1>3, <1>7
  <2>. HIDE DEF i, j
  <2>3. <<i>> \in Codes /\ Len(<<i>>) = 1 /\ <<i>>[1] = i
        /\ <<j>> \in Codes /\ Len(<<j>>) = 1 /\ <<j>>[1] = j
    BY <2>1, OneInstruction
  <2>4. first \in Codes /\ Len(first) = 1 + Len(then)
        /\ first[1] = i /\ \A k \in 1 .. Len(then) : first[1 + k] = then[k]
    <3>. DEFINE jif == <<i>>
    <3>. HIDE DEF jif
    <3>1. first \in Codes /\ Len(first) = 1 + Len(then)
      BY <1>2, <2>3, CodeJoined DEF jif
    <3>2. /\ \A k \in 1 .. Len(jif) : (jif \o then)[k] = jif[k]
          /\ \A k \in 1 .. Len(then) : (jif \o then)[Len(jif) + k] = then[k]
      BY <1>2, <2>3, CodeElements DEF jif
    <3>. QED
      BY <2>3, <3>1, <3>2 DEF jif
  <2>. HIDE DEF first
  <2>5. second \in Codes /\ Len(second) = 2 + Len(then)
        /\ (\A k \in 1 .. 1 + Len(then) : second[k] = first[k])
        /\ second[2 + Len(then)] = j
    <3>. DEFINE jump == <<j>>
    <3>. HIDE DEF jump
    <3>1. second \in Codes /\ Len(second) = 2 + Len(then)
      BY <1>5, <2>3, <2>4, CodeJoined DEF jump
    <3>2. /\ \A k \in 1 .. Len(first) : (first \o jump)[k] = first[k]
          /\ \A k \in 1 .. Len(jump) : (first \o jump)[Len(first) + k] = jump[k]
      BY <2>3, <2>4, CodeElements DEF jump
    <3>3. (first \o jump)[Len(first) + 1] = jump[1]
      BY <2>3, <3>2 DEF jump
    <3>4. Len(first) + 1 = 2 + Len(then)
      BY <1>5, <2>4
    <3>. QED
      BY <2>3, <2>4, <3>1, <3>2, <3>3, <3>4 DEF jump
  <2>. HIDE DEF second, c
  <2>6. /\ \A k \in 1 .. 2 + Len(then) : c[k] = second[k]
        /\ \A k \in 1 .. Len(else) : c[2 + Len(then) + k] = else[k]
    <3>1. c = second \o else
      BY <2>2 DEF second
    <3>2. /\ \A k \in 1 .. Len(second) : (second \o else)[k] = second[k]
          /\ \A k \in 1 .. Len(else) : (second \o else)[Len(second) + k] = else[k]
      BY <1>2, <1>7, <2>5, CodeElements
    <3>. QED
      BY <2>5, <3>1, <3>2
  <2>7. c[1] = i
    <3>1. 1 \in 1 .. 2 + Len(then) /\ 1 \in 1 .. 1 + Len(then)
      BY <1>5
    <3>. QED
      BY <2>4, <2>5, <2>6, <3>1
  <2>8. ASSUME NEW p \in Nat, at < p, p < after
        PROVE  c[p - at + 1] = then[p - (at + 1) + 1]
    <3>. DEFINE k == p - (at + 1) + 1
    <3>1. /\ k \in 1 .. Len(then) /\ 1 + k \in 1 .. 2 + Len(then)
          /\ 1 + k \in 1 .. 1 + Len(then) /\ p - at + 1 = 1 + k
      BY <1>2, <1>5, <2>8
    <3>. HIDE DEF k
    <3>2. c[1 + k] = then[k]
      BY <2>4, <2>5, <2>6, <3>1
    <3>. QED
      BY <3>1, <3>2 DEF k
  <2>9. c[after - at + 1] = j
    <3>1. after - at + 1 = 2 + Len(then) /\ 2 + Len(then) \in 1 .. 2 + Len(then)
      BY <1>2, <1>5
    <3>. QED
      BY <2>5, <2>6, <3>1
  <2>10. ASSUME NEW p \in Nat, after < p, p < end
         PROVE  c[p - at + 1] = else[p - (after + 1) + 1]
    <3>. DEFINE k == p - (after + 1) + 1
    <3>1. k \in 1 .. Len(else) /\ p - at + 1 = 2 + Len(then) + k
      <4>1. /\ after = at + 1 + Len(then) /\ Len(else) \in Nat /\ end = after + 1 + Len(else)
            /\ after \in Nat /\ end \in Nat
        BY <1>2, <1>7
      <4>. QED
        BY <1>5, <2>10, <4>1
    <3>. HIDE DEF k
    <3>2. c[2 + Len(then) + k] = else[k]
      BY <2>6, <3>1
    <3>. QED
      BY <3>1, <3>2 DEF k
  <2>. QED
    BY <1>7, <2>7, <2>8, <2>9, <2>10 DEF i, j, c, s, after, end, then, else
<1>. QED
  BY <1>6, <1>7

\* A body laid out at an address: at its start all of it is left, behind it
\* nothing, and each of its instructions means what it should.
Laid(body, at) ==
  LET c == CompileFrom[body][at]
      R == RestFrom[body][at]
      last == at + Len(c)
  IN  /\ R[at] = body
      /\ \A p \in Nat : p >= last => R[p] = <<>>
      /\ \A p \in Nat : at <= p /\ p < last => Means(c[p - at + 1], p, last, R)

LaidOut(body) == \A at \in Nat : Laid(body, at)

\* Behind the statement is what follows it, in front of it all of the body; inside
\* a branch is what the branch leaves, before what follows.
LEMMA Around ==
  ASSUME NEW body \in Bodies, body # <<>>, NEW at \in Nat,
         LaidOut(Tail(body)),
         Head(body).op = "if" => LaidOut(Head(body).then),
         Head(body).op = "if" /\ Head(body).else # NoElse => LaidOut(Head(body).else)
  PROVE  LET s == Head(body)
             R == RestFrom[body][at]
             after == After(s, at)
             end == End(s, at)
         IN  /\ R \in [Nat -> Remainders]
             /\ R[at] = body
             /\ \A q \in Nat : q >= end => R[q] = RestFrom[Tail(body)][end][q]
             /\ R[end] = Tail(body)
             /\ s.op = "if" =>
                  /\ \A q \in Nat : at < q /\ q <= after =>
                       R[q] = RestFrom[s.then][at + 1][q] \o Tail(body)
                  /\ RestFrom[s.then][at + 1][at + 1] = s.then
                  /\ RestFrom[s.then][at + 1][after] = <<>>
             /\ s.op = "if" /\ s.else # NoElse =>
                  /\ \A q \in Nat : after < q /\ q <= end =>
                       R[q] = RestFrom[s.else][after + 1][q] \o Tail(body)
                  /\ RestFrom[s.else][after + 1][after + 1] = s.else
<1>. DEFINE s == Head(body)
            rest == Tail(body)
            R == RestFrom[body][at]
            after == After(s, at)
            end == End(s, at)
            then == RestFrom[s.then][at + 1]
            else == RestFrom[s.else][after + 1]
<1>1. /\ s \in AllStatements /\ rest \in Bodies
      /\ body = <<s>> \o rest
      /\ s.op = "if" => s.then \in Bodies
      /\ s.op = "if" /\ s.else # NoElse => s.else \in Bodies
  BY BodyParts
<1>2. /\ end \in Nat /\ at < end
      /\ s.op # "if" => end = at + 1
      /\ s.op = "if" =>
           /\ after \in Nat /\ at < after /\ after <= end
           /\ after = at + 1 + Len(CompileFrom[s.then][at + 1])
           /\ s.else = NoElse => end = after
           /\ s.else # NoElse => end = after + 1 + Len(CompileFrom[s.else][after + 1])
  BY Extent DEF After
<1>3. RestFrom \in [Bodies -> Views] /\ RestFrom[body] = Remain(RestFrom, body)
  BY RestFromDef
<1>4. R \in [Nat -> Remainders] /\ rest \in Remainders
  BY <1>1, <1>3, BodySizes DEF Views, Remainders
<1>5. ASSUME NEW p \in Nat
      PROVE  /\ p <= at => R[p] = <<s>> \o rest
             /\ s.op = "if" /\ p > at /\ p < end /\ p <= after => R[p] = then[p] \o rest
             /\ s.op = "if" /\ p > after /\ p < end => R[p] = else[p] \o rest
             /\ p >= end => R[p] = RestFrom[rest][end][p]
  <2>. DEFINE left == Remain(RestFrom, body)[at][p]
  <2>1. R[p] = left
    BY <1>3
  <2>2. Parted(left, s, rest, RestFrom, at, p)
    BY RemainCases
  <2>. HIDE DEF s, rest, R, left
  <2>3. /\ p <= at => left = <<s>> \o rest
        /\ p > at /\ p < end /\ p <= after => left = then[p] \o rest
        /\ s.op = "if" /\ p > after /\ p < end => left = else[p] \o rest
        /\ p >= end => left = RestFrom[rest][end][p]
    BY <2>2 DEF Parted
  <2>. HIDE DEF after, end, then, else
  <2>. QED
    BY <2>1, <2>3, Zenon
<1>6. Laid(rest, end) /\ (s.op = "if" => Laid(s.then, at + 1))
      /\ (s.op = "if" /\ s.else # NoElse => Laid(s.else, after + 1))
  <2>1. /\ LaidOut(rest) /\ (s.op = "if" => LaidOut(s.then))
        /\ s.op = "if" /\ s.else # NoElse => LaidOut(s.else)
    OBVIOUS
  <2>. HIDE DEF s, rest, after, end
  <2>2. at + 1 \in Nat /\ end \in Nat
    BY <1>2
  <2>3. s.op = "if" => after \in Nat
    BY <1>2, Zenon
  <2>4. after \in Nat => after + 1 \in Nat
    OBVIOUS
  <2>. QED
    BY <2>1, <2>2, <2>3, <2>4 DEF LaidOut
<1>. HIDE DEF s, rest, R, after, end
<1>7. R[at] = body
  <2>1. at <= at
    OBVIOUS
  <2>2. R[at] = <<s>> \o rest
    BY <1>5, <2>1
  <2>. QED
    BY <1>1, <2>2
<1>8. \A q \in Nat : q >= end => R[q] = RestFrom[rest][end][q]
  BY <1>5
<1>9. R[end] = rest
  <2>1. RestFrom[rest][end][end] = rest
    BY <1>6 DEF Laid
  <2>. QED
    BY <1>2, <1>8, <2>1
<1>10. <<>> \o rest = rest
  BY <1>4 DEF Remainders
<1>11. ASSUME s.op = "if"
       PROVE  /\ \A q \in Nat : at < q /\ q <= after => R[q] = then[q] \o rest
              /\ then[at + 1] = s.then /\ then[after] = <<>>
  <2>1. /\ then[at + 1] = s.then
        /\ \A p \in Nat : p >= at + 1 + Len(CompileFrom[s.then][at + 1]) => then[p] = <<>>
    BY <1>6, <1>11 DEF Laid
  <2>2. then[after] = <<>>
    BY <1>2, <1>11, <2>1
  <2>. HIDE DEF then, else
  <2>3. ASSUME NEW q \in Nat, at < q, q <= after
        PROVE  R[q] = then[q] \o rest
    <3>1. CASE q < end
      BY <1>5, <1>11, <2>3, <3>1
    <3>2. CASE ~(q < end)
      <4>1. after \in Nat /\ end \in Nat /\ after <= end
        BY <1>2, <1>11
      <4>2. q = end /\ q = after
        BY <2>3, <3>2, <4>1
      <4>. QED
        BY <1>9, <1>10, <2>2, <4>2
    <3>. QED
      BY <3>1, <3>2
  <2>. QED
    BY <2>1, <2>2, <2>3
<1>12. ASSUME s.op = "if", s.else # NoElse
       PROVE  /\ \A q \in Nat : after < q /\ q <= end => R[q] = else[q] \o rest
              /\ else[after + 1] = s.else
  <2>1. /\ else[after + 1] = s.else
        /\ \A p \in Nat : p >= after + 1 + Len(CompileFrom[s.else][after + 1]) => else[p] = <<>>
    BY <1>6, <1>12 DEF Laid
  <2>2. else[end] = <<>>
    <3>1. end \in Nat /\ end = after + 1 + Len(CompileFrom[s.else][after + 1])
      BY <1>2, <1>12
    <3>2. end >= after + 1 + Len(CompileFrom[s.else][after + 1])
      BY <3>1
    <3>. QED
      BY <2>1, <3>1, <3>2
  <2>. HIDE DEF then, else
  <2>3. ASSUME NEW q \in Nat, after < q, q <= end
        PROVE  R[q] = else[q] \o rest
    <3>1. CASE q < end
      BY <1>5, <1>12, <2>3, <3>1
    <3>2. CASE ~(q < end)
      <4>1. q = end
        BY <1>2, <2>3, <3>2
      <4>. QED
        BY <1>9, <1>10, <2>2, <4>1
    <3>. QED
      BY <3>1, <3>2
  <2>. QED
    BY <2>1, <2>3
<1>. QED
  BY <1>4, <1>7, <1>8, <1>9, <1>11, <1>12 DEF s, rest, R, after, end

LEMMA EmptyJoined ==
  ASSUME NEW r \in Remainders
  PROVE  <<>> \o r = r /\ r \o <<>> = r /\ <<>> \in Remainders
BY DEF Remainders

\* What Around says of a conditional, and that its branches are laid out.
LEMMA ConditionalMeans ==
  ASSUME NEW body \in Bodies, body # <<>>, Head(body).op = "if", NEW at \in Nat,
         LaidOut(Tail(body)), LaidOut(Head(body).then),
         Head(body).else # NoElse => LaidOut(Head(body).else),
         NEW p \in Nat, at <= p, p < End(Head(body), at)
  PROVE  Means(CompileStatement(CompileFrom, Head(body), at)[p - at + 1], p,
               End(Head(body), at), RestFrom[body][at])
<1>. DEFINE s == Head(body)
            rest == Tail(body)
            R == RestFrom[body][at]
            after == After(s, at)
            end == End(s, at)
            thenview == RestFrom[s.then][at + 1]
            elseview == RestFrom[s.else][after + 1]
            then == CompileFrom[s.then][at + 1]
            else == CompileFrom[s.else][after + 1]
            c == CompileStatement(CompileFrom, s, at)
<1>1. /\ R \in [Nat -> Remainders] /\ R[at] = body /\ R[end] = rest
      /\ \A q \in Nat : at < q /\ q <= after => R[q] = thenview[q] \o rest
      /\ thenview[at + 1] = s.then /\ thenview[after] = <<>>
  BY Around, Zenon
<1>2. s.else # NoElse =>
        /\ \A q \in Nat : after < q /\ q <= end => R[q] = elseview[q] \o rest
        /\ elseview[after + 1] = s.else
  BY Around
<1>3. /\ c[1] = JumpIfFalse(s.cond, IF s.else = NoElse THEN after ELSE after + 1)
      /\ \A q \in Nat : at < q /\ q < after => c[q - at + 1] = then[q - (at + 1) + 1]
      /\ s.else # NoElse =>
           /\ c[after - at + 1] = Jump(end)
           /\ \A q \in Nat : after < q /\ q < end =>
                c[q - at + 1] = else[q - (after + 1) + 1]
  BY ConditionalCode
<1>4. /\ end \in Nat /\ at < end /\ after \in Nat /\ at < after /\ after <= end
      /\ after = at + 1 + Len(then)
      /\ s.else = NoElse => end = after
      /\ s.else # NoElse => Len(else) \in Nat /\ end = after + 1 + Len(else)
  BY Extent DEF After
<1>5. /\ s \in AllStatements /\ rest \in Bodies /\ s.then \in Bodies
      /\ s.else # NoElse => s.else \in Bodies
      /\ body = <<s>> \o rest
  BY BodyParts
<1>6. Laid(s.then, at + 1)
  BY DEF LaidOut
<1>7. s.else # NoElse => Laid(s.else, after + 1)
  <2>1. after + 1 \in Nat
    BY <1>4
  <2>. HIDE DEF after
  <2>. QED
    BY <2>1 DEF LaidOut
<1>8. s.op = "if" /\ p < end
  OBVIOUS
<1>. HIDE DEF s, rest, R, after, end, thenview, elseview, then, else, c
<1>9. rest \in Remainders /\ s.then \in Remainders
      /\ <<>> \o rest = rest
  BY <1>5, BodySizes, EmptyJoined DEF Remainders
<1>10. thenview \in [Nat -> Remainders]
       /\ (s.else # NoElse => elseview \in [Nat -> Remainders])
  BY <1>4, <1>5, RestFromDef DEF Views, thenview, elseview
<1>11. CASE p = at
  <2>. DEFINE target == IF s.else = NoElse THEN after ELSE after + 1
  <2>1. p - at + 1 = 1
    BY <1>11
  <2>2. target \in Nat /\ at < target /\ target <= end
    BY <1>4
  <2>3. R[target] = ElseOf(s) \o rest
    <3>1. CASE s.else = NoElse
      BY <1>1, <1>4, <1>9, <3>1 DEF ElseOf
    <3>2. CASE s.else # NoElse
      <4>1. after + 1 \in Nat /\ after < after + 1 /\ after + 1 <= end
        BY <1>4, <3>2
      <4>. QED
        BY <1>2, <3>2, <4>1 DEF ElseOf
    <3>. QED
      BY <3>1, <3>2
  <2>4. R[at + 1] = s.then \o rest
    <3>1. at + 1 \in Nat /\ at < at + 1 /\ at + 1 <= after
      BY <1>4
    <3>. QED
      BY <1>1, <3>1
  <2>5. body # <<>> /\ Head(body) = s /\ Tail(body) = rest
    BY DEF s, rest
  <2>. HIDE DEF target
  <2>6. Chooses(JumpIfFalse(s.cond, target), at, end, R)
    BY <1>1, <1>8, <2>2, <2>3, <2>4, <2>5 DEF Chooses, JumpIfFalse
  <2>7. c[p - at + 1] = JumpIfFalse(s.cond, target)
    BY <1>3, <2>1 DEF target
  <2>. QED
    BY <1>11, <2>6, <2>7 DEF Means, s, end, c, R
<1>12. CASE at < p /\ p < after
  <2>1. at + 1 <= p /\ at + 1 + Len(then) = after /\ p < at + 1 + Len(then)
    BY <1>4, <1>12
  <2>2. Means(then[p - (at + 1) + 1], p, after, thenview)
    BY <1>6, <2>1 DEF Laid, then, thenview
  <2>3. \A q \in Nat : p <= q /\ q <= after => R[q] = thenview[q] \o rest
    <3>1. \A q \in Nat : p <= q => at < q
      BY <1>12
    <3>. QED
      BY <1>1, <3>1
  <2>. DEFINE i == then[p - (at + 1) + 1]
  <2>4. Means(i, p, after, thenview)
    BY <2>2
  <2>5. /\ R \in [Nat -> Remainders] /\ thenview \in [Nat -> Remainders]
        /\ rest \in Remainders /\ after \in Nat /\ end \in Nat /\ p < after /\ after <= end
    BY <1>1, <1>4, <1>9, <1>10, <1>12
  <2>. HIDE DEF i
  <2>6. Means(i, p, end, R)
    BY <2>3, <2>4, <2>5, MeansMore
  <2>. QED
    BY <1>3, <1>12, <2>6 DEF i, s, end, c, R
<1>13. CASE p = after
  <2>1. s.else # NoElse /\ after < end
    BY <1>4, <1>8, <1>13
  <2>2. R[after] = R[end]
    <3>1. at < after /\ after <= after
      BY <1>4
    <3>2. R[after] = <<>> \o rest
      BY <1>1, <1>4, <3>1
    <3>. QED
      BY <1>1, <1>9, <3>2
  <2>3. Jumps(Jump(end), after, end, R)
    BY <1>4, <2>1, <2>2 DEF Jumps, Jump
  <2>. QED
    BY <1>3, <1>13, <2>1, <2>3 DEF Means, s, end, c, R
<1>14. CASE after < p
  <2>1. s.else # NoElse
    BY <1>4, <1>8, <1>14
  <2>2. after + 1 <= p /\ after + 1 + Len(else) = end /\ p < after + 1 + Len(else)
    BY <1>4, <1>8, <1>14, <2>1
  <2>3. Means(else[p - (after + 1) + 1], p, end, elseview)
    BY <1>7, <2>1, <2>2 DEF Laid, else, elseview
  <2>4. \A q \in Nat : p <= q /\ q <= end => R[q] = elseview[q] \o rest
    <3>1. \A q \in Nat : p <= q => after < q
      BY <1>4, <1>14
    <3>. QED
      BY <1>2, <2>1, <3>1
  <2>. DEFINE i == else[p - (after + 1) + 1]
  <2>5. Means(i, p, end, elseview)
    BY <2>3
  <2>6. /\ R \in [Nat -> Remainders] /\ elseview \in [Nat -> Remainders]
        /\ rest \in Remainders /\ end \in Nat /\ p < end /\ end <= end
    BY <1>1, <1>4, <1>8, <1>9, <1>10, <2>1
  <2>. HIDE DEF i
  <2>7. Means(i, p, end, R)
    BY <2>4, <2>5, <2>6, MeansMore
  <2>. QED
    BY <1>3, <1>8, <1>14, <2>1, <2>7 DEF i, s, end, c, R
<1>. QED
  BY <1>4, <1>11, <1>12, <1>13, <1>14

\* The same of any first statement.
LEMMA StatementMeans ==
  ASSUME NEW body \in Bodies, body # <<>>, NEW at \in Nat,
         LaidOut(Tail(body)),
         Head(body).op = "if" => LaidOut(Head(body).then),
         Head(body).op = "if" /\ Head(body).else # NoElse => LaidOut(Head(body).else),
         NEW p \in Nat, at <= p, p < End(Head(body), at)
  PROVE  Means(CompileStatement(CompileFrom, Head(body), at)[p - at + 1], p,
               End(Head(body), at), RestFrom[body][at])
<1>1. CASE Head(body).op = "if"
  BY <1>1, ConditionalMeans
<1>2. CASE Head(body).op # "if"
  <2>. DEFINE s == Head(body)
              rest == Tail(body)
              R == RestFrom[body][at]
              end == End(s, at)
              c == CompileStatement(CompileFrom, s, at)
  <2>1. R[at] = body /\ R[end] = rest
    BY Around
  <2>2. end = at + 1
    BY <1>2, Extent
  <2>3. s.op \in {"let", "operate", "await"}
    BY <1>2, BodyParts
  <2>4. c = <<s>>
    BY <1>2 DEF CompileStatement
  <2>5. p < end
    OBVIOUS
  <2>. HIDE DEF s, rest, R, end, c
  <2>6. p = at /\ p - at + 1 = 1
    BY <2>2, <2>5
  <2>7. Head(body) = s /\ Tail(body) = rest
    BY DEF s, rest
  <2>8. Advances(s, at, R)
    BY <2>1, <2>2, <2>3, <2>7 DEF Advances
  <2>9. c[1] = s
    BY <2>4
  <2>. QED
    BY <2>6, <2>8, <2>9 DEF Means, s, R, end, c
<1>. QED
  BY <1>1, <1>2

\* A body is laid out when what it is made of is.
LEMMA LaidStep ==
  ASSUME NEW body \in Bodies, NEW at \in Nat,
         \A part \in Bodies : Size[part] < Size[body] => LaidOut(part)
  PROVE  Laid(body, at)
<1>1. /\ CompileFrom \in [Bodies -> Layouts]
      /\ CompileFrom[body] = Flatten(CompileFrom, body)
      /\ RestFrom \in [Bodies -> Views]
      /\ RestFrom[body] = Remain(RestFrom, body)
  BY CompileFromDef, RestFromDef
<1>2. CASE body = <<>>
  <2>1. CompileFrom[body][at] = <<>>
    BY <1>1, <1>2 DEF Flatten
  <2>2. \A p \in Nat : RestFrom[body][at][p] = <<>>
    BY <1>1, <1>2 DEF Remain
  <2>. DEFINE R == RestFrom[body][at]
              c == CompileFrom[body][at]
  <2>3. Len(c) = 0
    BY <2>1
  <2>. HIDE DEF R, c
  <2>4. at + Len(c) = at
    BY <2>3
  <2>5. \A p \in Nat : ~(at <= p /\ p < at)
    OBVIOUS
  <2>. QED
    BY <1>2, <2>2, <2>4, <2>5 DEF Laid, R, c
<1>3. CASE body # <<>>
  <2>. DEFINE s == Head(body)
              rest == Tail(body)
              R == RestFrom[body][at]
              end == End(s, at)
              c == CompileStatement(CompileFrom, s, at)
              d == CompileFrom[rest][end]
              code0 == CompileFrom[body][at]
              behind == RestFrom[rest][end]
              last == at + Len(code0)
  <2>1. /\ LaidOut(rest)
        /\ s.op = "if" => LaidOut(s.then)
        /\ s.op = "if" /\ s.else # NoElse => LaidOut(s.else)
        /\ rest \in Bodies
    BY <1>3, BodyParts
  <2>2. /\ R \in [Nat -> Remainders] /\ R[at] = body
        /\ \A q \in Nat : q >= end => R[q] = behind[q]
    BY <1>3, <2>1, Around
  <2>3. c \in Codes /\ end \in Nat /\ at < end /\ end = at + Len(c)
    BY <1>3, Extent DEF End
  <2>4. code0 = c \o d
    BY <1>1, <1>3 DEF Flatten, End
  <2>5. \A p \in Nat : at <= p /\ p < end => Means(c[p - at + 1], p, end, R)
    BY <1>3, <2>1, StatementMeans
  <2>6. LaidOut(rest)
    BY <2>1
  <2>. HIDE DEF s, rest, R, end, c
  <2>7. d \in Codes /\ behind \in [Nat -> Remainders]
    BY <1>1, <2>1, <2>3 DEF Layouts, Views
  <2>8. /\ \A p \in Nat : p >= end + Len(d) => behind[p] = <<>>
        /\ \A p \in Nat : end <= p /\ p < end + Len(d) =>
             Means(d[p - end + 1], p, end + Len(d), behind)
    BY <2>3, <2>6 DEF LaidOut, Laid
  <2>. HIDE DEF d, code0, behind
  <2>9. /\ Len(c) \in Nat /\ Len(d) \in Nat /\ Len(code0) = Len(c) + Len(d)
        /\ \A k \in 1 .. Len(c) : code0[k] = c[k]
        /\ \A k \in 1 .. Len(d) : code0[Len(c) + k] = d[k]
    <3>1. c \in Codes /\ d \in Codes
      BY <2>3, <2>7
    <3>2. /\ Len(c) \in Nat /\ Len(d) \in Nat /\ Len(code0) = Len(c) + Len(d)
      BY <2>4, <3>1, CodeJoined
    <3>3. /\ \A k \in 1 .. Len(c) : code0[k] = c[k]
          /\ \A k \in 1 .. Len(d) : code0[Len(c) + k] = d[k]
      BY <2>4, <3>1, CodeElements
    <3>. QED
      BY <3>2, <3>3
  <2>10. last \in Nat /\ end <= last /\ last = end + Len(d)
    BY <2>3, <2>9
  <2>. HIDE DEF last
  <2>11. \A q \in Nat : R[q] = R[q] \o <<>>
    BY <2>2, EmptyJoined
  <2>12. <<>> \in Remainders
    BY DEF Remainders
  <2>13. \A q \in Nat : q >= end => R[q] = behind[q] \o <<>>
    BY <2>2, <2>7, EmptyJoined
  <2>14. \A p \in Nat : p >= last => R[p] = <<>>
    BY <2>2, <2>3, <2>8, <2>10
  <2>15. ASSUME NEW p \in Nat, at <= p, p < last
         PROVE  Means(code0[p - at + 1], p, last, R)
    <3>1. CASE p < end
      <4>. DEFINE i == c[p - at + 1]
      <4>1. Means(i, p, end, R)
        BY <2>5, <2>15, <3>1
      <4>2. code0[p - at + 1] = i
        <5>1. p - at + 1 \in 1 .. Len(c)
          BY <2>3, <2>9, <2>15, <3>1
        <5>. QED
          BY <2>9, <5>1
      <4>. HIDE DEF i
      <4>3. Means(i, p, last, R)
        BY <2>2, <2>3, <2>10, <2>11, <2>12, <3>1, <4>1, MeansMore
      <4>. QED
        BY <4>2, <4>3
    <3>2. CASE end <= p
      <4>. DEFINE i == d[p - end + 1]
      <4>1. Means(i, p, last, behind)
        BY <2>8, <2>10, <2>15, <3>2
      <4>2. code0[p - at + 1] = i
        <5>1. p - end + 1 \in 1 .. Len(d) /\ p - at + 1 = Len(c) + (p - end + 1)
          BY <2>3, <2>9, <2>10, <2>15, <3>2
        <5>. QED
          BY <2>9, <5>1
      <4>. HIDE DEF i
      <4>3. \A q \in Nat : p <= q /\ q <= last => R[q] = behind[q] \o <<>>
        <5>1. \A q \in Nat : p <= q => q >= end
          BY <2>3, <3>2
        <5>. QED
          BY <2>13, <5>1
      <4>4. p < last /\ last <= last
        BY <2>10, <2>15
      <4>5. Means(i, p, last, R)
        BY <2>2, <2>7, <2>10, <2>12, <4>1, <4>3, <4>4, MeansMore
      <4>. QED
        BY <4>2, <4>5
    <3>. QED
      BY <2>3, <3>1, <3>2
  <2>. QED
    BY <2>2, <2>14, <2>15 DEF Laid, R, code0, last
<1>. QED
  BY <1>2, <1>3

\* Every body is laid out at every address.
LEMMA AllLaidOut ==
  ASSUME NEW body \in Bodies
  PROVE  LaidOut(body)
<1>. DEFINE Bad == {b \in Bodies : ~LaidOut(b)}
            T == {Size[b] : b \in Bad}
<1>1. Size \in [Bodies -> Nat]
  BY BodyAssumption
<1>2. Bad = {}
  <2>. SUFFICES ASSUME Bad # {} PROVE FALSE
    OBVIOUS
  <2>1. T \subseteq Nat /\ T # {}
    BY <1>1
  <2>2. PICK m \in T : \A n \in T : m <= n
    <3>. HIDE DEF T
    <3>. QED
      BY <2>1, Smallest
  <2>3. PICK b \in Bodies : ~LaidOut(b) /\ m = Size[b]
    OBVIOUS
  <2>4. ASSUME NEW part \in Bodies, Size[part] < Size[b]
        PROVE  LaidOut(part)
    <3>1. CASE part \in Bad
      <4>1. Size[part] \in T
        BY <3>1
      <4>2. m <= Size[part]
        <5>. HIDE DEF T
        <5>. QED
          BY <2>2, <4>1
      <4>3. Size[part] \in Nat /\ Size[b] \in Nat
        BY <1>1
      <4>. QED
        BY <2>3, <2>4, <4>2, <4>3
    <3>2. CASE part \notin Bad
      BY <3>2
    <3>. QED
      BY <3>1, <3>2
  <2>5. LaidOut(b)
    BY <2>4, LaidStep DEF LaidOut
  <2>. QED
    BY <2>3, <2>5
<1>. QED
  BY <1>2

-----------------------------------------------------------------------------
(* The evaluator implements the structured program                          *)

\* The statements of the program take the addresses 0 .. CodeEnd(body) - 1, and
\* Halt the next one.
CodeEnd(body) == Len(CompileFrom[body][0])

EvalInv ==
  /\ program \in Bodies
  /\ code = Compile(program)
  /\ pc \in 0 .. CodeEnd(program)

\* The counter stands at an instruction that means what is left, or at Halt with
\* nothing left.
Placed ==
  \/ /\ pc < CodeEnd(program)
     /\ Means(Instr, pc, CodeEnd(program), RestFrom[program][0])
  \/ Instr = Halt /\ Rest = <<>>

LEMMA EvalPlaced ==
  ASSUME EvalInv
  PROVE  Placed /\ RestFrom[program][0][0] = program /\ CodeEnd(program) \in Nat
<1>. DEFINE C == CompileFrom[program][0]
            R == RestFrom[program][0]
            last == CodeEnd(program)
<1>1. program \in Bodies /\ code = Append(C, Halt) /\ pc \in 0 .. last
  BY DEF EvalInv, Compile
<1>2. C \in Codes
  BY <1>1, CompileFromDef DEF Layouts
<1>3. Laid(program, 0)
  BY <1>1, AllLaidOut DEF LaidOut
<1>4. /\ R[0] = program /\ last = 0 + Len(C)
      /\ \A p \in Nat : p >= 0 + Len(C) => R[p] = <<>>
      /\ \A p \in Nat : 0 <= p /\ p < 0 + Len(C) => Means(C[p - 0 + 1], p, 0 + Len(C), R)
  <2>1. /\ R[0] = program
        /\ \A p \in Nat : p >= 0 + Len(C) => R[p] = <<>>
        /\ \A p \in Nat : 0 <= p /\ p < 0 + Len(C) => Means(C[p - 0 + 1], p, 0 + Len(C), R)
    BY <1>3 DEF Laid
  <2>2. Len(C) \in Nat
    BY <1>2, CodeJoined
  <2>. HIDE DEF C
  <2>3. last = 0 + Len(C)
    BY <2>2 DEF CodeEnd, C
  <2>. QED
    BY <2>1, <2>3
<1>5. Len(C) \in Nat
  BY <1>2, CodeJoined
<1>6. /\ \A k \in 1 .. Len(C) : Append(C, Halt)[k] = C[k]
      /\ Append(C, Halt)[Len(C) + 1] = Halt
  <2>. HIDE DEF C
  <2>. QED
    BY <1>2 DEF Codes
<1>7. Rest = R[pc]
  BY DEF Rest
<1>. HIDE DEF C, R, last
<1>8. last = Len(C) /\ last \in Nat /\ pc \in Nat /\ pc <= last
  BY <1>1, <1>4, <1>5
<1>9. CASE pc < last
  <2>1. pc + 1 \in 1 .. Len(C) /\ pc - 0 + 1 = pc + 1 /\ 0 <= pc /\ pc < 0 + Len(C)
        /\ 0 + Len(C) = last
    BY <1>8, <1>9
  <2>2. Instr = C[pc + 1]
    BY <1>1, <1>6, <2>1 DEF Instr
  <2>3. Means(C[pc + 1], pc, last, R)
    BY <1>4, <1>8, <2>1
  <2>. QED
    BY <1>4, <1>8, <1>9, <2>2, <2>3 DEF Placed, R, last
<1>10. CASE pc = last
  <2>1. Instr = Halt
    BY <1>1, <1>6, <1>8, <1>10 DEF Instr
  <2>2. R[pc] = <<>>
    <3>1. pc >= 0 + Len(C)
      BY <1>8, <1>10
    <3>. QED
      BY <1>4, <1>8, <3>1
  <2>. QED
    BY <1>4, <1>7, <1>8, <2>1, <2>2 DEF Placed, R, last
<1>. QED
  BY <1>8, <1>9, <1>10

\* What the instruction at the counter says of what is left, by its kind.
LEMMA AtInstruction ==
  ASSUME EvalInv
  PROVE  LET R == RestFrom[program][0]
             last == CodeEnd(program)
         IN  /\ Rest = R[pc] /\ pc \in Nat /\ last \in Nat
             /\ Instr.op \in {"let", "operate", "await"} =>
                  pc < last /\ Rest # <<>> /\ Head(Rest) = Instr /\ R[pc + 1] = Tail(Rest)
             /\ Instr.op = "jump" =>
                  /\ Instr.target \in Nat /\ pc < Instr.target /\ Instr.target <= last
                  /\ R[Instr.target] = Rest
             /\ Instr.op = "jif" =>
                  /\ pc < last /\ Rest # <<>>
                  /\ Head(Rest).op = "if" /\ Head(Rest).cond = Instr.cond
                  /\ Instr.target \in Nat /\ pc < Instr.target /\ Instr.target <= last
                  /\ R[pc + 1] = Head(Rest).then \o Tail(Rest)
                  /\ R[Instr.target] = ElseOf(Head(Rest)) \o Tail(Rest)
             /\ Instr.op = "halt" => Rest = <<>>
<1>. DEFINE R == RestFrom[program][0]
            last == CodeEnd(program)
            i == Instr
            rest == Rest
<1>1. \/ pc < last /\ (Jumps(i, pc, last, R) \/ Chooses(i, pc, last, R) \/ Advances(i, pc, R))
      \/ i = Halt /\ rest = <<>>
  BY EvalPlaced DEF Placed, Means
<1>2. rest = R[pc]
  BY DEF Rest
<1>3. pc \in Nat /\ last \in Nat
  BY EvalPlaced DEF EvalInv
<1>. HIDE DEF R, last, i, rest
<1>4. i = Halt => i.op = "halt"
  BY DEF Halt
<1>5. i.op \in {"let", "operate", "await"} =>
        pc < last /\ rest # <<>> /\ Head(rest) = i /\ R[pc + 1] = Tail(rest)
  BY <1>1, <1>2, <1>4 DEF Jumps, Chooses, Advances
<1>6. i.op = "jump" =>
        /\ i.target \in Nat /\ pc < i.target /\ i.target <= last
        /\ R[i.target] = rest
  BY <1>1, <1>2, <1>4 DEF Jumps, Chooses, Advances
<1>7. i.op = "jif" =>
        /\ pc < last /\ rest # <<>> /\ Head(rest).op = "if" /\ Head(rest).cond = i.cond
        /\ i.target \in Nat /\ pc < i.target /\ i.target <= last
        /\ R[pc + 1] = Head(rest).then \o Tail(rest)
        /\ R[i.target] = ElseOf(Head(rest)) \o Tail(rest)
  BY <1>1, <1>2, <1>4 DEF Jumps, Chooses, Advances
<1>8. i.op = "halt" => rest = <<>>
  BY <1>1, <1>2, <1>4 DEF Jumps, Chooses, Advances
<1>. QED
  BY <1>2, <1>3, <1>5, <1>6, <1>7, <1>8 DEF R, last, i, rest

LEMMA EvalInit ==
  ASSUME Init
  PROVE  EvalInv
<1>1. PICK body \in Programs : New(body)
  BY DEF Init
<1>2. program \in Bodies /\ code = Compile(program) /\ pc = 0
  BY <1>1, BodyAssumption DEF New
<1>3. CompileFrom[program][0] \in Codes
  BY <1>2, CompileFromDef DEF Layouts
<1>4. CodeEnd(program) \in Nat
  BY <1>3, CodeJoined DEF CodeEnd
<1>. QED
  BY <1>2, <1>4 DEF EvalInv

\* No instruction leads backwards, or behind Halt.
LEMMA EvalGoes ==
  ASSUME EvalInv, Interpret
  PROVE  pc' \in pc .. CodeEnd(program) /\ UNCHANGED <<program, code>>
         /\ (obs' = Idle \/ pc' > pc)
<1>. DEFINE last == CodeEnd(program)
<1>1. /\ pc \in Nat /\ last \in Nat /\ pc <= last
      /\ Instr.op \in {"let", "operate", "await"} => pc < last
      /\ Instr.op \in {"jump", "jif"} =>
           Instr.target \in Nat /\ pc < Instr.target /\ Instr.target <= last
      /\ Instr.op = "jif" => pc < last
  <2>1. pc \in 0 .. last
    BY DEF EvalInv
  <2>2. /\ last \in Nat
        /\ Instr.op \in {"let", "operate", "await"} => pc < last
        /\ Instr.op = "jump" => Instr.target \in Nat /\ pc < Instr.target /\ Instr.target <= last
        /\ Instr.op = "jif" =>
             pc < last /\ Instr.target \in Nat /\ pc < Instr.target /\ Instr.target <= last
    BY AtInstruction
  <2>. HIDE DEF last
  <2>. QED
    BY <2>1, <2>2
<1>. HIDE DEF last
<1>2. CASE ExecLet
  BY <1>1, <1>2 DEF ExecLet, Executing, last
<1>3. CASE ExecJumpIfFalse
  <2>1. /\ Instr.op = "jif" /\ (pc' = pc + 1 \/ pc' = Instr.target)
        /\ UNCHANGED <<program, code>>
    BY <1>3 DEF ExecJumpIfFalse, Executing
  <2>. QED
    BY <1>1, <2>1 DEF last
<1>4. CASE ExecJump
  BY <1>1, <1>4 DEF ExecJump, Executing, last
<1>5. CASE WaitSignalMet
  BY <1>1, <1>5 DEF WaitSignalMet, Executing, last
<1>6. CASE WaitSignalBlocked
  BY <1>1, <1>6 DEF WaitSignalBlocked, Answer, last
<1>7. CASE Operate
  BY <1>1, <1>7 DEF Operate, Executing, Answer, last
<1>8. CASE ExecHalt
  BY <1>1, <1>8 DEF ExecHalt, Answer, last
<1>. QED
  BY <1>2, <1>3, <1>4, <1>5, <1>6, <1>7, <1>8 DEF Interpret

LEMMA EvalStep ==
  ASSUME EvalInv, [Next]_vars
  PROVE  EvalInv'
<1>1. pc \in Nat /\ CodeEnd(program) \in Nat
  BY AtInstruction
<1>2. CASE Interpret
  <2>1. pc' \in pc .. CodeEnd(program) /\ UNCHANGED <<program, code>>
    BY <1>2, EvalGoes
  <2>2. CodeEnd(program)' = CodeEnd(program)
    BY <2>1 DEF CodeEnd
  <2>. QED
    BY <1>1, <2>1, <2>2 DEF EvalInv, Compile
<1>3. CASE Step
  BY <1>3 DEF EvalInv, Step, Compile, CodeEnd
<1>4. CASE UNCHANGED vars
  BY <1>4 DEF EvalInv, vars, Compile, CodeEnd
<1>. QED
  BY <1>2, <1>3, <1>4 DEF Next

\* The program counter never leaves the program and its Halt, and the code is
\* that of the program.
THEOREM CounterInCode == Spec => []EvalInv
<1>1. Init => EvalInv
  BY EvalInit
<1>2. EvalInv /\ [Next]_vars => EvalInv'
  BY EvalStep
<1>. QED
  BY <1>1, <1>2, PTL DEF Spec

\* Every instruction of a call either answers it or moves the program counter
\* forward, and never behind Halt: no nesting of branches compiles into a jump that
\* closes a loop, so a call executes at most as many instructions as there are.
Onward ==
  obs # Idle => obs' = Idle \/ (pc < pc' /\ pc' < Len(code))

THEOREM CallsMoveOn == Spec => [][Onward]_vars
<1>1. ASSUME EvalInv, [Next]_vars
      PROVE  [Onward]_vars
  <2>1. CASE Interpret
    <3>1. /\ pc' \in pc .. CodeEnd(program) /\ (obs' = Idle \/ pc' > pc)
      BY <1>1, <2>1, EvalGoes
    <3>2. pc \in Nat /\ CodeEnd(program) \in Nat
      BY <1>1, AtInstruction
    <3>3. Len(code) = CodeEnd(program) + 1
      <4>1. CompileFrom[program][0] \in Codes
        BY <1>1, CompileFromDef DEF EvalInv, Layouts
      <4>2. code = Append(CompileFrom[program][0], Halt)
        BY <1>1 DEF EvalInv, Compile
      <4>. QED
        BY <4>1, <4>2 DEF Codes, CodeEnd
    <3>. QED
      BY <3>1, <3>2, <3>3 DEF Onward
  <2>2. CASE Step
    BY <2>2 DEF Step, Onward
  <2>3. CASE UNCHANGED vars
    BY <2>3
  <2>. QED
    BY <1>1, <2>1, <2>2, <2>3 DEF Next
<1>. QED
  BY <1>1, CounterInCode, PTL DEF Spec

\* The instance evaluates expressions as the module does.
LEMMA SameEvaluation ==
  ASSUME NEW e, NEW env, NEW o
  PROVE  /\ Structured!Eval(e, env, o) = Eval(e, env, o)
         /\ \A v : Structured!Holds(v) <=> Holds(v)
<1>1. ASSUME NEW a
      PROVE  Structured!EvalAtom(a, env, o) = EvalAtom(a, env, o)
  BY DEF Structured!EvalAtom, EvalAtom, Structured!ReadSignal, ReadSignal,
         Structured!ReadLocal, ReadLocal, Structured!Whole, Whole, Structured!Truth, Truth
<1>2. ASSUME NEW op, NEW l, NEW r
      PROVE  Structured!Compare(op, l, r) = Compare(op, l, r)
  BY DEF Structured!Compare, Compare, Structured!Truth, Truth
<1>3. Structured!Eval(e, env, o) = Eval(e, env, o)
  BY <1>1, <1>2 DEF Structured!Eval, Eval
<1>. QED
  BY <1>3 DEF Structured!Holds, Holds

\* Every step of the evaluator is a step of the structured program, or none.
LEMMA EvalSimulates ==
  ASSUME EvalInv, Interpret
  PROVE  Structured!StructNext \/ UNCHANGED <<program, Rest, locals, obs, answer>>
<1>. DEFINE R == RestFrom[program][0]
            rest == Rest
            i == Instr
            s == Head(rest)
            told == Rest'
<1>1. /\ i.op \in {"let", "operate", "await"} =>
           rest # <<>> /\ s = i /\ R[pc + 1] = Tail(rest)
      /\ i.op = "jump" => R[i.target] = rest
      /\ i.op = "jif" =>
           /\ rest # <<>> /\ s.op = "if" /\ s.cond = i.cond
           /\ R[pc + 1] = s.then \o Tail(rest)
           /\ R[i.target] = ElseOf(s) \o Tail(rest)
      /\ i.op = "halt" => rest = <<>>
      /\ rest = R[pc]
  BY AtInstruction
<1>2. program' = program
  BY EvalGoes
<1>3. told = R[pc']
  BY <1>2 DEF Rest
<1>4. /\ \A v : Structured!Holds(v) <=> Holds(v)
      /\ \A e : Structured!Eval(e, locals, obs) = Eval(e, locals, obs)
  BY SameEvaluation
<1>. HIDE DEF R, rest, i, s, told
<1>5. CASE ExecLet
  <2>1. /\ obs # Idle /\ i.op = "let"
        /\ locals' = [n \in DOMAIN locals \cup {i.name} |->
                        IF n = i.name THEN Eval(i.value, locals, obs) ELSE locals[n]]
        /\ pc' = pc + 1 /\ UNCHANGED <<program, obs, answer>>
    BY <1>5 DEF ExecLet, Executing, i
  <2>2. rest # <<>> /\ s.op = "let" /\ told = Tail(rest)
    BY <1>1, <1>3, <2>1
  <2>3. locals' = [n \in DOMAIN locals \cup {s.name} |->
                     IF n = s.name THEN Structured!Eval(s.value, locals, obs) ELSE locals[n]]
    BY <1>1, <1>4, <2>1
  <2>4. Structured!Bind
    BY <2>1, <2>2, <2>3 DEF Structured!Bind, rest, s, told
  <2>. QED
    BY <2>1, <2>4 DEF Structured!StructNext
<1>6. CASE ExecJumpIfFalse
  <2>1. /\ obs # Idle /\ i.op = "jif"
        /\ pc' = IF Holds(Eval(i.cond, locals, obs)) THEN pc + 1 ELSE i.target
        /\ UNCHANGED <<program, locals, obs, answer>>
    BY <1>6 DEF ExecJumpIfFalse, Executing, i
  <2>. DEFINE branch == IF Structured!Holds(Structured!Eval(s.cond, locals, obs))
                        THEN s.then
                        ELSE IF s.else = NoElse THEN <<>> ELSE s.else
  <2>2. rest # <<>> /\ s.op = "if"
    BY <1>1, <2>1
  <2>3. told = branch \o Tail(rest)
    <3>1. CASE Holds(Eval(i.cond, locals, obs))
      <4>1. branch = s.then
        BY <1>1, <1>4, <2>1, <3>1
      <4>. QED
        BY <1>1, <1>3, <2>1, <3>1, <4>1
    <3>2. CASE ~Holds(Eval(i.cond, locals, obs))
      <4>1. branch = ElseOf(s)
        BY <1>1, <1>4, <2>1, <3>2 DEF ElseOf
      <4>. QED
        BY <1>1, <1>3, <2>1, <3>2, <4>1
    <3>. QED
      BY <3>1, <3>2
  <2>4. Structured!Choose
    BY <2>1, <2>2, <2>3 DEF Structured!Choose, rest, s, told
  <2>. QED
    BY <2>1, <2>4 DEF Structured!StructNext
<1>7. CASE ExecJump
  <2>1. i.op = "jump" /\ pc' = i.target /\ UNCHANGED <<program, locals, obs, answer>>
    BY <1>7 DEF ExecJump, Executing, i
  <2>2. told = rest
    BY <1>1, <1>3, <2>1
  <2>. QED
    BY <2>1, <2>2 DEF told, rest
<1>8. CASE WaitSignalMet
  <2>1. /\ obs # Idle /\ i.op = "await" /\ Holds(obs[i.signal])
        /\ pc' = pc + 1 /\ UNCHANGED <<program, locals, obs, answer>>
    BY <1>8 DEF WaitSignalMet, Executing, SignalTruthy, i
  <2>2. /\ rest # <<>> /\ s.op = "await" /\ told = Tail(rest)
        /\ Structured!Holds(obs[s.signal])
    BY <1>1, <1>3, <1>4, <2>1
  <2>3. Structured!Signalled
    BY <2>1, <2>2 DEF Structured!Signalled, rest, s, told
  <2>. QED
    BY <2>1, <2>3 DEF Structured!StructNext
<1>9. CASE WaitSignalBlocked
  <2>1. /\ obs # Idle /\ i.op = "await" /\ ~Holds(obs[i.signal])
        /\ answer' = i.signal /\ obs' = Idle /\ UNCHANGED <<program, pc, locals>>
    BY <1>9 DEF WaitSignalBlocked, Executing, SignalTruthy, Answer, i
  <2>2. /\ rest # <<>> /\ s.op = "await" /\ told = rest /\ answer' = s.signal
        /\ ~Structured!Holds(obs[s.signal])
    BY <1>1, <1>3, <1>4, <2>1
  <2>3. Structured!Wait
    BY <2>1, <2>2 DEF Structured!Wait, rest, s, told
  <2>. QED
    BY <2>1, <2>3 DEF Structured!StructNext
<1>10. CASE Operate
  <2>1. /\ obs # Idle /\ i.op = "operate"
        /\ answer' = i.operation /\ obs' = Idle /\ pc' = pc + 1 /\ UNCHANGED <<program, locals>>
    BY <1>10 DEF Operate, Executing, Answer, i
  <2>2. rest # <<>> /\ s.op = "operate" /\ told = Tail(rest) /\ answer' = s.operation
    BY <1>1, <1>3, <2>1
  <2>3. Structured!Perform
    BY <2>1, <2>2 DEF Structured!Perform, rest, s, told
  <2>. QED
    BY <2>1, <2>3 DEF Structured!StructNext
<1>11. CASE ExecHalt
  <2>1. /\ obs # Idle /\ i.op = "halt"
        /\ answer' = Completed /\ obs' = Idle /\ UNCHANGED <<program, pc, locals>>
    BY <1>11 DEF ExecHalt, Executing, Answer, i
  <2>2. rest = <<>> /\ told = rest
    BY <1>1, <1>3, <2>1
  <2>3. Structured!Finish
    BY <2>1, <2>2 DEF Structured!Finish, rest, told
  <2>. QED
    BY <2>1, <2>3 DEF Structured!StructNext
<1>. QED
  BY <1>5, <1>6, <1>7, <1>8, <1>9, <1>10, <1>11 DEF Interpret

\* Whatever the program, the nesting of its branches and the bundles its calls
\* observe, the jumps and the program counter of the interpreter do step by step what
\* the structured program does: binds the same locals, takes the same branches,
\* blocks on the same signals and answers with the same operations.
THEOREM StepsImplementStructured ==
  Spec => Structured!StructInit /\ [][Structured!StructNext]_(Structured!structVars)
<1>1. ASSUME Init
      PROVE  Structured!StructInit
  <2>1. EvalInv
    BY <1>1, EvalInit
  <2>2. PICK body \in Programs : New(body)
    BY <1>1 DEF Init
  <2>3. Rest = program
    BY <2>1, <2>2, EvalPlaced DEF Rest, New
  <2>. QED
    BY <2>2, <2>3 DEF New, Structured!StructInit
<1>2. ASSUME EvalInv, [Next]_vars
      PROVE  [Structured!StructNext]_(Structured!structVars)
  <2>1. CASE Interpret
    BY <1>2, <2>1, EvalSimulates DEF Structured!structVars
  <2>2. CASE Step
    <3>1. /\ obs = Idle /\ obs' \in Structured!Bundles
          /\ UNCHANGED <<program, pc, locals, answer>>
      BY <2>2 DEF Step, Bundles, Structured!Bundles
    <3>2. Rest' = Rest
      BY <3>1 DEF Rest
    <3>. QED
      BY <3>1, <3>2 DEF Structured!StructNext, Structured!Call
  <2>3. CASE UNCHANGED vars
    BY <2>3 DEF vars, Rest, Structured!structVars
  <2>. QED
    BY <1>2, <2>1, <2>2, <2>3 DEF Next
<1>. QED
  BY <1>1, <1>2, CounterInCode, PTL DEF Spec

\* With it, an evaluator whose calls return implements the structured program.  That
\* they do is a matter of fairness, which the runs check: the theorem CallsMoveOn
\* leaves no call an infinite execution.
THEOREM ReturningImplementsStructured ==
  Spec /\ Structured!CallsReturn => ImplementsStructured
BY StepsImplementStructured, PTL DEF ImplementsStructured, Structured!StructSpec
=============================================================================

------------------------ MODULE SkillExecutionProofs ------------------------
(***************************************************************************)
(* What lowering makes of a semantic program is cut into the parts of its  *)
(* operations, in their order; the passes of the planner keep origins and  *)
(* order, so the plan can be read back operation by operation.             *)
(***************************************************************************)
EXTENDS SkillExecution, PlanningPipelineProofs

-----------------------------------------------------------------------------
(* Lists of lists                                                           *)

\* Two lists in a row.
LEMMA Behind ==
  ASSUME NEW S, NEW a \in Seq(S), NEW b \in Seq(S)
  PROVE  /\ a \o b \in Seq(S) /\ Len(a) \in Nat /\ Len(a \o b) = Len(a) + Len(b)
         /\ \A k \in DOMAIN a : k \in DOMAIN (a \o b) /\ (a \o b)[k] = a[k]
         /\ \A k \in DOMAIN b, m \in Nat :
              m = Len(a) + k => m \in DOMAIN (a \o b) /\ (a \o b)[m] = b[k]
<1>1. /\ a \o b \in Seq(S) /\ Len(a \o b) = Len(a) + Len(b)
      /\ DOMAIN a = 1 .. Len(a) /\ DOMAIN b = 1 .. Len(b)
      /\ Len(a) \in Nat /\ Len(b) \in Nat /\ DOMAIN (a \o b) = 1 .. Len(a) + Len(b)
  OBVIOUS
<1>2. \A k \in DOMAIN a : k \in DOMAIN (a \o b) /\ (a \o b)[k] = a[k]
  BY <1>1
<1>3. ASSUME NEW k \in DOMAIN b, NEW m \in Nat, m = Len(a) + k
      PROVE  m \in DOMAIN (a \o b) /\ (a \o b)[m] = b[k]
  <2>1. m \in 1 .. Len(a) + Len(b) /\ ~(m <= Len(a)) /\ m - Len(a) = k
    BY <1>1, <1>3
  <2>2. (a \o b)[m] = b[m - Len(a)]
    BY <1>1, <2>1, ConcatProperties
  <2>. QED
    BY <1>1, <2>1, <2>2
<1>. QED
  BY <1>1, <1>2, <1>3

\* heaps[k] holds the first k parts, one behind the other.
IsHeaps(heaps, S, parts) ==
  /\ heaps \in [0 .. Len(parts) -> Seq(S)] /\ heaps[0] = <<>>
  /\ \A k \in 1 .. Len(parts) : heaps[k] = heaps[k - 1] \o parts[k]

\* FlattenSeq heaps them all.
LEMMA FlattenIsHeap ==
  ASSUME NEW S, NEW parts \in Seq(Seq(S))
  PROVE  \E heaps : IsHeaps(heaps, S, parts) /\ FlattenSeq(parts) = heaps[Len(parts)]
<1>1. /\ Len(parts) \in Nat /\ DOMAIN parts = 1 .. Len(parts)
      /\ \A i \in 1 .. Len(parts) : parts[i] \in Seq(S)
  OBVIOUS
<1>2. PICK n \in Nat : n = Len(parts)
  BY <1>1
<1>3. PICK f : IsHeaps(f, S, parts)
  <2>. DEFINE step == [k \in 1 .. n |-> [s \in Seq(S) |-> s \o parts[k]]]
              none == <<>>
  <2>1. step \in Steps(Seq(S), n)
    BY <1>1, <1>2 DEF Steps
  <2>2. none \in Seq(S)
    BY EmptySeq
  <2>3. Ways(Seq(S), none, n, step) # {}
    <3>. HIDE DEF step, none
    <3>. QED
      BY <2>1, <2>2, Iterate
  <2>4. PICK f \in [0 .. n -> Seq(S)] :
          f[0] = none /\ \A k \in 1 .. n : f[k] = step[k][f[k - 1]]
    <3>. HIDE DEF step, none
    <3>. QED
      BY <2>3 DEF Ways
  <2>5. \A k \in 1 .. n : f[k] = f[k - 1] \o parts[k]
    <3>. SUFFICES ASSUME NEW k \in 1 .. n PROVE f[k] = f[k - 1] \o parts[k]
      OBVIOUS
    <3>1. k - 1 \in 0 .. n
      BY <1>2
    <3>2. f[k - 1] \in Seq(S)
      BY <3>1
    <3>3. step[k][f[k - 1]] = f[k - 1] \o parts[k]
      BY <3>2
    <3>. HIDE DEF step
    <3>. QED
      BY <2>4, <3>3
  <2>6. f[0] = <<>>
    BY <2>4
  <2>. HIDE DEF step, none
  <2>7. IsHeaps(f, S, parts)
    BY <1>2, <2>5, <2>6 DEF IsHeaps
  <2>. QED
    BY <2>7
<1>4. /\ f \in [0 .. n -> Seq(S)] /\ f[0] = <<>>
      /\ \A k \in 1 .. n : f[k] = f[k - 1] \o parts[k]
  BY <1>2, <1>3 DEF IsHeaps
<1>5. CASE n = 0
  <2>1. parts = <<>>
    BY <1>2, <1>5, EmptySeq
  <2>2. FlattenSeq(parts) = parts
    BY <1>2, <1>5 DEF FlattenSeq
  <2>. QED
    BY <1>2, <1>3, <1>4, <1>5, <2>1, <2>2
<1>6. CASE n # 0
  <2>1. f[1] = parts[1] /\ 1 \in 1 .. n
    <3>1. 1 \in 1 .. n /\ 1 - 1 = 0
      BY <1>2, <1>6
    <3>2. f[1] = <<>> \o parts[1] /\ parts[1] \in Seq(S)
      BY <1>1, <1>2, <1>4, <3>1
    <3>. QED
      BY <3>1, <3>2, ConcatEmptySeq
  <2>. DEFINE P(g) == g = [i \in 1 .. n |-> IF i = 1 THEN parts[i] ELSE g[i - 1] \o parts[i]]
              flatten == CHOOSE g : P(g)
  <2>2. P([i \in 1 .. n |-> f[i]])
    <3>. DEFINE g == [i \in 1 .. n |-> f[i]]
    <3>1. \A i \in 1 .. n : g[i] = IF i = 1 THEN parts[i] ELSE g[i - 1] \o parts[i]
      <4>. SUFFICES ASSUME NEW i \in 1 .. n
                    PROVE  g[i] = IF i = 1 THEN parts[i] ELSE g[i - 1] \o parts[i]
        OBVIOUS
      <4>1. i = 1 \/ (i # 1 /\ i - 1 \in 1 .. n)
        BY <1>2
      <4>. QED
        BY <1>4, <2>1, <4>1
    <3>. QED
      BY <3>1
  <2>3. P(flatten)
    <3>1. \E g : P(g)
      BY <2>2
    <3>. HIDE DEF P
    <3>. QED
      BY <3>1
  <2>4. FlattenSeq(parts) = flatten[n]
    BY <1>2, <1>6 DEF FlattenSeq
  <2>. HIDE DEF flatten
  <2>5. \A i \in 1 .. n : flatten[i] = IF i = 1 THEN parts[i] ELSE flatten[i - 1] \o parts[i]
    BY <2>3
  <2>. HIDE DEF P
  <2>. DEFINE T == {i \in 1 .. n : flatten[i] # f[i]}
  <2>6. T = {}
    <3>1. SUFFICES ASSUME T # {} PROVE FALSE
      OBVIOUS
    <3>2. PICK m \in T : \A i \in T : m <= i
      <4>1. T \subseteq Nat
        BY <1>2
      <4>. HIDE DEF T
      <4>. QED
        BY <3>1, <4>1, Smallest
    <3>3. m \in 1 .. n /\ flatten[m] # f[m]
      OBVIOUS
    <3>4. m # 1
      BY <2>1, <2>5, <3>3
    <3>5. m - 1 \in 1 .. n /\ ~(m <= m - 1)
      BY <1>2, <3>3, <3>4
    <3>6. flatten[m - 1] = f[m - 1]
      BY <3>2, <3>5
    <3>. QED
      BY <1>4, <2>5, <3>3, <3>4, <3>6
  <2>7. n \in 1 .. n
    BY <1>2, <1>6
  <2>. QED
    BY <1>2, <1>3, <2>4, <2>6, <2>7
<1>. QED
  BY <1>5, <1>6

\* flat holds the parts one behind the other: part i ends at position at[i].
EndToEnd(flat, parts, at) ==
  /\ at \in [0 .. Len(parts) -> Nat] /\ at[0] = 0 /\ Len(flat) = at[Len(parts)]
  /\ \A i \in 1 .. Len(parts) : at[i] = at[i - 1] + Len(parts[i])
  /\ \A i \in 1 .. Len(parts), p \in Nat : \A k \in DOMAIN parts[i] :
       p = at[i - 1] + k => p \in DOMAIN flat /\ flat[p] = parts[i][k]

HeapsKeep(heaps, parts) ==
  \A j \in 0 .. Len(parts) : \A i \in 1 .. j, p \in Nat : \A k \in DOMAIN parts[i] :
    p = Len(heaps[i - 1]) + k => p \in DOMAIN heaps[j] /\ heaps[j][p] = parts[i][k]

\* A part keeps its position when more are heaped behind it.
LEMMA HeapsHold ==
  ASSUME NEW S, NEW parts \in Seq(Seq(S)), NEW heaps, IsHeaps(heaps, S, parts)
  PROVE  HeapsKeep(heaps, parts)
<1>. SUFFICES \A j \in 0 .. Len(parts) : \A i \in 1 .. j, p \in Nat :
                \A k \in DOMAIN parts[i] :
                  p = Len(heaps[i - 1]) + k => p \in DOMAIN heaps[j] /\ heaps[j][p] = parts[i][k]
  BY DEF HeapsKeep
<1>. DEFINE Q(j) == \A i \in 1 .. j, p \in Nat : \A k \in DOMAIN parts[i] :
           p = Len(heaps[i - 1]) + k => p \in DOMAIN heaps[j] /\ heaps[j][p] = parts[i][k]
            T == {j \in 0 .. Len(parts) : ~Q(j)}
<1>0. /\ Len(parts) \in Nat /\ DOMAIN parts = 1 .. Len(parts)
      /\ \A i \in 1 .. Len(parts) : parts[i] \in Seq(S)
  OBVIOUS
<1>1. SUFFICES ASSUME T # {} PROVE FALSE
  OBVIOUS
<1>2. PICK m \in T : \A j \in T : m <= j
  <2>1. T \subseteq Nat
    OBVIOUS
  <2>. HIDE DEF T
  <2>. QED
    BY <1>1, <2>1, Smallest
<1>3. m \in 0 .. Len(parts) /\ ~Q(m) /\ Q(0)
  <2>1. 1 .. 0 = {}
    OBVIOUS
  <2>2. Q(0)
    BY <2>1
  <2>. HIDE DEF Q
  <2>. QED
    BY <2>2
<1>4. \A j \in 0 .. Len(parts) : ~(m <= j) => Q(j)
  <2>. HIDE DEF Q
  <2>. QED
    BY <1>2
<1>. HIDE DEF Q, T
<1>5. m # 0
  BY <1>3
<1>6. m - 1 \in 0 .. Len(parts) /\ ~(m <= m - 1) /\ m \in 1 .. Len(parts)
  BY <1>0, <1>3, <1>5
<1>7. Q(m - 1)
  BY <1>4, <1>6
<1>8. /\ heaps[m] = heaps[m - 1] \o parts[m]
      /\ heaps[m - 1] \in Seq(S) /\ parts[m] \in Seq(S)
  BY <1>0, <1>6 DEF IsHeaps
<1>9. /\ \A k \in DOMAIN heaps[m - 1] :
           k \in DOMAIN heaps[m] /\ heaps[m][k] = heaps[m - 1][k]
      /\ \A k \in DOMAIN parts[m], p \in Nat :
           p = Len(heaps[m - 1]) + k => p \in DOMAIN heaps[m] /\ heaps[m][p] = parts[m][k]
  <2>. DEFINE a == heaps[m - 1]
              b == parts[m]
  <2>1. a \in Seq(S) /\ b \in Seq(S) /\ heaps[m] = a \o b
    BY <1>8
  <2>. HIDE DEF a, b
  <2>2. /\ \A k \in DOMAIN a : k \in DOMAIN heaps[m] /\ heaps[m][k] = a[k]
        /\ \A k \in DOMAIN b, p \in Nat :
             p = Len(a) + k => p \in DOMAIN heaps[m] /\ heaps[m][p] = b[k]
    <3>1. /\ \A k \in DOMAIN a : k \in DOMAIN (a \o b) /\ (a \o b)[k] = a[k]
          /\ \A k \in DOMAIN b, p \in Nat :
               p = Len(a) + k => p \in DOMAIN (a \o b) /\ (a \o b)[p] = b[k]
      BY <2>1, Behind
    <3>. QED
      BY <2>1, <3>1, Zenon
  <2>. QED
    BY <2>2 DEF a, b
<1>10. Q(m)
  <2>. SUFFICES ASSUME NEW i \in 1 .. m, NEW p \in Nat, NEW k \in DOMAIN parts[i],
                       p = Len(heaps[i - 1]) + k
                PROVE  p \in DOMAIN heaps[m] /\ heaps[m][p] = parts[i][k]
    BY DEF Q
  <2>1. i = m \/ i \in 1 .. m - 1
    BY <1>0, <1>3
  <2>2. CASE i = m
    BY <1>9, <2>2
  <2>3. CASE i \in 1 .. m - 1
    <3>1. p \in DOMAIN heaps[m - 1] /\ heaps[m - 1][p] = parts[i][k]
      BY <1>7, <2>3 DEF Q
    <3>2. p \in DOMAIN heaps[m] /\ heaps[m][p] = heaps[m - 1][p]
      BY <1>9, <3>1
    <3>. QED
      BY <3>1, <3>2
  <2>. QED
    BY <2>1, <2>2, <2>3
<1>. QED
  BY <1>3, <1>10

\* Where FlattenSeq puts each part.
LEMMA Flattened ==
  ASSUME NEW S, NEW parts \in Seq(Seq(S))
  PROVE  /\ FlattenSeq(parts) \in Seq(S)
         /\ \E at : EndToEnd(FlattenSeq(parts), parts, at)
<1>1. PICK f : IsHeaps(f, S, parts) /\ FlattenSeq(parts) = f[Len(parts)]
  BY FlattenIsHeap
<1>2. /\ Len(parts) \in Nat /\ DOMAIN parts = 1 .. Len(parts)
      /\ \A i \in 1 .. Len(parts) : parts[i] \in Seq(S)
  OBVIOUS
<1>3. PICK n \in Nat : n = Len(parts)
  BY <1>2
<1>4. /\ f \in [0 .. n -> Seq(S)] /\ f[0] = <<>>
      /\ \A k \in 1 .. n : f[k] = f[k - 1] \o parts[k]
  BY <1>1, <1>3 DEF IsHeaps
<1>. DEFINE at == [k \in 0 .. n |-> Len(f[k])]
<1>5. /\ \A k \in 0 .. n : at[k] = Len(f[k]) /\ at[k] \in Nat
      /\ at \in [0 .. n -> Nat] /\ n \in 0 .. n /\ 0 \in 0 .. n
  <2>1. \A k \in 0 .. n : Len(f[k]) \in Nat
    BY <1>4
  <2>. QED
    BY <1>3, <2>1
<1>. HIDE DEF at
<1>6. \A i \in 1 .. n : /\ i \in 0 .. n /\ i - 1 \in 0 .. n
                        /\ at[i] = at[i - 1] + Len(parts[i])
  <2>. SUFFICES ASSUME NEW i \in 1 .. n
                PROVE  /\ i \in 0 .. n /\ i - 1 \in 0 .. n
                       /\ at[i] = at[i - 1] + Len(parts[i])
    OBVIOUS
  <2>1. i \in 0 .. n /\ i - 1 \in 0 .. n
    BY <1>3
  <2>2. f[i - 1] \in Seq(S) /\ parts[i] \in Seq(S) /\ f[i] = f[i - 1] \o parts[i]
    BY <1>2, <1>3, <1>4, <2>1
  <2>3. Len(f[i]) = Len(f[i - 1]) + Len(parts[i])
    BY <2>2
  <2>. QED
    BY <1>5, <2>1, <2>3
<1>7. \A i \in 1 .. n, p \in Nat : \A k \in DOMAIN parts[i] :
        p = Len(f[i - 1]) + k => p \in DOMAIN f[n] /\ f[n][p] = parts[i][k]
  <2>1. \A j \in 0 .. Len(parts) : \A i \in 1 .. j, p \in Nat : \A k \in DOMAIN parts[i] :
          p = Len(f[i - 1]) + k => p \in DOMAIN f[j] /\ f[j][p] = parts[i][k]
    <3>1. HeapsKeep(f, parts)
      BY <1>1, HeapsHold
    <3>. QED
      BY <3>1 DEF HeapsKeep
  <2>2. Len(parts) \in 0 .. Len(parts)
    BY <1>2
  <2>3. \A i \in 1 .. Len(parts), p \in Nat : \A k \in DOMAIN parts[i] :
          p = Len(f[i - 1]) + k => p \in DOMAIN f[Len(parts)] /\ f[Len(parts)][p] = parts[i][k]
    BY <2>1, <2>2
  <2>. QED
    BY <1>3, <2>3
<1>8. EndToEnd(f[n], parts, at)
  <2>1. at[0] = 0
    BY <1>4, <1>5
  <2>2. \A i \in 1 .. n, p \in Nat : \A k \in DOMAIN parts[i] :
          p = at[i - 1] + k => p \in DOMAIN f[n] /\ f[n][p] = parts[i][k]
    <3>1. \A i \in 1 .. n : at[i - 1] = Len(f[i - 1])
      BY <1>5, <1>6
    <3>2. ASSUME NEW i \in 1 .. n, NEW p \in Nat, NEW k \in DOMAIN parts[i], p = at[i - 1] + k
          PROVE  p \in DOMAIN f[n] /\ f[n][p] = parts[i][k]
      <4>1. p = Len(f[i - 1]) + k
        BY <3>1, <3>2
      <4>. QED
        BY <1>7, <4>1
    <3>. QED
      BY <3>2
  <2>. QED
    BY <1>3, <1>5, <1>6, <2>1, <2>2 DEF EndToEnd
<1>. QED
  BY <1>1, <1>3, <1>4, <1>5, <1>8

\* The parts follow one another.
LEMMA EndsRise ==
  ASSUME NEW S, NEW parts \in Seq(Seq(S)), NEW flat, NEW at, EndToEnd(flat, parts, at)
  PROVE  \A i, j \in 0 .. Len(parts) : i <= j => at[i] <= at[j]
<1>0. /\ Len(parts) \in Nat /\ DOMAIN parts = 1 .. Len(parts)
      /\ \A i \in 1 .. Len(parts) : Len(parts[i]) \in Nat
  OBVIOUS
<1>1. /\ at \in [0 .. Len(parts) -> Nat]
      /\ \A i \in 1 .. Len(parts) : at[i] = at[i - 1] + Len(parts[i])
  BY DEF EndToEnd
<1>. SUFFICES ASSUME NEW i \in 0 .. Len(parts),
                     {j \in 0 .. Len(parts) : i <= j /\ ~(at[i] <= at[j])} # {}
              PROVE  FALSE
  OBVIOUS
<1>. DEFINE T == {j \in 0 .. Len(parts) : i <= j /\ ~(at[i] <= at[j])}
<1>2. PICK m \in T : \A j \in T : m <= j
  <2>1. T \subseteq Nat /\ T # {}
    OBVIOUS
  <2>. HIDE DEF T
  <2>. QED
    BY <2>1, Smallest
<1>3. m \in 0 .. Len(parts) /\ i <= m /\ ~(at[i] <= at[m])
  OBVIOUS
<1>4. \A j \in 0 .. Len(parts) : i <= j /\ ~(m <= j) => at[i] <= at[j]
  BY <1>2
<1>. HIDE DEF T
<1>5. at[i] \in Nat /\ at[m] \in Nat /\ i # m
  <2>1. at[i] \in Nat
    BY <1>1
  <2>2. at[m] \in Nat
    BY <1>1, <1>3
  <2>3. at[i] <= at[i]
    BY <2>1
  <2>. QED
    BY <1>3, <2>1, <2>2, <2>3
<1>6. m \in 1 .. Len(parts) /\ m - 1 \in 0 .. Len(parts) /\ i <= m - 1 /\ ~(m <= m - 1)
  BY <1>0, <1>3, <1>5
<1>7. at[i] <= at[m - 1] /\ at[m - 1] \in Nat
  BY <1>1, <1>4, <1>6
<1>8. at[m] = at[m - 1] + Len(parts[m]) /\ Len(parts[m]) \in Nat
  BY <1>0, <1>1, <1>6
<1>. QED
  BY <1>3, <1>5, <1>7, <1>8

\* Every position is in one of the parts.
InAPart(parts, at, p) ==
  \E i \in 1 .. Len(parts) : /\ \E k \in DOMAIN parts[i] : p = at[i - 1] + k
                             /\ at[i - 1] < p /\ p <= at[i]

LEMMA EveryPositionHasAPart ==
  ASSUME NEW S, NEW parts \in Seq(Seq(S)), NEW flat \in Seq(S), NEW at,
         EndToEnd(flat, parts, at), NEW p \in DOMAIN flat
  PROVE  InAPart(parts, at, p)
<1>. SUFFICES \E i \in 1 .. Len(parts) : /\ \E k \in DOMAIN parts[i] : p = at[i - 1] + k
                                         /\ at[i - 1] < p /\ p <= at[i]
  BY DEF InAPart
<1>0. /\ Len(parts) \in Nat /\ DOMAIN parts = 1 .. Len(parts)
      /\ \A i \in 1 .. Len(parts) : /\ Len(parts[i]) \in Nat
                                     /\ DOMAIN parts[i] = 1 .. Len(parts[i])
      /\ DOMAIN flat = 1 .. Len(flat) /\ p \in Nat
  OBVIOUS
<1>1. /\ at \in [0 .. Len(parts) -> Nat] /\ at[0] = 0 /\ Len(flat) = at[Len(parts)]
      /\ \A i \in 1 .. Len(parts) : at[i] = at[i - 1] + Len(parts[i])
  BY DEF EndToEnd
<1>. DEFINE T == {j \in 0 .. Len(parts) : p <= at[j]}
<1>2. Len(parts) \in T
  BY <1>0, <1>1
<1>3. PICK m \in T : \A j \in T : m <= j
  <2>1. T \subseteq Nat
    OBVIOUS
  <2>. HIDE DEF T
  <2>2. T # {}
    BY <1>2
  <2>. QED
    BY <2>1, <2>2, Smallest
<1>4. m \in 0 .. Len(parts) /\ p <= at[m]
  OBVIOUS
<1>5. \A j \in 0 .. Len(parts) : ~(m <= j) => ~(p <= at[j])
  BY <1>3
<1>. HIDE DEF T
<1>6. m # 0
  BY <1>0, <1>1, <1>4
<1>7. m \in 1 .. Len(parts) /\ m - 1 \in 0 .. Len(parts) /\ ~(m <= m - 1)
  BY <1>0, <1>4, <1>6
<1>8. ~(p <= at[m - 1]) /\ at[m - 1] \in Nat
  BY <1>1, <1>5, <1>7
<1>9. at[m] = at[m - 1] + Len(parts[m]) /\ Len(parts[m]) \in Nat
  BY <1>0, <1>1, <1>7
<1>10. PICK k \in Nat : k = p - at[m - 1]
  BY <1>0, <1>8
<1>11. k \in DOMAIN parts[m] /\ p = at[m - 1] + k
  <2>. DEFINE a == at[m - 1]
              b == at[m]
              c == Len(parts[m])
  <2>0. a \in Nat /\ c \in Nat /\ b = a + c /\ p <= b /\ ~(p <= a) /\ k = p - a
    BY <1>4, <1>8, <1>9, <1>10
  <2>. HIDE DEF a, b, c
  <2>2. k \in 1 .. c /\ p = a + k
    BY <1>0, <2>0
  <2>1. k \in 1 .. Len(parts[m]) /\ p = at[m - 1] + k
    BY <2>2 DEF a, c
  <2>. QED
    BY <1>0, <1>7, <2>1
<1>12. at[m - 1] < p
  BY <1>0, <1>8
<1>. QED
  BY <1>4, <1>7, <1>11, <1>12

\* The code is made of parts, told apart by their origins: those of one part are
\* together, in the order of the part, and the parts are in the order of their
\* origins.
Block(code, part, i, before) ==
  /\ \A k \in DOMAIN part, p \in Nat :
       p = before + k => p \in DOMAIN code /\ code[p] = part[k]
  /\ \A p \in DOMAIN code : code[p].origin = i =>
       \E k \in DOMAIN part : p = before + k

Cut(code, parts) ==
  /\ \A p \in DOMAIN code :
       code[p].origin \in DOMAIN parts /\ parts[code[p].origin] # <<>>
  /\ \A p, q \in DOMAIN code : p <= q => code[p].origin <= code[q].origin
  /\ \A i \in DOMAIN parts : \E before \in Nat : Block(code, parts[i], i, before)

Owning(parts) == \A i \in DOMAIN parts : \A k \in DOMAIN parts[i] : parts[i][k].origin = i

LEMMA FlattenCuts ==
  ASSUME NEW S, NEW parts \in Seq(Seq(S)), Owning(parts)
  PROVE  FlattenSeq(parts) \in Seq(S) /\ Cut(FlattenSeq(parts), parts)
<1>. DEFINE flat == FlattenSeq(parts)
<1>1. PICK at : flat \in Seq(S) /\ EndToEnd(flat, parts, at)
  BY Flattened
<1>. HIDE DEF flat
<1>2. /\ Len(parts) \in Nat /\ DOMAIN parts = 1 .. Len(parts)
      /\ \A i \in 1 .. Len(parts) : parts[i] \in Seq(S)
      /\ DOMAIN flat \subseteq Nat
  BY <1>1
<1>3. /\ at \in [0 .. Len(parts) -> Nat]
      /\ \A i \in 1 .. Len(parts), p \in Nat : \A k \in DOMAIN parts[i] :
           p = at[i - 1] + k => p \in DOMAIN flat /\ flat[p] = parts[i][k]
  BY <1>1 DEF EndToEnd
<1>4. \A i, j \in 0 .. Len(parts) : i <= j => at[i] <= at[j]
  BY <1>1, EndsRise
<1>5. ASSUME NEW p \in DOMAIN flat
      PROVE  \E i \in 1 .. Len(parts) :
               /\ \E k \in DOMAIN parts[i] : p = at[i - 1] + k
               /\ at[i - 1] < p /\ p <= at[i]
               /\ flat[p].origin = i /\ parts[i] # <<>>
  <2>0. PICK i \in 1 .. Len(parts) :
          /\ \E k \in DOMAIN parts[i] : p = at[i - 1] + k
          /\ at[i - 1] < p /\ p <= at[i]
    <3>1. InAPart(parts, at, p)
      BY <1>1, EveryPositionHasAPart
    <3>. QED
      BY <3>1 DEF InAPart
  <2>1. PICK k \in DOMAIN parts[i] : p = at[i - 1] + k
    BY <2>0
  <2>2. flat[p] = parts[i][k]
    BY <1>2, <1>3, <2>1
  <2>3. flat[p].origin = i
    BY <1>2, <2>2 DEF Owning
  <2>4. parts[i] # <<>>
    BY <1>2, <2>1
  <2>. QED
    BY <2>0, <2>1, <2>3, <2>4
<1>6. \A p \in DOMAIN flat :
        flat[p].origin \in DOMAIN parts /\ parts[flat[p].origin] # <<>>
  BY <1>2, <1>5
<1>7. ASSUME NEW p \in DOMAIN flat, NEW q \in DOMAIN flat, p <= q
      PROVE  flat[p].origin <= flat[q].origin
  <2>1. PICK i \in 1 .. Len(parts) : at[i - 1] < p /\ flat[p].origin = i
    BY <1>5
  <2>2. PICK j \in 1 .. Len(parts) : q <= at[j] /\ flat[q].origin = j
    BY <1>5
  <2>3. i <= j \/ j <= i - 1
    BY <1>2
  <2>4. ~(j <= i - 1)
    <3>1. i - 1 \in 0 .. Len(parts) /\ j \in 0 .. Len(parts)
      BY <1>2
    <3>2. j <= i - 1 => at[j] <= at[i - 1]
      BY <1>4, <3>1
    <3>3. at[j] \in Nat /\ at[i - 1] \in Nat /\ p \in Nat /\ q \in Nat
      BY <1>2, <1>3, <3>1
    <3>. QED
      BY <1>7, <2>1, <2>2, <3>2, <3>3
  <2>. QED
    BY <2>1, <2>2, <2>3, <2>4
<1>8. ASSUME NEW i \in DOMAIN parts
      PROVE  \E before \in Nat : Block(flat, parts[i], i, before)
  <2>1. i \in 1 .. Len(parts) /\ i - 1 \in 0 .. Len(parts)
    BY <1>2
  <2>2. PICK before \in Nat : before = at[i - 1]
    BY <1>3, <2>1
  <2>3. \A k \in DOMAIN parts[i], p \in Nat :
          p = before + k => p \in DOMAIN flat /\ flat[p] = parts[i][k]
    BY <1>3, <2>1, <2>2
  <2>4. \A p \in DOMAIN flat : flat[p].origin = i =>
          \E k \in DOMAIN parts[i] : p = before + k
    BY <1>5, <2>2
  <2>. QED
    BY <2>3, <2>4 DEF Block
<1>9. Cut(flat, parts)
  BY <1>6, <1>7, <1>8 DEF Cut
<1>. QED
  BY <1>1, <1>9 DEF flat

-----------------------------------------------------------------------------
(* What one operation becomes                                               *)

\* Instructions of one operation, at the speeds of the profiles.
Part(part, origin) ==
  /\ part \in Seq(Instruction)
  /\ \A k \in DOMAIN part :
       /\ part[k].origin = origin
       /\ IsMotion(part[k]) => part[k].speed \in {JointSpeed, CartesianProfile}

\* Go near, go there, grip or let go, leave.
Handles(part, place) ==
  /\ Len(part) = 4
  /\ part[1].kind = "MoveJ" /\ part[2].kind = "MoveL" /\ part[2].target.place = place
  /\ part[3].kind = "SetOutput" /\ part[4].kind = "MoveL"

IsOperation(op) ==
  /\ op.kind \in {"Pick", "Place", "MoveTo", "Wait", "Home", "Skill"}
  /\ op.origin \in Origins /\ HasAmount(op, {"Wait"})

LEMMA PartIsNoError ==
  ASSUME NEW part, NEW origin, Part(part, origin)
  PROVE  part # LoweringError
BY RegistryAssumption DEF Part

LEMMA MoveInstruction ==
  ASSUME NEW origin \in Origins, NEW target \in Targets
  PROVE  /\ MoveJ(origin, target) \in Instruction /\ MoveL(origin, target) \in Instruction
         /\ MoveJ(origin, target).kind = "MoveJ" /\ MoveL(origin, target).kind = "MoveL"
         /\ MoveJ(origin, target).origin = origin /\ MoveL(origin, target).origin = origin
         /\ MoveJ(origin, target).speed = JointSpeed
         /\ MoveL(origin, target).speed = CartesianProfile
         /\ MoveL(origin, target).target = target
<1>1. JointSpeed \in Speeds /\ CartesianProfile \in Speeds
  BY KnowledgeAssumption
<1>. HIDE DEF CartesianProfile
<1>. QED
  BY <1>1 DEF MoveJ, MoveL, Instruction, Motions

LEMMA EventInstruction ==
  ASSUME NEW origin \in Origins, NEW amount \in Nat
  PROVE  /\ Delay(origin, amount) \in Instruction /\ Output(origin, amount) \in Instruction
         /\ Delay(origin, amount).kind = "Delay" /\ Output(origin, amount).kind = "SetOutput"
         /\ Delay(origin, amount).origin = origin /\ Output(origin, amount).origin = origin
BY DEF Delay, Output, Instruction, Motions

LEMMA OnePart ==
  ASSUME NEW origin, NEW instruction \in Instruction, instruction.origin = origin,
         IsMotion(instruction) => instruction.speed \in {JointSpeed, CartesianProfile}
  PROVE  Part(<<instruction>>, origin) /\ <<instruction>> # <<>>
<1>1. <<instruction>> \in Seq(Instruction) /\ DOMAIN <<instruction>> = {1}
      /\ <<instruction>>[1] = instruction /\ Len(<<instruction>>) = 1
  OBVIOUS
<1>. QED
  BY <1>1 DEF Part

LEMMA HandlePart ==
  ASSUME NEW origin \in Origins, NEW plan, NEW there, NEW value \in Nat, plan # Unresolved,
         plan.approach \in Targets, plan[there] \in Targets, plan.retreat \in Targets
  PROVE  /\ Part(Handle(origin, plan, there, value), origin)
         /\ Handles(Handle(origin, plan, there, value), plan[there].place)
<1>. DEFINE a == MoveJ(origin, plan.approach)
            b == MoveL(origin, plan[there])
            c == Output(origin, value)
            d == MoveL(origin, plan.retreat)
            part == <<a, b, c, d>>
<1>1. Handle(origin, plan, there, value) = part
  BY DEF Handle
<1>2. /\ a \in Instruction /\ a.kind = "MoveJ" /\ a.origin = origin /\ a.speed = JointSpeed
      /\ b \in Instruction /\ b.kind = "MoveL" /\ b.origin = origin
      /\ b.speed = CartesianProfile /\ b.target = plan[there]
      /\ d \in Instruction /\ d.kind = "MoveL" /\ d.origin = origin
      /\ d.speed = CartesianProfile
  BY MoveInstruction
<1>3. c \in Instruction /\ c.kind = "SetOutput" /\ c.origin = origin
  BY EventInstruction
<1>. HIDE DEF a, b, c, d
<1>4. /\ part \in Seq(Instruction) /\ Len(part) = 4 /\ DOMAIN part = {1, 2, 3, 4}
      /\ part[1] = a /\ part[2] = b /\ part[3] = c /\ part[4] = d
  BY <1>2, <1>3
<1>. HIDE DEF part, CartesianProfile
<1>5. ~IsMotion(c)
  BY <1>3 DEF IsMotion, Motions
<1>6. Part(part, origin)
  BY <1>2, <1>3, <1>4, <1>5 DEF Part
<1>7. Handles(part, plan[there].place)
  BY <1>2, <1>3, <1>4 DEF Handles
<1>. QED
  BY <1>1, <1>6, <1>7

LEMMA PickPart ==
  ASSUME NEW origin \in Origins, NEW object
  PROVE  IF Asked(Grasps, object) = Unresolved
         THEN EmitPick(origin, object) = LoweringError
         ELSE /\ Part(EmitPick(origin, object), origin)
              /\ Handles(EmitPick(origin, object), Grasps[object].grasp.place)
<1>1. CASE Asked(Grasps, object) = Unresolved
  BY <1>1 DEF EmitPick, Handle
<1>2. CASE Asked(Grasps, object) # Unresolved
  <2>1. object \in DOMAIN Grasps /\ Asked(Grasps, object) = Grasps[object]
    BY <1>2 DEF Asked
  <2>2. Grasps[object] \in [approach : Targets, grasp : Targets, retreat : Targets]
    BY <1>2, <2>1, KnowledgeAssumption
  <2>. DEFINE plan == Grasps[object]
  <2>3. /\ plan # Unresolved /\ plan.approach \in Targets /\ plan["grasp"] \in Targets
        /\ plan.retreat \in Targets /\ plan["grasp"] = plan.grasp
    BY <1>2, <2>1, <2>2
  <2>4. EmitPick(origin, object) = Handle(origin, plan, "grasp", 1)
    BY <2>1 DEF EmitPick
  <2>. HIDE DEF plan
  <2>5. /\ Part(Handle(origin, plan, "grasp", 1), origin)
        /\ Handles(Handle(origin, plan, "grasp", 1), plan["grasp"].place)
    BY <2>3, HandlePart
  <2>. QED
    BY <1>2, <2>3, <2>4, <2>5 DEF plan
<1>. QED
  BY <1>1, <1>2

LEMMA PlacePart ==
  ASSUME NEW origin \in Origins, NEW object, NEW location
  PROVE  IF Asked(Placements, <<object, location>>) = Unresolved
         THEN EmitPlace(origin, object, location) = LoweringError
         ELSE /\ Part(EmitPlace(origin, object, location), origin)
              /\ Handles(EmitPlace(origin, object, location),
                         Placements[<<object, location>>].drop.place)
<1>. DEFINE at == <<object, location>>
            plan == Placements[at]
<1>0. EmitPlace(origin, object, location) = Handle(origin, Asked(Placements, at), "drop", 0)
  BY DEF EmitPlace
<1>. HIDE DEF at
<1>1. CASE Asked(Placements, at) = Unresolved
  BY <1>0, <1>1 DEF Handle, at
<1>2. CASE Asked(Placements, at) # Unresolved
  <2>1. at \in DOMAIN Placements /\ Asked(Placements, at) = Placements[at]
    BY <1>2 DEF Asked
  <2>2. Placements[at] \in [approach : Targets, drop : Targets, retreat : Targets]
    BY <1>2, <2>1, KnowledgeAssumption
  <2>3. /\ plan # Unresolved /\ plan.approach \in Targets /\ plan["drop"] \in Targets
        /\ plan.retreat \in Targets /\ plan["drop"] = plan.drop
    BY <1>2, <2>1, <2>2
  <2>4. EmitPlace(origin, object, location) = Handle(origin, plan, "drop", 0)
    BY <1>0, <2>1
  <2>. HIDE DEF plan
  <2>5. /\ Part(Handle(origin, plan, "drop", 0), origin)
        /\ Handles(Handle(origin, plan, "drop", 0), plan["drop"].place)
    BY <2>3, HandlePart
  <2>. QED
    BY <1>2, <2>3, <2>4, <2>5 DEF plan, at
<1>. QED
  BY <1>1, <1>2 DEF at

LEMMA MovePart ==
  ASSUME NEW origin \in Origins, NEW pose \in Targets \cup {Unresolved}
  PROVE  IF pose = Unresolved THEN EmitMove(origin, pose) = LoweringError
         ELSE Part(EmitMove(origin, pose), origin) /\ EmitMove(origin, pose) # <<>>
<1>1. CASE pose = Unresolved
  BY <1>1 DEF EmitMove
<1>2. CASE pose # Unresolved
  <2>. DEFINE a == MoveJ(origin, pose)
  <2>1. a \in Instruction /\ a.origin = origin /\ a.speed = JointSpeed
    BY <1>2, MoveInstruction
  <2>2. EmitMove(origin, pose) = <<a>>
    BY <1>2 DEF EmitMove
  <2>. HIDE DEF a
  <2>. QED
    BY <1>2, <2>1, <2>2, OnePart
<1>. QED
  BY <1>1, <1>2

\* Parts of the same operation, one behind the other, are a part.
LEMMA TogetherPart ==
  ASSUME NEW origin, NEW n \in Nat, NEW parts, DOMAIN parts = 1 .. n,
         parts = [i \in 1 .. n |-> parts[i]],
         \A i \in 1 .. n : parts[i] = LoweringError \/ Part(parts[i], origin)
  PROVE  \/ Together(parts) = LoweringError
         \/ /\ Part(Together(parts), origin)
            /\ Together(parts) = <<>> <=> \A i \in 1 .. n : parts[i] = <<>>
<1>1. CASE \E i \in 1 .. n : parts[i] = LoweringError
  BY <1>1 DEF Together
<1>2. CASE ~ \E i \in 1 .. n : parts[i] = LoweringError
  <2>1. \A i \in 1 .. n : Part(parts[i], origin) /\ parts[i] \in Seq(Instruction)
    BY <1>2 DEF Part
  <2>2. parts \in Seq(Seq(Instruction)) /\ Len(parts) = n
    BY <2>1
  <2>3. Together(parts) = FlattenSeq(parts)
    BY <1>2 DEF Together
  <2>. DEFINE flat == FlattenSeq(parts)
  <2>4. PICK at : flat \in Seq(Instruction) /\ EndToEnd(flat, parts, at)
    BY <2>2, Flattened
  <2>. HIDE DEF flat
  <2>5. /\ at \in [0 .. n -> Nat]
        /\ \A i \in 1 .. n, p \in Nat : \A k \in DOMAIN parts[i] :
             p = at[i - 1] + k => p \in DOMAIN flat /\ flat[p] = parts[i][k]
    <3>1. /\ at \in [0 .. Len(parts) -> Nat]
          /\ \A i \in 1 .. Len(parts), p \in Nat : \A k \in DOMAIN parts[i] :
               p = at[i - 1] + k => p \in DOMAIN flat /\ flat[p] = parts[i][k]
      BY <2>4 DEF EndToEnd
    <3>2. Len(parts) = n
      BY <2>2
    <3>. QED
      BY <3>1, <3>2, Zenon
  <2>6. ASSUME NEW p \in DOMAIN flat
        PROVE  \E i \in 1 .. n : \E k \in DOMAIN parts[i] : flat[p] = parts[i][k]
    <3>0. \E i \in 1 .. Len(parts) :
            /\ \E k \in DOMAIN parts[i] : p = at[i - 1] + k
            /\ at[i - 1] < p /\ p <= at[i]
      <4>1. InAPart(parts, at, p)
        BY <2>2, <2>4, EveryPositionHasAPart
      <4>. QED
        BY <4>1 DEF InAPart
    <3>1. PICK i \in 1 .. n : \E k \in DOMAIN parts[i] : p = at[i - 1] + k
      BY <2>2, <3>0
    <3>2. PICK k \in DOMAIN parts[i] : p = at[i - 1] + k
      BY <3>1
    <3>3. p \in Nat
      BY <2>4
    <3>. QED
      BY <2>5, <3>2, <3>3
  <2>7. Part(flat, origin)
    <3>. SUFFICES ASSUME NEW p \in DOMAIN flat
                  PROVE  /\ flat[p].origin = origin
                         /\ IsMotion(flat[p]) =>
                              flat[p].speed \in {JointSpeed, CartesianProfile}
      BY <2>4 DEF Part
    <3>1. PICK i \in 1 .. n : \E k \in DOMAIN parts[i] : flat[p] = parts[i][k]
      BY <2>6
    <3>. HIDE DEF CartesianProfile
    <3>. QED
      BY <2>1, <3>1 DEF Part
  <2>8. ASSUME flat = <<>>, NEW i \in 1 .. n
        PROVE  parts[i] = <<>>
    <3>1. parts[i] \in Seq(Instruction) /\ i - 1 \in 0 .. n
      BY <2>1
    <3>2. CASE Len(parts[i]) = 0
      BY <3>1, <3>2, EmptySeq
    <3>3. CASE Len(parts[i]) # 0
      <4>1. 1 \in DOMAIN parts[i] /\ at[i - 1] \in Nat
        BY <2>5, <3>1, <3>3
      <4>2. PICK p \in Nat : p = at[i - 1] + 1
        BY <4>1
      <4>. QED
        BY <2>5, <2>8, <4>1, <4>2
    <3>. QED
      BY <3>2, <3>3
  <2>9. ASSUME \A i \in 1 .. n : parts[i] = <<>>
        PROVE  flat = <<>>
    <3>1. DOMAIN flat = {}
      <4>. SUFFICES ASSUME NEW p \in DOMAIN flat PROVE FALSE
        OBVIOUS
      <4>1. PICK i \in 1 .. n : \E k \in DOMAIN parts[i] : flat[p] = parts[i][k]
        BY <2>6
      <4>2. DOMAIN parts[i] = {}
        BY <2>9
      <4>. QED
        BY <4>1, <4>2
    <3>2. Len(flat) = 0
      BY <2>4, <3>1
    <3>. QED
      BY <2>4, <3>2, EmptySeq
  <2>. QED
    BY <2>3, <2>4, <2>7, <2>8, <2>9 DEF flat
<1>. QED
  BY <1>1, <1>2

LEMMA NoPart == ASSUME NEW origin PROVE Part(<<>>, origin)
<1>1. DOMAIN <<>> = {} /\ <<>> \in Seq(Instruction)
  BY EmptySeq
<1>. QED
  BY <1>1 DEF Part

LEMMA HomePart ==
  ASSUME NEW origin \in Origins
  PROVE  IF HomePose = Unresolved THEN EmitHome(origin) = LoweringError
         ELSE Part(EmitHome(origin), origin) /\ EmitHome(origin) # <<>>
<1>1. HomePose \in Targets \cup {Unresolved}
  BY KnowledgeAssumption
<1>. QED
  BY <1>1, MovePart DEF EmitHome

LEMMA DelayPart ==
  ASSUME NEW origin \in Origins, NEW amount \in Nat
  PROVE  /\ Part(<<Delay(origin, amount)>>, origin) /\ <<Delay(origin, amount)>> # <<>>
         /\ Part(<<Output(origin, amount)>>, origin) /\ <<Output(origin, amount)>> # <<>>
<1>. DEFINE a == Delay(origin, amount)
            b == Output(origin, amount)
<1>1. /\ a \in Instruction /\ a.kind = "Delay" /\ a.origin = origin
      /\ b \in Instruction /\ b.kind = "SetOutput" /\ b.origin = origin
  BY EventInstruction
<1>. HIDE DEF a, b
<1>2. ~IsMotion(a) /\ ~IsMotion(b)
  BY <1>1 DEF IsMotion, Motions
<1>3. Part(<<a>>, origin) /\ <<a>> # <<>> /\ Part(<<b>>, origin) /\ <<b>> # <<>>
  BY <1>1, <1>2, OnePart
<1>. QED
  BY <1>3 DEF a, b

LEMMA FragmentPart ==
  ASSUME NEW origin \in Origins, NEW fragment, IsFragment(fragment)
  PROVE  \/ LowerFragment(origin, fragment) = LoweringError
         \/ /\ Part(LowerFragment(origin, fragment), origin)
            /\ LowerFragment(origin, fragment) = <<>> <=>
                 \A i \in DOMAIN fragment : fragment[i].kind \in {"WaitSignal", "Skill"}
<1>. DEFINE piece(i) ==
              CASE fragment[i].kind = "Motion" -> EmitHome(origin)
                [] fragment[i].kind = "Wait" -> <<Delay(origin, fragment[i].amount)>>
                [] fragment[i].kind = "SetSignal" -> <<Output(origin, fragment[i].amount)>>
                [] fragment[i].kind \in {"WaitSignal", "Skill"} -> <<>>
            parts == [i \in DOMAIN fragment |-> piece(i)]
<1>1. PICK n \in Nat : DOMAIN fragment = 1 .. n
  BY DEF IsFragment, IsList
<1>2. ASSUME NEW i \in 1 .. n
      PROVE  \/ piece(i) = LoweringError
             \/ /\ Part(piece(i), origin)
                /\ piece(i) = <<>> <=> fragment[i].kind \in {"WaitSignal", "Skill"}
  <2>0. /\ fragment[i].kind \in {"Motion", "Wait", "SetSignal", "WaitSignal", "Skill"}
        /\ fragment[i].kind \in {"Wait", "SetSignal"} => fragment[i].amount \in Nat
    BY <1>1 DEF IsFragment, HasAmount
  <2>1. CASE fragment[i].kind = "Motion"
    <3>1. piece(i) = EmitHome(origin)
      BY <2>1
    <3>. HIDE DEF piece
    <3>. QED
      BY <2>1, <3>1, HomePart
  <2>2. CASE fragment[i].kind = "Wait"
    <3>1. piece(i) = <<Delay(origin, fragment[i].amount)>>
      BY <2>2
    <3>. HIDE DEF piece
    <3>. QED
      BY <2>0, <2>2, <3>1, DelayPart
  <2>3. CASE fragment[i].kind = "SetSignal"
    <3>1. piece(i) = <<Output(origin, fragment[i].amount)>>
      BY <2>3
    <3>. HIDE DEF piece
    <3>. QED
      BY <2>0, <2>3, <3>1, DelayPart
  <2>4. CASE fragment[i].kind \in {"WaitSignal", "Skill"}
    <3>1. piece(i) = <<>>
      BY <2>4
    <3>. HIDE DEF piece
    <3>. QED
      BY <2>4, <3>1, NoPart
  <2>. QED
    BY <2>0, <2>1, <2>2, <2>3, <2>4
<1>3. LowerFragment(origin, fragment) = Together(parts)
  BY DEF LowerFragment
<1>4. /\ DOMAIN parts = 1 .. n /\ parts = [i \in 1 .. n |-> parts[i]]
      /\ \A i \in 1 .. n : parts[i] = piece(i)
  <2>. HIDE DEF piece
  <2>. QED
    BY <1>1
<1>. HIDE DEF parts, piece
<1>5. \A i \in 1 .. n : parts[i] = LoweringError \/ Part(parts[i], origin)
  BY <1>2, <1>4
<1>6. CASE \E i \in 1 .. n : parts[i] = LoweringError
  BY <1>3, <1>4, <1>6 DEF Together
<1>7. CASE ~ \E i \in 1 .. n : parts[i] = LoweringError
  <2>1. \/ Together(parts) = LoweringError
        \/ /\ Part(Together(parts), origin)
           /\ Together(parts) = <<>> <=> \A i \in 1 .. n : parts[i] = <<>>
    BY <1>4, <1>5, TogetherPart
  <2>2. \A i \in 1 .. n : parts[i] = <<>> <=> fragment[i].kind \in {"WaitSignal", "Skill"}
    BY <1>2, <1>4, <1>7
  <2>. QED
    BY <1>1, <1>3, <2>1, <2>2
<1>. QED
  BY <1>6, <1>7

\* The skill that is lowered, for the robots of a program and of its context.
SkillFor(op, irRobot, ctxRobot) ==
  GetForRobot(IF ctxRobot = NoRobot THEN irRobot ELSE ctxRobot, op.skill)

QuietFor(op, irRobot, ctxRobot) ==
  LET skill == SkillFor(op, irRobot, ctxRobot)
  IN  /\ op.kind = "Skill" /\ skill.implementation = "program"
      /\ \A i \in DOMAIN skill.fragment : skill.fragment[i].kind \in {"WaitSignal", "Skill"}

HandlingFor(op, irRobot, ctxRobot) ==
  \/ op.kind \in {"Pick", "Place"}
  \/ /\ op.kind = "Skill" /\ op.skill \in {"pick", "place"}
     /\ SkillFor(op, irRobot, ctxRobot).implementation # "program"

LEMMA SkillPart ==
  ASSUME NEW op, IsOperation(op), op.kind = "Skill", NEW irRobot, NEW ctxRobot
  PROVE  LET part == LowerSkill(op, irRobot, ctxRobot)
         IN  \/ part = LoweringError
             \/ /\ Part(part, op.origin)
                /\ part = <<>> <=> QuietFor(op, irRobot, ctxRobot)
                /\ HandlingFor(op, irRobot, ctxRobot) => Handles(part, HandlingPlace(op))
<1>. DEFINE part == LowerSkill(op, irRobot, ctxRobot)
            skill == SkillFor(op, irRobot, ctxRobot)
            refused == skill = NoSkill \/ (ctxRobot # NoRobot /\ op.skill \notin Supported[ctxRobot])
<1>0. /\ part = IF refused THEN LoweringError
                ELSE IF skill.implementation = "program"
                     THEN LowerFragment(op.origin, skill.fragment) ELSE LowerNative(op)
      /\ op.origin \in Origins
  BY DEF LowerSkill, SkillFor, IsOperation
<1>1. CASE refused
  BY <1>0, <1>1
<1>2. CASE ~refused /\ skill.implementation = "program"
  <2>1. IsFragment(skill.fragment)
    BY <1>2, RegistryAssumption DEF SkillFor, GetForRobot
  <2>2. part = LowerFragment(op.origin, skill.fragment)
    BY <1>0, <1>2
  <2>3. QuietFor(op, irRobot, ctxRobot) <=>
          \A i \in DOMAIN skill.fragment : skill.fragment[i].kind \in {"WaitSignal", "Skill"}
    BY <1>2 DEF QuietFor
  <2>4. ~HandlingFor(op, irRobot, ctxRobot)
    BY <1>2 DEF HandlingFor
  <2>. HIDE DEF part, skill
  <2>. QED
    BY <1>0, <2>1, <2>2, <2>3, <2>4, FragmentPart DEF part
<1>3. CASE ~refused /\ skill.implementation # "program"
  <2>1. part = LowerNative(op)
    BY <1>0, <1>3
  <2>2. ~QuietFor(op, irRobot, ctxRobot)
    BY <1>3 DEF QuietFor
  <2>3. HandlingFor(op, irRobot, ctxRobot) => op.skill \in {"pick", "place"}
    BY DEF HandlingFor
  <2>. HIDE DEF part, skill
  <2>4. CASE op.skill = "pick"
    <3>. DEFINE object == Argument(op, 1, DefaultObject)
    <3>1. part = EmitPick(op.origin, object)
      BY <2>1, <2>4 DEF LowerNative
    <3>2. HandlingPlace(op) = Grasps[object].grasp.place
      BY <2>4 DEF HandlingPlace
    <3>. HIDE DEF object
    <3>3. part = LoweringError \/ (Part(part, op.origin) /\ Handles(part, HandlingPlace(op)))
      BY <1>0, <3>1, <3>2, PickPart
    <3>. QED
      BY <2>2, <3>3 DEF Handles, part
  <2>5. CASE op.skill = "place"
    <3>. DEFINE object == Argument(op, 1, DefaultObject)
                location == Argument(op, 2, DefaultLocation)
    <3>1. part = EmitPlace(op.origin, object, location)
      BY <2>1, <2>5 DEF LowerNative
    <3>2. HandlingPlace(op) = Placements[<<object, location>>].drop.place
      BY <2>5 DEF HandlingPlace
    <3>. HIDE DEF object, location
    <3>3. part = LoweringError \/ (Part(part, op.origin) /\ Handles(part, HandlingPlace(op)))
      BY <1>0, <3>1, <3>2, PlacePart
    <3>. QED
      BY <2>2, <3>3 DEF Handles, part
  <2>6. CASE op.skill \notin {"pick", "place"}
    <3>1. part = EmitHome(op.origin)
      BY <2>1, <2>6 DEF LowerNative
    <3>. QED
      BY <1>0, <2>2, <2>3, <2>6, <3>1, HomePart DEF part
  <2>. QED
    BY <2>4, <2>5, <2>6
<1>. QED
  BY <1>1, <1>2, <1>3

\* Every operation becomes a part, and one that handles an object does so at its
\* place.
LEMMA OperationPart ==
  ASSUME NEW op, IsOperation(op), NEW irRobot, NEW ctxRobot
  PROVE  LET part == LowerOperation(op, irRobot, ctxRobot)
         IN  \/ part = LoweringError
             \/ /\ Part(part, op.origin)
                /\ part = <<>> <=> QuietFor(op, irRobot, ctxRobot)
                /\ HandlingFor(op, irRobot, ctxRobot) => Handles(part, HandlingPlace(op))
<1>. DEFINE part == LowerOperation(op, irRobot, ctxRobot)
<1>0. /\ op.kind \in {"Pick", "Place", "MoveTo", "Wait", "Home", "Skill"}
      /\ op.origin \in Origins /\ (op.kind = "Wait" => op.amount \in Nat)
  BY DEF IsOperation, HasAmount
<1>1. CASE op.kind = "Skill"
  <2>1. part = LowerSkill(op, irRobot, ctxRobot)
    BY <1>1 DEF LowerOperation
  <2>. QED
    BY <1>1, <2>1, SkillPart
<1>2. CASE op.kind = "Pick"
  <2>1. part = EmitPick(op.origin, op.object)
    BY <1>2 DEF LowerOperation
  <2>2. HandlingPlace(op) = Grasps[op.object].grasp.place
    BY <1>2 DEF HandlingPlace
  <2>. HIDE DEF part
  <2>3. part = LoweringError \/ (Part(part, op.origin) /\ Handles(part, HandlingPlace(op)))
    BY <1>0, <2>1, <2>2, PickPart
  <2>. QED
    BY <1>2, <2>3 DEF Handles, QuietFor, part
<1>3. CASE op.kind = "Place"
  <2>1. part = EmitPlace(op.origin, op.object, op.destination)
    BY <1>3 DEF LowerOperation
  <2>2. HandlingPlace(op) = Placements[<<op.object, op.destination>>].drop.place
    BY <1>3 DEF HandlingPlace
  <2>. HIDE DEF part
  <2>3. part = LoweringError \/ (Part(part, op.origin) /\ Handles(part, HandlingPlace(op)))
    BY <1>0, <2>1, <2>2, PlacePart
  <2>. QED
    BY <1>3, <2>3 DEF Handles, QuietFor, part
<1>4. CASE op.kind \in {"MoveTo", "Wait", "Home"}
  <2>1. ~QuietFor(op, irRobot, ctxRobot) /\ ~HandlingFor(op, irRobot, ctxRobot)
    BY <1>4 DEF QuietFor, HandlingFor
  <2>2. part = LoweringError \/ (Part(part, op.origin) /\ part # <<>>)
    <3>1. CASE op.kind = "MoveTo"
      <4>. DEFINE pose == Asked(LocationPose, op.destination)
      <4>1. part = EmitMove(op.origin, pose)
        BY <3>1 DEF LowerOperation
      <4>2. pose \in Targets \cup {Unresolved}
        BY KnowledgeAssumption DEF Asked
      <4>. HIDE DEF part, pose
      <4>. QED
        BY <1>0, <4>1, <4>2, MovePart
    <3>2. CASE op.kind = "Wait"
      <4>1. part = <<Delay(op.origin, op.amount)>>
        BY <3>2 DEF LowerOperation
      <4>. HIDE DEF part
      <4>. QED
        BY <1>0, <3>2, <4>1, DelayPart
    <3>3. CASE op.kind = "Home"
      <4>1. part = EmitHome(op.origin)
        BY <3>3 DEF LowerOperation
      <4>. HIDE DEF part
      <4>. QED
        BY <1>0, <4>1, HomePart
    <3>. QED
      BY <1>4, <3>1, <3>2, <3>3
  <2>. HIDE DEF part
  <2>. QED
    BY <2>1, <2>2 DEF part
<1>. QED
  BY <1>0, <1>1, <1>2, <1>3, <1>4

\* The parts a program is lowered to.
PartsOf(code, irRobot, ctxRobot) ==
  [i \in DOMAIN code |-> LowerOperation(code[i], irRobot, ctxRobot)]

LEMMA SemanticOperations ==
  ASSUME NEW code, IsSemantic(code)
  PROVE  /\ Len(code) \in Nat /\ DOMAIN code = 1 .. Len(code)
         /\ \A i \in DOMAIN code : IsOperation(code[i]) /\ code[i].origin = i
BY DEF IsSemantic, IsList, IsOperation

LEMMA LowerCut ==
  ASSUME NEW code, IsSemantic(code), NEW irRobot, NEW ctxRobot
  PROVE  LET lowered == Lower(code, irRobot, ctxRobot)
             parts == PartsOf(code, irRobot, ctxRobot)
         IN  \/ /\ lowered = LoweringError
                /\ \E i \in DOMAIN code : parts[i] = LoweringError
             \/ /\ lowered \in Seq(Instruction) /\ Cut(lowered, parts)
                /\ \A i \in DOMAIN code : parts[i] # LoweringError
                /\ \A p \in DOMAIN lowered :
                     IsMotion(lowered[p]) => lowered[p].speed \in {JointSpeed, CartesianProfile}
<1>. DEFINE lowered == Lower(code, irRobot, ctxRobot)
            parts == PartsOf(code, irRobot, ctxRobot)
<1>1. PICK n \in Nat : DOMAIN code = 1 .. n
  BY SemanticOperations
<1>2. \A i \in 1 .. n : parts[i] = LoweringError \/ Part(parts[i], i)
  <2>. SUFFICES ASSUME NEW i \in 1 .. n PROVE parts[i] = LoweringError \/ Part(parts[i], i)
    OBVIOUS
  <2>1. parts[i] = LowerOperation(code[i], irRobot, ctxRobot)
    BY <1>1 DEF PartsOf
  <2>2. IsOperation(code[i]) /\ code[i].origin = i
    BY <1>1, SemanticOperations
  <2>. QED
    BY <2>1, <2>2, OperationPart
<1>3. lowered = Together(parts)
  BY DEF Lower, PartsOf
<1>4. DOMAIN parts = 1 .. n /\ parts = [i \in 1 .. n |-> parts[i]]
  BY <1>1 DEF PartsOf
<1>. HIDE DEF parts, lowered
<1>5. CASE \E i \in 1 .. n : parts[i] = LoweringError
  <2>1. lowered = LoweringError
    BY <1>3, <1>4, <1>5 DEF Together
  <2>. QED
    BY <1>1, <1>5, <2>1 DEF parts, lowered
<1>6. CASE ~ \E i \in 1 .. n : parts[i] = LoweringError
  <2>1. lowered = FlattenSeq(parts)
    BY <1>3, <1>4, <1>6 DEF Together
  <2>2. \A i \in 1 .. n : Part(parts[i], i) /\ parts[i] \in Seq(Instruction)
    BY <1>2, <1>6 DEF Part
  <2>3. parts \in Seq(Seq(Instruction))
    BY <1>4, <2>2
  <2>4. Owning(parts)
    BY <1>4, <2>2 DEF Owning, Part
  <2>5. lowered \in Seq(Instruction) /\ Cut(lowered, parts)
    BY <2>1, <2>3, <2>4, FlattenCuts
  <2>6. ASSUME NEW p \in DOMAIN lowered, IsMotion(lowered[p])
        PROVE  lowered[p].speed \in {JointSpeed, CartesianProfile}
    <3>1. PICK i \in 1 .. n : lowered[p].origin = i
      BY <1>4, <2>5 DEF Cut
    <3>2. PICK before \in Nat : Block(lowered, parts[i], i, before)
      BY <1>4, <2>5 DEF Cut
    <3>3. PICK k \in DOMAIN parts[i] : p = before + k
      BY <3>1, <3>2 DEF Block
    <3>4. p \in Nat
      BY <2>5
    <3>5. lowered[p] = parts[i][k]
      BY <3>2, <3>3, <3>4 DEF Block
    <3>. HIDE DEF CartesianProfile
    <3>. QED
      BY <2>2, <2>6, <3>5 DEF Part
  <2>. HIDE DEF CartesianProfile
  <2>. QED
    BY <1>1, <1>6, <2>5, <2>6 DEF parts, lowered
<1>. QED
  BY <1>5, <1>6

LEMMA NormalizeSemantic ==
  ASSUME NEW body, IsBody(body), Normalize(body, Defined) # NormalizeError
  PROVE  IsSemantic(Normalize(body, Defined))
<1>. DEFINE code == Normalize(body, Defined)
            S == {NormalizeInstruction(body[i], i) : i \in DOMAIN body}
<1>1. PICK n \in Nat : DOMAIN body = 1 .. n /\ 1 .. n \subseteq Origins
  BY DEF IsBody, IsList
<1>2. code = [i \in 1 .. n |-> NormalizeInstruction(body[i], i)]
  BY <1>1 DEF Normalize
<1>3. \A i \in 1 .. n : code[i] = NormalizeInstruction(body[i], i)
  BY <1>2
<1>4. code \in [1 .. n -> S]
  <2>. HIDE DEF code
  <2>. QED
    BY <1>1, <1>2
<1>. HIDE DEF code, S
<1>5. Len(code) = n /\ DOMAIN code = 1 .. n
  BY <1>4
<1>6. ASSUME NEW i \in 1 .. n
      PROVE  /\ code[i].kind \in {"Pick", "Place", "MoveTo", "Wait", "Home", "Skill"}
             /\ code[i].origin = i /\ HasAmount(code[i], {"Wait"})
  <2>1. /\ body[i].kind \in MotionsToTarget \cup {"Retract", "Skill", "Wait", "WaitSignal", "SetSignal"}
        /\ HasAmount(body[i], {"Wait"})
    BY <1>1 DEF IsBody
  <2>. USE DEF HasAmount, NormalizeInstruction
  <2>2. CASE body[i].kind \in MotionsToTarget
    <3>1. code[i] = [kind |-> "MoveTo", origin |-> i, destination |-> body[i].target]
      BY <1>3, <2>2 DEF MotionsToTarget
    <3>. QED
      BY <3>1
  <2>3. CASE body[i].kind = "Retract"
    <3>1. code[i] = [kind |-> "Home", origin |-> i]
      BY <1>3, <2>3 DEF MotionsToTarget
    <3>. QED
      BY <3>1
  <2>4. CASE body[i].kind = "Skill"
    <3>1. code[i] = [kind |-> "Skill", origin |-> i, skill |-> body[i].skill,
                     arguments |-> body[i].arguments]
      BY <1>3, <2>4 DEF MotionsToTarget
    <3>. QED
      BY <3>1
  <2>5. CASE body[i].kind = "Wait"
    <3>1. code[i] = [kind |-> "Wait", origin |-> i, amount |-> body[i].amount]
      BY <1>3, <2>5 DEF MotionsToTarget
    <3>. QED
      BY <2>1, <2>5, <3>1
  <2>6. CASE body[i].kind \in {"WaitSignal", "SetSignal"}
    <3>1. code[i] = [kind |-> "Wait", origin |-> i, amount |-> 0]
      BY <1>3, <2>6 DEF MotionsToTarget
    <3>. QED
      BY <3>1
  <2>. QED
    BY <2>1, <2>2, <2>3, <2>4, <2>5, <2>6
<1>7. IsSemantic(code)
  BY <1>1, <1>5, <1>6 DEF IsSemantic, IsList
<1>. QED
  BY <1>7 DEF code

-----------------------------------------------------------------------------
(* The planner under this host                                              *)

\* The plan's events are those of the program, and all of it has been scheduled.
Told ==
  /\ CarriedOut => \A k \in DOMAIN temporal :
       /\ k \in DOMAIN events
       /\ temporal[k].kind = events[k].kind /\ temporal[k].origin = events[k].origin
  /\ phase = "planned" /\ OfProgram => pc > Len(program)

LEMMA NextTold ==
  ASSUME IInv, Clocked, Told, [Next]_vars
  PROVE  Told'
<1>1. CASE ScheduleEvent
  <2>0. PICK m \in Nat : m = eventIdx
    BY DEF IInv, PipelineTypeOK
  <2>1. /\ phase = "schedule" /\ UNCHANGED <<phase, requestVars, resolverVars>>
        /\ temporal \in Seq(TimedEvent) /\ events \in Seq(Event)
    BY <1>1 DEF ScheduleEvent, Scheduling, IInv, PipelineTypeOK
  <2>2. CarriedOut /\ Len(temporal) = m
    BY <2>0, <2>1 DEF CarriedOut, IInv, Placed, OfProgram, Clocked
  <2>3. events' = events
    BY <2>1 DEF resolverVars
  <2>4. CASE eventIdx < Len(events)
    <3>. DEFINE event == events[m + 1]
                stamped == Stamped(event)
    <3>1. m + 1 \in DOMAIN events
      BY <2>0, <2>1, <2>4
    <3>2. temporal' = Append(temporal, stamped)
      BY <1>1, <2>0, <2>4 DEF ScheduleEvent
    <3>3. stamped.kind = event.kind /\ stamped.origin = event.origin
      BY DEF Stamped
    <3>. HIDE DEF stamped
    <3>4. /\ \A k \in DOMAIN temporal' : k \in DOMAIN temporal \/ k = m + 1
          /\ \A k \in DOMAIN temporal : temporal'[k] = temporal[k]
          /\ temporal'[m + 1] = stamped
      BY <2>1, <2>2, <3>2
    <3>5. ASSUME NEW k \in DOMAIN temporal'
          PROVE  /\ k \in DOMAIN events /\ temporal'[k].kind = events[k].kind
                 /\ temporal'[k].origin = events[k].origin
      <4>1. CASE k \in DOMAIN temporal
        BY <2>2, <3>4, <4>1 DEF Told
      <4>2. CASE k = m + 1
        BY <3>1, <3>3, <3>4, <4>2
      <4>. QED
        BY <3>4, <4>1, <4>2
    <3>. QED
      BY <2>1, <2>3, <3>5 DEF Told
  <2>5. CASE ~(eventIdx < Len(events))
    <3>1. temporal' = temporal
      BY <1>1, <2>5 DEF ScheduleEvent
    <3>. QED
      BY <2>1, <2>2, <2>3, <3>1 DEF Told
  <2>. QED
    BY <2>4, <2>5
<1>2. CASE Scheduled
  <2>1. CarriedOut /\ InOrder(temporal) /\ pc > Len(program)
    BY <1>2 DEF Scheduled, IInv, Placed, CarriedOut, OfProgram
  <2>2. temporal' = temporal /\ UNCHANGED <<pc, program, events>>
    BY <1>2, <2>1 DEF Scheduled, SortByTime, requestVars, resolverVars
  <2>. QED
    BY <2>1, <2>2 DEF Told
<1>3. CASE ScheduleMotion
  <2>1. /\ phase = "schedule" /\ UNCHANGED <<phase, requestVars, resolverVars, temporal>>
    BY <1>3 DEF ScheduleMotion, Scheduling
  <2>. QED
    BY <2>1 DEF Told, CarriedOut, requestVars, resolverVars
<1>4. CASE Compiled
  <2>1. /\ phase = "compile" /\ UNCHANGED <<requestVars, temporal>>
        /\ phase' = IF OfProgram THEN "schedule" ELSE "planned"
    BY <1>4 DEF Compiled, schedulerVars, OfProgram
  <2>2. temporal' = <<>>
    BY <2>1 DEF IInv, Placed
  <2>3. DOMAIN temporal' = {}
    BY <2>2
  <2>. QED
    BY <2>1, <2>3 DEF Told, requestVars, OfProgram
<1>5. CASE Submitting \/ Replanning \/ Release
  BY <1>5 DEF Submitting, Submit, SubmitSegments, SubmitOperations, Replanning, Replan,
     Fail, Release, Told, CarriedOut
<1>6. CASE ExpandOperation \/ Expanded
  BY <1>6 DEF ExpandOperation, Expanded, Told, CarriedOut
<1>7. CASE ResolveMoveJ \/ ResolveMoveL \/ ResolveEvent \/ ResolveFails \/ Resolved
  BY <1>7 DEF ResolveMoveJ, ResolveMoveL, ResolveEvent, ResolveFails, Resolved,
     Resolving, PushSegment, Fail, Told, CarriedOut
<1>8. CASE CompileSegment \/ CompileFails
  BY <1>8 DEF CompileSegment, CompileFails, Compiling, Fail, Told, CarriedOut
<1>9. CASE UNCHANGED vars
  BY <1>9 DEF vars, requestVars, resolverVars, schedulerVars, Told, CarriedOut, OfProgram
<1>. QED
  BY <1>1, <1>2, <1>3, <1>4, <1>5, <1>6, <1>7, <1>8, <1>9 DEF Next, Step

PlannerInv == IInv /\ Track /\ Settled /\ Clocked /\ Told

LEMMA PlannerInit == Init => PlannerInv
BY InitInv DEF PlannerInv, Init, Track, Laid, Smooth, FirstOf, FromOf, Duration, Settled,
   Clocked, CarriedOut, Told, OfProgram

LEMMA PlannerNext ==
  ASSUME PlannerInv, [Next]_vars
  PROVE  PlannerInv'
BY NextInv, NextTrack, NextSettled, NextClocked, NextTold DEF PlannerInv

LEMMA PlannerSubmit ==
  ASSUME NEW instructions \in Seq(Instruction), NEW at \in Joints, Submit(instructions, at)
  PROVE  PlannerInv'
<1>1. /\ Fresh(<<>>, at) /\ phase' = "resolve" /\ entry' = "program"
      /\ program' = instructions /\ operations' = <<>>
  BY DEF Submit
<1>2. <<>> \in Seq(Segment \cup EditorSegments) /\ operations' \in Seq(Operation)
  BY <1>1
<1>3. IInv'
  BY <1>1, <1>2, FreshRequest
<1>4. Track'
  BY <1>1, TrackFresh
<1>. QED
  BY <1>1, <1>3, <1>4 DEF PlannerInv, Settled, Clocked, CarriedOut, Told

\* A request may fail before anything is planned.
LEMMA PlannerFail ==
  ASSUME PlannerInv, Fail
  PROVE  PlannerInv'
<1>1. phase' = "failed" /\ UNCHANGED compilerVars
  BY DEF Fail
<1>2. IInv' /\ Track'
  BY <1>1, FailInv, TrackKept DEF PlannerInv
<1>. QED
  BY <1>1, <1>2 DEF PlannerInv, Settled, Clocked, CarriedOut, Told

\* A pass keeps the request; only one with instructions can fail.
LEMMA StepKeepsRequest ==
  ASSUME PlannerInv, Step
  PROVE  /\ UNCHANGED requestVars /\ phase \notin {"idle", "failed", "planned"}
         /\ phase' \notin {"idle", "expand"} \/ phase = "expand"
         /\ phase' # "idle"
         /\ phase' = "failed" /\ OfProgram => program # <<>>
<1>0. /\ program \in Seq(Instruction) /\ pc \in Nat \ {0}
      /\ segments \in Seq(Segment \cup EditorSegments) /\ planned \in Seq(PlannedSegment)
  BY DEF PlannerInv, IInv, PipelineTypeOK
<1>1. CASE ExpandOperation \/ Expanded
  BY <1>1 DEF ExpandOperation, Expanded
<1>2. CASE ResolveMoveJ \/ ResolveMoveL \/ ResolveEvent \/ Resolved
  BY <1>2 DEF ResolveMoveJ, ResolveMoveL, ResolveEvent, Resolved, Resolving, PushSegment
<1>3. CASE ResolveFails
  <2>1. /\ UNCHANGED requestVars /\ phase = "resolve" /\ phase' = "failed"
        /\ pc <= Len(program)
    BY <1>3 DEF ResolveFails, Resolving, Fail
  <2>2. Len(program) # 0
    BY <1>0, <2>1
  <2>. QED
    BY <2>1, <2>2
<1>4. CASE CompileSegment \/ Compiled
  BY <1>4 DEF CompileSegment, Compiled, Compiling
<1>5. CASE CompileFails
  <2>1. /\ UNCHANGED requestVars /\ phase = "compile" /\ phase' = "failed"
        /\ Len(planned) < Len(segments)
    BY <1>5 DEF CompileFails, Compiling, Fail
  <2>2. ASSUME OfProgram PROVE program # <<>>
    <3>1. /\ Len(segmentOf) = Len(segments)
          /\ \A j \in DOMAIN segmentOf : segmentOf[j] \in 1 .. Len(program)
      BY <2>1, <2>2 DEF PlannerInv, IInv, Split, Names, Upto
    <3>2. segmentOf \in Seq(Nat)
      BY DEF PlannerInv, IInv, PipelineTypeOK
    <3>3. 1 \in DOMAIN segmentOf
      BY <1>0, <2>1, <3>1, <3>2
    <3>4. segmentOf[1] \in 1 .. Len(program)
      BY <3>1, <3>3
    <3>. QED
      BY <1>0, <3>4
  <2>. QED
    BY <2>1, <2>2
<1>6. CASE ScheduleMotion \/ ScheduleEvent \/ Scheduled
  BY <1>6 DEF ScheduleMotion, ScheduleEvent, Scheduled, Scheduling
<1>. QED
  BY <1>1, <1>2, <1>3, <1>4, <1>5, <1>6 DEF Step

-----------------------------------------------------------------------------
(* The host                                                                 *)

\* What is planned is what the program under way was lowered to, if anything.
WholeLowered ==
  \/ phase = "failed" /\ Lower(ir, IrRobot, CtxRobot) = LoweringError
  \/ /\ program = Lower(ir, IrRobot, CtxRobot) /\ entry = "program"
     /\ phase \notin {"idle", "expand"}
     /\ phase = "failed" => program # <<>>

Requested ==
  /\ IsSemantic(ir) /\ next \in Nat \ {0}
  /\ phase = "idle" => program = <<>>
  /\ mode # "whole" => world.joints \in Joints
  /\ mode = "whole" => WholeLowered

LEMMA SkillInitInv == SkillInit => PlannerInv /\ Requested
<1>. SUFFICES ASSUME SkillInit PROVE PlannerInv /\ Requested
  OBVIOUS
<1>1. PlannerInv
  BY PlannerInit DEF SkillInit
<1>2. IsSemantic(ir)
  <2>1. ir = <<>> /\ Len(<<>>) = 0 /\ DOMAIN <<>> = {} /\ 1 .. 0 = {}
    BY DEF SkillInit
  <2>. QED
    BY <2>1 DEF IsSemantic, IsList
<1>3. start \in Joints /\ world.joints = start
  BY RequestAssumption DEF SkillInit, Init
<1>. QED
  BY <1>1, <1>2, <1>3 DEF Requested, SkillInit, Init

LEMMA RunWholeInv ==
  ASSUME PlannerInv, Requested, Idling, NEW code, IsSemantic(code), NEW context,
         RunWhole(code, context)
  PROVE  PlannerInv' /\ Requested'
<1>. DEFINE lowered == Lower(code, context[1], context[2])
<1>1. /\ ir' = code /\ robots' = context /\ mode' = "whole" /\ next' = 1
      /\ IF lowered = LoweringError THEN Fail ELSE Submit(lowered, world.joints)
  BY DEF RunWhole, Ask
<1>2. lowered = LoweringError \/ lowered \in Seq(Instruction)
  BY LowerCut
<1>3. Lower(ir, IrRobot, CtxRobot)' = lowered
  BY <1>1 DEF IrRobot, CtxRobot
<1>4. world.joints \in Joints
  BY DEF Requested, Idling
<1>. HIDE DEF lowered
<1>5. CASE lowered = LoweringError
  <2>1. Fail
    BY <1>1, <1>5
  <2>2. PlannerInv'
    BY <2>1, PlannerFail
  <2>3. phase' = "failed"
    BY <2>1 DEF Fail
  <2>. QED
    BY <1>1, <1>3, <1>5, <2>2, <2>3 DEF Requested, WholeLowered
<1>6. CASE lowered # LoweringError
  <2>1. Submit(lowered, world.joints) /\ lowered \in Seq(Instruction)
    BY <1>1, <1>2, <1>6
  <2>2. PlannerInv'
    BY <1>4, <2>1, PlannerSubmit
  <2>3. phase' = "resolve" /\ entry' = "program" /\ program' = lowered
    BY <2>1 DEF Submit
  <2>. QED
    BY <1>1, <1>3, <2>2, <2>3 DEF Requested, WholeLowered
<1>. QED
  BY <1>5, <1>6

LEMMA UnchangedPlanner ==
  ASSUME PlannerInv, UNCHANGED vars
  PROVE  PlannerInv'
BY PlannerNext

LEMMA RequestsInv ==
  ASSUME PlannerInv, Requested, Requests
  PROVE  PlannerInv' /\ Requested'
<1>0. Idling /\ mode # "whole"
  BY DEF Requests, Idling
<1>1. PICK c \in Contexts :
        \/ \E code \in Irs : RunWhole(code, c)
        \/ \E body \in Bodies : RunBody(body, c)
        \/ \E code \in SkillPrograms : RunSteps(code, c)
  BY DEF Requests
<1>2. ASSUME NEW code \in Irs, RunWhole(code, c)
      PROVE  PlannerInv' /\ Requested'
  <2>1. IsSemantic(code)
    BY ProgramAssumption
  <2>. QED
    BY <1>0, <1>2, <2>1, RunWholeInv
<1>3. ASSUME NEW body \in Bodies, RunBody(body, c)
      PROVE  PlannerInv' /\ Requested'
  <2>. DEFINE code == Normalize(body, Defined)
  <2>1. CASE code = NormalizeError
    <3>1. Fail /\ UNCHANGED skillVars
      BY <1>3, <2>1 DEF RunBody
    <3>2. PlannerInv'
      BY <3>1, PlannerFail
    <3>3. /\ ir' = ir /\ next' = next /\ mode' = mode /\ world' = world
          /\ phase' = "failed" /\ program' = program
      BY <3>1 DEF skillVars, Fail, requestVars
    <3>4. IsSemantic(ir)'
      BY <3>3 DEF Requested
    <3>. QED
      BY <1>0, <3>2, <3>3, <3>4 DEF Requested
  <2>2. CASE code # NormalizeError
    <3>1. RunWhole(code, c)
      BY <1>3, <2>2 DEF RunBody
    <3>2. IsSemantic(code)
      BY <2>2, NormalizeSemantic, ProgramAssumption
    <3>. HIDE DEF code
    <3>. QED
      BY <1>0, <3>1, <3>2, RunWholeInv
  <2>. QED
    BY <2>1, <2>2
<1>4. ASSUME NEW code \in SkillPrograms, RunSteps(code, c)
      PROVE  PlannerInv' /\ Requested'
  <2>1. /\ ir' = code /\ mode' = "step" /\ next' = 1 /\ world' = world /\ UNCHANGED vars
    BY <1>4 DEF RunSteps, Ask
  <2>2. PlannerInv'
    BY <2>1, UnchangedPlanner
  <2>3. IsSemantic(ir)'
    BY <2>1, ProgramAssumption
  <2>4. phase' = phase /\ program' = program
    BY <2>1 DEF vars, requestVars
  <2>. QED
    BY <1>0, <2>1, <2>2, <2>3, <2>4 DEF Requested
<1>. QED
  BY <1>1, <1>2, <1>3, <1>4

\* A skill that is ready is lowered to a program.
LEMMA PrepareInv ==
  ASSUME PlannerInv, Requested, PrepareSkill
  PROVE  PlannerInv' /\ Requested'
<1>1. /\ mode = "step" /\ next <= Len(ir) /\ mode' = mode /\ ir' = ir /\ world' = world
      /\ next \in Nat \ {0} /\ IsSemantic(ir) /\ world.joints \in Joints /\ phase = "idle"
      /\ IF Ready(ir[next], world)
         THEN Submit(LoweredAlone(ir[next]), world.joints) /\ next' = next
         ELSE next' = next + 1 /\ UNCHANGED vars
  BY DEF PrepareSkill, Requested
<1>2. IsSemantic(ir)'
  BY <1>1
<1>3. CASE Ready(ir[next], world)
  <2>. DEFINE lowered == LoweredAlone(ir[next])
  <2>1. lowered # LoweringError
    BY <1>3 DEF Ready
  <2>2. IsOperation(ir[next])
    BY <1>1, SemanticOperations
  <2>3. lowered \in Seq(Instruction)
    BY <2>1, <2>2, OperationPart DEF LoweredAlone, Part
  <2>. HIDE DEF lowered
  <2>4. Submit(lowered, world.joints)
    BY <1>1, <1>3 DEF lowered
  <2>5. PlannerInv'
    BY <1>1, <2>3, <2>4, PlannerSubmit
  <2>6. phase' = "resolve" /\ next' = next
    BY <1>1, <1>3, <2>4 DEF Submit
  <2>. QED
    BY <1>1, <1>2, <2>5, <2>6 DEF Requested
<1>4. CASE ~Ready(ir[next], world)
  <2>1. PlannerInv'
    BY <1>1, <1>4, UnchangedPlanner
  <2>2. next' \in Nat \ {0} /\ phase' = phase /\ program' = program
    BY <1>1, <1>4 DEF vars, requestVars
  <2>. QED
    BY <1>1, <1>2, <2>1, <2>2 DEF Requested
<1>. QED
  BY <1>3, <1>4

LEMMA PlanningInv ==
  ASSUME PlannerInv, Requested, Planning
  PROVE  PlannerInv' /\ Requested'
<1>1. /\ ir' = ir /\ robots' = robots /\ mode' = mode /\ next' = next /\ world' = world
  BY DEF Planning, skillVars
<1>2. IsSemantic(ir)'
  BY <1>1 DEF Requested
<1>3. CASE Step
  <2>1. PlannerInv'
    BY <1>3, PlannerNext DEF Next
  <2>2. /\ program' = program /\ entry' = entry
        /\ phase \notin {"idle", "failed", "planned"} /\ phase' # "idle"
        /\ phase' \notin {"idle", "expand"} \/ phase = "expand"
        /\ phase' = "failed" /\ OfProgram => program # <<>>
    BY <1>3, StepKeepsRequest DEF requestVars
  <2>3. Lower(ir, IrRobot, CtxRobot)' = Lower(ir, IrRobot, CtxRobot)
    BY <1>1 DEF IrRobot, CtxRobot
  <2>4. (mode = "whole" => WholeLowered)'
    BY <1>1, <2>2, <2>3 DEF Requested, WholeLowered, OfProgram
  <2>. QED
    BY <1>1, <1>2, <2>1, <2>2, <2>4 DEF Requested
<1>4. CASE ~Step
  <2>1. mode = "none" /\ (Submitting \/ Replanning \/ Release)
    BY <1>4 DEF Planning, Next
  <2>2. PlannerInv'
    BY <2>1, PlannerNext DEF Next
  <2>3. phase' = "idle" => program' = <<>>
    BY <2>1 DEF Submitting, Submit, SubmitSegments, SubmitOperations, Replanning, Replan,
       Fail, Release
  <2>. QED
    BY <1>1, <1>2, <2>1, <2>2, <2>3 DEF Requested
<1>. QED
  BY <1>3, <1>4

LEMMA SkillNextInv ==
  ASSUME PlannerInv, Requested, [SkillNext]_allVars
  PROVE  PlannerInv' /\ Requested'
<1>1. CASE Requests
  BY <1>1, RequestsInv
<1>2. CASE PrepareSkill
  BY <1>2, PrepareInv
<1>3. CASE Planning
  BY <1>3, PlanningInv
<1>4. ASSUME NEW missed \in SUBSET DOMAIN ir, CarryOut(missed)
      PROVE  PlannerInv' /\ Requested'
  <2>1. /\ mode = "whole" /\ ir' = ir /\ robots' = robots /\ mode' = mode /\ next' = next
        /\ UNCHANGED vars
    BY <1>4 DEF CarryOut
  <2>2. PlannerInv'
    BY <2>1, UnchangedPlanner
  <2>3. Lower(ir, IrRobot, CtxRobot)' = Lower(ir, IrRobot, CtxRobot)
    BY <2>1 DEF IrRobot, CtxRobot
  <2>4. IsSemantic(ir)'
    BY <2>1 DEF Requested
  <2>. QED
    BY <2>1, <2>2, <2>3, <2>4 DEF Requested, WholeLowered, vars, requestVars
<1>5. ASSUME NEW missed \in BOOLEAN, CarryOutSkill(missed)
      PROVE  PlannerInv' /\ Requested'
  <2>1. /\ mode = "step" /\ ir' = ir /\ mode' = mode /\ next' = next /\ UNCHANGED vars
        /\ world' = IF phase = "failed" THEN world
                    ELSE Effect(world, ir[next], program, joints, missed)
    BY <1>5 DEF CarryOutSkill
  <2>2. PlannerInv'
    BY <2>1, UnchangedPlanner
  <2>3. world'.joints \in Joints
    <3>1. joints \in Joints /\ world.joints \in Joints
      BY <2>1 DEF PlannerInv, IInv, PipelineTypeOK, Requested
    <3>2. Effect(world, ir[next], program, joints, missed).joints = joints
      BY DEF Effect
    <3>. QED
      BY <2>1, <3>1, <3>2
  <2>4. IsSemantic(ir)'
    BY <2>1 DEF Requested
  <2>. QED
    BY <2>1, <2>2, <2>3, <2>4 DEF Requested, vars, requestVars
<1>6. CASE Judge
  <2>1. /\ mode = "whole" /\ ir' = ir /\ robots' = robots /\ mode' = mode /\ next' = next
        /\ UNCHANGED vars
    BY <1>6 DEF Judge
  <2>2. PlannerInv'
    BY <2>1, UnchangedPlanner
  <2>3. Lower(ir, IrRobot, CtxRobot)' = Lower(ir, IrRobot, CtxRobot)
    BY <2>1 DEF IrRobot, CtxRobot
  <2>4. IsSemantic(ir)'
    BY <2>1 DEF Requested
  <2>. QED
    BY <2>1, <2>2, <2>3, <2>4 DEF Requested, WholeLowered, vars, requestVars
<1>7. CASE JudgeSkill \/ ReportFailure
  <2>1. /\ mode = "step" /\ ir' = ir /\ mode' = mode /\ next' = next + 1 /\ world' = world
        /\ Release
    BY <1>7 DEF JudgeSkill, ReportFailure, RecordSkill
  <2>2. PlannerInv'
    BY <2>1, PlannerNext DEF Next
  <2>3. program' = <<>>
    BY <2>1 DEF Release
  <2>4. IsSemantic(ir)' /\ next' \in Nat \ {0}
    BY <2>1 DEF Requested
  <2>. QED
    BY <2>1, <2>2, <2>3, <2>4 DEF Requested
<1>8. CASE UNCHANGED allVars
  <2>1. /\ UNCHANGED vars /\ ir' = ir /\ robots' = robots /\ mode' = mode /\ next' = next
        /\ world' = world
    BY <1>8 DEF allVars, skillVars
  <2>2. PlannerInv'
    BY <2>1, UnchangedPlanner
  <2>3. Lower(ir, IrRobot, CtxRobot)' = Lower(ir, IrRobot, CtxRobot)
    BY <2>1 DEF IrRobot, CtxRobot
  <2>4. IsSemantic(ir)'
    BY <2>1 DEF Requested
  <2>. QED
    BY <2>1, <2>2, <2>3, <2>4 DEF Requested, WholeLowered, vars, requestVars
<1>. QED
  BY <1>1, <1>2, <1>3, <1>4, <1>5, <1>6, <1>7, <1>8 DEF SkillNext

\* In every state the plan is what the passes have made of what the host asked.
THEOREM SkillInvariant == SkillSpec => [](PlannerInv /\ Requested)
BY SkillInitInv, SkillNextInv, PTL DEF SkillSpec

-----------------------------------------------------------------------------
(* What is planned can be read back                                         *)

\* The plan and its events, instruction by instruction.
LEMMA Traces ==
  ASSUME PlannerInv, phase = "planned", OfProgram
  PROVE  /\ \A j \in DOMAIN planned :
              /\ j \in DOMAIN segmentOf /\ segmentOf[j] \in DOMAIN program
              /\ planned[j].source.origin = program[segmentOf[j]].origin
         /\ \A k \in DOMAIN temporal :
              /\ k \in DOMAIN eventOf /\ eventOf[k] \in DOMAIN program
              /\ temporal[k].origin = program[eventOf[k]].origin
              /\ temporal[k].kind = program[eventOf[k]].kind
         /\ \A p \in DOMAIN program :
              IF IsMotion(program[p]) THEN \E j \in DOMAIN planned : segmentOf[j] = p
              ELSE \E k \in DOMAIN temporal : eventOf[k] = p
         /\ Increasing(segmentOf) /\ Increasing(eventOf)
<1>1. /\ program \in Seq(Instruction) /\ planned \in Seq(PlannedSegment)
      /\ segments \in Seq(Segment \cup EditorSegments)
      /\ segmentOf \in Seq(Nat) /\ eventOf \in Seq(Nat) /\ events \in Seq(Event)
      /\ temporal \in Seq(TimedEvent) /\ eventIdx \in Nat /\ pc \in Nat
  BY DEF PlannerInv, IInv, PipelineTypeOK
<1>2. /\ Len(planned) = Len(segments) /\ Linked
      /\ Names(segmentOf, Len(segments)) /\ Names(eventOf, Len(events))
      /\ SegmentsMade /\ EventsMade /\ NothingLost /\ CarriedOut
      /\ Taken(eventOf, eventIdx) /\ Len(temporal) = eventIdx /\ pc > Len(program)
  BY DEF PlannerInv, IInv, Chain, Split, Placed, CarriedOut, OfProgram, Clocked, Told
<1>3. Upto = Len(program)
  BY DEF Upto
<1>4. DOMAIN planned = DOMAIN segmentOf /\ DOMAIN events = DOMAIN eventOf
  BY <1>1, <1>2 DEF Names
<1>5. DOMAIN temporal = DOMAIN eventOf
  <2>. DEFINE n == Len(eventOf)
  <2>1. eventIdx <= n /\ n \in Nat
    BY <1>1, <1>2 DEF Taken
  <2>2. n # 0 => n <= eventIdx
    <3>. SUFFICES ASSUME n # 0 PROVE n <= eventIdx
      OBVIOUS
    <3>1. n \in DOMAIN eventOf
      BY <1>1
    <3>2. eventOf[n] \in 1 .. Len(program)
      BY <1>2, <1>3, <3>1 DEF Names
    <3>3. eventOf[n] < pc
      BY <1>1, <1>2, <3>2
    <3>. QED
      BY <1>2, <3>1, <3>3 DEF Taken
  <2>3. n = eventIdx
    BY <1>1, <2>1, <2>2
  <2>. QED
    BY <1>1, <1>2, <2>3
<1>6. ASSUME NEW j \in DOMAIN planned
      PROVE  /\ j \in DOMAIN segmentOf /\ segmentOf[j] \in DOMAIN program
             /\ planned[j].source.origin = program[segmentOf[j]].origin
  <2>1. planned[j].source = segments[j] /\ Made(segments[j], program[segmentOf[j]])
    BY <1>2, <1>4 DEF Linked, SegmentsMade
  <2>2. segmentOf[j] \in 1 .. Len(program)
    BY <1>2, <1>3, <1>4 DEF Names
  <2>. QED
    BY <1>1, <1>4, <2>1, <2>2 DEF Made
<1>7. ASSUME NEW k \in DOMAIN temporal
      PROVE  /\ k \in DOMAIN eventOf /\ eventOf[k] \in DOMAIN program
             /\ temporal[k].origin = program[eventOf[k]].origin
             /\ temporal[k].kind = program[eventOf[k]].kind
  <2>1. temporal[k].kind = events[k].kind /\ temporal[k].origin = events[k].origin
    BY <1>2 DEF PlannerInv, Told
  <2>2. events[k] = LogicalEvent(eventOf[k])
    BY <1>2, <1>5 DEF EventsMade
  <2>3. events[k].kind = program[eventOf[k]].kind /\ events[k].origin = program[eventOf[k]].origin
    BY <2>2 DEF LogicalEvent
  <2>4. eventOf[k] \in 1 .. Len(program)
    BY <1>2, <1>3, <1>5 DEF Names
  <2>. QED
    BY <1>1, <1>5, <2>1, <2>3, <2>4
<1>8. ASSUME NEW p \in DOMAIN program
      PROVE  IF IsMotion(program[p]) THEN \E j \in DOMAIN planned : segmentOf[j] = p
             ELSE \E k \in DOMAIN temporal : eventOf[k] = p
  <2>1. p \in 1 .. Upto
    BY <1>1, <1>3
  <2>. QED
    BY <1>2, <1>4, <1>5, <2>1 DEF NothingLost
<1>. QED
  BY <1>2, <1>6, <1>7, <1>8 DEF Names

Parts == PartsOf(ir, IrRobot, CtxRobot)

\* A program that has been planned is cut into the parts of its operations.
LEMMA PlannedCut ==
  ASSUME PlannerInv, Requested, Planned
  PROVE  /\ OfProgram /\ CarriedOut /\ program \in Seq(Instruction) /\ Cut(program, Parts)
         /\ DOMAIN Parts = DOMAIN ir /\ DOMAIN ir = 1 .. Len(ir) /\ Len(ir) \in Nat
         /\ \A i \in DOMAIN ir :
              /\ Part(Parts[i], i) /\ (Parts[i] = <<>> <=> Silent(ir[i]))
              /\ IsHandling(ir[i]) => Handles(Parts[i], HandlingPlace(ir[i]))
         /\ \A p \in DOMAIN program :
              IsMotion(program[p]) => program[p].speed \in {JointSpeed, CartesianProfile}
<1>1. /\ IsSemantic(ir) /\ entry = "program" /\ phase = "planned"
      /\ program = Lower(ir, IrRobot, CtxRobot)
  BY DEF Requested, WholeLowered, Planned
<1>2. program \in Seq(Instruction) /\ program # LoweringError
  BY RegistryAssumption DEF PlannerInv, IInv, PipelineTypeOK
<1>3. /\ Cut(program, Parts) /\ \A i \in DOMAIN ir : Parts[i] # LoweringError
      /\ \A p \in DOMAIN program :
           IsMotion(program[p]) => program[p].speed \in {JointSpeed, CartesianProfile}
  BY <1>1, <1>2, LowerCut DEF Parts
<1>4. ASSUME NEW i \in DOMAIN ir
      PROVE  /\ Part(Parts[i], i) /\ (Parts[i] = <<>> <=> Silent(ir[i]))
             /\ IsHandling(ir[i]) => Handles(Parts[i], HandlingPlace(ir[i]))
  <2>1. Parts[i] = LowerOperation(ir[i], IrRobot, CtxRobot) /\ Parts[i] # LoweringError
    BY <1>3 DEF Parts, PartsOf
  <2>2. IsOperation(ir[i]) /\ ir[i].origin = i
    BY <1>1, SemanticOperations
  <2>3. /\ Part(Parts[i], i)
        /\ Parts[i] = <<>> <=> QuietFor(ir[i], IrRobot, CtxRobot)
        /\ HandlingFor(ir[i], IrRobot, CtxRobot) => Handles(Parts[i], HandlingPlace(ir[i]))
    BY <2>1, <2>2, OperationPart
  <2>4. /\ Silent(ir[i]) <=> QuietFor(ir[i], IrRobot, CtxRobot)
        /\ IsHandling(ir[i]) <=> HandlingFor(ir[i], IrRobot, CtxRobot)
    BY DEF Silent, IsHandling, CarriedSkill, QuietFor, HandlingFor, SkillFor
  <2>. QED
    BY <2>3, <2>4
<1>5. DOMAIN Parts = DOMAIN ir /\ DOMAIN ir = 1 .. Len(ir) /\ Len(ir) \in Nat
  BY <1>1, SemanticOperations DEF Parts, PartsOf
<1>6. OfProgram /\ CarriedOut
  BY <1>1 DEF OfProgram, CarriedOut
<1>. QED
  BY <1>2, <1>3, <1>4, <1>5, <1>6

LEMMA OriginsAreKept ==
  ASSUME PlannerInv, Requested
  PROVE  OriginsKept
<1>. SUFFICES ASSUME Planned
              PROVE  /\ {planned[j].source.origin : j \in DOMAIN planned} \cup
                        {temporal[k].origin : k \in DOMAIN temporal}
                          = {i \in DOMAIN ir : ~Silent(ir[i])}
                     /\ \A i, j \in DOMAIN planned :
                          i < j => planned[i].source.origin <= planned[j].source.origin
                     /\ \A i, j \in DOMAIN temporal :
                          i < j => temporal[i].origin <= temporal[j].origin
  BY DEF OriginsKept
<1>1. /\ Cut(program, Parts) /\ DOMAIN Parts = DOMAIN ir /\ OfProgram /\ phase = "planned"
      /\ \A i \in DOMAIN ir : Part(Parts[i], i) /\ (Parts[i] = <<>> <=> Silent(ir[i]))
      /\ DOMAIN program \subseteq Nat
  BY PlannedCut DEF Planned
<1>2. /\ \A j \in DOMAIN planned :
              /\ j \in DOMAIN segmentOf /\ segmentOf[j] \in DOMAIN program
              /\ planned[j].source.origin = program[segmentOf[j]].origin
      /\ \A k \in DOMAIN temporal :
              /\ k \in DOMAIN eventOf /\ eventOf[k] \in DOMAIN program
              /\ temporal[k].origin = program[eventOf[k]].origin
      /\ \A p \in DOMAIN program :
              IF IsMotion(program[p]) THEN \E j \in DOMAIN planned : segmentOf[j] = p
              ELSE \E k \in DOMAIN temporal : eventOf[k] = p
      /\ Increasing(segmentOf) /\ Increasing(eventOf)
  BY <1>1, Traces
<1>3. \A p \in DOMAIN program :
        program[p].origin \in DOMAIN ir /\ ~Silent(ir[program[p].origin])
  BY <1>1 DEF Cut
<1>4. ASSUME NEW i \in DOMAIN ir, ~Silent(ir[i])
      PROVE  \E p \in DOMAIN program : program[p].origin = i
  <2>1. Parts[i] \in Seq(Instruction) /\ Parts[i] # <<>> /\ Part(Parts[i], i)
    BY <1>1, <1>4 DEF Part
  <2>2. 1 \in DOMAIN Parts[i]
    BY <2>1, EmptySeq
  <2>3. PICK before \in Nat : Block(program, Parts[i], i, before)
    BY <1>1 DEF Cut
  <2>4. PICK p \in Nat : p = before + 1
    OBVIOUS
  <2>5. p \in DOMAIN program /\ program[p] = Parts[i][1]
    BY <2>2, <2>3, <2>4 DEF Block
  <2>. QED
    BY <2>1, <2>2, <2>5 DEF Part
<1>5. {planned[j].source.origin : j \in DOMAIN planned} \cup
      {temporal[k].origin : k \in DOMAIN temporal} \subseteq {i \in DOMAIN ir : ~Silent(ir[i])}
  BY <1>2, <1>3
<1>6. {i \in DOMAIN ir : ~Silent(ir[i])} \subseteq
      {planned[j].source.origin : j \in DOMAIN planned} \cup
      {temporal[k].origin : k \in DOMAIN temporal}
  <2>. SUFFICES ASSUME NEW i \in DOMAIN ir, ~Silent(ir[i])
                PROVE  i \in {planned[j].source.origin : j \in DOMAIN planned} \cup
                             {temporal[k].origin : k \in DOMAIN temporal}
    OBVIOUS
  <2>1. PICK p \in DOMAIN program : program[p].origin = i
    BY <1>4
  <2>2. CASE IsMotion(program[p])
    <3>1. PICK j \in DOMAIN planned : segmentOf[j] = p
      BY <1>2, <2>2
    <3>. QED
      BY <1>2, <2>1, <3>1
  <2>3. CASE ~IsMotion(program[p])
    <3>1. PICK k \in DOMAIN temporal : eventOf[k] = p
      BY <1>2, <2>3
    <3>. QED
      BY <1>2, <2>1, <3>1
  <2>. QED
    BY <2>2, <2>3
<1>7. \A p, q \in DOMAIN program : p <= q => program[p].origin <= program[q].origin
  BY <1>1 DEF Cut
<1>8. ASSUME NEW i \in DOMAIN planned, NEW j \in DOMAIN planned, i < j
      PROVE  planned[i].source.origin <= planned[j].source.origin
  <2>1. segmentOf[i] <= segmentOf[j]
    <3>1. segmentOf[i] < segmentOf[j] /\ segmentOf[i] \in Nat /\ segmentOf[j] \in Nat
      BY <1>1, <1>2, <1>8 DEF Increasing
    <3>. QED
      BY <3>1
  <2>. QED
    BY <1>2, <1>7, <2>1
<1>9. ASSUME NEW i \in DOMAIN temporal, NEW j \in DOMAIN temporal, i < j
      PROVE  temporal[i].origin <= temporal[j].origin
  <2>1. eventOf[i] <= eventOf[j]
    <3>1. eventOf[i] < eventOf[j] /\ eventOf[i] \in Nat /\ eventOf[j] \in Nat
      BY <1>1, <1>2, <1>9 DEF Increasing
    <3>. QED
      BY <3>1
  <2>. QED
    BY <1>2, <1>7, <2>1
<1>. QED
  BY <1>5, <1>6, <1>8, <1>9

\* Whatever the host asks for and whatever the skills are, every operation of a
\* semantic program but the silent ones can be told in its plan by its origin, in
\* the order of the program (lower, MotionResolver, TimelineScheduler).
THEOREM OriginsSurvive == SkillSpec => []OriginsKept
BY SkillInvariant, OriginsAreKept, PTL

-----------------------------------------------------------------------------
(* The gripper                                                              *)

\* An operation that handles an object has one output in the plan, right after the
\* motion to the object's place.
LEMMA HandlingOutput ==
  ASSUME PlannerInv, Requested, Planned, NEW i \in DOMAIN ir, IsHandling(ir[i])
  PROVE  \E h \in DOMAIN temporal, m \in DOMAIN program :
           /\ OutputsOf(i) = {h} /\ eventOf[h] = m + 1
           /\ program[m].kind = "MoveL" /\ program[m].target.place = HandlingPlace(ir[i])
<1>1. /\ OfProgram /\ phase = "planned" /\ program \in Seq(Instruction)
      /\ Cut(program, Parts) /\ DOMAIN Parts = DOMAIN ir
      /\ Part(Parts[i], i) /\ Handles(Parts[i], HandlingPlace(ir[i]))
  BY PlannedCut DEF Planned
<1>2. /\ \A k \in DOMAIN temporal :
              /\ k \in DOMAIN eventOf /\ eventOf[k] \in DOMAIN program
              /\ temporal[k].origin = program[eventOf[k]].origin
              /\ temporal[k].kind = program[eventOf[k]].kind
      /\ \A p \in DOMAIN program :
              IF IsMotion(program[p]) THEN \E j \in DOMAIN planned : segmentOf[j] = p
              ELSE \E k \in DOMAIN temporal : eventOf[k] = p
      /\ Increasing(eventOf)
  BY <1>1, Traces
<1>. DEFINE part == Parts[i]
<1>3. /\ DOMAIN part = 1 .. 4 /\ \A k \in 1 .. 4 : part[k].origin = i
      /\ part[1].kind = "MoveJ" /\ part[2].kind = "MoveL" /\ part[3].kind = "SetOutput"
      /\ part[4].kind = "MoveL" /\ part[2].target.place = HandlingPlace(ir[i])
  <2>1. part \in Seq(Instruction) /\ Len(part) = 4
    BY <1>1 DEF Part, Handles
  <2>2. DOMAIN part = 1 .. 4
    BY <2>1
  <2>. HIDE DEF part
  <2>. QED
    BY <1>1, <2>2 DEF Part, Handles, part
<1>4. PICK before \in Nat : Block(program, part, i, before)
  BY <1>1 DEF Cut
<1>. HIDE DEF part
<1>5. PICK m \in Nat : m = before + 2
  OBVIOUS
<1>6. PICK p \in Nat : p = before + 3
  OBVIOUS
<1>7. m \in DOMAIN program /\ program[m] = part[2]
  BY <1>3, <1>4, <1>5 DEF Block
<1>8. p \in DOMAIN program /\ program[p] = part[3]
  BY <1>3, <1>4, <1>6 DEF Block
<1>9. p = m + 1
  BY <1>5, <1>6
<1>10. ASSUME NEW q \in DOMAIN program, program[q].origin = i, program[q].kind = "SetOutput"
       PROVE  q = p
  <2>1. PICK k \in DOMAIN part : q = before + k
    BY <1>4, <1>10 DEF Block
  <2>2. q \in Nat
    BY <1>1
  <2>3. program[q] = part[k]
    BY <1>4, <2>1, <2>2 DEF Block
  <2>4. k \in 1 .. 4 /\ k # 1 /\ k # 2 /\ k # 4
    BY <1>3, <1>10, <2>1, <2>3
  <2>5. k = 3
    BY <2>4
  <2>. QED
    BY <1>6, <2>1, <2>5
<1>11. ~IsMotion(program[p])
  BY <1>3, <1>8 DEF IsMotion, Motions
<1>12. PICK h \in DOMAIN temporal : eventOf[h] = p
  BY <1>2, <1>8, <1>11
<1>13. OutputsOf(i) = {h}
  <2>1. h \in OutputsOf(i)
    BY <1>2, <1>3, <1>8, <1>12 DEF OutputsOf
  <2>2. ASSUME NEW k \in OutputsOf(i) PROVE k = h
    <3>1. k \in DOMAIN temporal /\ temporal[k].origin = i /\ temporal[k].kind = "SetOutput"
      BY DEF OutputsOf
    <3>2. eventOf[k] = p
      BY <1>2, <1>10, <3>1
    <3>3. /\ k \in DOMAIN eventOf /\ h \in DOMAIN eventOf /\ ~(p < p)
      BY <1>2, <1>6, <1>12, <3>1
    <3>4. ~(k < h) /\ ~(h < k)
      BY <1>2, <1>12, <3>2, <3>3 DEF Increasing
    <3>5. k \in Nat /\ h \in Nat
      <4>1. eventOf \in Seq(Nat)
        BY DEF PlannerInv, IInv, PipelineTypeOK
      <4>. QED
        BY <3>3, <4>1
    <3>. QED
      BY <3>4, <3>5
  <2>. QED
    BY <2>1, <2>2
<1>. QED
  BY <1>3, <1>7, <1>9, <1>12, <1>13

LEMMA PlannedAtSpeed ==
  ASSUME PlannerInv, Requested, Planned, ProfilesMove
  PROVE  MotionsAtSpeed
<1>1. \A p \in DOMAIN program :
        IsMotion(program[p]) => program[p].speed \in {JointSpeed, CartesianProfile}
  BY PlannedCut
<1>. HIDE DEF CartesianProfile
<1>. QED
  BY <1>1 DEF ProfilesMove, MotionsAtSpeed

LEMMA GripsThere ==
  ASSUME PlannerInv, Requested, ProfilesMove
  PROVE  GripsWhereItShould
<1>. SUFFICES ASSUME Planned, NEW i \in DOMAIN ir, IsHandling(ir[i])
              PROVE  /\ Cardinality(OutputsOf(i)) = 1
                     /\ \A k \in OutputsOf(i) :
                          LET now == ExpectedAt(temporal[k].at - Delays(temporal)[k - 1])
                          IN  /\ now # 0
                              /\ Place[waypoints[now].joints] = HandlingPlace(ir[i])
  BY DEF GripsWhereItShould
<1>1. PICK h \in DOMAIN temporal, m \in DOMAIN program :
        /\ OutputsOf(i) = {h} /\ eventOf[h] = m + 1
        /\ program[m].kind = "MoveL" /\ program[m].target.place = HandlingPlace(ir[i])
  BY HandlingOutput
<1>2. Cardinality(OutputsOf(i)) = 1
  BY <1>1, FS_Singleton
<1>3. OfProgram /\ CarriedOut /\ program \in Seq(Instruction) /\ phase = "planned"
  BY PlannedCut DEF Planned
<1>4. MotionsAtSpeed
  BY PlannedAtSpeed
<1>5. IsMotion(program[m])
  BY <1>1 DEF IsMotion, Motions
<1>6. waypoints # <<>>
  <2>1. PICK j \in DOMAIN planned : segmentOf[j] = m
    BY <1>3, <1>5, Traces
  <2>2. planned # <<>>
    BY <2>1
  <2>. QED
    BY <1>3, <1>4, <2>2 DEF PlannerInv, Settled
<1>. DEFINE before == MotionBefore(eventOf[h])
<1>7. m \in Nat /\ m \in before /\ \A j \in before : j <= m
  <2>1. m \in Nat \ {0}
    BY <1>1, <1>3
  <2>a. eventOf[h] = m + 1
    BY <1>1
  <2>b. before = MotionBefore(m + 1)
    BY <2>a
  <2>c. MotionBefore(m + 1) = {j \in 1 .. (m + 1) - 1 : IsMotion(program[j])}
    BY Zenon DEF MotionBefore
  <2>3. 1 .. (m + 1) - 1 = 1 .. m
    BY <2>1
  <2>2. before = {j \in 1 .. m : IsMotion(program[j])}
    <3>. HIDE DEF before
    <3>. QED
      BY <2>b, <2>c, <2>3
  <2>. HIDE DEF before
  <2>. QED
    BY <1>5, <2>1, <2>2
<1>8. (CHOOSE j \in before : \A l \in before : l <= j) = m
  <2>1. before \subseteq Nat
    BY <1>1, <1>7 DEF MotionBefore
  <2>. HIDE DEF before
  <2>2. \A j \in before : (\A l \in before : l <= j) => j = m
    BY <1>7, <2>1
  <2>. QED
    BY <1>7, <2>2
<1>9. EventsMeetTheArm
  BY EventsMeet DEF PlannerInv
<1>10. LET now == ExpectedAt(temporal[h].at - Delays(temporal)[h - 1])
       IN  now # 0 /\ Place[waypoints[now].joints] = HandlingPlace(ir[i])
  BY <1>1, <1>3, <1>4, <1>6, <1>7, <1>8, <1>9 DEF EventsMeetTheArm
<1>. QED
  BY <1>1, <1>2, <1>10

\* For every provider, registry, solver and planner of segments: wherever the
\* profiles move the arm, a pick or a place - an operation or a skill - acts once,
\* with the arm at the grasp or drop of its object (lower, LowerNative, the passes).
THEOREM GripperMeetsItsObject ==
  ASSUME ProfilesMove
  PROVE  SkillSpec => []GripsWhereItShould
<1>1. PlannerInv /\ Requested => GripsWhereItShould
  BY GripsThere
<1>. QED
  BY <1>1, SkillInvariant, PTL

\* No reference is unresolved, so nothing is refused.
LEMMA ResolvedOperations ==
  ASSUME NEW code, IsSemantic(code), \A i \in DOMAIN code : code[i].kind # "Skill",
         UnresolvableReference(code) = {}, NEW irRobot, NEW ctxRobot
  PROVE  \A i \in DOMAIN code : LowerOperation(code[i], irRobot, ctxRobot) # LoweringError
<1>. SUFFICES ASSUME NEW i \in DOMAIN code
              PROVE  LowerOperation(code[i], irRobot, ctxRobot) # LoweringError
  OBVIOUS
<1>. DEFINE op == code[i]
            part == LowerOperation(op, irRobot, ctxRobot)
<1>1. IsOperation(op)
  BY SemanticOperations
<1>2. /\ op.kind \in {"Pick", "Place", "MoveTo", "Wait", "Home"} /\ op.origin \in Origins
      /\ op.kind = "Wait" => op.amount \in Nat
  BY <1>1 DEF IsOperation, HasAmount
<1>3. /\ op.kind = "Pick" => Asked(Grasps, op.object) # Unresolved
      /\ op.kind = "Place" => Asked(Placements, <<op.object, op.destination>>) # Unresolved
      /\ op.kind = "MoveTo" => Asked(LocationPose, op.destination) # Unresolved
      /\ op.kind = "Home" => HomePose # Unresolved
  BY DEF UnresolvableReference
<1>. HIDE DEF op
<1>4. CASE op.kind = "Pick"
  <2>1. part = EmitPick(op.origin, op.object)
    BY <1>4 DEF LowerOperation
  <2>2. Part(part, op.origin)
    BY <1>2, <1>3, <1>4, <2>1, PickPart
  <2>. QED
    BY <2>2, PartIsNoError DEF op
<1>5. CASE op.kind = "Place"
  <2>1. part = EmitPlace(op.origin, op.object, op.destination)
    BY <1>5 DEF LowerOperation
  <2>2. Part(part, op.origin)
    BY <1>2, <1>3, <1>5, <2>1, PlacePart
  <2>. QED
    BY <2>2, PartIsNoError DEF op
<1>6. CASE op.kind = "MoveTo"
  <2>. DEFINE pose == Asked(LocationPose, op.destination)
  <2>1. part = EmitMove(op.origin, pose)
    BY <1>6 DEF LowerOperation
  <2>2. pose \in Targets \cup {Unresolved}
    BY KnowledgeAssumption DEF Asked
  <2>. HIDE DEF pose
  <2>3. Part(part, op.origin)
    BY <1>2, <1>3, <1>6, <2>1, <2>2, MovePart DEF pose
  <2>. QED
    BY <2>3, PartIsNoError DEF op
<1>7. CASE op.kind = "Wait"
  <2>1. part = <<Delay(op.origin, op.amount)>>
    BY <1>7 DEF LowerOperation
  <2>2. Part(part, op.origin)
    BY <1>2, <1>7, <2>1, DelayPart
  <2>. QED
    BY <2>2, PartIsNoError DEF op
<1>8. CASE op.kind = "Home"
  <2>1. part = EmitHome(op.origin)
    BY <1>8 DEF LowerOperation
  <2>2. Part(part, op.origin)
    BY <1>2, <1>3, <1>8, <2>1, HomePart
  <2>. QED
    BY <2>2, PartIsNoError DEF op
<1>. QED
  BY <1>2, <1>4, <1>5, <1>6, <1>7, <1>8

LEMMA ValidIsSafe ==
  ASSUME PlannerInv, Requested
  PROVE  ValidatedMeansSafe
<1>. SUFFICES ASSUME mode = "whole", Planned \/ Refused, NoSkills, Validate(ir) = {}
              PROVE  /\ ~Refused
                     /\ \A i \in DOMAIN ir : ir[i].kind = "Place" =>
                          \E j \in DOMAIN ir :
                            /\ ir[j].kind = "Pick" /\ ir[j].object = ir[i].object
                            /\ \E h \in OutputsOf(j), k \in OutputsOf(i) : h < k
  BY DEF ValidatedMeansSafe
<1>1. PlaceWithoutPick(ir) = {} /\ UnresolvableReference(ir) = {}
  BY DEF Validate
<1>2. IsSemantic(ir) /\ WholeLowered
  BY DEF Requested
<1>3. Lower(ir, IrRobot, CtxRobot) # LoweringError
  <2>1. \A i \in DOMAIN ir : LowerOperation(ir[i], IrRobot, CtxRobot) # LoweringError
    BY <1>1, <1>2, ResolvedOperations DEF NoSkills
  <2>2. \A i \in DOMAIN ir : PartsOf(ir, IrRobot, CtxRobot)[i] # LoweringError
    BY <2>1 DEF PartsOf
  <2>. QED
    BY <1>2, <2>2, LowerCut, RegistryAssumption
<1>4. ~Refused
  BY <1>2, <1>3 DEF WholeLowered, Refused
<1>5. Planned
  BY <1>4
<1>6. ASSUME NEW i \in DOMAIN ir, ir[i].kind = "Place"
      PROVE  \E j \in DOMAIN ir :
               /\ ir[j].kind = "Pick" /\ ir[j].object = ir[i].object
               /\ \E h \in OutputsOf(j), k \in OutputsOf(i) : h < k
  <2>1. PICK j \in 1 .. i - 1 : ir[j].kind = "Pick" /\ ir[j].object = ir[i].object
    BY <1>1, <1>6 DEF PlaceWithoutPick
  <2>2. DOMAIN ir = 1 .. Len(ir) /\ Len(ir) \in Nat
    BY <1>2, SemanticOperations
  <2>3. j \in DOMAIN ir /\ j < i /\ i \in Nat /\ j \in Nat
    BY <2>2
  <2>4. IsHandling(ir[i]) /\ IsHandling(ir[j])
    BY <1>6, <2>1 DEF IsHandling
  <2>5. PICK k \in DOMAIN temporal : OutputsOf(i) = {k}
    BY <1>5, <2>4, HandlingOutput
  <2>6. PICK h \in DOMAIN temporal : OutputsOf(j) = {h}
    BY <1>5, <2>3, <2>4, HandlingOutput
  <2>7. temporal[h].origin = j /\ temporal[k].origin = i
    BY <2>5, <2>6 DEF OutputsOf
  <2>8. \A a, b \in DOMAIN temporal : a < b => temporal[a].origin <= temporal[b].origin
    BY <1>5, OriginsAreKept DEF OriginsKept
  <2>9. h \in Nat /\ k \in Nat
    <3>1. temporal \in Seq(TimedEvent)
      BY DEF PlannerInv, IInv, PipelineTypeOK
    <3>. QED
      BY <3>1
  <2>10. h # k /\ ~(k < h)
    BY <2>3, <2>7, <2>8
  <2>11. h < k
    BY <2>9, <2>10
  <2>. QED
    BY <2>1, <2>3, <2>5, <2>6, <2>11
<1>. QED
  BY <1>4, <1>6

\* For every provider and program: what validation passes lowering does not refuse,
\* and in its plan every place lets go after a pick of its object has gripped
\* (validation/structural.rs, lower).
THEOREM ValidatedProgramsAreSafe == SkillSpec => []ValidatedMeansSafe
BY SkillInvariant, ValidIsSafe, PTL
-----------------------------------------------------------------------------
(* Contracts                                                                *)

\* A list of so many entries.
IsRow(list, n) == list = [k \in 1 .. n |-> list[k]]
Grown(longer, list, item) == longer = Append(list, item)

LEMMA Appended ==
  ASSUME NEW n \in Nat, NEW list, IsRow(list, n), NEW item, NEW longer,
         Grown(longer, list, item)
  PROVE  /\ IsRow(longer, n + 1) /\ longer[n + 1] = item
         /\ \A k \in 1 .. n : longer[k] = list[k]
<1>. DEFINE S == {list[k] : k \in 1 .. n} \cup {item}
<1>1. list \in [1 .. n -> S]
  BY DEF IsRow
<1>2. item \in S
  OBVIOUS
<1>. HIDE DEF S
<1>3. list \in Seq(S) /\ Len(list) = n
  BY <1>1
<1>4. /\ DOMAIN longer = 1 .. n + 1 /\ longer[n + 1] = item
      /\ \A k \in 1 .. n : longer[k] = list[k]
  BY <1>2, <1>3 DEF Grown
<1>5. IsRow(longer, n + 1)
  BY <1>2, <1>3, <1>4 DEF IsRow, Grown
<1>. QED
  BY <1>4, <1>5

\* A verdict of the engine is true of the worlds it was given.
LEMMA VerdictIsTrue ==
  ASSUME NEW op, NEW pre, NEW post, Contract(op) # NoSkill,
         NEW r, r = ExecuteSkillOp(op, pre, post)
  PROVE  /\ r.pre = Evaluate(Contract(op).pre, pre)
         /\ r.post # "none" => r.post = Evaluate(Contract(op).post, post)
<1>1. CASE Ready(op, pre)
  <2>1. r = Record(op, "success", "success", Evaluate(Contract(op).post, post))
    BY <1>1 DEF ExecuteSkillOp, EvaluatePostconditions
  <2>2. r.pre = "success" /\ r.post = Evaluate(Contract(op).post, post)
    BY <2>1 DEF Record
  <2>3. Evaluate(Contract(op).pre, pre) = "success"
    BY <1>1 DEF Ready
  <2>. QED
    BY <2>2, <2>3
<1>2. CASE ~Ready(op, pre)
  <2>. DEFINE verdict == Evaluate(Contract(op).pre, pre)
  <2>1. r = Record(op, verdict, IF verdict = "success" THEN "failure" ELSE "none", "none")
    BY <1>2 DEF ExecuteSkillOp, EarlyRecord
  <2>. HIDE DEF verdict
  <2>2. r.pre = verdict /\ r.post = "none"
    BY <2>1 DEF Record
  <2>. QED
    BY <2>2 DEF verdict
<1>. QED
  BY <1>1, <1>2

LEMMA VerdictIsOfItsSkill ==
  ASSUME NEW op, NEW pre, NEW post
  PROVE  ExecuteSkillOp(op, pre, post).origin = op.origin
BY DEF ExecuteSkillOp, EarlyRecord, EvaluatePostconditions, Record

\* A program judged as a whole has one record of each of its skills, in order.
LEMMA OneRecordEach ==
  ASSUME IsSemantic(ir), NEW pre, NEW post, NEW all, all = ExecuteProgram(pre, post)
  PROVE  /\ \A k \in DOMAIN all :
              /\ all[k].origin \in DOMAIN ir /\ ir[all[k].origin].kind = "Skill"
              /\ all[k] = ExecuteSkillOp(ir[all[k].origin], pre, post)
         /\ \A i \in DOMAIN ir : ir[i].kind = "Skill" => \E k \in DOMAIN all : all[k].origin = i
         /\ \A k, l \in DOMAIN all : k < l => all[k].origin < all[l].origin
<1>. DEFINE verdict(i) == ExecuteSkillOp(ir[i], pre, post)
            parts == [i \in DOMAIN ir |-> IF ir[i].kind = "Skill" THEN <<verdict(i)>> ELSE <<>>]
            S == {verdict(i) : i \in DOMAIN ir}
<1>1. PICK n \in Nat : DOMAIN ir = 1 .. n
  BY SemanticOperations
<1>2. \A i \in 1 .. n : ir[i].origin = i
  BY <1>1, SemanticOperations
<1>3. /\ \A i \in 1 .. n : verdict(i) \in S /\ verdict(i).origin = i
      /\ all = FlattenSeq(parts)
      /\ DOMAIN parts = 1 .. n /\ parts = [i \in 1 .. n |-> parts[i]]
      /\ \A i \in 1 .. n : ir[i].kind = "Skill" => parts[i] = <<verdict(i)>>
      /\ \A i \in 1 .. n : ir[i].kind # "Skill" => parts[i] = <<>>
  BY <1>1, <1>2, VerdictIsOfItsSkill DEF ExecuteProgram
<1>. HIDE DEF verdict, parts, S
<1>4. ASSUME NEW i \in 1 .. n PROVE parts[i] \in Seq(S)
  <2>1. CASE ir[i].kind = "Skill"
    <3>1. verdict(i) \in S /\ parts[i] = <<verdict(i)>>
      BY <1>3, <2>1
    <3>. QED
      BY <3>1
  <2>2. CASE ir[i].kind # "Skill"
    BY <1>3, <2>2, EmptySeq
  <2>. QED
    BY <2>1, <2>2
<1>5. parts \in Seq(Seq(S))
  BY <1>3, <1>4
<1>6. \A i \in 1 .. n : \A k \in DOMAIN parts[i] :
        ir[i].kind = "Skill" /\ k = 1 /\ parts[i][k] = verdict(i)
  <2>. SUFFICES ASSUME NEW i \in 1 .. n, NEW k \in DOMAIN parts[i]
                PROVE  ir[i].kind = "Skill" /\ k = 1 /\ parts[i][k] = verdict(i)
    OBVIOUS
  <2>1. ir[i].kind = "Skill"
    BY <1>3
  <2>2. parts[i] = <<verdict(i)>>
    BY <1>3, <2>1
  <2>. QED
    BY <2>1, <2>2
<1>7. Owning(parts)
  BY <1>3, <1>6 DEF Owning
<1>8. all \in Seq(S) /\ Cut(all, parts)
  BY <1>3, <1>5, <1>7, FlattenCuts
<1>9. ASSUME NEW k \in DOMAIN all
      PROVE  /\ all[k].origin \in 1 .. n /\ ir[all[k].origin].kind = "Skill"
             /\ all[k] = verdict(all[k].origin)
             /\ \A before \in Nat : Block(all, parts[all[k].origin], all[k].origin, before)
                                      => k = before + 1
  <2>1. PICK i \in 1 .. n : i = all[k].origin
    BY <1>3, <1>8 DEF Cut
  <2>2. ASSUME NEW before \in Nat, Block(all, parts[i], i, before)
        PROVE  k = before + 1 /\ ir[i].kind = "Skill" /\ all[k] = verdict(i)
    <3>1. PICK m \in DOMAIN parts[i] : k = before + m
      BY <2>1, <2>2 DEF Block
    <3>2. m = 1 /\ ir[i].kind = "Skill" /\ parts[i][m] = verdict(i)
      BY <1>6
    <3>3. k \in Nat
      BY <1>8
    <3>4. all[k] = parts[i][m]
      BY <2>2, <3>1, <3>3 DEF Block
    <3>. QED
      BY <3>1, <3>2, <3>4
  <2>3. \E before \in Nat : Block(all, parts[i], i, before)
    BY <1>3, <1>8 DEF Cut
  <2>. QED
    BY <2>1, <2>2, <2>3
<1>10. ASSUME NEW i \in 1 .. n, ir[i].kind = "Skill"
       PROVE  \E k \in DOMAIN all : all[k].origin = i
  <2>1. PICK before \in Nat : Block(all, parts[i], i, before)
    BY <1>3, <1>8 DEF Cut
  <2>2. parts[i] = <<verdict(i)>>
    BY <1>3, <1>10
  <2>3. 1 \in DOMAIN parts[i] /\ parts[i][1] = verdict(i)
    BY <2>2
  <2>4. PICK p \in Nat : p = before + 1
    BY <2>1
  <2>5. p \in DOMAIN all /\ all[p] = verdict(i)
    BY <2>1, <2>3, <2>4 DEF Block
  <2>. QED
    BY <1>3, <2>5
<1>11. ASSUME NEW k \in DOMAIN all, NEW l \in DOMAIN all, k < l
       PROVE  all[k].origin < all[l].origin
  <2>1. PICK i \in 1 .. n : i = all[k].origin
    BY <1>9
  <2>2. PICK j \in 1 .. n : j = all[l].origin
    BY <1>9
  <2>3. k \in Nat /\ l \in Nat /\ k <= l
    BY <1>8, <1>11
  <2>4. i <= j
    BY <1>8, <2>1, <2>2, <2>3 DEF Cut
  <2>5. i # j
    <3>1. PICK before \in Nat : Block(all, parts[i], i, before)
      BY <1>3, <1>8 DEF Cut
    <3>2. k = before + 1
      BY <1>9, <2>1, <3>1
    <3>3. i = j => l = before + 1
      BY <1>9, <2>2, <3>1
    <3>. QED
      BY <1>11, <2>3, <3>2, <3>3
  <2>. QED
    BY <2>1, <2>2, <2>4, <2>5
<1>. QED
  BY <1>1, <1>9, <1>10, <1>11 DEF verdict
\* What is on record so far, and the life it is about.
\* Of a skill that was ready: the engine's verdict, or the host's word that its plan
\* failed.  Of one that was not: what prepare_skill_op says of it, and no plan.
Tells(record, op, life) ==
  IF Ready(op, life.before)
  THEN \/ /\ life.plan \in {"carried", "failed"}
          /\ record = EvaluatePostconditions(op, life.after)
       \/ /\ life.plan = "failed"
          /\ record = Record(op, "success", "failure", "none")
  ELSE /\ life.plan = "none" /\ life.after = life.before
       /\ record = EarlyRecord(op, life.before)

OnRecord(k) == Tells(records[k], ir[k], lived[k])

WholeChronicle ==
  /\ stage \in {"running", "ran", "judged"}
  /\ stage = "running" =>
       observed = world /\ world = [grip |-> world.grip, held |-> world.held, joints |-> world.joints]
  /\ stage # "judged" => records = <<>>
  /\ stage # "running" =>
       /\ 1 \in DOMAIN ir => lived[1].before = observed
       /\ Len(ir) \in DOMAIN ir => lived[Len(ir)].after = world
  /\ stage = "judged" => records = ExecuteProgram(observed, world)

StepChronicle ==
  /\ stage \in {"none", "running", "ran"}
  /\ \A i \in DOMAIN ir : ir[i].kind = "Skill"
  /\ next <= Len(ir) + 1
  /\ stage # "none" => next <= Len(ir) /\ Ready(ir[next], observed)
  /\ stage = "running" => observed = world
  /\ IsRow(lived, IF stage = "ran" THEN next ELSE next - 1) /\ IsRow(records, next - 1)
  /\ stage = "ran" =>
       /\ lived[next].before = observed /\ lived[next].after = world
       /\ lived[next].plan \in {"carried", "failed"}
  /\ \A k \in 1 .. next - 1 : OnRecord(k)

Chronicle ==
  /\ mode \in {"none", "whole", "step"}
  /\ mode = "none" =>
       /\ stage = "none" /\ lived = <<>> /\ records = <<>>
       /\ world = [grip |-> world.grip, held |-> world.held, joints |-> world.joints]
  /\ mode = "whole" => WholeChronicle
  /\ mode = "step" => StepChronicle

\* For the same robots skills are judged alike.
LEMMA SameContracts ==
  ASSUME robots' = robots
  PROVE  \A op, state :
           /\ Ready(op, state)' <=> Ready(op, state)
           /\ EvaluatePostconditions(op, state)' = EvaluatePostconditions(op, state)
           /\ EarlyRecord(op, state)' = EarlyRecord(op, state)
BY DEF Ready, EvaluatePostconditions, EarlyRecord, Contract, LoweredAlone, IrRobot, CtxRobot

\* What is on record of the same skill, life and robots stays true.
LEMMA StaysOnRecord ==
  ASSUME NEW k, ir' = ir, robots' = robots, records'[k] = records[k], lived'[k] = lived[k],
         OnRecord(k)
  PROVE  OnRecord(k)'
BY SameContracts DEF OnRecord, Tells

LEMMA ChronicleInit == SkillInit => Chronicle
<1>. SUFFICES ASSUME SkillInit PROVE Chronicle
  OBVIOUS
<1>1. /\ mode = "none" /\ stage = "none" /\ lived = <<>> /\ records = <<>>
      /\ world = [grip |-> "open", held |-> NoObject, joints |-> start]
  BY DEF SkillInit
<1>2. world = [grip |-> world.grip, held |-> world.held, joints |-> world.joints]
  BY <1>1
<1>. QED
  BY <1>1, <1>2 DEF Chronicle

LEMMA RunWholeChronicle ==
  ASSUME Chronicle, Idling, NEW code, NEW context, RunWhole(code, context)
  PROVE  Chronicle'
<1>1. /\ mode' = "whole" /\ stage' = "running" /\ observed' = world /\ world' = world
      /\ lived' = lived /\ records' = records
  BY DEF RunWhole, Ask
<1>2. /\ records = <<>>
      /\ world = [grip |-> world.grip, held |-> world.held, joints |-> world.joints]
  BY DEF Idling, Chronicle
<1>3. (world = [grip |-> world.grip, held |-> world.held, joints |-> world.joints])'
  BY <1>1, <1>2
<1>. QED
  BY <1>1, <1>2, <1>3 DEF Chronicle, WholeChronicle

LEMMA RunStepsChronicle ==
  ASSUME Chronicle, Idling, NEW code \in SkillPrograms, NEW context, RunSteps(code, context)
  PROVE  Chronicle'
<1>1. /\ mode' = "step" /\ stage' = "none" /\ ir' = code /\ next' = 1
      /\ lived' = lived /\ records' = records
  BY DEF RunSteps, Ask
<1>2. lived = <<>> /\ records = <<>>
  BY DEF Idling, Chronicle
<1>3. Len(code) \in Nat /\ \A i \in DOMAIN code : code[i].kind = "Skill"
  BY ProgramAssumption DEF IsSemantic, IsList
<1>4. IsRow(<<>>, 0)
  BY DEF IsRow
<1>5. 1 .. 1 - 1 = {} /\ 1 - 1 = 0 /\ 1 <= Len(code) + 1
  BY <1>3
<1>6. \A k \in (1 .. next - 1)' : OnRecord(k)'
  BY <1>1, <1>5
<1>7. IsRow(lived, IF stage = "ran" THEN next ELSE next - 1)' /\ IsRow(records, next - 1)'
  BY <1>1, <1>2, <1>4, <1>5
<1>8. StepChronicle'
  BY <1>1, <1>3, <1>5, <1>6, <1>7 DEF StepChronicle
<1>. QED
  BY <1>1, <1>8 DEF Chronicle

LEMMA RequestsChronicle ==
  ASSUME Chronicle, Requests
  PROVE  Chronicle'
<1>1. /\ Idling
      /\ \E c \in Contexts :
           \/ \E code \in Irs : RunWhole(code, c)
           \/ \E body \in Bodies : RunBody(body, c)
           \/ \E code \in SkillPrograms : RunSteps(code, c)
  BY DEF Requests
<1>2. ASSUME NEW body, NEW c, RunBody(body, c) PROVE Chronicle'
  <2>1. CASE Normalize(body, Defined) = NormalizeError
    <3>1. UNCHANGED skillVars
      BY <1>2, <2>1 DEF RunBody
    <3>2. /\ mode' = mode /\ stage' = stage /\ world' = world
          /\ lived' = lived /\ records' = records /\ mode = "none"
      BY <1>1, <3>1 DEF skillVars, Idling
    <3>3. /\ stage = "none" /\ lived = <<>> /\ records = <<>>
          /\ world = [grip |-> world.grip, held |-> world.held, joints |-> world.joints]
      BY <3>2 DEF Chronicle
    <3>4. (world = [grip |-> world.grip, held |-> world.held, joints |-> world.joints])'
      BY <3>2, <3>3
    <3>. QED
      BY <3>2, <3>3, <3>4 DEF Chronicle
  <2>2. CASE Normalize(body, Defined) # NormalizeError
    <3>1. RunWhole(Normalize(body, Defined), c)
      BY <1>2, <2>2 DEF RunBody
    <3>2. PICK code : code = Normalize(body, Defined)
      OBVIOUS
    <3>3. RunWhole(code, c)
      BY <3>1, <3>2
    <3>. QED
      BY <1>1, <3>3, RunWholeChronicle
  <2>. QED
    BY <2>1, <2>2
<1>. QED
  BY <1>1, <1>2, RunWholeChronicle, RunStepsChronicle
\* What carrying out an operation can make of a world.
LEMMA EffectIsAWorld ==
  ASSUME NEW G, NEW H, NEW J, {"open", "closed"} \subseteq G, NoObject \in H,
         NEW state \in [grip : G, held : H, joints : J], NEW op, op.origin \in H,
         NEW instructions, NEW joint \in J, NEW missed
  PROVE  Effect(state, op, instructions, joint, missed) \in [grip : G, held : H, joints : J]
<1>. DEFINE outputs == {i \in DOMAIN instructions : instructions[i].kind = "SetOutput"}
            grip == IF outputs = {} THEN state.grip
                    ELSE IF instructions[Max(outputs)].amount = 1 THEN "closed" ELSE "open"
            held == CASE grip = "open" -> NoObject
                      [] grip = "closed" /\ outputs # {} /\ ~missed -> op.origin
                      [] OTHER -> state.held
<1>1. Effect(state, op, instructions, joint, missed)
        = [grip |-> grip, joints |-> joint, held |-> held]
  BY DEF Effect
<1>2. state.grip \in G /\ state.held \in H
  OBVIOUS
<1>3. grip \in G
  BY <1>2
<1>. HIDE DEF grip, outputs
<1>4. held \in H
  <2>1. CASE grip = "open"
    BY <2>1
  <2>2. CASE grip # "open" /\ grip = "closed" /\ outputs # {} /\ ~missed
    BY <2>2
  <2>3. CASE ~(grip = "open") /\ ~(grip = "closed" /\ outputs # {} /\ ~missed)
    BY <1>2, <2>3
  <2>. QED
    BY <2>1, <2>2, <2>3
<1>. HIDE DEF held
<1>. QED
  BY <1>1, <1>3, <1>4

\* A program carried out begins in the world it was asked for and ends in the
\* world it leaves.
LEMMA CarryOutChronicle ==
  ASSUME Requested, Chronicle, NEW missed \in SUBSET DOMAIN ir, CarryOut(missed)
  PROVE  Chronicle'
<1>. DEFINE P(g) == g = [i \in 0 .. Len(ir) |->
                           IF i = 0 THEN world
                           ELSE Effect(g[i - 1], ir[i], Of(i), JointsAfter(i), i \in missed)]
            after == CHOOSE g : P(g)
            life(i) == [origin |-> i, plan |-> "carried",
                        before |-> after[i - 1], after |-> after[i]]
<1>1. /\ mode = "whole" /\ stage = "running" /\ stage' = "ran"
      /\ mode' = mode /\ ir' = ir /\ records' = records /\ observed' = observed
      /\ world' = after[Len(ir)]
      /\ lived' = [i \in DOMAIN ir |-> life(i)]
  BY DEF CarryOut
<1>2. PICK n \in Nat : Len(ir) = n /\ DOMAIN ir = 1 .. n
  BY SemanticOperations DEF Requested
<1>3. /\ observed = world /\ records = <<>>
      /\ world = [grip |-> world.grip, held |-> world.held, joints |-> world.joints]
  BY <1>1 DEF Chronicle, WholeChronicle
<1>4. \E g : P(g)
  <2>. DEFINE G == {"open", "closed", world.grip}
              H == {NoObject, world.held} \cup {ir[i].origin : i \in 1 .. n}
              J == {world.joints} \cup {JointsAfter(i) : i \in 1 .. n}
              W == [grip : G, held : H, joints : J]
              turn(k, w) == Effect(w, ir[k], Of(k), JointsAfter(k), k \in missed)
              step == [k \in 1 .. n |-> [w \in W |-> turn(k, w)]]
  <2>1. /\ {"open", "closed"} \subseteq G /\ world.grip \in G
        /\ NoObject \in H /\ world.held \in H /\ world.joints \in J
        /\ \A k \in 1 .. n : ir[k].origin \in H /\ JointsAfter(k) \in J
    OBVIOUS
  <2>. HIDE DEF G, H, J
  <2>2. [grip |-> world.grip, held |-> world.held, joints |-> world.joints] \in W
    BY <2>1
  <2>3. world \in W
    BY <1>3, <2>2
  <2>4. ASSUME NEW k \in 1 .. n, NEW w \in W PROVE turn(k, w) \in W
    <3>1. JointsAfter(k) \in J /\ ir[k].origin \in H
      BY <2>1
    <3>. QED
      BY <2>1, <3>1, EffectIsAWorld
  <2>5. /\ \A k \in 1 .. n : \A w \in W : step[k][w] = turn(k, w)
        /\ step \in [1 .. n -> [W -> W]]
    <3>. HIDE DEF W, turn
    <3>. QED
      BY <2>4
  <2>. HIDE DEF W, turn, step
  <2>6. Ways(W, world, n, step) # {}
    BY <2>3, <2>5, Iterate DEF Steps
  <2>7. PICK f \in [0 .. n -> W] :
          f[0] = world /\ \A k \in 1 .. n : f[k] = step[k][f[k - 1]]
    BY <2>6 DEF Ways
  <2>8. ASSUME NEW i \in 0 .. n
        PROVE  f[i] = IF i = 0 THEN world ELSE turn(i, f[i - 1])
    <3>1. CASE i = 0
      BY <2>7, <3>1
    <3>2. CASE i # 0
      <4>1. i \in 1 .. n /\ i - 1 \in 0 .. n
        BY <1>2, <3>2
      <4>. QED
        BY <2>5, <2>7, <3>2, <4>1
    <3>. QED
      BY <3>1, <3>2
  <2>9. f = [i \in 0 .. n |-> IF i = 0 THEN world ELSE turn(i, f[i - 1])]
    BY <2>7, <2>8
  <2>10. P(f)
    BY <1>2, <2>9 DEF turn
  <2>. QED
    BY <2>10
<1>5. P(after)
  <2>. HIDE DEF P
  <2>. QED
    BY <1>4
<1>. HIDE DEF after
<1>6. after[0] = world
  <2>1. 0 \in 0 .. Len(ir)
    BY <1>2
  <2>. QED
    BY <1>5, <2>1
<1>. HIDE DEF P
<1>7. ASSUME NEW i \in 1 .. n
      PROVE  lived'[i].before = after[i - 1] /\ lived'[i].after = after[i]
  <2>1. lived'[i] = life(i)
    BY <1>1, <1>2
  <2>. QED
    BY <2>1
<1>8. 1 \in DOMAIN ir => lived'[1].before = observed
  <2>1. 1 \in DOMAIN ir => 1 \in 1 .. n /\ 1 - 1 = 0
    BY <1>2
  <2>. QED
    BY <1>3, <1>6, <1>7, <2>1
<1>9. Len(ir) \in DOMAIN ir => lived'[Len(ir)].after = world'
  BY <1>1, <1>2, <1>7
<1>. QED
  BY <1>1, <1>3, <1>8, <1>9 DEF Chronicle, WholeChronicle
LEMMA PrepareChronicle ==
  ASSUME Requested, Chronicle, PrepareSkill
  PROVE  Chronicle'
<1>1. /\ mode = "step" /\ stage = "none" /\ next <= Len(ir) /\ observed' = world
      /\ ir' = ir /\ robots' = robots /\ mode' = mode /\ world' = world
      /\ IF Ready(ir[next], world)
         THEN stage' = "running" /\ next' = next /\ records' = records /\ lived' = lived
         ELSE /\ records' = Append(records, EarlyRecord(ir[next], world))
              /\ lived' = Append(lived, [origin |-> next, plan |-> "none",
                                         before |-> world, after |-> world])
              /\ next' = next + 1 /\ stage' = stage
  BY DEF PrepareSkill
<1>2. PICK b \in Nat : next = b + 1
  BY DEF Requested
<1>3. /\ \A i \in DOMAIN ir : ir[i].kind = "Skill"
      /\ IsRow(lived, b) /\ IsRow(records, b) /\ Len(ir) \in Nat
      /\ \A k \in 1 .. b : OnRecord(k)
  <2>1. StepChronicle /\ Len(ir) \in Nat
    BY <1>1, SemanticOperations DEF Chronicle, Requested
  <2>2. next - 1 = b
    BY <1>2
  <2>. QED
    BY <1>1, <2>1, <2>2 DEF StepChronicle
<1>4. CASE Ready(ir[next], world)
  <2>1. /\ stage' = "running" /\ next' = next /\ records' = records /\ lived' = lived
    BY <1>1, <1>4
  <2>2. Ready(ir[next], observed)'
    BY <1>1, <1>4, <2>1 DEF Ready, Contract, LoweredAlone, IrRobot, CtxRobot
  <2>3. next' - 1 = b
    BY <1>2, <2>1
  <2>4. ASSUME NEW k \in 1 .. b PROVE OnRecord(k)'
    BY <1>1, <1>3, <2>1, StaysOnRecord
  <2>5. StepChronicle'
    BY <1>1, <1>2, <1>3, <2>1, <2>2, <2>3, <2>4 DEF StepChronicle
  <2>. QED
    BY <1>1, <2>5 DEF Chronicle
<1>5. CASE ~Ready(ir[next], world)
  <2>. DEFINE life == [origin |-> next, plan |-> "none", before |-> world, after |-> world]
  <2>1. /\ stage' = "none" /\ next' = next + 1
        /\ records' = Append(records, EarlyRecord(ir[next], world))
        /\ lived' = Append(lived, life)
    BY <1>1, <1>5
  <2>2. life.before = world /\ life.after = world /\ life.plan = "none"
    OBVIOUS
  <2>. HIDE DEF life
  <2>3. /\ IsRow(lived', b + 1) /\ lived'[b + 1] = life
        /\ \A k \in 1 .. b : lived'[k] = lived[k]
    <3>1. PICK old, new, added : old = lived /\ new = lived' /\ added = life
      OBVIOUS
    <3>2. IsRow(old, b) /\ Grown(new, old, added)
      BY <1>3, <2>1, <3>1 DEF Grown
    <3>3. /\ IsRow(new, b + 1) /\ new[b + 1] = added
          /\ \A k \in 1 .. b : new[k] = old[k]
      BY <3>2, Appended
    <3>. QED
      BY <3>1, <3>3
  <2>4. /\ IsRow(records', b + 1) /\ records'[b + 1] = EarlyRecord(ir[next], world)
        /\ \A k \in 1 .. b : records'[k] = records[k]
    <3>1. PICK old, new, added : old = records /\ new = records' /\ added = EarlyRecord(ir[next], world)
      OBVIOUS
    <3>2. IsRow(old, b) /\ Grown(new, old, added)
      BY <1>3, <2>1, <3>1 DEF Grown
    <3>3. /\ IsRow(new, b + 1) /\ new[b + 1] = added
          /\ \A k \in 1 .. b : new[k] = old[k]
      BY <3>2, Appended
    <3>. QED
      BY <3>1, <3>3
  <2>5. next' - 1 = b + 1 /\ next' <= Len(ir) + 1
    BY <1>1, <1>2, <1>3, <2>1
  <2>6. ASSUME NEW k \in 1 .. b + 1 PROVE OnRecord(k)'
    <3>1. CASE k \in 1 .. b
      BY <1>1, <1>3, <2>3, <2>4, <3>1, StaysOnRecord
    <3>2. CASE k = b + 1
      <4>1. /\ records'[k] = EarlyRecord(ir'[k], world) /\ ir'[k] = ir[next]
            /\ lived'[k].before = world /\ lived'[k].after = world /\ lived'[k].plan = "none"
        BY <1>1, <1>2, <2>2, <2>3, <2>4, <3>2
      <4>. QED
        BY <1>1, <1>5, <4>1, SameContracts DEF OnRecord, Tells
    <3>. QED
      BY <3>1, <3>2
  <2>7. StepChronicle'
    BY <1>1, <1>3, <2>1, <2>3, <2>4, <2>5, <2>6 DEF StepChronicle
  <2>. QED
    BY <1>1, <2>7 DEF Chronicle
<1>. QED
  BY <1>4, <1>5

LEMMA CarryOutSkillChronicle ==
  ASSUME Requested, Chronicle, NEW missed \in BOOLEAN, CarryOutSkill(missed)
  PROVE  Chronicle'
<1>1. /\ mode = "step" /\ stage = "running" /\ stage' = "ran"
      /\ ir' = ir /\ robots' = robots /\ mode' = mode /\ next' = next
      /\ observed' = observed /\ records' = records
      /\ lived' = Append(lived,
           [origin |-> next, plan |-> IF phase = "failed" THEN "failed" ELSE "carried",
            before |-> world, after |-> world'])
  BY DEF CarryOutSkill
<1>2. PICK b \in Nat : next = b + 1
  BY DEF Requested
<1>3. /\ \A i \in DOMAIN ir : ir[i].kind = "Skill"
      /\ next <= Len(ir) /\ Ready(ir[next], observed) /\ observed = world
      /\ next <= Len(ir) + 1
      /\ IsRow(lived, b) /\ IsRow(records, b)
      /\ \A k \in 1 .. b : OnRecord(k)
  <2>1. StepChronicle
    BY <1>1 DEF Chronicle
  <2>2. next - 1 = b
    BY <1>2
  <2>. QED
    BY <1>1, <2>1, <2>2 DEF StepChronicle
<1>. DEFINE life == [origin |-> next, plan |-> IF phase = "failed" THEN "failed" ELSE "carried",
                     before |-> world, after |-> world']
<1>4. life.before = world /\ life.after = world' /\ life.plan \in {"carried", "failed"}
  OBVIOUS
<1>5. lived' = Append(lived, life)
  BY <1>1
<1>. HIDE DEF life
<1>6. /\ IsRow(lived', b + 1) /\ lived'[b + 1] = life
      /\ \A k \in 1 .. b : lived'[k] = lived[k]
  <2>1. PICK old, new, added : old = lived /\ new = lived' /\ added = life
    OBVIOUS
  <2>2. IsRow(old, b) /\ Grown(new, old, added)
    BY <1>3, <1>5, <2>1 DEF Grown
  <2>3. /\ IsRow(new, b + 1) /\ new[b + 1] = added
        /\ \A k \in 1 .. b : new[k] = old[k]
    BY <2>2, Appended
  <2>. QED
    BY <2>1, <2>3
<1>7. Ready(ir[next], observed)'
  BY <1>1, <1>3 DEF Ready, Contract, LoweredAlone, IrRobot, CtxRobot
<1>8. ASSUME NEW k \in 1 .. b PROVE OnRecord(k)'
  BY <1>1, <1>3, <1>6, StaysOnRecord
<1>9. next' - 1 = b /\ next' = b + 1
  BY <1>1, <1>2
<1>10. StepChronicle'
  BY <1>1, <1>3, <1>4, <1>6, <1>7, <1>8, <1>9 DEF StepChronicle
<1>. QED
  BY <1>1, <1>10 DEF Chronicle

\* The record of a skill that ran, whoever writes it.
LEMMA RecordChronicle ==
  ASSUME Requested, Chronicle, NEW record, RecordSkill(record),
         Tells(record, ir[next], lived[next])
  PROVE  Chronicle'
<1>1. /\ mode = "step" /\ stage = "ran" /\ stage' = "none" /\ next' = next + 1
      /\ ir' = ir /\ robots' = robots /\ mode' = mode /\ lived' = lived
      /\ records' = Append(records, record)
  BY DEF RecordSkill
<1>2. PICK b \in Nat : next = b + 1
  BY DEF Requested
<1>3. /\ \A i \in DOMAIN ir : ir[i].kind = "Skill"
      /\ next <= Len(ir) /\ Len(ir) \in Nat
      /\ IsRow(lived, b + 1) /\ IsRow(records, b)
      /\ \A k \in 1 .. b : OnRecord(k)
  <2>1. StepChronicle /\ Len(ir) \in Nat
    BY <1>1, SemanticOperations DEF Chronicle, Requested
  <2>2. next - 1 = b
    BY <1>2
  <2>. QED
    BY <1>1, <1>2, <2>1, <2>2 DEF StepChronicle
<1>4. /\ IsRow(records', b + 1) /\ records'[b + 1] = record
      /\ \A k \in 1 .. b : records'[k] = records[k]
  <2>1. PICK old, new : old = records /\ new = records'
    OBVIOUS
  <2>2. IsRow(old, b) /\ Grown(new, old, record)
    BY <1>1, <1>3, <2>1 DEF Grown
  <2>3. /\ IsRow(new, b + 1) /\ new[b + 1] = record
        /\ \A k \in 1 .. b : new[k] = old[k]
    BY <2>2, Appended
  <2>. QED
    BY <2>1, <2>3
<1>5. ASSUME NEW k \in 1 .. b + 1 PROVE OnRecord(k)'
  <2>1. CASE k \in 1 .. b
    BY <1>1, <1>3, <1>4, <2>1, StaysOnRecord
  <2>2. CASE k = b + 1
    <3>1. /\ records'[k] = record /\ ir'[k] = ir[next] /\ lived'[k] = lived[next]
      BY <1>1, <1>2, <1>4, <2>2
    <3>. QED
      BY <1>1, <3>1, SameContracts DEF OnRecord, Tells
  <2>. QED
    BY <2>1, <2>2
<1>6. next' - 1 = b + 1 /\ next' <= Len(ir) + 1
  BY <1>1, <1>2, <1>3
<1>7. StepChronicle'
  BY <1>1, <1>3, <1>4, <1>5, <1>6 DEF StepChronicle
<1>. QED
  BY <1>1, <1>7 DEF Chronicle

\* The life of a skill that ran, at the moment its record is written.
LEMMA RanLife ==
  ASSUME Requested, Chronicle, mode = "step", stage = "ran"
  PROVE  /\ Ready(ir[next], lived[next].before) /\ lived[next].after = world
         /\ lived[next].plan \in {"carried", "failed"}
BY DEF Chronicle, StepChronicle

LEMMA JudgeSkillChronicle ==
  ASSUME Requested, Chronicle, JudgeSkill
  PROVE  Chronicle'
<1>1. RecordSkill(EvaluatePostconditions(ir[next], world))
  BY DEF JudgeSkill
<1>2. mode = "step" /\ stage = "ran"
  BY <1>1 DEF RecordSkill
<1>3. Tells(EvaluatePostconditions(ir[next], world), ir[next], lived[next])
  BY <1>2, RanLife DEF Tells
<1>. QED
  BY <1>1, <1>3, RecordChronicle

LEMMA ReportFailureChronicle ==
  ASSUME Requested, Chronicle, ReportFailure
  PROVE  Chronicle'
<1>1. /\ RecordSkill(Record(ir[next], "success", "failure", "none"))
      /\ lived[next].plan = "failed"
  BY DEF ReportFailure
<1>2. mode = "step" /\ stage = "ran"
  BY <1>1 DEF RecordSkill
<1>3. Tells(Record(ir[next], "success", "failure", "none"), ir[next], lived[next])
  BY <1>1, <1>2, RanLife DEF Tells
<1>. QED
  BY <1>1, <1>3, RecordChronicle

LEMMA JudgeChronicle ==
  ASSUME Chronicle, Judge
  PROVE  Chronicle'
<1>1. /\ mode = "whole" /\ stage = "ran" /\ stage' = "judged"
      /\ records' = ExecuteProgram(observed, world)
      /\ ir' = ir /\ robots' = robots /\ mode' = mode /\ world' = world
      /\ observed' = observed /\ lived' = lived
  BY DEF Judge
<1>2. ExecuteProgram(observed, world)' = ExecuteProgram(observed, world)
  BY <1>1 DEF ExecuteProgram, ExecuteSkillOp, EvaluatePostconditions, EarlyRecord,
     Ready, Contract, LoweredAlone, IrRobot, CtxRobot
<1>3. /\ 1 \in DOMAIN ir => lived[1].before = observed
      /\ Len(ir) \in DOMAIN ir => lived[Len(ir)].after = world
  BY <1>1 DEF Chronicle, WholeChronicle
<1>. QED
  BY <1>1, <1>2, <1>3 DEF Chronicle, WholeChronicle

LEMMA ChronicleKept ==
  ASSUME Chronicle, UNCHANGED skillVars
  PROVE  Chronicle'
<1>1. /\ ir' = ir /\ robots' = robots /\ mode' = mode /\ stage' = stage /\ next' = next
      /\ world' = world /\ observed' = observed /\ lived' = lived /\ records' = records
  BY DEF skillVars
<1>2. ExecuteProgram(observed, world)' = ExecuteProgram(observed, world)
  BY <1>1 DEF ExecuteProgram, ExecuteSkillOp, EvaluatePostconditions, EarlyRecord,
     Ready, Contract, LoweredAlone, IrRobot, CtxRobot
<1>3. Ready(ir[next], observed)' = Ready(ir[next], observed)
  BY <1>1 DEF Ready, Contract, LoweredAlone, IrRobot, CtxRobot
<1>4. \A k \in 1 .. next - 1 : OnRecord(k) => OnRecord(k)'
  BY <1>1, StaysOnRecord
<1>5. CASE mode = "step"
  BY <1>1, <1>3, <1>4, <1>5 DEF Chronicle, StepChronicle
<1>6. CASE mode # "step"
  BY <1>1, <1>2, <1>6 DEF Chronicle, WholeChronicle
<1>. QED
  BY <1>5, <1>6

LEMMA ChronicleNext ==
  ASSUME Requested, Chronicle, [SkillNext]_allVars
  PROVE  Chronicle'
<1>1. CASE Planning \/ UNCHANGED allVars
  <2>1. UNCHANGED skillVars
    BY <1>1 DEF Planning, allVars
  <2>. QED
    BY <2>1, ChronicleKept
<1>. QED
  BY <1>1, RequestsChronicle, CarryOutChronicle, CarryOutSkillChronicle, PrepareChronicle,
     JudgeSkillChronicle, ReportFailureChronicle, JudgeChronicle DEF SkillNext
\* What RecordsTellTheTruth asks of the record of a skill run by itself.
IsTrueOf(r, op, life) ==
  /\ Contract(op) # NoSkill =>
       /\ r.pre = Evaluate(Contract(op).pre, life.before)
       /\ r.post # "none" => r.post = Evaluate(Contract(op).post, life.after)
  /\ life.plan = "carried" => r.outcome = "success" /\ r.post # "none"
  /\ life.plan = "none" =>
       r.outcome # "success" /\ r.post = "none" /\ life.before = life.after

LEMMA TrueOfItsSkill ==
  ASSUME NEW r, NEW op, NEW life, Tells(r, op, life)
  PROVE  r.origin = op.origin /\ IsTrueOf(r, op, life)
<1>1. CASE Ready(op, life.before)
  <2>1. Evaluate(Contract(op).pre, life.before) = "success"
    BY <1>1 DEF Ready
  <2>2. CASE life.plan \in {"carried", "failed"} /\ r = EvaluatePostconditions(op, life.after)
    <3>. DEFINE verdict == Evaluate(Contract(op).post, life.after)
    <3>1. verdict \in {"success", "violated", "unknown"}
      BY DEF Evaluate, Truth
    <3>2. r = Record(op, "success", "success", verdict)
      BY <2>2 DEF EvaluatePostconditions
    <3>. HIDE DEF verdict
    <3>3. /\ r.origin = op.origin /\ r.pre = "success" /\ r.outcome = "success"
          /\ r.post = verdict /\ r.post # "none"
      BY <3>1, <3>2 DEF Record
    <3>. QED
      BY <2>1, <2>2, <3>3 DEF IsTrueOf, verdict
  <2>3. CASE life.plan = "failed" /\ r = Record(op, "success", "failure", "none")
    <3>1. /\ r.origin = op.origin /\ r.pre = "success" /\ r.outcome = "failure"
          /\ r.post = "none"
      BY <2>3 DEF Record
    <3>. QED
      BY <2>1, <2>3, <3>1 DEF IsTrueOf
  <2>. QED
    BY <1>1, <2>2, <2>3 DEF Tells
<1>2. CASE ~Ready(op, life.before)
  <2>1. /\ life.plan = "none" /\ life.after = life.before
        /\ r = EarlyRecord(op, life.before)
    BY <1>2 DEF Tells
  <2>. DEFINE verdict == Evaluate(Contract(op).pre, life.before)
  <2>2. CASE Contract(op) = NoSkill
    <3>1. r = Record(op, "unknown", "none", "none")
      BY <2>1, <2>2 DEF EarlyRecord
    <3>2. r.origin = op.origin /\ r.outcome = "none" /\ r.post = "none"
      BY <3>1 DEF Record
    <3>. QED
      BY <2>1, <2>2, <3>2 DEF IsTrueOf
  <2>3. CASE Contract(op) # NoSkill
    <3>1. r = Record(op, verdict, IF verdict = "success" THEN "failure" ELSE "none", "none")
      BY <2>1, <2>3 DEF EarlyRecord
    <3>. HIDE DEF verdict
    <3>2. /\ r.origin = op.origin /\ r.pre = verdict /\ r.post = "none"
          /\ r.outcome \in {"failure", "none"}
      BY <3>1 DEF Record
    <3>. QED
      BY <2>1, <3>2 DEF IsTrueOf, verdict
  <2>. QED
    BY <2>2, <2>3
<1>. QED
  BY <1>1, <1>2

LEMMA RecordsAreTrue ==
  ASSUME Requested, Chronicle
  PROVE  RecordsTellTheTruth
<1>0. IsSemantic(ir) /\ next \in Nat \ {0}
  BY DEF Requested
<1>1. PICK n \in Nat :
        Len(ir) = n /\ DOMAIN ir = 1 .. n /\ \A i \in 1 .. n : ir[i].origin = i
  BY <1>0, SemanticOperations
<1>2. CASE mode = "none"
  BY <1>2 DEF Chronicle, RecordsTellTheTruth
<1>3. CASE mode = "whole"
  <2>1. CASE stage # "judged"
    BY <1>3, <2>1 DEF Chronicle, WholeChronicle, RecordsTellTheTruth
  <2>2. CASE stage = "judged"
    <3>1. /\ records = ExecuteProgram(observed, world)
          /\ 1 \in DOMAIN ir => lived[1].before = observed
          /\ n \in DOMAIN ir => lived[n].after = world
      BY <1>1, <1>3, <2>2 DEF Chronicle, WholeChronicle
    <3>2. /\ \A k \in DOMAIN records :
               /\ records[k].origin \in DOMAIN ir /\ ir[records[k].origin].kind = "Skill"
               /\ records[k] = ExecuteSkillOp(ir[records[k].origin], observed, world)
          /\ \A i \in DOMAIN ir :
               ir[i].kind = "Skill" => \E k \in DOMAIN records : records[k].origin = i
          /\ \A k, l \in DOMAIN records : k < l => records[k].origin < records[l].origin
      BY <1>0, <3>1, OneRecordEach
    <3>3. ASSUME NEW k \in DOMAIN records, NEW i \in DOMAIN ir, i = records[k].origin,
                 Contract(ir[i]) # NoSkill
          PROVE  /\ i = 1 => records[k].pre = Evaluate(Contract(ir[i]).pre, lived[i].before)
                 /\ i = n /\ records[k].post # "none" =>
                      records[k].post = Evaluate(Contract(ir[i]).post, lived[i].after)
      <4>1. records[k] = ExecuteSkillOp(ir[i], observed, world)
        BY <3>2, <3>3
      <4>2. /\ records[k].pre = Evaluate(Contract(ir[i]).pre, observed)
            /\ records[k].post # "none" =>
                 records[k].post = Evaluate(Contract(ir[i]).post, world)
        BY <3>3, <4>1, VerdictIsTrue
      <4>. QED
        BY <3>1, <4>2
    <3>4. {records[k].origin : k \in DOMAIN records} = {i \in DOMAIN ir : ir[i].kind = "Skill"}
      BY <3>2
    <3>. QED
      BY <1>1, <1>3, <3>2, <3>3, <3>4 DEF RecordsTellTheTruth
  <2>. QED
    BY <2>1, <2>2
<1>4. CASE mode = "step"
  <2>1. PICK b \in Nat : next = b + 1
    BY <1>0
  <2>2. /\ stage # "judged" /\ b <= n
        /\ \A i \in DOMAIN ir : ir[i].kind = "Skill"
        /\ IsRow(records, b) /\ \A k \in 1 .. b : OnRecord(k)
    <3>1. StepChronicle
      BY <1>4 DEF Chronicle
    <3>2. next - 1 = b
      BY <2>1
    <3>. QED
      BY <1>1, <2>1, <3>1, <3>2 DEF StepChronicle
  <2>3. DOMAIN records = 1 .. b
    BY <2>2 DEF IsRow
  <2>4. ASSUME NEW k \in 1 .. b
        PROVE  k \in DOMAIN ir /\ records[k].origin = k /\ OnRecord(k)
    <3>1. k \in DOMAIN ir /\ ir[k].origin = k /\ OnRecord(k)
      BY <1>1, <2>2
    <3>. QED
      BY <3>1, TrueOfItsSkill DEF OnRecord
  <2>6. \A k \in 1 .. b : k \in DOMAIN ir /\ records[k].origin = k
    BY <2>4
  <2>5. ASSUME next > Len(ir)
        PROVE  /\ {records[k].origin : k \in DOMAIN records} =
                    {i \in DOMAIN ir : ir[i].kind = "Skill"}
               /\ \A k, l \in DOMAIN records : k < l => records[k].origin < records[l].origin
    <3>1. b = n
      BY <1>1, <2>1, <2>2, <2>5
    <3>2. DOMAIN ir = 1 .. b
      BY <1>1, <3>1
    <3>3. {records[k].origin : k \in DOMAIN records} = {i \in DOMAIN ir : ir[i].kind = "Skill"}
      BY <2>2, <2>3, <2>6, <3>2
    <3>4. \A k, l \in DOMAIN records : k < l => records[k].origin < records[l].origin
      BY <2>3, <2>6
    <3>. QED
      BY <3>3, <3>4
  <2>7. ASSUME NEW k \in DOMAIN records, NEW i, i = records[k].origin
        PROVE  IsTrueOf(records[k], ir[i], lived[i])
    <3>1. k \in 1 .. b /\ i = k
      BY <2>3, <2>6, <2>7
    <3>. QED
      BY <2>4, <3>1, TrueOfItsSkill DEF OnRecord
  <2>. QED
    BY <1>4, <2>2, <2>5, <2>7 DEF RecordsTellTheTruth, IsTrueOf
<1>. QED
  BY <1>2, <1>3, <1>4 DEF Chronicle

\* Whatever the host asks, misses or lets fail.  Skills run one by one have the
\* verdicts of their contract in the worlds they lived in, a success on record if
\* their plan was carried out, and none if they had no plan.  A program judged as a
\* whole has this of the precondition of its first operation and the postcondition
\* of its last.  Every skill has one record, in order, when all is judged.  The
\* record of a skill whose plan failed and the verdicts in the middle of a whole
\* program are outside the theorem: DeviationsAreReal does not hold of the code.
THEOREM RecordsAreOfTheirSkills == SkillSpec => []RecordsTellTheTruth
<1>1. Requested /\ Chronicle => RecordsTellTheTruth
  BY RecordsAreTrue
<1>2. Requested /\ Chronicle /\ [SkillNext]_allVars => Chronicle'
  BY ChronicleNext
<1>. QED
  BY <1>1, <1>2, ChronicleInit, SkillInvariant, PTL DEF SkillSpec
-----------------------------------------------------------------------------
(* The planner, whatever program it is handed                               *)

\* What a host does to the planner: a step of its own, or a request between two.
Handing ==
  phase = "idle" /\ (Fail \/ \E code \in Seq(Instruction), at \in Joints : Submit(code, at))

LEMMA PlannerSteps ==
  ASSUME PlannerInv, Requested, [SkillNext]_allVars
  PROVE  [Next]_vars \/ Handing
<1>1. ASSUME NEW code, IsSemantic(code), NEW context, Idling, RunWhole(code, context)
      PROVE  Handing
  <2>. DEFINE lowered == Lower(code, context[1], context[2])
  <2>1. /\ phase = "idle" /\ world.joints \in Joints
        /\ IF lowered = LoweringError THEN Fail ELSE Submit(lowered, world.joints)
    BY <1>1 DEF RunWhole, Idling, Requested
  <2>2. lowered = LoweringError \/ lowered \in Seq(Instruction)
    BY <1>1, LowerCut
  <2>. HIDE DEF lowered
  <2>. QED
    BY <2>1, <2>2 DEF Handing
<1>2. CASE Requests
  <2>1. PICK c \in Contexts :
          \/ \E code \in Irs : RunWhole(code, c)
          \/ \E body \in Bodies : RunBody(body, c)
          \/ \E code \in SkillPrograms : RunSteps(code, c)
    BY <1>2 DEF Requests
  <2>2. Idling /\ phase = "idle"
    BY <1>2 DEF Requests, Idling
  <2>3. ASSUME NEW code \in Irs, RunWhole(code, c) PROVE Handing
    BY <1>1, <2>2, <2>3, ProgramAssumption
  <2>4. ASSUME NEW body \in Bodies, RunBody(body, c) PROVE Handing
    <3>1. PICK code : code = Normalize(body, Defined)
      OBVIOUS
    <3>2. CASE code = NormalizeError
      BY <2>2, <2>4, <3>1, <3>2 DEF RunBody, Handing
    <3>3. CASE code # NormalizeError
      <4>1. RunWhole(code, c)
        BY <2>4, <3>1, <3>3 DEF RunBody
      <4>2. IsSemantic(code)
        BY <3>1, <3>3, NormalizeSemantic, ProgramAssumption
      <4>. QED
        BY <1>1, <2>2, <4>1, <4>2
    <3>. QED
      BY <3>2, <3>3
  <2>5. ASSUME NEW code \in SkillPrograms, RunSteps(code, c) PROVE UNCHANGED vars
    BY <2>5 DEF RunSteps
  <2>. QED
    BY <2>1, <2>3, <2>4, <2>5
<1>3. CASE PrepareSkill
  <2>1. /\ phase = "idle" /\ next <= Len(ir) /\ next \in Nat \ {0} /\ IsSemantic(ir)
        /\ mode = "step" /\ world.joints \in Joints
        /\ IF Ready(ir[next], world) THEN Submit(LoweredAlone(ir[next]), world.joints)
           ELSE UNCHANGED vars
    BY <1>3 DEF PrepareSkill, Requested
  <2>2. CASE Ready(ir[next], world)
    <3>1. IsOperation(ir[next]) /\ LoweredAlone(ir[next]) # LoweringError
      BY <2>1, <2>2, SemanticOperations DEF Ready
    <3>2. LoweredAlone(ir[next]) \in Seq(Instruction)
      BY <3>1, OperationPart DEF LoweredAlone, Part
    <3>3. PICK code \in Seq(Instruction) : code = LoweredAlone(ir[next])
      BY <3>2
    <3>4. Submit(code, world.joints)
      BY <2>1, <2>2, <3>3
    <3>. QED
      BY <2>1, <3>4 DEF Handing
  <2>3. CASE ~Ready(ir[next], world)
    BY <2>1, <2>3
  <2>. QED
    BY <2>2, <2>3
<1>4. CASE Planning
  BY <1>4 DEF Planning, Next
<1>5. CASE \/ \E missed \in SUBSET DOMAIN ir : CarryOut(missed)
           \/ \E missed \in BOOLEAN : CarryOutSkill(missed)
           \/ Judge \/ UNCHANGED allVars
  BY <1>5 DEF CarryOut, CarryOutSkill, Judge, allVars
<1>6. CASE JudgeSkill \/ ReportFailure
  BY <1>6 DEF JudgeSkill, ReportFailure, RecordSkill, Next
<1>. QED
  BY <1>2, <1>3, <1>4, <1>5, <1>6 DEF SkillNext

\* What the planner's own theorems need beside its invariant.
Apart == Seeded /\ Ranged /\ Abreast

LEMMA ApartNext ==
  ASSUME PlannerInv, PlannerInv', Apart, [Next]_vars \/ Handing
  PROVE  Apart'
<1>1. CASE [Next]_vars
  BY <1>1, NextSeeded, NextRanged, NextAbreast DEF PlannerInv, Apart
<1>2. ASSUME NEW code \in Seq(Instruction), NEW at \in Joints, Submit(code, at)
      PROVE  Apart'
  <2>1. /\ Fresh(<<>>, at) /\ phase' = "resolve" /\ entry' = "program" /\ operations' = <<>>
    BY <1>2 DEF Submit
  <2>2. Seeded'
    BY <2>1 DEF Fresh, Seeded, SeedAt, OfProgram
  <2>3. Ranged'
    BY <2>1, RangedFresh DEF OfProgram
  <2>4. Abreast'
    BY <2>1 DEF Fresh, Abreast
  <2>. QED
    BY <2>2, <2>3, <2>4 DEF Apart
<1>3. CASE Fail
  <2>1. phase' = "failed" /\ UNCHANGED compilerVars
    BY <1>3 DEF Fail
  <2>. QED
    BY <2>1 DEF Apart, Seeded, Ranged, Abreast, compilerVars
<1>. QED
  BY <1>1, <1>2, <1>3 DEF Handing

\* A program that comes down from skills is planned as any other: what holds of
\* the plans of one program holds of those of all that a host hands over, one by
\* one or whole, with failures between them.
THEOREM SkillsArePlannedAlike ==
  SkillSpec => [](/\ PipelineTypeOK /\ EventsMeetTheArm /\ Seamless /\ StartJointsAgree
                  /\ SeedIsTheArm /\ FinalStateAfterJointMove /\ WaypointsAreConstrained)
<1>1. SkillInit => Apart
  BY DEF SkillInit, Init, Apart, Seeded, Ranged, Abreast
<1>2. /\ PlannerInv /\ Requested /\ PlannerInv' /\ Apart /\ [SkillNext]_allVars => Apart'
  BY PlannerSteps, ApartNext
<1>3. PlannerInv /\ Apart =>
        /\ PipelineTypeOK /\ EventsMeetTheArm /\ Seamless /\ StartJointsAgree
        /\ SeedIsTheArm /\ FinalStateAfterJointMove /\ WaypointsAreConstrained
  BY EventsMeet, TrackIsSeamless, HandedAgree, SeedsAgree, FinalAgrees, RangesConstrain
     DEF PlannerInv, Apart, IInv
<1>. QED
  BY <1>1, <1>2, <1>3, SkillInvariant, PTL DEF SkillSpec

\* And each is carried out in the order it was lowered to, or not at all.
THEOREM SkillsAreCarriedOut == SkillSpec => ImplementsTimeline
<1>1. SkillInit => Timeline!Init
  BY DEF SkillInit, Init, Timeline!Init, CarriedOut
<1>2. ASSUME Handing PROVE UNCHANGED Timeline!vars
  <2>1. ~CarriedOut /\ ~CarriedOut'
    BY <1>2 DEF Handing, Fail, Submit, CarriedOut
  <2>. QED
    BY <2>1, Elsewhere
<1>3. /\ PlannerInv /\ Requested /\ PlannerInv' /\ [SkillNext]_allVars
        => [Timeline!Next]_Timeline!vars
  BY <1>2, PlannerSteps, NextMaps DEF PlannerInv
<1>. QED
  BY <1>1, <1>3, SkillInvariant, PTL DEF SkillSpec, ImplementsTimeline, Timeline!Spec

=============================================================================

-------------------------- MODULE ProgramEditProofs --------------------------
(***************************************************************************)
(* For every program, edit and depth of an editing session: what the       *)
(* inverse of a captured edit gives back is the program before the edit,   *)
(* provided that no replacement is empty.                                  *)
(***************************************************************************)
EXTENDS EditSession, SequenceTheorems, TLAPS

-----------------------------------------------------------------------------
(* Splicing *)

\* What splice leaves: the segments before the range, the new ones, and those
\* behind it.
LEMMA SpliceProperties ==
  ASSUME NEW S, NEW p \in Seq(S), NEW r \in Seq(S),
         NEW i \in Nat, NEW n \in Nat, i + n <= Len(p)
  PROVE  /\ Splice(p, i, n, r) \in Seq(S)
         /\ Len(Splice(p, i, n, r)) = Len(p) - n + Len(r)
         /\ \A k \in 1..(Len(p) - n + Len(r)) :
              Splice(p, i, n, r)[k] =
                IF k <= i THEN p[k]
                ELSE IF k <= i + Len(r) THEN r[k - i]
                ELSE p[k - Len(r) + n]
<1> DEFINE a == SubSeq(p, 1, i)
           b == SubSeq(p, i + n + 1, Len(p))
<1>0. Len(p) \in Nat /\ Len(r) \in Nat /\ \A k \in 1..Len(p) : p[k] \in S
  BY LenProperties, ElementOfSeq
<1>1. a \in Seq(S) /\ Len(a) = i /\ \A k \in 1..i : a[k] = p[k]
  <2>1. \A k \in 1..i : p[k] \in S  BY <1>0
  <2>2. /\ SubSeq(p, 1, i) \in Seq(S)
        /\ Len(SubSeq(p, 1, i)) = IF 1 <= i THEN i - 1 + 1 ELSE 0
        /\ \A k \in 1..(i - 1 + 1) : SubSeq(p, 1, i)[k] = p[1 + k - 1]
    BY <2>1, SubSeqProperties
  <2> QED BY <2>2
<1>2. /\ b \in Seq(S) /\ Len(b) = Len(p) - i - n
      /\ \A k \in 1..(Len(p) - i - n) : b[k] = p[i + n + k]
  <2>1. \A k \in (i + n + 1)..Len(p) : p[k] \in S  BY <1>0
  <2> QED BY <2>1, <1>0, SubSeqProperties
<1> HIDE DEF a, b
<1> DEFINE c == a \o r
           d == c \o b
<1>3. /\ c \in Seq(S) /\ Len(c) = i + Len(r)
      /\ \A k \in 1..(i + Len(r)) : c[k] = IF k <= i THEN a[k] ELSE r[k - i]
  BY <1>1, ConcatProperties
<1> HIDE DEF c
<1>4. /\ d \in Seq(S) /\ Len(d) = Len(c) + Len(b)
      /\ \A k \in 1..(Len(c) + Len(b)) :
           d[k] = IF k <= Len(c) THEN c[k] ELSE b[k - Len(c)]
  <2>1. c \in Seq(S) /\ b \in Seq(S)  BY <1>2, <1>3
  <2> QED BY <2>1, ConcatProperties, Zenon
<1>5. Splice(p, i, n, r) = d  BY DEF Splice, a, b, c
<1> HIDE DEF d
<1>6. Len(c) + Len(b) = Len(p) - n + Len(r)  BY <1>0, <1>2, <1>3
<1>7. d \in Seq(S) /\ Len(d) = Len(p) - n + Len(r)  BY <1>4, <1>6
<1>8. ASSUME NEW k \in 1..(Len(p) - n + Len(r))
      PROVE  d[k] = IF k <= i THEN p[k]
                    ELSE IF k <= i + Len(r) THEN r[k - i]
                    ELSE p[k - Len(r) + n]
  <2>1. d[k] = IF k <= Len(c) THEN c[k] ELSE b[k - Len(c)]
    BY <1>4, <1>6
  <2>2. CASE k <= i + Len(r)
    <3>1. c[k] = IF k <= i THEN a[k] ELSE r[k - i]
      BY <2>2, <1>0, <1>3
    <3>2. k <= i => a[k] = p[k]  BY <1>0, <1>1
    <3> QED BY <2>1, <2>2, <3>1, <3>2, <1>0, <1>3
  <2>3. CASE k > i + Len(r)
    <3>1. k - Len(c) \in 1..(Len(p) - i - n)  BY <2>3, <1>0, <1>3
    <3>2. b[k - Len(c)] = p[i + n + (k - Len(c))]  BY <3>1, <1>2
    <3>3. i + n + (k - Len(c)) = k - Len(r) + n  BY <1>0, <1>3
    <3>4. d[k] = p[k - Len(r) + n]  BY <2>1, <2>3, <3>2, <3>3, <1>0, <1>3
    <3> QED BY <2>3, <3>4, <1>0
  <2> QED BY <2>2, <2>3, <1>0
<1> QED BY <1>5, <1>7, <1>8

\* Splicing what was cut out back into the place of what was put in gives the
\* program again.
LEMMA SpliceBack ==
  ASSUME NEW S, NEW p \in Seq(S), NEW r \in Seq(S),
         NEW i \in Nat, NEW n \in Nat, i + n <= Len(p)
  PROVE  /\ Cut(p, i, n) \in Seq(S) /\ Len(Cut(p, i, n)) = n
         /\ Splice(Splice(p, i, n, r), i, Len(r), Cut(p, i, n)) = p
<1> DEFINE q == Splice(p, i, n, r)
           cut == Cut(p, i, n)
           z == Splice(q, i, Len(r), cut)
<1>0. Len(p) \in Nat /\ Len(r) \in Nat  BY LenProperties
<1>1. /\ cut \in Seq(S) /\ Len(cut) = n
      /\ \A k \in 1..n : cut[k] = p[i + k]
  <2>1. \A k \in (i + 1)..(i + n) : p[k] \in S  BY <1>0, ElementOfSeq
  <2>2. /\ SubSeq(p, i + 1, i + n) \in Seq(S)
        /\ Len(SubSeq(p, i + 1, i + n)) =
             IF i + 1 <= i + n THEN i + n - (i + 1) + 1 ELSE 0
        /\ \A k \in 1..(i + n - (i + 1) + 1) :
             SubSeq(p, i + 1, i + n)[k] = p[i + 1 + k - 1]
    BY <2>1, SubSeqProperties
  <2> QED BY <2>2 DEF Cut
<1>2. /\ q \in Seq(S) /\ Len(q) = Len(p) - n + Len(r)
      /\ \A k \in 1..(Len(p) - n + Len(r)) :
           q[k] = IF k <= i THEN p[k]
                  ELSE IF k <= i + Len(r) THEN r[k - i]
                  ELSE p[k - Len(r) + n]
  BY SpliceProperties
<1> HIDE DEF q, cut
<1>3. i + Len(r) <= Len(q)  BY <1>0, <1>2
<1>4. /\ z \in Seq(S) /\ Len(z) = Len(q) - Len(r) + Len(cut)
      /\ \A k \in 1..(Len(q) - Len(r) + Len(cut)) :
           z[k] = IF k <= i THEN q[k]
                  ELSE IF k <= i + Len(cut) THEN cut[k - i]
                  ELSE q[k - Len(cut) + Len(r)]
  <2>1. q \in Seq(S) /\ cut \in Seq(S) /\ i \in Nat /\ Len(r) \in Nat
    BY <1>0, <1>1, <1>2
  <2> DEFINE m == Len(r)
  <2> HIDE DEF m
  <2>2. i + m <= Len(q) /\ m \in Nat  BY <2>1, <1>3 DEF m
  <2>3. Splice(q, i, m, cut) \in Seq(S)
    BY <2>1, <2>2, SpliceProperties
  <2>4. Len(Splice(q, i, m, cut)) = Len(q) - m + Len(cut)
    BY <2>1, <2>2, SpliceProperties
  <2>5. \A k \in 1..(Len(q) - m + Len(cut)) :
             Splice(q, i, m, cut)[k] =
               IF k <= i THEN q[k]
               ELSE IF k <= i + Len(cut) THEN cut[k - i]
               ELSE q[k - Len(cut) + m]
    BY <2>1, <2>2, SpliceProperties
  <2> QED BY <2>3, <2>4, <2>5 DEF m
<1> HIDE DEF z
<1>5. Len(z) = Len(p)  BY <1>0, <1>1, <1>2, <1>4
<1>6. ASSUME NEW k \in 1..Len(p)  PROVE z[k] = p[k]
  <2>1. z[k] = IF k <= i THEN q[k]
               ELSE IF k <= i + n THEN cut[k - i]
               ELSE q[k - n + Len(r)]
    BY <1>0, <1>1, <1>2, <1>4
  <2>2. CASE k <= i
    BY <2>1, <2>2, <1>0, <1>2
  <2>3. CASE k > i /\ k <= i + n
    <3>1. k - i \in 1..n /\ i + (k - i) = k  BY <2>3, <1>0
    <3> QED BY <3>1, <2>1, <2>3, <1>1
  <2>4. CASE k > i + n
    <3>1. k - n + Len(r) \in 1..(Len(p) - n + Len(r))  BY <2>4, <1>0
    <3>2. (k - n + Len(r)) - Len(r) + n = k  BY <1>0
    <3>3. ~(k - n + Len(r) <= i + Len(r)) /\ ~(k - n + Len(r) <= i)
      BY <2>4, <1>0
    <3>4. q[k - n + Len(r)] = p[k]  BY <3>1, <3>2, <3>3, <1>2
    <3> QED BY <3>4, <2>1, <2>4, <1>0
  <2> QED BY <2>2, <2>3, <2>4, <1>0
<1>7. z = p  BY <1>4, <1>5, <1>6, SeqEqual
<1> QED BY <1>1, <1>7 DEF z, q, cut

-----------------------------------------------------------------------------
(* Edits and their inverses *)

\* An edit that puts r in the place of n segments is taken back by a
\* replacement of Len(r) segments by what was cut out.
LEMMA SpliceUndone ==
  ASSUME NEW p \in Seq(Segments), NEW r \in Seq(Segments),
         NEW i \in Nat, NEW n \in Nat, i + n <= Len(p),
         NEW e, ReplacedLen(e) = Len(r), Len(r) > 0,
         e.index = i, e.replacement = Cut(p, i, n)
  PROVE  ApplyReplace(e, Splice(p, i, n, r)) = p
<1>1. Len(Splice(p, i, n, r)) = Len(p) - n + Len(r)
  BY SpliceProperties
<1>2. Len(p) \in Nat /\ Len(r) \in Nat  BY LenProperties
<1>3. i < Len(p) - n + Len(r) /\ i + Len(r) <= Len(p) - n + Len(r)
  BY <1>2
<1>4. Splice(Splice(p, i, n, r), i, Len(r), Cut(p, i, n)) = p
  BY SpliceBack
<1> QED BY <1>1, <1>3, <1>4 DEF ApplyReplace

\* A nonempty sequence has a positive length.
LEMMA NonEmptyLen ==
  ASSUME NEW S, NEW s \in Seq(S), s # <<>>
  PROVE  Len(s) \in Nat /\ Len(s) > 0
BY EmptySeq, LenProperties

\* Replacements: taken back by a replacement of as many segments as were put
\* in.
LEMMA ReplaceExact ==
  ASSUME NEW p \in Seq(Segments), NEW r \in Seq(Segments), r # <<>>,
         NEW i \in Nat, NEW n \in Nat, n > 0, i + n <= Len(p)
  PROVE  LET e == Replace(i, r, Cut(p, i, n)) IN
           /\ Apply(e, p) \in Seq(Segments)
           /\ Apply(InverseEdit(e), Apply(e, p)) = p
<1> DEFINE cut == Cut(p, i, n)
           e == Replace(i, r, cut)
           u == Replace(i, cut, r)
<1>0. Len(p) \in Nat /\ Len(r) \in Nat /\ Len(r) > 0
  BY NonEmptyLen, LenProperties
<1>1. cut \in Seq(Segments) /\ Len(cut) = n  BY SpliceBack
<1>2. cut # Unset /\ cut # <<>> /\ r # Unset
  <2>1. cut # <<>>  BY <1>1, EmptySeq
  <2> QED BY <2>1, <1>1, CaptureAssumption
<1> HIDE DEF cut
<1>3. ReplacedLen(e) = n /\ ReplacedLen(u) = Len(r)
  BY <1>1, <1>2 DEF ReplacedLen, Replace
<1>4. Apply(e, p) = Splice(p, i, n, r)
  <2>1. Apply(e, p) = ApplyReplace(e, p)  BY DEF Apply, Replace
  <2>2. i < Len(p)  BY <1>0
  <2>3. e.index = i /\ e.replacement = r  BY DEF Replace
  <2> QED BY <2>1, <2>2, <2>3, <1>3 DEF ApplyReplace
<1>5. InverseEdit(e) = u
  BY <1>2 DEF InverseEdit, InverseReplace, OrEmpty, Replace
<1>6. ApplyReplace(u, Splice(p, i, n, r)) = p
  <2>1. u.index = i /\ u.replacement = Cut(p, i, n)
    BY DEF Replace, cut
  <2> QED BY <2>1, <1>0, <1>3, SpliceUndone
<1>7. Apply(u, Splice(p, i, n, r)) = p
  BY <1>6 DEF Apply, Replace
<1>8. Splice(p, i, n, r) \in Seq(Segments)  BY SpliceProperties
<1> QED BY <1>4, <1>5, <1>7, <1>8 DEF cut

\* Cutting the inserted segments out again gives the program back, and so does
\* inserting the removed ones.
LEMMA InsertExact ==
  ASSUME NEW p \in Seq(Segments), NEW r \in Seq(Segments), r # <<>>,
         NEW i \in Nat, i <= Len(p)
  PROVE  LET e == Insert(i, r) IN
           /\ Apply(e, p) \in Seq(Segments)
           /\ Apply(InverseEdit(e), Apply(e, p)) = p
<1> DEFINE e == Insert(i, r)
           q == Splice(p, i, 0, r)
           u == Remove(i, Len(r), r)
<1>0. Len(p) \in Nat /\ Len(r) \in Nat /\ Len(r) > 0
  BY NonEmptyLen, LenProperties
<1>1. Apply(e, p) = q
  <2>1. Apply(e, p) = ApplyInsert(e, p)  BY DEF Apply, Insert
  <2>2. e.at = i /\ e.segments = r  BY DEF Insert
  <2> QED BY <2>1, <2>2 DEF ApplyInsert
<1>2. i + 0 <= Len(p)  BY <1>0
<1>3. q \in Seq(Segments) /\ Len(q) = Len(p) - 0 + Len(r)
  <2>1. q \in Seq(Segments)  BY <1>2, SpliceProperties
  <2>2. Len(q) = Len(p) - 0 + Len(r)  BY <1>2, SpliceProperties
  <2> QED BY <2>1, <2>2
<1>4. Cut(p, i, 0) = <<>>
  <2>1. i + 0 < i + 1  BY Z3
  <2>2. SubSeq(p, i + 1, i + 0) = <<>>  BY <2>1, SubSeqEmpty
  <2> QED BY <2>2 DEF Cut
<1>5. Splice(q, i, Len(r), <<>>) = p
  <2>1. Splice(q, i, Len(r), Cut(p, i, 0)) = p  BY <1>2, SpliceBack
  <2> QED BY <2>1, <1>4
<1>6. InverseEdit(e) = u  BY DEF InverseEdit, Insert
<1>7. Apply(u, q) = Splice(q, i, Len(r), <<>>)
  <2>1. Apply(u, q) = ApplyRemove(u, q)  BY DEF Apply, Remove
  <2>2. u.at = i /\ u.count = Len(r)  BY DEF Remove
  <2>3. i + Len(r) <= Len(q)  BY <1>0, <1>3
  <2> QED BY <2>1, <2>2, <2>3, <1>0 DEF ApplyRemove
<1> QED BY <1>1, <1>3, <1>5, <1>6, <1>7

LEMMA RemoveExact ==
  ASSUME NEW p \in Seq(Segments),
         NEW i \in Nat, NEW n \in Nat, n > 0, i + n <= Len(p)
  PROVE  LET e == Remove(i, n, Cut(p, i, n)) IN
           /\ Apply(e, p) \in Seq(Segments)
           /\ Apply(InverseEdit(e), Apply(e, p)) = p
<1> DEFINE cut == Cut(p, i, n)
           e == Remove(i, n, cut)
           q == Splice(p, i, n, <<>>)
           u == Insert(i, cut)
<1>0. Len(p) \in Nat /\ <<>> \in Seq(Segments) /\ Len(<<>>) = 0
  BY LenProperties, EmptySeq
<1>1. cut \in Seq(Segments) /\ Len(cut) = n  BY SpliceBack, <1>0
<1>2. cut # <<>> /\ cut # Unset  BY <1>0, <1>1, CaptureAssumption
<1>3. q \in Seq(Segments) /\ Len(q) = Len(p) - n + 0
  <2>1. q \in Seq(Segments)  BY <1>0, SpliceProperties
  <2>2. \A r \in Seq(Segments) :
          Len(Splice(p, i, n, r)) = Len(p) - n + Len(r)
    BY SpliceProperties
  <2> QED BY <2>1, <2>2, <1>0
<1>4. Splice(q, i, 0, cut) = p
  <2>1. Splice(q, i, Len(<<>>), Cut(p, i, n)) = p  BY <1>0, SpliceBack
  <2> QED BY <2>1, <1>0
<1> HIDE DEF cut
<1>5. Apply(e, p) = q
  <2>1. Apply(e, p) = ApplyRemove(e, p)  BY DEF Apply, Remove
  <2>2. e.at = i /\ e.count = n  BY DEF Remove
  <2> QED BY <2>1, <2>2 DEF ApplyRemove
<1>6. InverseEdit(e) = u  BY <1>2 DEF InverseEdit, Remove, OrEmpty
<1>7. Apply(u, q) = Splice(q, i, 0, cut)
  <2>1. Apply(u, q) = ApplyInsert(u, q)  BY DEF Apply, Insert
  <2>2. u.at = i /\ u.segments = cut  BY DEF Insert
  <2>3. i <= Len(q)  BY <1>0, <1>3
  <2> QED BY <2>1, <2>2, <2>3, <1>2 DEF ApplyInsert
<1> QED BY <1>3, <1>4, <1>5, <1>6, <1>7 DEF cut

\* A list of one or two segments.
LEMMA ShortSeqs ==
  ASSUME NEW S, NEW a \in S, NEW b \in S
  PROVE  /\ <<a>> \in Seq(S) /\ Len(<<a>>) = 1 /\ <<a>>[1] = a
         /\ <<a, b>> \in Seq(S) /\ Len(<<a, b>>) = 2
         /\ <<a, b>>[1] = a /\ <<a, b>>[2] = b
OBVIOUS

\* Cutting one segment out gives that segment.
LEMMA CutOne ==
  ASSUME NEW p \in Seq(Segments), NEW i \in Nat, i + 1 <= Len(p)
  PROVE  Cut(p, i, 1) = <<p[i + 1]>> /\ p[i + 1] \in Segments
<1>0. Len(p) \in Nat  BY LenProperties
<1>1. p[i + 1] \in Segments  BY <1>0, ElementOfSeq
<1>2. ASSUME NEW m \in Int, p[m] \in Segments
      PROVE  /\ SubSeq(p, m, m) \in Seq(Segments)
             /\ Len(SubSeq(p, m, m)) = 1
             /\ SubSeq(p, m, m)[1] = p[m]
  <2>1. \A k \in m..m : p[k] \in Segments  BY <1>2
  <2>2. /\ SubSeq(p, m, m) \in Seq(Segments)
        /\ Len(SubSeq(p, m, m)) = IF m <= m THEN m - m + 1 ELSE 0
        /\ \A k \in 1..(m - m + 1) : SubSeq(p, m, m)[k] = p[m + k - 1]
    BY <2>1, SubSeqProperties
  <2> QED BY <2>2
<1>3. i + 1 \in Int  OBVIOUS
<1>4. /\ Cut(p, i, 1) \in Seq(Segments) /\ Len(Cut(p, i, 1)) = 1
      /\ Cut(p, i, 1)[1] = p[i + 1]
  BY <1>1, <1>2, <1>3 DEF Cut
<1>5. Cut(p, i, 1) = <<p[i + 1]>>
  <2>1. <<p[i + 1]>> \in Seq(Segments) /\ Len(<<p[i + 1]>>) = 1
        /\ <<p[i + 1]>>[1] = p[i + 1]
    BY <1>1, ShortSeqs
  <2>2. \A k \in 1..1 : Cut(p, i, 1)[k] = <<p[i + 1]>>[k]
    BY <2>1, <1>4
  <2> QED BY <2>1, <2>2, <1>4, SeqEqual
<1> QED BY <1>1, <1>5

\* Merging the two halves of a move gives the move back: both inherit its
\* origin, and the second its target.
LEMMA SplitExact ==
  ASSUME NEW p \in Seq(Segments), NEW i \in Nat, NEW t \in Targets,
         Apply(Split(i, t), p) # Refused
  PROVE  /\ Apply(Split(i, t), p) \in Seq(Segments)
         /\ Apply(InverseEdit(Split(i, t)), Apply(Split(i, t), p)) = p
<1> DEFINE e == Split(i, t)
           s == p[i + 1]
           h == [s EXCEPT !.target = t]
           halves == <<h, s>>
           q == Splice(p, i, 1, halves)
           u == Merge(i, i + 1, Unset)
<1>0. Len(p) \in Nat  BY LenProperties
<1>1. /\ i < Len(p) /\ s.kind = "MoveJ" /\ Apply(e, p) = q
  <2>1. Apply(e, p) = ApplySplit(e, p)  BY DEF Apply, Split
  <2>2. e.index = i /\ e.point = t  BY DEF Split
  <2> QED BY <2>1, <2>2 DEF ApplySplit
<1>2. i + 1 <= Len(p)  BY <1>0, <1>1
<1>3. s \in Segments /\ Cut(p, i, 1) = <<s>>  BY <1>2, CutOne
<1>4. h \in Segments /\ h.kind = s.kind /\ Merged(h, s) = s
  BY <1>3 DEF Segments, Merged
<1> HIDE DEF s, h
<1>5. halves \in Seq(Segments) /\ Len(halves) = 2
      /\ halves[1] = h /\ halves[2] = s
  BY <1>3, <1>4, ShortSeqs
<1> HIDE DEF halves
<1>6. /\ q \in Seq(Segments) /\ Len(q) = Len(p) + 1
      /\ q[i + 1] = h /\ q[i + 2] = s
  <2>1. ASSUME NEW r \in Seq(Segments), NEW n \in Nat, i + n <= Len(p)
        PROVE  /\ Splice(p, i, n, r) \in Seq(Segments)
               /\ Len(Splice(p, i, n, r)) = Len(p) - n + Len(r)
               /\ \A k \in 1..(Len(p) - n + Len(r)) :
                    Splice(p, i, n, r)[k] =
                      IF k <= i THEN p[k]
                      ELSE IF k <= i + Len(r) THEN r[k - i]
                      ELSE p[k - Len(r) + n]
    BY <2>1, SpliceProperties
  <2>2. q \in Seq(Segments) /\ Len(q) = Len(p) - 1 + Len(halves)
    BY <2>1, <1>2, <1>5
  <2>3. \A k \in 1..(Len(p) - 1 + Len(halves)) :
          q[k] = IF k <= i THEN p[k]
                 ELSE IF k <= i + Len(halves) THEN halves[k - i]
                 ELSE p[k - Len(halves) + 1]
    BY <2>1, <1>2, <1>5
  <2>4. q[i + 1] = halves[i + 1 - i]
    <3>1. /\ i + 1 \in 1..(Len(p) - 1 + Len(halves))
          /\ ~(i + 1 <= i) /\ i + 1 <= i + Len(halves)
      BY <1>0, <1>2, <1>5
    <3> HIDE DEF q
    <3> QED BY <2>3, <3>1
  <2>5. q[i + 2] = halves[i + 2 - i]  BY <2>3, <1>0, <1>2, <1>5
  <2>6. i + 1 - i = 1 /\ i + 2 - i = 2  OBVIOUS
  <2> QED BY <2>2, <2>4, <2>5, <2>6, <1>0, <1>5
<1>7. InverseEdit(e) = u  BY DEF InverseEdit, Split
<1>8. Splice(q, i, 2, <<s>>) = p
  <2>1. ASSUME NEW r \in Seq(Segments), NEW n \in Nat, i + n <= Len(p)
        PROVE  Splice(Splice(p, i, n, r), i, Len(r), Cut(p, i, n)) = p
    BY <2>1, SpliceBack
  <2>2. Splice(q, i, Len(halves), Cut(p, i, 1)) = p  BY <2>1, <1>2, <1>5
  <2> QED BY <2>2, <1>3, <1>5
<1> HIDE DEF q
<1>9. Apply(u, q) = Splice(q, i, 2, <<s>>)
  <2>1. Apply(u, q) = ApplyMerge(u, q)  BY DEF Apply, Merge
  <2>2. u.first = i /\ u.second = i + 1  BY DEF Merge
  <2>3. i + 1 < Len(q)  BY <1>0, <1>1, <1>6
  <2>4. q[i + 1 + 1] = s  BY <1>6
  <2> QED BY <2>1, <2>2, <2>3, <2>4, <1>1, <1>4, <1>6 DEF ApplyMerge
<1> QED BY <1>1, <1>6, <1>7, <1>8, <1>9 DEF q

\* A merge is taken back by putting both originals in the place of the merged
\* segment.
LEMMA MergeExact ==
  ASSUME NEW p \in Seq(Segments), NEW i \in Nat, NEW j \in Nat,
         i + 2 <= Len(p), Apply(Merge(i, j, Cut(p, i, 2)), p) # Refused
  PROVE  LET e == Merge(i, j, Cut(p, i, 2)) IN
           /\ Apply(e, p) \in Seq(Segments)
           /\ Apply(InverseEdit(e), Apply(e, p)) = p
<1> DEFINE cut == Cut(p, i, 2)
           e == Merge(i, j, cut)
           m == Merged(p[i + 1], p[i + 2])
           q == Splice(p, i, 2, <<m>>)
           u == Replace(i, cut, Unset)
<1>0. Len(p) \in Nat  BY LenProperties
<1>1. m \in Segments
  <2>1. p[i + 1] \in Segments /\ p[i + 2] \in Segments
    <3>1. i + 1 \in 1..Len(p) /\ i + 2 \in 1..Len(p)  BY <1>0
    <3> QED BY <3>1, ElementOfSeq
  <2> QED BY <2>1 DEF Segments, Merged
<1>2. j = i + 1 /\ Apply(e, p) = q
  <2>1. Apply(e, p) = ApplyMerge(e, p)  BY DEF Apply, Merge
  <2>2. e.first = i /\ e.second = j  BY DEF Merge
  <2>3. j = i + 1  BY <2>1, <2>2 DEF ApplyMerge
  <2>4. p[j + 1] = p[i + 2]  BY <2>3
  <2> QED BY <2>1, <2>2, <2>3, <2>4 DEF ApplyMerge
<1> HIDE DEF m
<1>3. <<m>> \in Seq(Segments) /\ Len(<<m>>) = 1  BY <1>1, ShortSeqs
<1>4. \A r \in Seq(Segments), n \in Nat :
        i + n <= Len(p) => /\ Splice(p, i, n, r) \in Seq(Segments)
                           /\ Cut(p, i, n) \in Seq(Segments)
  BY SpliceProperties, SpliceBack
<1>5. q \in Seq(Segments) /\ cut \in Seq(Segments)  BY <1>3, <1>4
<1>6. cut # Unset  BY <1>5, CaptureAssumption
<1>7. InverseEdit(e) = u
  BY <1>6 DEF InverseEdit, InverseMerge, Merge
<1>8. ASSUME NEW r \in Seq(Segments), NEW n \in Nat, i + n <= Len(p),
             Len(r) = 1
      PROVE  ApplyReplace(Replace(i, Cut(p, i, n), Unset), Splice(p, i, n, r)) = p
  <2> DEFINE v == Replace(i, Cut(p, i, n), Unset)
  <2>1. v.index = i /\ v.replacement = Cut(p, i, n) /\ v.original = Unset
    BY DEF Replace
  <2>2. ReplacedLen(v) = Len(r) /\ Len(r) > 0
    BY <2>1, <1>8 DEF ReplacedLen
  <2> QED BY <2>1, <2>2, <1>8, SpliceUndone
<1>9. ApplyReplace(u, q) = p  BY <1>3, <1>8
<1>10. Apply(u, q) = p  BY <1>9 DEF Apply, Replace
<1> QED BY <1>2, <1>5, <1>7, <1>10

\* A moved waypoint is moved back to the target captured.
LEMMA MoveExact ==
  ASSUME NEW p \in Seq(Segments), NEW i \in Nat, NEW t \in Targets,
         i < Len(p), Apply(Move(i, t, p[i + 1].target), p) # Refused
  PROVE  LET e == Move(i, t, p[i + 1].target) IN
           /\ Apply(e, p) \in Seq(Segments)
           /\ Apply(InverseEdit(e), Apply(e, p)) = p
<1> DEFINE old == p[i + 1].target
           e == Move(i, t, old)
           q == [p EXCEPT ![i + 1].target = t]
           u == Move(i, old, t)
<1>0. Len(p) \in Nat /\ i + 1 \in 1..Len(p)  BY LenProperties
<1>1. p[i + 1] \in Segments  BY <1>0, ElementOfSeq
<1>2. old \in Targets /\ old # NoTarget /\ old # Unset
  BY <1>1, CaptureAssumption DEF Segments
<1>3. Apply(e, p) = q /\ p[i + 1].kind = "MoveJ"
  <2>1. Apply(e, p) = ApplyMove(e, p)  BY DEF Apply, Move
  <2>2. e.index = i /\ e.new = t  BY DEF Move
  <2> QED BY <2>1, <2>2 DEF ApplyMove
<1>4. [p[i + 1] EXCEPT !.target = t] \in Segments  BY <1>1 DEF Segments
<1>5. q \in Seq(Segments) /\ Len(q) = Len(p)
  BY <1>0, <1>4, ExceptSeq
<1>6. q[i + 1].kind = "MoveJ"
  <2>1. q[i + 1] = [p[i + 1] EXCEPT !.target = t]  BY <1>0
  <2> QED BY <2>1, <1>1, <1>3 DEF Segments
<1>7. [q EXCEPT ![i + 1].target = old] = p
  <2> DEFINE z == [q EXCEPT ![i + 1].target = old]
  <2>1. q[i + 1] = [p[i + 1] EXCEPT !.target = t]  BY <1>0
  <2>2. [q[i + 1] EXCEPT !.target = old] = p[i + 1]
    BY <2>1, <1>1 DEF Segments
  <2>3. z \in Seq(Segments) /\ Len(z) = Len(p)
    BY <2>2, <1>0, <1>1, <1>5, ExceptSeq
  <2>4. \A k \in 1..Len(p) : z[k] = p[k]
    BY <2>2, <1>0, <1>5
  <2> QED BY <2>3, <2>4, SeqEqual
<1>8. InverseEdit(e) = u  BY <1>2 DEF InverseEdit, Move
<1>9. Apply(u, q) = p
  <2>1. Apply(u, q) = ApplyMove(u, q)  BY DEF Apply, Move
  <2>2. u.index = i /\ u.new = old  BY DEF Move
  <2> HIDE DEF q
  <2> QED BY <2>1, <2>2, <1>2, <1>5, <1>6, <1>7 DEF ApplyMove
<1> QED BY <1>3, <1>5, <1>8, <1>9

\* Every captured edit that is not refused gives a program, and its inverse
\* gives the program back.
LEMMA CapturedExact ==
  ASSUME <<>> \notin Replacements, NEW p \in Seq(Segments),
         NEW e \in CapturedEdits(p), Apply(e, p) # Refused
  PROVE  /\ Apply(e, p) \in Seq(Segments)
         /\ Apply(InverseEdit(e), Apply(e, p)) = p
<1>0. Len(p) \in Nat /\ \A new \in Replacements : new \in Seq(Segments)
  BY LenProperties, SessionAssumption
<1>1. CASE e \in {Replace(r[1], new, Cut(p, r[1], r[2])) :
                   r \in Ranges(p), new \in Replacements}
  <2>1. PICK r \in Ranges(p), new \in Replacements :
          e = Replace(r[1], new, Cut(p, r[1], r[2]))
    BY <1>1
  <2>2. r[1] \in Nat /\ r[2] \in Nat /\ r[2] > 0 /\ r[1] + r[2] <= Len(p)
    BY <1>0 DEF Ranges
  <2>3. new \in Seq(Segments) /\ new # <<>>  BY <1>0
  <2> QED BY <2>1, <2>2, <2>3, ReplaceExact
<1>2. CASE e \in {Insert(at, new) : at \in 0..Len(p), new \in Replacements}
  <2>1. PICK at \in 0..Len(p), new \in Replacements : e = Insert(at, new)
    BY <1>2
  <2>2. at \in Nat /\ at <= Len(p)  BY <1>0
  <2>3. new \in Seq(Segments) /\ new # <<>>  BY <1>0
  <2> QED BY <2>1, <2>2, <2>3, InsertExact
<1>3. CASE e \in {Remove(r[1], r[2], Cut(p, r[1], r[2])) : r \in Ranges(p)}
  <2>1. PICK r \in Ranges(p) : e = Remove(r[1], r[2], Cut(p, r[1], r[2]))
    BY <1>3
  <2>2. r[1] \in Nat /\ r[2] \in Nat /\ r[2] > 0 /\ r[1] + r[2] <= Len(p)
    BY <1>0 DEF Ranges
  <2> QED BY <2>1, <2>2, RemoveExact
<1>4. CASE e \in {Split(i, t) : i \in 0..Len(p), t \in Targets}
  <2>1. PICK i \in 0..Len(p), t \in Targets : e = Split(i, t)  BY <1>4
  <2>2. i \in Nat  BY <1>0
  <2> QED BY <2>1, <2>2, SplitExact
<1>5. CASE e \in {Merge(i - 1, i, Cut(p, i - 1, 2)) : i \in 1..(Len(p) - 1)}
  <2>1. PICK i \in 1..(Len(p) - 1) : e = Merge(i - 1, i, Cut(p, i - 1, 2))
    BY <1>5
  <2>2. i - 1 \in Nat /\ i \in Nat /\ (i - 1) + 2 <= Len(p)  BY <1>0
  <2> QED BY <2>1, <2>2, MergeExact
<1>6. CASE e \in {Move(i, t, p[i + 1].target) :
                   i \in 0..(Len(p) - 1), t \in Targets}
  <2>1. PICK i \in 0..(Len(p) - 1), t \in Targets :
          e = Move(i, t, p[i + 1].target)
    BY <1>6
  <2>2. i \in Nat /\ i < Len(p)  BY <1>0
  <2> QED BY <2>1, <2>2, MoveExact
<1> QED BY <1>1, <1>2, <1>3, <1>4, <1>5, <1>6 DEF CapturedEdits

\* An edit without captures gives a program too, and its inverse is refused
\* by every program.
LEMMA PlainLoud ==
  ASSUME NEW p \in Seq(Segments), NEW q \in Seq(Segments),
         NEW e \in PlainEdits(p), Apply(e, p) # Refused
  PROVE  /\ Apply(e, p) \in Seq(Segments)
         /\ Apply(InverseEdit(e), q) = Refused
<1>0. Len(p) \in Nat /\ <<>> \in Seq(Segments)  BY LenProperties, EmptySeq
<1>1. CASE e \in {Remove(at, n, Unset) : at \in 0..Len(p), n \in 0..Len(p)}
  <2>1. PICK at \in 0..Len(p), n \in 0..Len(p) : e = Remove(at, n, Unset)
    BY <1>1
  <2>2. at \in Nat /\ n \in Nat  BY <1>0
  <2>3. Apply(e, p) = Splice(p, at, n, <<>>) /\ at + n <= Len(p)
    BY <2>1 DEF Apply, ApplyRemove, Remove
  <2>4. \A r \in Seq(Segments) : Splice(p, at, n, r) \in Seq(Segments)
    BY <2>2, <2>3, SpliceProperties
  <2>5. InverseEdit(e) = Insert(at, <<>>)
    BY <2>1 DEF InverseEdit, Remove, OrEmpty
  <2>6. Apply(Insert(at, <<>>), q) = Refused
    BY DEF Apply, ApplyInsert, Insert
  <2> QED BY <2>3, <2>4, <2>5, <2>6, <1>0
<1>2. CASE e \in {Merge(i, j, Unset) : i \in 0..Len(p), j \in 0..Len(p)}
  <2>1. PICK i \in 0..Len(p), j \in 0..Len(p) : e = Merge(i, j, Unset)
    BY <1>2
  <2> DEFINE m == Merged(p[i + 1], p[j + 1])
  <2>2. i \in Nat /\ j \in Nat  BY <1>0
  <2>3. Apply(e, p) = Splice(p, i, 2, <<m>>) /\ j = i + 1 /\ j < Len(p)
    BY <2>1 DEF Apply, ApplyMerge, Merge
  <2>4. m \in Segments
    <3>1. i + 1 \in 1..Len(p) /\ j + 1 \in 1..Len(p)  BY <1>0, <2>2, <2>3
    <3>2. p[i + 1] \in Segments /\ p[j + 1] \in Segments
      BY <3>1, ElementOfSeq
    <3> QED BY <3>2 DEF Segments, Merged
  <2> HIDE DEF m
  <2>5. <<m>> \in Seq(Segments)  BY <2>4, ShortSeqs
  <2>6. \A r \in Seq(Segments), n \in Nat :
          i + n <= Len(p) => Splice(p, i, n, r) \in Seq(Segments)
    BY <2>2, SpliceProperties
  <2>7. i + 2 <= Len(p)  BY <1>0, <2>2, <2>3
  <2>8. InverseEdit(e) = Split(i, NoTarget)
    BY <2>1 DEF InverseEdit, InverseMerge, Merge
  <2>9. Apply(Split(i, NoTarget), q) = Refused
    BY DEF Apply, ApplySplit, Split
  <2> QED BY <2>3, <2>5, <2>6, <2>7, <2>8, <2>9
<1>3. CASE e \in {Move(i, t, Unset) :
                   i \in 0..Len(p), t \in Targets \cup {NoTarget}}
  <2>1. PICK i \in 0..Len(p), t \in Targets \cup {NoTarget} :
          e = Move(i, t, Unset)
    BY <1>3
  <2>2. /\ i < Len(p) /\ t # NoTarget
        /\ Apply(e, p) = [p EXCEPT ![i + 1].target = t]
    BY <2>1 DEF Apply, ApplyMove, Move
  <2>3. i + 1 \in 1..Len(p)  BY <1>0, <2>2
  <2>4. [p[i + 1] EXCEPT !.target = t] \in Segments
    <3>1. p[i + 1] \in Segments  BY <2>3, ElementOfSeq
    <3>2. t \in Targets  BY <2>2
    <3> QED BY <3>1, <3>2 DEF Segments
  <2>5. [p EXCEPT ![i + 1].target = t] \in Seq(Segments)
    BY <2>3, <2>4, ExceptSeq
  <2>6. InverseEdit(e) = Move(i, NoTarget, t)
    BY <2>1 DEF InverseEdit, Move
  <2>7. Apply(Move(i, NoTarget, t), q) = Refused
    BY DEF Apply, ApplyMove, Move
  <2> QED BY <2>2, <2>5, <2>6, <2>7
<1> QED BY <1>1, <1>2, <1>3 DEF PlainEdits

\* The inverse of the inverse is the edit itself, but for a split, whose
\* inverse has not captured the point and is refused when turned back.
LEMMA CapturedRedone ==
  ASSUME NEW p \in Seq(Segments), NEW e \in CapturedEdits(p),
         ~InverseOfMerge(InverseEdit(e))
  PROVE  Apply(InverseEdit(InverseEdit(e)), p) \in {Apply(e, p), Refused}
<1>0. /\ Len(p) \in Nat /\ <<>> \in Seq(Segments)
      /\ \A new \in Replacements : new \in Seq(Segments) /\ new # Unset
  BY LenProperties, EmptySeq, SessionAssumption, CaptureAssumption
<1>1. ASSUME NEW r \in Ranges(p)
      PROVE  /\ r[1] \in Nat /\ r[2] \in Nat
             /\ Cut(p, r[1], r[2]) # Unset
             /\ Len(Cut(p, r[1], r[2])) = r[2]
  <2>1. r[1] \in Nat /\ r[2] \in Nat /\ r[1] + r[2] <= Len(p)
    BY <1>0 DEF Ranges
  <2>2. /\ Cut(p, r[1], r[2]) \in Seq(Segments)
        /\ Len(Cut(p, r[1], r[2])) = r[2]
    BY <1>0, <2>1, SpliceBack
  <2> QED BY <2>1, <2>2, CaptureAssumption
<1>2. CASE e \in {Replace(r[1], new, Cut(p, r[1], r[2])) :
                   r \in Ranges(p), new \in Replacements}
  <2>1. PICK r \in Ranges(p), new \in Replacements :
          e = Replace(r[1], new, Cut(p, r[1], r[2]))
    BY <1>2
  <2> DEFINE cut == Cut(p, r[1], r[2])
  <2>2. cut # Unset /\ new # Unset  BY <1>0, <1>1
  <2> HIDE DEF cut
  <2>3. InverseEdit(Replace(r[1], new, cut)) = Replace(r[1], cut, new)
    BY <2>2 DEF InverseEdit, InverseReplace, OrEmpty, Replace
  <2>4. InverseEdit(Replace(r[1], cut, new)) = Replace(r[1], new, cut)
    BY <2>2 DEF InverseEdit, InverseReplace, OrEmpty, Replace
  <2> QED BY <2>1, <2>3, <2>4 DEF cut
<1>3. CASE e \in {Insert(at, new) : at \in 0..Len(p), new \in Replacements}
  <2>1. PICK at \in 0..Len(p), new \in Replacements : e = Insert(at, new)
    BY <1>3
  <2>2. InverseEdit(Insert(at, new)) = Remove(at, Len(new), new)
    BY DEF InverseEdit, Insert
  <2>3. InverseEdit(Remove(at, Len(new), new)) = Insert(at, new)
    BY <1>0 DEF InverseEdit, Remove, OrEmpty
  <2> QED BY <2>1, <2>2, <2>3
<1>4. CASE e \in {Remove(r[1], r[2], Cut(p, r[1], r[2])) : r \in Ranges(p)}
  <2>1. PICK r \in Ranges(p) : e = Remove(r[1], r[2], Cut(p, r[1], r[2]))
    BY <1>4
  <2> DEFINE cut == Cut(p, r[1], r[2])
  <2>2. cut # Unset /\ Len(cut) = r[2]  BY <1>1
  <2> HIDE DEF cut
  <2>3. InverseEdit(Remove(r[1], r[2], cut)) = Insert(r[1], cut)
    BY <2>2 DEF InverseEdit, Remove, OrEmpty
  <2>4. InverseEdit(Insert(r[1], cut)) = Remove(r[1], r[2], cut)
    BY <2>2 DEF InverseEdit, Insert
  <2> QED BY <2>1, <2>3, <2>4 DEF cut
<1>5. CASE e \in {Split(i, t) : i \in 0..Len(p), t \in Targets}
  <2>1. PICK i \in 0..Len(p), t \in Targets : e = Split(i, t)  BY <1>5
  <2>2. InverseEdit(Split(i, t)) = Merge(i, i + 1, Unset)
    BY DEF InverseEdit, Split
  <2>3. InverseEdit(Merge(i, i + 1, Unset)) = Split(i, NoTarget)
    BY DEF InverseEdit, InverseMerge, Merge
  <2>4. Apply(Split(i, NoTarget), p) = Refused
    BY DEF Apply, ApplySplit, Split
  <2> QED BY <2>1, <2>2, <2>3, <2>4
<1>6. CASE e \in {Merge(i - 1, i, Cut(p, i - 1, 2)) : i \in 1..(Len(p) - 1)}
  <2>1. PICK i \in 1..(Len(p) - 1) : e = Merge(i - 1, i, Cut(p, i - 1, 2))
    BY <1>6
  <2> DEFINE cut == Cut(p, i - 1, 2)
  <2>2. cut # Unset
    <3>1. i - 1 \in Nat /\ (i - 1) + 2 <= Len(p)  BY <1>0
    <3>2. cut \in Seq(Segments)  BY <3>1, SpliceBack
    <3> QED BY <3>2, CaptureAssumption
  <2> HIDE DEF cut
  <2>3. InverseEdit(Merge(i - 1, i, cut)) = Replace(i - 1, cut, Unset)
    BY <2>2 DEF InverseEdit, InverseMerge, Merge
  <2>4. InverseOfMerge(Replace(i - 1, cut, Unset))
    BY DEF InverseOfMerge, Replace
  <2> QED BY <2>1, <2>3, <2>4 DEF cut
<1>7. CASE e \in {Move(i, t, p[i + 1].target) :
                   i \in 0..(Len(p) - 1), t \in Targets}
  <2>1. PICK i \in 0..(Len(p) - 1), t \in Targets :
          e = Move(i, t, p[i + 1].target)
    BY <1>7
  <2> DEFINE old == p[i + 1].target
  <2>2. old # Unset /\ t # Unset
    <3>1. i + 1 \in 1..Len(p)  BY <1>0
    <3>2. p[i + 1] \in Segments  BY <3>1, ElementOfSeq
    <3>3. old \in Targets  BY <3>2 DEF Segments
    <3> QED BY <3>3, CaptureAssumption
  <2> HIDE DEF old
  <2>3. InverseEdit(Move(i, t, old)) = Move(i, old, t)
    BY <2>2 DEF InverseEdit, Move
  <2>4. InverseEdit(Move(i, old, t)) = Move(i, t, old)
    BY <2>2 DEF InverseEdit, Move
  <2> QED BY <2>1, <2>3, <2>4 DEF old
<1> QED BY <1>2, <1>3, <1>4, <1>5, <1>6, <1>7 DEF CapturedEdits

-----------------------------------------------------------------------------
(* The session *)

\* The inductive invariant: both stacks are sequences of the same length, and
\* the contract holds of every edit in force, the undone ones uncovering the
\* next.  That an edit can be done again rests on the same contract: only an
\* exact undo leaves the program the edit below had produced.
SessionInv ==
  /\ SessionTypeOK
  /\ \E E : undo \in Seq(E)
  /\ UndoExactOrLoud
  /\ RedoExactOrLoud

\* The positions of a sequence are positions of a longer one.
LEMMA OneMore ==
  ASSUME NEW n \in Nat, NEW k \in 1..n
  PROVE  k \in 1..(n + 1) /\ k # n + 1
OBVIOUS

\* One position further on in a sequence with one element more.
LEMMA AppendAt ==
  ASSUME NEW S, NEW s \in Seq(S), NEW x \in S, NEW k \in 1..Len(s)
  PROVE  Append(s, x)[k + 1] = IF k = Len(s) THEN x ELSE s[k + 1]
<1>0. Len(s) \in Nat  BY LenProperties
<1>1. CASE k = Len(s)
  BY <1>1, AppendProperties
<1>2. CASE k < Len(s)
  <2> DEFINE j == k + 1
  <2>1. j \in 1..Len(s)  BY <1>0, <1>2
  <2> HIDE DEF j
  <2>2. Append(s, x)[j] = s[j]
    <3>1. \A i \in 1..Len(s) : Append(s, x)[i] = s[i]  BY AppendProperties
    <3> QED BY <2>1, <3>1
  <2> QED BY <2>2, <1>0, <1>2 DEF j
<1> QED BY <1>0, <1>1, <1>2

\* The invariant as functions of positions, the form the steps below use.
LEMMA SessionFacts ==
  ASSUME SessionInv
  PROVE  /\ Len(undo) \in Nat /\ DOMAIN undo = 1..Len(undo)
         /\ Len(past) = Len(undo)
         /\ \A k \in 1..Len(undo) :
              /\ After(k) = IF k = Len(undo) THEN program ELSE past[k + 1]
              /\ past[k] \in Seq(Segments)
<1>1. PICK E : undo \in Seq(E)  BY DEF SessionInv
<1>2. Len(undo) \in Nat /\ DOMAIN undo = 1..Len(undo)
  BY <1>1, LenProperties
<1>3. past \in Seq(Seq(Segments)) /\ Len(past) = Len(undo)
      /\ program \in Seq(Segments)
  BY DEF SessionInv, SessionTypeOK
<1>4. \A k \in 1..Len(undo) : past[k] \in Seq(Segments)
  BY <1>3, ElementOfSeq
<1>5. ASSUME NEW k \in 1..Len(undo)
      PROVE  After(k) = IF k = Len(undo) THEN program ELSE past[k + 1]
  <2>1. \A s \in Seq(Seq(Segments)), x \in Seq(Segments) :
          \A i \in 1..Len(s) :
            Append(s, x)[i + 1] = IF i = Len(s) THEN x ELSE s[i + 1]
    BY AppendAt
  <2> QED BY <2>1, <1>3 DEF After
<1> QED BY <1>2, <1>3, <1>4, <1>5

\* An edit done adds a level on which the contract holds.
LEMMA DoStep ==
  ASSUME SessionInv, NEW e, NEW c \in BOOLEAN, Do(e, c),
         Apply(e, program) \in Seq(Segments),
         Apply(InverseEdit(e), Apply(e, program)) =
           IF c THEN program ELSE Refused,
         c /\ ~InverseOfMerge(InverseEdit(e)) =>
           Apply(InverseEdit(InverseEdit(e)), program)
             \in {Apply(e, program), Refused}
  PROVE  SessionInv'
<1> DEFINE new == [edit |-> InverseEdit(e), captured |-> c]
<1>1. PICK E : undo \in Seq(E)  BY DEF SessionInv
<1>2. past \in Seq(Seq(Segments)) /\ program \in Seq(Segments)
  BY DEF SessionInv, SessionTypeOK
<1>3. /\ program' = Apply(e, program) /\ undo' = Append(undo, new)
      /\ past' = Append(past, program)
  BY DEF Do
<1>4. Len(undo) \in Nat /\ Len(past) = Len(undo)
  BY SessionFacts
<1> HIDE DEF new
<1>5. /\ undo' \in Seq(E \cup {new}) /\ Len(undo') = Len(undo) + 1
      /\ undo'[Len(undo) + 1] = new
      /\ \A k \in 1..Len(undo) : undo'[k] = undo[k]
  <2>1. undo \in Seq(E \cup {new})  BY <1>1, SeqMonotonic
  <2> QED BY <2>1, <1>3, AppendProperties
<1>6. /\ past' \in Seq(Seq(Segments)) /\ Len(past') = Len(undo) + 1
      /\ past'[Len(undo) + 1] = program
      /\ \A k \in 1..Len(undo) : past'[k] = past[k]
  BY <1>2, <1>3, <1>4, AppendProperties
<1>7. SessionTypeOK'
  BY <1>3, <1>5, <1>6 DEF SessionTypeOK
<1>8. ASSUME NEW k \in 1..(Len(undo) + 1)
      PROVE  /\ Apply(undo'[k].edit, After(k)') =
                  IF undo'[k].captured THEN past'[k] ELSE Refused
             /\ undo'[k].captured /\ ~InverseOfMerge(undo'[k].edit) =>
                  Apply(InverseEdit(undo'[k].edit), past'[k])
                    \in {After(k)', Refused}
  <2>1. After(k)' = IF k = Len(undo) + 1 THEN program' ELSE past'[k + 1]
    <3>1. \A s \in Seq(Seq(Segments)), x \in Seq(Segments) :
            \A i \in 1..Len(s) :
              Append(s, x)[i + 1] = IF i = Len(s) THEN x ELSE s[i + 1]
      BY AppendAt
    <3>2. program' \in Seq(Segments)  BY <1>3
    <3>3. k \in 1..Len(past')  BY <1>6
    <3>4. Append(past', program')[k + 1] =
            IF k = Len(past') THEN program' ELSE past'[k + 1]
      BY <3>1, <3>2, <3>3, <1>6
    <3>5. After(k)' = Append(past', program')[k + 1]  BY DEF After
    <3> QED BY <3>4, <3>5, <1>6
  <2>2. CASE k = Len(undo) + 1
    BY <2>1, <2>2, <1>3, <1>5, <1>6 DEF new
  <2>3. CASE k \in 1..Len(undo)
    <3>1. After(k)' = After(k)
      <4>1. After(k) = IF k = Len(undo) THEN program ELSE past[k + 1]
        <5>1. \A i \in 1..Len(undo) :
                After(i) = IF i = Len(undo) THEN program ELSE past[i + 1]
          BY SessionFacts
        <5> QED BY <2>3, <5>1
      <4>0. k = Len(undo) \/ k < Len(undo)  BY <2>3, <1>4
      <4>2. CASE k = Len(undo)  BY <4>1, <4>2, <2>1, <1>4, <1>6
      <4>3. CASE k < Len(undo)
        <5>1. k + 1 \in 1..Len(undo)  BY <4>3, <2>3, <1>4
        <5> QED BY <5>1, <4>1, <4>3, <2>1, <1>4, <1>6
      <4> QED BY <4>0, <4>2, <4>3
    <3>2. Apply(undo[k].edit, After(k)) =
            IF undo[k].captured THEN past[k] ELSE Refused
      BY <2>3, SessionFacts DEF SessionInv, UndoExactOrLoud, Before
    <3>3. undo[k].captured /\ ~InverseOfMerge(undo[k].edit) =>
            Apply(InverseEdit(undo[k].edit), past[k]) \in {After(k), Refused}
      BY <2>3, SessionFacts DEF SessionInv, RedoExactOrLoud, Before
    <3> QED BY <3>1, <3>2, <3>3, <2>3, <1>5, <1>6
  <2> QED BY <2>2, <2>3, <1>4
<1>9. UndoExactOrLoud' /\ RedoExactOrLoud'
  <2>1. DOMAIN undo' = 1..(Len(undo) + 1)  BY <1>5, LenProperties
  <2> QED BY <2>1, <1>8 DEF UndoExactOrLoud, RedoExactOrLoud, Before
<1> QED BY <1>5, <1>7, <1>9 DEF SessionInv

\* An undo takes the topmost level away, and the level below is as it was.
LEMMA UndoStep ==
  ASSUME SessionInv, Undo
  PROVE  SessionInv'
<1> DEFINE n == Len(undo) - 1
<1>1. PICK E : undo \in Seq(E)  BY DEF SessionInv
<1>2. past \in Seq(Seq(Segments)) /\ Len(past) = Len(undo)
  BY DEF SessionInv, SessionTypeOK
<1>3. n \in Nat /\ n + 1 = Len(undo)
  <2>1. undo # <<>>  BY DEF Undo
  <2> QED BY <2>1, <1>1, NonEmptyLen
<1>4. program' = past[Len(undo)]
  <2>1. Len(undo) \in 1..Len(undo)  BY <1>3
  <2>2. Apply(LastEntry.edit, program) =
          IF LastEntry.captured THEN past[Len(undo)] ELSE Refused
    BY <2>1, SessionFacts
       DEF SessionInv, UndoExactOrLoud, Before, LastEntry
  <2> QED BY <2>2 DEF Undo
<1>5. undo' \in Seq(E) /\ Len(undo') = n /\ \A k \in 1..n : undo'[k] = undo[k]
  <2>1. \A k \in 1..n : undo[k] \in E  BY <1>1, <1>3, ElementOfSeq
  <2>2. /\ SubSeq(undo, 1, n) \in Seq(E)
        /\ Len(SubSeq(undo, 1, n)) = IF 1 <= n THEN n - 1 + 1 ELSE 0
        /\ \A k \in 1..(n - 1 + 1) : SubSeq(undo, 1, n)[k] = undo[1 + k - 1]
    BY <2>1, <1>3, SubSeqProperties
  <2> QED BY <2>2, <1>3 DEF Undo
<1>6. /\ past' \in Seq(Seq(Segments)) /\ Len(past') = n
      /\ \A k \in 1..n : past'[k] = past[k]
  <2>1. \A k \in 1..n : past[k] \in Seq(Segments)
    BY <1>2, <1>3, ElementOfSeq
  <2>2. /\ SubSeq(past, 1, n) \in Seq(Seq(Segments))
        /\ Len(SubSeq(past, 1, n)) = IF 1 <= n THEN n - 1 + 1 ELSE 0
        /\ \A k \in 1..(n - 1 + 1) : SubSeq(past, 1, n)[k] = past[1 + k - 1]
    BY <2>1, <1>3, SubSeqProperties
  <2>3. Len(past) - 1 = n  BY <1>2
  <2> QED BY <2>2, <2>3, <1>3 DEF Undo
<1> HIDE DEF n
<1>7. program' \in Seq(Segments)
  <2>1. Len(undo) \in 1..Len(past)  BY <1>2, <1>3
  <2> QED BY <2>1, <1>2, <1>4, ElementOfSeq
<1>8. ASSUME NEW k \in 1..n
      PROVE  /\ Apply(undo'[k].edit, After(k)') =
                  IF undo'[k].captured THEN past'[k] ELSE Refused
             /\ undo'[k].captured /\ ~InverseOfMerge(undo'[k].edit) =>
                  Apply(InverseEdit(undo'[k].edit), past'[k])
                    \in {After(k)', Refused}
  <2>1. After(k)' = past[k + 1]
    <3>1. \A s \in Seq(Seq(Segments)), x \in Seq(Segments) :
            \A i \in 1..Len(s) :
              Append(s, x)[i + 1] = IF i = Len(s) THEN x ELSE s[i + 1]
      BY AppendAt
    <3>2. Append(past', program')[k + 1] =
            IF k = n THEN program' ELSE past'[k + 1]
      BY <3>1, <1>6, <1>7
    <3>3. After(k)' = Append(past', program')[k + 1]  BY DEF After
    <3>4. CASE k = n  BY <3>2, <3>3, <3>4, <1>3, <1>4
    <3>5. CASE k < n
      <4>1. k + 1 \in 1..n  BY <3>5, <1>3
      <4> QED BY <4>1, <3>2, <3>3, <3>5, <1>3, <1>6
    <3> QED BY <3>4, <3>5, <1>3
  <2>2. k \in 1..Len(undo) /\ k # Len(undo)
    <3>1. k \in 1..(n + 1) /\ k # n + 1  BY <1>3, OneMore
    <3> QED BY <3>1, <1>3
  <2>3. After(k) = past[k + 1]
    <3>1. \A i \in 1..Len(undo) :
            After(i) = IF i = Len(undo) THEN program ELSE past[i + 1]
      BY SessionFacts
    <3> QED BY <2>2, <3>1
  <2>4. Apply(undo[k].edit, After(k)) =
          IF undo[k].captured THEN past[k] ELSE Refused
    BY <2>2, SessionFacts DEF SessionInv, UndoExactOrLoud, Before
  <2>5. undo[k].captured /\ ~InverseOfMerge(undo[k].edit) =>
          Apply(InverseEdit(undo[k].edit), past[k]) \in {After(k), Refused}
    BY <2>2, SessionFacts DEF SessionInv, RedoExactOrLoud, Before
  <2> QED BY <2>1, <2>3, <2>4, <2>5, <1>5, <1>6
<1>9. UndoExactOrLoud' /\ RedoExactOrLoud'
  <2>1. DOMAIN undo' = 1..n  BY <1>5, LenProperties
  <2> QED BY <2>1, <1>8 DEF UndoExactOrLoud, RedoExactOrLoud, Before
<1>10. SessionTypeOK'  BY <1>5, <1>6, <1>7 DEF SessionTypeOK
<1> QED BY <1>5, <1>9, <1>10 DEF SessionInv

\* The invariant holds of every session without empty replacements.
THEOREM SessionInvariant ==
  ASSUME <<>> \notin Replacements
  PROVE  Spec => []SessionInv
<1>1. Init => SessionInv
  <2> SUFFICES ASSUME Init PROVE SessionInv  OBVIOUS
  <2>1. program \in Seq(Segments) /\ undo = <<>> /\ past = <<>>
    BY SessionAssumption DEF Init
  <2>2. <<>> \in Seq({}) /\ <<>> \in Seq(Seq(Segments)) /\ DOMAIN <<>> = {}
    BY EmptySeq
  <2> QED BY <2>1, <2>2
       DEF SessionInv, SessionTypeOK, UndoExactOrLoud, RedoExactOrLoud
<1>2. SessionInv /\ [Next]_vars => SessionInv'
  <2> SUFFICES ASSUME SessionInv, [Next]_vars PROVE SessionInv'  OBVIOUS
  <2>0. program \in Seq(Segments)  BY DEF SessionInv, SessionTypeOK
  <2>1. ASSUME NEW e \in CapturedEdits(program), Do(e, TRUE)
        PROVE  SessionInv'
    <3>1. Apply(e, program) # Refused  BY <2>1 DEF Do
    <3>2. /\ Apply(e, program) \in Seq(Segments)
          /\ Apply(InverseEdit(e), Apply(e, program)) = program
      BY <2>0, <3>1, CapturedExact
    <3>3. ~InverseOfMerge(InverseEdit(e)) =>
            Apply(InverseEdit(InverseEdit(e)), program)
              \in {Apply(e, program), Refused}
      BY <2>0, CapturedRedone
    <3> QED BY <2>1, <3>2, <3>3, DoStep
  <2>2. ASSUME NEW e \in PlainEdits(program), Do(e, FALSE)
        PROVE  SessionInv'
    <3>1. Apply(e, program) # Refused  BY <2>2 DEF Do
    <3>2. Apply(e, program) \in Seq(Segments)  BY <2>0, <3>1, PlainLoud
    <3>3. Apply(InverseEdit(e), Apply(e, program)) = Refused
      BY <2>0, <3>1, <3>2, PlainLoud
    <3> QED BY <2>2, <3>2, <3>3, DoStep
  <2>3. CASE Undo  BY <2>3, UndoStep
  <2>4. CASE UNCHANGED vars
    <3>1. program' = program /\ undo' = undo /\ past' = past
      BY <2>4 DEF vars
    <3> QED BY <3>1 DEF SessionInv, SessionTypeOK, UndoExactOrLoud,
                        RedoExactOrLoud, Before, After
  <2> QED BY <2>1, <2>2, <2>3, <2>4 DEF Next
<1> QED BY <1>1, <1>2, PTL DEF Spec

\* The program stays a program, whatever is edited and taken back.
THEOREM SessionTypeCorrect ==
  ASSUME <<>> \notin Replacements
  PROVE  Spec => []SessionTypeOK
<1>1. SessionInv => SessionTypeOK  BY DEF SessionInv
<1> QED BY <1>1, SessionInvariant, PTL

\* The roundtrip contract of inverse (program_edit.rs:226-232), for every
\* program, edit and depth of the session: what was captured is restored
\* exactly, what was not is refused.
THEOREM RoundTrip ==
  ASSUME <<>> \notin Replacements
  PROVE  Spec => []UndoExactOrLoud
<1>1. SessionInv => UndoExactOrLoud  BY DEF SessionInv
<1> QED BY <1>1, SessionInvariant, PTL

\* An edit that was taken back can be done again at every depth of the session:
\* the inverse of its inverse gives the program it had produced, or is refused;
\* only a merge's inverse, which captures nothing, is left out.
THEOREM RedoTrip ==
  ASSUME <<>> \notin Replacements
  PROVE  Spec => []RedoExactOrLoud
<1>1. SessionInv => RedoExactOrLoud  BY DEF SessionInv
<1> QED BY <1>1, SessionInvariant, PTL
=============================================================================

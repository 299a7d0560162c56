----------------------------- MODULE SeedProofs -----------------------------
(***************************************************************************)
(* Proofs about Seed, for any group ids, any number of listeners, any      *)
(* limits and any text.                                                    *)
(***************************************************************************)
EXTENDS Seed, WellFoundedInduction, SequenceTheorems, TLAPS

-----------------------------------------------------------------------------
(* Induction and recursion.                                                *)

\* A set of numbers that holds 0, and with each number the next, holds them all.
LEMMA Induction ==
  ASSUME NEW P, 0 \in P, \A n \in Nat : n \in P => n + 1 \in P
  PROVE  Nat \subseteq P
<1> DEFINE Missing == Nat \ P
<1> SUFFICES ASSUME Missing # {} PROVE FALSE
  OBVIOUS
<1>1. PICK n \in Missing : \A m \in Missing : ~(<<m, n>> \in OpToRel(<, Nat))
  BY NatLessThanWellFounded, WFMin
<1>2. \A m \in Missing : ~(m < n)
  BY <1>1 DEF OpToRel
<1>3. n \in Nat \ {0} /\ n - 1 \in Nat
  OBVIOUS
<1>4. n - 1 \in P
  BY <1>2, <1>3
<1> QED BY <1>3, <1>4

\* The last element of a sequence, and the others.
LEMMA FrontLastAppend ==
  ASSUME NEW S, NEW s \in Seq(S), NEW x \in S
  PROVE  /\ Front(Append(s, x)) = s /\ Last(Append(s, x)) = x
         /\ Append(s, x) # <<>> /\ Append(s, x) \in Seq(S)
BY DEF Front, Last

\* A sequence that is not empty is the others and its last element.
LEMMA FrontLast ==
  ASSUME NEW S, NEW s \in Seq(S), s # <<>>
  PROVE  /\ Front(s) \in Seq(S) /\ Last(s) \in S /\ s = Append(Front(s), Last(s))
         /\ Len(s) = Len(Front(s)) + 1
<1>1. PICK t \in Seq(S), x \in S : s = Append(t, x)
  BY SequenceEmptyOrAppend
<1>2. Front(s) = t /\ Last(s) = x
  BY <1>1, FrontLastAppend
<1>3. Len(s) = Len(t) + 1
  BY <1>1
<1> QED BY <1>1, <1>2, <1>3

\* A set of sequences that holds the empty one, and with each one that and one
\* element more, holds them all.
LEMMA SeqInduction ==
  ASSUME NEW S, NEW P, <<>> \in P,
         \A s \in Seq(S) : \A x \in S : s \in P => Append(s, x) \in P
  PROVE  \A s \in Seq(S) : s \in P
<1> DEFINE N == {n \in Nat : \A s \in Seq(S) : Len(s) = n => s \in P}
<1>1. 0 \in N
  OBVIOUS
<1>2. ASSUME NEW n \in Nat, n \in N PROVE n + 1 \in N
  <2>1. ASSUME NEW s \in Seq(S), Len(s) = n + 1 PROVE s \in P
    <3>0. s # <<>>
      BY <2>1
    <3>1. /\ Front(s) \in Seq(S) /\ Last(s) \in S /\ s = Append(Front(s), Last(s))
          /\ Len(Front(s)) = n
      <4>1. /\ Front(s) \in Seq(S) /\ Last(s) \in S /\ s = Append(Front(s), Last(s))
            /\ Len(s) = Len(Front(s)) + 1
        BY <3>0, FrontLast
      <4>2. Len(Front(s)) \in Nat
        BY <4>1
      <4> QED BY <2>1, <4>1, <4>2
    <3>2. Front(s) \in P
      BY <1>2, <3>1
    <3> QED BY <3>1, <3>2
  <2> QED BY <2>1
<1>3. Nat \subseteq N
  <2> HIDE DEF N
  <2> QED BY <1>1, <1>2, Induction
<1> QED BY <1>3

\* f gives v for no element, and steps on with each one.
Folds(f, S, v, step) ==
  /\ f[<<>>] = v
  /\ \A s \in Seq(S) : \A x \in S : f[Append(s, x)] = step[<<f[s], x>>]

\* v is what the elements of s, one after the other, make of v0.
Runs(g, S, V, v0, step, s, v) ==
  /\ g \in [0 .. Len(s) -> V] /\ g[0] = v0 /\ g[Len(s)] = v
  /\ \A i \in 1 .. Len(s) : g[i] = step[<<g[i - 1], s[i]>>]
Reaches(S, V, v0, step, s, v) == \E g : Runs(g, S, V, v0, step, s, v)

IsStep(step, S, V) == step \in [V \X S -> V]

\* Nothing is reached from the empty sequence but the value to begin with.
LEMMA ReachesEmpty ==
  ASSUME NEW S, NEW V, NEW v0 \in V, NEW step
  PROVE  \A v : Reaches(S, V, v0, step, <<>>, v) <=> v = v0
<1>1. ASSUME NEW v, Reaches(S, V, v0, step, <<>>, v) PROVE v = v0
  BY <1>1 DEF Reaches, Runs
<1>2. Reaches(S, V, v0, step, <<>>, v0)
  <2> DEFINE g == [i \in 0 .. 0 |-> v0]
  <2>1. Runs(g, S, V, v0, step, <<>>, v0)
    BY DEF Runs
  <2> HIDE DEF g
  <2> QED BY <2>1 DEF Reaches
<1> QED BY <1>1, <1>2

Continues(S, V, v0, step, s, x) ==
  \A v : Reaches(S, V, v0, step, Append(s, x), v)
           <=> \E u \in V : Reaches(S, V, v0, step, s, u) /\ v = step[<<u, x>>]

\* What is reached with one element more is one step from what was reached.
LEMMA ReachesAppend ==
  ASSUME NEW S, NEW V, NEW v0 \in V, NEW step, IsStep(step, S, V), NEW s \in Seq(S), NEW x \in S
  PROVE  Continues(S, V, v0, step, s, x)
<1> DEFINE n == Len(s)
           t == Append(s, x)
<1>1. n \in Nat /\ Len(t) = n + 1 /\ t[n + 1] = x /\ \A i \in 1 .. n : t[i] = s[i]
  OBVIOUS
<1>2. ASSUME NEW v, Reaches(S, V, v0, step, t, v)
      PROVE  \E u \in V : Reaches(S, V, v0, step, s, u) /\ v = step[<<u, x>>]
  <2>1. PICK g : Runs(g, S, V, v0, step, t, v)
    BY <1>2 DEF Reaches
  <2>2. /\ g \in [0 .. n + 1 -> V] /\ g[0] = v0 /\ g[n + 1] = v
        /\ \A i \in 1 .. n + 1 : g[i] = step[<<g[i - 1], t[i]>>]
    BY <1>1, <2>1 DEF Runs
  <2> DEFINE h == [i \in 0 .. n |-> g[i]]
  <2>3. /\ h \in [0 .. n -> V] /\ h[0] = v0 /\ g[n] \in V
    BY <1>1, <2>2
  <2>4. ASSUME NEW i \in 1 .. n PROVE h[i] = step[<<h[i - 1], s[i]>>]
    <3>1. i \in 1 .. n + 1 /\ i \in 0 .. n /\ i - 1 \in 0 .. n /\ t[i] = s[i]
      BY <1>1
    <3>2. h[i] = g[i] /\ h[i - 1] = g[i - 1]
      BY <3>1
    <3> QED BY <2>2, <3>1, <3>2, Zenon
  <2>5. h[n] = g[n]
    BY <1>1
  <2>6. Runs(h, S, V, v0, step, s, g[n])
    <3> HIDE DEF h
    <3> QED BY <2>3, <2>4, <2>5 DEF Runs
  <2>7. v = step[<<g[n], x>>]
    <3>1. n + 1 \in 1 .. n + 1 /\ (n + 1) - 1 = n
      BY <1>1
    <3> QED BY <1>1, <2>2, <3>1
  <2>8. Reaches(S, V, v0, step, s, g[n])
    BY <2>6 DEF Reaches
  <2> QED BY <2>3, <2>7, <2>8
<1>3. ASSUME NEW v, NEW u \in V, Reaches(S, V, v0, step, s, u), v = step[<<u, x>>]
      PROVE  Reaches(S, V, v0, step, t, v)
  <2>1. PICK g : Runs(g, S, V, v0, step, s, u)
    BY <1>3 DEF Reaches
  <2>2. /\ g \in [0 .. n -> V] /\ g[0] = v0 /\ g[n] = u
        /\ \A i \in 1 .. n : g[i] = step[<<g[i - 1], s[i]>>]
    BY <2>1 DEF Runs
  <2>0. v \in V
    BY <1>3 DEF IsStep
  <2> DEFINE h == [i \in 0 .. n + 1 |-> IF i = n + 1 THEN v ELSE g[i]]
  <2>3. /\ h \in [0 .. n + 1 -> V] /\ h[0] = v0 /\ h[n + 1] = v
        /\ \A i \in 0 .. n : h[i] = g[i]
    BY <1>1, <2>0, <2>2
  <2> HIDE DEF h
  <2>4. ASSUME NEW i \in 1 .. n + 1 PROVE h[i] = step[<<h[i - 1], t[i]>>]
    <3>1. CASE i = n + 1
      <4>1. i - 1 = n /\ n \in 0 .. n
        BY <1>1, <3>1
      <4>2. h[i - 1] = u /\ t[i] = x /\ h[i] = v
        BY <1>1, <2>2, <2>3, <3>1, <4>1
      <4> QED BY <1>3, <4>2
    <3>2. CASE i # n + 1
      <4>1. i \in 1 .. n /\ i \in 0 .. n /\ i - 1 \in 0 .. n
        BY <1>1, <3>2
      <4>2. h[i] = g[i] /\ h[i - 1] = g[i - 1] /\ t[i] = s[i]
        BY <1>1, <2>3, <4>1
      <4> QED BY <2>2, <4>1, <4>2, Zenon
    <3> QED BY <3>1, <3>2
  <2>5. Runs(h, S, V, v0, step, t, v)
    BY <1>1, <2>3, <2>4 DEF Runs
  <2> QED BY <2>5 DEF Reaches
<1> QED BY <1>2, <1>3 DEF Continues

\* There is a function that folds a sequence, element by element, into a value.
LEMMA FoldExists ==
  ASSUME NEW S, NEW V, NEW v0 \in V, NEW step \in [V \X S -> V]
  PROVE  \E f \in [Seq(S) -> V] : Folds(f, S, v0, step)
<1> DEFINE R(s, v) == Reaches(S, V, v0, step, s, v)
           P == {s \in Seq(S) : \E v \in V : R(s, v) /\ \A w : R(s, w) => w = v}
<1>0. IsStep(step, S, V)
  BY DEF IsStep
<1>1. \A v : R(<<>>, v) <=> v = v0
  BY ReachesEmpty
<1>2. \A s \in Seq(S) : \A x \in S : \A v :
        R(Append(s, x), v) <=> \E u \in V : R(s, u) /\ v = step[<<u, x>>]
  <2> SUFFICES ASSUME NEW s \in Seq(S), NEW x \in S
               PROVE  \A v : R(Append(s, x), v)
                              <=> \E u \in V : R(s, u) /\ v = step[<<u, x>>]
    OBVIOUS
  <2>1. Continues(S, V, v0, step, s, x)
    BY <1>0, ReachesAppend
  <2> QED BY <2>1 DEF Continues
<1> HIDE DEF R
<1>3. <<>> \in P
  BY <1>1
<1>4. ASSUME NEW s \in Seq(S), NEW x \in S, s \in P PROVE Append(s, x) \in P
  <2>1. PICK u \in V : R(s, u) /\ \A w : R(s, w) => w = u
    BY <1>4
  <2>2. step[<<u, x>>] \in V /\ Append(s, x) \in Seq(S)
    OBVIOUS
  <2>3. \A w : R(Append(s, x), w) <=> w = step[<<u, x>>]
    BY <1>2, <2>1
  <2> QED BY <2>2, <2>3
<1>5. \A s \in Seq(S) : s \in P
  <2> HIDE DEF P
  <2> QED BY <1>3, <1>4, SeqInduction
<1> DEFINE f == [s \in Seq(S) |-> CHOOSE v : R(s, v)]
<1>6. ASSUME NEW s \in Seq(S) PROVE f[s] \in V /\ R(s, f[s]) /\ \A w : R(s, w) => w = f[s]
  <2>1. PICK v \in V : R(s, v) /\ \A w : R(s, w) => w = v
    BY <1>5
  <2>2. f[s] = CHOOSE w : R(s, w)
    OBVIOUS
  <2> HIDE DEF f
  <2> QED BY <2>1, <2>2
<1>7. f \in [Seq(S) -> V]
  BY <1>6
<1> HIDE DEF f
<1>8. f[<<>>] = v0
  <2>1. <<>> \in Seq(S)
    OBVIOUS
  <2> QED BY <1>1, <1>6, <2>1
<1>9. ASSUME NEW s \in Seq(S), NEW x \in S PROVE f[Append(s, x)] = step[<<f[s], x>>]
  <2>1. Append(s, x) \in Seq(S)
    OBVIOUS
  <2>2. R(Append(s, x), step[<<f[s], x>>])
    BY <1>2, <1>6
  <2> QED BY <1>6, <2>1, <2>2
<1> QED BY <1>7, <1>8, <1>9 DEF Folds

-----------------------------------------------------------------------------
(* Split.                                                                  *)

Pieces == Seq(Seq(Unit)) \ {<<>>}

\* What one unit more makes of the pieces.
SplitStep(p, x, e) ==
  IF x = e THEN Append(p, <<>>) ELSE Append(Front(p), Append(Last(p), x))

\* A step of Split leaves pieces, and one at least.
LEMMA SplitStepType ==
  ASSUME NEW e, NEW p \in Pieces, NEW x \in Unit
  PROVE  SplitStep(p, x, e) \in Pieces
<1>1. p \in Seq(Seq(Unit)) /\ p # <<>> /\ <<>> \in Seq(Unit)
  BY DEF Pieces
<1>2. Front(p) \in Seq(Seq(Unit)) /\ Last(p) \in Seq(Unit)
  BY <1>1, FrontLast
<1>3. Append(Last(p), x) \in Seq(Unit)
  BY <1>2
<1>4. ASSUME NEW q \in Seq(Seq(Unit)), NEW y \in Seq(Unit) PROVE Append(q, y) \in Pieces
  <2>1. Append(q, y) \in Seq(Seq(Unit)) /\ Append(q, y) # <<>>
    BY FrontLastAppend
  <2> QED BY <2>1 DEF Pieces
<1> QED BY <1>1, <1>2, <1>3, <1>4 DEF SplitStep

\* Split is what its recursion says.
LEMMA SplitUnfolds ==
  ASSUME NEW e
  PROVE  /\ Split(<<>>, e) = <<(<<>>)>>
         /\ \A s \in Seq(Unit) : \A x \in Unit :
              Split(Append(s, x), e) = SplitStep(Split(s, e), x, e)
         /\ \A s \in Seq(Unit) : Split(s, e) \in Pieces
<1> DEFINE none == <<(<<>>)>>
           step == [q \in Pieces \X Unit |-> SplitStep(q[1], q[2], e)]
           F(f, t) == IF t = <<>> THEN none ELSE SplitStep(f[Front(t)], Last(t), e)
           pieces == CHOOSE f : f = [t \in Seq(Unit) |-> F(f, t)]
<1>1. none \in Pieces /\ <<>> \in Seq(Unit)
  BY DEF Pieces
<1>2. step \in [Pieces \X Unit -> Pieces]
  BY SplitStepType
<1>3. \A p \in Pieces : \A x \in Unit : step[<<p, x>>] = SplitStep(p, x, e)
  OBVIOUS
<1> HIDE DEF step, none
<1>4. PICK f \in [Seq(Unit) -> Pieces] : Folds(f, Unit, none, step)
  BY <1>1, <1>2, FoldExists
<1>5. f = [t \in Seq(Unit) |-> F(f, t)]
  <2>1. ASSUME NEW t \in Seq(Unit) PROVE f[t] = F(f, t)
    <3>1. CASE t = <<>>
      BY <1>4, <3>1 DEF Folds
    <3>2. CASE t # <<>>
      <4>1. Front(t) \in Seq(Unit) /\ Last(t) \in Unit /\ t = Append(Front(t), Last(t))
        BY <3>2, FrontLast
      <4>2. f[Append(Front(t), Last(t))] = step[<<f[Front(t)], Last(t)>>]
        BY <1>4, <4>1 DEF Folds
      <4>3. f[Front(t)] \in Pieces
        BY <4>1
      <4>4. step[<<f[Front(t)], Last(t)>>] = SplitStep(f[Front(t)], Last(t), e)
        BY <1>3, <4>1, <4>3
      <4> QED BY <3>2, <4>1, <4>2, <4>4
    <3> QED BY <3>1, <3>2
  <2> HIDE DEF F
  <2> QED BY <2>1
<1>6. pieces = [t \in Seq(Unit) |-> F(pieces, t)]
  <2> HIDE DEF F
  <2> QED BY <1>5
<1>7. \A t : Split(t, e) = pieces[t]
  BY DEF Split, SplitStep, none
<1> HIDE DEF pieces
<1>8. Split(<<>>, e) = none
  BY <1>1, <1>6, <1>7
<1>9. ASSUME NEW s \in Seq(Unit), NEW x \in Unit
      PROVE  Split(Append(s, x), e) = SplitStep(Split(s, e), x, e)
  <2>1. /\ Front(Append(s, x)) = s /\ Last(Append(s, x)) = x
        /\ Append(s, x) # <<>> /\ Append(s, x) \in Seq(Unit)
    BY FrontLastAppend
  <2>2. pieces[Append(s, x)] = F(pieces, Append(s, x))
    BY <1>6, <2>1
  <2> QED BY <1>7, <2>1, <2>2
<1>10. \A s \in Seq(Unit) : Split(s, e) \in Pieces
  <2> DEFINE P == {s \in Seq(Unit) : Split(s, e) \in Pieces}
  <2>1. <<>> \in P
    BY <1>1, <1>8
  <2>2. ASSUME NEW s \in Seq(Unit), NEW x \in Unit, s \in P PROVE Append(s, x) \in P
    <3>1. Append(s, x) \in Seq(Unit)
      OBVIOUS
    <3> QED BY <1>9, <2>2, <3>1, SplitStepType
  <2> HIDE DEF P
  <2>3. \A s \in Seq(Unit) : s \in P
    BY <2>1, <2>2, SeqInduction
  <2> QED BY <2>3 DEF P
<1> QED BY <1>8, <1>9, <1>10 DEF none

\* The empty text is one empty piece.
LEMMA SplitEmpty == \A e : Split(<<>>, e) = <<(<<>>)>>
BY SplitUnfolds

\* What one unit more makes of the pieces.
LEMMA SplitAppend ==
  ASSUME NEW e, NEW s \in Seq(Unit), NEW x \in Unit
  PROVE  Split(Append(s, x), e) = SplitStep(Split(s, e), x, e)
BY SplitUnfolds

\* A text has a piece at least.
LEMMA SplitType ==
  ASSUME NEW e, NEW s \in Seq(Unit)
  PROVE  Split(s, e) \in Seq(Seq(Unit)) /\ Split(s, e) # <<>>
<1>1. Split(s, e) \in Pieces
  BY SplitUnfolds
<1> QED BY <1>1 DEF Pieces

\* No unit of t is e.
Lacks(t, e) == \A i \in 1 .. Len(t) : t[i] # e

\* What a longer text lacks, its beginning and its last unit lack.
LEMMA LacksAppend ==
  ASSUME NEW S, NEW t \in Seq(S), NEW x \in S, NEW e, Lacks(Append(t, x), e)
  PROVE  Lacks(t, e) /\ x # e
<1>1. /\ Len(Append(t, x)) = Len(t) + 1 /\ Len(t) \in Nat
      /\ Append(t, x)[Len(t) + 1] = x /\ \A i \in 1 .. Len(t) : Append(t, x)[i] = t[i]
  OBVIOUS
<1>2. Len(t) + 1 \in 1 .. Len(t) + 1 /\ \A i \in 1 .. Len(t) : i \in 1 .. Len(t) + 1
  BY <1>1
<1> QED BY <1>1, <1>2 DEF Lacks

\* An append to a concatenation is one to its second part.
LEMMA ConcatAppend ==
  ASSUME NEW S, NEW s \in Seq(S), NEW t \in Seq(S), NEW x \in S
  PROVE  s \o Append(t, x) = Append(s \o t, x)
<1>1. /\ Append(t, x) = t \o <<x>> /\ s \o t \in Seq(S) /\ <<x>> \in Seq(S)
      /\ Append(s \o t, x) = (s \o t) \o <<x>>
  BY AppendIsConcat
<1> QED BY <1>1, ConcatAssociative

\* Texts are put together in any order.
LEMMA TextAssociative ==
  ASSUME NEW s \in Seq(Unit), NEW t \in Seq(Unit), NEW u \in Seq(Unit)
  PROVE  (s \o t) \o u = s \o (t \o u)
BY ConcatAssociative

\* A text without the separator is one piece.
LEMMA SplitWhole ==
  ASSUME NEW e
  PROVE  \A t \in Seq(Unit) : Lacks(t, e) => Split(t, e) = <<t>>
<1> DEFINE P == {t \in Seq(Unit) : Lacks(t, e) => Split(t, e) = <<t>>}
<1>1. <<>> \in P
  BY SplitEmpty
<1>2. ASSUME NEW t \in Seq(Unit), NEW x \in Unit, t \in P PROVE Append(t, x) \in P
  <2>1. Append(t, x) \in Seq(Unit)
    OBVIOUS
  <2>2. ASSUME Lacks(Append(t, x), e) PROVE Split(Append(t, x), e) = <<Append(t, x)>>
    <3>1. Lacks(t, e) /\ x # e
      BY <2>2, LacksAppend
    <3>2. Split(t, e) = <<t>>
      BY <1>2, <3>1
    <3>3. Split(Append(t, x), e) = Append(Front(<<t>>), Append(Last(<<t>>), x))
      <4>1. Split(Append(t, x), e) = SplitStep(<<t>>, x, e)
        BY <3>2, SplitAppend
      <4> QED BY <3>1, <4>1 DEF SplitStep
    <3>4. Front(<<t>>) = <<>> /\ Last(<<t>>) = t
      <4>1. <<>> \in Seq(Seq(Unit)) /\ <<t>> = Append(<<>>, t)
        OBVIOUS
      <4> QED BY <4>1, FrontLastAppend
    <3>5. Append(<<>>, Append(t, x)) = <<Append(t, x)>>
      OBVIOUS
    <3> QED BY <3>3, <3>4, <3>5
  <2> QED BY <2>1, <2>2
<1> HIDE DEF P
<1>3. \A t \in Seq(Unit) : t \in P
  BY <1>1, <1>2, SeqInduction
<1> QED BY <1>3 DEF P

\* What comes after a separator, with no separator in it, is the last piece.
LEMMA SplitLast ==
  ASSUME NEW e \in Unit, NEW s \in Seq(Unit)
  PROVE  \A t \in Seq(Unit) :
           Lacks(t, e) => Split(Append(s, e) \o t, e) = Append(Split(s, e), t)
<1> DEFINE P == {t \in Seq(Unit) :
                   Lacks(t, e) => Split(Append(s, e) \o t, e) = Append(Split(s, e), t)}
<1>0. Append(s, e) \in Seq(Unit) /\ Split(s, e) \in Seq(Seq(Unit))
  BY SplitType
<1>1. <<>> \in P
  <2>1. Append(s, e) \o <<>> = Append(s, e)
    BY <1>0
  <2>2. Split(Append(s, e), e) = Append(Split(s, e), <<>>)
    BY SplitAppend DEF SplitStep
  <2> QED BY <2>1, <2>2
<1>2. ASSUME NEW t \in Seq(Unit), NEW x \in Unit, t \in P PROVE Append(t, x) \in P
  <2>1. Append(t, x) \in Seq(Unit) /\ Append(s, e) \o t \in Seq(Unit)
    BY <1>0
  <2>2. ASSUME Lacks(Append(t, x), e)
        PROVE  Split(Append(s, e) \o Append(t, x), e) = Append(Split(s, e), Append(t, x))
    <3>1. Lacks(t, e) /\ x # e
      BY <2>2, LacksAppend
    <3>2. Split(Append(s, e) \o t, e) = Append(Split(s, e), t)
      BY <1>2, <3>1
    <3>3. Append(s, e) \o Append(t, x) = Append(Append(s, e) \o t, x)
      BY <1>0, ConcatAppend
    <3> DEFINE p == Append(Split(s, e), t)
    <3>4. Split(Append(Append(s, e) \o t, x), e) = SplitStep(p, x, e)
      BY <2>1, <3>2, SplitAppend
    <3>5. Front(p) = Split(s, e) /\ Last(p) = t
      BY <1>0, FrontLastAppend
    <3>6. SplitStep(p, x, e) = Append(Split(s, e), Append(t, x))
      <4> HIDE DEF p
      <4> QED BY <3>1, <3>5 DEF SplitStep
    <3> QED BY <3>3, <3>4, <3>6
  <2> QED BY <2>1, <2>2
<1> HIDE DEF P
<1>3. \A t \in Seq(Unit) : t \in P
  BY <1>1, <1>2, SeqInduction
<1> QED BY <1>3 DEF P

\* What comes before the first separator is the first piece, and the others are
\* those of the rest.
LEMMA SplitFirst ==
  ASSUME NEW e \in Unit, NEW t \in Seq(Unit), Lacks(t, e)
  PROVE  \A s \in Seq(Unit) : Split(Append(t, e) \o s, e) = <<t>> \o Split(s, e)
<1> DEFINE P == {s \in Seq(Unit) : Split(Append(t, e) \o s, e) = <<t>> \o Split(s, e)}
<1>0. Append(t, e) \in Seq(Unit) /\ <<t>> \in Seq(Seq(Unit)) /\ <<>> \in Seq(Unit)
  OBVIOUS
<1>1. <<>> \in P
  <2>1. Append(t, e) \o <<>> = Append(t, e)
    BY <1>0
  <2>2. Split(Append(t, e), e) = Append(<<t>>, <<>>)
    <3>1. Split(t, e) = <<t>>
      BY SplitWhole
    <3>2. Split(Append(t, e), e) = SplitStep(<<t>>, e, e)
      BY <3>1, SplitAppend
    <3> QED BY <3>2 DEF SplitStep
  <2>3. Append(<<t>>, <<>>) = <<t>> \o <<(<<>>)>>
    BY <1>0
  <2> QED BY <1>0, <2>1, <2>2, <2>3, SplitEmpty
<1>2. ASSUME NEW s \in Seq(Unit), NEW x \in Unit, s \in P PROVE Append(s, x) \in P
  <2> DEFINE q == Split(s, e)
  <2>0. q \in Seq(Seq(Unit)) /\ q # <<>>
    BY SplitType
  <2>1. Append(s, x) \in Seq(Unit) /\ Append(t, e) \o s \in Seq(Unit)
    BY <1>0
  <2>2. Append(t, e) \o Append(s, x) = Append(Append(t, e) \o s, x)
    BY <1>0, ConcatAppend
  <2>3. Split(Append(t, e) \o Append(s, x), e) = SplitStep(<<t>> \o q, x, e)
    BY <1>2, <2>1, <2>2, SplitAppend
  <2>4. Split(Append(s, x), e) = SplitStep(q, x, e)
    BY SplitAppend
  <2> HIDE DEF q
  <2>5. /\ Front(q) \in Seq(Seq(Unit)) /\ Last(q) \in Seq(Unit)
        /\ q = Append(Front(q), Last(q))
    BY <2>0, FrontLast
  <2>6. <<t>> \o q = Append(<<t>> \o Front(q), Last(q)) /\ <<t>> \o Front(q) \in Seq(Seq(Unit))
    <3>1. <<t>> \o Append(Front(q), Last(q)) = Append(<<t>> \o Front(q), Last(q))
      BY <1>0, <2>5, ConcatAppend
    <3>2. <<t>> \o Front(q) \in Seq(Seq(Unit))
      BY <1>0, <2>5
    <3> QED BY <2>5, <3>1, <3>2, Zenon
  <2>7. Front(<<t>> \o q) = <<t>> \o Front(q) /\ Last(<<t>> \o q) = Last(q)
    <3> DEFINE f == <<t>> \o Front(q)
    <3>1. f \in Seq(Seq(Unit)) /\ <<t>> \o q = Append(f, Last(q))
      BY <2>6
    <3> HIDE DEF f
    <3>2. Front(Append(f, Last(q))) = f /\ Last(Append(f, Last(q))) = Last(q)
      BY <2>5, <3>1, FrontLastAppend
    <3> QED BY <3>1, <3>2 DEF f
  <2>8. SplitStep(<<t>> \o q, x, e) = <<t>> \o SplitStep(q, x, e)
    <3>1. CASE x = e
      <4>1. <<t>> \o Append(q, <<>>) = Append(<<t>> \o q, <<>>)
        BY <1>0, <2>0, ConcatAppend
      <4> QED BY <3>1, <4>1 DEF SplitStep
    <3>2. CASE x # e
      <4>1. Append(Last(q), x) \in Seq(Unit)
        BY <2>5
      <4>2. <<t>> \o Append(Front(q), Append(Last(q), x))
              = Append(<<t>> \o Front(q), Append(Last(q), x))
        BY <1>0, <2>5, <4>1, ConcatAppend
      <4> QED BY <2>7, <3>2, <4>2 DEF SplitStep
    <3> QED BY <3>1, <3>2
  <2> QED BY <2>1, <2>3, <2>4, <2>8 DEF q
<1> HIDE DEF P
<1>3. \A s \in Seq(Unit) : s \in P
  BY <1>1, <1>2, SeqInduction
<1> QED BY <1>3 DEF P

-----------------------------------------------------------------------------
(* Fields.                                                                 *)

\* A character as it stands is a unit.
LEMMA RawIsUnit == \A c \in Char : Raw(c) \in Unit
BY DEF Raw, Unit

\* Different characters are different units.
LEMMA RawDiffers == \A c, d : Raw(c) = Raw(d) => c = d
BY DEF Raw

\* What is left when the beginning is cut off.
LEMMA DropBeginning ==
  ASSUME NEW S, NEW s \in Seq(S), NEW t \in Seq(S)
  PROVE  SubSeq(s \o t, Len(s) + 1, Len(s) + Len(t)) = t
<1> DEFINE u == s \o t
           a == Len(s)
           b == Len(t)
<1>1. a \in Nat /\ b \in Nat
  OBVIOUS
<1>2. \A i \in 1 .. b : u[a + i] = t[i] /\ t[i] \in S
  OBVIOUS
<1> HIDE DEF u
<1>3. ASSUME NEW i \in a + 1 .. a + b PROVE u[i] \in S
  <2>1. i - a \in 1 .. b /\ a + (i - a) = i
    BY <1>1
  <2> QED BY <1>2, <2>1
<1> DEFINE v == SubSeq(u, a + 1, a + b)
<1>4. /\ v \in Seq(S) /\ Len(v) = IF a + 1 <= a + b THEN (a + b) - (a + 1) + 1 ELSE 0
      /\ \A i \in 1 .. (a + b) - (a + 1) + 1 : v[i] = u[(a + 1) + i - 1]
  <2>1. a + 1 \in Int /\ a + b \in Int
    BY <1>1
  <2> HIDE DEF a, b
  <2> QED BY <1>3, <2>1, SubSeqProperties
<1> HIDE DEF a, b, v
<1>5. Len(v) = b
  BY <1>1, <1>4
<1>6. ASSUME NEW i \in 1 .. b PROVE v[i] = t[i]
  <2>1. i \in 1 .. (a + b) - (a + 1) + 1 /\ (a + 1) + i - 1 = a + i
    BY <1>1
  <2> QED BY <1>2, <1>4, <2>1
<1> QED BY <1>4, <1>5, <1>6, SeqEqual DEF u, v, a, b

\* A pair's key and value are texts.
LEMMA PairType ==
  ASSUME NEW pair \in Seq(Unit)
  PROVE  Key(pair) \in Seq(Unit) /\ Value(pair) \in Seq(Unit)
<1>1. Key(pair) \in Seq(Unit)
  <2>1. Split(pair, Raw("=")) \in Seq(Seq(Unit)) /\ Split(pair, Raw("=")) # <<>>
    BY SplitType
  <2> QED BY <2>1, HeadTailProperties DEF Key
<1>2. Len(Key(pair)) \in Nat /\ Len(pair) \in Nat /\ \A i \in 1 .. Len(pair) : pair[i] \in Unit
  BY <1>1
<1> DEFINE m == Len(Key(pair)) + 2
           n == Len(pair)
<1>3. m \in Int /\ n \in Int /\ \A i \in m .. n : i \in 1 .. n
  BY <1>2
<1>4. \A i \in m .. n : pair[i] \in Unit
  BY <1>2, <1>3
<1>5. SubSeq(pair, m, n) \in Seq(Unit)
  <2> HIDE DEF m, n
  <2> QED BY <1>3, <1>4, SubSeqProperties
<1> QED BY <1>1, <1>5 DEF Value

\* The pair of a field has the field's key and its value, whatever is in the value.
LEMMA FieldPair ==
  ASSUME NEW k \in Char, k # "=", NEW x \in Seq(Unit)
  PROVE  /\ Key(<<Raw(k), Raw("=")>> \o x) = <<Raw(k)>>
         /\ Value(<<Raw(k), Raw("=")>> \o x) = x
<1> DEFINE e == Raw("=")
           c == Raw(k)
           pair == <<c, e>> \o x
<1>1. c \in Unit /\ e \in Unit /\ c # e
  BY RawIsUnit, RawDiffers DEF Char, Graphic, Reserved
<1> HIDE DEF c, e
<1>2. <<c>> \in Seq(Unit) /\ <<c, e>> = Append(<<c>>, e) /\ <<c, e>> \in Seq(Unit) /\ Len(<<c, e>>) = 2
  BY <1>1
<1>3. Lacks(<<c>>, e)
  BY <1>1 DEF Lacks
<1>4. Split(pair, e) = <<(<<c>>)>> \o Split(x, e)
  BY <1>1, <1>2, <1>3, SplitFirst
<1>5. Head(<<(<<c>>)>> \o Split(x, e)) = <<c>>
  <2>1. Split(x, e) \in Seq(Seq(Unit)) /\ <<(<<c>>)>> \in Seq(Seq(Unit))
    BY <1>2, SplitType
  <2> QED BY <2>1
<1>6. Key(pair) = <<c>>
  BY <1>4, <1>5 DEF Key, e
<1>7. Value(pair) = SubSeq(pair, Len(<<c, e>>) + 1, Len(<<c, e>>) + Len(x))
  <2>1. Len(<<c>>) + 2 = Len(<<c, e>>) + 1 /\ Len(pair) = Len(<<c, e>>) + Len(x)
    BY <1>2
  <2> QED BY <1>6, <2>1 DEF Value
<1>8. Value(pair) = x
  BY <1>2, <1>7, DropBeginning
<1> QED BY <1>6, <1>8 DEF c, e

\* What one pair more adds to the values of a key.
ValuesStep(values, pair, key) ==
  IF Key(pair) = <<Raw(key)>> THEN Append(values, Value(pair)) ELSE values

\* ValuesOf is what its recursion says.
LEMMA ValuesUnfold ==
  ASSUME NEW key
  PROVE  /\ ValuesOf(<<>>, key) = <<>>
         /\ \A ps \in Seq(Seq(Unit)) : \A pair \in Seq(Unit) :
              ValuesOf(Append(ps, pair), key) = ValuesStep(ValuesOf(ps, key), pair, key)
         /\ \A ps \in Seq(Seq(Unit)) : ValuesOf(ps, key) \in Seq(Seq(Unit))
<1> DEFINE T == Seq(Unit)
           V == Seq(T)
           step == [q \in V \X T |-> ValuesStep(q[1], q[2], key)]
           F(f, ps) == IF ps = <<>> THEN <<>> ELSE ValuesStep(f[Front(ps)], Last(ps), key)
           of == CHOOSE f : f = [ps \in Seq(T) |-> F(f, ps)]
<1>0. \A ps : ValuesOf(ps, key) = of[ps]
  BY DEF ValuesOf, ValuesStep
<1> HIDE DEF of
<1>1. <<>> \in V /\ <<>> \in Seq(T)
  OBVIOUS
<1>2. ASSUME NEW v \in V, NEW pair \in T PROVE ValuesStep(v, pair, key) \in V
  <2>1. Value(pair) \in T
    BY PairType
  <2>2. Append(v, Value(pair)) \in V
    <3> HIDE DEF T
    <3> QED BY <2>1
  <2> QED BY <2>2 DEF ValuesStep
<1> HIDE DEF V, T
<1>3. step \in [V \X T -> V]
  BY <1>2
<1>4. \A v \in V : \A pair \in T : step[<<v, pair>>] = ValuesStep(v, pair, key)
  OBVIOUS
<1> HIDE DEF step
<1>5. PICK f \in [Seq(T) -> V] : Folds(f, T, <<>>, step)
  BY <1>1, <1>3, FoldExists
<1>6. f = [ps \in Seq(T) |-> F(f, ps)]
  <2>1. ASSUME NEW ps \in Seq(T) PROVE f[ps] = F(f, ps)
    <3>1. CASE ps = <<>>
      BY <1>5, <3>1 DEF Folds
    <3>2. CASE ps # <<>>
      <4>1. Front(ps) \in Seq(T) /\ Last(ps) \in T /\ ps = Append(Front(ps), Last(ps))
        BY <3>2, FrontLast
      <4>2. f[Append(Front(ps), Last(ps))] = step[<<f[Front(ps)], Last(ps)>>]
        BY <1>5, <4>1 DEF Folds
      <4>3. f[Front(ps)] \in V
        BY <4>1
      <4>4. step[<<f[Front(ps)], Last(ps)>>] = ValuesStep(f[Front(ps)], Last(ps), key)
        BY <1>4, <4>1, <4>3
      <4> QED BY <3>2, <4>1, <4>2, <4>4
    <3> QED BY <3>1, <3>2
  <2> HIDE DEF F
  <2> QED BY <2>1
<1>7. of = [ps \in Seq(T) |-> F(of, ps)]
  <2> HIDE DEF F
  <2> QED BY <1>6 DEF of
<1>8. ValuesOf(<<>>, key) = <<>>
  BY <1>0, <1>1, <1>7
<1>9. ASSUME NEW ps \in Seq(T), NEW pair \in T
      PROVE  ValuesOf(Append(ps, pair), key) = ValuesStep(ValuesOf(ps, key), pair, key)
  <2>1. /\ Front(Append(ps, pair)) = ps /\ Last(Append(ps, pair)) = pair
        /\ Append(ps, pair) # <<>> /\ Append(ps, pair) \in Seq(T)
    BY FrontLastAppend
  <2>2. of[Append(ps, pair)] = F(of, Append(ps, pair))
    BY <1>7, <2>1
  <2> QED BY <1>0, <2>1, <2>2
<1>10. \A ps \in Seq(T) : ValuesOf(ps, key) \in V
  <2> DEFINE P == {ps \in Seq(T) : ValuesOf(ps, key) \in V}
  <2>1. <<>> \in P
    BY <1>1, <1>8
  <2>2. ASSUME NEW ps \in Seq(T), NEW pair \in T, ps \in P PROVE Append(ps, pair) \in P
    <3>1. Append(ps, pair) \in Seq(T)
      OBVIOUS
    <3> QED BY <1>2, <1>9, <2>2, <3>1
  <2> HIDE DEF P
  <2>3. \A ps \in Seq(T) : ps \in P
    BY <2>1, <2>2, SeqInduction
  <2> QED BY <2>3 DEF P
<1> QED BY <1>8, <1>9, <1>10 DEF V, T

\* No pairs have no values.
LEMMA ValuesEmpty == \A key : ValuesOf(<<>>, key) = <<>>
BY ValuesUnfold

\* What one pair more adds to the values.
LEMMA ValuesAppend ==
  ASSUME NEW key, NEW ps \in Seq(Seq(Unit)), NEW pair \in Seq(Unit)
  PROVE  ValuesOf(Append(ps, pair), key) = ValuesStep(ValuesOf(ps, key), pair, key)
BY ValuesUnfold

\* The values of a key are texts.
LEMMA ValuesType ==
  ASSUME NEW key, NEW query \in Seq(Unit)
  PROVE  Values(query, key) \in Seq(Seq(Unit))
BY ValuesUnfold, SplitType DEF Values

\* A pair of another key in front changes nothing.
LEMMA ValuesPrepend ==
  ASSUME NEW key, NEW pair \in Seq(Unit), Key(pair) # <<Raw(key)>>
  PROVE  \A ps \in Seq(Seq(Unit)) : ValuesOf(<<pair>> \o ps, key) = ValuesOf(ps, key)
<1> DEFINE T == Seq(Unit)
           P == {ps \in Seq(T) : ValuesOf(<<pair>> \o ps, key) = ValuesOf(ps, key)}
<1>0. <<pair>> \in Seq(T) /\ <<>> \in Seq(T) /\ <<pair>> = Append(<<>>, pair)
  OBVIOUS
<1>1. <<>> \in P
  <2>1. <<pair>> \o <<>> = Append(<<>>, pair)
    BY <1>0
  <2>2. ValuesOf(Append(<<>>, pair), key) = ValuesStep(ValuesOf(<<>>, key), pair, key)
    BY <1>0, ValuesAppend
  <2> QED BY <1>0, <2>1, <2>2 DEF ValuesStep
<1>2. ASSUME NEW ps \in Seq(T), NEW x \in T, ps \in P PROVE Append(ps, x) \in P
  <2>1. Append(ps, x) \in Seq(T) /\ <<pair>> \o ps \in Seq(T)
    BY <1>0
  <2>2. <<pair>> \o Append(ps, x) = Append(<<pair>> \o ps, x)
    BY <1>0, ConcatAppend
  <2>3. ValuesOf(Append(<<pair>> \o ps, x), key) = ValuesStep(ValuesOf(<<pair>> \o ps, key), x, key)
    BY <2>1, ValuesAppend
  <2>4. ValuesOf(Append(ps, x), key) = ValuesStep(ValuesOf(ps, key), x, key)
    BY ValuesAppend
  <2> QED BY <1>2, <2>1, <2>2, <2>3, <2>4
<1> HIDE DEF P
<1>3. \A ps \in Seq(T) : ps \in P
  <2> HIDE DEF T
  <2> QED BY <1>1, <1>2, SeqInduction
<1> QED BY <1>3 DEF P

\* A field at the end of the query adds its value to those of its key, and nothing
\* to those of another, as long as no '&' stands in the value as it is.
LEMMA FieldAdds ==
  ASSUME NEW query \in Seq(Unit), NEW k \in Char, k \notin {"=", "&"},
         NEW x \in Seq(Unit), Lacks(x, Raw("&")), NEW key
  PROVE  Values(query \o Field(k, x), key)
           = IF k = key THEN Append(Values(query, key), x) ELSE Values(query, key)
<1> DEFINE a == Raw("&")
           e == Raw("=")
           c == Raw(k)
           pair == <<c, e>> \o x
<1>1. a \in Unit /\ c \in Unit /\ e \in Unit /\ c # a /\ e # a
  BY RawIsUnit, RawDiffers DEF Char, Graphic, Reserved
<1>0. Field(k, x) = <<a, c, e>> \o x
  <2>1. RawText(<<"&", k, "=">>) = <<a, c, e>>
    BY DEF RawText
  <2> QED BY <2>1 DEF Field
<1>a. (k = key) <=> (<<c>> = <<Raw(key)>>)
  BY RawDiffers
<1>b. Key(pair) = <<c>> /\ Value(pair) = x
  BY FieldPair
<1>c. Lacks(x, a)
  OBVIOUS
<1>d. \A q : Values(q, key) = ValuesOf(Split(q, a), key)
  BY DEF Values
<1> HIDE DEF a, c, e
<1>2. <<c, e>> \in Seq(Unit) /\ <<a>> \in Seq(Unit) /\ pair \in Seq(Unit) /\ <<a, c, e>> = <<a>> \o <<c, e>>
  BY <1>1
<1>3. query \o (<<a, c, e>> \o x) = Append(query, a) \o pair
  <2> DEFINE s == <<a>>
             t == <<c, e>>
  <2>0. s \in Seq(Unit) /\ t \in Seq(Unit) /\ <<a, c, e>> = s \o t /\ query \o s = Append(query, a)
    BY <1>1, <1>2, AppendIsConcat
  <2> HIDE DEF s, t
  <2>1. t \o x \in Seq(Unit)
    BY <2>0
  <2>2. (s \o t) \o x = s \o (t \o x)
    BY <2>0, TextAssociative, Zenon
  <2>3. (query \o s) \o (t \o x) = query \o (s \o (t \o x))
    BY <2>0, <2>1, TextAssociative, Zenon
  <2> QED BY <2>0, <2>2, <2>3 DEF t
<1>4. Lacks(pair, a)
  <2>1. Len(pair) = 2 + Len(x) /\ pair[1] = c /\ pair[2] = e /\ Len(x) \in Nat
    BY <1>2
  <2>2. \A i \in 1 .. Len(x) : pair[2 + i] = x[i]
    BY <1>2
  <2> HIDE DEF pair
  <2>3. ASSUME NEW i \in 1 .. 2 + Len(x) PROVE pair[i] # a
    <3>1. CASE i = 1 \/ i = 2
      BY <1>1, <2>1, <3>1
    <3>2. CASE i > 2
      <4>1. i - 2 \in 1 .. Len(x) /\ 2 + (i - 2) = i
        BY <2>1, <3>2
      <4> QED BY <1>c, <2>2, <4>1 DEF Lacks
    <3> QED BY <3>1, <3>2
  <2> QED BY <2>1, <2>3 DEF Lacks
<1>5. Split(query \o Field(k, x), a) = Append(Split(query, a), pair)
  <2>1. pair \in Seq(Unit)
    BY <1>2
  <2> HIDE DEF pair
  <2>2. Split(Append(query, a) \o pair, a) = Append(Split(query, a), pair)
    BY <1>1, <1>4, <2>1, SplitLast
  <2> QED BY <1>0, <1>3, <2>2
<1>6. Values(query \o Field(k, x), key) = ValuesStep(ValuesOf(Split(query, a), key), pair, key)
  <2>1. Split(query, a) \in Seq(Seq(Unit))
    BY SplitType
  <2> QED BY <1>2, <1>5, <1>d, <2>1, ValuesAppend
<1> QED BY <1>6, <1>a, <1>b, <1>d DEF ValuesStep

-----------------------------------------------------------------------------
(* Characters and units.                                                   *)

\* A function on 1 .. n is a sequence of that length.
LEMMA FunctionIsSeq ==
  ASSUME NEW S, NEW n \in Nat, NEW f \in [1 .. n -> S]
  PROVE  f \in Seq(S) /\ Len(f) = n
<1>1. f \in Seq(S)
  BY SeqDef
<1>2. DOMAIN f = 1 .. n /\ DOMAIN f = 1 .. Len(f) /\ Len(f) \in Nat
  BY <1>1
<1> QED BY <1>1, <1>2

\* Which of the characters that the codec writes are of which kind.
LEMMA Distinct ==
  /\ "ff" \notin Char /\ " " \notin Graphic /\ {"%", "&"} \subseteq Reserved
  /\ {"v", "g", "a", "x", "y", "1", "=", "&", "seed?", "/", "p"} \subseteq Graphic
  /\ Graphic \subseteq Char /\ {" ", "%"} \subseteq Char
BY DEF Char, Graphic, Reserved, Alnum

\* What escaping makes of a string is a text in which neither a '&' nor a space
\* stands as it is, which can be read, and which is read as that string.
LEMMA PctRoundTrip ==
  ASSUME NEW s \in Seq(Char)
  PROVE  /\ pct_encode(s) \in Seq(Unit) /\ Len(pct_encode(s)) = Len(s)
         /\ Lacks(pct_encode(s), Raw("&")) /\ Lacks(pct_encode(s), Raw(" "))
         /\ ~BadEncoding(pct_encode(s))
         /\ pct_decode(pct_encode(s)) = s
<1> DEFINE n == Len(s)
           t == pct_encode(s)
<1>1. n \in Nat /\ DOMAIN s = 1 .. n /\ s = [i \in 1 .. n |-> s[i]] /\ \A i \in 1 .. n : s[i] \in Char
  OBVIOUS
<1> DEFINE e == [i \in 1 .. n |-> s[i] \notin Graphic \ Reserved]
<1>2. t = [i \in 1 .. n |-> [char |-> s[i], escaped |-> e[i]]]
  BY <1>1, Zenon DEF pct_encode
<1>e. \A i \in 1 .. n : e[i] \in BOOLEAN /\ (e[i] = FALSE => s[i] \in Graphic \ Reserved)
  BY Zenon
<1> HIDE DEF e
<1>3. \A i \in 1 .. n : t[i] = [char |-> s[i], escaped |-> e[i]]
  BY <1>2
<1>f. ASSUME NEW i \in 1 .. n PROVE t[i].char = s[i] /\ t[i].escaped = e[i] /\ t[i] \in Unit
  <2> DEFINE c == s[i]
             b == e[i]
             u == t[i]
  <2>1. u = [char |-> c, escaped |-> b]
    BY <1>3, Zenon
  <2>2. c \in Char /\ b \in BOOLEAN
    BY <1>1, <1>e
  <2> HIDE DEF c, b, u
  <2>3. u.char = c /\ u.escaped = b
    BY <2>1
  <2>4. u \in Unit
    BY <2>1, <2>2 DEF Unit
  <2> QED BY <2>3, <2>4 DEF c, b, u
<1>4. \A i \in 1 .. n : t[i] \in Unit
  BY <1>f
<1>5. t \in [1 .. n -> Unit]
  BY <1>2, <1>4
<1> HIDE DEF t
<1>6. t \in Seq(Unit) /\ Len(t) = n
  BY <1>1, <1>5, FunctionIsSeq
<1>7. \A i \in 1 .. n : t[i].char = s[i] /\ t[i] # Raw("&") /\ t[i] # Raw("%") /\ t[i] # Raw(" ")
  <2>1. ASSUME NEW i \in 1 .. n, NEW c, c \notin Graphic \ Reserved PROVE t[i] # Raw(c)
    <3>1. ASSUME t[i] = Raw(c) PROVE FALSE
      <4>1. t[i].char = c /\ t[i].escaped = FALSE
        BY <3>1 DEF Raw
      <4>2. t[i].char = s[i] /\ t[i].escaped = e[i]
        BY <1>f
      <4> QED BY <1>e, <2>1, <4>1, <4>2
    <3> QED BY <3>1
  <2>2. \A i \in 1 .. n : t[i].char = s[i]
    BY <1>f
  <2>3. "&" \notin Graphic \ Reserved /\ "%" \notin Graphic \ Reserved /\ " " \notin Graphic \ Reserved
    BY Distinct
  <2> QED BY <2>1, <2>2, <2>3
<1>8. Lacks(t, Raw("&")) /\ Lacks(t, Raw(" "))
  BY <1>6, <1>7 DEF Lacks
<1>9. DOMAIN t = 1 .. n
  BY <1>5
<1>10. ~BadEncoding(t)
  BY <1>1, <1>7, <1>9, Distinct DEF BadEncoding
<1>11. pct_decode(t) = s
  <2>1. pct_decode(t) = [i \in 1 .. n |-> t[i].char]
    BY <1>9 DEF pct_decode
  <2>2. [i \in 1 .. n |-> t[i].char] = [i \in 1 .. n |-> s[i]]
    BY <1>7
  <2> QED BY <1>1, <2>1, <2>2
<1> QED BY <1>6, <1>8, <1>10, <1>11 DEF t

\* What is read from a text that can be read is a string.
LEMMA PctDecodeType ==
  ASSUME NEW t \in Seq(Unit), ~BadEncoding(t)
  PROVE  pct_decode(t) \in Seq(Char)
<1> DEFINE n == Len(t)
           s == pct_decode(t)
<1>1. n \in Nat /\ DOMAIN t = 1 .. n /\ \A i \in 1 .. n : t[i] \in Unit
  OBVIOUS
<1>2. ASSUME NEW i \in 1 .. n PROVE t[i].char \in Char
  BY <1>1, <1>2 DEF BadEncoding, Unit
<1>3. s = [i \in 1 .. n |-> t[i].char]
  BY <1>1 DEF pct_decode
<1>4. s \in [1 .. n -> Char]
  BY <1>2, <1>3
<1> HIDE DEF s, n
<1>5. s \in Seq(Char)
  BY <1>1, <1>4, FunctionIsSeq
<1> QED BY <1>5 DEF s

\* Two texts make a text.
LEMMA TextConcat == \A s, t \in Seq(Unit) : s \o t \in Seq(Unit)
OBVIOUS

\* What two texts lack they lack together.
LEMMA LacksConcat ==
  ASSUME NEW s \in Seq(Unit), NEW t \in Seq(Unit), NEW e, Lacks(s, e), Lacks(t, e)
  PROVE  Lacks(s \o t, e)
<1> DEFINE u == s \o t
<1>1. /\ Len(s) \in Nat /\ Len(t) \in Nat /\ Len(u) = Len(s) + Len(t)
      /\ \A i \in 1 .. Len(s) : u[i] = s[i]
      /\ \A i \in 1 .. Len(t) : u[Len(s) + i] = t[i]
  OBVIOUS
<1> HIDE DEF u
<1>2. ASSUME NEW i \in 1 .. Len(u) PROVE u[i] # e
  <2>1. CASE i <= Len(s)
    <3>1. i \in 1 .. Len(s)
      BY <1>1, <2>1
    <3> QED BY <1>1, <3>1 DEF Lacks
  <2>2. CASE ~(i <= Len(s))
    <3>1. i - Len(s) \in 1 .. Len(t) /\ Len(s) + (i - Len(s)) = i
      BY <1>1, <2>2
    <3> QED BY <1>1, <3>1 DEF Lacks
  <2> QED BY <2>1, <2>2
<1>3. Lacks(u, e)
  BY <1>2 DEF Lacks
<1> QED BY <1>3 DEF u

\* A field is a text, without a blank if its value has none.
LEMMA FieldType ==
  ASSUME NEW k \in Graphic, NEW x \in Seq(Unit)
  PROVE  /\ Field(k, x) \in Seq(Unit) /\ Field(k, x) # <<>>
         /\ Lacks(x, Raw(" ")) => Lacks(Field(k, x), Raw(" "))
<1> DEFINE h == RawText(<<"&", k, "=">>)
<1>1. h = <<Raw("&"), Raw(k), Raw("=")>>
  BY DEF RawText
<1>2. Raw("&") \in Unit /\ Raw(k) \in Unit /\ Raw("=") \in Unit
  BY RawIsUnit, Distinct
<1>3. Raw("&") # Raw(" ") /\ Raw(k) # Raw(" ") /\ Raw("=") # Raw(" ")
  BY RawDiffers, Distinct
<1> DEFINE a == Raw("&")
           b == Raw(k)
           c == Raw("=")
           u == <<a, b, c>>
<1>4. h \in Seq(Unit) /\ Len(h) = 3
  <2> HIDE DEF a, b, c
  <2>1. a \in Unit /\ b \in Unit /\ c \in Unit
    BY <1>2 DEF a, b, c
  <2>2. u \in Seq(Unit) /\ Len(u) = 3
    BY <2>1
  <2> QED BY <1>1, <2>2 DEF a, b, c
<1>5. Lacks(h, Raw(" "))
  <2> HIDE DEF a, b, c
  <2>1. a # Raw(" ") /\ b # Raw(" ") /\ c # Raw(" ")
    BY <1>3 DEF a, b, c
  <2>2. Lacks(u, Raw(" "))
    <3> DEFINE d == Raw(" ")
    <3> HIDE DEF d
    <3>1. a # d /\ b # d /\ c # d
      BY <2>1 DEF d
    <3>2. Len(u) = 3 /\ u[1] = a /\ u[2] = b /\ u[3] = c
      OBVIOUS
    <3>3. 1 .. 3 = {1, 2, 3}
      OBVIOUS
    <3>4. Lacks(u, d)
      BY <3>1, <3>2, <3>3 DEF Lacks
    <3> QED BY <3>4 DEF d
  <2> QED BY <1>1, <2>2 DEF a, b, c
<1> HIDE DEF h
<1>6. h \o x \in Seq(Unit) /\ h \o x # <<>>
  BY <1>4
<1> QED BY <1>4, <1>5, <1>6, LacksConcat DEF Field, h

-----------------------------------------------------------------------------
(* encode.                                                                 *)

\* The text before the first address.
Opening(group) ==
  <<SEED_PREFIX>> \o RawText(<<"v", "=">>) \o RawText(SEED_VERSION)
  \o Field("g", pct_encode(group))

\* What one address more adds to the text.
EncodeStep(out, addr) == out \o Field("a", pct_encode(addr))

\* The field of an address is a text.
LEMMA AddrField ==
  ASSUME NEW a \in Seq(Char)
  PROVE  Field("a", pct_encode(a)) \in Seq(Unit) /\ Field("a", pct_encode(a)) # <<>>
BY PctRoundTrip, FieldType, Distinct

\* The text of a seed without addresses is one.
LEMMA OpeningType ==
  ASSUME NEW g \in Seq(Char)
  PROVE  Opening(g) \in Seq(Unit)
<1> DEFINE f == Field("g", pct_encode(g))
           p == SEED_PREFIX
           v == Raw("v")
           e == Raw("=")
           n == Raw("1")
<1>1. f \in Seq(Unit)
  BY PctRoundTrip, FieldType, Distinct
<1>2. p \in Unit /\ v \in Unit /\ e \in Unit /\ n \in Unit
  BY RawIsUnit, Distinct DEF SEED_PREFIX
<1>3. RawText(<<"v", "=">>) = <<v, e>> /\ RawText(SEED_VERSION) = <<n>>
  BY DEF RawText, SEED_VERSION
<1>4. Opening(g) = <<p>> \o <<v, e>> \o <<n>> \o f
  BY <1>3 DEF Opening
<1> HIDE DEF f, p, v, e, n
<1>5. <<p>> \in Seq(Unit) /\ <<v, e>> \in Seq(Unit) /\ <<n>> \in Seq(Unit)
  BY <1>2
<1>6. <<p>> \o <<v, e>> \in Seq(Unit)
  BY <1>5
<1>7. (<<p>> \o <<v, e>>) \o <<n>> \in Seq(Unit)
  BY <1>5, <1>6
<1> QED BY <1>1, <1>4, <1>7

\* encode is what its recursion says.
LEMMA EncodeUnfolds ==
  ASSUME NEW g \in Seq(Char)
  PROVE  /\ encode([group |-> g, addrs |-> <<>>]) = Opening(g)
         /\ \A as \in Seq(Seq(Char)) : \A a \in Seq(Char) :
              encode([group |-> g, addrs |-> Append(as, a)])
                = EncodeStep(encode([group |-> g, addrs |-> as]), a)
<1> DEFINE T == Seq(Char)
           V == Seq(Unit)
           step == [q \in V \X T |-> EncodeStep(q[1], q[2])]
           F(f, as) == IF as = <<>> THEN Opening(g) ELSE EncodeStep(f[Front(as)], Last(as))
           out == CHOOSE f : f = [as \in Seq(T) |-> F(f, as)]
<1>0. \A as : encode([group |-> g, addrs |-> as]) = out[as]
  <2>1. ASSUME NEW seed, seed.group = g PROVE encode(seed) = out[seed.addrs]
    BY <2>1 DEF encode, Opening, EncodeStep
  <2> HIDE DEF out
  <2>2. ASSUME NEW as PROVE encode([group |-> g, addrs |-> as]) = out[as]
    <3> DEFINE seed == [group |-> g, addrs |-> as]
    <3>1. seed.group = g /\ seed.addrs = as
      OBVIOUS
    <3> HIDE DEF seed
    <3>2. encode(seed) = out[as]
      BY <2>1, <3>1
    <3> QED BY <3>2 DEF seed
  <2> QED BY <2>2
<1> HIDE DEF out
<1>1. Opening(g) \in V /\ <<>> \in Seq(T)
  BY OpeningType
<1>2. ASSUME NEW v \in V, NEW a \in T PROVE EncodeStep(v, a) \in V
  <2>1. Field("a", pct_encode(a)) \in V
    BY AddrField
  <2> QED BY <2>1 DEF EncodeStep
<1> HIDE DEF V, T
<1>3. step \in [V \X T -> V]
  BY <1>2
<1>4. \A v \in V : \A a \in T : step[<<v, a>>] = EncodeStep(v, a)
  OBVIOUS
<1> HIDE DEF step
<1>5. PICK f \in [Seq(T) -> V] : Folds(f, T, Opening(g), step)
  BY <1>1, <1>3, FoldExists
<1>6. f = [as \in Seq(T) |-> F(f, as)]
  <2>1. ASSUME NEW as \in Seq(T) PROVE f[as] = F(f, as)
    <3>1. CASE as = <<>>
      BY <1>5, <3>1 DEF Folds
    <3>2. CASE as # <<>>
      <4>1. Front(as) \in Seq(T) /\ Last(as) \in T /\ as = Append(Front(as), Last(as))
        BY <3>2, FrontLast
      <4>2. f[Append(Front(as), Last(as))] = step[<<f[Front(as)], Last(as)>>]
        BY <1>5, <4>1 DEF Folds
      <4>3. f[Front(as)] \in V
        BY <4>1
      <4>4. step[<<f[Front(as)], Last(as)>>] = EncodeStep(f[Front(as)], Last(as))
        BY <1>4, <4>1, <4>3
      <4> QED BY <3>2, <4>1, <4>2, <4>4
    <3> QED BY <3>1, <3>2
  <2> HIDE DEF F
  <2> QED BY <2>1
<1>7. out = [as \in Seq(T) |-> F(out, as)]
  <2> HIDE DEF F
  <2> QED BY <1>6 DEF out
<1>8. encode([group |-> g, addrs |-> <<>>]) = Opening(g)
  <2>1. out[<<>>] = Opening(g)
    BY <1>1, <1>7
  <2> QED BY <1>0, <2>1, Zenon
<1>9. ASSUME NEW as \in Seq(T), NEW a \in T
      PROVE  encode([group |-> g, addrs |-> Append(as, a)])
               = EncodeStep(encode([group |-> g, addrs |-> as]), a)
  <2>1. /\ Front(Append(as, a)) = as /\ Last(Append(as, a)) = a
        /\ Append(as, a) # <<>> /\ Append(as, a) \in Seq(T)
    BY FrontLastAppend
  <2>2. out[Append(as, a)] = F(out, Append(as, a))
    BY <1>7, <2>1
  <2>3. out[Append(as, a)] = EncodeStep(out[as], a)
    BY <2>1, <2>2
  <2> QED BY <1>0, <2>3, Zenon
<1> QED BY <1>8, <1>9 DEF T

\* What a query starts with says the version, and nothing else.
LEMMA VersionFirst ==
  LET q == <<Raw("v"), Raw("=")>> \o <<Raw("1")>> IN
  /\ q \in Seq(Unit) /\ Lacks(q, Raw(" "))
  /\ \A key : Values(q, key) = IF key = "v" THEN <<(<<Raw("1")>>)>> ELSE <<>>
<1> DEFINE v == Raw("v")
           e == Raw("=")
           n == Raw("1")
           a == Raw("&")
           b == Raw(" ")
           q == <<v, e>> \o <<n>>
<1>1. v \in Unit /\ e \in Unit /\ n \in Unit
  BY RawIsUnit, Distinct
<1>2. v # a /\ e # a /\ n # a /\ v # b /\ e # b /\ n # b
  BY RawDiffers
<1>3. Key(q) = <<v>> /\ Value(q) = <<n>>
  <2>1. <<n>> \in Seq(Unit)
    <3> HIDE DEF n
    <3> QED BY <1>1
  <2>2. "v" \in Char /\ "v" # "="
    BY Distinct
  <2> QED BY <2>1, <2>2, FieldPair
<1>4. \A key : (<<v>> = <<Raw(key)>>) <=> key = "v"
  BY RawDiffers
<1> HIDE DEF v, e, n, a, b
<1>5. q \in Seq(Unit) /\ Len(q) = 3
  <2>1. <<v, e>> \in Seq(Unit) /\ <<n>> \in Seq(Unit) /\ Len(<<v, e>>) = 2 /\ Len(<<n>>) = 1
    BY <1>1
  <2> QED BY <2>1
<1>6. q[1] = v /\ q[2] = e /\ q[3] = n /\ 1 .. 3 = {1, 2, 3}
  OBVIOUS
<1> HIDE DEF q
<1>7. Lacks(q, a) /\ Lacks(q, b)
  BY <1>2, <1>5, <1>6 DEF Lacks
<1>8. ASSUME NEW key PROVE Values(q, key) = IF key = "v" THEN <<(<<n>>)>> ELSE <<>>
  <2>1. Split(q, a) = <<q>>
    BY <1>5, <1>7, SplitWhole
  <2>2. <<q>> = Append(<<>>, q) /\ <<>> \in Seq(Seq(Unit))
    BY <1>5
  <2>3. ValuesOf(Append(<<>>, q), key) = ValuesStep(ValuesOf(<<>>, key), q, key)
    BY <1>5, <2>2, ValuesAppend
  <2>4. Values(q, key) = ValuesStep(<<>>, q, key)
    BY <2>1, <2>2, <2>3, ValuesEmpty DEF Values, a
  <2>5. Append(<<>>, <<n>>) = <<(<<n>>)>>
    OBVIOUS
  <2> QED BY <1>3, <1>4, <2>4, <2>5 DEF ValuesStep
<1> QED BY <1>5, <1>7, <1>8 DEF q, v, e, n, b

EncodedAll(as) == [i \in DOMAIN as |-> pct_encode(as[i])]

\* The places of a sequence with one element more.
LEMMA AppendFacts ==
  ASSUME NEW S, NEW s \in Seq(S), NEW x \in S
  PROVE  /\ Len(s) \in Nat /\ DOMAIN s = 1 .. Len(s) /\ Len(Append(s, x)) = Len(s) + 1
         /\ DOMAIN Append(s, x) = 1 .. Len(s) + 1 /\ Append(s, x) \in Seq(S)
         /\ Append(s, x)[Len(s) + 1] = x
         /\ \A i \in 1 .. Len(s) : Append(s, x)[i] = s[i] /\ s[i] \in S
OBVIOUS

\* One address more is one escaped address more.
LEMMA EncodedAllAppend ==
  ASSUME NEW as \in Seq(Seq(Char)), NEW a \in Seq(Char)
  PROVE  EncodedAll(Append(as, a)) = Append(EncodedAll(as), pct_encode(a))
<1> DEFINE T == Seq(Unit)
           n == Len(as)
           x == pct_encode(a)
           s == EncodedAll(as)
           t == EncodedAll(Append(as, a))
<1>1. /\ n \in Nat /\ DOMAIN as = 1 .. n /\ Len(Append(as, a)) = n + 1
      /\ DOMAIN Append(as, a) = 1 .. n + 1 /\ Append(as, a) \in Seq(Seq(Char))
      /\ Append(as, a)[n + 1] = a /\ \A i \in 1 .. n : Append(as, a)[i] = as[i] /\ as[i] \in Seq(Char)
  BY AppendFacts
<1>2. x \in T /\ \A i \in 1 .. n : pct_encode(as[i]) \in T
  BY <1>1, PctRoundTrip
<1>3. s = [i \in 1 .. n |-> pct_encode(as[i])] /\ t = [i \in 1 .. n + 1 |-> pct_encode(Append(as, a)[i])]
  BY <1>1 DEF EncodedAll
<1>4. t[n + 1] = x /\ \A i \in 1 .. n : t[i] = pct_encode(as[i]) /\ s[i] = pct_encode(as[i])
  <2>1. n + 1 \in 1 .. n + 1 /\ \A i \in 1 .. n : i \in 1 .. n + 1
    <3>1. n \in Nat
      BY <1>1
    <3> HIDE DEF n
    <3> QED BY <3>1
  <2> QED BY <1>1, <1>3, <2>1
<1>5. \A i \in 1 .. n + 1 : t[i] \in T
  <2>1. \A i \in 1 .. n + 1 : i \in 1 .. n \/ i = n + 1
    <3>1. n \in Nat
      BY <1>1
    <3> HIDE DEF n
    <3> QED BY <3>1
  <2> QED BY <1>2, <1>4, <2>1
<1>6. s \in [1 .. n -> T] /\ t \in [1 .. n + 1 -> T]
  BY <1>2, <1>3, <1>5
<1> HIDE DEF s, t, T, n, x
<1>7. s \in Seq(T) /\ Len(s) = n /\ t \in Seq(T) /\ Len(t) = n + 1
  <2>1. n + 1 \in Nat
    BY <1>1
  <2> QED BY <1>1, <1>6, <2>1, FunctionIsSeq
<1> DEFINE u == Append(s, x)
<1>8. u \in Seq(T) /\ Len(u) = n + 1 /\ u[n + 1] = x /\ \A i \in 1 .. n : u[i] = s[i]
  BY <1>2, <1>7
<1> HIDE DEF u
<1>9. ASSUME NEW i \in 1 .. n + 1 PROVE t[i] = u[i]
  <2>1. i \in 1 .. n \/ i = n + 1
    BY <1>1
  <2> QED BY <1>4, <1>8, <2>1
<1>10. t = u
  BY <1>7, <1>8, <1>9, SeqEqual
<1> QED BY <1>10 DEF s, t, u, x

Record(g, as) == [group |-> g, addrs |-> as]

\* The query q says the group g and the addresses as.
Says(q, g, as) ==
  /\ q \in Seq(Unit) /\ Lacks(q, Raw(" ")) /\ encode(Record(g, as)) = <<SEED_PREFIX>> \o q
  /\ Values(q, "v") = <<(<<Raw("1")>>)>> /\ Values(q, "g") = <<pct_encode(g)>>
  /\ Values(q, "a") = EncodedAll(as)

\* The text of a seed says its group and its addresses.
LEMMA EncodeSays ==
  ASSUME NEW g \in Seq(Char)
  PROVE  \A as \in Seq(Seq(Char)) : \E q : Says(q, g, as)
<1> DEFINE T == Seq(Char)
           P == {as \in Seq(T) : \E q : Says(q, g, as)}
<1>1. <<>> \in P
  <2> DEFINE f == Field("g", pct_encode(g))
             w == <<Raw("v"), Raw("=")>> \o <<Raw("1")>>
             q == w \o f
  <2>0. /\ pct_encode(g) \in Seq(Unit) /\ Lacks(pct_encode(g), Raw("&"))
        /\ Lacks(pct_encode(g), Raw(" "))
    BY PctRoundTrip
  <2>1. f \in Seq(Unit) /\ Lacks(f, Raw(" "))
    BY <2>0, FieldType, Distinct
  <2>2. /\ w \in Seq(Unit) /\ Lacks(w, Raw(" "))
        /\ \A key : Values(w, key) = IF key = "v" THEN <<(<<Raw("1")>>)>> ELSE <<>>
    BY VersionFirst
  <2>3. \A key : Values(q, key) = IF "g" = key THEN Append(Values(w, key), pct_encode(g))
                                  ELSE Values(w, key)
    <3> HIDE DEF w
    <3>1. "g" \in Char /\ "g" \notin {"=", "&"}
      BY Distinct
    <3> QED BY <2>0, <2>2, <3>1, FieldAdds
  <2>4. encode(Record(g, <<>>)) = <<SEED_PREFIX>> \o q
    <3> DEFINE p == <<SEED_PREFIX>>
               r == <<Raw("v"), Raw("=")>>
               n == <<Raw("1")>>
    <3>1. RawText(<<"v", "=">>) = r /\ RawText(SEED_VERSION) = n
      BY DEF RawText, SEED_VERSION
    <3>2. encode(Record(g, <<>>)) = ((p \o r) \o n) \o f
      BY <3>1, EncodeUnfolds DEF Record, Opening
    <3>3. p \in Seq(Unit) /\ r \in Seq(Unit) /\ n \in Seq(Unit)
      <4>1. Raw("v") \in Unit /\ Raw("=") \in Unit /\ Raw("1") \in Unit /\ SEED_PREFIX \in Unit
        BY RawIsUnit, Distinct DEF SEED_PREFIX
      <4> QED BY <4>1
    <3>4. w = r \o n
      OBVIOUS
    <3> HIDE DEF p, r, n, w, f
    <3>5. (p \o r) \o n = p \o w
      BY <3>3, <3>4, TextAssociative
    <3>6. (p \o w) \o f = p \o (w \o f)
      BY <2>1, <2>2, <3>3, TextAssociative
    <3> QED BY <3>2, <3>5, <3>6 DEF p
  <2>5. EncodedAll(<<>>) = <<>> /\ <<>> \in Seq(T)
    BY DEF EncodedAll
  <2> HIDE DEF w, f
  <2>6. q \in Seq(Unit) /\ Lacks(q, Raw(" "))
    <3>1. Lacks(q, Raw(" "))
      BY <2>1, <2>2, LacksConcat
    <3>2. q \in Seq(Unit)
      BY <2>1, <2>2, TextConcat, Zenon
    <3> QED BY <3>1, <3>2
  <2>7. Append(<<>>, pct_encode(g)) = <<pct_encode(g)>>
    OBVIOUS
  <2> HIDE DEF q
  <2>8. /\ Values(q, "v") = <<(<<Raw("1")>>)>> /\ Values(q, "g") = <<pct_encode(g)>>
        /\ Values(q, "a") = <<>>
    BY <2>2, <2>3, <2>7
  <2>9. Says(q, g, <<>>)
    BY <2>4, <2>5, <2>6, <2>8, Zenon DEF Says
  <2> QED BY <2>5, <2>9
<1>2. ASSUME NEW as \in Seq(T), NEW a \in T, as \in P PROVE Append(as, a) \in P
  <2>1. PICK r : Says(r, g, as)
    BY <1>2
  <2> DEFINE x == pct_encode(a)
             f == Field("a", x)
             q == r \o f
  <2>2. x \in Seq(Unit) /\ Lacks(x, Raw("&")) /\ Lacks(x, Raw(" "))
    BY PctRoundTrip
  <2>3. f \in Seq(Unit) /\ Lacks(f, Raw(" "))
    BY <2>2, FieldType, Distinct
  <2>4. \A key : Values(q, key) = IF "a" = key THEN Append(Values(r, key), x) ELSE Values(r, key)
    <3>1. "a" \in Char /\ "a" \notin {"=", "&"}
      BY Distinct
    <3> QED BY <2>1, <2>2, <3>1, FieldAdds DEF Says
  <2>5. encode(Record(g, Append(as, a))) = encode(Record(g, as)) \o f
    BY EncodeUnfolds, Zenon DEF Record, EncodeStep
  <2>6. r \in Seq(Unit) /\ Lacks(r, Raw(" ")) /\ encode(Record(g, as)) = <<SEED_PREFIX>> \o r
    BY <2>1 DEF Says
  <2>7. encode(Record(g, Append(as, a))) = <<SEED_PREFIX>> \o q
    <3> DEFINE p == <<SEED_PREFIX>>
    <3>1. p \in Seq(Unit)
      <4>1. SEED_PREFIX \in Unit
        BY RawIsUnit, Distinct DEF SEED_PREFIX
      <4> QED BY <4>1
    <3> HIDE DEF p, f
    <3>2. (p \o r) \o f = p \o (r \o f)
      BY <2>3, <2>6, <3>1, TextAssociative
    <3> QED BY <2>5, <2>6, <3>2 DEF p
  <2>8. EncodedAll(Append(as, a)) = Append(EncodedAll(as), x) /\ Append(as, a) \in Seq(T)
    <3>1. EncodedAll(Append(as, a)) = Append(EncodedAll(as), x)
      BY EncodedAllAppend
    <3>2. Append(as, a) \in Seq(T)
      BY AppendFacts
    <3> QED BY <3>1, <3>2
  <2> HIDE DEF f
  <2>9. q \in Seq(Unit) /\ Lacks(q, Raw(" "))
    <3>1. Lacks(q, Raw(" "))
      BY <2>3, <2>6, LacksConcat
    <3>2. q \in Seq(Unit)
      BY <2>3, <2>6, TextConcat, Zenon
    <3> QED BY <3>1, <3>2
  <2> HIDE DEF q, x
  <2>10. /\ Values(q, "v") = <<(<<Raw("1")>>)>> /\ Values(q, "g") = <<pct_encode(g)>>
         /\ Values(q, "a") = EncodedAll(Append(as, a))
    BY <2>1, <2>4, <2>8 DEF Says
  <2>11. Says(q, g, Append(as, a))
    BY <2>7, <2>9, <2>10, Zenon DEF Says
  <2> QED BY <2>8, <2>11
<1> HIDE DEF P
<1>3. \A as \in Seq(T) : as \in P
  <2> HIDE DEF T
  <2> QED BY <1>1, <1>2, SeqInduction
<1> QED BY <1>3 DEF P

-----------------------------------------------------------------------------
(* len and trim.                                                           *)

Bytes(u) == IF u.escaped THEN 3 ELSE 1

\* len is what its recursion says.
LEMMA LenUnfolds ==
  /\ len(<<>>) = 0
  /\ \A s \in Seq(Unit) : \A x \in Unit : len(Append(s, x)) = len(s) + Bytes(x)
  /\ \A s \in Seq(Unit) : len(s) \in Nat
<1> DEFINE step == [q \in Nat \X Unit |-> q[1] + Bytes(q[2])]
           F(f, t) == IF t = <<>> THEN 0 ELSE f[Front(t)] + Bytes(Last(t))
           bytes == CHOOSE f : f = [t \in Seq(Unit) |-> F(f, t)]
<1>0. \A t : len(t) = bytes[t]
  BY DEF len, Bytes
<1> HIDE DEF bytes
<1>1. \A x : Bytes(x) \in Nat
  BY DEF Bytes
<1>2. 0 \in Nat /\ step \in [Nat \X Unit -> Nat]
  BY <1>1
<1>3. \A n \in Nat : \A x \in Unit : step[<<n, x>>] = n + Bytes(x)
  OBVIOUS
<1> HIDE DEF step
<1>4. PICK f \in [Seq(Unit) -> Nat] : Folds(f, Unit, 0, step)
  BY <1>2, FoldExists
<1>5. f = [t \in Seq(Unit) |-> F(f, t)]
  <2>1. ASSUME NEW t \in Seq(Unit) PROVE f[t] = F(f, t)
    <3>1. CASE t = <<>>
      BY <1>4, <3>1 DEF Folds
    <3>2. CASE t # <<>>
      <4>1. Front(t) \in Seq(Unit) /\ Last(t) \in Unit /\ t = Append(Front(t), Last(t))
        BY <3>2, FrontLast
      <4>2. f[Append(Front(t), Last(t))] = step[<<f[Front(t)], Last(t)>>]
        BY <1>4, <4>1 DEF Folds
      <4>3. f[Front(t)] \in Nat
        BY <4>1
      <4>4. step[<<f[Front(t)], Last(t)>>] = f[Front(t)] + Bytes(Last(t))
        BY <1>3, <4>1, <4>3
      <4> QED BY <3>2, <4>1, <4>2, <4>4
    <3> QED BY <3>1, <3>2
  <2> HIDE DEF F
  <2> QED BY <2>1
<1>6. bytes = [t \in Seq(Unit) |-> F(bytes, t)]
  <2> HIDE DEF F
  <2> QED BY <1>5 DEF bytes
<1>7. len(<<>>) = 0
  <2>1. <<>> \in Seq(Unit)
    OBVIOUS
  <2>2. bytes[<<>>] = F(bytes, <<>>)
    BY <1>6, <2>1
  <2> QED BY <1>0, <2>2
<1>8. ASSUME NEW s \in Seq(Unit), NEW x \in Unit PROVE len(Append(s, x)) = len(s) + Bytes(x)
  <2>1. /\ Front(Append(s, x)) = s /\ Last(Append(s, x)) = x
        /\ Append(s, x) # <<>> /\ Append(s, x) \in Seq(Unit)
    BY FrontLastAppend
  <2>2. bytes[Append(s, x)] = F(bytes, Append(s, x))
    BY <1>6, <2>1
  <2> QED BY <1>0, <2>1, <2>2
<1>9. \A s \in Seq(Unit) : len(s) \in Nat
  <2> DEFINE P == {s \in Seq(Unit) : len(s) \in Nat}
  <2>1. <<>> \in P
    BY <1>7
  <2>2. ASSUME NEW s \in Seq(Unit), NEW x \in Unit, s \in P PROVE Append(s, x) \in P
    <3>1. Append(s, x) \in Seq(Unit)
      OBVIOUS
    <3>2. len(s) + Bytes(x) \in Nat
      BY <1>1, <2>2
    <3> QED BY <1>8, <3>1, <3>2
  <2> HIDE DEF P
  <2>3. \A s \in Seq(Unit) : s \in P
    BY <2>1, <2>2, SeqInduction
  <2> QED BY <2>3 DEF P
<1> QED BY <1>7, <1>8, <1>9

\* The length of two texts together is the sum of theirs.
LEMMA LenConcat ==
  ASSUME NEW s \in Seq(Unit)
  PROVE  \A t \in Seq(Unit) : len(s \o t) = len(s) + len(t)
<1> DEFINE P == {t \in Seq(Unit) : len(s \o t) = len(s) + len(t)}
<1>0. \A t \in Seq(Unit) : len(t) \in Nat
  BY LenUnfolds
<1>1. <<>> \in P
  <2>1. s \o <<>> = s /\ <<>> \in Seq(Unit)
    OBVIOUS
  <2>2. len(s) = len(s) + len(<<>>)
    <3>1. len(<<>>) = 0
      BY LenUnfolds
    <3> QED BY <1>0, <3>1
  <2> QED BY <2>1, <2>2
<1>2. ASSUME NEW t \in Seq(Unit), NEW x \in Unit, t \in P PROVE Append(t, x) \in P
  <2>1. Append(t, x) \in Seq(Unit) /\ s \o t \in Seq(Unit)
    OBVIOUS
  <2>2. s \o Append(t, x) = Append(s \o t, x)
    BY ConcatAppend
  <2>3. len(Append(s \o t, x)) = len(s \o t) + Bytes(x) /\ len(Append(t, x)) = len(t) + Bytes(x)
    BY <2>1, LenUnfolds
  <2>4. len(s \o t) = len(s) + len(t)
    BY <1>2
  <2>5. (len(s) + len(t)) + Bytes(x) = len(s) + (len(t) + Bytes(x))
    <3>1. len(s) \in Nat /\ len(t) \in Nat /\ Bytes(x) \in Nat
      BY <1>0 DEF Bytes
    <3> QED BY <3>1
  <2> QED BY <2>1, <2>2, <2>3, <2>4, <2>5
<1> HIDE DEF P
<1>3. \A t \in Seq(Unit) : t \in P
  BY <1>1, <1>2, SeqInduction
<1> QED BY <1>3 DEF P

\* b is spaces only; s begins and ends with something else.
Blank(b) == \A i \in 1 .. Len(b) : b[i] = Raw(" ")
Inked(s) == s # <<>> /\ s[1] # Raw(" ") /\ s[Len(s)] # Raw(" ")

\* trim takes the spaces off.
LEMMA TrimBlanks ==
  ASSUME NEW s \in Seq(Unit), NEW b \in Seq(Unit), Inked(s), Blank(b)
  PROVE  trim(s \o b) = s
<1> DEFINE t == s \o b
           n == Len(s)
           ink == {i \in DOMAIN t : t[i] # Raw(" ")}
<1>1. n \in Nat \ {0}
  <2>1. s # <<>>
    BY DEF Inked
  <2> QED BY <2>1, EmptySeq
<1>2. /\ Len(b) \in Nat /\ DOMAIN t = 1 .. n + Len(b)
      /\ \A i \in 1 .. n : t[i] = s[i]
      /\ \A i \in 1 .. Len(b) : t[n + i] = b[i]
  OBVIOUS
<1> DEFINE m == Len(b)
<1> HIDE DEF t, n, m
<1>3. 1 \in 1 .. n /\ n \in 1 .. n /\ 1 \in 1 .. n + m /\ n \in 1 .. n + m
  BY <1>1, <1>2 DEF m
<1>4. 1 \in ink /\ n \in ink
  BY <1>2, <1>3 DEF Inked, n, m
<1>5. \A i \in ink : i \in 1 .. n + m /\ 1 <= i /\ i <= n
  <2> SUFFICES ASSUME NEW i \in ink PROVE i \in 1 .. n + m /\ 1 <= i /\ i <= n
    OBVIOUS
  <2>1. t[i] # Raw(" ")
    OBVIOUS
  <2>0. i \in 1 .. n + m /\ m \in Nat
    BY <1>2 DEF m
  <2> HIDE DEF ink
  <2>2. 1 <= i /\ i \in Nat
    BY <1>1, <2>0
  <2>3. CASE i > n
    <3>1. i - n \in 1 .. m /\ n + (i - n) = i
      BY <1>1, <2>0, <2>2, <2>3
    <3>2. t[i] = b[i - n]
      BY <1>2, <3>1 DEF m
    <3> QED BY <2>1, <3>1, <3>2 DEF Blank, m
  <2>4. CASE ~(i > n)
    BY <1>1, <2>0, <2>2, <2>4
  <2> QED BY <2>3, <2>4
<1>6. trim(t) = SubSeq(t, Min(ink), Max(ink))
  BY <1>4 DEF trim
<1> HIDE DEF ink
<1>7. Min(ink) = 1
  <2>1. Min(ink) \in ink /\ \A y \in ink : Min(ink) <= y
    BY <1>4, <1>5 DEF Min
  <2>2. Min(ink) \in 1 .. n + m /\ Min(ink) <= 1 /\ 1 <= Min(ink)
    BY <1>4, <1>5, <2>1
  <2>3. Min(ink) \in Int
    BY <2>2
  <2> QED BY <2>2, <2>3
<1>8. Max(ink) = n
  <2>1. Max(ink) \in ink /\ \A y \in ink : Max(ink) >= y
    BY <1>4, <1>5, <1>1 DEF Max
  <2>2. Max(ink) \in 1 .. n + m /\ Max(ink) >= n /\ Max(ink) <= n
    BY <1>4, <1>5, <2>1
  <2>3. Max(ink) \in Int
    BY <2>2
  <2> QED BY <1>1, <2>2, <2>3
<1>9. SubSeq(t, 1, n) = s
  <2>1. SubSeq(s \o b, 1, Len(s)) = SubSeq(s, 1, Len(s))
    <3>1. 1 \in 1 .. Len(s) /\ Len(s) \in 1 .. Len(s)
      BY <1>3 DEF n
    <3> QED BY <3>1, SubSeqOfConcat1
  <2>2. SubSeq(s, 1, Len(s)) = s
    BY SubSeqFull
  <2> QED BY <2>1, <2>2 DEF t, n
<1> QED BY <1>6, <1>7, <1>8, <1>9 DEF t

-----------------------------------------------------------------------------
(* decode.                                                                 *)

ReadSeed(g, a) ==
  [group |-> pct_decode(g[1]), addrs |-> [i \in DOMAIN a |-> pct_decode(a[i])]]

Readable(v, g, a) == \A x \in ToSet(v) \cup ToSet(g) \cup ToSet(a) : ~BadEncoding(x)

\* The values v, g and a of the keys are those of a seed.
Sound(v, g, a) ==
  /\ Readable(v, g, a)
  /\ v # <<>> /\ pct_decode(Last(v)) = SEED_VERSION /\ Len(g) = 1
  /\ validate(ReadSeed(g, a))

\* decode, of a text without spaces around it.
ReadText(t) ==
  LET v == Values(Tail(t), "v")  g == Values(Tail(t), "g")  a == Values(Tail(t), "a")
  IN  IF t # <<>> /\ len(t) <= MAX_SEED_LEN /\ Head(t) = SEED_PREFIX /\ Sound(v, g, a)
      THEN ReadSeed(g, a) ELSE Refused

\* decode reads the text without the blanks around it.
LEMMA DecodeReads == \A t : decode(t) = ReadText(trim(t))
BY DEF decode, ReadText, Sound, Readable, ReadSeed

\* A sequence is a function from its places to its elements.
LEMMA SeqIsFunction ==
  ASSUME NEW S, NEW s \in Seq(S)
  PROVE  /\ DOMAIN s = 1 .. Len(s) /\ s = [i \in DOMAIN s |-> s[i]]
         /\ \A i \in DOMAIN s : s[i] \in S
OBVIOUS

\* A sequence with an element in front.
LEMMA InFront ==
  ASSUME NEW S, NEW p \in S, NEW q \in Seq(S)
  PROVE  /\ <<p>> \o q \in Seq(S) /\ <<p>> \o q # <<>> /\ Head(<<p>> \o q) = p
         /\ Len(<<p>> \o q) = 1 + Len(q) /\ (<<p>> \o q)[1] = p /\ Len(q) \in Nat
         /\ Tail(<<p>> \o q) = q
<1> DEFINE s == <<p>>
<1>1. s \in Seq(S) /\ Len(s) = 1 /\ s[1] = p /\ Len(q) \in Nat
  OBVIOUS
<1> HIDE DEF s
<1> DEFINE t == s \o q
           n == Len(q)
<1>0. /\ t \in Seq(S) /\ Len(t) = 1 + n
      /\ \A i \in 1 .. 1 + n : t[i] = IF i <= 1 THEN s[i] ELSE q[i - 1]
  <2>1. /\ s \o q \in Seq(S) /\ Len(s \o q) = Len(s) + Len(q)
        /\ \A i \in 1 .. Len(s) + Len(q) : (s \o q)[i] =
             IF i <= Len(s) THEN s[i] ELSE q[i - Len(s)]
    BY <1>1, ConcatProperties, Zenon
  <2> QED BY <1>1, <2>1, Zenon
<1>a. n \in Nat
  BY <1>1
<1> HIDE DEF t, n
<1>2. s \o q \in Seq(S) /\ Len(s \o q) = 1 + Len(q)
  BY <1>0 DEF t, n
<1>3. (s \o q)[1] = p
  <2>1. 1 \in 1 .. 1 + n
    BY <1>a
  <2> QED BY <1>0, <1>1, <2>1 DEF t
<1>4. \A i \in 1 .. Len(q) : (s \o q)[i + 1] = q[i]
  <2>1. ASSUME NEW i \in 1 .. n PROVE t[i + 1] = q[i]
    <3>1. i + 1 \in 1 .. 1 + n /\ ~(i + 1 <= 1) /\ (i + 1) - 1 = i
      BY <1>a
    <3> QED BY <1>0, <3>1
  <2> QED BY <2>1 DEF t, n
<1>5. s \o q # <<>> /\ Head(s \o q) = p
  BY <1>1, <1>2, <1>3
<1>6. Tail(t) = q
  <2>1. t \in Seq(S) /\ t # <<>> /\ Len(t) = 1 + n /\ \A i \in 1 .. n : t[i + 1] = q[i]
    BY <1>0, <1>4, <1>5 DEF t, n
  <2>2. /\ Tail(t) \in Seq(S) /\ Len(Tail(t)) = Len(t) - 1
        /\ \A i \in 1 .. Len(Tail(t)) : Tail(t)[i] = t[i + 1]
    BY <2>1, HeadTailProperties
  <2>3. Len(Tail(t)) = n
    BY <1>a, <2>1, <2>2
  <2> QED BY <2>1, <2>2, <2>3, SeqEqual DEF n
<1> QED BY <1>1, <1>2, <1>3, <1>5, <1>6 DEF s, t

\* The prefix in front of a query, taken off again.
LEMMA PrefixFacts ==
  ASSUME NEW q \in Seq(Unit)
  PROVE  /\ <<SEED_PREFIX>> \o q \in Seq(Unit) /\ <<SEED_PREFIX>> \o q # <<>>
         /\ Head(<<SEED_PREFIX>> \o q) = SEED_PREFIX /\ Tail(<<SEED_PREFIX>> \o q) = q
         /\ (<<SEED_PREFIX>> \o q)[1] = SEED_PREFIX
         /\ SEED_PREFIX \in Unit /\ SEED_PREFIX # Raw(" ")
         /\ Len(<<SEED_PREFIX>> \o q) = 1 + Len(q)
<1> DEFINE p == SEED_PREFIX
<1>1. p \in Unit /\ p # Raw(" ")
  BY RawIsUnit, RawDiffers, Distinct DEF SEED_PREFIX
<1> HIDE DEF p
<1>2. /\ <<p>> \o q \in Seq(Unit) /\ <<p>> \o q # <<>> /\ Head(<<p>> \o q) = p
      /\ Len(<<p>> \o q) = 1 + Len(q) /\ (<<p>> \o q)[1] = p /\ Tail(<<p>> \o q) = q
  BY <1>1, InFront
<1> QED BY <1>1, <1>2 DEF p

\* A seed whose text is not too long is read from it again: for any characters in
\* its group id and its addresses.
LEMMA RoundTrip ==
  ASSUME NEW g \in Seq(Char), NEW as \in Seq(Seq(Char)), validate(Record(g, as)),
         len(encode(Record(g, as))) <= MAX_SEED_LEN
  PROVE  decode(encode(Record(g, as))) = Record(g, as)
<1> DEFINE t == encode(Record(g, as))
<1>1. PICK q : Says(q, g, as)
  BY EncodeSays
<1>2. q \in Seq(Unit) /\ t = <<SEED_PREFIX>> \o q /\ Lacks(q, Raw(" "))
  BY <1>1 DEF Says
<1>3. /\ t \in Seq(Unit) /\ t # <<>> /\ Head(t) = SEED_PREFIX /\ Tail(t) = q
      /\ t[1] # Raw(" ") /\ Len(t) = 1 + Len(q)
  BY <1>2, PrefixFacts
<1> HIDE DEF t
<1>4. trim(t) = t
  <2>1. t[Len(t)] # Raw(" ")
    <3>1. CASE q = <<>>
      <4>1. Len(q) = 0 /\ 1 + 0 = 1
        BY <3>1
      <4> QED BY <1>3, <4>1
    <3>2. CASE q # <<>>
      <4>1. Len(q) \in Nat \ {0}
        BY <1>2, <3>2, EmptySeq
      <4>2. Len(q) \in 1 .. Len(q) /\ 1 + Len(q) = Len(q) + 1
        BY <4>1
      <4>3. t[Len(q) + 1] = q[Len(q)]
        <5>1. /\ Len(Tail(t)) = Len(t) - 1 /\ \A i \in 1 .. Len(Tail(t)) : Tail(t)[i] = t[i + 1]
          BY <1>3, HeadTailProperties
        <5> QED BY <1>3, <4>2, <5>1
      <4> QED BY <1>2, <1>3, <4>2, <4>3 DEF Lacks
    <3> QED BY <3>1, <3>2
  <2>2. Inked(t)
    BY <1>3, <2>1 DEF Inked
  <2>3. Blank(<<>>) /\ <<>> \in Seq(Unit) /\ t \o <<>> = t
    <3>1. <<>> \in Seq(Unit) /\ Len(<<>>) = 0
      OBVIOUS
    <3>2. Blank(<<>>)
      <4>1. \A i \in 1 .. 0 : FALSE
        OBVIOUS
      <4> QED BY <3>1, <4>1 DEF Blank
    <3> QED BY <1>3, <3>1, <3>2, ConcatEmptySeq
  <2> QED BY <1>3, <2>2, <2>3, TrimBlanks
<1> DEFINE v == Values(q, "v")
           x == Values(q, "g")
           a == Values(q, "a")
<1>5. v = <<(<<Raw("1")>>)>> /\ x = <<pct_encode(g)>> /\ a = EncodedAll(as)
  BY <1>1 DEF Says
<1> HIDE DEF v, x, a
<1>6. /\ DOMAIN a = DOMAIN as /\ \A i \in DOMAIN as : a[i] = pct_encode(as[i]) /\ as[i] \in Seq(Char)
  BY <1>5, SeqIsFunction DEF EncodedAll
<1>7. Readable(v, x, a)
  <2>1. ~BadEncoding(<<Raw("1")>>)
    <3>1. DOMAIN <<Raw("1")>> = {1} /\ <<Raw("1")>>[1] = Raw("1")
      OBVIOUS
    <3>2. Raw("1") # Raw("%") /\ Raw("1").char # "ff"
      BY RawDiffers DEF Raw
    <3> QED BY <3>1, <3>2 DEF BadEncoding
  <2>2. ToSet(v) = {<<Raw("1")>>}
    <3> DEFINE y == <<Raw("1")>>
    <3> HIDE DEF y
    <3>1. ToSet(<<y>>) = {y}
      BY DEF ToSet
    <3> QED BY <1>5, <3>1 DEF y
  <2>3. ToSet(x) = {pct_encode(g)}
    BY <1>5 DEF ToSet
  <2>4. \A y \in ToSet(a) : ~BadEncoding(y)
    BY <1>6, PctRoundTrip DEF ToSet
  <2>5. ~BadEncoding(pct_encode(g))
    BY PctRoundTrip
  <2> QED BY <2>1, <2>2, <2>3, <2>4, <2>5 DEF Readable
<1>8. ReadSeed(x, a) = Record(g, as)
  <2>1. x[1] = pct_encode(g) /\ pct_decode(pct_encode(g)) = g
    BY <1>5, PctRoundTrip
  <2>2. [i \in DOMAIN a |-> pct_decode(a[i])] = as
    <3>1. \A i \in DOMAIN as : pct_decode(a[i]) = as[i]
      BY <1>6, PctRoundTrip
    <3>2. [i \in DOMAIN as |-> pct_decode(a[i])] = [i \in DOMAIN as |-> as[i]]
      BY <3>1
    <3>3. as = [i \in DOMAIN as |-> as[i]]
      BY SeqIsFunction
    <3> QED BY <1>6, <3>2, <3>3
  <2> QED BY <2>1, <2>2 DEF ReadSeed, Record
<1>9. Sound(v, x, a)
  <2>1. v # <<>> /\ Last(v) = <<Raw("1")>>
    BY <1>5 DEF Last
  <2>2. pct_decode(<<Raw("1")>>) = SEED_VERSION
    BY DEF pct_decode, SEED_VERSION, Raw
  <2>3. Len(x) = 1
    BY <1>5
  <2> QED BY <1>7, <1>8, <2>1, <2>2, <2>3 DEF Sound
<1>10. len(t) <= MAX_SEED_LEN
  BY DEF t
<1>11. ReadText(t) = ReadSeed(x, a)
  BY <1>3, <1>9, <1>10 DEF ReadText, v, x, a
<1> QED BY <1>4, <1>8, <1>11, DecodeReads DEF t

\* Numbers up to n, one at least, have a first and a last.
LEMMA FirstAndLast ==
  ASSUME NEW n \in Nat, NEW D, D # {}, \A d \in D : d \in 1 .. n
  PROVE  (\E a \in D : \A d \in D : a <= d) /\ (\E b \in D : \A d \in D : b >= d)
<1> DEFINE Good(E) == (\E a \in E : \A d \in E : a <= d) /\ (\E b \in E : \A d \in E : b >= d)
           P == {m \in Nat : \A E : E # {} /\ (\A d \in E : d \in 1 .. m) => Good(E)}
<1>1. 0 \in P
  <2>1. \A d \in 1 .. 0 : FALSE
    OBVIOUS
  <2> HIDE DEF Good
  <2> QED BY <2>1
<1>2. ASSUME NEW m \in Nat, m \in P PROVE m + 1 \in P
  <2>0. m + 1 \in Nat /\ \A d \in 1 .. m : d <= m + 1 /\ d \in Nat
    OBVIOUS
  <2>1. ASSUME NEW E, E # {}, \A d \in E : d \in 1 .. m + 1 PROVE Good(E)
    <3> DEFINE R == E \ {m + 1}
    <3>1. \A d \in R : d \in E /\ d \in 1 .. m
      <4>1. \A d \in 1 .. m + 1 : d # m + 1 => d \in 1 .. m
        OBVIOUS
      <4> QED BY <2>1, <4>1
    <3>2. CASE R = {}
      <4>1. E = {m + 1}
        BY <2>1, <3>2
      <4> QED BY <2>0, <4>1
    <3>3. CASE R # {}
      <4>1. Good(R)
        <5> HIDE DEF Good, R
        <5> QED BY <1>2, <3>1, <3>3
      <4>2. PICK a \in R : \A d \in R : a <= d
        BY <4>1
      <4>3. PICK b \in R : \A d \in R : b >= d
        BY <4>1
      <4>4. a <= m + 1
        BY <2>0, <3>1
      <4>5. \A d \in E : d \in R \/ d = m + 1
        OBVIOUS
      <4> HIDE DEF R
      <4>6. \E c \in E : \A d \in E : c <= d
        BY <3>1, <4>2, <4>4, <4>5
      <4>7. \E c \in E : \A d \in E : c >= d
        <5>1. CASE m + 1 \in E
          <6>1. \A d \in E : m + 1 >= d
            BY <2>0, <3>1, <4>5
          <6> QED BY <5>1, <6>1
        <5>2. CASE m + 1 \notin E
          <6>1. \A d \in E : d \in R
            BY <4>5, <5>2
          <6> QED BY <3>1, <4>3, <6>1
        <5> QED BY <5>1, <5>2
      <4> QED BY <4>6, <4>7
    <3> QED BY <3>2, <3>3
  <2> HIDE DEF Good
  <2> QED BY <2>0, <2>1
<1> HIDE DEF P
<1>3. n \in P
  BY <1>1, <1>2, Induction
<1>4. Good(D)
  <2> HIDE DEF Good
  <2> QED BY <1>3 DEF P
<1> QED BY <1>4

\* What is left of a text is a text.
LEMMA TrimType ==
  ASSUME NEW t \in Seq(Unit)
  PROVE  trim(t) \in Seq(Unit)
<1> DEFINE ink == {i \in DOMAIN t : t[i] # Raw(" ")}
           n == Len(t)
<1>1. n \in Nat /\ DOMAIN t = 1 .. n /\ \A i \in 1 .. n : t[i] \in Unit
  OBVIOUS
<1>2. \A i \in ink : i \in 1 .. n
  BY <1>1
<1>3. trim(t) = IF ink = {} THEN <<>> ELSE SubSeq(t, Min(ink), Max(ink))
  BY DEF trim
<1> HIDE DEF ink, n
<1>4. CASE ink = {}
  BY <1>3, <1>4
<1>5. CASE ink # {}
  <2>1. (\E a \in ink : \A d \in ink : a <= d) /\ (\E b \in ink : \A d \in ink : b >= d)
    BY <1>1, <1>2, <1>5, FirstAndLast
  <2>2. Min(ink) \in ink
    BY <2>1 DEF Min
  <2>3. Max(ink) \in ink
    BY <2>1 DEF Max
  <2>4. Min(ink) \in 1 .. n /\ Max(ink) \in 1 .. n
    BY <1>2, <2>2, <2>3
  <2>5. Min(ink) \in Int /\ Max(ink) \in Int /\ \A i \in Min(ink) .. Max(ink) : i \in 1 .. n
    BY <1>1, <2>4
  <2>6. \A i \in Min(ink) .. Max(ink) : t[i] \in Unit
    BY <1>1, <2>5
  <2> DEFINE a == Min(ink)
             b == Max(ink)
  <2> HIDE DEF a, b
  <2>7. SubSeq(t, a, b) \in Seq(Unit)
    BY <2>5, <2>6, SubSeqProperties DEF a, b
  <2> QED BY <1>3, <1>5, <2>7 DEF a, b
<1> QED BY <1>4, <1>5

\* What is read from a text, whatever it is, is a seed of strings, and valid.
LEMMA ReadsValid ==
  ASSUME NEW t \in Seq(Unit), decode(t) # Refused
  PROVE  \E g \in Seq(Char) : \E as \in Seq(Seq(Char)) :
           decode(t) = Record(g, as) /\ validate(Record(g, as))
<1> DEFINE u == trim(t)
           q == Tail(u)
           v == Values(q, "v")
           g == Values(q, "g")
           a == Values(q, "a")
<1>1. u # <<>> /\ Sound(v, g, a) /\ decode(t) = ReadSeed(g, a)
  BY DecodeReads DEF ReadText
<1>2. u \in Seq(Unit)
  BY TrimType
<1> HIDE DEF u
<1>3. q \in Seq(Unit)
  BY <1>1, <1>2, HeadTailProperties
<1> HIDE DEF q
<1>4. g \in Seq(Seq(Unit)) /\ a \in Seq(Seq(Unit))
  BY <1>3, ValuesType
<1> HIDE DEF v, g, a
<1>5. Len(g) = 1 /\ validate(ReadSeed(g, a)) /\ Readable(v, g, a)
  BY <1>1 DEF Sound
<1>6. 1 \in DOMAIN g /\ g[1] \in Seq(Unit)
  BY <1>4, <1>5, SeqIsFunction
<1>7. pct_decode(g[1]) \in Seq(Char)
  <2>1. g[1] \in ToSet(g)
    BY <1>6 DEF ToSet
  <2>2. ~BadEncoding(g[1])
    BY <1>5, <2>1 DEF Readable
  <2> QED BY <1>6, <2>2, PctDecodeType
<1> DEFINE as == [i \in DOMAIN a |-> pct_decode(a[i])]
<1>8. as \in Seq(Seq(Char))
  <2>1. DOMAIN a = 1 .. Len(a) /\ Len(a) \in Nat /\ \A i \in DOMAIN a : a[i] \in Seq(Unit)
    BY <1>4, SeqIsFunction
  <2>2. ASSUME NEW i \in DOMAIN a PROVE pct_decode(a[i]) \in Seq(Char)
    <3>1. a[i] \in ToSet(a)
      BY DEF ToSet
    <3>2. ~BadEncoding(a[i])
      BY <1>5, <3>1 DEF Readable
    <3> QED BY <2>1, <3>2, PctDecodeType
  <2>3. as \in [1 .. Len(a) -> Seq(Char)]
    BY <2>1, <2>2
  <2> HIDE DEF as
  <2> QED BY <2>1, <2>3, FunctionIsSeq
<1>9. ReadSeed(g, a) = Record(pct_decode(g[1]), as)
  BY DEF ReadSeed, Record
<1> QED BY <1>1, <1>5, <1>7, <1>8, <1>9

\* The last unit of two texts together is that of the second.
LEMMA LastOfConcat ==
  ASSUME NEW s \in Seq(Unit), NEW t \in Seq(Unit), t # <<>>
  PROVE  /\ s \o t \in Seq(Unit) /\ s \o t # <<>> /\ (s \o t)[Len(s \o t)] = t[Len(t)]
         /\ s # <<>> => (s \o t)[1] = s[1]
<1> DEFINE u == s \o t
           a == Len(s)
           b == Len(t)
<1>1. a \in Nat /\ b \in Nat \ {0} /\ (s # <<>> => a \in Nat \ {0})
  BY EmptySeq
<1>2. /\ u \in Seq(Unit) /\ Len(u) = a + b
      /\ \A i \in 1 .. a : u[i] = s[i] 
      /\ \A i \in 1 .. b : u[a + i] = t[i]
  OBVIOUS
<1> HIDE DEF u, a, b
<1>3. b \in 1 .. b /\ a + b # 0 /\ (s # <<>> => 1 \in 1 .. a)
  BY <1>1
<1>4. u # <<>>
  <2>1. Len(<<>>) = 0
    OBVIOUS
  <2> QED BY <1>2, <1>3, <2>1
<1> QED BY <1>2, <1>3, <1>4 DEF u, b

\* A text that begins with something is that up to the last of it, and spaces.
Parts(t, r, b) ==
  /\ r \in Seq(Unit) /\ b \in Seq(Unit) /\ t = r \o b
  /\ Inked(r) /\ Blank(b) /\ r[1] = t[1]

\* A text that begins with no blank is one that ends with none either, and blanks.
LEMMA TrimParts ==
  \A t \in Seq(Unit) : t # <<>> /\ t[1] # Raw(" ") => \E r, b : Parts(t, r, b)
<1> DEFINE Q(t) == t # <<>> /\ t[1] # Raw(" ") => \E r, b : Parts(t, r, b)
           P == {t \in Seq(Unit) : Q(t)}
<1>0. <<>> \in Seq(Unit) /\ Blank(<<>>)
  <2>1. <<>> \in Seq(Unit) /\ Len(<<>>) = 0 /\ \A i \in 1 .. 0 : FALSE
    OBVIOUS
  <2> QED BY <2>1 DEF Blank
<1>1. <<>> \in P
  OBVIOUS
<1>2. ASSUME NEW t \in Seq(Unit), NEW x \in Unit, t \in P PROVE Append(t, x) \in P
  <2> DEFINE u == Append(t, x)
  <2>1. u \in Seq(Unit) /\ Len(u) = Len(t) + 1 /\ u[Len(t) + 1] = x /\ Len(t) \in Nat
    BY AppendFacts
  <2>2. ASSUME u[1] # Raw(" ") PROVE \E r, b : Parts(u, r, b)
    <3>1. CASE x # Raw(" ")
      <4>1. u # <<>> /\ u \o <<>> = u
        BY <2>1, ConcatEmptySeq, FrontLastAppend
      <4>2. Inked(u)
        BY <2>1, <2>2, <3>1, <4>1 DEF Inked
      <4> HIDE DEF u
      <4>3. Parts(u, u, <<>>)
        BY <1>0, <2>1, <4>1, <4>2 DEF Parts
      <4> QED BY <4>3
    <3>2. CASE x = Raw(" ")
      <4>1. t # <<>>
        <5>1. CASE t = <<>>
          <6>1. Len(t) + 1 = 1
            BY <5>1
          <6> QED BY <2>1, <2>2, <3>2, <6>1
        <5> QED BY <5>1
      <4>2. u[1] = t[1]
        <5>1. 1 \in 1 .. Len(t)
          <6>1. Len(t) \in Nat \ {0}
            BY <4>1, EmptySeq
          <6> HIDE DEF u
          <6> QED BY <6>1
        <5>2. \A i \in 1 .. Len(t) : u[i] = t[i]
          BY AppendFacts
        <5> QED BY <5>1, <5>2
      <4>3. PICK r, b : Parts(t, r, b)
        BY <1>2, <2>2, <4>1, <4>2
      <4>4. /\ r \in Seq(Unit) /\ b \in Seq(Unit) /\ t = r \o b
            /\ Inked(r) /\ Blank(b) /\ r[1] = t[1]
        BY <4>3 DEF Parts
      <4>5. u = r \o Append(b, x)
        <5>1. r \in Seq(Unit) /\ b \in Seq(Unit)
          BY <4>4
        <5>2. r \o Append(b, x) = Append(r \o b, x)
          BY <5>1, ConcatAppend
        <5> QED BY <4>4, <5>2, Zenon
      <4>6. Append(b, x) \in Seq(Unit) /\ Blank(Append(b, x))
        <5>1. /\ Append(b, x) \in Seq(Unit) /\ Len(Append(b, x)) = Len(b) + 1 /\ Len(b) \in Nat
              /\ Append(b, x)[Len(b) + 1] = x /\ \A i \in 1 .. Len(b) : Append(b, x)[i] = b[i]
          BY <4>4, AppendFacts
        <5>2. \A i \in 1 .. Len(b) + 1 : i \in 1 .. Len(b) \/ i = Len(b) + 1
          <6>1. Len(b) \in Nat
            BY <5>1
          <6> DEFINE m == Len(b)
          <6> HIDE DEF m, u
          <6>2. \A i \in 1 .. m + 1 : i \in 1 .. m \/ i = m + 1
            BY <6>1 DEF m
          <6> QED BY <6>2 DEF m
        <5> QED BY <3>2, <4>4, <5>1, <5>2 DEF Blank
      <4>7. Parts(u, r, Append(b, x))
        BY <4>2, <4>4, <4>5, <4>6 DEF Parts
      <4> QED BY <4>7
    <3> QED BY <3>1, <3>2
  <2> QED BY <2>1, <2>2
<1> HIDE DEF P
<1>3. \A t \in Seq(Unit) : t \in P
  BY <1>1, <1>2, SeqInduction
<1> QED BY <1>3 DEF P

\* A text that begins with the prefix is the prefix and a query.
LEMMA AfterPrefix ==
  ASSUME NEW r \in Seq(Unit), r # <<>>, r[1] = SEED_PREFIX
  PROVE  Tail(r) \in Seq(Unit) /\ r = <<SEED_PREFIX>> \o Tail(r)
<1> DEFINE p == SEED_PREFIX
           s == Tail(r)
           t == <<p>> \o s
<1>1. s \in Seq(Unit) /\ Len(s) = Len(r) - 1 /\ \A i \in 1 .. Len(s) : s[i] = r[i + 1]
  BY HeadTailProperties
<1>2. p \in Unit /\ t \in Seq(Unit) /\ Len(t) = 1 + Len(s) /\ t[1] = p /\ Tail(t) = s /\ t # <<>>
  BY <1>1, PrefixFacts
<1>3. Len(Tail(t)) = Len(t) - 1 /\ \A i \in 1 .. Len(Tail(t)) : Tail(t)[i] = t[i + 1]
  BY <1>2, HeadTailProperties
<1>4. Len(r) \in Nat \ {0}
  BY EmptySeq
<1> HIDE DEF s, t, p
<1>5. Len(t) = Len(r)
  BY <1>1, <1>2, <1>4
<1>6. ASSUME NEW i \in 1 .. Len(r) PROVE r[i] = t[i]
  <2>1. CASE i = 1
    BY <1>2, <2>1 DEF p
  <2>2. CASE i # 1
    <3>1. i - 1 \in 1 .. Len(s) /\ (i - 1) + 1 = i
      BY <1>1, <1>4, <2>2
    <3> QED BY <1>1, <1>2, <1>3, <3>1
  <2> QED BY <2>1, <2>2
<1>7. r = t
  BY <1>2, <1>5, <1>6, SeqEqual
<1> QED BY <1>1, <1>7 DEF s, t, p

\* The field of a later version.
Later == Field("x", RawText(<<"y">>))
LaterPair == <<Raw("x"), Raw("=")>> \o <<Raw("y")>>

\* The field of a later version is a pair of a key that is not read, behind a '&'.
LEMMA LaterFacts ==
  /\ Later \in Seq(Unit) /\ Later = <<Raw("&")>> \o LaterPair /\ Tail(Later) = LaterPair
  /\ Later # <<>> /\ Later[Len(Later)] # Raw(" ")
  /\ LaterPair \in Seq(Unit) /\ Lacks(LaterPair, Raw("&")) /\ Key(LaterPair) = <<Raw("x")>>
  /\ RawText(<<"y">>) \in Seq(Unit) /\ Lacks(RawText(<<"y">>), Raw("&"))
  /\ RawText(<<"&">>) = <<Raw("&")>> /\ Raw("&") \in Unit /\ Raw("&") # Raw(" ")
<1> DEFINE a == Raw("&")
           x == Raw("x")
           e == Raw("=")
           y == Raw("y")
           b == Raw(" ")
           w == <<x, e>>
           z == <<y>>
<1>1. a \in Unit /\ x \in Unit /\ e \in Unit /\ y \in Unit
  BY RawIsUnit, Distinct
<1>2. x # a /\ e # a /\ y # a /\ y # b /\ a # b
  BY RawDiffers
<1>3. RawText(<<"y">>) = z /\ RawText(<<"&">>) = <<a>> /\ RawText(<<"&", "x", "=">>) = <<a, x, e>>
  BY DEF RawText
<1>4. Key(w \o z) = <<x>>
  <2>1. z \in Seq(Unit)
    <3> HIDE DEF y
    <3> QED BY <1>1
  <2>2. "x" \in Char /\ "x" # "="
    BY Distinct
  <2> QED BY <2>1, <2>2, FieldPair
<1>5. Later = <<a, x, e>> \o z /\ LaterPair = w \o z
  BY <1>3 DEF Later, LaterPair, Field
<1> HIDE DEF a, x, e, y, b
<1>6. /\ w \in Seq(Unit) /\ z \in Seq(Unit) /\ <<a>> \in Seq(Unit) /\ <<a, x, e>> = <<a>> \o w
      /\ Len(w) = 2 /\ Len(z) = 1 /\ w[1] = x /\ w[2] = e /\ z[1] = y /\ z # <<>>
  BY <1>1
<1>7. Lacks(w, a) /\ Lacks(z, a)
  <2>1. 1 .. 1 = {1} /\ 1 .. 2 = {1, 2}
    OBVIOUS
  <2> HIDE DEF w, z
  <2> QED BY <1>2, <1>6, <2>1 DEF Lacks
<1> HIDE DEF w, z
<1>8. w \o z \in Seq(Unit) /\ Lacks(w \o z, a)
  BY <1>6, <1>7, LacksConcat, TextConcat, Zenon
<1>9. (<<a>> \o w) \o z = <<a>> \o (w \o z)
  BY <1>6, TextAssociative
<1>10. Later = <<a>> \o LaterPair
  BY <1>5, <1>6, <1>9
<1>11. Later \in Seq(Unit) /\ Tail(Later) = LaterPair
  BY <1>1, <1>5, <1>8, <1>10, InFront
<1>12. Later # <<>> /\ Later[Len(Later)] # b
  <2>1. <<a>> \o w \in Seq(Unit)
    BY <1>6, TextConcat, Zenon
  <2>2. /\ (<<a>> \o w) \o z # <<>>
        /\ ((<<a>> \o w) \o z)[Len((<<a>> \o w) \o z)] = z[Len(z)]
    BY <1>6, <2>1, LastOfConcat
  <2>3. z[Len(z)] = y
    BY <1>6
  <2> QED BY <1>2, <1>5, <1>6, <2>2, <2>3
<1> QED BY <1>1, <1>2, <1>3, <1>4, <1>5, <1>6, <1>7, <1>8, <1>10, <1>11, <1>12 DEF a, x, b

\* Two texts whose queries have the same values, neither of them too long, are read
\* as the same.
LEMMA SameReading ==
  ASSUME NEW s \in Seq(Unit), NEW t \in Seq(Unit),
         \A key \in {"v", "g", "a"} : Values(s, key) = Values(t, key),
         len(<<SEED_PREFIX>> \o s) <= MAX_SEED_LEN, len(<<SEED_PREFIX>> \o t) <= MAX_SEED_LEN
  PROVE  ReadText(<<SEED_PREFIX>> \o s) = ReadText(<<SEED_PREFIX>> \o t)
<1> DEFINE u == <<SEED_PREFIX>> \o s
           v == <<SEED_PREFIX>> \o t
<1>1. u # <<>> /\ Head(u) = SEED_PREFIX /\ Tail(u) = s /\ len(u) <= MAX_SEED_LEN
  BY PrefixFacts
<1>2. v # <<>> /\ Head(v) = SEED_PREFIX /\ Tail(v) = t /\ len(v) <= MAX_SEED_LEN
  BY PrefixFacts
<1>3. Values(s, "v") = Values(t, "v") /\ Values(s, "g") = Values(t, "g") /\ Values(s, "a") = Values(t, "a")
  OBVIOUS
<1> HIDE DEF u, v
<1>4. ReadText(u) = ReadText(v)
  BY <1>1, <1>2, <1>3 DEF ReadText
<1> QED BY <1>4 DEF u, v

\* A field of a later version in front is ignored.
LEMMA LaterInFront ==
  ASSUME NEW t \in Seq(Unit), t # <<>>, Head(t) = SEED_PREFIX,
         len(t) + len(Later) <= MAX_SEED_LEN
  PROVE  decode(<<SEED_PREFIX>> \o Tail(Later) \o RawText(<<"&">>) \o Tail(t)) = decode(t)
<1> DEFINE p == SEED_PREFIX
           a == Raw("&")
           w == LaterPair \o <<a>>
<1>0. p \in Unit /\ p # Raw(" ") /\ t[1] = p
  <2>1. <<>> \in Seq(Unit)
    OBVIOUS
  <2>2. p \in Unit /\ p # Raw(" ")
    BY <2>1, PrefixFacts
  <2>3. Head(t) = t[1]
    OBVIOUS
  <2> QED BY <2>2, <2>3
<1>1. PICK r, b : Parts(t, r, b)
  BY <1>0, TrimParts
<1>2. /\ r \in Seq(Unit) /\ b \in Seq(Unit) /\ t = r \o b
      /\ Inked(r) /\ Blank(b) /\ r[1] = p /\ r # <<>>
  BY <1>0, <1>1 DEF Parts, Inked
<1> DEFINE s == Tail(r)
<1>3. s \in Seq(Unit) /\ r = <<p>> \o s
  BY <1>2, AfterPrefix
<1>4. LaterPair \in Seq(Unit) /\ a \in Unit /\ a # Raw(" ")
  BY LaterFacts
<1> DEFINE f == <<p>>
           c == <<a>>
<1>5. f \in Seq(Unit) /\ c \in Seq(Unit) /\ f # <<>> /\ c # <<>> /\ f[1] = p /\ c[Len(c)] = a
  <2> HIDE DEF p, a
  <2>1. p \in Unit /\ a \in Unit
    BY <1>0, <1>4
  <2>2. f \in Seq(Unit) /\ c \in Seq(Unit)
    BY <2>1
  <2> QED BY <2>2
<1>6. w \in Seq(Unit) /\ w # <<>> /\ w[Len(w)] = a
  BY <1>4, <1>5, LastOfConcat
<1>7. Tail(t) = s \o b
  <2>1. s \o b \in Seq(Unit)
    BY <1>2, <1>3, TextConcat, Zenon
  <2>2. t = f \o (s \o b)
    <3>1. (f \o s) \o b = f \o (s \o b)
      <4> HIDE DEF f, s
      <4> QED BY <1>2, <1>3, <1>5, TextAssociative
    <3> QED BY <1>2, <1>3, <3>1, Zenon
  <2>3. Tail(f \o (s \o b)) = s \o b
    BY <2>1, PrefixFacts
  <2> QED BY <2>2, <2>3, Zenon
<1> DEFINE r1 == f \o (w \o s)
<1>8. <<p>> \o Tail(Later) \o RawText(<<"&">>) \o Tail(t) = r1 \o b
  <2> DEFINE l == LaterPair
  <2>1. <<p>> \o Tail(Later) \o RawText(<<"&">>) \o Tail(t) = ((f \o l) \o c) \o (s \o b)
    BY <1>7, LaterFacts, Zenon
  <2>0. l \in Seq(Unit)
    BY <1>4
  <2> HIDE DEF f, c, l, s
  <2>2. (f \o l) \o c = f \o (l \o c)
    BY <1>5, <2>0, TextAssociative
  <2>3. w = l \o c
    BY DEF l, c
  <2> HIDE DEF w
  <2>4. f \o w \in Seq(Unit) /\ w \o s \in Seq(Unit)
    BY <1>3, <1>5, <1>6, TextConcat, Zenon
  <2>5. (f \o w) \o (s \o b) = ((f \o w) \o s) \o b
    <3> DEFINE x == f \o w
    <3>1. x \in Seq(Unit) /\ s \in Seq(Unit) /\ b \in Seq(Unit)
      BY <1>2, <1>3, <2>4
    <3> HIDE DEF x
    <3>2. (x \o s) \o b = x \o (s \o b)
      BY <3>1, TextAssociative, Zenon
    <3> QED BY <3>2 DEF x
  <2>6. (f \o w) \o s = f \o (w \o s)
    BY <1>3, <1>5, <1>6, TextAssociative
  <2> QED BY <2>1, <2>2, <2>3, <2>5, <2>6, Zenon
<1>9. w \o s \in Seq(Unit) /\ w \o s # <<>> /\ (w \o s)[Len(w \o s)] # Raw(" ")
  <2>1. CASE s = <<>>
    <3>1. w \o <<>> = w
      BY <1>6, ConcatEmptySeq
    <3>2. w \o s = w
      BY <2>1, <3>1, Zenon
    <3> HIDE DEF w, a, s
    <3> QED BY <1>4, <1>6, <3>2
  <2>2. CASE s # <<>>
    <3>1. (f \o s)[Len(f \o s)] = s[Len(s)]
      <4> HIDE DEF f, s
      <4> QED BY <1>3, <1>5, <2>2, LastOfConcat
    <3>2. s[Len(s)] # Raw(" ")
      <4> HIDE DEF s
      <4> QED BY <1>2, <1>3, <3>1 DEF Inked
    <3>3. w \o s \in Seq(Unit) /\ w \o s # <<>> /\ (w \o s)[Len(w \o s)] = s[Len(s)]
      <4> HIDE DEF w, s
      <4> QED BY <1>3, <1>6, <2>2, LastOfConcat
    <3> QED BY <3>2, <3>3
  <2> QED BY <2>1, <2>2
<1>10. r1 \in Seq(Unit) /\ Inked(r1)
  <2> DEFINE v == w \o s
  <2>1. v \in Seq(Unit) /\ v # <<>> /\ v[Len(v)] # Raw(" ")
    BY <1>9
  <2> HIDE DEF v, f, p
  <2>2. /\ f \o v \in Seq(Unit) /\ f \o v # <<>> /\ (f \o v)[Len(f \o v)] = v[Len(v)]
        /\ (f \o v)[1] = f[1]
    BY <1>5, <2>1, LastOfConcat
  <2>3. Inked(f \o v)
    BY <1>0, <1>5, <2>1, <2>2 DEF Inked
  <2> QED BY <2>2, <2>3 DEF v
<1>11. trim(r1 \o b) = r1 /\ trim(t) = r
  <2>1. trim(r1 \o b) = r1
    <3> HIDE DEF r1
    <3> QED BY <1>2, <1>10, TrimBlanks
  <2>2. trim(r \o b) = r
    BY <1>2, TrimBlanks
  <2> QED BY <1>2, <2>1, <2>2, Zenon
<1>12. \A key \in {"v", "g", "a"} : Values(w \o s, key) = Values(s, key)
  <2> SUFFICES ASSUME NEW key \in {"v", "g", "a"} PROVE Values(w \o s, key) = Values(s, key)
    OBVIOUS
  <2>1. w = Append(LaterPair, a)
    BY <1>4, AppendIsConcat
  <2>2. Split(Append(LaterPair, a) \o s, a) = <<LaterPair>> \o Split(s, a)
    <3>1. Lacks(LaterPair, a)
      BY LaterFacts
    <3> HIDE DEF s, a
    <3> QED BY <1>3, <1>4, <3>1, SplitFirst
  <2>3. Key(LaterPair) # <<Raw(key)>>
    <3>1. Raw("x") # Raw(key)
      BY RawDiffers
    <3>2. Key(LaterPair) = <<Raw("x")>>
      BY LaterFacts
    <3> QED BY <3>1, <3>2
  <2>4. ValuesOf(<<LaterPair>> \o Split(s, a), key) = ValuesOf(Split(s, a), key)
    <3>1. Split(s, a) \in Seq(Seq(Unit))
      BY <1>3, SplitType
    <3> HIDE DEF s, a
    <3> QED BY <1>4, <2>3, <3>1, ValuesPrepend
  <2> QED BY <2>1, <2>2, <2>4, Zenon DEF Values
<1>13. len(r1) <= MAX_SEED_LEN /\ len(r) <= MAX_SEED_LEN
  <2> DEFINE l == LaterPair
  <2>0. l \in Seq(Unit) /\ Later = c \o l
    BY LaterFacts
  <2>1. w = l \o c
    OBVIOUS
  <2> HIDE DEF f, c, l, s
  <2>2. len(Later) = len(c) + len(l) /\ len(w) = len(l) + len(c)
    BY <1>5, <2>0, <2>1, LenConcat
  <2>3. len(r) = len(f) + len(s) /\ len(t) = len(r) + len(b)
    BY <1>2, <1>3, <1>5, LenConcat DEF f
  <2> HIDE DEF w
  <2>4. len(w \o s) = len(w) + len(s) /\ len(f \o (w \o s)) = len(f) + len(w \o s)
    BY <1>3, <1>5, <1>6, <1>9, LenConcat
  <2>5. /\ len(c) \in Nat /\ len(l) \in Nat /\ len(f) \in Nat /\ len(s) \in Nat /\ len(b) \in Nat
        /\ MAX_SEED_LEN \in Nat
    BY <1>2, <1>3, <1>5, <2>0, LenUnfolds, SeedAssumption
  <2>6. len(t) + len(Later) <= MAX_SEED_LEN
    OBVIOUS
  <2> QED BY <2>2, <2>3, <2>4, <2>5, <2>6
<1>14. ReadText(r1) = ReadText(r)
  <2> DEFINE v == w \o s
  <2>1. v \in Seq(Unit) /\ \A key \in {"v", "g", "a"} : Values(v, key) = Values(s, key)
    BY <1>9, <1>12
  <2>2. len(<<SEED_PREFIX>> \o v) <= MAX_SEED_LEN /\ len(<<SEED_PREFIX>> \o s) <= MAX_SEED_LEN
    BY <1>3, <1>13
  <2> HIDE DEF v, s
  <2>3. ReadText(<<SEED_PREFIX>> \o v) = ReadText(<<SEED_PREFIX>> \o s)
    BY <1>3, <2>1, <2>2, SameReading
  <2> QED BY <1>3, <2>3 DEF v
<1> QED BY <1>8, <1>11, <1>14, DecodeReads, Zenon

\* The prefix alone is a text, and so is nothing.
LEMMA ShortTexts == /\ <<>> \in Seq(Unit) /\ Blank(<<>>)
                    /\ SEED_PREFIX \in Unit /\ SEED_PREFIX # Raw(" ")
                    /\ <<SEED_PREFIX>> \in Seq(Unit)
<1> DEFINE p == SEED_PREFIX
<1>1. <<>> \in Seq(Unit) /\ Len(<<>>) = 0 /\ \A i \in 1 .. 0 : FALSE
  OBVIOUS
<1>2. Blank(<<>>)
  BY <1>1 DEF Blank
<1>3. p \in Unit /\ p # Raw(" ")
  BY <1>1, PrefixFacts
<1>4. <<p>> \o <<>> \in Seq(Unit)
  BY <1>1, PrefixFacts
<1> HIDE DEF p
<1>5. <<p>> \o <<>> = <<p>>
  OBVIOUS
<1> QED BY <1>1, <1>2, <1>3, <1>4, <1>5, Zenon DEF p

\* Nothing is trimmed from a text that neither begins nor ends with a blank.
LEMMA TrimInked == \A u \in Seq(Unit) : Inked(u) => trim(u) = u
<1> SUFFICES ASSUME NEW u \in Seq(Unit), Inked(u) PROVE trim(u) = u
  OBVIOUS
<1>1. u \o <<>> = u
  BY ConcatEmptySeq
<1>2. trim(u \o <<>>) = u
  BY ShortTexts, TrimBlanks, Zenon
<1> QED BY <1>1, <1>2, Zenon

\* A field of a later version adds to no key that is read.
LEMMA LaterAdds ==
  \A s \in Seq(Unit) : \A key \in {"v", "g", "a"} : Values(s \o Later, key) = Values(s, key)
<1> SUFFICES ASSUME NEW s \in Seq(Unit), NEW key \in {"v", "g", "a"}
             PROVE  Values(s \o Later, key) = Values(s, key)
  OBVIOUS
<1>1. "x" \in Char /\ "x" \notin {"=", "&"} /\ "x" # key
  BY Distinct DEF Char, Graphic, Alnum
<1>2. RawText(<<"y">>) \in Seq(Unit) /\ Lacks(RawText(<<"y">>), Raw("&"))
  BY LaterFacts
<1> DEFINE y == RawText(<<"y">>)
<1> HIDE DEF y
<1>3. Values(s \o Field("x", y), key) = IF "x" = key THEN Append(Values(s, key), y) ELSE Values(s, key)
  BY <1>1, <1>2, FieldAdds DEF y
<1> QED BY <1>1, <1>3 DEF Later, y

\* A field of a later version at the end is ignored.
LEMMA LaterAtEnd ==
  ASSUME NEW t \in Seq(Unit), Inked(t), t[1] = SEED_PREFIX,
         len(t) + len(Later) <= MAX_SEED_LEN
  PROVE  decode(t \o Later) = decode(t)
<1> DEFINE s == Tail(t)
           f == <<SEED_PREFIX>>
<1>1. t # <<>>
  BY DEF Inked
<1>2. s \in Seq(Unit) /\ t = f \o s
  BY <1>1, AfterPrefix
<1>3. Later \in Seq(Unit) /\ Later # <<>> /\ Later[Len(Later)] # Raw(" ")
  BY LaterFacts
<1>4. /\ t \o Later \in Seq(Unit) /\ t \o Later # <<>>
      /\ (t \o Later)[Len(t \o Later)] = Later[Len(Later)] /\ (t \o Later)[1] = t[1]
  BY <1>1, <1>3, LastOfConcat
<1>5. Inked(t \o Later)
  BY <1>3, <1>4, ShortTexts DEF Inked
<1>6. trim(t) = t /\ trim(t \o Later) = t \o Later
  BY <1>4, <1>5, TrimInked, Zenon
<1>7. t \o Later = f \o (s \o Later) /\ s \o Later \in Seq(Unit)
  <2>1. f \in Seq(Unit)
    BY ShortTexts, Zenon
  <2> HIDE DEF f, s
  <2>2. (f \o s) \o Later = f \o (s \o Later)
    BY <1>2, <1>3, <2>1, TextAssociative
  <2>3. s \o Later \in Seq(Unit)
    BY <1>2, <1>3, TextConcat, Zenon
  <2> QED BY <1>2, <2>2, <2>3, Zenon
<1>8. \A key \in {"v", "g", "a"} : Values(s \o Later, key) = Values(s, key)
  BY <1>2, LaterAdds, Zenon
<1>9. len(t \o Later) <= MAX_SEED_LEN /\ len(t) <= MAX_SEED_LEN
  <2>1. len(t \o Later) = len(t) + len(Later)
    BY <1>3, LenConcat, Zenon
  <2>2. len(t) \in Nat /\ len(Later) \in Nat
    BY <1>3, LenUnfolds, Zenon
  <2>3. MAX_SEED_LEN \in Nat
    BY SeedAssumption
  <2> DEFINE a == len(t)
             b == len(Later)
             c == len(t \o Later)
  <2>4. a \in Nat /\ b \in Nat /\ c = a + b /\ a + b <= MAX_SEED_LEN
    BY <2>1, <2>2
  <2> HIDE DEF a, b, c
  <2>5. c <= MAX_SEED_LEN /\ a <= MAX_SEED_LEN
    BY <2>3, <2>4
  <2> QED BY <2>5 DEF a, c
<1>10. ReadText(t \o Later) = ReadText(t)
  <2> DEFINE u == s \o Later
  <2>1. u \in Seq(Unit) /\ \A key \in {"v", "g", "a"} : Values(u, key) = Values(s, key)
    BY <1>7, <1>8
  <2>2. len(<<SEED_PREFIX>> \o u) <= MAX_SEED_LEN /\ len(<<SEED_PREFIX>> \o s) <= MAX_SEED_LEN
    BY <1>2, <1>7, <1>9, Zenon
  <2> HIDE DEF u, s
  <2>3. ReadText(<<SEED_PREFIX>> \o u) = ReadText(<<SEED_PREFIX>> \o s)
    BY <1>2, <2>1, <2>2, SameReading
  <2> QED BY <1>2, <1>7, <2>3, Zenon DEF u
<1> QED BY <1>6, <1>10, DecodeReads, Zenon

-----------------------------------------------------------------------------
(* seed_addrs_from.                                                        *)

Addresses == {WithId(l) : l \in Listener}

\* What one listener more adds to the addresses of a class.
OfferedStep(addrs, l, class) ==
  IF l.class # class \/ WithId(l) \in ToSet(addrs) THEN addrs ELSE Append(addrs, WithId(l))

\* Offered is what its recursion says.
LEMMA OfferedUnfolds ==
  ASSUME NEW class
  PROVE  /\ Offered(<<>>, class) = <<>>
         /\ \A ls \in Seq(Listener) : \A l \in Listener :
              Offered(Append(ls, l), class) = OfferedStep(Offered(ls, class), l, class)
         /\ \A ls \in Seq(Listener) : Offered(ls, class) \in Seq(Addresses)
<1> DEFINE T == Listener
           V == Seq(Addresses)
           step == [q \in V \X T |-> OfferedStep(q[1], q[2], class)]
           F(f, ls) == IF ls = <<>> THEN <<>> ELSE OfferedStep(f[Front(ls)], Last(ls), class)
           of == CHOOSE f : f = [ls \in Seq(T) |-> F(f, ls)]
<1>0. \A ls : Offered(ls, class) = of[ls]
  BY DEF Offered, OfferedStep
<1> HIDE DEF of
<1>1. <<>> \in V /\ <<>> \in Seq(T)
  OBVIOUS
<1>2. ASSUME NEW v \in V, NEW l \in T PROVE OfferedStep(v, l, class) \in V
  <2>1. WithId(l) \in Addresses
    BY DEF Addresses
  <2>2. Append(v, WithId(l)) \in V
    BY <2>1, AppendFacts
  <2> QED BY <2>2 DEF OfferedStep
<1> HIDE DEF V, T
<1>3. step \in [V \X T -> V]
  BY <1>2
<1>4. \A v \in V : \A l \in T : step[<<v, l>>] = OfferedStep(v, l, class)
  OBVIOUS
<1> HIDE DEF step
<1>5. PICK f \in [Seq(T) -> V] : Folds(f, T, <<>>, step)
  BY <1>1, <1>3, FoldExists
<1>6. f = [ls \in Seq(T) |-> F(f, ls)]
  <2>1. ASSUME NEW ls \in Seq(T) PROVE f[ls] = F(f, ls)
    <3>1. CASE ls = <<>>
      BY <1>5, <3>1 DEF Folds
    <3>2. CASE ls # <<>>
      <4>1. Front(ls) \in Seq(T) /\ Last(ls) \in T /\ ls = Append(Front(ls), Last(ls))
        BY <3>2, FrontLast
      <4>2. f[Append(Front(ls), Last(ls))] = step[<<f[Front(ls)], Last(ls)>>]
        BY <1>5, <4>1 DEF Folds
      <4>3. f[Front(ls)] \in V
        BY <4>1
      <4>4. step[<<f[Front(ls)], Last(ls)>>] = OfferedStep(f[Front(ls)], Last(ls), class)
        BY <1>4, <4>1, <4>3
      <4> QED BY <3>2, <4>1, <4>2, <4>4
    <3> QED BY <3>1, <3>2
  <2> HIDE DEF F
  <2> QED BY <2>1
<1>7. of = [ls \in Seq(T) |-> F(of, ls)]
  <2> HIDE DEF F
  <2> QED BY <1>6 DEF of
<1>8. Offered(<<>>, class) = <<>>
  BY <1>0, <1>1, <1>7
<1>9. ASSUME NEW ls \in Seq(T), NEW l \in T
      PROVE  Offered(Append(ls, l), class) = OfferedStep(Offered(ls, class), l, class)
  <2>1. /\ Front(Append(ls, l)) = ls /\ Last(Append(ls, l)) = l
        /\ Append(ls, l) # <<>> /\ Append(ls, l) \in Seq(T)
    BY FrontLastAppend
  <2>2. of[Append(ls, l)] = F(of, Append(ls, l))
    BY <1>7, <2>1
  <2> QED BY <1>0, <2>1, <2>2
<1>10. \A ls \in Seq(T) : Offered(ls, class) \in V
  <2> DEFINE P == {ls \in Seq(T) : Offered(ls, class) \in V}
  <2>1. <<>> \in P
    BY <1>1, <1>8
  <2>2. ASSUME NEW ls \in Seq(T), NEW l \in T, ls \in P PROVE Append(ls, l) \in P
    <3>1. Append(ls, l) \in Seq(T)
      OBVIOUS
    <3> QED BY <1>2, <1>9, <2>2, <3>1
  <2> HIDE DEF P
  <2>3. \A ls \in Seq(T) : ls \in P
    BY <2>1, <2>2, SeqInduction
  <2> QED BY <2>3 DEF P
<1> QED BY <1>8, <1>9, <1>10 DEF V, T

\* A class with a listener has an address.
LEMMA OfferedNotEmpty ==
  ASSUME NEW class
  PROVE  \A ls \in Seq(Listener) :
           (\E i \in 1 .. Len(ls) : ls[i].class = class) => Offered(ls, class) # <<>>
<1> DEFINE Q(ls) == (\E i \in 1 .. Len(ls) : ls[i].class = class) => Offered(ls, class) # <<>>
           P == {ls \in Seq(Listener) : Q(ls)}
<1>1. <<>> \in P
  <2>1. <<>> \in Seq(Listener) /\ Len(<<>>) = 0 /\ \A i \in 1 .. 0 : FALSE
    OBVIOUS
  <2> QED BY <2>1
<1>2. ASSUME NEW ls \in Seq(Listener), NEW l \in Listener, ls \in P PROVE Append(ls, l) \in P
  <2>1. /\ Append(ls, l) \in Seq(Listener) /\ Len(Append(ls, l)) = Len(ls) + 1
        /\ Append(ls, l)[Len(ls) + 1] = l /\ Len(ls) \in Nat
        /\ \A i \in 1 .. Len(ls) : Append(ls, l)[i] = ls[i]
    BY AppendFacts
  <2>2. Offered(Append(ls, l), class) = OfferedStep(Offered(ls, class), l, class)
    BY OfferedUnfolds
  <2>3. Offered(ls, class) \in Seq(Addresses)
    BY OfferedUnfolds
  <2>4. CASE Offered(ls, class) # <<>>
    <3>1. Append(Offered(ls, class), WithId(l)) # <<>>
      BY <2>3, AppendProperties DEF Addresses
    <3>2. Offered(Append(ls, l), class) # <<>>
      BY <2>2, <2>4, <3>1 DEF OfferedStep
    <3> QED BY <2>1, <3>2
  <2>5. CASE Offered(ls, class) = <<>>
    <3>1. \A i \in 1 .. Len(ls) : ls[i].class # class
      BY <1>2, <2>5
    <3>2. ASSUME NEW i \in 1 .. Len(Append(ls, l)), Append(ls, l)[i].class = class
          PROVE  Offered(Append(ls, l), class) # <<>>
      <4>1. i \in 1 .. Len(ls) \/ i = Len(ls) + 1
        <5> DEFINE m == Len(ls)
        <5>1. m \in Nat /\ i \in 1 .. m + 1
          BY <2>1
        <5> HIDE DEF m
        <5>2. i \in 1 .. m \/ i = m + 1
          BY <5>1
        <5> QED BY <5>2 DEF m
      <4>2. l.class = class
        BY <2>1, <3>1, <3>2, <4>1
      <4>3. ToSet(<<>>) = {}
        BY DEF ToSet
      <4>4. OfferedStep(<<>>, l, class) = Append(<<>>, WithId(l))
        BY <4>2, <4>3 DEF OfferedStep
      <4>5. Append(<<>>, WithId(l)) # <<>>
        <5> DEFINE y == WithId(l)
        <5> HIDE DEF y
        <5>1. Append(<<>>, y) # <<>>
          OBVIOUS
        <5> QED BY <5>1 DEF y
      <4> QED BY <2>2, <2>5, <4>4, <4>5
    <3> QED BY <2>1, <3>2
  <2> QED BY <2>4, <2>5
<1> HIDE DEF P
<1>3. \A ls \in Seq(Listener) : ls \in P
  BY <1>1, <1>2, SeqInduction
<1> QED BY <1>3 DEF P

\* The places of two sequences in one.
LEMMA ConcatFacts ==
  ASSUME NEW S, NEW s \in Seq(S), NEW t \in Seq(S)
  PROVE  /\ s \o t \in Seq(S) /\ Len(s \o t) = Len(s) + Len(t)
         /\ \A i \in 1 .. Len(s) : (s \o t)[i] = s[i]
         /\ \A i \in 1 .. Len(t) : (s \o t)[Len(s) + i] = t[i]
OBVIOUS

\* Two elements, two more and one make five.
LEMMA FiveConcat ==
  ASSUME NEW S, NEW a \in S, NEW b \in S, NEW c \in S, NEW d \in S, NEW e \in S
  PROVE  Append(<<a>>, b) \o (Append(<<c>>, d) \o <<e>>) = <<a, b, c, d, e>>
<1> DEFINE x == <<a>>
           y == <<c>>
           z == <<e>>
           r == <<a, b, c, d, e>>
           s == Append(x, b)
           q == Append(y, d)
           t == q \o z
           u == s \o t
<1>1. x \in Seq(S) /\ Len(x) = 1 /\ x[1] = a
  OBVIOUS
<1>2. y \in Seq(S) /\ Len(y) = 1 /\ y[1] = c
  OBVIOUS
<1>3. z \in Seq(S) /\ Len(z) = 1 /\ z[1] = e
  OBVIOUS
<1>4. r \in Seq(S) /\ Len(r) = 5 /\ r[1] = a /\ r[2] = b /\ r[3] = c /\ r[4] = d /\ r[5] = e
  OBVIOUS
<1> HIDE DEF x, y, z, r
<1>5. s \in Seq(S) /\ Len(s) = 2 /\ s[1] = a /\ s[2] = b
  <2>1. x \in Seq(S)
    BY <1>1
  <2>2. /\ s \in Seq(S) /\ Len(s) = Len(x) + 1 /\ s[Len(x) + 1] = b
        /\ \A i \in 1 .. Len(x) : s[i] = x[i]
    BY <2>1, AppendFacts
  <2> HIDE DEF s
  <2> QED BY <1>1, <2>2
<1>6. q \in Seq(S) /\ Len(q) = 2 /\ q[1] = c /\ q[2] = d
  <2>1. y \in Seq(S)
    BY <1>2
  <2>2. /\ q \in Seq(S) /\ Len(q) = Len(y) + 1 /\ q[Len(y) + 1] = d
        /\ \A i \in 1 .. Len(y) : q[i] = y[i]
    BY <2>1, AppendFacts
  <2> HIDE DEF q
  <2> QED BY <1>2, <2>2
<1> HIDE DEF s, q
<1>7. t \in Seq(S) /\ Len(t) = 3 /\ t[1] = c /\ t[2] = d /\ t[3] = e
  <2>1. q \in Seq(S) /\ z \in Seq(S)
    BY <1>3, <1>6
  <2>2. /\ t \in Seq(S) /\ Len(t) = Len(q) + Len(z)
        /\ \A i \in 1 .. Len(q) : t[i] = q[i]
        /\ \A i \in 1 .. Len(z) : t[Len(q) + i] = z[i]
    BY <2>1, ConcatFacts
  <2> HIDE DEF t
  <2>3. 1 \in 1 .. 2 /\ 2 \in 1 .. 2 /\ 1 \in 1 .. 1 /\ 2 + 1 = 3
    OBVIOUS
  <2> QED BY <1>3, <1>6, <2>2, <2>3
<1> HIDE DEF t
<1>8. u \in Seq(S) /\ Len(u) = 5 /\ u[1] = a /\ u[2] = b /\ u[3] = c /\ u[4] = d /\ u[5] = e
  <2>1. s \in Seq(S) /\ t \in Seq(S)
    BY <1>5, <1>7
  <2>2. /\ u \in Seq(S) /\ Len(u) = Len(s) + Len(t)
        /\ \A i \in 1 .. Len(s) : u[i] = s[i]
        /\ \A i \in 1 .. Len(t) : u[Len(s) + i] = t[i]
    BY <2>1, ConcatFacts
  <2> HIDE DEF u
  <2>3. /\ 1 \in 1 .. 2 /\ 2 \in 1 .. 2 /\ 1 \in 1 .. 3 /\ 2 \in 1 .. 3 /\ 3 \in 1 .. 3
        /\ 2 + 1 = 3 /\ 2 + 2 = 4 /\ 2 + 3 = 5
    OBVIOUS
  <2> QED BY <1>5, <1>7, <2>2, <2>3
<1> HIDE DEF u
<1>9. u = r
  <2>1. \A i \in 1 .. 5 : i = 1 \/ i = 2 \/ i = 3 \/ i = 4 \/ i = 5
    OBVIOUS
  <2>2. \A i \in 1 .. 5 : u[i] = r[i]
    BY <2>1, <1>4, <1>8
  <2> QED BY <1>4, <1>8, <2>2, SeqEqual
<1> QED BY <1>9 DEF x, y, z, r, s, q, t, u

\* The address of five characters after the '/', as a text, and its pieces.
LEMMA AddressParts ==
  ASSUME NEW A \in Unit, NEW P \in Unit, NEW X \in Unit, NEW s \in Unit,
         A # s, P # s, X # s
  PROVE  Split(<<A, s, P, s, X>>, s) = <<(<<A>>)>> \o (<<(<<P>>)>> \o <<(<<X>>)>>)
<1> DEFINE a == <<A>>
           p == <<P>>
           x == <<X>>
           m == Append(p, s) \o x
           t == Append(a, s) \o m
<1>1. /\ a \in Seq(Unit) /\ p \in Seq(Unit) /\ x \in Seq(Unit)
      /\ Lacks(a, s) /\ Lacks(p, s) /\ Lacks(x, s)
  BY DEF Lacks
<1>2. Append(p, s) \in Seq(Unit)
  <2> HIDE DEF p
  <2> QED BY <1>1
<1>3. t = <<A, s, P, s, X>>
  BY FiveConcat
<1> HIDE DEF a, p, x
<1>4. m \in Seq(Unit)
  BY <1>1, <1>2, TextConcat, Zenon
<1> HIDE DEF m, t
<1>5. Split(x, s) = <<x>>
  BY <1>1, SplitWhole, Zenon
<1>6. Split(m, s) = <<p>> \o <<x>>
  <2>1. Split(Append(p, s) \o x, s) = <<p>> \o Split(x, s)
    BY <1>1, SplitFirst
  <2> QED BY <1>5, <2>1, Zenon DEF m
<1>7. Split(t, s) = <<a>> \o (<<p>> \o <<x>>)
  <2>1. Split(Append(a, s) \o m, s) = <<a>> \o Split(m, s)
    BY <1>1, <1>4, SplitFirst
  <2> QED BY <1>6, <2>1, Zenon DEF t
<1> QED BY <1>3, <1>7, Zenon DEF a, p, x

\* An address with the name of its peer is one that a seed may hold.
LEMMA AddressValid ==
  ASSUME NEW l \in Listener
  PROVE  WithId(l) \in Seq(Char) /\ valid_addr(WithId(l))
<1> DEFINE a == WithId(l)
           c == l.at
           parts == Split(RawText(Tail(a)), Raw("/"))
<1>1. c \in {"x", "y", "g"}
  BY DEF Listener
<1>2. /\ "/" \in Graphic /\ "p" \in Graphic /\ "x" \in Graphic /\ c \in Graphic
      /\ "p" \in Alnum /\ "x" \in Alnum /\ c # "/"
  BY <1>1 DEF Graphic, Alnum
<1>3. \A d \in Graphic : d \in Char
  BY Distinct
<1>4. a = <<"/", c, "/", "p", "/", "x">>
  BY DEF WithId
<1> HIDE DEF a, c
<1>5. /\ a \in Seq(Graphic) /\ Len(a) = 6 /\ a # <<>> /\ Head(a) = "/"
      /\ Tail(a) = <<c, "/", "p", "/", "x">>
  BY <1>2, <1>4
<1>6. a \in Seq(Char) /\ \A i \in DOMAIN a : a[i] \in Graphic
  <2> HIDE DEF a
  <2>1. Seq(Graphic) \subseteq Seq(Char)
    BY <1>3
  <2>2. a \in Seq(Graphic)
    BY <1>5
  <2> QED BY <2>1, <2>2
<1>7. RawText(Tail(a)) = <<Raw(c), Raw("/"), Raw("p"), Raw("/"), Raw("x")>>
  <2> DEFINE b == <<c, "/", "p", "/", "x">>
  <2>1. DOMAIN b = 1 .. 5 /\ b[1] = c /\ b[2] = "/" /\ b[3] = "p" /\ b[4] = "/" /\ b[5] = "x"
    OBVIOUS
  <2> HIDE DEF b
  <2>2. RawText(b) = [i \in 1 .. 5 |-> Raw(b[i])]
    BY <2>1 DEF RawText
  <2>3. [i \in 1 .. 5 |-> Raw(b[i])] = <<Raw(c), Raw("/"), Raw("p"), Raw("/"), Raw("x")>>
    BY <2>1
  <2> QED BY <1>5, <2>2, <2>3, Zenon DEF b
<1>8. parts = <<(<<Raw(c)>>)>> \o (<<(<<Raw("p")>>)>> \o <<(<<Raw("x")>>)>>)
  <2>1. /\ Raw(c) \in Unit /\ Raw("p") \in Unit /\ Raw("x") \in Unit /\ Raw("/") \in Unit
        /\ Raw(c) # Raw("/") /\ Raw("p") # Raw("/") /\ Raw("x") # Raw("/")
    BY <1>2, <1>3, RawIsUnit, RawDiffers
  <2>2. Split(<<Raw(c), Raw("/"), Raw("p"), Raw("/"), Raw("x")>>, Raw("/"))
          = <<(<<Raw(c)>>)>> \o (<<(<<Raw("p")>>)>> \o <<(<<Raw("x")>>)>>)
    <3> DEFINE A == Raw(c)
               P == Raw("p")
               X == Raw("x")
               s == Raw("/")
    <3>1. A \in Unit /\ P \in Unit /\ X \in Unit /\ s \in Unit /\ A # s /\ P # s /\ X # s
      BY <2>1
    <3> HIDE DEF A, P, X, s
    <3>2. Split(<<A, s, P, s, X>>, s) = <<(<<A>>)>> \o (<<(<<P>>)>> \o <<(<<X>>)>>)
      BY <3>1, AddressParts
    <3> QED BY <3>2 DEF A, P, X, s
  <2> QED BY <1>7, <2>2, Zenon
<1> HIDE DEF parts
<1>9. RawText(<<"p">>) = <<Raw("p")>>
  BY DEF RawText
<1>10. Raw("x").char = "x"
  BY DEF Raw
<1>11. /\ Len(parts) = 3 /\ DOMAIN parts = 1 .. 3
       /\ parts[1] = <<Raw(c)>> /\ parts[2] = <<Raw("p")>> /\ parts[3] = <<Raw("x")>>
  <2> DEFINE C == <<Raw(c)>>
             P == <<Raw("p")>>
             X == <<Raw("x")>>
             ps == <<P>> \o <<X>>
  <2>1. parts = <<C>> \o ps
    BY <1>8
  <2> HIDE DEF C, P, X
  <2>2. ps \in Seq({C, P, X}) /\ Len(ps) = 2 /\ ps[1] = P /\ ps[2] = X
    OBVIOUS
  <2> HIDE DEF ps
  <2> DEFINE cs == <<C>>
             S == {C, P, X}
  <2>3. cs \in Seq(S) /\ Len(cs) = 1 /\ cs[1] = C
    OBVIOUS
  <2> HIDE DEF cs, S
  <2>4. cs \in Seq(S) /\ ps \in Seq(S)
    BY <2>2, <2>3 DEF S
  <2>5. /\ cs \o ps \in Seq(S) /\ Len(cs \o ps) = Len(cs) + Len(ps)
        /\ \A i \in 1 .. Len(cs) : (cs \o ps)[i] = cs[i]
        /\ \A i \in 1 .. Len(ps) : (cs \o ps)[Len(cs) + i] = ps[i]
    BY <2>4, ConcatFacts
  <2> DEFINE all == cs \o ps
  <2>6. /\ all \in Seq(S) /\ Len(all) = Len(cs) + Len(ps)
        /\ \A i \in 1 .. Len(cs) : all[i] = cs[i]
        /\ \A i \in 1 .. Len(ps) : all[Len(cs) + i] = ps[i]
    BY <2>5
  <2> HIDE DEF all
  <2>7. Len(all) = 3 /\ all[1] = C /\ all[2] = P /\ all[3] = X
    BY <2>2, <2>3, <2>6
  <2>8. DOMAIN all = 1 .. 3
    <3>1. all \in Seq(S) /\ Len(all) = 3
      BY <2>6, <2>7
    <3>2. DOMAIN all = 1 .. Len(all)
      BY <3>1, SeqIsFunction
    <3> QED BY <3>1, <3>2, Zenon
  <2> QED BY <2>1, <2>7, <2>8 DEF C, P, X, all, cs
<1>12. \A i \in DOMAIN parts : parts[i] # <<>>
  <2>1. \A x : <<x>> # <<>>
    OBVIOUS
  <2>2. \A i \in 1 .. 3 : i = 1 \/ i = 2 \/ i = 3
    OBVIOUS
  <2> QED BY <1>11, <2>1, <2>2
<1>13. \E i \in 1 .. Len(parts) - 1 :
         /\ parts[i] = RawText(<<"p">>)
         /\ \A j \in DOMAIN parts[i + 1] : parts[i + 1][j].char \in Alnum
  <2> DEFINE xs == <<Raw("x")>>
  <2>1. DOMAIN xs = {1} /\ xs[1] = Raw("x")
    OBVIOUS
  <2> HIDE DEF xs
  <2>2. parts[3] = xs /\ 2 + 1 = 3 /\ 2 \in 1 .. 3 - 1
    BY <1>11 DEF xs
  <2>3. \A j \in DOMAIN xs : xs[j].char \in Alnum
    BY <1>2, <1>10, <2>1
  <2> QED BY <1>9, <1>11, <2>2, <2>3
<1>14. Len(a) <= MAX_ADDR_LEN
  BY <1>5, SeedAssumption
<1>15. valid_addr(a)
  BY <1>5, <1>6, <1>12, <1>13, <1>14 DEF valid_addr, parts
<1> QED BY <1>6, <1>15 DEF a

\* A sequence over a set is one over a larger set.
LEMMA SeqGrows ==
  ASSUME NEW S, NEW T, \A x \in S : x \in T, NEW s \in Seq(S)
  PROVE  s \in Seq(T)
<1>1. \A i \in 1 .. Len(s) : s[i] \in T
  OBVIOUS
<1>2. s = [i \in 1 .. Len(s) |-> s[i]] /\ Len(s) \in Nat
  OBVIOUS
<1>3. s \in [1 .. Len(s) -> T]
  BY <1>1, <1>2
<1> QED BY <1>2, <1>3, FunctionIsSeq

\* What seed_addrs_from leaves: as many addresses as a seed holds, each one that
\* it may hold, and none only if no listener can be offered.
LEMMA SeedAddrs ==
  ASSUME NEW ls \in Seq(Listener)
  PROVE  /\ seed_addrs_from(ls) \in Seq(Seq(Char))
         /\ Len(seed_addrs_from(ls)) <= MAX_SEED_ADDRS
         /\ \A i \in DOMAIN seed_addrs_from(ls) : valid_addr(seed_addrs_from(ls)[i])
         /\ (\E i \in DOMAIN ls : ls[i].class # "hidden") => seed_addrs_from(ls) # <<>>
<1> DEFINE r == Offered(ls, "routable")
           b == Offered(ls, "loopback")
           out == IF r = <<>> THEN b ELSE r
           n == MAX_SEED_ADDRS
           as == seed_addrs_from(ls)
<1>1. r \in Seq(Addresses) /\ b \in Seq(Addresses)
  BY OfferedUnfolds
<1>2. as = IF Len(out) <= n THEN out ELSE SubSeq(out, 1, n)
  BY DEF seed_addrs_from
<1>3. (\E i \in DOMAIN ls : ls[i].class # "hidden") => out # <<>>
  <2> SUFFICES ASSUME NEW i \in DOMAIN ls, ls[i].class # "hidden" PROVE out # <<>>
    OBVIOUS
  <2>1. i \in 1 .. Len(ls) /\ ls[i] \in Listener
    OBVIOUS
  <2>2. ls[i].class \in {"routable", "loopback"}
    BY <2>1 DEF Listener
  <2>3. r # <<>> \/ b # <<>>
    BY <2>1, <2>2, OfferedNotEmpty
  <2> QED BY <2>3
<1>4. out \in Seq(Addresses) /\ n \in Nat \ {0}
  BY <1>1, SeedAssumption
<1> HIDE DEF r, b, out, n, as
<1>5. /\ as \in Seq(Addresses) /\ Len(as) <= n
      /\ out # <<>> => as # <<>>
  <2>0. Len(out) \in Nat /\ DOMAIN out = 1 .. Len(out)
    BY <1>4
  <2>1. CASE Len(out) <= n
    BY <1>2, <1>4, <2>1
  <2>2. CASE ~(Len(out) <= n)
    <3>1. as = SubSeq(out, 1, n)
      BY <1>2, <2>2
    <3>2. n \in 1 .. Len(out)
      BY <1>4, <2>0, <2>2
    <3>3. SubSeq(out, 1, n) \in Seq(Addresses) /\ Len(SubSeq(out, 1, n)) = n
      BY <1>4, <2>0, <3>2, SubSeqProperties
    <3>4. as \in Seq(Addresses) /\ Len(as) = n
      BY <3>1, <3>3, Zenon
    <3>5. as # <<>>
      BY <1>4, <3>4
    <3>6. n <= n
      BY <1>4
    <3> QED BY <3>4, <3>5, <3>6
  <2> QED BY <2>1, <2>2
<1>6. \A a \in Addresses : a \in Seq(Char) /\ valid_addr(a)
  BY AddressValid DEF Addresses
<1>7. as \in Seq(Seq(Char)) /\ \A i \in DOMAIN as : valid_addr(as[i])
  <2> DEFINE T == Seq(Char)
  <2> HIDE DEF T
  <2>1. \A a \in Addresses : a \in T
    BY <1>6 DEF T
  <2>2. as \in Seq(Addresses)
    BY <1>5
  <2>3. as \in Seq(T)
    BY <2>1, <2>2, SeqGrows
  <2>4. \A i \in DOMAIN as : as[i] \in Addresses
    BY <2>2, SeqIsFunction
  <2> QED BY <1>6, <2>3, <2>4 DEF T
<1> QED BY <1>3, <1>5, <1>7 DEF as, n

\* A seed of a proper group at a machine that can be reached is valid.
LEMMA ShareValid ==
  ASSUME NEW ls \in Seq(Listener), NEW g,
         valid_group(g), \E i \in DOMAIN ls : ls[i].class # "hidden"
  PROVE  validate(Record(g, seed_addrs_from(ls)))
<1> DEFINE as == seed_addrs_from(ls)
           T == Seq(Char)
<1>1. /\ as \in Seq(T) /\ Len(as) <= MAX_SEED_ADDRS /\ as # <<>>
      /\ \A i \in DOMAIN as : valid_addr(as[i])
  BY SeedAddrs
<1> HIDE DEF as, T
<1>2. Len(as) \in 1 .. MAX_SEED_ADDRS
  <2>1. Len(as) \in Nat /\ Len(as) # 0
    BY <1>1, EmptySeq
  <2>2. MAX_SEED_ADDRS \in Nat
    BY SeedAssumption
  <2> DEFINE k == Len(as)
  <2>3. k \in Nat /\ k # 0 /\ k <= MAX_SEED_ADDRS
    BY <1>1, <2>1
  <2> HIDE DEF k
  <2>4. k \in 1 .. MAX_SEED_ADDRS
    BY <2>2, <2>3
  <2> QED BY <2>4 DEF k
<1>3. Record(g, as).group = g /\ Record(g, as).addrs = as
  BY DEF Record
<1> QED BY <1>1, <1>2, <1>3 DEF validate, as

-----------------------------------------------------------------------------
(* The invariant.                                                          *)

\* Until somebody touches it, the text is the one that was given out.
Untouched == edits = 0 /\ sent # Refused => text = encode(sent)

Inv == TypeOK /\ Untouched

Seeds == [group : Seq(Char), addrs : Seq(Seq(Char))]

\* Seeds are records of a group id and addresses; Refused has the type of one.
LEMMA SeedIsRecord ==
  /\ \A g \in Seq(Char) : \A as \in Seq(Seq(Char)) : Record(g, as) \in Seeds
  /\ \A s \in Seeds : \E g \in Seq(Char) : \E as \in Seq(Seq(Char)) : s = Record(g, as)
  /\ Refused \in Seeds
<1> DEFINE S == Seq(Char)
           T == Seq(S)
<1>0. <<>> \in S /\ <<>> \in T
  OBVIOUS
<1> HIDE DEF S, T
<1>1. \A g \in S : \A as \in T : [group |-> g, addrs |-> as] \in [group : S, addrs : T]
  OBVIOUS
<1>2. ASSUME NEW s \in [group : S, addrs : T]
      PROVE  s.group \in S /\ s.addrs \in T /\ s = [group |-> s.group, addrs |-> s.addrs]
  OBVIOUS
<1>3. Refused \in [group : S, addrs : T]
  BY <1>0 DEF Refused
<1> QED BY <1>1, <1>2, <1>3 DEF Record, Seeds, S, T

\* The text of a seed is one.
LEMMA EncodeType ==
  ASSUME NEW g \in Seq(Char), NEW as \in Seq(Seq(Char))
  PROVE  encode(Record(g, as)) \in Seq(Unit)
<1>1. PICK q : Says(q, g, as)
  BY EncodeSays
<1>2. q \in Seq(Unit) /\ encode(Record(g, as)) = <<SEED_PREFIX>> \o q
  BY <1>1 DEF Says
<1>3. <<SEED_PREFIX>> \o q \in Seq(Unit)
  BY <1>2, PrefixFacts
<1> QED BY <1>2, <1>3, Zenon

\* A text that loses a unit, or gains one, is a text.
LEMMA EditType ==
  ASSUME NEW t \in Seq(Unit)
  PROVE  /\ \A i \in DOMAIN t : RemoveAt(t, i) \in Seq(Unit)
         /\ \A i \in 1 .. Len(t) + 1 : \A u \in Unit : InsertAt(t, i, u) \in Seq(Unit)
<1>0. Len(t) \in Nat /\ DOMAIN t = 1 .. Len(t)
  OBVIOUS
<1>1. \A m \in 1 .. Len(t) + 1 : \A n \in 0 .. Len(t) : SubSeq(t, m, n) \in Seq(Unit)
  BY SubSeqProperties
<1>2. ASSUME NEW i \in DOMAIN t PROVE RemoveAt(t, i) \in Seq(Unit)
  <2>1. i - 1 \in 0 .. Len(t) /\ i + 1 \in 1 .. Len(t) + 1 /\ 1 \in 1 .. Len(t) + 1
        /\ Len(t) \in 0 .. Len(t)
    BY <1>0
  <2>2. SubSeq(t, 1, i - 1) \in Seq(Unit) /\ SubSeq(t, i + 1, Len(t)) \in Seq(Unit)
    BY <1>1, <2>1
  <2> QED BY <2>2, TextConcat, Zenon DEF RemoveAt
<1>3. ASSUME NEW i \in 1 .. Len(t) + 1, NEW u \in Unit PROVE InsertAt(t, i, u) \in Seq(Unit)
  <2>1. i - 1 \in 0 .. Len(t) /\ 1 \in 1 .. Len(t) + 1 /\ Len(t) \in 0 .. Len(t)
    BY <1>0
  <2>2. SubSeq(t, 1, i - 1) \in Seq(Unit) /\ SubSeq(t, i, Len(t)) \in Seq(Unit)
    BY <1>1, <2>1
  <2>3. <<u>> \in Seq(Unit)
    OBVIOUS
  <2>4. SubSeq(t, 1, i - 1) \o <<u>> \in Seq(Unit)
    BY <2>2, <2>3, TextConcat, Zenon
  <2> QED BY <2>2, <2>4, TextConcat, Zenon DEF InsertAt
<1> QED BY <1>2, <1>3

\* The invariant holds at the start, before there is a seed.
LEMMA InitInv == Init => Inv
<1> SUFFICES ASSUME Init PROVE Inv
  OBVIOUS
<1>1. listeners \in Seq(Listener)
  <2>1. PICK m \in 0 .. MaxListeners : listeners \in [1 .. m -> Listener]
    BY DEF Init, BoundedSeq, SeqOf
  <2>2. m \in Nat
    BY <2>1
  <2> QED BY <2>1, <2>2, FunctionIsSeq
<1>2. sent \in Seeds /\ sent = Refused
  BY SeedIsRecord DEF Init
<1>3. text \in Seq(Unit)
  BY ShortTexts, Zenon DEF Init
<1>4. edits \in 0 .. MaxEdits
  BY SeedAssumption DEF Init
<1> QED BY <1>1, <1>2, <1>3, <1>4, Zenon DEF Inv, TypeOK, Untouched, Seeds

\* Giving out a seed and every edit of its text keep the invariant.
LEMMA NextInv == Inv /\ [Next]_vars => Inv'
<1> SUFFICES ASSUME Inv, [Next]_vars PROVE Inv'
  OBVIOUS
<1>0. /\ listeners \in Seq(Listener) /\ sent \in Seeds /\ (sent # Refused => validate(sent))
      /\ text \in Seq(Unit) /\ edits \in 0 .. MaxEdits /\ Untouched
  BY Zenon DEF Inv, TypeOK, Seeds
<1>1. ASSUME NEW g \in Groups, GiveOut(g) PROVE Inv'
  <2> DEFINE as == seed_addrs_from(listeners)
  <2>1. g \in Seq(Char)
    BY GroupAssumption
  <2>2. as \in Seq(Seq(Char))
    BY <1>0, SeedAddrs
  <2>3. Share(g) = Record(g, as)
    BY DEF Share, Record
  <2>4. /\ validate(Share(g)) /\ sent' = Share(g) /\ text' = encode(Share(g))
        /\ listeners' = <<>> /\ edits' = edits
    BY <1>1, Zenon DEF GiveOut
  <2>5. Share(g) \in Seeds
    BY <2>1, <2>2, <2>3, SeedIsRecord, Zenon
  <2>6. encode(Share(g)) \in Seq(Unit)
    BY <2>1, <2>2, <2>3, EncodeType, Zenon
  <2>7. <<>> \in Seq(Listener)
    OBVIOUS
  <2>8. TypeOK'
    BY <1>0, <2>4, <2>5, <2>6, <2>7, Zenon DEF TypeOK, Seeds
  <2>9. Untouched'
    BY <2>4, Zenon DEF Untouched
  <2> QED BY <2>8, <2>9, Zenon DEF Inv
<1>2. ASSUME text' \in Seq(Unit), edits < MaxEdits, edits' = edits + 1,
             UNCHANGED <<listeners, sent>>
      PROVE  Inv'
  <2>1. edits' \in 0 .. MaxEdits /\ edits' # 0
    BY <1>0, <1>2, SeedAssumption
  <2>2. listeners' = listeners /\ sent' = sent
    BY <1>2
  <2>3. TypeOK'
    BY <1>0, <1>2, <2>1, <2>2, Zenon DEF TypeOK, Seeds
  <2>4. Untouched'
    BY <2>1, Zenon DEF Untouched
  <2> QED BY <2>3, <2>4, Zenon DEF Inv
<1>3. ASSUME NEW i \in DOMAIN text, Lose(i) PROVE Inv'
  <2>1. RemoveAt(text, i) \in Seq(Unit)
    BY <1>0, EditType
  <2>2. /\ edits < MaxEdits /\ text' = RemoveAt(text, i) /\ edits' = edits + 1
        /\ UNCHANGED <<listeners, sent>>
    BY <1>3, Zenon DEF Lose
  <2> QED BY <1>2, <2>1, <2>2, Zenon
<1>4. ASSUME NEW i \in 1 .. Len(text) + 1, NEW u \in Unit, Gain(i, u) PROVE Inv'
  <2>1. InsertAt(text, i, u) \in Seq(Unit)
    BY <1>0, EditType
  <2>2. /\ edits < MaxEdits /\ text' = InsertAt(text, i, u) /\ edits' = edits + 1
        /\ UNCHANGED <<listeners, sent>>
    BY <1>4, Zenon DEF Gain
  <2> QED BY <1>2, <2>1, <2>2, Zenon
<1>5. ASSUME UNCHANGED vars PROVE Inv'
  <2>1. listeners' = listeners /\ sent' = sent /\ text' = text /\ edits' = edits
    BY <1>5 DEF vars
  <2>2. TypeOK'
    BY <1>0, <2>1, Zenon DEF TypeOK, Seeds
  <2>3. Untouched'
    BY <1>0, <2>1, Zenon DEF Untouched
  <2> QED BY <2>2, <2>3, Zenon DEF Inv
<1> QED BY <1>1, <1>3, <1>4, <1>5, Zenon DEF Next

\* The seed that was given out is valid, and its text the one encode wrote, in
\* every reachable state.
THEOREM SeedInv == Spec => []Inv
<1>1. Init => Inv
  BY InitInv
<1>2. Inv /\ [Next]_vars => Inv'
  BY NextInv
<1> QED BY <1>1, <1>2, PTL DEF Spec

\* Whatever listeners a swarm has, and however many, ClusterDaemon::seed gives out
\* a seed of any proper group that the constructor takes, if one of them can be
\* offered at all.
THEOREM AnyMachineCanShareHolds == Spec => []AnyMachineCanShare
<1>1. Inv => AnyMachineCanShare
  <2> SUFFICES ASSUME Inv, \E i \in DOMAIN listeners : listeners[i].class # "hidden",
                      NEW g \in Groups, valid_group(g)
               PROVE  validate(Share(g))
    BY DEF AnyMachineCanShare
  <2>1. listeners \in Seq(Listener)
    BY Zenon DEF Inv, TypeOK
  <2>2. validate(Record(g, seed_addrs_from(listeners)))
    BY <2>1, ShareValid
  <2> QED BY <2>2 DEF Share, Record
<1> QED BY <1>1, SeedInv, PTL

\* For group ids of any characters, and however many addresses, decode reads from
\* the text of encode the seed that encode was given.
THEOREM TextSaysWhatWasSentHolds == Spec => []TextSaysWhatWasSent
<1>1. Inv => TextSaysWhatWasSent
  <2> SUFFICES ASSUME Inv, edits = 0, sent # Refused, len(text) <= MAX_SEED_LEN
               PROVE  decode(text) = sent
    BY DEF TextSaysWhatWasSent
  <2>1. sent \in Seeds /\ validate(sent) /\ text = encode(sent)
    BY Zenon DEF Inv, TypeOK, Seeds, Untouched
  <2>2. PICK g \in Seq(Char) : \E as \in Seq(Seq(Char)) : sent = Record(g, as)
    BY <2>1, SeedIsRecord, Zenon
  <2>3. PICK as \in Seq(Seq(Char)) : sent = Record(g, as)
    BY <2>2
  <2>4. validate(Record(g, as)) /\ len(encode(Record(g, as))) <= MAX_SEED_LEN
    BY <2>1, <2>3, Zenon
  <2>5. decode(encode(Record(g, as))) = Record(g, as)
    BY <2>4, RoundTrip
  <2> QED BY <2>1, <2>3, <2>5, Zenon
<1> QED BY <1>1, SeedInv, PTL

\* From any text at all decode takes valid seeds only, which are read again as
\* the same when they are given out again, and a field of a later version, in
\* front or at the end, changes nothing of what is read.
THEOREM DecodeIsSoundHolds == Spec => []DecodeIsSound
<1>1. TypeOK => ReadIsValid
  <2> SUFFICES ASSUME TypeOK, decode(text) # Refused
               PROVE  /\ validate(decode(text))
                      /\ len(encode(decode(text))) <= MAX_SEED_LEN
                           => decode(encode(decode(text))) = decode(text)
    BY DEF ReadIsValid
  <2>1. text \in Seq(Unit)
    BY Zenon DEF TypeOK
  <2>2. PICK g \in Seq(Char) : \E as \in Seq(Seq(Char)) :
               decode(text) = Record(g, as) /\ validate(Record(g, as))
    BY <2>1, ReadsValid
  <2>3. PICK as \in Seq(Seq(Char)) : decode(text) = Record(g, as) /\ validate(Record(g, as))
    BY <2>2
  <2>4. len(encode(Record(g, as))) <= MAX_SEED_LEN
          => decode(encode(Record(g, as))) = Record(g, as)
    BY <2>3, RoundTrip
  <2> QED BY <2>3, <2>4, Zenon
<1>2. TypeOK => LaterFieldsIgnored
  <2> SUFFICES ASSUME TypeOK, text # <<>>, Head(text) = SEED_PREFIX,
                      len(text) + len(Later) <= MAX_SEED_LEN
               PROVE  /\ decode(<<SEED_PREFIX>> \o Tail(Later) \o RawText(<<"&">>) \o Tail(text))
                           = decode(text)
                      /\ Last(text) # Raw(" ") => decode(text \o Later) = decode(text)
    BY DEF LaterFieldsIgnored, Later
  <2>1. text \in Seq(Unit)
    BY Zenon DEF TypeOK
  <2>2. decode(<<SEED_PREFIX>> \o Tail(Later) \o RawText(<<"&">>) \o Tail(text)) = decode(text)
    BY <2>1, LaterInFront
  <2>3. ASSUME Last(text) # Raw(" ") PROVE decode(text \o Later) = decode(text)
    <3>1. text[1] = SEED_PREFIX
      BY <2>1
    <3>2. Inked(text)
      BY <2>3, <3>1, ShortTexts, Zenon DEF Inked, Last
    <3> QED BY <2>1, <3>1, <3>2, LaterAtEnd
  <2> QED BY <2>2, <2>3
<1>3. Inv => DecodeIsSound
  BY <1>1, <1>2, Zenon DEF Inv, DecodeIsSound
<1> QED BY <1>3, SeedInv, PTL
=============================================================================

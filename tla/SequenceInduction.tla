------------------------- MODULE SequenceInduction -------------------------
(***************************************************************************)
(* What the recursive operators on sequences that the models use do with a *)
(* sequence that grows or shrinks at an end: FlattenSeq of the community   *)
(* modules and Only of Filtering.  Induction is over sets, not over        *)
(* operators: SetInduction comes from the well-foundedness of strict       *)
(* inclusion between the finite sets 1 .. n.                               *)
(***************************************************************************)
EXTENDS Filtering, SequencesExt, SequenceTheorems, FiniteSetTheorems, TLAPS

\* A set that has 0 and, with a number, the next one, has every number.
LEMMA SetInduction ==
  ASSUME NEW S, 0 \in S, \A n \in Nat : n \in S => n + 1 \in S
  PROVE  Nat \subseteq S
<1> SUFFICES ASSUME NEW m \in Nat, m \notin S PROVE FALSE
    OBVIOUS
<1> DEFINE Bad == {1 .. n : n \in Nat \ S}
<1>1. Bad \subseteq FiniteSubsetsOf(Nat) /\ Bad # {}
  <2>1. ASSUME NEW n \in Nat PROVE 1 .. n \subseteq Nat /\ IsFiniteSet(1 .. n)
    BY FS_Interval
  <2> QED BY <2>1 DEF FiniteSubsetsOf
<1>2. PICK x \in Bad : \A y \in Bad : ~ (<<y, x>> \in StrictSubsetOrdering(Nat))
  <2> HIDE DEF Bad
  <2> QED BY <1>1, FS_StrictSubsetOrderingWellFounded, WFMin
<1>3. PICK n \in Nat \ S : x = 1 .. n
  OBVIOUS
<1>4. n - 1 \in Nat \ S
  OBVIOUS
<1>5. <<1 .. n-1, 1 .. n>> \in StrictSubsetOrdering(Nat)
  <2>1. 1 .. n-1 \subseteq 1 .. n /\ 1 .. n \subseteq Nat /\ 1 .. n-1 \subseteq Nat /\ n \in 1 .. n /\ n \notin 1 .. n-1
    BY <1>4
  <2> QED BY <2>1 DEF StrictSubsetOrdering
<1>6. 1 .. n-1 \in Bad
  BY <1>4
<1> QED BY <1>2, <1>3, <1>5, <1>6

\* A function that goes on from x0 by N given steps.
Iterates(f, X, x0, step, N) ==
  f \in [0 .. N -> X] /\ f[0] = x0 /\ \A i \in 1 .. N : f[i] = step[i][f[i-1]]

\* Steps that are functions of a set into itself can be iterated.
LEMMA Iteration ==
  ASSUME NEW X, NEW x0 \in X, NEW N \in Nat, NEW step \in [1 .. N -> [X -> X]]
  PROVE  \E f : Iterates(f, X, x0, step, N)
<1> DEFINE S == {n \in Nat : n <= N => \E f : Iterates(f, X, x0, step, n)}
<1>1. 0 \in S
  <2> DEFINE f == [i \in 0 .. 0 |-> x0]
  <2>1. Iterates(f, X, x0, step, 0)
    BY DEF Iterates
  <2> QED BY <2>1
<1>2. ASSUME NEW n \in Nat, n \in S PROVE n + 1 \in S
  <2> SUFFICES ASSUME n + 1 <= N PROVE \E g : Iterates(g, X, x0, step, n+1)
      OBVIOUS
  <2>1. PICK f : Iterates(f, X, x0, step, n)
    BY <1>2
  <2>2. f \in [0 .. n -> X] /\ f[0] = x0 /\ \A i \in 1 .. n : f[i] = step[i][f[i-1]]
    BY <2>1 DEF Iterates
  <2> DEFINE g == [i \in 0 .. n+1 |-> IF i = n+1 THEN step[n+1][f[n]] ELSE f[i]]
  <2>3. step[n+1][f[n]] \in X
    BY <2>2
  <2>4. g \in [0 .. n+1 -> X] /\ g[0] = x0
    BY <2>2, <2>3
  <2>5. ASSUME NEW i \in 1 .. n+1 PROVE g[i] = step[i][g[i-1]]
    <3>1. CASE i = n+1
      BY <3>1
    <3>2. CASE i # n+1
      BY <3>2, <2>2
    <3> QED BY <3>1, <3>2
  <2>6. Iterates(g, X, x0, step, n+1)
    BY <2>4, <2>5 DEF Iterates
  <2> QED BY <2>6
<1> HIDE DEF S
<1>3. N \in S
  BY <1>1, <1>2, SetInduction
<1> QED BY <1>3 DEF S

\* A set that has <<>> and, with a sequence, each of its extensions by one
\* element, has every sequence.
LEMMA AppendInduction ==
  ASSUME NEW T, NEW S, <<>> \in S,
         \A s \in Seq(T), e \in T : s \in S => Append(s, e) \in S
  PROVE  Seq(T) \subseteq S
<1> DEFINE L == {n \in Nat : \A s \in Seq(T) : Len(s) = n => s \in S}
<1>1. 0 \in L
  OBVIOUS
<1>2. ASSUME NEW n \in Nat, n \in L PROVE n + 1 \in L
  <2> SUFFICES ASSUME NEW s \in Seq(T), Len(s) = n + 1 PROVE s \in S
      OBVIOUS
  <2>1. s # <<>>
    BY EmptySeq
  <2>2. PICK r \in Seq(T), e \in T : s = Append(r, e)
    BY <2>1, SequenceEmptyOrAppend
  <2>3. Len(r) = n
    <3>1. Len(r) \in Nat /\ Len(s) = Len(r) + 1
      BY <2>2, AppendProperties
    <3> QED BY <3>1
  <2>4. r \in S
    BY <1>2, <2>3
  <2> QED BY <2>2, <2>4
<1> HIDE DEF L
<1>3. Nat \subseteq L
  BY <1>1, <1>2, SetInduction
<1> QED BY <1>3 DEF L

-----------------------------------------------------------------------------
(* FlattenSeq *)

\* Concatenation as an operator the provers do not expand.
Cat(s, t) == s \o t

\* What a function is that adds the sequences of s up, one by one.
SumsUp(f, s) == f = [i \in 1 .. Len(s) |-> IF i = 1 THEN s[i] ELSE Cat(f[i-1], s[i])]

\* The type of a concatenation.
LEMMA CatType ==
  ASSUME NEW T, NEW s \in Seq(T), NEW t \in Seq(T)
  PROVE  Cat(s, t) \in Seq(T)
BY ConcatProperties DEF Cat

\* The partial sums of s: their type, the first one, and each from the one before.
LEMMA SumsUpStep ==
  ASSUME NEW T, NEW s \in Seq(Seq(T)), NEW f, SumsUp(f, s)
  PROVE  /\ \A i \in 1 .. Len(s) : f[i] \in Seq(T)
         /\ s # <<>> => f[1] = s[1]
         /\ \A n \in Nat \ {0} : n + 1 <= Len(s) => f[n+1] = Cat(f[n], s[n+1])
<1> DEFINE N == Len(s)
           X == Seq(T)
<1>1. N \in Nat /\ \A i \in 1 .. N : s[i] \in X
  OBVIOUS
<1>2. \A i \in 1 .. N : f[i] = IF i = 1 THEN s[i] ELSE Cat(f[i-1], s[i])
  BY DEF SumsUp
<1>3. s # <<>> => f[1] = s[1]
  BY <1>1, <1>2, EmptySeq
<1>4. ASSUME NEW n \in Nat \ {0}, n + 1 <= N PROVE f[n+1] = Cat(f[n], s[n+1])
  BY <1>1, <1>2, <1>4
<1> DEFINE S == {n \in Nat : n \in 1 .. N => f[n] \in X}
<1>5. 0 \in S
  OBVIOUS
<1>6. ASSUME NEW n \in Nat, n \in S PROVE n + 1 \in S
  <2> SUFFICES ASSUME n + 1 \in 1 .. N PROVE f[n+1] \in X
      OBVIOUS
  <2>1. CASE n = 0
    BY <1>1, <1>2, <2>1
  <2>2. CASE n # 0
    <3>1. n \in 1 .. N /\ n + 1 <= N
      BY <1>1, <2>2
    <3>2. f[n] \in X
      BY <1>6, <3>1
    <3>3. f[n+1] = Cat(f[n], s[n+1])
      BY <1>4, <3>1, <2>2
    <3> QED BY <1>1, <3>2, <3>3, CatType
  <2> QED BY <2>1, <2>2
<1> HIDE DEF S
<1>7. Nat \subseteq S
  BY <1>5, <1>6, SetInduction
<1>8. \A n \in 1 .. N : f[n] \in X
  BY <1>1, <1>7 DEF S
<1> QED BY <1>3, <1>4, <1>8

\* There are partial sums of every sequence of sequences.
LEMMA SumsUpExists ==
  ASSUME NEW T, NEW s \in Seq(Seq(T))
  PROVE  \E f : SumsUp(f, s)
<1> DEFINE N == Len(s)
           X == Seq(T)
           step == [i \in 1 .. N |-> [t \in X |-> Cat(t, s[i])]]
<1>1. N \in Nat /\ \A i \in 1 .. N : s[i] \in X
  OBVIOUS
<1>2. step \in [1 .. N -> [X -> X]] /\ <<>> \in X
  BY <1>1, CatType
<1>3. \A x0 \in X : \E h : Iterates(h, X, x0, step, N)
  <2> HIDE DEF step, N, X
  <2> QED BY <1>1, <1>2, Iteration
<1>4. PICK h : Iterates(h, X, <<>>, step, N)
  BY <1>2, <1>3
<1>5. h \in [0 .. N -> X] /\ h[0] = <<>> /\ \A i \in 1 .. N : h[i] = step[i][h[i-1]]
  BY <1>4 DEF Iterates
<1>6. ASSUME NEW i \in 1 .. N PROVE h[i] = Cat(h[i-1], s[i])
  <2>1. i - 1 \in 0 .. N
    BY <1>1
  <2>2. h[i-1] \in X
    BY <1>5, <2>1
  <2> QED BY <1>5, <2>2
<1> DEFINE f == [i \in 1 .. N |-> h[i]]
<1>7. ASSUME NEW i \in 1 .. N PROVE f[i] = IF i = 1 THEN s[i] ELSE Cat(f[i-1], s[i])
  <2>1. CASE i = 1
    <3>1. h[1] = Cat(<<>>, s[1])
      BY <1>5, <1>6, <2>1
    <3>2. s[1] \in X
      BY <1>1, <2>1
    <3>3. Cat(<<>>, s[1]) = s[1]
      BY <3>2, ConcatEmptySeq DEF Cat
    <3> QED BY <2>1, <3>1, <3>3
  <2>2. CASE i # 1
    <3>1. i - 1 \in 1 .. N
      BY <1>1, <2>2
    <3> QED BY <1>6, <2>2, <3>1
  <2> QED BY <2>1, <2>2
<1>8. SumsUp(f, s)
  <2>1. f = [i \in 1 .. N |-> f[i]]
    OBVIOUS
  <2> HIDE DEF f
  <2> QED BY <1>7, <2>1 DEF SumsUp
<1> QED BY <1>8

\* FlattenSeq is the last of the partial sums.
LEMMA FlattenDef ==
  ASSUME NEW T, NEW s \in Seq(Seq(T)), s # <<>>
  PROVE  \E f : SumsUp(f, s) /\ FlattenSeq(s) = f[Len(s)]
<1> DEFINE flatten[i \in 1 .. Len(s)] == IF i = 1 THEN s[i] ELSE flatten[i-1] \o s[i]
<1>1. FlattenSeq(s) = flatten[Len(s)]
  BY EmptySeq DEF FlattenSeq
<1>2. SumsUp(flatten, s)
  <2>1. PICK f : SumsUp(f, s)
    BY SumsUpExists
  <2> QED BY <2>1 DEF SumsUp, Cat
<1> QED BY <1>1, <1>2

\* FlattenSeq of a sequence that gets longer at its end, as a channel does
\* when a batch is sent on it, and the type of FlattenSeq.
LEMMA FlattenAppend ==
  ASSUME NEW T, NEW s \in Seq(Seq(T)), NEW b \in Seq(T)
  PROVE  /\ FlattenSeq(s) \in Seq(T)
         /\ FlattenSeq(Append(s, b)) = FlattenSeq(s) \o b
<1> DEFINE N == Len(s)
           t == Append(s, b)
<1>1. N \in Nat /\ t \in Seq(Seq(T)) /\ Len(t) = N + 1 /\ t[N+1] = b /\ \A i \in 1 .. N : t[i] = s[i]
  BY AppendProperties
<1> HIDE DEF t
<1>2. t # <<>>
  BY <1>1
<1>3. PICK g : SumsUp(g, t) /\ FlattenSeq(t) = g[N+1]
  BY <1>1, <1>2, FlattenDef
<1>4. /\ g[1] = t[1]
      /\ \A n \in Nat \ {0} : n + 1 <= N + 1 => g[n+1] = Cat(g[n], t[n+1])
  <2>1. /\ t # <<>> => g[1] = t[1]
        /\ \A n \in Nat \ {0} : n + 1 <= Len(t) => g[n+1] = Cat(g[n], t[n+1])
    <3>1. t \in Seq(Seq(T)) /\ SumsUp(g, t)
      BY <1>1, <1>3
    <3> QED BY ONLY <3>1, SumsUpStep
  <2> QED BY <1>1, <1>2, <2>1
<1>5. CASE s = <<>>
  <2>1. N = 0 /\ FlattenSeq(s) = <<>>
    BY <1>5 DEF FlattenSeq
  <2>2. FlattenSeq(t) = b
    BY <1>1, <1>3, <1>4, <2>1
  <2>3. <<>> \o b = b
    BY ConcatEmptySeq
  <2> QED BY <2>1, <2>2, <2>3, <1>5 DEF t
<1>6. CASE s # <<>>
  <2>1. PICK f : SumsUp(f, s) /\ FlattenSeq(s) = f[N]
    BY <1>6, FlattenDef
  <2>2. /\ \A i \in 1 .. N : f[i] \in Seq(T)
        /\ f[1] = s[1]
        /\ \A n \in Nat \ {0} : n + 1 <= N => f[n+1] = Cat(f[n], s[n+1])
    BY <1>6, <2>1, SumsUpStep
  <2> DEFINE S == {n \in Nat : n \in 1 .. N => f[n] = g[n]}
  <2>3. 0 \in S
    OBVIOUS
  <2>4. ASSUME NEW n \in Nat, n \in S PROVE n + 1 \in S
    <3> SUFFICES ASSUME n + 1 \in 1 .. N PROVE f[n+1] = g[n+1]
        OBVIOUS
    <3>1. CASE n = 0
      BY <1>1, <1>4, <2>2, <3>1
    <3>2. CASE n # 0
      <4>1. n \in 1 .. N /\ n + 1 <= N /\ n + 1 <= N + 1
        BY <1>1, <3>2
      <4>2. f[n] = g[n]
        BY <2>4, <4>1
      <4>3. f[n+1] = Cat(f[n], s[n+1]) /\ g[n+1] = Cat(g[n], t[n+1])
        BY <1>4, <2>2, <3>2, <4>1
      <4> QED BY <1>1, <4>2, <4>3
    <3> QED BY <3>1, <3>2
  <2> HIDE DEF S
  <2>5. Nat \subseteq S
    BY <2>3, <2>4, SetInduction
  <2>6. N \in Nat \ {0}
    BY <1>1, <1>6, EmptySeq
  <2>7. f[N] = g[N]
    BY <2>5, <2>6 DEF S
  <2>8. g[N+1] = Cat(g[N], b)
    <3>1. N + 1 <= N + 1
      BY <2>6
    <3> HIDE DEF N
    <3>2. g[N+1] = Cat(g[N], t[N+1])
      BY <1>4, <2>6, <3>1
    <3> QED BY <1>1, <3>2
  <2> QED BY <1>3, <2>1, <2>2, <2>6, <2>7, <2>8 DEF t, Cat
<1> QED BY <1>5, <1>6

\* The type of FlattenSeq.
LEMMA FlattenTyped ==
  ASSUME NEW T, NEW s \in Seq(Seq(T)) PROVE FlattenSeq(s) \in Seq(T)
<1>1. <<>> \in Seq(T)
  OBVIOUS
<1>2. \A b \in Seq(T) : FlattenSeq(s) \in Seq(T)
  BY ONLY FlattenAppend
<1> QED BY <1>1, <1>2

\* FlattenSeq of nothing.
LEMMA FlattenEmpty == FlattenSeq(<<>>) = <<>>
BY DEF FlattenSeq

\* FlattenSeq of a sequence that loses its head, as a channel does when a
\* batch is received from it.
LEMMA FlattenHead ==
  ASSUME NEW T, NEW s \in Seq(Seq(T)), s # <<>>
  PROVE  FlattenSeq(s) = Head(s) \o FlattenSeq(Tail(s))
<1> DEFINE S == {r \in Seq(Seq(T)) : r # <<>> => FlattenSeq(r) = Head(r) \o FlattenSeq(Tail(r))}
<1>1. <<>> \in S
  OBVIOUS
<1>2. ASSUME NEW r \in Seq(Seq(T)), NEW e \in Seq(T), r \in S PROVE Append(r, e) \in S
  <2>1. FlattenSeq(Append(r, e)) = FlattenSeq(r) \o e
    BY FlattenAppend
  <2>2. Append(r, e) \in Seq(Seq(T)) /\ Append(r, e) # <<>>
    BY AppendProperties
  <2>3. CASE r = <<>>
    <3>1. Head(Append(r, e)) = e /\ Tail(Append(r, e)) = <<>>
      BY <2>3, HeadTailAppend
    <3>2. <<>> \o e = e /\ e \o <<>> = e
      BY ConcatEmptySeq
    <3>3. FlattenSeq(Append(r, e)) = e
      BY <2>1, <2>3, <3>2, FlattenEmpty
    <3> QED BY <2>2, <3>1, <3>2, <3>3, FlattenEmpty
  <2>4. CASE r # <<>>
    <3>1. Head(Append(r, e)) = Head(r) /\ Tail(Append(r, e)) = Append(Tail(r), e)
      BY <2>4, HeadTailAppend
    <3>2. Head(r) \in Seq(T) /\ Tail(r) \in Seq(Seq(T))
      BY <2>4, HeadTailProperties
    <3>3. FlattenSeq(Tail(r)) \in Seq(T) /\ FlattenSeq(Append(Tail(r), e)) = FlattenSeq(Tail(r)) \o e
      BY <3>2, FlattenAppend
    <3>4. (Head(r) \o FlattenSeq(Tail(r))) \o e = Head(r) \o (FlattenSeq(Tail(r)) \o e)
      <4>1. \A a, b, c \in Seq(T) : (a \o b) \o c = a \o (b \o c)
        BY ConcatAssociative
      <4> QED BY <3>2, <3>3, <4>1, Zenon
    <3>5. FlattenSeq(r) = Head(r) \o FlattenSeq(Tail(r))
      BY <1>2, <2>4
    <3> QED BY <2>1, <2>2, <3>1, <3>3, <3>4, <3>5
  <2> QED BY <2>3, <2>4
<1> HIDE DEF S
<1>3. Seq(Seq(T)) \subseteq S
  BY <1>1, <1>2, AppendInduction
<1> QED BY <1>3 DEF S

\* Three parts of a queue, g gone, i in hand and f behind, when the head of i
\* goes.
LEMMA QueueParts ==
  ASSUME NEW T, NEW g \in Seq(T), NEW i \in Seq(T), NEW f \in Seq(T), i # <<>>
  PROVE  /\ (Append(g, Head(i)) \o Tail(i)) \o f = (g \o i) \o f
         /\ i \o f # <<>> /\ Head(i \o f) = Head(i) /\ Tail(i \o f) = Tail(i) \o f
<1> DEFINE h == Head(i)
           t == Tail(i)
<1>1. \A x, y, z \in Seq(T) : (x \o y) \o z = x \o (y \o z)
  BY ConcatAssociative
<1>2. /\ h \in T /\ t \in Seq(T) /\ i = <<h>> \o t /\ <<h>> \in Seq(T)
  OBVIOUS
<1>3. t \o f \in Seq(T)
  BY <1>2, ConcatProperties
<1> HIDE DEF t, h
<1>4. Append(g, h) = g \o <<h>>
  BY <1>2, AppendIsConcat
<1>5. (g \o <<h>>) \o t = g \o i
  BY <1>1, <1>2, Zenon
<1>6. i \o f = <<h>> \o (t \o f)
  <2>1. (<<h>> \o t) \o f = <<h>> \o (t \o f)
    BY <1>1, <1>2, Zenon
  <2>2. i = <<h>> \o t
    BY <1>2
  <2>3. i \o f = (<<h>> \o t) \o f
    BY ONLY <2>2, Zenon
  <2> QED BY <2>1, <2>3, Zenon
<1>7. <<h>> \o (t \o f) # <<>> /\ Head(<<h>> \o (t \o f)) = h /\ Tail(<<h>> \o (t \o f)) = t \o f
  <2>1. \A s \in Seq(T) : <<h>> \o s # <<>> /\ Head(<<h>> \o s) = h /\ Tail(<<h>> \o s) = s
    BY <1>2
  <2> QED BY <1>3, <2>1, Zenon
<1>8. (Append(g, h) \o t) \o f = (g \o i) \o f
  BY <1>4, <1>5, Zenon
<1> QED BY <1>6, <1>7, <1>8, Zenon DEF h, t

-----------------------------------------------------------------------------
(* Only *)

\* One round of the loop of Only.
Extend(t, e, K) == IF e \in K THEN Append(t, e) ELSE t

\* What a function is that goes through s and keeps the elements in K.
Keeps(f, s, K) == f = [n \in 0 .. Len(s) |-> IF n = 0 THEN <<>> ELSE Extend(f[n-1], s[n], K)]

\* There is a run of the loop of Only over every sequence.
LEMMA KeepsExists ==
  ASSUME NEW T, NEW s \in Seq(T), NEW K
  PROVE  \E f : Keeps(f, s, K) /\ f \in [0 .. Len(s) -> Seq(T)]
<1> DEFINE N == Len(s)
           X == Seq(T)
           step == [i \in 1 .. N |-> [t \in X |-> Extend(t, s[i], K)]]
<1>1. N \in Nat /\ \A i \in 1 .. N : s[i] \in T
  OBVIOUS
<1>2. step \in [1 .. N -> [X -> X]] /\ <<>> \in X
  BY <1>1 DEF Extend
<1>3. \A x0 \in X : \E h : Iterates(h, X, x0, step, N)
  <2> HIDE DEF step, N, X
  <2> QED BY <1>1, <1>2, Iteration
<1>4. PICK h : Iterates(h, X, <<>>, step, N)
  BY <1>2, <1>3
<1>5. h \in [0 .. N -> X] /\ h[0] = <<>> /\ \A i \in 1 .. N : h[i] = step[i][h[i-1]]
  BY <1>4 DEF Iterates
<1>6. ASSUME NEW i \in 1 .. N PROVE h[i] = Extend(h[i-1], s[i], K)
  <2>1. i - 1 \in 0 .. N
    BY <1>1
  <2>2. h[i-1] \in X
    BY <1>5, <2>1
  <2> QED BY <1>5, <2>2
<1>7. h = [n \in 0 .. N |-> IF n = 0 THEN <<>> ELSE Extend(h[n-1], s[n], K)]
  <2>1. h = [n \in 0 .. N |-> h[n]]
    BY <1>5
  <2>2. \A n \in 0 .. N : h[n] = IF n = 0 THEN <<>> ELSE Extend(h[n-1], s[n], K)
    BY <1>1, <1>5, <1>6
  <2> QED BY <2>1, <2>2
<1> QED BY <1>5, <1>7 DEF Keeps

\* The loop of Only over s and over an extension of s agree as far as s goes.
LEMMA KeepsUnique ==
  ASSUME NEW T, NEW s \in Seq(T), NEW t \in Seq(T), NEW K, NEW f, NEW g,
         Keeps(f, s, K), Keeps(g, t, K), Len(s) <= Len(t),
         \A i \in 1 .. Len(s) : s[i] = t[i]
  PROVE  \A i \in 0 .. Len(s) : f[i] = g[i]
<1> DEFINE S == {n \in Nat : n <= Len(s) => f[n] = g[n]}
<1>1. Len(s) \in Nat /\ Len(t) \in Nat
  OBVIOUS
<1>2. /\ \A n \in 0 .. Len(s) : f[n] = IF n = 0 THEN <<>> ELSE Extend(f[n-1], s[n], K)
      /\ \A n \in 0 .. Len(t) : g[n] = IF n = 0 THEN <<>> ELSE Extend(g[n-1], t[n], K)
  BY DEF Keeps
<1>3. 0 \in S
  BY <1>1, <1>2
<1>4. ASSUME NEW n \in Nat, n \in S PROVE n + 1 \in S
  <2> SUFFICES ASSUME n + 1 <= Len(s) PROVE f[n+1] = g[n+1]
      OBVIOUS
  <2>1. n + 1 \in 0 .. Len(s) /\ n + 1 \in 0 .. Len(t) /\ n + 1 \in 1 .. Len(s) /\ n + 1 # 0
    BY <1>1
  <2>2. f[n+1] = Extend(f[n], s[n+1], K) /\ g[n+1] = Extend(g[n], t[n+1], K)
    BY <1>2, <2>1
  <2>3. f[n] = g[n]
    BY <1>1, <1>4
  <2>4. s[n+1] = t[n+1]
    BY <2>1
  <2> QED BY <2>2, <2>3, <2>4
<1> HIDE DEF S
<1>5. Nat \subseteq S
  BY <1>3, <1>4, SetInduction
<1> QED BY <1>1, <1>5 DEF S

\* Only is what the loop has kept at its end.
LEMMA OnlyDef ==
  ASSUME NEW T, NEW s \in Seq(T), NEW K
  PROVE  \E f : /\ Keeps(f, s, K) /\ f \in [0 .. Len(s) -> Seq(T)]
                /\ Only(s, K) = f[Len(s)]
<1> DEFINE kept[n \in 0 .. Len(s)] ==
             IF n = 0 THEN <<>> ELSE IF s[n] \in K THEN Append(kept[n-1], s[n]) ELSE kept[n-1]
<1>1. Only(s, K) = kept[Len(s)]
  BY DEF Only
<1>2. PICK f : Keeps(f, s, K) /\ f \in [0 .. Len(s) -> Seq(T)]
  BY KeepsExists
<1>3. Keeps(kept, s, K)
  BY <1>2 DEF Keeps, Extend
<1>4. \A i \in 0 .. Len(s) : kept[i] = f[i]
  <2> HIDE DEF kept
  <2>1. Len(s) <= Len(s) /\ \A i \in 1 .. Len(s) : s[i] = s[i]
    OBVIOUS
  <2> QED BY <1>2, <1>3, <2>1, KeepsUnique
<1>5. Len(s) \in 0 .. Len(s)
  OBVIOUS
<1> HIDE DEF kept
<1> QED BY <1>1, <1>2, <1>4, <1>5

\* Only of a sequence that gets longer, and the type of Only.
LEMMA OnlyAppend ==
  ASSUME NEW T, NEW s \in Seq(T), NEW e \in T, NEW K
  PROVE  /\ Only(s, K) \in Seq(T)
         /\ Only(Append(s, e), K) = IF e \in K THEN Append(Only(s, K), e) ELSE Only(s, K)
<1> DEFINE t == Append(s, e)
<1>1. /\ t \in Seq(T) /\ Len(s) \in Nat /\ Len(t) = Len(s) + 1 /\ t[Len(s)+1] = e
      /\ \A i \in 1 .. Len(s) : s[i] = t[i]
  BY AppendProperties
<1> HIDE DEF t
<1>2. PICK f : /\ Keeps(f, s, K) /\ f \in [0 .. Len(s) -> Seq(T)]
               /\ Only(s, K) = f[Len(s)]
  BY OnlyDef
<1>3. PICK g : /\ Keeps(g, t, K) /\ Only(t, K) = g[Len(t)]
  BY <1>1, OnlyDef
<1>4. f[Len(s)] = g[Len(s)]
  <2>1. Len(s) <= Len(t)
    BY <1>1
  <2>2. \A i \in 0 .. Len(s) : f[i] = g[i]
    BY <1>1, <1>2, <1>3, <2>1, KeepsUnique
  <2> QED BY <1>1, <2>2
<1>5. g[Len(s)+1] = Extend(g[Len(s)], e, K)
  <2>1. \A n \in 0 .. Len(t) : g[n] = IF n = 0 THEN <<>> ELSE Extend(g[n-1], t[n], K)
    BY <1>3 DEF Keeps
  <2> QED BY <1>1, <2>1
<1> QED BY <1>1, <1>2, <1>3, <1>4, <1>5 DEF Extend, t

\* The type of Only.
LEMMA OnlyTyped ==
  ASSUME NEW T, NEW s \in Seq(T), NEW K PROVE Only(s, K) \in Seq(T)
<1>1. PICK f : f \in [0 .. Len(s) -> Seq(T)] /\ Only(s, K) = f[Len(s)]
  BY OnlyDef
<1>2. Len(s) \in 0 .. Len(s)
  OBVIOUS
<1> QED BY <1>1, <1>2

\* Only of nothing.
LEMMA OnlyEmpty == \A K : Only(<<>>, K) = <<>>
<1> SUFFICES ASSUME NEW K PROVE Only(<<>>, K) = <<>>
    OBVIOUS
<1>1. PICK f : Keeps(f, <<>>, K) /\ Only(<<>>, K) = f[Len(<<>>)]
  <2>1. <<>> \in Seq({})
    OBVIOUS
  <2> QED BY <2>1, OnlyDef
<1> QED BY <1>1 DEF Keeps

\* The elements of a sequence that gets longer.
LEMMA AppendElements ==
  ASSUME NEW T, NEW s \in Seq(T), NEW e \in T
  PROVE  ToSet(Append(s, e)) = ToSet(s) \cup {e}
<1>1. /\ Len(s) \in Nat /\ DOMAIN s = 1 .. Len(s) /\ DOMAIN Append(s, e) = 1 .. Len(s) + 1
      /\ Append(s, e)[Len(s) + 1] = e /\ \A i \in 1 .. Len(s) : Append(s, e)[i] = s[i]
  OBVIOUS
<1>2. 1 .. Len(s) + 1 = (1 .. Len(s)) \cup {Len(s) + 1}
  BY <1>1
<1> HIDE DEF ToSet
<1>3. ASSUME NEW x \in ToSet(Append(s, e)) PROVE x \in ToSet(s) \cup {e}
  <2>1. PICK i \in 1 .. Len(s) + 1 : x = Append(s, e)[i]
    BY <1>1 DEF ToSet
  <2> QED BY <1>1, <1>2, <2>1 DEF ToSet
<1>4. ASSUME NEW x \in ToSet(s) PROVE x \in ToSet(Append(s, e))
  <2>1. PICK i \in 1 .. Len(s) : x = s[i]
    BY <1>1 DEF ToSet
  <2> QED BY <1>1, <1>2, <2>1 DEF ToSet
<1>5. e \in ToSet(Append(s, e))
  BY <1>1, <1>2 DEF ToSet
<1> QED BY <1>3, <1>4, <1>5

\* Only keeps the elements of s that are in K, all of them and nothing else.
LEMMA OnlyElements ==
  ASSUME NEW T, NEW s \in Seq(T), NEW K
  PROVE  ToSet(Only(s, K)) = ToSet(s) \cap K
<1> DEFINE S == {r \in Seq(T) : ToSet(Only(r, K)) = ToSet(r) \cap K}
<1>1. <<>> \in S
  <2>1. ToSet(<<>>) = {}
    BY DEF ToSet
  <2> QED BY <2>1, OnlyEmpty
<1>2. ASSUME NEW r \in Seq(T), NEW e \in T, r \in S PROVE Append(r, e) \in S
  <2>1. /\ Only(r, K) \in Seq(T)
        /\ Only(Append(r, e), K) = IF e \in K THEN Append(Only(r, K), e) ELSE Only(r, K)
    BY ONLY OnlyAppend
  <2>2. ToSet(Append(r, e)) = ToSet(r) \cup {e} /\ ToSet(Append(Only(r, K), e)) = ToSet(Only(r, K)) \cup {e}
    BY <2>1, AppendElements
  <2>3. Append(r, e) \in Seq(T) /\ ToSet(Only(r, K)) = ToSet(r) \cap K
    BY <1>2
  <2>4. ToSet(Only(Append(r, e), K)) = ToSet(Append(r, e)) \cap K
    <3>1. CASE e \in K
      BY <2>1, <2>2, <2>3, <3>1
    <3>2. CASE e \notin K
      BY <2>1, <2>2, <2>3, <3>2
    <3> QED BY <3>1, <3>2
  <2> QED BY <2>3, <2>4
<1> HIDE DEF S
<1>3. Seq(T) \subseteq S
  BY <1>1, <1>2, AppendInduction
<1> QED BY <1>3 DEF S
=============================================================================

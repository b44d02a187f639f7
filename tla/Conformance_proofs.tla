--------------------------- MODULE Conformance_proofs ---------------------------
(***************************************************************************)
(* What is proved of the conformance corpus, for all strings, keys and     *)
(* templates: every variable has its type, a file that loads says the same *)
(* to every reader, nothing it says is dropped, and what is written back   *)
(* loads as what it was.                                                   *)
(***************************************************************************)
EXTENDS Conformance, Induction, SequenceTheorems

-----------------------------------------------------------------------------
(* Values.                                                                 *)

\* Objects and arrays of values of V.
Members(V) == [key : Keys, value : V]
Compounds(V) == [array : Seq(V)] \cup [object : Seq(Members(V))]

\* The recursive function is what it says.
LEMMA Levels ==
  /\ ValuesUpTo[0] = Scalars
  /\ \A n \in 1..Nesting : ValuesUpTo[n] = Scalars \cup Compounds(ValuesUpTo[n - 1])
<1> DEFINE N == Nesting
           Step(V) == Scalars \cup [array : Seq(V)] \cup [object : Seq([key : Keys, value : V])]
           Unfolds(f, n) == f = [k \in 0..n |-> IF k = 0 THEN Scalars ELSE Step(f[k - 1])]
           T == {n \in 0..N : \E f : Unfolds(f, n)}
<1>1. N \in Nat
  BY ConformanceAssumption DEF ConformanceAssumption
<1> HIDE DEF N, Step
<1>2. 0 \in T
  <2> DEFINE f == [k \in 0..0 |-> Scalars]
  <2>1. Unfolds(f, 0)
    <3>1. \A k \in 0..0 : f[k] = IF k = 0 THEN Scalars ELSE Step(f[k - 1])
      OBVIOUS
    <3> QED
      BY <3>1
  <2> HIDE DEF Unfolds
  <2> QED
    BY <1>1, <2>1
<1>3. ASSUME NEW n \in 1..N, n - 1 \in T
      PROVE  n \in T
  <2>1. PICK f : Unfolds(f, n - 1)
    BY <1>3
  <2> DEFINE g == [k \in 0..n |-> IF k = n THEN Step(f[n - 1]) ELSE f[k]]
  <2>2. \A k \in 0..n : g[k] = IF k = 0 THEN Scalars ELSE Step(g[k - 1])
    <3> SUFFICES ASSUME NEW k \in 0..n
                 PROVE  g[k] = IF k = 0 THEN Scalars ELSE Step(g[k - 1])
      OBVIOUS
    <3>1. CASE k = n
      BY <3>1
    <3>2. CASE k # n
      <4>1. k \in 0..(n - 1)
        BY <3>2
      <4>2. f[k] = IF k = 0 THEN Scalars ELSE Step(f[k - 1])
        BY <2>1, <4>1
      <4>3. k # 0 => g[k - 1] = f[k - 1]
        BY <4>1
      <4> QED
        BY <4>1, <4>2, <4>3
    <3> QED
      BY <3>1, <3>2
  <2>3. Unfolds(g, n)
    <3> DEFINE h == [k \in 0..n |-> IF k = 0 THEN Scalars ELSE Step(g[k - 1])]
    <3>1. \A k \in 0..n : g[k] = h[k]
      BY <2>2
    <3>2. g = h
      BY <3>1
    <3> QED
      BY <3>2
  <2> HIDE DEF Unfolds, g
  <2> QED
    BY <2>3
<1>4. T = 0..N
  <2> HIDE DEF T
  <2>1. T \in SUBSET (0..N)
    BY DEF T
  <2> QED
    BY <1>1, <1>2, <1>3, <2>1, InductUpTo
<1>5. \E f : Unfolds(f, N)
  BY <1>1, <1>4
<1>6. ValuesUpTo = CHOOSE f : Unfolds(f, N)
  BY Zenon DEF ValuesUpTo, N, Step
<1>7. Unfolds(ValuesUpTo, N)
  BY <1>5, <1>6, Zenon
<1> DEFINE h == [k \in 0..N |-> IF k = 0 THEN Scalars ELSE Step(ValuesUpTo[k - 1])]
<1>8. \A k \in 0..N : h[k] = IF k = 0 THEN Scalars ELSE Step(ValuesUpTo[k - 1])
  OBVIOUS
<1>9. ValuesUpTo = h
  BY <1>7
<1> HIDE DEF h
<1>10. ValuesUpTo[0] = Scalars
  BY <1>1, <1>8, <1>9
<1>11. ASSUME NEW n \in 1..N
       PROVE  ValuesUpTo[n] = Step(ValuesUpTo[n - 1])
  BY <1>1, <1>8, <1>9
<1> QED
  BY <1>10, <1>11 DEF N, Step, Compounds, Members

\* A value that is nested less deep may be nested deeper.
LEMMA Deeper ==
  ASSUME NEW V, NEW W, V \subseteq W
  PROVE  Compounds(V) \subseteq Compounds(W)
<1>1. Seq(V) \subseteq Seq(W)
  BY SeqMonotonic
<1>2. Members(V) \subseteq Members(W)
  BY DEF Members
<1>3. Seq(Members(V)) \subseteq Seq(Members(W))
  BY <1>2, SeqMonotonic
<1> QED
  BY <1>1, <1>3 DEF Compounds

\* Each level of nesting allows what the one before it allows.
LEMMA NextLevel ==
  ASSUME NEW n \in 1..Nesting
  PROVE  ValuesUpTo[n - 1] \subseteq ValuesUpTo[n]
<1> DEFINE T == {k \in 0..Nesting : k > 0 => ValuesUpTo[k - 1] \subseteq ValuesUpTo[k]}
<1>1. Nesting \in Nat
  BY ConformanceAssumption DEF ConformanceAssumption
<1>2. 0 \in T
  BY <1>1
<1>3. ASSUME NEW k \in 1..Nesting, k - 1 \in T
      PROVE  k \in T
  <2>1. CASE k = 1
    BY <2>1, <1>1, Levels
  <2>2. CASE k > 1
    <3>1. k - 1 \in 1..Nesting
      BY <2>2, <1>1
    <3>2. ValuesUpTo[(k - 1) - 1] \subseteq ValuesUpTo[k - 1]
      BY <3>1, <1>3
    <3>3. Compounds(ValuesUpTo[(k - 1) - 1]) \subseteq Compounds(ValuesUpTo[k - 1])
      BY <3>2, Deeper
    <3> QED
      BY <3>1, <3>3, <1>1, Levels
  <2> QED
    BY <2>1, <2>2, <1>1
<1>4. T = 0..Nesting
  <2> HIDE DEF T
  <2>1. T \in SUBSET (0..Nesting)
    BY DEF T
  <2> QED
    BY <1>1, <1>2, <1>3, <2>1, InductUpTo
<1> QED
  BY <1>4, <1>1

\* All values together.
LEMMA AllLevels ==
  ASSUME NEW n \in 0..Nesting
  PROVE  ValuesUpTo[n] \subseteq Values
<1>1. Nesting \in Nat
  BY ConformanceAssumption DEF ConformanceAssumption
<1> DEFINE S == {k \in n..Nesting : ValuesUpTo[n] \subseteq ValuesUpTo[k]}
<1>2. n \in S
  BY <1>1
<1>3. ASSUME NEW k \in (n + 1)..Nesting, k - 1 \in S
      PROVE  k \in S
  <2>1. k \in 1..Nesting
    BY <1>1
  <2>2. ValuesUpTo[k - 1] \subseteq ValuesUpTo[k]
    BY <2>1, NextLevel
  <2> QED
    BY <1>3, <2>2, <1>1
<1>4. \A k \in n..Nesting : k \in S
  <2> HIDE DEF S
  <2> QED
    BY <1>1, <1>2, <1>3, InductFrom
<1> QED
  BY <1>4, <1>1 DEF Values

\* What kind of value each is.
LEMMA Kinds ==
  /\ \A s, kind : Is(Str(s), kind) <=> kind = "str"
  /\ \A k, kind : Is(Num(k), kind) <=> kind = "num"
  /\ \A ms, kind : Is(Object(ms), kind) <=> kind = "object"
  /\ \A vs, kind : Is(Array(vs), kind) <=> kind = "array"
  /\ \A kind : Is(Null, kind) <=> kind = "null"
  /\ \A d, kind : Is(Delim(d), kind) <=> kind = "delim"
<1>1. \A s : DOMAIN Str(s) = {"str"}
  BY DEF Str
<1>2. \A k : DOMAIN Num(k) = {"num"}
  BY DEF Num
<1>3. \A ms : DOMAIN Object(ms) = {"object"}
  BY DEF Object
<1>4. \A vs : DOMAIN Array(vs) = {"array"}
  BY DEF Array
<1>5. DOMAIN Null = {"null"}
  BY DEF Null
<1>6. \A d : DOMAIN Delim(d) = {"delim"}
  BY DEF Delim
<1> QED
  BY <1>1, <1>2, <1>3, <1>4, <1>5, <1>6 DEF Is

\* And what is in it.
LEMMA Contents ==
  /\ \A s : Str(s).str = s
  /\ \A k : Num(k).num = k
  /\ \A ms : Object(ms).object = ms
  /\ \A vs : Array(vs).array = vs
  /\ \A d : Delim(d).delim = d
  /\ \A k, v : Member(k, v).key = k /\ Member(k, v).value = v
BY DEF Str, Num, Object, Array, Delim, Member

\* What a value of some depth is.
LEMMA Shape ==
  ASSUME NEW n \in 0..Nesting, NEW v \in ValuesUpTo[n]
  PROVE  \/ \E s \in Spellings : v = Str(s)
         \/ \E k \in Int : v = Num(k)
         \/ v = Null
         \/ n > 0 /\ \E vs \in Seq(ValuesUpTo[n - 1]) : v = Array(vs)
         \/ n > 0 /\ \E ms \in Seq(Members(ValuesUpTo[n - 1])) : v = Object(ms)
<1>1. Nesting \in Nat
  BY ConformanceAssumption DEF ConformanceAssumption
<1>2. ASSUME v \in Scalars
      PROVE  (\E s \in Spellings : v = Str(s)) \/ (\E k \in Int : v = Num(k)) \/ v = Null
  BY <1>2 DEF Scalars, Str, Num, Null
<1>3. ASSUME NEW V, v \in Compounds(V)
      PROVE  (\E vs \in Seq(V) : v = Array(vs)) \/ (\E ms \in Seq(Members(V)) : v = Object(ms))
  BY <1>3 DEF Compounds, Array, Object
<1>4. CASE n = 0
  BY <1>2, <1>4, Levels
<1>5. CASE n # 0
  <2>1. n \in 1..Nesting
    BY <1>1, <1>5
  <2>2. v \in Scalars \/ v \in Compounds(ValuesUpTo[n - 1])
    BY <2>1, Levels
  <2> QED
    BY <1>2, <1>3, <2>1, <2>2
<1> QED
  BY <1>4, <1>5

\* The other way round.
LEMMA Shaped ==
  /\ \A n \in 0..Nesting :
       /\ \A s \in Spellings : Str(s) \in ValuesUpTo[n]
       /\ \A k \in Int : Num(k) \in ValuesUpTo[n]
       /\ Null \in ValuesUpTo[n]
  /\ \A n \in 1..Nesting :
       /\ \A vs \in Seq(ValuesUpTo[n - 1]) : Array(vs) \in ValuesUpTo[n]
       /\ \A ms \in Seq(Members(ValuesUpTo[n - 1])) : Object(ms) \in ValuesUpTo[n]
<1>1. /\ \A s \in Spellings : Str(s) \in Scalars
      /\ \A k \in Int : Num(k) \in Scalars
      /\ Null \in Scalars
  BY DEF Scalars, Str, Num, Null
<1>2. ASSUME NEW n \in 0..Nesting
      PROVE  Scalars \subseteq ValuesUpTo[n]
  BY Levels, ConformanceAssumption DEF ConformanceAssumption
<1>3. ASSUME NEW V
      PROVE  /\ \A vs \in Seq(V) : Array(vs) \in Compounds(V)
             /\ \A ms \in Seq(Members(V)) : Object(ms) \in Compounds(V)
  BY DEF Compounds, Array, Object
<1>4. ASSUME NEW n \in 1..Nesting
      PROVE  /\ \A vs \in Seq(ValuesUpTo[n - 1]) : Array(vs) \in ValuesUpTo[n]
             /\ \A ms \in Seq(Members(ValuesUpTo[n - 1])) : Object(ms) \in ValuesUpTo[n]
  BY <1>3, Levels
<1> QED
  BY <1>1, <1>2, <1>4

\* The values inside a value of Values are values, too.
LEMMA Inner ==
  ASSUME NEW v \in Values
  PROVE  \/ \E s \in Spellings : v = Str(s)
         \/ \E k \in Int : v = Num(k)
         \/ v = Null
         \/ \E vs \in Seq(Values) : v = Array(vs)
         \/ \E ms \in Seq(Members(Values)) : v = Object(ms)
<1>1. Nesting \in 0..Nesting /\ v \in ValuesUpTo[Nesting]
  BY ConformanceAssumption DEF ConformanceAssumption, Values
<1>2. CASE (\E s \in Spellings : v = Str(s)) \/ (\E k \in Int : v = Num(k)) \/ v = Null
  BY <1>2
<1>3. CASE Nesting > 0 /\ \E vs \in Seq(ValuesUpTo[Nesting - 1]) : v = Array(vs)
  <2>1. ValuesUpTo[Nesting - 1] \subseteq Values
    BY <1>1, <1>3, AllLevels
  <2>2. Seq(ValuesUpTo[Nesting - 1]) \subseteq Seq(Values)
    BY <2>1, SeqMonotonic
  <2> QED
    BY <1>3, <2>2
<1>4. CASE Nesting > 0 /\ \E ms \in Seq(Members(ValuesUpTo[Nesting - 1])) : v = Object(ms)
  <2>1. ValuesUpTo[Nesting - 1] \subseteq Values
    BY <1>1, <1>4, AllLevels
  <2>2. Members(ValuesUpTo[Nesting - 1]) \subseteq Members(Values)
    BY <2>1 DEF Members
  <2>3. Seq(Members(ValuesUpTo[Nesting - 1])) \subseteq Seq(Members(Values))
    BY <2>2, SeqMonotonic
  <2> QED
    BY <1>4, <2>3
<1> QED
  BY <1>1, <1>2, <1>3, <1>4, Shape

-----------------------------------------------------------------------------
(* Sequences of sequences.                                                 *)

\* FlattenSeq appends one sequence after the other.
LEMMA Flattening ==
  ASSUME NEW S, NEW ss \in Seq(Seq(S))
  PROVE  \E flat \in [0..Len(ss) -> Seq(S)] :
           /\ flat[0] = <<>>
           /\ \A k \in 1..Len(ss) : flat[k] = flat[k - 1] \o ss[k]
           /\ flat[Len(ss)] = FlattenSeq(ss)
<1> DEFINE N == Len(ss)
           Unfolds(f, n) == f = [i \in 1..n |-> IF i = 1 THEN ss[i] ELSE f[i - 1] \o ss[i]]
<1>1. N \in Nat /\ N = Len(ss) /\ \A k \in 1..N : ss[k] \in Seq(S)
  OBVIOUS
<1> HIDE DEF N
<1>2. CASE N = 0
  <2>1. ss = <<>> /\ FlattenSeq(ss) = ss
    <3>1. ss = <<>>
      BY <1>1, <1>2, EmptySeq
    <3> QED
      BY <1>1, <1>2, <3>1, Zenon DEF FlattenSeq
  <2>2. [k \in 0..0 |-> <<>>] \in [0..Len(ss) -> Seq(S)]
    BY <1>1, <1>2
  <2>3. ~ \E k \in 1..0 : TRUE
    OBVIOUS
  <2> DEFINE flat == [k \in 0..0 |-> <<>>]
  <2>4. flat[0] = <<>> /\ flat[Len(ss)] = FlattenSeq(ss)
    BY <1>1, <1>2, <2>1
  <2>5. flat \in [0..Len(ss) -> Seq(S)]
    BY <2>2
  <2> HIDE DEF flat
  <2> QED
    BY <1>1, <1>2, <2>3, <2>4, <2>5
<1>3. CASE N > 0
  <2> DEFINE T == {n \in 1..N : \E f : Unfolds(f, n)}
  <2>1. 1 \in T
    <3> DEFINE f == [i \in 1..1 |-> ss[i]]
    <3>1. Unfolds(f, 1)
      <4>1. \A i \in 1..1 : f[i] = IF i = 1 THEN ss[i] ELSE f[i - 1] \o ss[i]
        OBVIOUS
      <4> QED
        BY <4>1
    <3> HIDE DEF Unfolds, f
    <3> QED
      BY <1>1, <1>3, <3>1
  <2>2. ASSUME NEW n \in (1 + 1)..N, n - 1 \in T
        PROVE  n \in T
    <3>1. PICK f : Unfolds(f, n - 1)
      BY <2>2
    <3> DEFINE g == [i \in 1..n |-> IF i = n THEN f[n - 1] \o ss[n] ELSE f[i]]
    <3>2. \A i \in 1..n : g[i] = IF i = 1 THEN ss[i] ELSE g[i - 1] \o ss[i]
      <4> SUFFICES ASSUME NEW i \in 1..n
                   PROVE  g[i] = IF i = 1 THEN ss[i] ELSE g[i - 1] \o ss[i]
        OBVIOUS
      <4>1. CASE i = n
        <5>1. n \in 1..n /\ n - 1 \in 1..n /\ n - 1 # n /\ n # 1
          OBVIOUS
        <5>2. g[n] = f[n - 1] \o ss[n] /\ g[n - 1] = f[n - 1]
          BY <5>1
        <5> QED
          BY <4>1, <5>1, <5>2
      <4>2. CASE i # n
        <5>1. i \in 1..(n - 1)
          BY <4>2
        <5>2. f[i] = IF i = 1 THEN ss[i] ELSE f[i - 1] \o ss[i]
          BY <3>1, <5>1
        <5>3. i # 1 => g[i - 1] = f[i - 1]
          BY <5>1
        <5>4. g[i] = f[i]
          BY <4>2, <5>1
        <5> QED
          BY <5>2, <5>3, <5>4
      <4> QED
        BY <4>1, <4>2
    <3>3. Unfolds(g, n)
      <4> DEFINE h == [i \in 1..n |-> IF i = 1 THEN ss[i] ELSE g[i - 1] \o ss[i]]
      <4>1. \A i \in 1..n : g[i] = h[i]
        BY <3>2
      <4>2. g = h
        BY <4>1
      <4> QED
        BY <4>2
    <3> HIDE DEF Unfolds, g
    <3> QED
      BY <3>3
  <2>3. \A n \in 1..N : n \in T
    <3> HIDE DEF T
    <3>1. 1 \in Int /\ N \in Int
      BY <1>1
    <3> QED
      BY <2>1, <2>2, <3>1, InductFrom
  <2> DEFINE f == CHOOSE f : Unfolds(f, N)
  <2>4. Unfolds(f, N)
    <3>1. N \in 1..N
      BY <1>1, <1>3
    <3>2. \E e : Unfolds(e, N)
      <4> HIDE DEF Unfolds
      <4> QED
        BY <2>3, <3>1
    <3> QED
      BY <3>2, Zenon
  <2>5. FlattenSeq(ss) = f[N]
    <3>1. N # 0
      BY <1>1, <1>3
    <3> QED
      BY <1>1, <3>1, Zenon DEF FlattenSeq
  <2> HIDE DEF f
  <2>6. ss[1] = f[1] /\ \A i \in 2..N : f[i] = f[i - 1] \o ss[i]
    <3> DEFINE h == [i \in 1..N |-> IF i = 1 THEN ss[i] ELSE f[i - 1] \o ss[i]]
    <3>1. \A i \in 1..N : h[i] = IF i = 1 THEN ss[i] ELSE f[i - 1] \o ss[i]
      OBVIOUS
    <3>2. f = h
      BY <2>4
    <3> HIDE DEF h
    <3>3. 1 \in 1..N /\ \A i \in 2..N : i \in 1..N /\ i # 1
      BY <1>1, <1>3
    <3>4. ss[1] = f[1]
      BY <3>1, <3>2, <3>3
    <3>5. ASSUME NEW i \in 2..N
          PROVE  f[i] = f[i - 1] \o ss[i]
      BY <3>1, <3>2, <3>3
    <3> QED
      BY <3>4, <3>5
  <2> DEFINE U == {i \in 1..N : f[i] \in Seq(S)}
  <2>7. \A i \in 1..N : i \in U
    <3>1. 1 \in U
      BY <1>1, <1>3, <2>6
    <3>2. ASSUME NEW i \in (1 + 1)..N, i - 1 \in U
          PROVE  i \in U
      <4>1. i \in 2..N /\ i \in 1..N
        BY <1>1
      <4>2. f[i] = f[i - 1] \o ss[i] /\ ss[i] \in Seq(S) /\ f[i - 1] \in Seq(S)
        BY <1>1, <2>6, <3>2, <4>1
      <4>3. f[i] \in Seq(S)
        BY <4>2, ConcatProperties
      <4> QED
        BY <4>1, <4>3
    <3>3. 1 \in Int /\ N \in Int
      BY <1>1
    <3> HIDE DEF U
    <3> QED
      BY <3>1, <3>2, <3>3, InductFrom
  <2> DEFINE flat == [k \in 0..N |-> IF k = 0 THEN <<>> ELSE f[k]]
  <2>8. flat \in [0..N -> Seq(S)] /\ flat[0] = <<>> /\ flat[N] = f[N]
    BY <1>1, <1>3, <2>7
  <2>9. ASSUME NEW k \in 1..N
        PROVE  flat[k] = flat[k - 1] \o ss[k]
    <3>1. CASE k = 1
      <4>1. <<>> \o ss[1] = ss[1]
        BY <1>1, <1>3, ConcatEmptySeq
      <4> QED
        BY <1>1, <2>6, <3>1, <4>1
    <3>2. CASE k # 1
      <4>1. k \in 2..N /\ k - 1 \in 0..N /\ k - 1 # 0 /\ k \in 0..N /\ k # 0
        BY <1>1, <3>2
      <4>2. flat[k] = f[k] /\ flat[k - 1] = f[k - 1]
        BY <4>1
      <4> HIDE DEF flat
      <4> QED
        BY <2>6, <4>1, <4>2
    <3> QED
      BY <3>1, <3>2
  <2> HIDE DEF flat
  <2> QED
    BY <1>1, <2>5, <2>8, <2>9
<1>4. N = 0 \/ N > 0
  BY <1>1
<1> QED
  BY <1>2, <1>3, <1>4

\* `flat` is all of ss; its k-th sequence begins after off[k - 1].
Joins(ss, flat, off) ==
  /\ off \in [0..Len(ss) -> Nat]
  /\ off[0] = 0 /\ off[Len(ss)] = Len(flat)
  /\ \A k \in 1..Len(ss) :
       /\ off[k] = off[k - 1] + Len(ss[k])
       /\ off[k] <= Len(flat)
       /\ \A i \in 1..Len(ss[k]) : flat[off[k - 1] + i] = ss[k][i]
  /\ \A g \in 1..Len(flat) :
       \E k \in 1..Len(ss) : \E i \in 1..Len(ss[k]) : g = off[k - 1] + i

\* Every place of the flat sequence is a place of one of its parts.
LEMMA Flattened ==
  ASSUME NEW S, NEW ss \in Seq(Seq(S))
  PROVE  FlattenSeq(ss) \in Seq(S) /\ \E off : Joins(ss, FlattenSeq(ss), off)
<1> DEFINE N == Len(ss)
<1>1. N \in Nat /\ N = Len(ss) /\ \A k \in 1..N : ss[k] \in Seq(S) /\ Len(ss[k]) \in Nat
  OBVIOUS
<1>2. PICK flat \in [0..N -> Seq(S)] :
             /\ flat[0] = <<>>
             /\ \A k \in 1..N : flat[k] = flat[k - 1] \o ss[k]
             /\ flat[N] = FlattenSeq(ss)
  BY Flattening
<1> HIDE DEF N
<1> DEFINE off == [k \in 0..N |-> Len(flat[k])]
<1>3. /\ off \in [0..N -> Nat] /\ off[0] = 0 /\ off[N] = Len(flat[N])
      /\ \A k \in 0..N : flat[k] \in Seq(S) /\ Len(flat[k]) = off[k] /\ off[k] \in Nat
  BY <1>1, <1>2, SMTT(60)
<1> HIDE DEF off
<1>4. ASSUME NEW k \in 1..N
      PROVE  /\ off[k] = off[k - 1] + Len(ss[k])
             /\ \A g \in 1..off[k - 1] : flat[k][g] = flat[k - 1][g]
             /\ \A i \in 1..Len(ss[k]) : flat[k][off[k - 1] + i] = ss[k][i]
  <2>1. k - 1 \in 0..N /\ k \in 0..N
    BY <1>1
  <2>2. flat[k] = flat[k - 1] \o ss[k] /\ ss[k] \in Seq(S) /\ flat[k - 1] \in Seq(S)
    BY <1>1, <1>2, <1>3, <2>1
  <2>3. Len(flat[k - 1]) = off[k - 1] /\ Len(flat[k]) = off[k] /\ off[k - 1] \in Nat /\ off[k] \in Nat
    BY <1>3, <2>1
  <2>4. /\ Len(flat[k]) = Len(flat[k - 1]) + Len(ss[k])
        /\ \A i \in 1..(Len(flat[k - 1]) + Len(ss[k])) :
             flat[k][i] = IF i <= Len(flat[k - 1]) THEN flat[k - 1][i] ELSE ss[k][i - Len(flat[k - 1])]
    <3> DEFINE s == flat[k - 1]
               t == ss[k]
    <3>1. flat[k] = s \o t /\ s \in Seq(S) /\ t \in Seq(S)
      BY <2>2
    <3> HIDE DEF s, t
    <3>2. /\ Len(s \o t) = Len(s) + Len(t)
          /\ \A i \in 1..(Len(s) + Len(t)) : (s \o t)[i] = IF i <= Len(s) THEN s[i] ELSE t[i - Len(s)]
      BY <3>1, ConcatProperties
    <3> QED
      BY <3>1, <3>2 DEF s, t
  <2>5. Len(ss[k]) \in Nat
    BY <1>1
  <2>6. off[k] = off[k - 1] + Len(ss[k])
    BY <2>3, <2>4
  <2>7. ASSUME NEW g \in 1..off[k - 1]
        PROVE  flat[k][g] = flat[k - 1][g]
    <3>1. g \in 1..(Len(flat[k - 1]) + Len(ss[k])) /\ g <= Len(flat[k - 1])
      BY <2>3, <2>5
    <3> QED
      BY <2>4, <3>1
  <2>8. ASSUME NEW i \in 1..Len(ss[k])
        PROVE  flat[k][off[k - 1] + i] = ss[k][i]
    <3>1. off[k - 1] + i \in 1..(Len(flat[k - 1]) + Len(ss[k])) /\ ~(off[k - 1] + i <= Len(flat[k - 1]))
          /\ (off[k - 1] + i) - Len(flat[k - 1]) = i
      <4> DEFINE o == off[k - 1]
                 m == Len(flat[k - 1])
                 n == Len(ss[k])
      <4>1. o \in Nat /\ m = o /\ n \in Nat /\ i \in 1..n
        BY <2>3, <2>5
      <4> HIDE DEF o, m, n
      <4>2. o + i \in 1..(m + n) /\ ~(o + i <= m) /\ (o + i) - m = i
        BY <4>1
      <4> QED
        BY <4>2 DEF o, m, n
    <3> QED
      BY <2>4, <3>1
  <2> QED
    BY <2>6, <2>7, <2>8
<1>5. ASSUME NEW k \in 0..N
      PROVE  \A m \in k..N : off[k] <= off[m] /\ \A g \in 1..off[k] : flat[m][g] = flat[k][g]
  <2> DEFINE U == {m \in k..N : off[k] <= off[m] /\ \A g \in 1..off[k] : flat[m][g] = flat[k][g]}
  <2>1. k \in U
    BY <1>1, <1>3
  <2>2. ASSUME NEW m \in (k + 1)..N, m - 1 \in U
        PROVE  m \in U
    <3>1. m \in 1..N /\ m - 1 \in 0..N
      BY <1>1
    <3>2. off[m] = off[m - 1] + Len(ss[m]) /\ \A g \in 1..off[m - 1] : flat[m][g] = flat[m - 1][g]
      BY <1>4, <3>1
    <3>3. off[m] \in Nat /\ off[m - 1] \in Nat /\ off[k] \in Nat /\ Len(ss[m]) \in Nat
      BY <1>1, <1>3, <3>1, SMTT(60)
    <3> QED
      BY <2>2, <3>2, <3>3, SMTT(60)
  <2>3. \A m \in k..N : m \in U
    <3>1. k \in Int /\ N \in Int
      BY <1>1
    <3> HIDE DEF U
    <3> QED
      BY <2>1, <2>2, <3>1, InductFrom
  <2> QED
    BY <2>3
<1>6. ASSUME NEW k \in 1..N
      PROVE  off[k] <= off[N] /\ \A i \in 1..Len(ss[k]) : flat[N][off[k - 1] + i] = ss[k][i]
  <2>1. k \in 0..N /\ N \in k..N /\ k - 1 \in 0..N
    BY <1>1
  <2>2. off[k] <= off[N] /\ \A g \in 1..off[k] : flat[N][g] = flat[k][g]
    BY <1>5, <2>1
  <2>3. off[k - 1] \in Nat /\ off[k] \in Nat /\ Len(ss[k]) \in Nat
    BY <1>1, <1>3, <2>1
  <2>4. ASSUME NEW i \in 1..Len(ss[k])
        PROVE  flat[N][off[k - 1] + i] = ss[k][i]
    <3>1. off[k] = off[k - 1] + Len(ss[k]) /\ flat[k][off[k - 1] + i] = ss[k][i]
      BY <1>4
    <3>2. off[k - 1] + i \in 1..off[k]
      BY <2>3, <3>1
    <3> QED
      BY <2>2, <3>1, <3>2
  <2> QED
    BY <2>2, <2>4
<1>7. ASSUME NEW g \in 1..off[N]
      PROVE  \E k \in 1..N : \E i \in 1..Len(ss[k]) : g = off[k - 1] + i
  <2> DEFINE U == {m \in 0..N : g <= off[m] =>
                     \E k \in 1..N : \E i \in 1..Len(ss[k]) : g = off[k - 1] + i}
  <2>1. 0 \in U
    BY <1>1, <1>3
  <2>2. ASSUME NEW m \in 1..N, m - 1 \in U
        PROVE  m \in U
    <3>1. m - 1 \in 0..N /\ m \in 0..N
      BY <1>1
    <3>2. off[m] = off[m - 1] + Len(ss[m]) /\ off[m] \in Nat /\ off[m - 1] \in Nat /\ Len(ss[m]) \in Nat
      BY <1>1, <1>3, <1>4, <3>1
    <3>3. CASE g <= off[m - 1]
      BY <2>2, <3>1, <3>3
    <3>4. CASE off[m - 1] < g /\ g <= off[m]
      <4>1. g - off[m - 1] \in 1..Len(ss[m]) /\ g = off[m - 1] + (g - off[m - 1])
        BY <3>2, <3>4
      <4> QED
        BY <3>1, <4>1
    <3>5. CASE ~(g <= off[m])
      BY <3>1, <3>5
    <3> QED
      BY <3>2, <3>3, <3>4, <3>5
  <2>3. U = 0..N
    <3> HIDE DEF U
    <3>1. U \in SUBSET (0..N)
      BY DEF U
    <3> QED
      BY <1>1, <2>1, <2>2, <3>1, InductUpTo
  <2>4. N \in 0..N /\ off[N] \in Nat
    BY <1>1, <1>3
  <2>5. N \in U /\ g <= off[N]
    BY <2>3, <2>4
  <2> QED
    BY <2>5
<1>8. flat[N] \in Seq(S) /\ off[N] = Len(flat[N])
  BY <1>1, <1>3
<1> DEFINE whole == flat[N]
<1>9. FlattenSeq(ss) = whole /\ Len(ss) = N /\ whole \in Seq(S)
  BY <1>1, <1>2, <1>8
<1>10. off \in [0..N -> Nat]
  BY <1>3
<1>11. off[0] = 0 /\ off[N] = Len(whole)
  BY <1>3
<1>12. ASSUME NEW k \in 1..N
       PROVE  /\ off[k] = off[k - 1] + Len(ss[k])
              /\ off[k] <= Len(whole)
              /\ \A i \in 1..Len(ss[k]) : whole[off[k - 1] + i] = ss[k][i]
  <2>1. off[k] = off[k - 1] + Len(ss[k])
    BY <1>4
  <2>2. off[k] <= Len(whole) /\ \A i \in 1..Len(ss[k]) : whole[off[k - 1] + i] = ss[k][i]
    BY <1>6, <1>11
  <2> QED
    BY <2>1, <2>2
<1>13. ASSUME NEW g \in 1..Len(whole)
       PROVE  \E k \in 1..N : \E i \in 1..Len(ss[k]) : g = off[k - 1] + i
  <2> HIDE DEF whole
  <2>1. g \in 1..off[N]
    BY <1>11
  <2> QED
    BY <1>7, <2>1
<1> HIDE DEF whole
<1>14. Joins(ss, whole, off)
  <2> SUFFICES ASSUME N = Len(ss) PROVE Joins(ss, whole, off)
    BY <1>9
  <2> QED
    BY <1>10, <1>11, <1>12, <1>13 DEF Joins
<1> QED
  BY <1>9, <1>14

-----------------------------------------------------------------------------
(* The token stream.                                                       *)

\* Tokens, in which the value's own parts come first.
LEMMA TokensAre ==
  ASSUME NEW v \in Values
  PROVE  /\ Is(v, "object") =>
              Tokens(v) = <<Delim("{")>>
                          \o FlattenSeq([i \in DOMAIN v.object |->
                               <<Str(<<v.object[i].key>>)>> \o Tokens(v.object[i].value)])
                          \o <<Delim("}")>>
         /\ Is(v, "array") =>
              Tokens(v) = <<Delim("[")>>
                          \o FlattenSeq([i \in DOMAIN v.array |-> Tokens(v.array[i])])
                          \o <<Delim("]")>>
         /\ ~Is(v, "object") /\ ~Is(v, "array") => Tokens(v) = <<v>>
<1> DEFINE Body(f, w) ==
             CASE Is(w, "object") ->
                    <<Delim("{")>>
                    \o FlattenSeq([i \in DOMAIN w.object |->
                                    <<Str(<<w.object[i].key>>)>> \o f[w.object[i].value]])
                    \o <<Delim("}")>>
               [] Is(w, "array") ->
                    <<Delim("[")>> \o FlattenSeq([i \in DOMAIN w.array |-> f[w.array[i]]])
                    \o <<Delim("]")>>
               [] OTHER -> <<w>>
           Fits(f, V) == f = [w \in V |-> Body(f, w)]
           T == {n \in 0..Nesting : \E f : Fits(f, ValuesUpTo[n])}
<1>1. Nesting \in Nat
  BY ConformanceAssumption DEF ConformanceAssumption
<1>2. ASSUME NEW w, Is(w, "object"), ~Is(w, "array"), NEW f
      PROVE  Body(f, w) = <<Delim("{")>>
                    \o FlattenSeq([i \in DOMAIN w.object |->
                                    <<Str(<<w.object[i].key>>)>> \o f[w.object[i].value]])
                    \o <<Delim("}")>>
  BY <1>2
<1>3. ASSUME NEW w, Is(w, "array"), ~Is(w, "object"), NEW f
      PROVE  Body(f, w) = <<Delim("[")>> \o FlattenSeq([i \in DOMAIN w.array |-> f[w.array[i]]])
                          \o <<Delim("]")>>
  BY <1>3
<1>4. ASSUME NEW w, ~Is(w, "array"), ~Is(w, "object"), NEW f
      PROVE  Body(f, w) = <<w>>
  BY <1>4
<1> HIDE DEF Body
<1>5. ASSUME NEW n \in 1..Nesting, NEW w \in ValuesUpTo[n], NEW f, NEW g,
             \A c \in ValuesUpTo[n - 1] : f[c] = g[c]
      PROVE  Body(f, w) = Body(g, w)
  <2>1. n \in 0..Nesting
    BY <1>1
  <2>2. CASE \E vs \in Seq(ValuesUpTo[n - 1]) : w = Array(vs)
    <3>1. PICK vs \in Seq(ValuesUpTo[n - 1]) : w = Array(vs)
      BY <2>2
    <3>2. w.array = vs /\ Is(w, "array") /\ ~Is(w, "object")
      BY <3>1, Kinds, Contents
    <3>3. \A i \in DOMAIN vs : f[vs[i]] = g[vs[i]]
      BY <1>5
    <3>4. [i \in DOMAIN vs |-> f[vs[i]]] = [i \in DOMAIN vs |-> g[vs[i]]]
      BY <3>3
    <3> QED
      BY <1>3, <3>2, <3>4, ZenonT(60)
  <2>3. CASE \E ms \in Seq(Members(ValuesUpTo[n - 1])) : w = Object(ms)
    <3>1. PICK ms \in Seq(Members(ValuesUpTo[n - 1])) : w = Object(ms)
      BY <2>3
    <3>2. w.object = ms /\ Is(w, "object") /\ ~Is(w, "array")
      BY <3>1, Kinds, Contents
    <3>3. ASSUME NEW i \in DOMAIN w.object
          PROVE  f[w.object[i].value] = g[w.object[i].value]
      <4>1. w.object[i] \in Members(ValuesUpTo[n - 1])
        BY <3>2
      <4>2. w.object[i].value \in ValuesUpTo[n - 1]
        BY <4>1 DEF Members
      <4> QED
        BY <1>5, <4>2
    <3>4. [i \in DOMAIN w.object |-> <<Str(<<w.object[i].key>>)>> \o f[w.object[i].value]]
            = [i \in DOMAIN w.object |-> <<Str(<<w.object[i].key>>)>> \o g[w.object[i].value]]
      BY <3>3
    <3> QED
      BY <1>2, <3>2, <3>4
  <2>4. CASE ~Is(w, "object") /\ ~Is(w, "array")
    BY <1>4, <2>4
  <2> QED
    BY <2>1, <2>2, <2>3, <2>4, Shape, Kinds
<1>6. 0 \in T
  <2> DEFINE f == [w \in ValuesUpTo[0] |-> <<w>>]
  <2>1. ASSUME NEW w \in ValuesUpTo[0]
        PROVE  Body(f, w) = <<w>>
    <3>1. 0 \in 0..Nesting
      BY <1>1
    <3>2. ~Is(w, "object") /\ ~Is(w, "array")
      BY <3>1, Shape, Kinds
    <3> HIDE DEF f
    <3> QED
      BY <1>4, <3>2
  <2>2. Fits(f, ValuesUpTo[0])
    BY <2>1
  <2> HIDE DEF Fits, f
  <2> QED
    BY <1>1, <2>2
<1>7. ASSUME NEW n \in 1..Nesting, n - 1 \in T
      PROVE  n \in T
  <2>1. PICK f : Fits(f, ValuesUpTo[n - 1])
    <3> HIDE DEF Fits
    <3> QED
      BY <1>7
  <2> DEFINE g == [w \in ValuesUpTo[n] |-> Body(f, w)]
  <2>2. ASSUME NEW c \in ValuesUpTo[n - 1]
        PROVE  f[c] = g[c]
    <3>1. f[c] = Body(f, c)
      BY <2>1
    <3>2. c \in ValuesUpTo[n]
      BY NextLevel
    <3> QED
      BY <3>1, <3>2
  <2>3. ASSUME NEW w \in ValuesUpTo[n]
        PROVE  Body(f, w) = Body(g, w)
    <3> HIDE DEF g
    <3> QED
      BY <1>5, <2>2
  <2>4. Fits(g, ValuesUpTo[n])
    BY <2>3
  <2> HIDE DEF Fits, g
  <2> QED
    BY <1>1, <2>4
<1>8. T = 0..Nesting
  <2> HIDE DEF T
  <2>1. T \in SUBSET (0..Nesting)
    BY DEF T
  <2> QED
    BY <1>1, <1>6, <1>7, <2>1, InductUpTo
<1> DEFINE tokens == CHOOSE f : Fits(f, Values)
<1>9. Fits(tokens, Values)
  <2>1. \E f : Fits(f, Values)
    <3> HIDE DEF Fits
    <3>1. Nesting \in T
      BY <1>1, <1>8
    <3> QED
      BY <3>1 DEF Values
  <2> QED
    BY <2>1, Zenon
<1>10. \A w : Tokens(w) = tokens[w]
  BY Zenon DEF Tokens, Body
<1> HIDE DEF tokens
<1>11. Tokens(v) = Body(tokens, v)
  <2>1. tokens[v] = Body(tokens, v)
    BY <1>9
  <2> QED
    BY <1>10, <2>1
<1>12. CASE Is(v, "object")
  <2>1. ~Is(v, "array")
    BY <1>12, Inner, Kinds
  <2> QED
    BY <1>2, <1>10, <1>11, <1>12, <2>1
<1>13. CASE Is(v, "array")
  <2>1. ~Is(v, "object")
    BY <1>13, Inner, Kinds
  <2> QED
    BY <1>3, <1>10, <1>11, <1>13, <2>1
<1>14. CASE ~Is(v, "object") /\ ~Is(v, "array")
  BY <1>4, <1>11, <1>14
<1> QED
  BY <1>12, <1>13, <1>14

\* What a stream may hold.
AllTokens ==
  [str : Seq(Symbols \cup Keys)] \cup [num : Int] \cup [null : {None}]
    \cup [delim : {"{", "}", "[", "]"}]

\* What the decoder's tokens are.
LEMMA TokenKinds ==
  /\ \A s \in Seq(Symbols) : Str(s) \in AllTokens
  /\ \A key \in Keys : Str(<<key>>) \in AllTokens
  /\ \A k \in Int : Num(k) \in AllTokens
  /\ Null \in AllTokens
  /\ \A d \in {"{", "}", "[", "]"} : Delim(d) \in AllTokens
<1>1. ASSUME NEW s \in Seq(Symbols \cup Keys)
      PROVE  Str(s) \in AllTokens
  BY DEF AllTokens, Str
<1>2. Seq(Symbols) \subseteq Seq(Symbols \cup Keys)
  BY SeqMonotonic
<1>3. \A key \in Keys : <<key>> \in Seq(Symbols \cup Keys)
  OBVIOUS
<1>4. /\ \A k \in Int : Num(k) \in AllTokens
      /\ Null \in AllTokens
      /\ \A d \in {"{", "}", "[", "]"} : Delim(d) \in AllTokens
  BY DEF AllTokens, Num, Null, Delim
<1> QED
  BY <1>1, <1>2, <1>3, <1>4

\* One of them is a stream.
LEMMA OneToken ==
  /\ \A x \in AllTokens : <<x>> \in Seq(AllTokens)
  /\ \A d \in {"{", "}", "[", "]"} : <<Delim(d)>> \in Seq(AllTokens)
  /\ \A key \in Keys : <<Str(<<key>>)>> \in Seq(AllTokens)
<1>1. ASSUME NEW x \in AllTokens
      PROVE  <<x>> \in Seq(AllTokens)
  OBVIOUS
<1>2. \A d \in {"{", "}", "[", "]"} : Delim(d) \in AllTokens
  BY TokenKinds
<1>3. \A key \in Keys : Str(<<key>>) \in AllTokens
  BY TokenKinds
<1> QED
  BY <1>1, <1>2, <1>3

\* A stream between two others.
LEMMA Enclosed ==
  ASSUME NEW S, NEW a \in Seq(S), NEW b \in Seq(S), NEW c \in Seq(S)
  PROVE  a \o b \o c \in Seq(S)
BY ConcatProperties

\* What the tokens between two delimiters are made of.
MemberTokens(ms) == [i \in DOMAIN ms |-> <<Str(<<ms[i].key>>)>> \o Tokens(ms[i].value)]
ElementTokens(vs) == [i \in DOMAIN vs |-> Tokens(vs[i])]

\* Members and elements yield a stream each.
LEMMA Parts ==
  ASSUME NEW V, \A v \in V : Tokens(v) \in Seq(AllTokens)
  PROVE  /\ \A ms \in Seq(Members(V)) : /\ MemberTokens(ms) \in Seq(Seq(AllTokens))
                                        /\ Len(MemberTokens(ms)) = Len(ms)
         /\ \A vs \in Seq(V) : /\ ElementTokens(vs) \in Seq(Seq(AllTokens))
                               /\ Len(ElementTokens(vs)) = Len(vs)
<1>1. ASSUME NEW ms \in Seq(Members(V))
      PROVE  MemberTokens(ms) \in Seq(Seq(AllTokens)) /\ Len(MemberTokens(ms)) = Len(ms)
  <2>1. ASSUME NEW i \in 1..Len(ms)
        PROVE  <<Str(<<ms[i].key>>)>> \o Tokens(ms[i].value) \in Seq(AllTokens)
    <3>1. ms[i] \in Members(V)
      OBVIOUS
    <3>2. Tokens(ms[i].value) \in Seq(AllTokens) /\ Str(<<ms[i].key>>) \in AllTokens
      BY <3>1, TokenKinds DEF Members
    <3>3. <<Str(<<ms[i].key>>)>> \in Seq(AllTokens)
      BY <3>2
    <3> QED
      BY <3>2, <3>3, ConcatProperties
  <2>2. DOMAIN ms = 1..Len(ms) /\ Len(ms) \in Nat
    OBVIOUS
  <2> DEFINE n == Len(ms)
             P == [i \in 1..n |-> <<Str(<<ms[i].key>>)>> \o Tokens(ms[i].value)]
  <2>3. P \in [1..n -> Seq(AllTokens)]
    BY <2>1
  <2>4. MemberTokens(ms) = P
    BY <2>2 DEF MemberTokens
  <2> HIDE DEF P
  <2> QED
    BY <2>2, <2>3, <2>4
<1>2. ASSUME NEW vs \in Seq(V)
      PROVE  ElementTokens(vs) \in Seq(Seq(AllTokens)) /\ Len(ElementTokens(vs)) = Len(vs)
  <2>1. \A i \in 1..Len(vs) : Tokens(vs[i]) \in Seq(AllTokens)
    OBVIOUS
  <2>2. DOMAIN vs = 1..Len(vs) /\ Len(vs) \in Nat
    OBVIOUS
  <2> DEFINE n == Len(vs)
             P == [i \in 1..n |-> Tokens(vs[i])]
  <2>3. P \in [1..n -> Seq(AllTokens)]
    BY <2>1
  <2>4. ElementTokens(vs) = P
    BY <2>2 DEF ElementTokens
  <2> HIDE DEF P
  <2> QED
    BY <2>2, <2>3, <2>4
<1> QED
  BY <1>1, <1>2

\* The token stream of each kind of value.
LEMMA TokensOf ==
  /\ \A s : Str(s) \in Values => Tokens(Str(s)) = <<Str(s)>>
  /\ \A k : Num(k) \in Values => Tokens(Num(k)) = <<Num(k)>>
  /\ Null \in Values => Tokens(Null) = <<Null>>
  /\ \A vs : Array(vs) \in Values =>
       Tokens(Array(vs)) = <<Delim("[")>> \o FlattenSeq(ElementTokens(vs)) \o <<Delim("]")>>
  /\ \A ms : Object(ms) \in Values =>
       Tokens(Object(ms)) = <<Delim("{")>> \o FlattenSeq(MemberTokens(ms)) \o <<Delim("}")>>
<1>1. ASSUME NEW vs, Array(vs) \in Values
      PROVE  Tokens(Array(vs)) = <<Delim("[")>> \o FlattenSeq(ElementTokens(vs)) \o <<Delim("]")>>
  <2> DEFINE v == Array(vs)
  <2>1. v \in Values /\ Is(v, "array") /\ v.array = vs
    BY <1>1, Kinds, Contents
  <2> HIDE DEF v
  <2>2. Tokens(v) = <<Delim("[")>> \o FlattenSeq([i \in DOMAIN v.array |-> Tokens(v.array[i])])
                          \o <<Delim("]")>>
    BY <2>1, TokensAre
  <2>3. ElementTokens(v.array) = [i \in DOMAIN v.array |-> Tokens(v.array[i])]
    BY DEF ElementTokens
  <2> QED
    BY <2>1, <2>2, <2>3 DEF v
<1>2. ASSUME NEW ms, Object(ms) \in Values
      PROVE  Tokens(Object(ms)) = <<Delim("{")>> \o FlattenSeq(MemberTokens(ms)) \o <<Delim("}")>>
  <2> DEFINE v == Object(ms)
  <2>1. v \in Values /\ Is(v, "object") /\ v.object = ms
    BY <1>2, Kinds, Contents
  <2> HIDE DEF v
  <2>2. Tokens(v) = <<Delim("{")>> \o FlattenSeq([i \in DOMAIN v.object |->
                               <<Str(<<v.object[i].key>>)>> \o Tokens(v.object[i].value)])
                          \o <<Delim("}")>>
    BY <2>1, TokensAre
  <2>3. MemberTokens(v.object) = [i \in DOMAIN v.object |->
                               <<Str(<<v.object[i].key>>)>> \o Tokens(v.object[i].value)]
    BY DEF MemberTokens
  <2> QED
    BY <2>1, <2>2, <2>3 DEF v
<1>3. \A s : Str(s) \in Values => Tokens(Str(s)) = <<Str(s)>>
  BY TokensAre, Kinds
<1>4. \A k : Num(k) \in Values => Tokens(Num(k)) = <<Num(k)>>
  BY TokensAre, Kinds
<1>5. Null \in Values => Tokens(Null) = <<Null>>
  BY TokensAre, Kinds
<1> QED
  BY <1>1, <1>2, <1>3, <1>4, <1>5

\* Every value yields a stream of tokens.
LEMMA TokensTyped ==
  ASSUME NEW v \in Values
  PROVE  Tokens(v) \in Seq(AllTokens)
<1> DEFINE T == {n \in 0..Nesting : \A w \in ValuesUpTo[n] : Tokens(w) \in Seq(AllTokens)}
<1>1. Nesting \in Nat
  BY ConformanceAssumption DEF ConformanceAssumption
<1>2. ASSUME NEW n \in 0..Nesting, n > 0 => n - 1 \in T
      PROVE  n \in T
  <2> SUFFICES ASSUME NEW w \in ValuesUpTo[n]
               PROVE  Tokens(w) \in Seq(AllTokens)
    OBVIOUS
  <2>1. w \in Values
    BY AllLevels
  <2>2. ASSUME NEW s \in Spellings, w = Str(s)
        PROVE  Tokens(w) \in Seq(AllTokens)
    <3>1. w \in AllTokens
      BY <2>2, TokenKinds DEF Spellings
    <3>2. Tokens(w) = <<w>>
      BY <2>1, <2>2, TokensOf
    <3> QED
      BY <3>1, <3>2, OneToken
  <2>3. ASSUME NEW k \in Int, w = Num(k)
        PROVE  Tokens(w) \in Seq(AllTokens)
    <3>1. w \in AllTokens
      BY <2>3, TokenKinds
    <3>2. Tokens(w) = <<w>>
      BY <2>1, <2>3, TokensOf
    <3> QED
      BY <3>1, <3>2, OneToken
  <2>4. CASE w = Null
    <3>1. w \in AllTokens
      BY <2>4, TokenKinds
    <3>2. Tokens(w) = <<w>>
      BY <2>1, <2>4, TokensOf
    <3> QED
      BY <3>1, <3>2, OneToken
  <2>5. ASSUME n > 0, NEW vs \in Seq(ValuesUpTo[n - 1]), w = Array(vs)
        PROVE  Tokens(w) \in Seq(AllTokens)
    <3>1. ElementTokens(vs) \in Seq(Seq(AllTokens))
      BY <1>2, <2>5, Parts
    <3>2. FlattenSeq(ElementTokens(vs)) \in Seq(AllTokens)
      BY <3>1, Flattened
    <3>3. <<Delim("[")>> \in Seq(AllTokens) /\ <<Delim("]")>> \in Seq(AllTokens)
      BY OneToken
    <3>4. Tokens(w) = <<Delim("[")>> \o FlattenSeq(ElementTokens(vs)) \o <<Delim("]")>>
      BY <2>1, <2>5, TokensOf
    <3> QED
      BY <3>2, <3>3, <3>4, Enclosed
  <2>6. ASSUME n > 0, NEW ms \in Seq(Members(ValuesUpTo[n - 1])), w = Object(ms)
        PROVE  Tokens(w) \in Seq(AllTokens)
    <3>1. MemberTokens(ms) \in Seq(Seq(AllTokens))
      BY <1>2, <2>6, Parts
    <3>2. FlattenSeq(MemberTokens(ms)) \in Seq(AllTokens)
      BY <3>1, Flattened
    <3>3. <<Delim("{")>> \in Seq(AllTokens) /\ <<Delim("}")>> \in Seq(AllTokens)
      BY OneToken
    <3>4. Tokens(w) = <<Delim("{")>> \o FlattenSeq(MemberTokens(ms)) \o <<Delim("}")>>
      BY <2>1, <2>6, TokensOf
    <3> QED
      BY <3>2, <3>3, <3>4, Enclosed
  <2> HIDE DEF T
  <2> QED
    BY <2>2, <2>3, <2>4, <2>5, <2>6, Shape
<1>3. T = 0..Nesting
  <2> HIDE DEF T
  <2>1. T \in SUBSET (0..Nesting)
    BY DEF T
  <2>2. 0 \in T /\ \A n \in 1..Nesting : n - 1 \in T => n \in T
    BY <1>1, <1>2
  <2> QED
    BY <1>1, <2>1, <2>2, InductUpTo
<1> QED
  BY <1>1, <1>3 DEF Values

\* The tokens of a part are tokens of the whole.
LEMMA InnerTokens ==
  /\ \A vs \in Seq(Values) : Array(vs) \in Values =>
       \A i \in DOMAIN vs : Range(Tokens(vs[i])) \subseteq Range(Tokens(Array(vs)))
  /\ \A ms \in Seq(Members(Values)) : Object(ms) \in Values =>
       \A i \in DOMAIN ms : Range(Tokens(ms[i].value)) \subseteq Range(Tokens(Object(ms)))
<1>1. ASSUME NEW a \in Seq(AllTokens), NEW b \in Seq(AllTokens)
      PROVE  Range(a \o b) = Range(a) \cup Range(b) /\ a \o b \in Seq(AllTokens)
  <2>1. /\ a \o b \in Seq(AllTokens) /\ Len(a \o b) = Len(a) + Len(b)
        /\ \A i \in 1..(Len(a) + Len(b)) :
             (a \o b)[i] = IF i <= Len(a) THEN a[i] ELSE b[i - Len(a)]
    BY ConcatProperties
  <2>2. Len(a) \in Nat /\ Len(b) \in Nat /\ DOMAIN a = 1..Len(a) /\ DOMAIN b = 1..Len(b)
        /\ DOMAIN (a \o b) = 1..(Len(a) + Len(b))
    BY <2>1
  <2>3. ASSUME NEW i \in 1..Len(a)
        PROVE  a[i] \in Range(a \o b)
    <3>1. i \in 1..(Len(a) + Len(b)) /\ (a \o b)[i] = a[i]
      BY <2>1, <2>2
    <3> QED
      BY <2>2, <3>1 DEF Range
  <2>4. ASSUME NEW i \in 1..Len(b)
        PROVE  b[i] \in Range(a \o b)
    <3>1. Len(a) + i \in 1..(Len(a) + Len(b)) /\ ~(Len(a) + i <= Len(a))
          /\ (Len(a) + i) - Len(a) = i
      BY <2>2
    <3>2. (a \o b)[Len(a) + i] = b[i]
      BY <2>1, <3>1
    <3> QED
      BY <2>2, <3>1, <3>2 DEF Range
  <2>5. ASSUME NEW i \in 1..(Len(a) + Len(b))
        PROVE  (a \o b)[i] \in Range(a) \cup Range(b)
    <3>1. CASE i <= Len(a)
      BY <2>1, <2>2, <3>1 DEF Range
    <3>2. CASE ~(i <= Len(a))
      <4>1. i - Len(a) \in 1..Len(b) /\ (a \o b)[i] = b[i - Len(a)]
        BY <2>1, <2>2, <3>2
      <4> QED
        BY <2>2, <4>1 DEF Range
    <3> QED
      BY <3>1, <3>2
  <2> QED
    BY <2>1, <2>2, <2>3, <2>4, <2>5 DEF Range
<1>2. ASSUME NEW ss \in Seq(Seq(AllTokens)), NEW k \in 1..Len(ss)
      PROVE  Range(ss[k]) \subseteq Range(FlattenSeq(ss)) /\ FlattenSeq(ss) \in Seq(AllTokens)
  <2>1. PICK off : Joins(ss, FlattenSeq(ss), off) /\ FlattenSeq(ss) \in Seq(AllTokens)
    BY Flattened
  <2> DEFINE flat == FlattenSeq(ss)
  <2>2. ss[k] \in Seq(AllTokens) /\ Len(ss) \in Nat /\ Len(ss[k]) \in Nat /\ Len(flat) \in Nat
        /\ DOMAIN flat = 1..Len(flat) /\ DOMAIN ss[k] = 1..Len(ss[k])
    BY <2>1
  <2> HIDE DEF flat
  <2>3. /\ off[k - 1] \in Nat /\ off[k] = off[k - 1] + Len(ss[k]) /\ off[k] <= Len(flat)
        /\ \A i \in 1..Len(ss[k]) : flat[off[k - 1] + i] = ss[k][i]
    <3>1. k - 1 \in 0..Len(ss)
      BY <2>2
    <3> QED
      BY <2>1, <3>1 DEF Joins, flat
  <2>4. ASSUME NEW i \in 1..Len(ss[k])
        PROVE  ss[k][i] \in Range(flat)
    <3>1. off[k - 1] + i \in 1..Len(flat)
      BY <2>2, <2>3
    <3> QED
      BY <2>2, <2>3, <3>1 DEF Range
  <2> QED
    BY <2>1, <2>2, <2>4 DEF Range, flat
<1>3. <<Delim("[")>> \in Seq(AllTokens) /\ <<Delim("]")>> \in Seq(AllTokens)
      /\ <<Delim("{")>> \in Seq(AllTokens) /\ <<Delim("}")>> \in Seq(AllTokens)
  BY OneToken
<1>4. ASSUME NEW vs \in Seq(Values), Array(vs) \in Values, NEW i \in DOMAIN vs
      PROVE  Range(Tokens(vs[i])) \subseteq Range(Tokens(Array(vs)))
  <2>1. ElementTokens(vs) \in Seq(Seq(AllTokens)) /\ Len(ElementTokens(vs)) = Len(vs)
    BY TokensTyped, Parts
  <2>2. i \in 1..Len(ElementTokens(vs)) /\ ElementTokens(vs)[i] = Tokens(vs[i])
    BY <2>1 DEF ElementTokens
  <2>3. Range(Tokens(vs[i])) \subseteq Range(FlattenSeq(ElementTokens(vs)))
        /\ FlattenSeq(ElementTokens(vs)) \in Seq(AllTokens)
    BY <1>2, <2>1, <2>2
  <2>4. Range(FlattenSeq(ElementTokens(vs))) \subseteq Range(Tokens(Array(vs)))
    <3> DEFINE f == FlattenSeq(ElementTokens(vs))
               a == <<Delim("[")>>
               b == <<Delim("]")>>
    <3>1. Tokens(Array(vs)) = a \o f \o b /\ a \in Seq(AllTokens) /\ b \in Seq(AllTokens)
          /\ f \in Seq(AllTokens)
      BY <1>3, <1>4, <2>3, TokensOf
    <3> HIDE DEF a, b, f
    <3>2. Range(f) \subseteq Range(a \o f) /\ a \o f \in Seq(AllTokens)
      BY <1>1, <3>1
    <3>3. Range(a \o f) \subseteq Range(a \o f \o b)
      BY <1>1, <3>1, <3>2
    <3> QED
      BY <3>1, <3>2, <3>3 DEF f
  <2> QED
    BY <2>3, <2>4
<1>5. ASSUME NEW ms \in Seq(Members(Values)), Object(ms) \in Values, NEW i \in DOMAIN ms
      PROVE  Range(Tokens(ms[i].value)) \subseteq Range(Tokens(Object(ms)))
  <2>1. MemberTokens(ms) \in Seq(Seq(AllTokens)) /\ Len(MemberTokens(ms)) = Len(ms)
    BY TokensTyped, Parts
  <2>2. /\ i \in 1..Len(MemberTokens(ms))
        /\ MemberTokens(ms)[i] = <<Str(<<ms[i].key>>)>> \o Tokens(ms[i].value)
    BY <2>1 DEF MemberTokens
  <2>3. ms[i].key \in Keys /\ ms[i].value \in Values
    <3>1. ms[i] \in Members(Values)
      OBVIOUS
    <3> QED
      BY <3>1 DEF Members
  <2>4. <<Str(<<ms[i].key>>)>> \in Seq(AllTokens) /\ Tokens(ms[i].value) \in Seq(AllTokens)
    BY <2>3, OneToken, TokensTyped
  <2>5. Range(Tokens(ms[i].value)) \subseteq Range(MemberTokens(ms)[i])
    <3> DEFINE a == <<Str(<<ms[i].key>>)>>
               b == Tokens(ms[i].value)
    <3>1. a \in Seq(AllTokens) /\ b \in Seq(AllTokens) /\ MemberTokens(ms)[i] = a \o b
      BY <2>2, <2>4
    <3> HIDE DEF a, b
    <3>2. Range(b) \subseteq Range(a \o b)
      BY <1>1, <3>1
    <3> QED
      BY <3>1, <3>2 DEF b
  <2>6. Range(MemberTokens(ms)[i]) \subseteq Range(FlattenSeq(MemberTokens(ms)))
        /\ FlattenSeq(MemberTokens(ms)) \in Seq(AllTokens)
    BY <1>2, <2>1, <2>2
  <2>7. Range(FlattenSeq(MemberTokens(ms))) \subseteq Range(Tokens(Object(ms)))
    <3> DEFINE f == FlattenSeq(MemberTokens(ms))
               a == <<Delim("{")>>
               b == <<Delim("}")>>
    <3>1. Tokens(Object(ms)) = a \o f \o b /\ a \in Seq(AllTokens) /\ b \in Seq(AllTokens)
          /\ f \in Seq(AllTokens)
      BY <1>3, <1>5, <2>6, TokensOf
    <3> HIDE DEF a, b, f
    <3>2. Range(f) \subseteq Range(a \o f) /\ a \o f \in Seq(AllTokens)
      BY <1>1, <3>1
    <3>3. Range(a \o f) \subseteq Range(a \o f \o b)
      BY <1>1, <3>1, <3>2
    <3> QED
      BY <3>1, <3>2, <3>3 DEF f
  <2> QED
    BY <2>5, <2>6, <2>7
<1> QED
  BY <1>4, <1>5

-----------------------------------------------------------------------------
(* checkKeys.                                                              *)

\* The scan after all tokens.
Scan(scan, tokens) == KeysTurns(scan, tokens)[Len(tokens)]

\* The loop of checkKeys.
LEMMA KeysLoop ==
  ASSUME NEW scan, NEW tokens, Len(tokens) \in Nat
  PROVE  /\ KeysTurns(scan, tokens)[0] = scan
         /\ \A k \in 1..Len(tokens) :
              KeysTurns(scan, tokens)[k] = KeysTurn(KeysTurns(scan, tokens)[k - 1], tokens[k])
<1> DEFINE N == Len(tokens)
           Turn(x, k) == KeysTurn(x, tokens[k])
           Unfolds(f, n) == f = [k \in 0..n |-> IF k = 0 THEN scan ELSE Turn(f[k - 1], k)]
           T == {n \in 0..N : \E f : Unfolds(f, n)}
<1>1. N \in Nat /\ N = Len(tokens)
  OBVIOUS
<1> HIDE DEF N, Turn
<1>2. 0 \in T
  <2> DEFINE f == [k \in 0..0 |-> scan]
  <2>1. Unfolds(f, 0)
    <3>1. \A k \in 0..0 : f[k] = IF k = 0 THEN scan ELSE Turn(f[k - 1], k)
      OBVIOUS
    <3> QED
      BY <3>1
  <2> HIDE DEF Unfolds
  <2> QED
    BY <1>1, <2>1
<1>3. ASSUME NEW n \in 1..N, n - 1 \in T
      PROVE  n \in T
  <2>1. PICK f : Unfolds(f, n - 1)
    BY <1>3
  <2> DEFINE g == [k \in 0..n |-> IF k = n THEN Turn(f[n - 1], n) ELSE f[k]]
  <2>2. \A k \in 0..n : g[k] = IF k = 0 THEN scan ELSE Turn(g[k - 1], k)
    <3> SUFFICES ASSUME NEW k \in 0..n
                 PROVE  g[k] = IF k = 0 THEN scan ELSE Turn(g[k - 1], k)
      OBVIOUS
    <3>1. CASE k = n
      BY <3>1
    <3>2. CASE k # n
      <4>1. k \in 0..(n - 1)
        BY <3>2
      <4>2. f[k] = IF k = 0 THEN scan ELSE Turn(f[k - 1], k)
        BY <2>1, <4>1
      <4>3. k # 0 => g[k - 1] = f[k - 1]
        BY <4>1
      <4> QED
        BY <4>1, <4>2, <4>3
    <3> QED
      BY <3>1, <3>2
  <2>3. Unfolds(g, n)
    <3> DEFINE h == [k \in 0..n |-> IF k = 0 THEN scan ELSE Turn(g[k - 1], k)]
    <3>1. \A k \in 0..n : g[k] = h[k]
      BY <2>2
    <3>2. g = h
      BY <3>1
    <3> QED
      BY <3>2
  <2> HIDE DEF Unfolds, g
  <2> QED
    BY <2>3
<1>4. T = 0..N
  <2> HIDE DEF T
  <2>1. T \in SUBSET (0..N)
    BY DEF T
  <2> QED
    BY <1>1, <1>2, <1>3, <2>1, InductUpTo
<1> DEFINE turn == CHOOSE f : Unfolds(f, N)
<1>5. Unfolds(turn, N)
  <2>1. \E f : Unfolds(f, N)
    BY <1>1, <1>4
  <2> QED
    BY <2>1, Zenon
<1>6. KeysTurns(scan, tokens) = turn
  BY Zenon DEF KeysTurns, N, Turn
<1> HIDE DEF turn
<1> DEFINE h == [k \in 0..N |-> IF k = 0 THEN scan ELSE Turn(turn[k - 1], k)]
<1>7. \A k \in 0..N : h[k] = IF k = 0 THEN scan ELSE Turn(turn[k - 1], k)
  OBVIOUS
<1>8. turn = h
  BY <1>5
<1> HIDE DEF h
<1>9. turn[0] = scan
  BY <1>1, <1>7, <1>8
<1>10. ASSUME NEW k \in 1..N
       PROVE  turn[k] = Turn(turn[k - 1], k)
  BY <1>1, <1>7, <1>8
<1> QED
  BY <1>1, <1>6, <1>9, <1>10 DEF Turn

\* The loop ends at once when there is no token.
LEMMA ScanNothing ==
  ASSUME NEW scan
  PROVE  Scan(scan, <<>>) = scan
<1>1. Len(<<>>) = 0
  BY EmptySeq
<1>2. KeysTurns(scan, <<>>)[0] = scan
  BY <1>1, KeysLoop
<1> QED
  BY <1>1, <1>2 DEF Scan

\* One token is one turn.
LEMMA ScanOne ==
  ASSUME NEW scan, NEW x
  PROVE  Scan(scan, <<x>>) = KeysTurn(scan, x)
<1>1. Len(<<x>>) = 1 /\ <<x>>[1] = x
  OBVIOUS
<1>2. /\ KeysTurns(scan, <<x>>)[0] = scan
      /\ \A k \in 1..1 : KeysTurns(scan, <<x>>)[k] = KeysTurn(KeysTurns(scan, <<x>>)[k - 1], <<x>>[k])
  BY <1>1, KeysLoop
<1>3. 1 \in 1..1 /\ 1 - 1 = 0
  OBVIOUS
<1>4. KeysTurns(scan, <<x>>)[1] = KeysTurn(scan, x)
  BY <1>1, <1>2, <1>3
<1> QED
  BY <1>1, <1>4 DEF Scan

\* After a refusal nothing is looked at.
LEMMA ScanStuck ==
  ASSUME NEW S, NEW tokens \in Seq(S), NEW scan, ~scan.ok
  PROVE  Scan(scan, tokens) = scan
<1> DEFINE N == Len(tokens)
           turn == KeysTurns(scan, tokens)
           T == {k \in 0..N : turn[k] = scan}
<1>1. N \in Nat
  OBVIOUS
<1>2. turn[0] = scan /\ \A k \in 1..N : turn[k] = KeysTurn(turn[k - 1], tokens[k])
  BY <1>1, KeysLoop
<1> HIDE DEF turn
<1>3. \A token : KeysTurn(scan, token) = scan
  BY DEF KeysTurn
<1>4. T = 0..N
  <2>1. 0 \in T /\ T \in SUBSET (0..N) /\ \A k \in 1..N : k - 1 \in T => k \in T
    BY <1>1, <1>2, <1>3
  <2> HIDE DEF T
  <2> QED
    BY <1>1, <2>1, InductUpTo
<1> QED
  BY <1>1, <1>4 DEF Scan, turn

\* A stream is scanned from where the one before it ended.
LEMMA ScanConcat ==
  ASSUME NEW S, NEW a \in Seq(S), NEW b \in Seq(S), NEW scan
  PROVE  Scan(scan, a \o b) = Scan(Scan(scan, a), b)
<1> DEFINE c == a \o b
           m == Len(a)
           n == Len(b)
           whole == KeysTurns(scan, c)
           first == KeysTurns(scan, a)
           second == KeysTurns(first[m], b)
<1>1. m \in Nat /\ n \in Nat /\ m = Len(a) /\ n = Len(b)
  OBVIOUS
<1>2. /\ Len(c) = m + n
      /\ \A i \in 1..(m + n) : c[i] = IF i <= m THEN a[i] ELSE b[i - m]
  BY ConcatProperties
<1>3. /\ whole[0] = scan
      /\ \A k \in 1..(m + n) : whole[k] = KeysTurn(whole[k - 1], c[k])
  <2> HIDE DEF c, m, n
  <2>1. Len(c) \in Nat
    BY <1>1, <1>2
  <2>2. whole[0] = scan /\ \A k \in 1..Len(c) : whole[k] = KeysTurn(whole[k - 1], c[k])
    BY <2>1, KeysLoop
  <2> QED
    BY <1>2, <2>2
<1>4. first[0] = scan /\ \A k \in 1..m : first[k] = KeysTurn(first[k - 1], a[k])
  BY <1>1, KeysLoop
<1>5. second[0] = first[m] /\ \A k \in 1..n : second[k] = KeysTurn(second[k - 1], b[k])
  BY <1>1, KeysLoop
<1>6. /\ Scan(scan, c) = whole[m + n]
      /\ Scan(Scan(scan, a), b) = second[n]
  BY <1>1, <1>2 DEF Scan
<1> HIDE DEF c, m, n, whole, first, second
<1> DEFINE T == {k \in 0..m : whole[k] = first[k]}
<1>7. T = 0..m
  <2>1. ASSUME NEW k \in 1..m, k - 1 \in T
        PROVE  k \in T
    <3>1. k \in 1..(m + n) /\ k <= m
      BY <1>1
    <3> QED
      BY <1>2, <1>3, <1>4, <2>1, <3>1
  <2>2. 0 \in T /\ T \in SUBSET (0..m)
    BY <1>1, <1>3, <1>4
  <2> HIDE DEF T
  <2> QED
    BY <1>1, <2>1, <2>2, InductUpTo
<1>8. whole[m] = first[m]
  BY <1>1, <1>7
<1> DEFINE U == {k \in 0..n : whole[m + k] = second[k]}
<1>9. U = 0..n
  <2>1. ASSUME NEW k \in 1..n, k - 1 \in U
        PROVE  k \in U
    <3>1. m + k \in 1..(m + n) /\ ~(m + k <= m) /\ (m + k) - m = k /\ (m + k) - 1 = m + (k - 1)
      BY <1>1
    <3>2. c[m + k] = b[k]
      BY <1>2, <3>1
    <3>3. whole[m + k] = KeysTurn(whole[m + (k - 1)], b[k])
      BY <1>3, <3>1, <3>2
    <3> QED
      BY <1>5, <2>1, <3>3
  <2>2. 0 \in U /\ U \in SUBSET (0..n)
    BY <1>1, <1>5, <1>8
  <2> HIDE DEF U
  <2> QED
    BY <1>1, <2>1, <2>2, InductUpTo
<1>10. whole[m + n] = second[n]
  BY <1>1, <1>9, SMTT(60)
<1> QED
  BY <1>6, <1>10 DEF c

\* What is on the stack of checkKeys.
Frames == [object : BOOLEAN, expectKey : BOOLEAN, seen : SUBSET Fields]

\* A scan that has found nothing wrong.
Scanning(stack) == [ok |-> TRUE, stack |-> stack]

Refused(stack) == [ok |-> FALSE, stack |-> stack]

\* Inside an object.
Opened(seen, expect) == [object |-> TRUE, expectKey |-> expect, seen |-> seen]
InObject(stack, seen, expect) == Append(stack, Opened(seen, expect))

InArray(stack) == Append(stack, ArrayFrame)

\* A value may come next.
Awaits(stack) ==
  /\ stack \in Seq(Frames)
  /\ stack # <<>> /\ Last(stack).object => ~Last(stack).expectKey

\* A scan with another frame.
Put(scan, n, f) == [scan EXCEPT !.stack[n] = f]

Replaced(stack, n, f) == [stack EXCEPT ![n] = f]

\* What an EXCEPT of checkKeys makes of a scan and of the frame of an object.
LEMMA Updates ==
  /\ \A stack, other : [Scanning(stack) EXCEPT !.stack = other] = Scanning(other)
  /\ \A stack : [Scanning(stack) EXCEPT !.ok = FALSE] = Refused(stack)
  /\ \A stack, n, f : Put(Scanning(stack), n, f) = Scanning(Replaced(stack, n, f))
<1> DEFINE yes == TRUE
           no == FALSE
<1>1. \A stack : Scanning(stack) = [ok |-> yes, stack |-> stack] /\ Refused(stack) = [ok |-> no, stack |-> stack]
  BY DEF Scanning, Refused
<1> HIDE DEF yes, no
<1> SUFFICES ASSUME NEW stack
             PROVE  /\ \A other : [Scanning(stack) EXCEPT !.stack = other] = Scanning(other)
                    /\ [Scanning(stack) EXCEPT !.ok = FALSE] = Refused(stack)
                    /\ \A n, f : Put(Scanning(stack), n, f) = Scanning(Replaced(stack, n, f))
  OBVIOUS
<1> DEFINE s == Scanning(stack)
<1>2. s = [ok |-> yes, stack |-> stack]
  BY <1>1
<1> HIDE DEF s
<1>3. ASSUME NEW other
      PROVE  [s EXCEPT !.stack = other] = Scanning(other)
  BY <1>1, <1>2
<1>4. [s EXCEPT !.ok = FALSE] = Refused(stack)
  BY <1>1, <1>2 DEF no
<1>5. ASSUME NEW n, NEW f
      PROVE  Put(s, n, f) = Scanning(Replaced(stack, n, f))
  BY <1>1, <1>2 DEF Put, Replaced
<1> QED
  BY <1>3, <1>4, <1>5 DEF s

\* And of the frame itself.
LEMMA FrameUpdates ==
  ASSUME NEW seen, NEW expect
  PROVE  /\ [Opened(seen, expect) EXCEPT !.expectKey = TRUE] = Opened(seen, TRUE)
         /\ \A key : Keyed(Opened(seen, expect), key) = Opened(seen \cup {key}, FALSE)
<1> DEFINE yes == TRUE
           no == FALSE
           f == Opened(seen, expect)
<1>1. \A e, d : Opened(d, e) = [object |-> yes, expectKey |-> e, seen |-> d]
  BY DEF Opened
<1> HIDE DEF yes, no
<1>2. f = [object |-> yes, expectKey |-> expect, seen |-> seen]
  BY <1>1
<1> HIDE DEF f
<1>3. ASSUME NEW e
      PROVE  [f EXCEPT !.expectKey = e] = Opened(seen, e)
  BY <1>1, <1>2
<1>4. ASSUME NEW key, NEW e
      PROVE  [f EXCEPT !.expectKey = e, !.seen = @ \cup {key}] = Opened(seen \cup {key}, e)
  <2> DEFINE d == seen \cup {key}
             g == [f EXCEPT !.expectKey = e]
  <2>1. g = [object |-> yes, expectKey |-> e, seen |-> seen]
    BY <1>1, <1>3
  <2>2. f.seen \cup {key} = d
    BY <1>2
  <2> HIDE DEF d
  <2>3. [f EXCEPT !.expectKey = e, !.seen = @ \cup {key}] = [g EXCEPT !.seen = d]
    BY <2>2
  <2> HIDE DEF g
  <2>4. [g EXCEPT !.seen = d] = [object |-> yes, expectKey |-> e, seen |-> d]
    BY <2>1
  <2> QED
    BY <1>1, <2>3, <2>4 DEF d
<1> QED
  BY <1>3, <1>4 DEF f, Keyed

\* The frame that was opened last is on top.
LEMMA Stacked ==
  ASSUME NEW stack \in Seq(Frames), NEW frame \in Frames
  PROVE  LET longer == Append(stack, frame)
         IN /\ longer \in Seq(Frames) /\ longer # <<>>
            /\ Last(longer) = frame /\ Front(longer) = stack
            /\ \A g \in Frames : [longer EXCEPT ![Len(longer)] = g] = Append(stack, g)
<1> DEFINE longer == Append(stack, frame)
           n == Len(stack)
<1>1. n \in Nat /\ n = Len(stack) /\ longer \in Seq(Frames) /\ Len(longer) = n + 1 /\ longer # <<>>
      /\ longer[n + 1] = frame /\ \A i \in 1..n : longer[i] = stack[i]
  BY AppendProperties
<1>2. Last(longer) = frame
  BY <1>1 DEF Last
<1>3. Front(longer) = stack
  <2>1. Front(longer) = SubSeq(longer, 1, n)
    <3>1. (n + 1) - 1 = n
      BY <1>1
    <3> QED
      BY <1>1, <3>1, Zenon DEF Front
  <2>2. \A i \in 1..n : longer[i] \in Frames
    BY <1>1
  <2> HIDE DEF longer, n
  <2>3. /\ SubSeq(longer, 1, n) \in Seq(Frames)
        /\ Len(SubSeq(longer, 1, n)) = IF 1 <= n THEN n - 1 + 1 ELSE 0
        /\ \A i \in 1..(n - 1 + 1) : SubSeq(longer, 1, n)[i] = longer[1 + i - 1]
    BY <1>1, <2>2, SubSeqProperties
  <2>4. Len(SubSeq(longer, 1, n)) = n /\ \A i \in 1..n : SubSeq(longer, 1, n)[i] = stack[i]
    BY <1>1, <2>3
  <2> QED
    BY <1>1, <2>1, <2>3, <2>4, SeqEqual
<1>4. ASSUME NEW g \in Frames
      PROVE  [longer EXCEPT ![Len(longer)] = g] = Append(stack, g)
  <2> DEFINE s == [longer EXCEPT ![Len(longer)] = g]
             t == Append(stack, g)
  <2>1. t \in Seq(Frames) /\ Len(t) = n + 1 /\ t[n + 1] = g /\ \A i \in 1..n : t[i] = stack[i]
    BY <1>1, AppendProperties
  <2>2. n + 1 \in 1..Len(longer)
    BY <1>1
  <2>3. s \in Seq(Frames) /\ Len(s) = n + 1
        /\ \A i \in 1..(n + 1) : s[i] = IF i = n + 1 THEN g ELSE longer[i]
    <3> HIDE DEF longer, n
    <3> QED
      BY <1>1, <2>2, ExceptSeq
  <2> HIDE DEF s, t, longer, n
  <2>4. \A i \in 1..(n + 1) : s[i] = t[i]
    BY <1>1, <2>1, <2>3
  <2> QED
    BY <2>1, <2>3, <2>4, SeqEqual DEF s, t
<1> QED
  BY <1>1, <1>2, <1>3, <1>4

\* What a token does to the scan.
LEMMA Turns ==
  ASSUME NEW stack \in Seq(Frames)
  PROVE  /\ KeysTurn(Scanning(stack), Delim("{")) = Scanning(InObject(stack, {}, TRUE))
         /\ KeysTurn(Scanning(stack), Delim("[")) = Scanning(InArray(stack))
         /\ \A frame \in Frames, d \in {"}", "]"} :
              KeysTurn(Scanning(Append(stack, frame)), Delim(d)) = Consumed(Scanning(stack))
         /\ \A seen \in SUBSET Fields, key \in Keys :
              KeysTurn(Scanning(InObject(stack, seen, TRUE)), Str(<<key>>))
                = IF key \in Fields \ seen
                  THEN Scanning(InObject(stack, seen \cup {key}, FALSE))
                  ELSE Refused(InObject(stack, seen, TRUE))
         /\ Awaits(stack) =>
              \A x : ~Is(x, "delim") => KeysTurn(Scanning(stack), x) = Consumed(Scanning(stack))
         /\ \A seen \in SUBSET Fields :
              Consumed(Scanning(InObject(stack, seen, FALSE))) = Scanning(InObject(stack, seen, TRUE))
         /\ Consumed(Scanning(InArray(stack))) = Scanning(InArray(stack))
<1>1. Scanning(stack).ok /\ Scanning(stack).stack = stack
  BY DEF Scanning
<1>2. ASSUME NEW d
      PROVE  KeysTurn(Scanning(stack), Delim(d)) = Nested(Scanning(stack), d)
  BY <1>1, Kinds, Contents DEF KeysTurn
<1>3. \A other : [Scanning(stack) EXCEPT !.stack = other] = Scanning(other)
  BY Updates
<1>4. KeysTurn(Scanning(stack), Delim("{")) = Scanning(InObject(stack, {}, TRUE))
  BY <1>1, <1>2, <1>3 DEF Nested, InObject, Opened, ObjectFrame
<1>5. KeysTurn(Scanning(stack), Delim("[")) = Scanning(InArray(stack))
  BY <1>1, <1>2, <1>3 DEF Nested, InArray
<1>6. ASSUME NEW frame \in Frames, NEW d \in {"}", "]"}
      PROVE  KeysTurn(Scanning(Append(stack, frame)), Delim(d)) = Consumed(Scanning(stack))
  <2> DEFINE longer == Append(stack, frame)
  <2>1. Front(longer) = stack
    BY Stacked
  <2>2. Scanning(longer).ok /\ Scanning(longer).stack = longer
        /\ [Scanning(longer) EXCEPT !.stack = Front(longer)] = Scanning(Front(longer))
    BY Updates DEF Scanning
  <2> HIDE DEF longer
  <2>3. KeysTurn(Scanning(longer), Delim(d)) = Nested(Scanning(longer), d)
    BY <2>2, Kinds, Contents DEF KeysTurn
  <2>4. Nested(Scanning(longer), d) = Closed(Scanning(longer))
    BY DEF Nested
  <2>5. Closed(Scanning(longer)) = Consumed(Scanning(stack))
    BY <2>1, <2>2 DEF Closed
  <2> QED
    BY <2>3, <2>4, <2>5 DEF longer
<1>7. ASSUME NEW seen \in SUBSET Fields, NEW expect \in BOOLEAN
      PROVE  LET longer == InObject(stack, seen, expect)
                 frame == Opened(seen, expect)
             IN /\ longer \in Seq(Frames) /\ longer # <<>> /\ Top(Scanning(longer)) = frame
                /\ \A g \in Frames : Put(Scanning(longer), Len(longer), g) = Scanning(Append(stack, g))
  <2> DEFINE frame == Opened(seen, expect)
             longer == InObject(stack, seen, expect)
  <2>1. frame \in Frames /\ longer = Append(stack, frame)
    BY DEF Frames, InObject, Opened
  <2> HIDE DEF frame, longer
  <2>2. /\ longer \in Seq(Frames) /\ longer # <<>> /\ Last(longer) = frame
        /\ \A g \in Frames : [longer EXCEPT ![Len(longer)] = g] = Append(stack, g)
    BY <2>1, Stacked
  <2>3. Scanning(longer).stack = longer
    BY DEF Scanning
  <2>4. ASSUME NEW g \in Frames
        PROVE  Put(Scanning(longer), Len(longer), g) = Scanning(Append(stack, g))
    <3>1. Replaced(longer, Len(longer), g) = Append(stack, g)
      BY <2>2 DEF Replaced
    <3>2. \A s, n, h : Put(Scanning(s), n, h) = Scanning(Replaced(s, n, h))
      BY Updates, Zenon
    <3> QED
      BY <3>1, <3>2
  <2> QED
    BY <2>2, <2>3, <2>4 DEF Top, frame, longer
<1>8. ASSUME NEW seen \in SUBSET Fields
      PROVE  Consumed(Scanning(InObject(stack, seen, FALSE))) = Scanning(InObject(stack, seen, TRUE))
  <2> DEFINE longer == InObject(stack, seen, FALSE)
             f == Opened(seen, FALSE)
             g == Opened(seen, TRUE)
  <2>1. /\ longer # <<>> /\ Top(Scanning(longer)) = f
        /\ Put(Scanning(longer), Len(longer), g) = Scanning(Append(stack, g))
    <3>1. g \in Frames
      BY DEF Frames, Opened
    <3> HIDE DEF g
    <3> QED
      BY <1>7, <3>1
  <2>2. Scanning(longer).stack = longer /\ longer \in Seq(Frames)
    BY <1>7 DEF Scanning
  <2>3. Last(longer) = f /\ longer[Len(longer)] = f
    BY <2>1, <2>2 DEF Top, Last
  <2>4. [Scanning(longer) EXCEPT !.stack[Len(longer)].expectKey = TRUE]
          = Put(Scanning(longer), Len(longer), g)
    <3>1. [f EXCEPT !.expectKey = TRUE] = g
      BY FrameUpdates
    <3> HIDE DEF f, g, longer
    <3> QED
      BY <2>2, <2>3, <3>1 DEF Put
  <2>5. f.object
    BY DEF Opened
  <2> HIDE DEF longer, f
  <2>6. Consumed(Scanning(longer)) = [Scanning(longer) EXCEPT !.stack[Len(longer)].expectKey = TRUE]
    BY <2>1, <2>2, <2>5 DEF Consumed
  <2>7. Append(stack, g) = InObject(stack, seen, TRUE)
    BY DEF InObject
  <2> QED
    BY <2>1, <2>4, <2>6, <2>7 DEF longer
<1>9. Consumed(Scanning(InArray(stack))) = Scanning(InArray(stack))
  <2>1. ArrayFrame \in Frames /\ ~ArrayFrame.object
    BY DEF ArrayFrame, Frames
  <2>2. Last(InArray(stack)) = ArrayFrame
    BY <2>1, Stacked DEF InArray
  <2>3. Scanning(InArray(stack)).stack = InArray(stack)
    BY DEF Scanning
  <2> QED
    BY <2>1, <2>2, <2>3 DEF Consumed, Top
<1>10. ASSUME Awaits(stack), NEW x, ~Is(x, "delim")
       PROVE  KeysTurn(Scanning(stack), x) = Consumed(Scanning(stack))
  BY <1>1, <1>10 DEF KeysTurn, Awaits, Top
<1>11. ASSUME NEW seen \in SUBSET Fields, NEW key
       PROVE  KeysTurn(Scanning(InObject(stack, seen, TRUE)), Str(<<key>>))
                = IF key \in Fields \ seen
                  THEN Scanning(InObject(stack, seen \cup {key}, FALSE))
                  ELSE Refused(InObject(stack, seen, TRUE))
  <2> DEFINE longer == InObject(stack, seen, TRUE)
             f == Opened(seen, TRUE)
             g == Opened(seen \cup {key}, FALSE)
  <2>1. longer # <<>> /\ Top(Scanning(longer)) = f /\ longer \in Seq(Frames)
    BY <1>7
  <2>2. Scanning(longer).stack = longer /\ Scanning(longer).ok
    BY DEF Scanning
  <2>3. f.object /\ f.expectKey /\ f.seen = seen
    BY DEF Opened
  <2>4. Keyed(f, key) = g
    BY FrameUpdates
  <2>5. KeyOf(Str(<<key>>)) = key /\ ~Is(Str(<<key>>), "delim")
    <3>1. Str(<<key>>).str = <<key>> /\ Is(Str(<<key>>), "str") /\ ~Is(Str(<<key>>), "delim")
      BY Kinds, Contents
    <3>2. Len(<<key>>) = 1 /\ <<key>>[1] = key
      OBVIOUS
    <3> QED
      BY <3>1, <3>2 DEF KeyOf
  <2>6. Last(longer) = f /\ longer[Len(longer)] = f
    BY <2>1, <2>2 DEF Top, Last
  <2>7. Append(stack, g) = InObject(stack, seen \cup {key}, FALSE)
    BY DEF InObject
  <2>8. key \in Fields => g \in Frames
    BY DEF Frames, Opened
  <2>9. \A h \in Frames : Put(Scanning(longer), Len(longer), h) = Scanning(Append(stack, h))
    BY <1>7
  <2> HIDE DEF longer, f, g
  <2>10. KeysTurn(Scanning(longer), Str(<<key>>)) = Key(Scanning(longer), key)
    BY <2>1, <2>2, <2>3, <2>5 DEF KeysTurn
  <2>11. CASE key \in Fields \ seen
    <3> DEFINE n == Len(Scanning(longer).stack)
               h == Scanning(longer).stack[n]
    <3>1. Key(Scanning(longer), key) = Put(Scanning(longer), n, Keyed(h, key))
      BY <2>1, <2>3, <2>11 DEF Key, Put
    <3>2. n = Len(longer) /\ h = f
      BY <2>2, <2>6
    <3> HIDE DEF n, h
    <3>3. Keyed(h, key) = g
      BY <2>4, <3>2
    <3>4. Put(Scanning(longer), Len(longer), g) = Scanning(Append(stack, g))
      BY <2>8, <2>9, <2>11
    <3> QED
      BY <2>7, <2>10, <2>11, <3>1, <3>2, <3>3, <3>4 DEF longer
  <2>12. CASE key \notin Fields \ seen
    <3>1. Key(Scanning(longer), key) = [Scanning(longer) EXCEPT !.ok = FALSE]
      BY <2>1, <2>3, <2>12 DEF Key
    <3>2. [Scanning(longer) EXCEPT !.ok = FALSE] = Refused(longer)
      BY Updates
    <3> QED
      BY <2>10, <2>12, <3>1, <3>2 DEF longer
  <2> QED
    BY <2>11, <2>12
<1> QED
  BY <1>4, <1>5, <1>6, <1>8, <1>9, <1>10, <1>11

\* Inside an array a value may come next, inside an object after a key.
LEMMA InsideAwaits ==
  ASSUME NEW stack \in Seq(Frames)
  PROVE  /\ Awaits(InArray(stack))
         /\ \A seen \in SUBSET Fields : Awaits(InObject(stack, seen, FALSE))
<1>1. ArrayFrame \in Frames /\ ~ArrayFrame.object
  BY DEF ArrayFrame, Frames
<1>2. Awaits(InArray(stack))
  <2>1. InArray(stack) \in Seq(Frames) /\ Last(InArray(stack)) = ArrayFrame
    BY <1>1, Stacked DEF InArray
  <2> QED
    BY <1>1, <2>1 DEF Awaits
<1>3. ASSUME NEW seen \in SUBSET Fields
      PROVE  Awaits(InObject(stack, seen, FALSE))
  <2>1. Opened(seen, FALSE) \in Frames /\ ~Opened(seen, FALSE).expectKey
    BY DEF Opened, Frames
  <2>2. InObject(stack, seen, FALSE) \in Seq(Frames)
        /\ Last(InObject(stack, seen, FALSE)) = Opened(seen, FALSE)
    BY <2>1, Stacked DEF InObject
  <2> QED
    BY <2>1, <2>2 DEF Awaits
<1> QED
  BY <1>2, <1>3

\* Where a value may come, the tokens are refused or are one complete value.
Neutral(tokens) ==
  \A stack : Awaits(stack) =>
    (Scan(Scanning(stack), tokens).ok => Scan(Scanning(stack), tokens) = Consumed(Scanning(stack)))

\* The tokens of v are let through somewhere.
Passes(v) == \E stack : Awaits(stack) /\ Scan(Scanning(stack), Tokens(v)).ok

\* What is between two delimiters is scanned after the first one.
LEMMA ScanEnclosed ==
  ASSUME NEW a \in Seq(AllTokens), NEW f \in Seq(AllTokens), NEW b \in Seq(AllTokens), NEW scan
  PROVE  Scan(scan, a \o f \o b) = Scan(Scan(Scan(scan, a), f), b)
<1>1. a \o f \in Seq(AllTokens)
  BY ConcatProperties
<1>2. Scan(scan, a \o f \o b) = Scan(Scan(scan, a \o f), b)
  BY <1>1, ScanConcat
<1>3. Scan(scan, a \o f) = Scan(Scan(scan, a), f)
  BY ScanConcat
<1> QED
  BY <1>2, <1>3

\* checkKeys in an array: each element is scanned as it would be elsewhere.
LEMMA ArrayScan ==
  ASSUME NEW vs \in Seq(Values), Array(vs) \in Values,
         \A i \in 1..Len(vs) : Neutral(Tokens(vs[i])),
         NEW stack, Awaits(stack), Scan(Scanning(stack), Tokens(Array(vs))).ok
  PROVE  /\ Scan(Scanning(stack), Tokens(Array(vs))) = Consumed(Scanning(stack))
         /\ \A i \in 1..Len(vs) : Passes(vs[i])
<1> DEFINE ss == ElementTokens(vs)
           n == Len(vs)
           inside == Scanning(InArray(stack))
           open == <<Delim("[")>>
           close == <<Delim("]")>>
<1>1. stack \in Seq(Frames)
  BY DEF Awaits
<1>2. /\ ss \in Seq(Seq(AllTokens)) /\ Len(ss) = n /\ n \in Nat
      /\ \A k \in 1..n : ss[k] = Tokens(vs[k]) /\ Tokens(vs[k]) \in Seq(AllTokens)
  <2>1. ss \in Seq(Seq(AllTokens)) /\ Len(ss) = n /\ n \in Nat
    <3>1. ElementTokens(vs) \in Seq(Seq(AllTokens)) /\ Len(ElementTokens(vs)) = Len(vs)
      BY TokensTyped, Parts
    <3> QED
      BY <3>1
  <2>2. ASSUME NEW k \in 1..n
        PROVE  ss[k] = Tokens(vs[k]) /\ Tokens(vs[k]) \in Seq(AllTokens)
    BY TokensTyped DEF ElementTokens
  <2> QED
    BY <2>1, <2>2
<1>3. open \in Seq(AllTokens) /\ close \in Seq(AllTokens)
  BY OneToken
<1> HIDE DEF ss, n
<1>4. PICK flat \in [0..n -> Seq(AllTokens)] :
             /\ flat[0] = <<>>
             /\ \A k \in 1..n : flat[k] = flat[k - 1] \o ss[k]
             /\ flat[n] = FlattenSeq(ss)
  BY <1>2, Flattening
<1>5. Awaits(InArray(stack)) /\ Consumed(inside) = inside
  BY <1>1, InsideAwaits, Turns
<1>6. Scan(Scanning(stack), open) = inside
  <2>1. KeysTurn(Scanning(stack), Delim("[")) = inside
    BY <1>1, Turns
  <2> QED
    BY <2>1, ScanOne
<1>7. Scan(inside, close) = Consumed(Scanning(stack))
  <2>1. ArrayFrame \in Frames
    BY DEF ArrayFrame, Frames
  <2>2. KeysTurn(inside, Delim("]")) = Consumed(Scanning(stack))
    BY <1>1, <2>1, Turns DEF InArray
  <2> QED
    BY <2>2, ScanOne
<1> HIDE DEF inside, open, close
<1> DEFINE T == {k \in 0..n : Scan(inside, flat[k]).ok =>
                   Scan(inside, flat[k]) = inside /\ \A i \in 1..k : Passes(vs[i])}
<1>8. ASSUME NEW k \in 1..n, k - 1 \in T
      PROVE  k \in T
  <2>1. k - 1 \in 0..n /\ k \in 0..n
    BY <1>2
  <2>2. flat[k - 1] \in Seq(AllTokens) /\ ss[k] \in Seq(AllTokens) /\ flat[k] = flat[k - 1] \o ss[k]
    <3>1. ss[k] \in Seq(AllTokens)
      BY <1>2
    <3> QED
      BY <1>4, <2>1, <3>1
  <2> DEFINE before == flat[k - 1]
             part == ss[k]
  <2>3. before \in Seq(AllTokens) /\ part \in Seq(AllTokens) /\ flat[k] = before \o part
    BY <2>2
  <2>4. part = Tokens(vs[k])
    BY <1>2
  <2>5. Scan(inside, before).ok => Scan(inside, before) = inside /\ \A i \in 1..(k - 1) : Passes(vs[i])
    BY <1>8
  <2> HIDE DEF before, part
  <2>6. Scan(inside, flat[k]) = Scan(Scan(inside, before), part)
    BY <2>3, ScanConcat
  <2> SUFFICES ASSUME Scan(inside, flat[k]).ok
               PROVE  Scan(inside, flat[k]) = inside /\ \A i \in 1..k : Passes(vs[i])
    BY <2>1
  <2>7. Scan(inside, before).ok
    <3>1. ~Scan(inside, before).ok => Scan(Scan(inside, before), part) = Scan(inside, before)
      BY <2>3, ScanStuck
    <3> QED
      BY <2>6, <3>1
  <2>8. Scan(inside, part).ok /\ Scan(inside, flat[k]) = Scan(inside, part)
    BY <2>5, <2>6, <2>7
  <2>9. Scan(inside, part) = inside
    <3>1. Neutral(part)
      BY <1>2, <2>4 DEF n
    <3> QED
      BY <1>5, <2>8, <3>1 DEF Neutral, inside
  <2>10. Passes(vs[k])
    BY <1>5, <2>4, <2>8 DEF Passes, inside
  <2>11. \A i \in 1..k : Passes(vs[i])
    <3>1. \A i \in 1..k : i = k \/ i \in 1..(k - 1)
      BY <2>1
    <3> QED
      BY <2>5, <2>7, <2>10, <3>1
  <2> QED
    BY <2>8, <2>9, <2>11
<1>9. T = 0..n
  <2>1. Scan(inside, flat[0]) = inside
    BY <1>4, ScanNothing
  <2>2. 0 \in T /\ T \in SUBSET (0..n)
    BY <1>2, <2>1
  <2> HIDE DEF T
  <2> QED
    BY <1>2, <1>8, <2>2, InductUpTo
<1>10. Scan(inside, flat[n]).ok =>
         Scan(inside, flat[n]) = inside /\ \A i \in 1..n : Passes(vs[i])
  <2>1. n \in T
    <3> HIDE DEF T
    <3> QED
      BY <1>2, <1>9
  <2> QED
    BY <2>1
<1> DEFINE f == flat[n]
<1>11. f \in Seq(AllTokens) /\ Tokens(Array(vs)) = open \o f \o close
  <2>1. f \in Seq(AllTokens) /\ f = FlattenSeq(ss)
    BY <1>2, <1>4
  <2>2. Tokens(Array(vs)) = open \o FlattenSeq(ss) \o close
    BY TokensOf DEF ss, open, close
  <2> QED
    BY <2>1, <2>2
<1>12. Scan(Scanning(stack), Tokens(Array(vs))) = Scan(Scan(inside, f), close)
  <2> HIDE DEF f
  <2> QED
    BY <1>3, <1>6, <1>11, ScanEnclosed
<1>13. Scan(inside, f).ok
  <2>1. ~Scan(inside, f).ok => Scan(Scan(inside, f), close) = Scan(inside, f)
    BY <1>3, ScanStuck
  <2> QED
    BY <1>12, <2>1
<1> QED
  BY <1>7, <1>10, <1>12, <1>13 DEF n

\* checkKeys in an object: its keys are fields, no two of them the same.
LEMMA ObjectScan ==
  ASSUME NEW ms \in Seq(Members(Values)), Object(ms) \in Values,
         \A i \in 1..Len(ms) : Neutral(Tokens(ms[i].value)),
         NEW stack, Awaits(stack), Scan(Scanning(stack), Tokens(Object(ms))).ok
  PROVE  /\ Scan(Scanning(stack), Tokens(Object(ms))) = Consumed(Scanning(stack))
         /\ \A i \in 1..Len(ms) : Passes(ms[i].value) /\ ms[i].key \in Fields
         /\ \A i, j \in 1..Len(ms) : ms[i].key = ms[j].key => i = j
<1> DEFINE ss == MemberTokens(ms)
           n == Len(ms)
           Inside(seen) == Scanning(InObject(stack, seen, TRUE))
           open == <<Delim("{")>>
           close == <<Delim("}")>>
           Seen(k) == {ms[i].key : i \in 1..k}
           name(k) == <<Str(<<ms[k].key>>)>>
<1>1. stack \in Seq(Frames)
  BY DEF Awaits
<1>2. /\ ss \in Seq(Seq(AllTokens)) /\ Len(ss) = n /\ n \in Nat
      /\ \A k \in 1..n : /\ ms[k].key \in Keys /\ name(k) \in Seq(AllTokens)
                         /\ Tokens(ms[k].value) \in Seq(AllTokens)
                         /\ ss[k] = name(k) \o Tokens(ms[k].value)
  <2>1. ss \in Seq(Seq(AllTokens)) /\ Len(ss) = n /\ n \in Nat
    BY TokensTyped, Parts
  <2>2. ASSUME NEW k \in 1..n
        PROVE  /\ ms[k].key \in Keys /\ name(k) \in Seq(AllTokens)
               /\ Tokens(ms[k].value) \in Seq(AllTokens)
               /\ ss[k] = name(k) \o Tokens(ms[k].value)
    <3>1. ms[k] \in Members(Values)
      OBVIOUS
    <3>2. ms[k].key \in Keys /\ ms[k].value \in Values
      BY <3>1 DEF Members
    <3>3. k \in DOMAIN ms
      OBVIOUS
    <3>4. ss[k] = name(k) \o Tokens(ms[k].value)
      BY <3>3 DEF MemberTokens
    <3> QED
      BY <3>2, <3>4, OneToken, TokensTyped
  <2> HIDE DEF ss, n, name
  <2> QED
    BY <2>1, <2>2
<1>3. open \in Seq(AllTokens) /\ close \in Seq(AllTokens)
  BY OneToken
<1> HIDE DEF ss, n
<1>4. PICK flat \in [0..n -> Seq(AllTokens)] :
             /\ flat[0] = <<>>
             /\ \A k \in 1..n : flat[k] = flat[k - 1] \o ss[k]
             /\ flat[n] = FlattenSeq(ss)
  BY <1>2, Flattening
<1>5. Scan(Scanning(stack), open) = Inside({})
  <2>1. KeysTurn(Scanning(stack), Delim("{")) = Inside({})
    BY <1>1, Turns
  <2> QED
    BY <2>1, ScanOne
<1>6. ASSUME NEW seen \in SUBSET Fields
      PROVE  Scan(Inside(seen), close) = Consumed(Scanning(stack))
  <2>1. Opened(seen, TRUE) \in Frames
    BY DEF Opened, Frames
  <2>2. KeysTurn(Inside(seen), Delim("}")) = Consumed(Scanning(stack))
    BY <1>1, <2>1, Turns DEF InObject
  <2> QED
    BY <2>2, ScanOne
<1> DEFINE Distinct(k) == /\ \A i \in 1..k : Passes(ms[i].value) /\ ms[i].key \in Fields
                          /\ \A i, j \in 1..k : ms[i].key = ms[j].key => i = j
\* One member.
<1>7. ASSUME NEW seen \in SUBSET Fields, NEW k \in 1..n, Scan(Inside(seen), ss[k]).ok
      PROVE  /\ ms[k].key \in Fields \ seen
             /\ Scan(Inside(seen), ss[k]) = Inside(seen \cup {ms[k].key})
             /\ Passes(ms[k].value)
  <2> DEFINE key == ms[k].key
             value == ms[k].value
             after == Scanning(InObject(stack, seen \cup {key}, FALSE))
  <2>1. key \in Keys /\ name(k) \in Seq(AllTokens) /\ Tokens(value) \in Seq(AllTokens)
        /\ ss[k] = name(k) \o Tokens(value) /\ Neutral(Tokens(value))
    BY <1>2 DEF n
  <2>2. name(k) = <<Str(<<key>>)>>
    OBVIOUS
  <2> HIDE DEF name, key, value
  <2>3. Scan(Inside(seen), ss[k]) = Scan(Scan(Inside(seen), name(k)), Tokens(value))
    <3> DEFINE a == name(k)
               b == Tokens(value)
               scan == Inside(seen)
    <3>1. a \in Seq(AllTokens) /\ b \in Seq(AllTokens) /\ ss[k] = a \o b
      BY <2>1
    <3> HIDE DEF a, b, scan
    <3>2. Scan(scan, a \o b) = Scan(Scan(scan, a), b)
      BY <3>1, ScanConcat
    <3> QED
      BY <3>1, <3>2 DEF a, b, scan
  <2>4. Scan(Inside(seen), name(k)) = IF key \in Fields \ seen THEN after
                                      ELSE Refused(InObject(stack, seen, TRUE))
    <3>1. KeysTurn(Inside(seen), Str(<<key>>)) = IF key \in Fields \ seen THEN after
                                      ELSE Refused(InObject(stack, seen, TRUE))
      BY <1>1, <2>1, Turns
    <3>2. Scan(Inside(seen), <<Str(<<key>>)>>) = KeysTurn(Inside(seen), Str(<<key>>))
      BY ScanOne
    <3> QED
      BY <2>2, <3>1, <3>2
  <2> HIDE DEF Inside, after
  <2>5. key \in Fields \ seen
    <3> SUFFICES ASSUME key \notin Fields \ seen
                 PROVE  FALSE
      OBVIOUS
    <3> DEFINE refused == Refused(InObject(stack, seen, TRUE))
    <3>1. ~refused.ok
      BY DEF Refused
    <3> HIDE DEF refused
    <3>2. Scan(refused, Tokens(value)) = refused
      BY <2>1, <3>1, ScanStuck
    <3> QED
      BY <1>7, <2>3, <2>4, <3>1, <3>2 DEF refused
  <2>6. Scan(Inside(seen), ss[k]) = Scan(after, Tokens(value))
    BY <2>3, <2>4, <2>5
  <2>7. seen \cup {key} \in SUBSET Fields
    BY <2>5
  <2>8. Awaits(InObject(stack, seen \cup {key}, FALSE))
        /\ Consumed(after) = Inside(seen \cup {key})
    <3> HIDE DEF Awaits
    <3> QED
      BY <1>1, <2>7, InsideAwaits, Turns DEF Inside, after
  <2>9. Scan(after, Tokens(value)) = Consumed(after) /\ Passes(value)
    BY <1>7, <2>1, <2>6, <2>8 DEF Neutral, Passes, after
  <2> QED
    BY <2>5, <2>6, <2>8, <2>9 DEF key, value
<1> DEFINE T == {k \in 0..n : Scan(Inside({}), flat[k]).ok =>
                   Scan(Inside({}), flat[k]) = Inside(Seen(k)) /\ Distinct(k)}
<1> HIDE DEF Inside, open, close, name
<1>8. ASSUME NEW k \in 1..n, k - 1 \in T
      PROVE  k \in T
  <2>1. k - 1 \in 0..n /\ k \in 0..n
    BY <1>2
  <2>2. flat[k - 1] \in Seq(AllTokens) /\ ss[k] \in Seq(AllTokens) /\ flat[k] = flat[k - 1] \o ss[k]
    <3>1. ss[k] \in Seq(AllTokens)
      BY <1>2
    <3> QED
      BY <1>4, <2>1, <3>1
  <2> DEFINE before == flat[k - 1]
             part == ss[k]
             start == Inside({})
  <2>3. before \in Seq(AllTokens) /\ part \in Seq(AllTokens) /\ flat[k] = before \o part
    BY <2>2
  <2>4. Scan(start, before).ok => Scan(start, before) = Inside(Seen(k - 1)) /\ Distinct(k - 1)
    BY <1>8
  <2> HIDE DEF before, start, Distinct, Seen
  <2>5. Scan(start, flat[k]) = Scan(Scan(start, before), part)
    <3> HIDE DEF part
    <3> QED
      BY <2>3, ScanConcat
  <2> SUFFICES ASSUME Scan(start, flat[k]).ok
               PROVE  Scan(start, flat[k]) = Inside(Seen(k)) /\ Distinct(k)
    BY <2>1 DEF start
  <2>6. Scan(start, before).ok
    <3> HIDE DEF part
    <3>1. ~Scan(start, before).ok => Scan(Scan(start, before), part) = Scan(start, before)
      BY <2>3, ScanStuck
    <3> QED
      BY <2>5, <3>1
  <2>7. Distinct(k - 1) /\ Scan(start, flat[k]) = Scan(Inside(Seen(k - 1)), part)
    BY <2>4, <2>5, <2>6
  <2>8. Seen(k - 1) \in SUBSET Fields
    BY <2>7 DEF Distinct, Seen
  <2>9. /\ ms[k].key \in Fields \ Seen(k - 1)
        /\ Scan(start, flat[k]) = Inside(Seen(k - 1) \cup {ms[k].key})
        /\ Passes(ms[k].value)
    BY <1>7, <2>7, <2>8
  <2>10. \A i \in 1..k : i = k \/ i \in 1..(k - 1)
    BY <2>1
  <2>11. k \in 1..k /\ \A i \in 1..(k - 1) : i \in 1..k
    BY <2>1
  <2>12. Seen(k - 1) \cup {ms[k].key} = Seen(k)
    BY <2>10, <2>11 DEF Seen
  <2>13. Distinct(k)
    <3>1. \A i \in 1..(k - 1) : ms[i].key # ms[k].key
      BY <2>9 DEF Seen
    <3> QED
      BY <2>7, <2>9, <2>10, <3>1 DEF Distinct
  <2> QED
    BY <2>9, <2>12, <2>13
<1>9. T = 0..n
  <2>1. Scan(Inside({}), flat[0]) = Inside({})
    BY <1>4, ScanNothing
  <2>2. Seen(0) = {} /\ Distinct(0)
    OBVIOUS
  <2> HIDE DEF Seen, Distinct
  <2>3. Scan(Inside({}), flat[0]) = Inside(Seen(0)) /\ Distinct(0)
    BY <2>1, <2>2
  <2>4. 0 \in T /\ T \in SUBSET (0..n)
    BY <1>2, <2>3
  <2> HIDE DEF T
  <2> QED
    BY <1>2, <1>8, <2>4, InductUpTo
<1>10. Scan(Inside({}), flat[n]).ok =>
         Scan(Inside({}), flat[n]) = Inside(Seen(n)) /\ Distinct(n)
  <2> HIDE DEF Seen, Distinct
  <2>1. n \in T
    <3> HIDE DEF T
    <3> QED
      BY <1>2, <1>9
  <2> QED
    BY <2>1
<1> DEFINE f == flat[n]
           start == Inside({})
<1>11. f \in Seq(AllTokens) /\ Tokens(Object(ms)) = open \o f \o close
  <2>1. f \in Seq(AllTokens) /\ f = FlattenSeq(ss)
    BY <1>2, <1>4
  <2>2. Tokens(Object(ms)) = open \o FlattenSeq(ss) \o close
    BY TokensOf DEF ss, open, close
  <2> QED
    BY <2>1, <2>2
<1> HIDE DEF f, Seen, Distinct, start
<1>12. Scan(Scanning(stack), Tokens(Object(ms))) = Scan(Scan(start, f), close)
  BY <1>3, <1>5, <1>11, ScanEnclosed DEF start
<1>13. Scan(start, f).ok
  <2>1. ~Scan(start, f).ok => Scan(Scan(start, f), close) = Scan(start, f)
    BY <1>3, ScanStuck
  <2> QED
    BY <1>12, <2>1
<1>14. Scan(start, f) = Inside(Seen(n)) /\ Distinct(n)
  BY <1>10, <1>13 DEF f, start
<1>15. Seen(n) \in SUBSET Fields
  BY <1>14 DEF Distinct, Seen
<1>16. Scan(Inside(Seen(n)), close) = Consumed(Scanning(stack))
  BY <1>6, <1>15
<1> QED
  BY <1>12, <1>14, <1>16 DEF Distinct, n

\* Every value is scanned as one value.
LEMMA AllNeutral ==
  ASSUME NEW v \in Values
  PROVE  Neutral(Tokens(v))
<1> DEFINE T == {n \in 0..Nesting : \A w \in ValuesUpTo[n] : Neutral(Tokens(w))}
<1>1. Nesting \in Nat
  BY ConformanceAssumption DEF ConformanceAssumption
<1>2. ASSUME NEW n \in 0..Nesting, n > 0 => n - 1 \in T
      PROVE  n \in T
  <2> SUFFICES ASSUME NEW w \in ValuesUpTo[n], NEW stack, Awaits(stack),
                      Scan(Scanning(stack), Tokens(w)).ok
               PROVE  Scan(Scanning(stack), Tokens(w)) = Consumed(Scanning(stack))
    BY DEF Neutral
  <2>1. w \in Values
    BY AllLevels
  <2>2. ASSUME Tokens(w) = <<w>>, ~Is(w, "delim")
        PROVE  Scan(Scanning(stack), Tokens(w)) = Consumed(Scanning(stack))
    <3>1. KeysTurn(Scanning(stack), w) = Consumed(Scanning(stack))
      BY <2>2, Turns DEF Awaits
    <3> QED
      BY <2>2, <3>1, ScanOne
  <2>3. CASE (\E s \in Spellings : w = Str(s)) \/ (\E k \in Int : w = Num(k)) \/ w = Null
    <3>1. Tokens(w) = <<w>> /\ ~Is(w, "delim")
      BY <2>1, <2>3, TokensOf, Kinds
    <3> QED
      BY <2>2, <3>1
  <2>4. ASSUME n > 0, NEW vs \in Seq(ValuesUpTo[n - 1]), w = Array(vs)
        PROVE  Scan(Scanning(stack), Tokens(w)) = Consumed(Scanning(stack))
    <3>1. n - 1 \in T /\ n - 1 \in 0..Nesting
      BY <1>1, <1>2, <2>4
    <3>2. ValuesUpTo[n - 1] \subseteq Values
      BY <3>1, AllLevels
    <3>3. vs \in Seq(Values)
      BY <3>2, SeqMonotonic
    <3>4. \A i \in 1..Len(vs) : Neutral(Tokens(vs[i]))
      BY <3>1
    <3> HIDE DEF T
    <3> QED
      BY <2>1, <2>4, <3>3, <3>4, ArrayScan
  <2>5. ASSUME n > 0, NEW ms \in Seq(Members(ValuesUpTo[n - 1])), w = Object(ms)
        PROVE  Scan(Scanning(stack), Tokens(w)) = Consumed(Scanning(stack))
    <3>1. n - 1 \in T /\ n - 1 \in 0..Nesting
      BY <1>1, <1>2, <2>5
    <3>2. ValuesUpTo[n - 1] \subseteq Values
      BY <3>1, AllLevels
    <3>3. Members(ValuesUpTo[n - 1]) \subseteq Members(Values)
      BY <3>2 DEF Members
    <3>4. ms \in Seq(Members(Values))
      BY <3>3, SeqMonotonic
    <3>5. ASSUME NEW i \in 1..Len(ms)
          PROVE  Neutral(Tokens(ms[i].value))
      <4>1. ms[i] \in Members(ValuesUpTo[n - 1])
        OBVIOUS
      <4>2. ms[i].value \in ValuesUpTo[n - 1]
        BY <4>1 DEF Members
      <4> QED
        BY <3>1, <4>2
    <3> HIDE DEF T
    <3> QED
      BY <2>1, <2>5, <3>4, <3>5, ObjectScan
  <2> HIDE DEF T
  <2> QED
    BY <2>3, <2>4, <2>5, Shape
<1>3. T = 0..Nesting
  <2> HIDE DEF T
  <2>1. T \in SUBSET (0..Nesting)
    BY DEF T
  <2>2. 0 \in T /\ \A n \in 1..Nesting : n - 1 \in T => n \in T
    BY <1>1, <1>2
  <2> QED
    BY <1>1, <2>1, <2>2, InductUpTo
<1>4. Nesting \in T
  <2> HIDE DEF T
  <2> QED
    BY <1>1, <1>3
<1> QED
  BY <1>4 DEF Values

\* What passes consists of what passes, and names each field at most once.
LEMMA PassesInside ==
  /\ \A vs \in Seq(Values) : Array(vs) \in Values /\ Passes(Array(vs)) =>
       \A i \in 1..Len(vs) : Passes(vs[i])
  /\ \A ms \in Seq(Members(Values)) : Object(ms) \in Values /\ Passes(Object(ms)) =>
       /\ \A i \in 1..Len(ms) : Passes(ms[i].value) /\ ms[i].key \in Fields
       /\ \A i, j \in 1..Len(ms) : ms[i].key = ms[j].key => i = j
<1>1. ASSUME NEW vs \in Seq(Values), Array(vs) \in Values, Passes(Array(vs))
      PROVE  \A i \in 1..Len(vs) : Passes(vs[i])
  <2>1. PICK stack : Awaits(stack) /\ Scan(Scanning(stack), Tokens(Array(vs))).ok
    BY <1>1 DEF Passes
  <2>2. \A i \in 1..Len(vs) : Neutral(Tokens(vs[i]))
    BY AllNeutral
  <2> QED
    BY <1>1, <2>1, <2>2, ArrayScan
<1>2. ASSUME NEW ms \in Seq(Members(Values)), Object(ms) \in Values, Passes(Object(ms))
      PROVE  /\ \A i \in 1..Len(ms) : Passes(ms[i].value) /\ ms[i].key \in Fields
             /\ \A i, j \in 1..Len(ms) : ms[i].key = ms[j].key => i = j
  <2>1. PICK stack : Awaits(stack) /\ Scan(Scanning(stack), Tokens(Object(ms))).ok
    BY <1>2 DEF Passes
  <2>2. ASSUME NEW i \in 1..Len(ms)
        PROVE  Neutral(Tokens(ms[i].value))
    <3>1. ms[i] \in Members(Values)
      OBVIOUS
    <3> QED
      BY <3>1, AllNeutral DEF Members
  <2> QED
    BY <1>2, <2>1, <2>2, ObjectScan
<1> QED
  BY <1>1, <1>2

\* What checkKeys lets through passes.
LEMMA KeysChecked ==
  ASSUME NEW v, CheckKeys(Tokens(v))
  PROVE  Passes(v)
<1>1. Scan(Scanning(<<>>), Tokens(v)).ok
  BY DEF CheckKeys, Scan, Scanning
<1>2. Awaits(<<>>)
  BY DEF Awaits
<1> QED
  BY <1>1, <1>2 DEF Passes

\* The only sequence of one.
LEMMA FlattenOne ==
  ASSUME NEW S, NEW s \in Seq(S)
  PROVE  FlattenSeq(<<s>>) = s
<1> DEFINE ss == <<s>>
<1>1. ss \in Seq(Seq(S)) /\ Len(ss) = 1 /\ ss[1] = s
  OBVIOUS
<1> HIDE DEF ss
<1>2. PICK flat \in [0..1 -> Seq(S)] :
           flat[0] = <<>> /\ flat[1] = flat[0] \o ss[1] /\ flat[1] = FlattenSeq(ss)
  <2>1. PICK flat \in [0..Len(ss) -> Seq(S)] :
             /\ flat[0] = <<>>
             /\ \A k \in 1..Len(ss) : flat[k] = flat[k - 1] \o ss[k]
             /\ flat[Len(ss)] = FlattenSeq(ss)
    BY <1>1, Flattening
  <2>2. 1 \in 1..Len(ss) /\ 1 - 1 = 0
    BY <1>1
  <2> QED
    BY <1>1, <2>1, <2>2
<1>3. <<>> \o s = s
  BY ConcatEmptySeq
<1> QED
  BY <1>1, <1>2, <1>3 DEF ss

-----------------------------------------------------------------------------
(* checkEscapes.                                                           *)

\* How one finds out whether a place is escaped from the place before.
LEMMA UnescapedSteps ==
  ASSUME NEW s, NEW i \in Nat, i >= 1
  PROVE  /\ Unescaped(s, 1)
         /\ s[i] # "\\" => Unescaped(s, i + 1)
         /\ Unescaped(s, i) /\ s[i] = "\\" => ~Unescaped(s, i + 1)
         /\ Unescaped(s, i) /\ s[i] = "\\" => Unescaped(s, i + 2)
<1>1. Unescaped(s, 1)
  <2>1. 0 \in 0..(1 - 1) /\ 0 % 2 = 0 /\ 1 - 0 = 1 /\ \A j \in (1 - 0)..(1 - 1) : s[j] = "\\"
    OBVIOUS
  <2> QED
    BY <2>1 DEF Unescaped
<1>2. ASSUME NEW m \in Nat, m >= 1, s[m] # "\\"
      PROVE  Unescaped(s, m + 1)
  <2>1. 0 \in 0..((m + 1) - 1) /\ 0 % 2 = 0 /\ (m + 1) - 0 - 1 = m
        /\ \A j \in ((m + 1) - 0)..((m + 1) - 1) : s[j] = "\\"
    OBVIOUS
  <2> QED
    BY <1>2, <2>1 DEF Unescaped
<1>3. ASSUME Unescaped(s, i), s[i] = "\\", Unescaped(s, i + 1)
      PROVE  FALSE
  <2>1. PICK k \in 0..(i - 1) : /\ k % 2 = 0
                                /\ \A j \in (i - k)..(i - 1) : s[j] = "\\"
                                /\ i - k = 1 \/ s[i - k - 1] # "\\"
    BY <1>3 DEF Unescaped
  <2>2. PICK l \in 0..((i + 1) - 1) : /\ l % 2 = 0
                                      /\ \A j \in ((i + 1) - l)..((i + 1) - 1) : s[j] = "\\"
                                      /\ (i + 1) - l = 1 \/ s[(i + 1) - l - 1] # "\\"
    BY <1>3 DEF Unescaped
  <2>3. CASE l > k + 1
    <3>1. i - k # 1 /\ i - k - 1 \in ((i + 1) - l)..((i + 1) - 1)
      BY <2>3
    <3> QED
      BY <2>1, <2>2, <3>1
  <2>4. CASE l < k + 1
    <3>1. (i + 1) - l # 1 /\ (i + 1) - l - 1 = i - l /\ (i - l = i \/ i - l \in (i - k)..(i - 1))
      BY <2>4
    <3> QED
      BY <1>3, <2>1, <2>2, <3>1
  <2>5. CASE l = k + 1
    BY <2>1, <2>2, <2>5
  <2> QED
    BY <2>3, <2>4, <2>5
<1>4. ASSUME Unescaped(s, i), s[i] = "\\"
      PROVE  Unescaped(s, i + 2)
  <2>1. CASE s[i + 1] # "\\"
    <3>1. i + 1 \in Nat /\ i + 1 >= 1 /\ (i + 1) + 1 = i + 2
      OBVIOUS
    <3> QED
      BY <1>2, <2>1, <3>1
  <2>2. CASE s[i + 1] = "\\"
    <3>1. PICK k \in 0..(i - 1) : /\ k % 2 = 0
                                  /\ \A j \in (i - k)..(i - 1) : s[j] = "\\"
                                  /\ i - k = 1 \/ s[i - k - 1] # "\\"
      BY <1>4 DEF Unescaped
    <3>2. /\ k + 2 \in 0..((i + 2) - 1) /\ (k + 2) % 2 = 0
          /\ (i + 2) - (k + 2) = i - k
          /\ \A j \in (i - k)..((i + 2) - 1) : j \in (i - k)..(i - 1) \/ j = i \/ j = i + 1
      BY <3>1
    <3>3. \A j \in ((i + 2) - (k + 2))..((i + 2) - 1) : s[j] = "\\"
      BY <1>4, <2>2, <3>1, <3>2
    <3> QED
      BY <3>1, <3>2, <3>3 DEF Unescaped
  <2> QED
    BY <2>1, <2>2
<1> QED
  BY <1>1, <1>2, <1>3, <1>4

\* After anything but a backslash, the text begins anew.
LEMMA UnescapedWithin ==
  ASSUME NEW t, NEW q, NEW o \in Nat, o >= 1, NEW n \in Nat, t[o] # "\\",
         \A j \in 1..n : t[o + j] = q[j],
         NEW i \in 1..n
  PROVE  Unescaped(t, o + i) <=> Unescaped(q, i)
<1>1. ASSUME Unescaped(t, o + i)
      PROVE  Unescaped(q, i)
  <2>1. PICK k \in 0..((o + i) - 1) :
             /\ k % 2 = 0
             /\ \A j \in ((o + i) - k)..((o + i) - 1) : t[j] = "\\"
             /\ (o + i) - k = 1 \/ t[(o + i) - k - 1] # "\\"
    BY <1>1 DEF Unescaped
  <2>2. k <= i - 1
    <3> SUFFICES ASSUME k > i - 1 PROVE FALSE
      OBVIOUS
    <3>1. o \in ((o + i) - k)..((o + i) - 1)
      OBVIOUS
    <3> QED
      BY <2>1, <3>1
  <2>3. \A j \in (i - k)..(i - 1) : q[j] = "\\"
    <3> SUFFICES ASSUME NEW j \in (i - k)..(i - 1) PROVE q[j] = "\\"
      OBVIOUS
    <3>1. j \in 1..n /\ o + j \in ((o + i) - k)..((o + i) - 1)
      BY <2>2
    <3> QED
      BY <2>1, <3>1
  <2>4. i - k = 1 \/ q[i - k - 1] # "\\"
    <3> SUFFICES ASSUME i - k # 1 PROVE q[i - k - 1] # "\\"
      OBVIOUS
    <3>1. i - k - 1 \in 1..n /\ o + (i - k - 1) = (o + i) - k - 1 /\ (o + i) - k # 1
      BY <2>2
    <3> QED
      BY <2>1, <3>1
  <2> QED
    BY <2>1, <2>2, <2>3, <2>4 DEF Unescaped
<1>2. ASSUME Unescaped(q, i)
      PROVE  Unescaped(t, o + i)
  <2>1. PICK k \in 0..(i - 1) : /\ k % 2 = 0
                                /\ \A j \in (i - k)..(i - 1) : q[j] = "\\"
                                /\ i - k = 1 \/ q[i - k - 1] # "\\"
    BY <1>2 DEF Unescaped
  <2>2. k \in 0..((o + i) - 1)
    OBVIOUS
  <2>3. \A j \in ((o + i) - k)..((o + i) - 1) : t[j] = "\\"
    <3> SUFFICES ASSUME NEW j \in ((o + i) - k)..((o + i) - 1) PROVE t[j] = "\\"
      OBVIOUS
    <3>1. j - o \in 1..n /\ o + (j - o) = j /\ j - o \in (i - k)..(i - 1)
      BY <2>1
    <3> QED
      BY <2>1, <3>1
  <2>4. t[(o + i) - k - 1] # "\\"
    <3>1. CASE i - k = 1
      <4>1. (o + i) - k - 1 = o
        BY <3>1
      <4> QED
        BY <4>1
    <3>2. CASE i - k # 1
      <4>1. i - k - 1 \in 1..n /\ o + (i - k - 1) = (o + i) - k - 1
        BY <3>2
      <4> QED
        BY <2>1, <3>2, <4>1
    <3> QED
      BY <3>1, <3>2
  <2> QED
    BY <2>1, <2>2, <2>3, <2>4 DEF Unescaped
<1> QED
  BY <1>1, <1>2

\* The loop of checkEscapes.
LEMMA EscapesLoop ==
  ASSUME NEW text, Len(text) \in Nat
  PROVE  /\ EscapeTurns(text)[0] = [i |-> 1, ok |-> TRUE]
         /\ \A k \in 1..Len(text) :
              EscapeTurns(text)[k] = EscapeTurn(text, EscapeTurns(text)[k - 1])
<1> DEFINE N == Len(text)
           start == [i |-> 1, ok |-> TRUE]
           States == [i : Nat, ok : BOOLEAN]
           next == [b \in States |-> EscapeTurn(text, b)]
           Turn(x) == next[x]
           Unfolds(f, n) == f = [k \in 0..n |-> IF k = 0 THEN start ELSE Turn(f[k - 1])]
           T == {n \in 0..N : \E f : Unfolds(f, n)}
<1>1. N \in Nat /\ N = Len(text)
  OBVIOUS
<1> HIDE DEF N, Turn, start, next
<1>2. 0 \in T
  <2> DEFINE f == [k \in 0..0 |-> start]
  <2>1. Unfolds(f, 0)
    <3>1. \A k \in 0..0 : f[k] = IF k = 0 THEN start ELSE Turn(f[k - 1])
      OBVIOUS
    <3> QED
      BY <3>1
  <2> HIDE DEF Unfolds
  <2> QED
    BY <1>1, <2>1
<1>3. ASSUME NEW n \in 1..N, n - 1 \in T
      PROVE  n \in T
  <2>1. PICK f : Unfolds(f, n - 1)
    BY <1>3
  <2> DEFINE g == [k \in 0..n |-> IF k = n THEN Turn(f[n - 1]) ELSE f[k]]
  <2>2. \A k \in 0..n : g[k] = IF k = 0 THEN start ELSE Turn(g[k - 1])
    <3> SUFFICES ASSUME NEW k \in 0..n
                 PROVE  g[k] = IF k = 0 THEN start ELSE Turn(g[k - 1])
      OBVIOUS
    <3>1. CASE k = n
      BY <3>1
    <3>2. CASE k # n
      <4>1. k \in 0..(n - 1)
        BY <3>2
      <4>2. f[k] = IF k = 0 THEN start ELSE Turn(f[k - 1])
        BY <2>1, <4>1
      <4>3. k # 0 => g[k - 1] = f[k - 1]
        BY <4>1
      <4> QED
        BY <4>1, <4>2, <4>3
    <3> QED
      BY <3>1, <3>2
  <2>3. Unfolds(g, n)
    <3> DEFINE h == [k \in 0..n |-> IF k = 0 THEN start ELSE Turn(g[k - 1])]
    <3>1. \A k \in 0..n : g[k] = h[k]
      BY <2>2
    <3>2. g = h
      BY <3>1
    <3> QED
      BY <3>2
  <2> HIDE DEF Unfolds, g
  <2> QED
    BY <2>3
<1>4. T = 0..N
  <2> HIDE DEF T
  <2>1. T \in SUBSET (0..N)
    BY DEF T
  <2> QED
    BY <1>1, <1>2, <1>3, <2>1, InductUpTo
<1> DEFINE turn == CHOOSE f : Unfolds(f, N)
<1>5. Unfolds(turn, N)
  <2>1. \E f : Unfolds(f, N)
    BY <1>1, <1>4
  <2> QED
    BY <2>1, Zenon
<1>6. EscapeTurns(text) = turn
  BY Zenon DEF EscapeTurns, N, Turn, start, next
<1> HIDE DEF turn
<1> DEFINE h == [k \in 0..N |-> IF k = 0 THEN start ELSE Turn(turn[k - 1])]
<1>7. \A k \in 0..N : h[k] = IF k = 0 THEN start ELSE Turn(turn[k - 1])
  OBVIOUS
<1>8. turn = h
  BY <1>5
<1> HIDE DEF h
<1>9. turn[0] = start
  BY <1>1, <1>7, <1>8
<1>10. ASSUME NEW k \in 1..N
       PROVE  turn[k] = Turn(turn[k - 1])
  BY <1>1, <1>7, <1>8
<1>11. ASSUME NEW b \in States
       PROVE  next[b] = EscapeTurn(text, b) /\ EscapeTurn(text, b) \in States
  <2>1. \A j \in Nat : [i |-> j, ok |-> TRUE] \in States /\ [i |-> j, ok |-> FALSE] \in States
    OBVIOUS
  <2>2. b.i \in Nat /\ b.i + 1 \in Nat /\ b.i + 2 \in Nat /\ b.i + 3 \in Nat /\ b.i + 6 \in Nat
    OBVIOUS
  <2>3. EscapeTurn(text, b) \in States
    <3> HIDE DEF States
    <3> QED
      BY <2>1, <2>2 DEF EscapeTurn
  <2> QED
    BY <2>3 DEF next
<1> HIDE DEF States
<1> DEFINE P == {k \in 0..N : turn[k] \in States}
<1>12. 0 \in P
  <2>1. start \in States
    BY DEF start, States
  <2> QED
    BY <1>1, <1>9, <2>1
<1>13. ASSUME NEW n \in 1..N, n - 1 \in P
       PROVE  n \in P
  BY <1>10, <1>11, <1>13 DEF Turn
<1>14. P = 0..N
  <2>1. P \in SUBSET (0..N)
    OBVIOUS
  <2> HIDE DEF P
  <2> QED
    BY <1>1, <1>12, <1>13, <2>1, InductUpTo
<1>15. \A k \in 1..N : turn[k - 1] \in States
  BY <1>1, <1>14
<1> QED
  BY <1>1, <1>6, <1>9, <1>10, <1>11, <1>15 DEF Turn, start

\* Surrogates come in pairs before place i.
Paired(text, i) ==
  \A g \in 1..Len(text) : g < i =>
    /\ EscapeAt(text, g, "HI") => EscapeAt(text, g + 3, "LO")
    /\ EscapeAt(text, g, "LO") => g > 3 /\ EscapeAt(text, g - 3, "HI")

\* One turn goes on after what it has looked at.
LEMMA EscapeStep ==
  ASSUME NEW S, NEW text \in Seq(S), NEW b, b.ok, b.i \in Nat, b.i >= 1, b.i <= Len(text),
         Unescaped(text, b.i), Paired(text, b.i), EscapeTurn(text, b).ok
  PROVE  LET after == EscapeTurn(text, b).i
         IN after \in Nat /\ after > b.i /\ Unescaped(text, after) /\ Paired(text, after)
<1> DEFINE i == b.i
           N == Len(text)
           fail == [i |-> i, ok |-> FALSE]
           GoOn(j) == [i |-> j, ok |-> TRUE]
           Good(j) == j \in Nat /\ j > i /\ Unescaped(text, j) /\ Paired(text, j)
<1>1. i \in Nat /\ i >= 1 /\ i <= N /\ N \in Nat /\ N = Len(text) /\ DOMAIN text = 1..N
  OBVIOUS
<1>2. Unescaped(text, i) /\ Paired(text, i) /\ b.ok /\ ~(i > N)
  BY <1>1
<1>3. ~fail.ok /\ \A j : GoOn(j).i = j
  OBVIOUS
<1>4. EscapeTurn(text, b) =
        CASE text[i] # "\\" -> GoOn(i + 1)
          [] Unicode(text, i, "LO") -> fail
          [] Unicode(text, i, "HI") -> IF Unicode(text, i + 3, "LO") THEN GoOn(i + 6) ELSE fail
          [] Unicode(text, i, "BMP") -> GoOn(i + 3)
          [] OTHER -> GoOn(i + 2)
  BY <1>2, Zenon DEF EscapeTurn
<1> HIDE DEF i, N, fail, GoOn
<1>5. /\ text[i] # "\\" => ~Unicode(text, i, "LO") /\ ~Unicode(text, i, "HI") /\ ~Unicode(text, i, "BMP")
      /\ Unicode(text, i, "LO") => ~Unicode(text, i, "HI") /\ ~Unicode(text, i, "BMP")
      /\ Unicode(text, i, "HI") => ~Unicode(text, i, "BMP")
  BY DEF Unicode
<1>6. /\ text[i] # "\\" => EscapeTurn(text, b) = GoOn(i + 1)
      /\ Unicode(text, i, "LO") => EscapeTurn(text, b) = fail
      /\ Unicode(text, i, "HI") /\ Unicode(text, i + 3, "LO") => EscapeTurn(text, b) = GoOn(i + 6)
      /\ Unicode(text, i, "HI") /\ ~Unicode(text, i + 3, "LO") => EscapeTurn(text, b) = fail
      /\ Unicode(text, i, "BMP") => EscapeTurn(text, b) = GoOn(i + 3)
      /\ text[i] = "\\" /\ ~Unicode(text, i, "LO") /\ ~Unicode(text, i, "HI") /\ ~Unicode(text, i, "BMP")
           => EscapeTurn(text, b) = GoOn(i + 2)
  BY <1>4, <1>5
<1>7. \A g : EscapeAt(text, g, "HI") \/ EscapeAt(text, g, "LO") => text[g] = "\\" /\ Unescaped(text, g)
  BY DEF EscapeAt, StartsEscape
<1>8. \A m \in Nat : m >= 1 =>
        /\ text[m] # "\\" => Unescaped(text, m + 1)
        /\ Unescaped(text, m) /\ text[m] = "\\" => ~Unescaped(text, m + 1) /\ Unescaped(text, m + 2)
  BY UnescapedSteps
<1>9. CASE text[i] # "\\"
  <2>1. Unescaped(text, i + 1)
    BY <1>1, <1>8, <1>9
  <2>2. Paired(text, i + 1)
    BY <1>1, <1>2, <1>7, <1>9 DEF Paired, N
  <2>3. Good(i + 1)
    BY <1>1, <2>1, <2>2
  <2> QED
    BY <1>3, <1>6, <1>9, <2>3 DEF i
<1>10. CASE Unicode(text, i, "HI") /\ Unicode(text, i + 3, "LO")
  <2>1. /\ text[i] = "\\" /\ text[i + 1] = "u" /\ text[i + 2] = "HI"
        /\ text[i + 3] = "\\" /\ text[i + 4] = "u" /\ text[i + 5] = "LO" /\ i + 5 <= N
    BY <1>1, <1>10 DEF Unicode, N
  <2>2. Unescaped(text, i + 3) /\ Unescaped(text, i + 6)
    BY <1>1, <1>8, <2>1
  <2>3. EscapeAt(text, i, "HI") /\ EscapeAt(text, i + 3, "LO")
    BY <1>1, <1>2, <1>10, <2>1, <2>2 DEF EscapeAt, StartsEscape
  <2>4. ~EscapeAt(text, i, "LO") /\ ~EscapeAt(text, i + 3, "HI")
    BY <1>1, <2>1 DEF EscapeAt, Unicode
  <2>5. ASSUME NEW g \in 1..N, g < i + 6
        PROVE  /\ EscapeAt(text, g, "HI") => EscapeAt(text, g + 3, "LO")
               /\ EscapeAt(text, g, "LO") => g > 3 /\ EscapeAt(text, g - 3, "HI")
    <3>1. CASE g < i
      BY <1>2, <3>1 DEF Paired, N
    <3>2. CASE g = i
      BY <2>3, <2>4, <3>2
    <3>3. CASE g = i + 3
      <4>1. g > 3 /\ g - 3 = i
        BY <1>1, <3>3
      <4> QED
        BY <2>3, <2>4, <3>3, <4>1
    <3>4. CASE g \in {i + 1, i + 2, i + 4, i + 5}
      BY <1>7, <2>1, <3>4
    <3> QED
      BY <1>1, <2>5, <3>1, <3>2, <3>3, <3>4
  <2>6. Paired(text, i + 6)
    BY <2>5 DEF Paired, N
  <2>7. Good(i + 6)
    BY <1>1, <2>2, <2>6
  <2> QED
    BY <1>3, <1>6, <1>10, <2>7 DEF i
<1>11. CASE Unicode(text, i, "BMP")
  <2>1. text[i] = "\\" /\ text[i + 1] = "u" /\ text[i + 2] = "BMP" /\ i + 2 <= N
    BY <1>11 DEF Unicode, N
  <2>2. Unescaped(text, i + 3)
    BY <1>1, <1>8, <2>1
  <2>3. ~EscapeAt(text, i, "LO") /\ ~EscapeAt(text, i, "HI")
    BY <2>1 DEF EscapeAt, Unicode
  <2>4. ASSUME NEW g \in 1..N, g < i + 3
        PROVE  /\ EscapeAt(text, g, "HI") => EscapeAt(text, g + 3, "LO")
               /\ EscapeAt(text, g, "LO") => g > 3 /\ EscapeAt(text, g - 3, "HI")
    <3>1. CASE g < i
      BY <1>2, <3>1 DEF Paired, N
    <3>2. CASE g = i
      BY <2>3, <3>2
    <3>3. CASE g \in {i + 1, i + 2}
      BY <1>7, <2>1, <3>3
    <3> QED
      BY <1>1, <2>4, <3>1, <3>2, <3>3
  <2>5. Paired(text, i + 3)
    BY <2>4 DEF Paired, N
  <2>6. Good(i + 3)
    BY <1>1, <2>2, <2>5
  <2> QED
    BY <1>3, <1>6, <1>11, <2>6 DEF i
<1>12. CASE text[i] = "\\" /\ ~Unicode(text, i, "LO") /\ ~Unicode(text, i, "HI") /\ ~Unicode(text, i, "BMP")
  <2>1. Unescaped(text, i + 2) /\ ~Unescaped(text, i + 1)
    BY <1>1, <1>2, <1>8, <1>12
  <2>2. ~EscapeAt(text, i, "LO") /\ ~EscapeAt(text, i, "HI")
    BY <1>12 DEF EscapeAt
  <2>3. ASSUME NEW g \in 1..N, g < i + 2
        PROVE  /\ EscapeAt(text, g, "HI") => EscapeAt(text, g + 3, "LO")
               /\ EscapeAt(text, g, "LO") => g > 3 /\ EscapeAt(text, g - 3, "HI")
    <3>1. CASE g < i
      BY <1>2, <3>1 DEF Paired, N
    <3>2. CASE g = i
      BY <2>2, <3>2
    <3>3. CASE g = i + 1
      BY <1>7, <2>1, <3>3
    <3> QED
      BY <1>1, <2>3, <3>1, <3>2, <3>3
  <2>4. Paired(text, i + 2)
    BY <2>3 DEF Paired, N
  <2>5. Good(i + 2)
    BY <1>1, <2>1, <2>4
  <2> QED
    BY <1>3, <1>6, <1>12, <2>5 DEF i
<1>13. CASE Unicode(text, i, "LO") \/ (Unicode(text, i, "HI") /\ ~Unicode(text, i + 3, "LO"))
  BY <1>3, <1>6, <1>13
<1> QED
  BY <1>9, <1>10, <1>11, <1>12, <1>13

\* What checkEscapes lets through has its surrogates in pairs.
LEMMA EscapesChecked ==
  ASSUME NEW S, NEW text \in Seq(S), CheckEscapes(text)
  PROVE  Paired(text, Len(text) + 1)
<1> DEFINE N == Len(text)
           turn == EscapeTurns(text)
           Good(k) == turn[k].ok =>
                        /\ turn[k].i \in Nat /\ turn[k].i >= 1
                        /\ turn[k].i > N \/ turn[k].i > k
                        /\ Unescaped(text, turn[k].i) /\ Paired(text, turn[k].i)
           T == {k \in 0..N : Good(k)}
<1>1. N \in Nat /\ N = Len(text)
  OBVIOUS
<1>2. turn[0] = [i |-> 1, ok |-> TRUE] /\ \A k \in 1..N : turn[k] = EscapeTurn(text, turn[k - 1])
  BY <1>1, EscapesLoop
<1>3. turn[N].ok
  BY DEF CheckEscapes
<1> HIDE DEF turn, N
<1>4. Good(0)
  <2>1. turn[0].i = 1
    BY <1>2
  <2>2. Unescaped(text, 1)
    BY UnescapedSteps
  <2>3. Paired(text, 1)
    BY DEF Paired
  <2> QED
    BY <2>1, <2>2, <2>3
<1>5. ASSUME NEW k \in 1..N, Good(k - 1)
      PROVE  Good(k)
  <2> DEFINE b == turn[k - 1]
  <2>1. turn[k] = EscapeTurn(text, b)
    BY <1>2
  <2> SUFFICES ASSUME turn[k].ok PROVE Good(k)
    OBVIOUS
  <2>2. CASE ~b.ok \/ b.i > N
    <3>1. turn[k] = b
      BY <2>1, <2>2 DEF EscapeTurn, N
    <3> QED
      BY <1>5, <2>2, <3>1
  <2>3. CASE b.ok /\ ~(b.i > N)
    <3>1. b.i \in Nat /\ b.i >= 1 /\ b.i > k - 1 /\ Unescaped(text, b.i) /\ Paired(text, b.i)
      BY <1>5, <2>3
    <3>2. b.i <= Len(text)
      BY <1>1, <2>3, <3>1
    <3>3. /\ turn[k].i \in Nat /\ turn[k].i > b.i
          /\ Unescaped(text, turn[k].i) /\ Paired(text, turn[k].i)
      <4> HIDE DEF b
      <4> QED
        BY <2>1, <2>3, <3>1, <3>2, EscapeStep
    <3> QED
      BY <1>1, <3>1, <3>3
  <2> QED
    BY <2>2, <2>3
<1>6. T = 0..N
  <2> HIDE DEF Good
  <2>1. 0 \in T /\ T \in SUBSET (0..N) /\ \A k \in 1..N : k - 1 \in T => k \in T
    BY <1>1, <1>4, <1>5
  <2> HIDE DEF T
  <2> QED
    BY <1>1, <2>1, InductUpTo
<1>7. Good(N)
  <2> HIDE DEF Good
  <2>1. N \in T
    <3> HIDE DEF T
    <3> QED
      BY <1>1, <1>6
  <2> QED
    BY <2>1
<1>8. turn[N].i \in Nat /\ turn[N].i > N /\ Paired(text, turn[N].i)
  BY <1>3, <1>7
<1> QED
  BY <1>1, <1>8 DEF Paired, N

\* A string of n symbols stands in quotes after place o.
Quoted(text, o, q, n) ==
  /\ o \in Nat /\ o >= 1 /\ n \in Nat /\ o + n + 1 <= Len(text)
  /\ text[o] = "quote" /\ text[o + n + 1] = "quote"
  /\ \A j \in 1..n : text[o + j] = q[j]

\* A string of the file has its own escapes and no others.
LEMMA EscapesWithin ==
  ASSUME NEW S, NEW text \in Seq(S), NEW q \in Seq(S), NEW o, Quoted(text, o, q, Len(q)),
         NEW d \in {"HI", "LO"}
  PROVE  /\ \A g \in 1..Len(q) : EscapeAt(text, o + g, d) <=> EscapeAt(q, g, d)
         /\ ~EscapeAt(text, o + Len(q) + 1, d)
         /\ \A g \in (o - 2)..o : ~EscapeAt(text, g, d)
<1> DEFINE n == Len(q)
           N == Len(text)
<1>1. /\ n \in Nat /\ n = Len(q) /\ N \in Nat /\ N = Len(text)
      /\ DOMAIN text = 1..N /\ DOMAIN q = 1..n
  OBVIOUS
<1>2. /\ o \in Nat /\ o >= 1 /\ o + n + 1 <= N
      /\ text[o] = "quote" /\ text[o + n + 1] = "quote"
      /\ \A j \in 1..n : text[o + j] = q[j]
  BY DEF Quoted
<1> HIDE DEF n, N
<1>3. d # "quote" /\ d # "u" /\ d # "\\"
  OBVIOUS
<1>4. ASSUME NEW g \in 1..n
      PROVE  EscapeAt(text, o + g, d) <=> EscapeAt(q, g, d)
  <2>1. text[o + g] = q[g] /\ o + g \in 1..N
    BY <1>1, <1>2
  <2>2. Unescaped(text, o + g) <=> Unescaped(q, g)
    <3>1. text[o] # "\\"
      BY <1>2
    <3> QED
      BY <1>1, <1>2, <3>1, UnescapedWithin
  <2>3. ASSUME Unicode(text, o + g, d)
        PROVE  Unicode(q, g, d)
    <3>1. /\ text[o + g] = "\\" /\ text[(o + g) + 1] = "u" /\ text[(o + g) + 2] = d
      BY <2>3 DEF Unicode
    <3>2. g # n
      <4> SUFFICES ASSUME g = n PROVE FALSE
        OBVIOUS
      <4>1. (o + g) + 1 = o + n + 1
        BY <1>1, <1>2
      <4> QED
        BY <1>2, <3>1, <4>1
    <3>3. g # n - 1
      <4> SUFFICES ASSUME g = n - 1 PROVE FALSE
        OBVIOUS
      <4>1. (o + g) + 2 = o + n + 1
        BY <1>1, <1>2
      <4> QED
        BY <1>2, <1>3, <3>1, <4>1
    <3>4. g + 2 <= n /\ g + 1 \in 1..n /\ g + 2 \in 1..n
          /\ o + (g + 1) = (o + g) + 1 /\ o + (g + 2) = (o + g) + 2
      BY <1>1, <1>2, <3>2, <3>3
    <3>5. q[g] = "\\" /\ q[g + 1] = "u" /\ q[g + 2] = d
      BY <1>2, <2>1, <3>1, <3>4
    <3> QED
      BY <1>1, <3>4, <3>5 DEF Unicode
  <2>4. ASSUME Unicode(q, g, d)
        PROVE  Unicode(text, o + g, d)
    <3>1. g + 2 <= n /\ q[g] = "\\" /\ q[g + 1] = "u" /\ q[g + 2] = d
      BY <1>1, <2>4 DEF Unicode
    <3>2. g + 1 \in 1..n /\ g + 2 \in 1..n /\ o + (g + 1) = (o + g) + 1 /\ o + (g + 2) = (o + g) + 2
      BY <1>1, <1>2, <3>1
    <3>3. text[(o + g) + 1] = "u" /\ text[(o + g) + 2] = d /\ (o + g) + 2 <= N
      BY <1>1, <1>2, <3>1, <3>2
    <3> QED
      BY <1>1, <2>1, <3>1, <3>3 DEF Unicode
  <2> QED
    BY <1>1, <2>1, <2>2, <2>3, <2>4 DEF EscapeAt, StartsEscape
<1>5. ~EscapeAt(text, o + n + 1, d)
  BY <1>2 DEF EscapeAt, StartsEscape
<1>6. ASSUME NEW g \in (o - 2)..o, EscapeAt(text, g, d)
      PROVE  FALSE
  <2>1. text[g] = "\\" /\ text[g + 1] = "u" /\ text[g + 2] = d
    BY <1>6 DEF EscapeAt, Unicode
  <2>2. g = o \/ g + 1 = o \/ g + 2 = o
    BY <1>2
  <2> QED
    BY <1>2, <1>3, <2>1, <2>2
<1> QED
  BY <1>1, <1>4, <1>5, <1>6

\* No surrogate of a string of the file is alone.
LEMMA NoneLone ==
  ASSUME NEW S, NEW text \in Seq(S), NEW q \in Seq(S), NEW o, Quoted(text, o, q, Len(q)),
         ValidUTF8(text), CheckEscapes(text), NEW i \in 1..Len(q)
  PROVE  ~Lone(q, i)
<1> DEFINE n == Len(q)
           N == Len(text)
<1>1. n \in Nat /\ n = Len(q) /\ N \in Nat /\ N = Len(text) /\ DOMAIN text = 1..N /\ i \in 1..n
  OBVIOUS
<1>2. /\ o \in Nat /\ o >= 1 /\ o + n + 1 <= N
      /\ \A j \in 1..n : text[o + j] = q[j]
  BY DEF Quoted
<1>3. /\ \A d \in {"HI", "LO"} :
           /\ \A g \in 1..n : EscapeAt(text, o + g, d) <=> EscapeAt(q, g, d)
           /\ ~EscapeAt(text, o + n + 1, d)
           /\ \A g \in (o - 2)..o : ~EscapeAt(text, g, d)
  BY EscapesWithin
<1>4. \A g \in 1..N :
        /\ EscapeAt(text, g, "HI") => EscapeAt(text, g + 3, "LO")
        /\ EscapeAt(text, g, "LO") => g > 3 /\ EscapeAt(text, g - 3, "HI")
  <2>1. Paired(text, N + 1)
    BY EscapesChecked
  <2> QED
    BY <1>1, <2>1 DEF Paired
<1> HIDE DEF n, N
<1>5. q[i] # "BAD"
  <2>1. o + i \in 1..N /\ text[o + i] = q[i]
    BY <1>1, <1>2
  <2>2. text[o + i] \in Range(text)
    BY <1>1, <2>1 DEF Range
  <2> QED
    BY <2>1, <2>2 DEF ValidUTF8
<1>6. ASSUME i > 2, EscapeAt(q, i - 2, "HI")
      PROVE  EscapeAt(q, i + 1, "LO")
  <2>1. i - 2 \in 1..n /\ o + (i - 2) \in 1..N /\ (o + (i - 2)) + 3 = o + (i + 1)
    BY <1>1, <1>2, <1>6
  <2>2. EscapeAt(text, o + (i + 1), "LO")
    BY <1>3, <1>4, <1>6, <2>1
  <2>3. i # n
    <3> SUFFICES ASSUME i = n PROVE FALSE
      OBVIOUS
    <3>1. o + (i + 1) = o + n + 1
      BY <1>1, <1>2
    <3> QED
      BY <1>3, <2>2, <3>1
  <2>4. i + 1 \in 1..n
    BY <1>1, <2>3
  <2> QED
    BY <1>3, <2>2, <2>4
<1>7. ASSUME i > 2, EscapeAt(q, i - 2, "LO")
      PROVE  i > 5 /\ EscapeAt(q, i - 5, "HI")
  <2>1. i - 2 \in 1..n /\ o + (i - 2) \in 1..N /\ (o + (i - 2)) - 3 = o + (i - 5)
    BY <1>1, <1>2, <1>7
  <2>2. EscapeAt(text, o + (i - 5), "HI")
    BY <1>3, <1>4, <1>7, <2>1
  <2>3. i > 5
    <3> SUFFICES ASSUME i <= 5 PROVE FALSE
      BY <1>1
    <3>1. o + (i - 5) \in (o - 2)..o
      BY <1>1, <1>2, <1>7
    <3> QED
      BY <1>3, <2>2, <3>1
  <2>4. i - 5 \in 1..n
    BY <1>1, <2>3
  <2> QED
    BY <1>3, <2>2, <2>3, <2>4
<1>8. ~(i <= 5) \/ ~(i > 5)
  BY <1>1
<1> QED
  BY <1>1, <1>5, <1>6, <1>7, <1>8 DEF Lone

\* The text of some tokens.
TextOf(tokens) == FlattenSeq([i \in DOMAIN tokens |-> Spelled(tokens[i])])

\* What the text is made of.
Characters == Symbols \cup Keys \cup {"quote", ","}

\* Each string among the tokens stands in the text, in quotes, with commas around.
LEMMA TextQuotes ==
  ASSUME NEW tokens \in Seq(AllTokens)
  PROVE  /\ TextOf(tokens) \in Seq(Characters)
         /\ \A k \in 1..Len(tokens) : Is(tokens[k], "str") =>
              /\ tokens[k].str \in Seq(Characters)
              /\ \E o : Quoted(TextOf(tokens), o, tokens[k].str, Len(tokens[k].str))
         /\ \A g \in 1..Len(TextOf(tokens)) :
              \/ TextOf(tokens)[g] \in {"quote", ","}
              \/ \E k \in 1..Len(tokens) : \E o :
                   /\ Is(tokens[k], "str") /\ Quoted(TextOf(tokens), o, tokens[k].str, Len(tokens[k].str))
                   /\ \E j \in 1..Len(tokens[k].str) : g = o + j
<1> DEFINE n == Len(tokens)
           ss == [i \in 1..n |-> Spelled(tokens[i])]
           text == TextOf(tokens)
<1>1. n \in Nat /\ DOMAIN tokens = 1..n /\ n = Len(tokens)
  OBVIOUS
<1>2. ASSUME NEW x \in AllTokens, Is(x, "str")
      PROVE  x.str \in Seq(Characters)
  <2>1. PICK s \in Seq(Symbols \cup Keys) : x = Str(s)
    <3>1. \/ \E s \in Seq(Symbols \cup Keys) : x = Str(s)
          \/ \E k \in Int : x = Num(k)
          \/ x = Null
          \/ \E d \in {"{", "}", "[", "]"} : x = Delim(d)
      BY DEF AllTokens, Str, Num, Null, Delim
    <3> QED
      BY <1>2, <3>1, Kinds
  <2>2. Seq(Symbols \cup Keys) \subseteq Seq(Characters)
    <3>1. Symbols \cup Keys \subseteq Characters
      BY DEF Characters
    <3> QED
      BY <3>1, SeqMonotonic
  <2> QED
    BY <2>1, <2>2, Contents
<1>3. <<"quote">> \in Seq(Characters) /\ Len(<<"quote">>) = 1 /\ <<"quote">>[1] = "quote" /\ <<",">> \in Seq(Characters)
  BY DEF Characters
<1>4. ASSUME NEW q \in Seq(Characters)
      PROVE  LET s == <<"quote">> \o q \o <<"quote">>
             IN /\ s \in Seq(Characters) /\ Len(s) = Len(q) + 2
                /\ s[1] = "quote" /\ s[Len(q) + 2] = "quote"
                /\ \A j \in 1..Len(q) : s[1 + j] = q[j]
  <2> DEFINE a == <<"quote">>
             m == Len(q)
  <2>0. m \in Nat /\ m = Len(q)
    OBVIOUS
  <2>01. a \in Seq(Characters) /\ Len(a) = 1 /\ a[1] = "quote"
    BY <1>3
  <2> HIDE DEF a, m
  <2>1. a \in Seq(Characters) /\ Len(a) = 1 /\ a[1] = "quote" /\ m \in Nat /\ m = Len(q)
    BY <2>0, <2>01
  <2>2. /\ a \o q \in Seq(Characters) /\ Len(a \o q) = 1 + m
        /\ \A i \in 1..(1 + m) : (a \o q)[i] = IF i <= 1 THEN a[i] ELSE q[i - 1]
    <3>1. /\ a \o q \in Seq(Characters) /\ Len(a \o q) = Len(a) + Len(q)
          /\ \A i \in 1..(Len(a) + Len(q)) : (a \o q)[i] = IF i <= Len(a) THEN a[i] ELSE q[i - Len(a)]
      BY <2>1, ConcatProperties
    <3> QED
      BY <2>1, <3>1
  <2> DEFINE b == a \o q
  <2>3. b \in Seq(Characters) /\ Len(b) = 1 + m /\ b[1] = "quote" /\ \A j \in 1..m : b[1 + j] = q[j]
    <3>1. 1 \in 1..(1 + m) /\ 1 <= 1
      BY <2>1
    <3>2. ASSUME NEW j \in 1..m
          PROVE  b[1 + j] = q[j]
      <4>1. 1 + j \in 1..(1 + m) /\ ~(1 + j <= 1) /\ (1 + j) - 1 = j
        BY <2>1
      <4> QED
        BY <2>2, <4>1
    <3> QED
      BY <2>1, <2>2, <3>1, <3>2
  <2> HIDE DEF b
  <2>4. /\ b \o a \in Seq(Characters) /\ Len(b \o a) = (1 + m) + 1
        /\ \A i \in 1..((1 + m) + 1) : (b \o a)[i] = IF i <= 1 + m THEN b[i] ELSE a[i - (1 + m)]
    <3>1. /\ b \o a \in Seq(Characters) /\ Len(b \o a) = Len(b) + Len(a)
          /\ \A i \in 1..(Len(b) + Len(a)) : (b \o a)[i] = IF i <= Len(b) THEN b[i] ELSE a[i - Len(b)]
      BY <2>1, <2>3, ConcatProperties
    <3> QED
      BY <2>1, <2>3, <3>1
  <2>5. (b \o a)[1] = "quote" /\ (b \o a)[m + 2] = "quote" /\ Len(b \o a) = m + 2
    <3>1. /\ 1 \in 1..((1 + m) + 1) /\ 1 <= 1 + m /\ m + 2 \in 1..((1 + m) + 1) /\ ~(m + 2 <= 1 + m)
          /\ (m + 2) - (1 + m) = 1 /\ (1 + m) + 1 = m + 2
      BY <2>1
    <3> QED
      BY <2>1, <2>3, <2>4, <3>1
  <2>6. ASSUME NEW j \in 1..m
        PROVE  (b \o a)[1 + j] = q[j]
    <3>1. 1 + j \in 1..((1 + m) + 1) /\ 1 + j <= 1 + m
      BY <2>1
    <3> QED
      BY <2>3, <2>4, <3>1
  <2> QED
    BY <2>1, <2>4, <2>5, <2>6 DEF a, b, m
<1>5. ASSUME NEW x \in AllTokens
      PROVE  Spelled(x) \in Seq(Characters)
  BY <1>2, <1>3, <1>4 DEF Spelled
<1>6. ss \in Seq(Seq(Characters)) /\ Len(ss) = n /\ text = FlattenSeq(ss)
  <2>1. ss \in [1..n -> Seq(Characters)]
    BY <1>5
  <2>2. text = FlattenSeq(ss)
    BY <1>1 DEF TextOf
  <2> HIDE DEF ss
  <2> QED
    BY <1>1, <2>1, <2>2
<1>7. \A k \in 1..n : ss[k] = Spelled(tokens[k])
  OBVIOUS
<1> HIDE DEF ss, text, n
<1>8. text \in Seq(Characters)
  BY <1>6, Flattened
<1>9. PICK off : Joins(ss, text, off)
  BY <1>6, Flattened
<1>10. ASSUME NEW k \in 1..n, Is(tokens[k], "str")
       PROVE  /\ tokens[k].str \in Seq(Characters)
              /\ Quoted(text, off[k - 1] + 1, tokens[k].str, Len(tokens[k].str))
              /\ Len(ss[k]) = Len(tokens[k].str) + 2 /\ Len(tokens[k].str) \in Nat
  <2> DEFINE q == tokens[k].str
             m == Len(q)
             p == off[k - 1]
             s == ss[k]
  <2>1. q \in Seq(Characters) /\ m \in Nat
    <3>1. tokens[k] \in AllTokens
      BY DEF n
    <3>2. q \in Seq(Characters)
      BY <1>2, <1>10, <3>1
    <3> QED
      BY <3>2
  <2>2. s = <<"quote">> \o q \o <<"quote">>
    BY <1>7, <1>10 DEF Spelled
  <2>3. Len(s) = m + 2 /\ s[1] = "quote" /\ s[m + 2] = "quote" /\ \A j \in 1..m : s[1 + j] = q[j]
    <3> HIDE DEF q
    <3> QED
      BY <1>4, <2>1, <2>2
  <2>4. p \in Nat /\ p + Len(s) <= Len(text) /\ \A i \in 1..Len(s) : text[p + i] = s[i]
    <3>1. k - 1 \in 0..Len(ss) /\ k \in 1..Len(ss)
      BY <1>1, <1>6
    <3> QED
      BY <1>9, <3>1 DEF Joins
  <2> HIDE DEF q, m, p, s
  <2>5. 1 \in 1..Len(s) /\ m + 2 \in 1..Len(s) /\ p + (m + 2) = (p + 1) + m + 1
        /\ \A j \in 1..m : 1 + j \in 1..Len(s) /\ p + (1 + j) = (p + 1) + j
    BY <2>1, <2>3, <2>4
  <2>6. Quoted(text, p + 1, q, m)
    <3>1. text[p + 1] = "quote" /\ text[(p + 1) + m + 1] = "quote"
      BY <2>3, <2>4, <2>5
    <3>2. \A j \in 1..m : text[(p + 1) + j] = q[j]
      BY <2>3, <2>4, <2>5
    <3>3. p + 1 \in Nat /\ p + 1 >= 1 /\ m \in Nat /\ (p + 1) + m + 1 <= Len(text)
      BY <2>1, <2>3, <2>4
    <3> QED
      BY <3>1, <3>2, <3>3 DEF Quoted
  <2> QED
    BY <2>1, <2>3, <2>6 DEF q, m, p, s
<1>11. ASSUME NEW g \in 1..Len(text), text[g] \notin {"quote", ","}
       PROVE  \E k \in 1..n : \E o :
                /\ Is(tokens[k], "str") /\ Quoted(text, o, tokens[k].str, Len(tokens[k].str))
                /\ \E j \in 1..Len(tokens[k].str) : g = o + j
  <2>1. PICK k \in 1..n : \E i \in 1..Len(ss[k]) : g = off[k - 1] + i
    BY <1>6, <1>9 DEF Joins
  <2>2. PICK i \in 1..Len(ss[k]) : g = off[k - 1] + i
    BY <2>1
  <2>3. /\ off[k - 1] \in Nat /\ off[k - 1] + Len(ss[k]) <= Len(text)
        /\ text[off[k - 1] + i] = ss[k][i]
    <3>1. k - 1 \in 0..Len(ss) /\ k \in 1..Len(ss)
      BY <1>1, <1>6
    <3> QED
      BY <1>9, <3>1 DEF Joins
  <2>4. Is(tokens[k], "str")
    <3> SUFFICES ASSUME ~Is(tokens[k], "str") PROVE FALSE
      OBVIOUS
    <3>1. ss[k] = <<",">>
      BY <1>7 DEF Spelled
    <3>2. Len(<<",">>) = 1 /\ <<",">>[1] = ","
      OBVIOUS
    <3> DEFINE len == Len(ss[k])
    <3>3. len = 1 /\ i \in 1..len
      BY <3>1, <3>2
    <3> HIDE DEF len
    <3>4. i = 1
      BY <3>3
    <3> QED
      BY <1>11, <2>2, <2>3, <3>1, <3>2, <3>4
  <2> DEFINE m == Len(tokens[k].str)
             o == off[k - 1] + 1
             j == i - 1
  <2>5. Quoted(text, o, tokens[k].str, m) /\ Len(ss[k]) = m + 2 /\ m \in Nat
    BY <1>10, <2>4
  <2> HIDE DEF m
  <2>6. i # 1 /\ i # m + 2
    <3>1. text[o] = "quote" /\ text[o + m + 1] = "quote"
      BY <2>5 DEF Quoted
    <3> DEFINE len == Len(ss[k])
               p == off[k - 1]
    <3>2. g = p + i /\ i \in Int /\ p \in Nat /\ m \in Nat
      BY <2>2, <2>3, <2>5
    <3> HIDE DEF len, p
    <3>3. (i = 1 => g = p + 1) /\ (i = m + 2 => g = (p + 1) + m + 1)
      BY <3>2
    <3>4. o = p + 1
      BY DEF p
    <3> QED
      BY <1>11, <3>1, <3>3, <3>4
  <2>7. j \in 1..m /\ g = o + j
    BY <2>2, <2>3, <2>5, <2>6, SMTT(60)
  <2> HIDE DEF o, j
  <2> QED
    BY <2>4, <2>5, <2>7 DEF m
<1> QED
  BY <1>1, <1>8, <1>10, <1>11 DEF text, n

\* The strings of a file that is let through hold nothing that is no character.
Whole(v) ==
  \A x \in Range(Tokens(v)) : Is(x, "str") => \A i \in 1..Len(x.str) : ~Lone(x.str, i)

\* What checkEscapes lets through is whole.
LEMMA TextChecked ==
  ASSUME NEW v \in Values, ValidUTF8(TextOf(Tokens(v))), CheckEscapes(TextOf(Tokens(v)))
  PROVE  Whole(v)
<1> DEFINE tokens == Tokens(v)
           text == TextOf(tokens)
<1>1. tokens \in Seq(AllTokens)
  BY TokensTyped
<1>2. ValidUTF8(text) /\ CheckEscapes(text)
  OBVIOUS
<1> HIDE DEF tokens, text
<1>3. ASSUME NEW x \in Range(tokens), Is(x, "str"), NEW i \in 1..Len(x.str)
      PROVE  ~Lone(x.str, i)
  <2>1. PICK k \in 1..Len(tokens) : x = tokens[k]
    BY <1>1 DEF Range
  <2>2. text \in Seq(Characters) /\ x.str \in Seq(Characters)
        /\ \E o : Quoted(text, o, x.str, Len(x.str))
    BY <1>1, <1>3, <2>1, TextQuotes DEF text
  <2>3. PICK o : Quoted(text, o, x.str, Len(x.str))
    BY <2>2
  <2> QED
    BY <1>2, <2>2, <2>3, NoneLone
<1> QED
  BY <1>3 DEF Whole, tokens

-----------------------------------------------------------------------------
(* The readers.                                                            *)

\* A set of numbers up to a bound that is not empty has a greatest element.
LEMMA Greatest ==
  ASSUME NEW n \in Nat, NEW places \in SUBSET (1..n), places # {}
  PROVE  \E i \in places : \A j \in places : j <= i
<1> DEFINE below == {n - i : i \in places}
<1>1. below \in SUBSET Nat /\ below # {}
  <2>1. \A i \in places : n - i \in Nat
    OBVIOUS
  <2>2. PICK i : i \in places
    OBVIOUS
  <2>3. n - i \in below
    BY <2>2
  <2> QED
    BY <2>1, <2>3
<1>2. PICK b \in below : \A c \in below : b <= c
  <2> HIDE DEF below
  <2> QED
    BY <1>1, Least
<1>3. PICK i \in places : b = n - i
  OBVIOUS
<1>4. ASSUME NEW j \in places
      PROVE  j <= i
  <2>1. n - j \in below
    OBVIOUS
  <2>2. b <= n - j
    BY <1>2, <2>1
  <2> QED
    BY <1>3, <2>2
<1> QED
  BY <1>4

\* A reader that finds members with a key takes one of them.
LEMMA PickIs ==
  ASSUME NEW r, NEW n \in Nat, NEW places \in SUBSET (1..n), places # {}
  PROVE  PickOf(r, places) \in places
<1>1. \E i \in places : \A j \in places : i <= j
  BY Least
<1>2. \E i \in places : \A j \in places : j <= i
  BY Greatest
<1>3. \E i \in places : \A j \in places : IF r.pick = "first" THEN i <= j ELSE j <= i
  BY <1>1, <1>2
<1> QED
  BY <1>3, Zenon DEF PickOf

\* The member that r takes for a field is one of the object's, and is that field.
LEMMA PlaceIs ==
  ASSUME NEW r, NEW S, NEW ms \in Seq(S), NEW f \in {FieldOf(r, key) : key \in Present(Object(ms))}
  PROVE  /\ PickOf(r, Places(r, Object(ms), f)) \in DOMAIN ms
         /\ FieldOf(r, ms[PickOf(r, Places(r, Object(ms), f))].key) = f
<1> DEFINE places == Places(r, Object(ms), f)
<1>1. places = {i \in DOMAIN ms : FieldOf(r, ms[i].key) = f}
  BY Contents DEF Places
<1>2. DOMAIN ms = 1..Len(ms) /\ Len(ms) \in Nat
  OBVIOUS
<1>3. PICK i \in DOMAIN ms : f = FieldOf(r, ms[i].key)
  BY Contents DEF Present
<1> HIDE DEF places
<1>4. places \in SUBSET (1..Len(ms)) /\ places # {}
  BY <1>1, <1>2, <1>3
<1>5. PickOf(r, places) \in places
  BY <1>2, <1>4, PickIs
<1> QED
  BY <1>1, <1>5 DEF places

\* Read, in which the value's own parts come first.
LEMMA ReadIs ==
  ASSUME NEW r, NEW v \in Values
  PROVE  /\ Is(v, "object") =>
              Read(r, v) = Object([f \in {FieldOf(r, key) : key \in Present(v)} |->
                                     Read(r, v.object[PickOf(r, Places(r, v, f))].value)])
         /\ Is(v, "array") => Read(r, v) = Array([i \in DOMAIN v.array |-> Read(r, v.array[i])])
         /\ Is(v, "str") =>
              Read(r, v) = Str([i \in DOMAIN v.str |->
                                  IF r.replaces /\ Lone(v.str, i) THEN "replaced" ELSE v.str[i]])
         /\ Is(v, "num") =>
              Read(r, v) = Num(IF r.doubles /\ v.num > MaxExact + 1 THEN 2 * (v.num \div 2) ELSE v.num)
         /\ Is(v, "null") => Read(r, v) = v
<1> DEFINE OfObject(f, w) == Object([x \in {FieldOf(r, key) : key \in Present(w)} |->
                                       f[w.object[PickOf(r, Places(r, w, x))].value]])
           OfArray(f, w) == Array([i \in DOMAIN w.array |-> f[w.array[i]]])
           OfStr(w) == Str([i \in DOMAIN w.str |->
                              IF r.replaces /\ Lone(w.str, i) THEN "replaced" ELSE w.str[i]])
           OfNum(w) == Num(IF r.doubles /\ w.num > MaxExact + 1 THEN 2 * (w.num \div 2) ELSE w.num)
           Body(f, w) ==
             CASE Is(w, "object") -> OfObject(f, w)
               [] Is(w, "array") -> OfArray(f, w)
               [] Is(w, "str") -> OfStr(w)
               [] Is(w, "num") -> OfNum(w)
               [] OTHER -> w
           Fits(f, V) == f = [w \in V |-> Body(f, w)]
           T == {n \in 0..Nesting : \E f : Fits(f, ValuesUpTo[n])}
<1>1. Nesting \in Nat
  BY ConformanceAssumption DEF ConformanceAssumption
<1>2. \A f, w : Body(f, w) =
             CASE Is(w, "object") -> OfObject(f, w)
               [] Is(w, "array") -> OfArray(f, w)
               [] Is(w, "str") -> OfStr(w)
               [] Is(w, "num") -> OfNum(w)
               [] OTHER -> w
  BY Zenon
<1> HIDE DEF Body, OfObject, OfArray, OfStr, OfNum
<1>3. ASSUME NEW f, NEW w,
             \E kind \in {"object", "array", "str", "num", "null"} :
               \A k \in {"object", "array", "str", "num", "null"} : Is(w, k) <=> k = kind
      PROVE  /\ Is(w, "object") => Body(f, w) = OfObject(f, w)
             /\ Is(w, "array") => Body(f, w) = OfArray(f, w)
             /\ Is(w, "str") => Body(f, w) = OfStr(w)
             /\ Is(w, "num") => Body(f, w) = OfNum(w)
             /\ Is(w, "null") => Body(f, w) = w
  BY <1>2, <1>3
<1>4. ASSUME NEW w \in Values
      PROVE  \E kind \in {"object", "array", "str", "num", "null"} :
               \A k \in {"object", "array", "str", "num", "null"} : Is(w, k) <=> k = kind
  BY Inner, Kinds
<1>5. ASSUME NEW n \in 1..Nesting, NEW w \in ValuesUpTo[n], NEW f, NEW g,
             \A c \in ValuesUpTo[n - 1] : f[c] = g[c]
      PROVE  Body(f, w) = Body(g, w)
  <2>1. n \in 0..Nesting
    BY <1>1
  <2>2. w \in Values
    BY <2>1, AllLevels
  <2>3. ASSUME NEW vs \in Seq(ValuesUpTo[n - 1]), w = Array(vs)
        PROVE  Body(f, w) = Body(g, w)
    <3>1. w.array = vs /\ Is(w, "array")
      BY <2>3, Kinds, Contents
    <3>2. \A i \in DOMAIN vs : f[vs[i]] = g[vs[i]]
      BY <1>5
    <3>3. [i \in DOMAIN w.array |-> f[w.array[i]]] = [i \in DOMAIN w.array |-> g[w.array[i]]]
      BY <3>1, <3>2
    <3>4. OfArray(f, w) = OfArray(g, w)
      BY <3>3 DEF OfArray
    <3> QED
      BY <1>3, <1>4, <2>2, <3>1, <3>4
  <2>4. ASSUME NEW ms \in Seq(Members(ValuesUpTo[n - 1])), w = Object(ms)
        PROVE  Body(f, w) = Body(g, w)
    <3>1. w.object = ms /\ Is(w, "object")
      BY <2>4, Kinds, Contents
    <3>2. ASSUME NEW x \in {FieldOf(r, key) : key \in Present(w)}
          PROVE  f[w.object[PickOf(r, Places(r, w, x))].value] = g[w.object[PickOf(r, Places(r, w, x))].value]
      <4> DEFINE i == PickOf(r, Places(r, w, x))
      <4>1. i \in DOMAIN ms
        BY <2>4, PlaceIs
      <4> HIDE DEF i
      <4>2. ms[i] \in Members(ValuesUpTo[n - 1])
        BY <4>1
      <4>3. ms[i].value \in ValuesUpTo[n - 1]
        BY <4>2 DEF Members
      <4>4. f[ms[i].value] = g[ms[i].value]
        BY <1>5, <4>3
      <4> QED
        BY <3>1, <4>4 DEF i
    <3> DEFINE X == {FieldOf(r, key) : key \in Present(w)}
    <3>3. [x \in X |-> f[w.object[PickOf(r, Places(r, w, x))].value]]
            = [x \in X |-> g[w.object[PickOf(r, Places(r, w, x))].value]]
      <4>1. \A x \in X : f[w.object[PickOf(r, Places(r, w, x))].value]
                           = g[w.object[PickOf(r, Places(r, w, x))].value]
        BY <3>2
      <4> HIDE DEF X
      <4> QED
        BY <4>1
    <3>4. OfObject(f, w) = OfObject(g, w)
      BY <3>3 DEF OfObject
    <3> QED
      BY <1>3, <1>4, <2>2, <3>1, <3>4
  <2>5. CASE ~Is(w, "object") /\ ~Is(w, "array")
    <3>1. Is(w, "str") \/ Is(w, "num") \/ Is(w, "null")
      BY <1>4, <2>2, <2>5
    <3> QED
      BY <1>3, <1>4, <2>2, <3>1
  <2> QED
    BY <2>1, <2>3, <2>4, <2>5, Shape, Kinds
<1>6. 0 \in T
  <2> DEFINE f == [w \in ValuesUpTo[0] |-> Body(<<>>, w)]
  <2>1. ASSUME NEW w \in ValuesUpTo[0], NEW g
        PROVE  Body(<<>>, w) = Body(g, w)
    <3>1. 0 \in 0..Nesting
      BY <1>1
    <3>2. w \in Values
      BY <3>1, AllLevels
    <3>3. ~Is(w, "object") /\ ~Is(w, "array")
      BY <3>1, Shape, Kinds
    <3>4. Is(w, "str") \/ Is(w, "num") \/ Is(w, "null")
      BY <1>4, <3>2, <3>3
    <3> QED
      BY <1>3, <1>4, <3>2, <3>4
  <2>2. Fits(f, ValuesUpTo[0])
    BY <2>1
  <2> HIDE DEF Fits, f
  <2> QED
    BY <1>1, <2>2
<1>7. ASSUME NEW n \in 1..Nesting, n - 1 \in T
      PROVE  n \in T
  <2>1. PICK f : Fits(f, ValuesUpTo[n - 1])
    <3> HIDE DEF Fits
    <3> QED
      BY <1>7
  <2> DEFINE g == [w \in ValuesUpTo[n] |-> Body(f, w)]
  <2>2. ASSUME NEW c \in ValuesUpTo[n - 1]
        PROVE  f[c] = g[c]
    <3>1. f[c] = Body(f, c)
      BY <2>1
    <3>2. c \in ValuesUpTo[n]
      BY NextLevel
    <3> QED
      BY <3>1, <3>2
  <2>3. ASSUME NEW w \in ValuesUpTo[n]
        PROVE  Body(f, w) = Body(g, w)
    <3> HIDE DEF g
    <3> QED
      BY <1>5, <2>2
  <2>4. Fits(g, ValuesUpTo[n])
    BY <2>3
  <2> HIDE DEF Fits, g
  <2> QED
    BY <1>1, <2>4
<1>8. T = 0..Nesting
  <2> HIDE DEF T
  <2>1. T \in SUBSET (0..Nesting)
    BY DEF T
  <2> QED
    BY <1>1, <1>6, <1>7, <2>1, InductUpTo
<1> DEFINE read == CHOOSE f : Fits(f, Values)
<1>9. Fits(read, Values)
  <2>1. \E f : Fits(f, Values)
    <3> HIDE DEF Fits
    <3>1. Nesting \in T
      BY <1>1, <1>8
    <3> QED
      BY <3>1 DEF Values
  <2> QED
    BY <2>1, Zenon
<1>10. \A w : Read(r, w) = read[w]
  BY Zenon DEF Read, Body, OfObject, OfArray, OfStr, OfNum
<1> HIDE DEF read
<1>11. Read(r, v) = Body(read, v)
  <2>1. read[v] = Body(read, v)
    BY <1>9
  <2> QED
    BY <1>10, <2>1
<1>12. /\ Is(v, "object") => Read(r, v) = OfObject(read, v)
       /\ Is(v, "array") => Read(r, v) = OfArray(read, v)
       /\ Is(v, "str") => Read(r, v) = OfStr(v)
       /\ Is(v, "num") => Read(r, v) = OfNum(v)
       /\ Is(v, "null") => Read(r, v) = v
  BY <1>3, <1>4, <1>11
<1>13. OfObject(read, v) = Object([f \in {FieldOf(r, key) : key \in Present(v)} |->
                                     Read(r, v.object[PickOf(r, Places(r, v, f))].value)])
  BY <1>10 DEF OfObject
<1>14. OfArray(read, v) = Array([i \in DOMAIN v.array |-> Read(r, v.array[i])])
  BY <1>10 DEF OfArray
<1> QED
  BY <1>12, <1>13, <1>14 DEF OfStr, OfNum

\* What is appended is added to the range.
LEMMA RangeConcat ==
  ASSUME NEW S, NEW a \in Seq(S), NEW b \in Seq(S)
  PROVE  Range(a \o b) = Range(a) \cup Range(b) /\ a \o b \in Seq(S)
<1>1. /\ a \o b \in Seq(S) /\ Len(a \o b) = Len(a) + Len(b)
      /\ \A i \in 1..(Len(a) + Len(b)) :
           (a \o b)[i] = IF i <= Len(a) THEN a[i] ELSE b[i - Len(a)]
  BY ConcatProperties
<1>2. Len(a) \in Nat /\ Len(b) \in Nat /\ DOMAIN a = 1..Len(a) /\ DOMAIN b = 1..Len(b)
      /\ DOMAIN (a \o b) = 1..(Len(a) + Len(b))
  BY <1>1
<1>3. ASSUME NEW i \in 1..Len(a)
      PROVE  a[i] \in Range(a \o b)
  <2>1. i \in 1..(Len(a) + Len(b)) /\ (a \o b)[i] = a[i]
    BY <1>1, <1>2
  <2> QED
    BY <1>2, <2>1 DEF Range
<1>4. ASSUME NEW i \in 1..Len(b)
      PROVE  b[i] \in Range(a \o b)
  <2>1. Len(a) + i \in 1..(Len(a) + Len(b)) /\ ~(Len(a) + i <= Len(a))
        /\ (Len(a) + i) - Len(a) = i
    BY <1>2
  <2>2. (a \o b)[Len(a) + i] = b[i]
    BY <1>1, <2>1
  <2> QED
    BY <1>2, <2>1, <2>2 DEF Range
<1>5. ASSUME NEW i \in 1..(Len(a) + Len(b))
      PROVE  (a \o b)[i] \in Range(a) \cup Range(b)
  <2>1. CASE i <= Len(a)
    BY <1>1, <1>2, <2>1 DEF Range
  <2>2. CASE ~(i <= Len(a))
    <3>1. i - Len(a) \in 1..Len(b) /\ (a \o b)[i] = b[i - Len(a)]
      BY <1>1, <1>2, <2>2
    <3> QED
      BY <1>2, <3>1 DEF Range
  <2> QED
    BY <2>1, <2>2
<1> QED
  BY <1>1, <1>2, <1>3, <1>4, <1>5 DEF Range

\* Members that are fields, no two of them the same one.
Fielded(R) ==
  /\ \A m \in R : m.key \in Fields
  /\ \A m, n \in R : m.key = n.key => m = n

\* Two values say the same to any two readers.
SayTheSame(v, u) == \A r, q \in Readers : Read(r, v) = Read(q, u)

\* No reader takes a field for another.
LEMMA FieldsAre ==
  ASSUME NEW r, NEW key \in Fields
  PROVE  FieldOf(r, key) = key
BY ConformanceAssumption DEF ConformanceAssumption, FieldOf

\* The fields that an object has.
FieldNames(ms) == {m.key : m \in Range(ms)}

\* f is a function on X.
On(X, f) == f = [x \in X |-> f[x]]

\* What a reader makes of an object whose members are fields.
LEMMA ObjectRead ==
  ASSUME NEW r, NEW ms \in Seq(Members(Values)), Object(ms) \in Values, Fielded(Range(ms))
  PROVE  \E fields : /\ Read(r, Object(ms)) = Object(fields)
                     /\ On(FieldNames(ms), fields)
                     /\ \A m \in Range(ms) : fields[m.key] = Read(r, m.value)
<1> DEFINE v == Object(ms)
           X == {FieldOf(r, key) : key \in Present(v)}
           Y == FieldNames(ms)
           Taken(f) == Read(r, v.object[PickOf(r, Places(r, v, f))].value)
           fields == [f \in X |-> Taken(f)]
<1>1. Is(v, "object") /\ v.object = ms
  BY Kinds, Contents
<1>2. Read(r, v) = Object(fields)
  BY <1>1, ReadIs
<1>3. Present(v) = Y
  BY <1>1 DEF Present, Range, FieldNames
<1>4. \A key \in Present(v) : FieldOf(r, key) = key
  BY <1>3, FieldsAre DEF Fielded, FieldNames
<1>5. X = Y
  BY <1>3, <1>4
<1>6. ASSUME NEW m \in Range(ms)
      PROVE  m.key \in X /\ Taken(m.key) = Read(r, m.value)
  <2> DEFINE i == PickOf(r, Places(r, v, m.key))
  <2>1. m.key \in X
    BY <1>5 DEF FieldNames
  <2>2. i \in DOMAIN ms /\ FieldOf(r, ms[i].key) = m.key
    BY <2>1, PlaceIs
  <2> HIDE DEF i
  <2>3. ms[i] \in Range(ms)
    BY <2>2 DEF Range
  <2>4. ms[i].key = m.key
    BY <2>2, <2>3, FieldsAre DEF Fielded
  <2>5. ms[i] = m
    BY <2>3, <2>4 DEF Fielded
  <2> QED
    BY <1>1, <2>1, <2>5 DEF i
<1> HIDE DEF Taken, X, Y
<1>7. fields = [f \in Y |-> fields[f]]
  BY <1>5
<1>8. \A m \in Range(ms) : fields[m.key] = Read(r, m.value)
  BY <1>6
<1> HIDE DEF fields
<1> QED
  BY <1>2, <1>7, <1>8 DEF v, Y, On

\* Objects with the same fields, whose values say the same, say the same.
LEMMA ObjectsSay ==
  ASSUME NEW a \in Seq(Members(Values)), Object(a) \in Values, Fielded(Range(a)),
         NEW b \in Seq(Members(Values)), Object(b) \in Values, Fielded(Range(b)),
         \A m \in Range(a) : \E n \in Range(b) : m.key = n.key /\ SayTheSame(m.value, n.value),
         \A n \in Range(b) : \E m \in Range(a) : m.key = n.key
  PROVE  SayTheSame(Object(a), Object(b))
<1> SUFFICES ASSUME NEW r \in Readers, NEW q \in Readers
             PROVE  Read(r, Object(a)) = Read(q, Object(b))
  BY DEF SayTheSame
<1> DEFINE A == FieldNames(a)
           B == FieldNames(b)
<1>1. PICK f : /\ Read(r, Object(a)) = Object(f) /\ On(A, f)
               /\ \A m \in Range(a) : f[m.key] = Read(r, m.value)
  BY ObjectRead
<1>2. PICK g : /\ Read(q, Object(b)) = Object(g) /\ On(B, g)
               /\ \A n \in Range(b) : g[n.key] = Read(q, n.value)
  BY ObjectRead
<1>3. A = B
  <2>1. \A x \in A : x \in B
    BY DEF FieldNames
  <2>2. \A x \in B : x \in A
    BY DEF FieldNames
  <2> QED
    BY <2>1, <2>2
<1>4. ASSUME NEW x \in A
      PROVE  f[x] = g[x]
  <2>1. PICK m \in Range(a) : x = m.key
    BY DEF FieldNames
  <2>2. PICK n \in Range(b) : m.key = n.key /\ SayTheSame(m.value, n.value)
    OBVIOUS
  <2>3. Read(r, m.value) = Read(q, n.value)
    BY <2>2 DEF SayTheSame
  <2>4. f[m.key] = Read(r, m.value) /\ g[n.key] = Read(q, n.value)
    BY <1>1, <1>2
  <2> QED
    BY <2>1, <2>2, <2>3, <2>4
<1> HIDE DEF A, B
<1>5. [x \in A |-> f[x]] = [x \in B |-> g[x]]
  BY <1>3, <1>4
<1>6. f = g
  BY <1>1, <1>2, <1>5 DEF On
<1> QED
  BY <1>1, <1>2, <1>6

\* Arrays whose elements say the same say the same.
LEMMA ArraysSay ==
  ASSUME NEW a \in Seq(Values), Array(a) \in Values, NEW b \in Seq(Values), Array(b) \in Values,
         Len(a) = Len(b), \A i \in 1..Len(a) : SayTheSame(a[i], b[i])
  PROVE  SayTheSame(Array(a), Array(b))
<1> SUFFICES ASSUME NEW r \in Readers, NEW q \in Readers
             PROVE  Read(r, Array(a)) = Read(q, Array(b))
  BY DEF SayTheSame
<1>1. DOMAIN a = 1..Len(a) /\ DOMAIN b = 1..Len(a)
  OBVIOUS
<1>2. Read(r, Array(a)) = Array([i \in 1..Len(a) |-> Read(r, a[i])])
  <2> DEFINE v == Array(a)
  <2>1. v \in Values /\ Is(v, "array") /\ v.array = a
    BY Kinds, Contents
  <2> HIDE DEF v
  <2>2. Read(r, v) = Array([i \in DOMAIN v.array |-> Read(r, v.array[i])])
    BY <2>1, ReadIs
  <2> QED
    BY <1>1, <2>1, <2>2 DEF v
<1>3. Read(q, Array(b)) = Array([i \in 1..Len(a) |-> Read(q, b[i])])
  <2> DEFINE v == Array(b)
  <2>1. v \in Values /\ Is(v, "array") /\ v.array = b
    BY Kinds, Contents
  <2> HIDE DEF v
  <2>2. Read(q, v) = Array([i \in DOMAIN v.array |-> Read(q, v.array[i])])
    BY <2>1, ReadIs, ZenonT(60)
  <2> QED
    BY <1>1, <2>1, <2>2 DEF v
<1>4. \A i \in 1..Len(a) : Read(r, a[i]) = Read(q, b[i])
  BY DEF SayTheSame
<1>5. [i \in 1..Len(a) |-> Read(r, a[i])] = [i \in 1..Len(a) |-> Read(q, b[i])]
  BY <1>4
<1> QED
  BY <1>2, <1>3, <1>5

\* A string without half a surrogate, a number that a double holds, and null say one thing.
LEMMA ScalarsSay ==
  /\ \A s \in Spellings : (\A i \in 1..Len(s) : ~Lone(s, i)) => SayTheSame(Str(s), Str(s))
  /\ \A k \in 0..MaxExact : SayTheSame(Num(k), Num(k))
  /\ SayTheSame(Null, Null)
<1>1. ASSUME NEW s \in Spellings, \A i \in 1..Len(s) : ~Lone(s, i), NEW r
      PROVE  Read(r, Str(s)) = Str(s)
  <2>1. Str(s) \in Values /\ Is(Str(s), "str") /\ Str(s).str = s
    <3>1. Nesting \in 0..Nesting
      BY ConformanceAssumption DEF ConformanceAssumption
    <3> QED
      BY <3>1, Shaped, Kinds, Contents DEF Values
  <2>2. s \in Seq(Symbols) /\ DOMAIN s = 1..Len(s)
    BY DEF Spellings
  <2>3. [i \in DOMAIN s |-> IF r.replaces /\ Lone(s, i) THEN "replaced" ELSE s[i]] = [i \in DOMAIN s |-> s[i]]
    BY <1>1, <2>2
  <2>4. [i \in DOMAIN s |-> s[i]] = s
    BY <2>2
  <2> DEFINE v == Str(s)
  <2> HIDE DEF v
  <2>5. Read(r, v) = Str([i \in DOMAIN v.str |->
                                  IF r.replaces /\ Lone(v.str, i) THEN "replaced" ELSE v.str[i]])
    BY <2>1, ReadIs DEF v
  <2> QED
    BY <2>1, <2>3, <2>4, <2>5 DEF v
<1>2. ASSUME NEW k \in 0..MaxExact, NEW r
      PROVE  Read(r, Num(k)) = Num(k)
  <2>1. Num(k) \in Values /\ Is(Num(k), "num") /\ Num(k).num = k
    <3>1. Nesting \in 0..Nesting /\ k \in Int
      BY ConformanceAssumption DEF ConformanceAssumption
    <3> QED
      BY <3>1, Shaped, Kinds, Contents DEF Values
  <2>2. ~(k > MaxExact + 1)
    BY ConformanceAssumption DEF ConformanceAssumption
  <2> QED
    BY <2>1, <2>2, ReadIs
<1>3. ASSUME NEW r
      PROVE  Read(r, Null) = Null
  <2>1. Null \in Values /\ Is(Null, "null")
    <3>1. Nesting \in 0..Nesting
      BY ConformanceAssumption DEF ConformanceAssumption
    <3> QED
      BY <3>1, Shaped, Kinds DEF Values
  <2> QED
    BY <2>1, ReadIs
<1> QED
  BY <1>1, <1>2, <1>3 DEF SayTheSame

-----------------------------------------------------------------------------
(* What is decoded.                                                        *)

\* A value of a file that was let through.
Sound(v) == v \in Values /\ Passes(v) /\ Whole(v)

\* What is inside a value that was let through was let through, too.
LEMMA SoundInside ==
  /\ \A vs : Sound(Array(vs)) => vs \in Seq(Values) /\ \A i \in 1..Len(vs) : Sound(vs[i])
  /\ \A ms : Sound(Object(ms)) =>
       /\ ms \in Seq(Members(Values)) /\ Fielded(Range(ms))
       /\ \A m \in Range(ms) : Sound(m.value)
  /\ \A s : Sound(Str(s)) => s \in Spellings /\ \A i \in 1..Len(s) : ~Lone(s, i)
<1>1. ASSUME NEW vs, Sound(Array(vs))
      PROVE  vs \in Seq(Values) /\ \A i \in 1..Len(vs) : Sound(vs[i])
  <2>1. Array(vs) \in Values /\ Passes(Array(vs)) /\ Whole(Array(vs))
    BY <1>1 DEF Sound
  <2>2. vs \in Seq(Values)
    <3>1. \A k : Is(Array(vs), k) <=> k = "array"
      BY Kinds
    <3>2. \E ws \in Seq(Values) : Array(vs) = Array(ws)
      BY <2>1, <3>1, Inner, Kinds
    <3> QED
      BY <3>2, Contents
  <2>3. ASSUME NEW i \in 1..Len(vs)
        PROVE  Sound(vs[i])
    <3>1. i \in DOMAIN vs /\ vs[i] \in Values
      BY <2>2
    <3>2. Passes(vs[i])
      BY <2>1, <2>2, PassesInside
    <3>3. Range(Tokens(vs[i])) \subseteq Range(Tokens(Array(vs)))
      BY <2>1, <2>2, <3>1, InnerTokens
    <3> QED
      BY <2>1, <3>1, <3>2, <3>3 DEF Sound, Whole
  <2> QED
    BY <2>2, <2>3
<1>2. ASSUME NEW ms, Sound(Object(ms))
      PROVE  /\ ms \in Seq(Members(Values)) /\ Fielded(Range(ms))
             /\ \A m \in Range(ms) : Sound(m.value)
  <2>1. Object(ms) \in Values /\ Passes(Object(ms)) /\ Whole(Object(ms))
    BY <1>2 DEF Sound
  <2>2. ms \in Seq(Members(Values))
    <3> DEFINE v == Object(ms)
    <3>1. v \in Values /\ Is(v, "object")
      BY <2>1, Kinds
    <3> HIDE DEF v
    <3>2. \E ns \in Seq(Members(Values)) : v = Object(ns)
      BY <3>1, Inner, Kinds
    <3> QED
      BY <3>2, Contents DEF v
  <2>3. DOMAIN ms = 1..Len(ms)
    BY <2>2
  <2>4. /\ \A i \in 1..Len(ms) : Passes(ms[i].value) /\ ms[i].key \in Fields
        /\ \A i, j \in 1..Len(ms) : ms[i].key = ms[j].key => i = j
    BY <2>1, <2>2, PassesInside
  <2>5. ASSUME NEW i \in 1..Len(ms)
        PROVE  Sound(ms[i].value)
    <3>1. ms[i] \in Members(Values)
      BY <2>2
    <3>2. Range(Tokens(ms[i].value)) \subseteq Range(Tokens(Object(ms)))
      BY <2>1, <2>2, <2>3, InnerTokens
    <3> QED
      BY <2>1, <2>4, <3>1, <3>2 DEF Sound, Whole, Members
  <2>6. Fielded(Range(ms))
    BY <2>3, <2>4 DEF Fielded, Range
  <2>7. \A m \in Range(ms) : Sound(m.value)
    BY <2>3, <2>5 DEF Range
  <2> QED
    BY <2>2, <2>6, <2>7
<1>3. ASSUME NEW s, Sound(Str(s))
      PROVE  s \in Spellings /\ \A i \in 1..Len(s) : ~Lone(s, i)
  <2>1. Str(s) \in Values /\ Whole(Str(s))
    BY <1>3 DEF Sound
  <2>2. s \in Spellings
    <3>1. \A k : Is(Str(s), k) <=> k = "str"
      BY Kinds
    <3>2. \E t \in Spellings : Str(s) = Str(t)
      BY <2>1, <3>1, Inner, Kinds, ZenonT(60)
    <3> QED
      BY <3>2, Contents
  <2>3. Str(s) \in Range(Tokens(Str(s)))
    <3>1. Tokens(Str(s)) = <<Str(s)>>
      BY <2>1, TokensOf
    <3>2. 1 \in DOMAIN <<Str(s)>> /\ <<Str(s)>>[1] = Str(s)
      OBVIOUS
    <3> QED
      BY <3>1, <3>2 DEF Range
  <2>4. Is(Str(s), "str") /\ Str(s).str = s
    BY Kinds, Contents
  <2> QED
    BY <2>1, <2>2, <2>3, <2>4 DEF Whole
<1> QED
  BY <1>1, <1>2, <1>3

\* The decoder finds the value of a field that is there, and null for one that is not.
LEMMA AtIs ==
  ASSUME NEW ms \in Seq(Members(Values)), Fielded(Range(ms))
  PROVE  /\ Present(Object(ms)) = FieldNames(ms)
         /\ Range(ms) = {Member(key, At(Object(ms), key)) : key \in Present(Object(ms))}
         /\ \A m \in Range(ms) : At(Object(ms), m.key) = m.value
         /\ \A key : key \notin Present(Object(ms)) => At(Object(ms), key) = Null
<1> DEFINE v == Object(ms)
<1>1. v.object = ms
  BY Contents
<1>2. DOMAIN ms = 1..Len(ms) /\ Len(ms) \in Nat
  OBVIOUS
<1> HIDE DEF v
<1>3. Present(v) = FieldNames(ms)
  BY <1>1 DEF Present, FieldNames, Range
<1>4. ASSUME NEW m \in Range(ms)
      PROVE  At(v, m.key) = m.value
  <2> DEFINE places == {i \in DOMAIN ms : ms[i].key = m.key}
             IsLast(i) == ms[i].key = m.key /\ \A j \in DOMAIN ms : ms[j].key = m.key => j <= i
             last == CHOOSE i \in DOMAIN ms : IsLast(i)
  <2>1. places \in SUBSET (1..Len(ms)) /\ places # {}
    BY <1>2 DEF Range
  <2>2. \E i \in DOMAIN ms : IsLast(i)
    <3>1. \E i \in places : \A j \in places : j <= i
      <4> HIDE DEF places
      <4> QED
        BY <1>2, <2>1, Greatest
    <3> QED
      BY <3>1
  <2>3. last \in DOMAIN ms /\ ms[last].key = m.key
    <3> HIDE DEF IsLast
    <3>1. last \in DOMAIN ms /\ IsLast(last)
      BY <2>2, Zenon
    <3> QED
      BY <3>1 DEF IsLast
  <2>4. At(v, m.key) = ms[last].value
    <3>1. m.key \in Present(v)
      BY <1>3 DEF FieldNames
    <3> QED
      BY <1>1, <3>1, Zenon DEF At
  <2> HIDE DEF last
  <2>5. ms[last] = m
    BY <2>3 DEF Fielded, Range
  <2> QED
    BY <2>4, <2>5
<1>5. \A key : key \notin Present(v) => At(v, key) = Null
  BY DEF At
<1>6. Range(ms) = {Member(key, At(v, key)) : key \in Present(v)}
  <2>1. ASSUME NEW m \in Range(ms)
        PROVE  m = Member(m.key, At(v, m.key)) /\ m.key \in Present(v)
    <3>1. m \in Members(Values)
      BY <1>2 DEF Range
    <3>2. m = Member(m.key, m.value)
      BY <3>1 DEF Members, Member
    <3> QED
      BY <1>3, <1>4, <3>2 DEF FieldNames
  <2>2. ASSUME NEW key \in Present(v)
        PROVE  Member(key, At(v, key)) \in Range(ms)
    <3>1. PICK m \in Range(ms) : m.key = key
      BY <1>3 DEF FieldNames
    <3> QED
      BY <2>1, <3>1
  <2> QED
    BY <2>1, <2>2
<1> QED
  BY <1>3, <1>4, <1>5, <1>6 DEF v

\* No field at all, or a value of the file.
Given(v) == v = Null \/ Sound(v)

\* So is the value of each field.
LEMMA Fieldwise ==
  ASSUME NEW ms, Sound(Object(ms)), NEW key
  PROVE  /\ Given(At(Object(ms), key))
         /\ key \notin Present(Object(ms)) => At(Object(ms), key) = Null
         /\ Present(Object(ms)) \subseteq Fields
<1>1. ms \in Seq(Members(Values)) /\ Fielded(Range(ms)) /\ \A m \in Range(ms) : Sound(m.value)
  BY SoundInside
<1>2. Present(Object(ms)) = FieldNames(ms)
  BY <1>1, AtIs
<1>3. \A m \in Range(ms) : At(Object(ms), m.key) = m.value
  BY <1>1, AtIs
<1>4. key \notin Present(Object(ms)) => At(Object(ms), key) = Null
  BY <1>1, AtIs
<1> QED
  BY <1>1, <1>2, <1>3, <1>4 DEF Given, FieldNames, Fielded

\* No string is empty that has a symbol.
LEMMA EmptyStrings ==
  /\ <<>> \in Spellings
  /\ Blank(<<>>)
  /\ Decoded(Null) = <<>>
  /\ \A key \in Operations \cup Verdicts : <<key>> \in Spellings
<1>1. <<>> \in Spellings
  BY DEF Spellings, Complete
<1>2. Blank(<<>>)
  BY DEF Blank, Range
<1>3. Decoded(Null) = <<>>
  BY Kinds DEF Decoded
<1>4. ASSUME NEW key \in Operations \cup Verdicts
      PROVE  <<key>> \in Spellings
  <2>1. key \in Symbols /\ key # "\\"
    BY ConformanceAssumption DEF ConformanceAssumption, Operations, Verdicts
  <2>2. <<key>> \in Seq(Symbols) /\ DOMAIN <<key>> = {1} /\ <<key>>[1] = key
    BY <2>1
  <2> QED
    BY <2>1, <2>2 DEF Spellings, Complete, StartsEscape
<1> QED
  BY <1>1, <1>2, <1>3, <1>4

\* A text field, and what is decoded from it.
LEMMA Text ==
  ASSUME NEW v, Given(v), IsText(v)
  PROVE  /\ Decoded(v) \in Spellings
         /\ v = Null \/ v = Str(Decoded(v))
         /\ SayTheSame(v, v)
         /\ Decoded(v) # <<>> => v = Str(Decoded(v))
         /\ Keyword(v) \in Operations \cup Verdicts => v = Str(<<Keyword(v)>>)
<1>1. v = Null \/ \E s : v = Str(s) /\ s \in Spellings /\ \A i \in 1..Len(s) : ~Lone(s, i)
  <2>1. CASE v = Null
    BY <2>1
  <2>2. CASE Sound(v)
    <3>1. v \in Values
      BY <2>2 DEF Sound
    <3>2. v = Null \/ \E s \in Spellings : v = Str(s)
      BY <3>1, Inner, Kinds DEF IsText
    <3> QED
      BY <2>2, <3>2, SoundInside
  <2> QED
    BY <2>1, <2>2 DEF Given
<1>2. CASE v = Null
  <2>1. Decoded(v) = <<>> /\ <<>> \in Spellings
    BY <1>2, EmptyStrings
  <2>2. Keyword(v) = ""
    BY <2>1 DEF Keyword
  <2>3. "" \notin Operations \cup Verdicts
    BY DEF Operations, Verdicts
  <2> QED
    BY <1>2, <2>1, <2>2, <2>3, ScalarsSay
<1>3. ASSUME NEW s, v = Str(s), s \in Spellings, \A i \in 1..Len(s) : ~Lone(s, i)
      PROVE  /\ Decoded(v) \in Spellings
             /\ v = Null \/ v = Str(Decoded(v))
             /\ SayTheSame(v, v)
             /\ Decoded(v) # <<>> => v = Str(Decoded(v))
             /\ Keyword(v) \in Operations \cup Verdicts => v = Str(<<Keyword(v)>>)
  <2>1. Decoded(v) = s
    BY <1>3, Kinds, Contents DEF Decoded
  <2>2. ASSUME Keyword(v) \in Operations \cup Verdicts
        PROVE  s = <<Keyword(v)>>
    <3>1. Keyword(v) # ""
      BY <2>2 DEF Operations, Verdicts
    <3>2. Len(s) = 1 /\ Keyword(v) = s[1]
      BY <2>1, <3>1 DEF Keyword
    <3>3. s \in Seq(Symbols)
      BY <1>3 DEF Spellings
    <3> HIDE DEF Keyword
    <3> QED
      BY <3>2, <3>3
  <2> QED
    BY <1>3, <2>1, <2>2, ScalarsSay
<1> QED
  BY <1>1, <1>2, <1>3

\* The elements of columns_written.
LEMMA ColumnsAre ==
  ASSUME NEW v, Given(v),
         Is(v, "null") \/ (Is(v, "array") /\ \A i \in DOMAIN v.array : IsText(v.array[i])),
         \A i \in DOMAIN Columns(v) : ~Blank(Columns(v)[i])
  PROVE  /\ Columns(v) \in Seq(Spellings)
         /\ Columns(v) # <<>> => v = Array([i \in DOMAIN Columns(v) |-> Str(Columns(v)[i])])
         /\ SayTheSame(v, v)
<1>1. CASE Is(v, "null")
  <2>1. v = Null
    <3>1. v \in Values => v = Null
      BY <1>1, Inner, Kinds
    <3> QED
      BY <3>1 DEF Given, Sound
  <2>2. Columns(v) = <<>>
    BY <2>1, Kinds DEF Columns
  <2> QED
    BY <2>1, <2>2, ScalarsSay
<1>2. CASE Is(v, "array")
  <2>1. Sound(v) /\ v \in Values
    BY <1>2, Kinds DEF Given, Sound
  <2>2. PICK vs : v = Array(vs)
    BY <1>2, <2>1, Inner, Kinds
  <2>3. v.array = vs /\ vs \in Seq(Values) /\ \A i \in 1..Len(vs) : Sound(vs[i])
    BY <2>1, <2>2, Contents, SoundInside
  <2>4. DOMAIN vs = 1..Len(vs) /\ Len(vs) \in Nat
    BY <2>3
  <2> DEFINE n == Len(vs)
             columns == [i \in 1..n |-> Decoded(vs[i])]
  <2>5. Columns(v) = columns
    BY <1>2, <2>3, <2>4 DEF Columns
  <2>6. ASSUME NEW i \in 1..n
        PROVE  /\ Decoded(vs[i]) \in Spellings /\ vs[i] = Str(Decoded(vs[i]))
               /\ SayTheSame(vs[i], vs[i])
    <3>1. IsText(vs[i]) /\ Given(vs[i])
      <4>1. ~Is(v, "null")
        BY <2>2, Kinds
      <4> QED
        BY <2>3, <2>4, <4>1 DEF Given
    <3>2. i \in DOMAIN Columns(v) /\ Columns(v)[i] = Decoded(vs[i])
      BY <2>5
    <3>3. ~Blank(Decoded(vs[i]))
      BY <3>2
    <3>4. Decoded(vs[i]) # <<>>
      BY <3>3, EmptyStrings
    <3> QED
      BY <3>1, <3>4, Text
  <2>7. columns \in [1..n -> Spellings]
    BY <2>6
  <2>8. columns \in Seq(Spellings)
    <3> HIDE DEF columns
    <3> QED
      BY <2>4, <2>7
  <2>9. [i \in DOMAIN Columns(v) |-> Str(Columns(v)[i])] = vs
    <3>1. [i \in DOMAIN Columns(v) |-> Str(Columns(v)[i])] = [i \in 1..n |-> Str(Decoded(vs[i]))]
      BY <2>5
    <3>2. [i \in 1..n |-> Str(Decoded(vs[i]))] = [i \in 1..n |-> vs[i]]
      BY <2>6
    <3>3. [i \in 1..n |-> vs[i]] = vs
      BY <2>3, <2>4
    <3> QED
      BY <3>1, <3>2, <3>3
  <2>10. SayTheSame(v, v)
    BY <2>1, <2>2, <2>3, <2>6, ArraysSay
  <2> QED
    BY <2>2, <2>5, <2>8, <2>9, <2>10
<1> QED
  BY <1>1, <1>2

-----------------------------------------------------------------------------
(* What is marshalled.                                                     *)

\* A member that omitempty may leave out.
LEMMA Optional ==
  ASSUME NEW V, NEW key \in Keys, NEW x, NEW empty \in BOOLEAN, ~empty => x \in V
  PROVE  /\ Unless(empty, key, x) \in Seq(Members(V))
         /\ Range(Unless(empty, key, x)) = IF empty THEN {} ELSE {Member(key, x)}
<1>1. CASE empty
  BY <1>1 DEF Unless, Range
<1>2. CASE ~empty
  <2>1. Member(key, x) \in Members(V)
    BY <1>2 DEF Member, Members
  <2> DEFINE m == Member(key, x)
  <2> HIDE DEF m
  <2>2. <<m>> \in Seq(Members(V)) /\ Range(<<m>>) = {m}
    BY <2>1 DEF Range, m
  <2> QED
    BY <1>2, <2>2 DEF Unless, m
<1> QED
  BY <1>1, <1>2

\* Two members that are always there.
LEMMA Pair ==
  ASSUME NEW S, NEW a \in S, NEW b \in S
  PROVE  <<a, b>> \in Seq(S) /\ Range(<<a, b>>) = {a, b}
BY DEF Range

\* And three of them.
LEMMA Triple ==
  ASSUME NEW S, NEW a \in S, NEW b \in S, NEW c \in S
  PROVE  <<a, b, c>> \in Seq(S) /\ Range(<<a, b, c>>) = {a, b, c}
BY DEF Range

\* The levels that the values of a corpus are on.
LEMMA LowLevels ==
  /\ \A n \in 1..5 : n \in 0..Nesting /\ n \in 1..Nesting /\ n - 1 \in 0..Nesting
  /\ \A n \in 1..5 : ValuesUpTo[n] \subseteq Values
  /\ Nesting \in 0..Nesting
<1>1. Nesting \in Nat /\ Nesting >= 5
  BY ConformanceAssumption DEF ConformanceAssumption
<1> QED
  BY <1>1, AllLevels

\* A key of the format is a key.
LEMMA FieldsAreKeys == Fields \subseteq Keys
BY ConformanceAssumption DEF ConformanceAssumption

\* The columns of a scope, marshalled.
ColumnsArray(s) == Array([i \in DOMAIN s.columns_written |-> Str(s.columns_written[i])])

\* The members of a scope that is marshalled.
ScopeMembers(s) ==
  <<Member("operation", Str(<<s.operation>>)), Member("schema", Str(s.schema)),
    Member("relation", Str(s.relation))>>
  \o Unless(s.columns_written = <<>>, "columns_written", ColumnsArray(s))
  \o Unless(s.predicate = <<>>, "predicate", Str(s.predicate))

\* A scope is an object of strings and of an array of strings.
LEMMA MarshalledScope ==
  ASSUME NEW s \in Scopes
  PROVE  /\ MarshalScope(s) = Object(ScopeMembers(s))
         /\ MarshalScope(s) \in ValuesUpTo[2]
         /\ ScopeMembers(s) \in Seq(Members(Values))
         /\ Range(ScopeMembers(s)) =
              {Member("operation", Str(<<s.operation>>)), Member("schema", Str(s.schema)),
               Member("relation", Str(s.relation))}
              \cup (IF s.columns_written = <<>> THEN {}
                    ELSE {Member("columns_written", ColumnsArray(s))})
              \cup (IF s.predicate = <<>> THEN {} ELSE {Member("predicate", Str(s.predicate))})
<1> DEFINE V == ValuesUpTo[1]
           M == Members(V)
           A == Member("operation", Str(<<s.operation>>))
           B == Member("schema", Str(s.schema))
           C == Member("relation", Str(s.relation))
           noColumns == (s.columns_written = <<>>)
           noPredicate == (s.predicate = <<>>)
           D == Unless(noColumns, "columns_written", ColumnsArray(s))
           predicate == Str(s.predicate)
           P == Unless(noPredicate, "predicate", predicate)
<1>1. /\ s.operation \in Operations /\ s.schema \in Spellings /\ s.relation \in Spellings
      /\ s.columns_written \in Seq(Spellings) /\ s.predicate \in Spellings
  BY DEF Scopes
<1>2. \A t \in Spellings : Str(t) \in ValuesUpTo[0] /\ Str(t) \in V
  BY LowLevels, Shaped
<1>3. <<s.operation>> \in Spellings
  BY <1>1, EmptyStrings
<1>4. ColumnsArray(s) \in V
  <2> DEFINE cs == s.columns_written
             n == Len(cs)
             strs == [i \in 1..n |-> Str(cs[i])]
  <2>1. DOMAIN cs = 1..n /\ n \in Nat /\ \A i \in 1..n : cs[i] \in Spellings
    BY <1>1
  <2>2. strs \in [1..n -> ValuesUpTo[0]]
    BY <1>2, <2>1
  <2> HIDE DEF strs, n
  <2>3. strs \in Seq(ValuesUpTo[0])
    BY <2>1, <2>2
  <2>4. 1 \in 1..Nesting /\ 1 - 1 = 0
    BY LowLevels
  <2>5. Array(strs) \in V
    BY <2>3, <2>4, Shaped
  <2> QED
    BY <2>1, <2>5 DEF ColumnsArray, strs
<1>5. {"operation", "schema", "relation", "columns_written", "predicate"} \subseteq Keys
  BY FieldsAreKeys DEF Fields, ScopeFields
<1>6. A \in M /\ B \in M /\ C \in M
  <2>1. \A key \in Keys, x \in V : Member(key, x) \in M
    BY DEF Member, Members
  <2> HIDE DEF M, V
  <2> QED
    BY <1>1, <1>2, <1>3, <1>5, <2>1
<1> HIDE DEF A, B, C, M
<1> DEFINE T == <<A, B, C>>
<1>7. T \in Seq(M) /\ Range(T) = {A, B, C}
  BY <1>6, Triple
<1>8. D \in Seq(M) /\ Range(D) = IF noColumns THEN {} ELSE {Member("columns_written", ColumnsArray(s))}
  <2>1. noColumns \in BOOLEAN /\ "columns_written" \in Keys
    BY <1>5
  <2> HIDE DEF noColumns, V
  <2> QED
    BY <1>4, <2>1, Optional DEF M
<1>9. P \in Seq(M) /\ Range(P) = IF noPredicate THEN {} ELSE {Member("predicate", predicate)}
  <2>1. noPredicate \in BOOLEAN /\ "predicate" \in Keys /\ predicate \in V
    BY <1>1, <1>2, <1>5
  <2> HIDE DEF noPredicate, predicate, V
  <2> QED
    BY <2>1, Optional DEF M
<1> HIDE DEF T, D, P, V
<1> DEFINE L == T \o D
<1>10. L \in Seq(M) /\ Range(L) = Range(T) \cup Range(D)
  BY <1>7, <1>8, RangeConcat
<1> HIDE DEF L
<1>11. L \o P \in Seq(M) /\ Range(L \o P) = Range(L) \cup Range(P)
  BY <1>9, <1>10, RangeConcat
<1>12. ScopeMembers(s) = L \o P
  BY DEF ScopeMembers, L, T, A, B, C, D, P
<1>13. MarshalScope(s) = Object(ScopeMembers(s))
  BY DEF MarshalScope, ScopeMembers, ColumnsArray
<1>14. ScopeMembers(s) \in Seq(Members(V))
  BY <1>11, <1>12 DEF M
<1>15. Object(ScopeMembers(s)) \in ValuesUpTo[2]
  <2>1. 2 \in 1..Nesting /\ 2 - 1 = 1
    BY LowLevels
  <2> QED
    BY <1>14, <2>1, Shaped DEF V
<1>16. ScopeMembers(s) \in Seq(Members(Values))
  <2>1. V \subseteq Values
    BY LowLevels DEF V
  <2>2. Members(V) \subseteq Members(Values)
    BY <2>1 DEF Members
  <2>3. Seq(Members(V)) \subseteq Seq(Members(Values))
    BY <2>2, SeqMonotonic
  <2> QED
    BY <1>14, <2>3
<1>17. Range(ScopeMembers(s)) = ({A, B, C} \cup Range(D)) \cup Range(P)
  BY <1>7, <1>10, <1>11, <1>12
<1> QED
  BY <1>8, <1>9, <1>13, <1>15, <1>16, <1>17 DEF A, B, C

\* What has the fields of an object of the file says the same as it.
LEMMA Remarshalled ==
  ASSUME NEW ms, Sound(Object(ms)),
         NEW ws \in Seq(Members(Values)), Object(ws) \in Values,
         \A n \in Range(ws) : /\ n.key \in Present(Object(ms))
                              /\ SayTheSame(At(Object(ms), n.key), n.value),
         \A key \in Present(Object(ms)) : \E n \in Range(ws) : n.key = key,
         \A m, n \in Range(ws) : m.key = n.key => m = n
  PROVE  SayTheSame(Object(ms), Object(ws))
<1>1. ms \in Seq(Members(Values)) /\ Fielded(Range(ms)) /\ Object(ms) \in Values
  BY SoundInside DEF Sound
<1>2. Present(Object(ms)) = FieldNames(ms)
  BY <1>1, AtIs
<1>3. \A m \in Range(ms) : At(Object(ms), m.key) = m.value
  BY <1>1, AtIs
<1>4. Fielded(Range(ws))
  <2>1. Present(Object(ms)) \subseteq Fields
    BY Fieldwise
  <2> QED
    BY <2>1 DEF Fielded
<1>5. ASSUME NEW m \in Range(ms)
      PROVE  \E n \in Range(ws) : m.key = n.key /\ SayTheSame(m.value, n.value)
  <2>1. m.key \in Present(Object(ms))
    BY <1>2 DEF FieldNames
  <2>2. PICK n \in Range(ws) : n.key = m.key
    BY <2>1
  <2>3. SayTheSame(At(Object(ms), n.key), n.value)
    OBVIOUS
  <2> QED
    BY <1>3, <2>2, <2>3
<1>6. ASSUME NEW n \in Range(ws)
      PROVE  \E m \in Range(ms) : m.key = n.key
  BY <1>2 DEF FieldNames
<1> QED
  BY <1>1, <1>4, <1>5, <1>6, ObjectsSay

\* What is not null is there.
LEMMA SaidIsPresent ==
  ASSUME NEW ms, Sound(Object(ms)), NEW key,
         \/ \E s : At(Object(ms), key) = Str(s)
         \/ \E vs : At(Object(ms), key) = Array(vs)
         \/ \E k : At(Object(ms), key) = Num(k)
         \/ \E ns : At(Object(ms), key) = Object(ns)
  PROVE  key \in Present(Object(ms))
<1>1. At(Object(ms), key) # Null
  BY Kinds
<1> QED
  BY <1>1, Fieldwise

\* An object that was let through is one of the parser's.
LEMMA SoundObject ==
  ASSUME NEW v, Sound(v), Is(v, "object")
  PROVE  \E ms : v = Object(ms)
<1>1. v \in Values
  BY DEF Sound
<1> QED
  BY <1>1, Inner, Kinds

\* A scope that is loaded is marshalled as what its author wrote.
LEMMA ScopeSays ==
  ASSUME NEW v, Sound(v), DecodesScope(v), ValidScope(v)
  PROVE  /\ ScopeOf(v) \in Scopes
         /\ SayTheSame(v, MarshalScope(ScopeOf(v)))
<1>1. PICK ms : v = Object(ms)
  BY SoundObject DEF DecodesScope
<1>2. ~Is(v, "null")
  BY <1>1, Kinds
<1> DEFINE s == ScopeOf(v)
           columns == At(v, "columns_written")
<1>3. s = [operation |-> Keyword(At(v, "operation")), schema |-> Decoded(At(v, "schema")),
           relation |-> Decoded(At(v, "relation")),
           columns_written |-> Columns(columns),
           predicate |-> Decoded(At(v, "predicate"))]
  BY <1>2 DEF ScopeOf
<1>4. /\ s.operation = Keyword(At(v, "operation")) /\ s.schema = Decoded(At(v, "schema"))
      /\ s.relation = Decoded(At(v, "relation")) /\ s.columns_written = Columns(columns)
      /\ s.predicate = Decoded(At(v, "predicate"))
  BY <1>3
<1> HIDE DEF s, columns
<1>5. \A key : Given(At(v, key)) /\ (key \notin Present(v) => At(v, key) = Null)
  BY <1>1, Fieldwise
<1>6. \A key \in {"operation", "schema", "relation", "predicate"} : IsText(At(v, key))
  BY DEF DecodesScope, ScopeFields
<1>7. \A key \in {"operation", "schema", "relation", "predicate"} :
        /\ Decoded(At(v, key)) \in Spellings
        /\ Decoded(At(v, key)) # <<>> => At(v, key) = Str(Decoded(At(v, key)))
        /\ Keyword(At(v, key)) \in Operations => At(v, key) = Str(<<Keyword(At(v, key))>>)
        /\ SayTheSame(At(v, key), At(v, key))
  BY <1>5, <1>6, Text
<1>8. /\ s.operation \in Operations
      /\ s.schema # <<>> /\ s.relation # <<>>
      /\ "columns_written" \in Present(v) => s.columns_written # <<>>
      /\ \A i \in DOMAIN Columns(columns) : ~Blank(Columns(columns)[i])
      /\ "predicate" \in Present(v) => s.predicate # <<>>
  BY <1>4, EmptyStrings DEF ValidScope, columns
<1>9. At(v, "operation") = Str(<<s.operation>>) /\ "operation" \in Present(v)
  BY <1>1, <1>4, <1>7, <1>8, SaidIsPresent
<1>10. /\ At(v, "schema") = Str(s.schema) /\ "schema" \in Present(v)
       /\ At(v, "relation") = Str(s.relation) /\ "relation" \in Present(v)
  BY <1>1, <1>4, <1>7, <1>8, SaidIsPresent
<1>11. s.predicate # <<>> => At(v, "predicate") = Str(s.predicate) /\ "predicate" \in Present(v)
  BY <1>1, <1>4, <1>7, <1>8, SaidIsPresent
<1>12. /\ s.columns_written \in Seq(Spellings)
       /\ s.columns_written # <<>> => columns = ColumnsArray(s) /\ "columns_written" \in Present(v)
       /\ SayTheSame(columns, columns)
  <2>1. Given(columns)
    BY <1>5 DEF columns
  <2>2. Is(columns, "null") \/ (Is(columns, "array") /\ \A i \in DOMAIN columns.array : IsText(columns.array[i]))
    BY DEF DecodesScope, columns
  <2>3. /\ Columns(columns) \in Seq(Spellings)
        /\ Columns(columns) # <<>> =>
             columns = Array([i \in DOMAIN Columns(columns) |-> Str(Columns(columns)[i])])
        /\ SayTheSame(columns, columns)
    BY <1>8, <2>1, <2>2, ColumnsAre
  <2>4. s.columns_written # <<>> => columns = ColumnsArray(s)
    BY <1>4, <2>3 DEF ColumnsArray
  <2>5. s.columns_written # <<>> => "columns_written" \in Present(v)
    BY <1>1, <2>4, SaidIsPresent DEF ColumnsArray, columns
  <2> QED
    BY <1>4, <2>3, <2>4, <2>5
<1>13. s \in Scopes
  <2>1. s.schema \in Spellings /\ s.relation \in Spellings /\ s.predicate \in Spellings
    BY <1>4, <1>7
  <2> QED
    BY <1>3, <1>4, <1>8, <1>12, <2>1 DEF Scopes
<1>14. SayTheSame(v, MarshalScope(s))
  <2> DEFINE ws == ScopeMembers(s)
             A == Member("operation", Str(<<s.operation>>))
             B == Member("schema", Str(s.schema))
             C == Member("relation", Str(s.relation))
             D == Member("columns_written", columns)
             F == Member("predicate", At(v, "predicate"))
  <2>1. MarshalScope(s) = Object(ws) /\ Object(ws) \in Values /\ ws \in Seq(Members(Values))
    <3>1. 2 \in 1..5
      OBVIOUS
    <3>2. MarshalScope(s) = Object(ws) /\ MarshalScope(s) \in ValuesUpTo[2] /\ ws \in Seq(Members(Values))
      BY <1>13, MarshalledScope
    <3>3. ValuesUpTo[2] \subseteq Values
      BY <3>1, LowLevels
    <3> QED
      BY <3>2, <3>3
  <2>2. Range(ws) = {A, B, C} \cup (IF s.columns_written = <<>> THEN {} ELSE {D})
                              \cup (IF s.predicate = <<>> THEN {} ELSE {F})
    BY <1>11, <1>12, <1>13, MarshalledScope
  <2>3. /\ A.key = "operation" /\ B.key = "schema" /\ C.key = "relation"
        /\ D.key = "columns_written" /\ F.key = "predicate"
        /\ A.value = At(v, "operation") /\ B.value = At(v, "schema")
        /\ C.value = At(v, "relation") /\ D.value = At(v, "columns_written")
        /\ F.value = At(v, "predicate")
    BY <1>9, <1>10, Contents DEF columns
  <2>4. Present(v) \subseteq {"operation", "schema", "relation", "columns_written", "predicate"}
    BY DEF DecodesScope, ScopeFields
  <2> HIDE DEF ws, A, B, C, D, F
  <2>5. \A n \in Range(ws) : n.key \in Present(v) /\ n.value = At(v, n.key)
    BY <1>9, <1>10, <1>11, <1>12, <2>2, <2>3
  <2>6. \A key \in Present(v) : \E n \in Range(ws) : n.key = key
    BY <1>8, <2>2, <2>3, <2>4
  <2>7. \A m, n \in Range(ws) : m.key = n.key => m = n
    BY <2>2, <2>3
  <2>8. \A key \in Present(v) : SayTheSame(At(v, key), At(v, key))
    BY <1>7, <1>12, <2>4 DEF columns
  <2> QED
    BY <1>1, <2>1, <2>5, <2>6, <2>7, <2>8, Remarshalled
<1> QED
  BY <1>13, <1>14 DEF s

\* The members of a vector that is marshalled.
VectorMembers(v) ==
  <<Member("name", Str(v.name)), Member("statement", Str(v.statement)),
    Member("verdict", Str(<<v.verdict>>))>>
  \o Unless(v.scope = None, "scope", MarshalScope(v.scope))
  \o Unless(v.because = <<>>, "because", Str(v.because))

\* A vector is an object of strings and of a scope.
LEMMA MarshalledVector ==
  ASSUME NEW v \in Vectors
  PROVE  /\ MarshalVector(v) = Object(VectorMembers(v))
         /\ MarshalVector(v) \in ValuesUpTo[3]
         /\ VectorMembers(v) \in Seq(Members(Values))
         /\ Range(VectorMembers(v)) =
              {Member("name", Str(v.name)), Member("statement", Str(v.statement)),
               Member("verdict", Str(<<v.verdict>>))}
              \cup (IF v.scope = None THEN {} ELSE {Member("scope", MarshalScope(v.scope))})
              \cup (IF v.because = <<>> THEN {} ELSE {Member("because", Str(v.because))})
<1> DEFINE V == ValuesUpTo[2]
           M == Members(V)
           A == Member("name", Str(v.name))
           B == Member("statement", Str(v.statement))
           C == Member("verdict", Str(<<v.verdict>>))
           noScope == (v.scope = None)
           noBecause == (v.because = <<>>)
           scope == MarshalScope(v.scope)
           because == Str(v.because)
           D == Unless(noScope, "scope", scope)
           P == Unless(noBecause, "because", because)
<1>1. /\ v.name \in Spellings /\ v.statement \in Spellings /\ v.verdict \in Verdicts
      /\ v.scope = None \/ v.scope \in Scopes
      /\ v.because \in Spellings
  BY DEF Vectors
<1>2. \A t \in Spellings : Str(t) \in V
  <2>1. 2 \in 1..5
    OBVIOUS
  <2>2. 2 \in 0..Nesting
    BY <2>1, LowLevels
  <2> QED
    BY <2>2, Shaped
<1>3. <<v.verdict>> \in Spellings
  BY <1>1, EmptyStrings
<1>4. ~noScope => scope \in V
  BY <1>1, MarshalledScope
<1>5. {"name", "statement", "verdict", "scope", "because"} \subseteq Keys
  BY FieldsAreKeys DEF Fields, VectorFields
<1>6. A \in M /\ B \in M /\ C \in M
  <2>1. \A key \in Keys, x \in V : Member(key, x) \in M
    BY DEF Member, Members
  <2> HIDE DEF M, V
  <2> QED
    BY <1>1, <1>2, <1>3, <1>5, <2>1
<1> HIDE DEF A, B, C, M
<1> DEFINE T == <<A, B, C>>
<1>7. T \in Seq(M) /\ Range(T) = {A, B, C}
  BY <1>6, Triple
<1>8. D \in Seq(M) /\ Range(D) = IF noScope THEN {} ELSE {Member("scope", scope)}
  <2>1. noScope \in BOOLEAN /\ "scope" \in Keys
    BY <1>5
  <2> HIDE DEF noScope, scope, V
  <2> QED
    BY <1>4, <2>1, Optional DEF M
<1>9. P \in Seq(M) /\ Range(P) = IF noBecause THEN {} ELSE {Member("because", because)}
  <2>1. noBecause \in BOOLEAN /\ "because" \in Keys /\ because \in V
    BY <1>1, <1>2, <1>5
  <2> HIDE DEF noBecause, because, V
  <2> QED
    BY <2>1, Optional DEF M
<1> HIDE DEF T, D, P, V
<1> DEFINE L == T \o D
<1>10. L \in Seq(M) /\ Range(L) = Range(T) \cup Range(D)
  BY <1>7, <1>8, RangeConcat
<1> HIDE DEF L
<1>11. L \o P \in Seq(M) /\ Range(L \o P) = Range(L) \cup Range(P)
  BY <1>9, <1>10, RangeConcat
<1>12. VectorMembers(v) = L \o P
  BY DEF VectorMembers, L, T, A, B, C, D, P
<1>13. MarshalVector(v) = Object(VectorMembers(v))
  BY DEF MarshalVector, VectorMembers, Unless
<1>14. VectorMembers(v) \in Seq(Members(V))
  BY <1>11, <1>12 DEF M
<1>15. Object(VectorMembers(v)) \in ValuesUpTo[3]
  <2>1. 3 \in 1..5
    OBVIOUS
  <2>2. 3 \in 1..Nesting /\ 3 - 1 = 2
    BY <2>1, LowLevels
  <2> QED
    BY <1>14, <2>2, Shaped DEF V
<1>16. VectorMembers(v) \in Seq(Members(Values))
  <2>1. V \subseteq Values
    <3>1. 2 \in 1..5
      OBVIOUS
    <3> QED
      BY <3>1, LowLevels DEF V
  <2>2. Members(V) \subseteq Members(Values)
    BY <2>1 DEF Members
  <2>3. Seq(Members(V)) \subseteq Seq(Members(Values))
    BY <2>2, SeqMonotonic
  <2> QED
    BY <1>14, <2>3
<1>17. Range(VectorMembers(v)) = ({A, B, C} \cup Range(D)) \cup Range(P)
  BY <1>7, <1>10, <1>11, <1>12
<1> QED
  BY <1>8, <1>9, <1>13, <1>15, <1>16, <1>17 DEF A, B, C

\* A vector that is loaded is marshalled as what its author wrote.
LEMMA VectorSays ==
  ASSUME NEW v, Sound(v), DecodesVector(v), ValidVector(v)
  PROVE  /\ VectorOf(v) \in Vectors
         /\ SayTheSame(v, MarshalVector(VectorOf(v)))
<1>1. PICK ms : v = Object(ms)
  BY SoundObject DEF DecodesVector
<1> DEFINE u == VectorOf(v)
           scope == At(v, "scope")
<1>2. u = [name |-> Decoded(At(v, "name")), statement |-> Decoded(At(v, "statement")),
           verdict |-> Keyword(At(v, "verdict")), scope |-> ScopeOf(scope),
           because |-> Decoded(At(v, "because"))]
  BY DEF VectorOf
<1>3. /\ u.name = Decoded(At(v, "name")) /\ u.statement = Decoded(At(v, "statement"))
      /\ u.verdict = Keyword(At(v, "verdict")) /\ u.scope = ScopeOf(scope)
      /\ u.because = Decoded(At(v, "because"))
  BY <1>2
<1> HIDE DEF u, scope
<1>4. \A key : Given(At(v, key)) /\ (key \notin Present(v) => At(v, key) = Null)
  BY <1>1, Fieldwise
<1>5. \A key \in {"name", "statement", "verdict", "because"} : IsText(At(v, key))
  BY DEF DecodesVector, VectorFields
<1>6. \A key \in {"name", "statement", "verdict", "because"} :
        /\ Decoded(At(v, key)) \in Spellings
        /\ Decoded(At(v, key)) # <<>> => At(v, key) = Str(Decoded(At(v, key)))
        /\ Keyword(At(v, key)) \in Verdicts => At(v, key) = Str(<<Keyword(At(v, key))>>)
        /\ SayTheSame(At(v, key), At(v, key))
  BY <1>4, <1>5, Text
<1>7. u.name # <<>> /\ u.statement # <<>> /\ u.verdict \in Verdicts
  BY <1>3, EmptyStrings DEF ValidVector
<1>8. At(v, "name") = Str(u.name) /\ "name" \in Present(v)
  BY <1>1, <1>3, <1>6, <1>7, SaidIsPresent
<1>9. At(v, "statement") = Str(u.statement) /\ "statement" \in Present(v)
  BY <1>1, <1>3, <1>6, <1>7, SaidIsPresent
<1>10. At(v, "verdict") = Str(<<u.verdict>>) /\ "verdict" \in Present(v)
  BY <1>1, <1>3, <1>6, <1>7, SaidIsPresent
<1>11. u.because # <<>> => At(v, "because") = Str(u.because) /\ "because" \in Present(v)
  BY <1>1, <1>3, <1>6, SaidIsPresent
<1>12. "because" \in Present(v) => u.because # <<>>
  BY <1>3, EmptyStrings DEF ValidVector
<1>13. /\ "scope" \in Present(v) <=> u.scope # None
       /\ u.scope # None => u.scope \in Scopes /\ SayTheSame(scope, MarshalScope(u.scope))
  <2>1. CASE u.verdict = "in_subset"
    <3>1. Is(scope, "object") /\ ValidScope(scope)
      BY <1>3, <2>1 DEF ValidVector, scope
    <3>2. scope # Null /\ ~Is(scope, "null")
      <4>1. ~Is(Null, "object")
        BY Kinds
      <4>2. scope # Null
        BY <3>1, <4>1
      <4>3. Sound(scope)
        BY <1>4, <4>2 DEF Given, scope
      <4>4. PICK ns : scope = Object(ns)
        BY <3>1, <4>3, SoundObject
      <4> QED
        BY <4>2, <4>4, Kinds
    <3>3. Sound(scope) /\ DecodesScope(scope)
      BY <1>4, <3>2 DEF Given, DecodesVector, scope
    <3>4. u.scope \in Scopes /\ SayTheSame(scope, MarshalScope(u.scope))
      BY <1>3, <3>1, <3>3, ScopeSays
    <3>5. "scope" \in Present(v)
      BY <1>4, <3>2 DEF scope
    <3>6. u.scope # None
      BY <3>4, ConformanceAssumption DEF ConformanceAssumption
    <3> QED
      BY <3>4, <3>5, <3>6
  <2>2. CASE u.verdict # "in_subset"
    <3>1. "scope" \notin Present(v)
      BY <1>3, <2>2 DEF ValidVector
    <3>2. scope = Null /\ Is(scope, "null")
      BY <1>4, <3>1, Kinds DEF scope
    <3>3. u.scope = None
      BY <1>3, <3>2 DEF ScopeOf
    <3> QED
      BY <3>1, <3>3
  <2> QED
    BY <2>1, <2>2
<1>14. u \in Vectors
  <2>1. u.name \in Spellings /\ u.statement \in Spellings /\ u.because \in Spellings
    BY <1>3, <1>6
  <2>2. u.scope \in Scopes \cup {None}
    BY <1>13
  <2> QED
    BY <1>2, <1>3, <1>7, <2>1, <2>2 DEF Vectors
<1>15. SayTheSame(v, MarshalVector(u))
  <2> DEFINE ws == VectorMembers(u)
             A == Member("name", Str(u.name))
             B == Member("statement", Str(u.statement))
             C == Member("verdict", Str(<<u.verdict>>))
             D == Member("scope", MarshalScope(u.scope))
             F == Member("because", At(v, "because"))
  <2>1. MarshalVector(u) = Object(ws) /\ Object(ws) \in Values /\ ws \in Seq(Members(Values))
    <3>1. 3 \in 1..5
      OBVIOUS
    <3>2. MarshalVector(u) = Object(ws) /\ MarshalVector(u) \in ValuesUpTo[3] /\ ws \in Seq(Members(Values))
      BY <1>14, MarshalledVector
    <3>3. ValuesUpTo[3] \subseteq Values
      BY <3>1, LowLevels
    <3> QED
      BY <3>2, <3>3
  <2>2. Range(ws) = {A, B, C} \cup (IF u.scope = None THEN {} ELSE {D})
                              \cup (IF u.because = <<>> THEN {} ELSE {F})
    BY <1>11, <1>14, MarshalledVector
  <2>3. /\ A.key = "name" /\ B.key = "statement" /\ C.key = "verdict"
        /\ D.key = "scope" /\ F.key = "because"
        /\ A.value = At(v, "name") /\ B.value = At(v, "statement")
        /\ C.value = At(v, "verdict") /\ D.value = MarshalScope(u.scope)
        /\ F.value = At(v, "because")
    BY <1>8, <1>9, <1>10, Contents
  <2>4. Present(v) \subseteq {"name", "statement", "verdict", "scope", "because"}
    BY DEF DecodesVector, VectorFields
  <2> HIDE DEF ws, A, B, C, D, F
  <2>5. \A n \in Range(ws) : n.key \in Present(v)
    BY <1>8, <1>9, <1>10, <1>11, <1>13, <2>2, <2>3
  <2>6. \A key \in Present(v) : \E n \in Range(ws) : n.key = key
    BY <1>12, <1>13, <2>2, <2>3, <2>4
  <2>7. \A m, n \in Range(ws) : m.key = n.key => m = n
    BY <2>2, <2>3
  <2>8. \A n \in Range(ws) : SayTheSame(At(v, n.key), n.value)
    BY <1>6, <1>13, <2>2, <2>3 DEF scope
  <2> QED
    BY <1>1, <2>1, <2>5, <2>6, <2>7, <2>8, Remarshalled
<1> QED
  BY <1>14, <1>15 DEF u

\* The vectors of a corpus, marshalled.
VectorsArray(c) == Array([i \in DOMAIN c.vectors |-> MarshalVector(c.vectors[i])])

CorpusMembers(c) ==
  <<Member("subset_version", Num(c.subset_version)), Member("vectors", VectorsArray(c))>>

\* A corpus is an object of a number and of an array of vectors.
LEMMA MarshalledCorpus ==
  ASSUME NEW c \in Corpora
  PROVE  /\ Marshal(c) = Object(CorpusMembers(c))
         /\ Marshal(c) \in Values
         /\ VectorsArray(c) \in Values
         /\ CorpusMembers(c) \in Seq(Members(Values))
         /\ Range(CorpusMembers(c)) =
              {Member("subset_version", Num(c.subset_version)), Member("vectors", VectorsArray(c))}
<1> DEFINE V == ValuesUpTo[4]
           M == Members(V)
           us == c.vectors
           n == Len(us)
           ws == [i \in 1..n |-> MarshalVector(us[i])]
           A == Member("subset_version", Num(c.subset_version))
           B == Member("vectors", VectorsArray(c))
<1>1. c.subset_version \in 0..MaxExact /\ us \in Seq(Vectors)
  BY DEF Corpora
<1>2. us # None
  BY <1>1, ConformanceAssumption DEF ConformanceAssumption
<1>3. Marshal(c) = Object(CorpusMembers(c))
  BY <1>2 DEF Marshal, CorpusMembers, VectorsArray
<1>4. /\ 4 \in 0..Nesting /\ 4 \in 1..Nesting /\ 5 \in 1..Nesting /\ 4 - 1 = 3 /\ 5 - 1 = 4
      /\ V \subseteq Values /\ ValuesUpTo[5] \subseteq Values
  <2>1. 4 \in 1..5 /\ 5 \in 1..5 /\ 4 - 1 = 3 /\ 5 - 1 = 4
    OBVIOUS
  <2> QED
    BY <2>1, LowLevels
<1>5. VectorsArray(c) \in V
  <2>1. DOMAIN us = 1..n /\ n \in Nat /\ \A i \in 1..n : us[i] \in Vectors
    BY <1>1
  <2>2. \A i \in 1..n : MarshalVector(us[i]) \in ValuesUpTo[3]
    BY <2>1, MarshalledVector
  <2>3. ws \in [1..n -> ValuesUpTo[3]]
    BY <2>2
  <2>4. VectorsArray(c) = Array(ws)
    BY <2>1 DEF VectorsArray
  <2> HIDE DEF ws, n
  <2>5. ws \in Seq(ValuesUpTo[3])
    BY <2>1, <2>3
  <2> QED
    BY <1>4, <2>4, <2>5, Shaped
<1>6. Num(c.subset_version) \in V
  <2>1. c.subset_version \in Int
    BY <1>1, ConformanceAssumption DEF ConformanceAssumption
  <2> QED
    BY <1>4, <2>1, Shaped
<1>7. A \in M /\ B \in M
  <2>1. {"subset_version", "vectors"} \subseteq Keys
    BY FieldsAreKeys DEF Fields, CorpusFields
  <2>2. \A key \in Keys, x \in V : Member(key, x) \in M
    BY DEF Member, Members
  <2> HIDE DEF M, V
  <2> QED
    BY <1>5, <1>6, <2>1, <2>2
<1> HIDE DEF A, B, M
<1>8. <<A, B>> \in Seq(M) /\ Range(<<A, B>>) = {A, B}
  BY <1>7, Pair
<1>9. CorpusMembers(c) = <<A, B>>
  BY DEF CorpusMembers, A, B
<1>10. CorpusMembers(c) \in Seq(Members(V))
  BY <1>8, <1>9 DEF M
<1>11. Object(CorpusMembers(c)) \in Values
  BY <1>4, <1>10, Shaped
<1>12. CorpusMembers(c) \in Seq(Members(Values))
  <2>1. Members(V) \subseteq Members(Values)
    BY <1>4 DEF Members
  <2>2. Seq(Members(V)) \subseteq Seq(Members(Values))
    BY <2>1, SeqMonotonic
  <2> QED
    BY <1>10, <2>2
<1> QED
  BY <1>3, <1>4, <1>5, <1>8, <1>9, <1>11, <1>12 DEF A, B

\* A corpus that is loaded is marshalled as what its authors wrote.
LEMMA CorpusSays ==
  ASSUME NEW v, Sound(v), DecodesCorpus(<<v>>), ExactVersion(At(v, "subset_version").num),
         ValidVectors(At(v, "vectors").array)
  PROVE  /\ CorpusOf(v) \in Corpora
         /\ SayTheSame(v, Marshal(CorpusOf(v)))
<1> DEFINE c == CorpusOf(v)
           version == At(v, "subset_version")
           vectors == At(v, "vectors")
<1>1. /\ Is(v, "object") /\ Present(v) \subseteq CorpusFields
      /\ Is(version, "num") /\ Is(vectors, "array")
  <2>1. <<v>>[1] = v
    OBVIOUS
  <2> QED
    BY <2>1 DEF DecodesCorpus
<1>2. PICK ms : v = Object(ms)
  BY <1>1, SoundObject
<1> HIDE DEF c, version, vectors
<1>3. \A key : Given(At(v, key)) /\ (key \notin Present(v) => At(v, key) = Null)
  BY <1>2, Fieldwise
<1>4. Sound(version) /\ Sound(vectors)
  <2>1. version # Null /\ vectors # Null
    BY <1>1, Kinds
  <2> QED
    BY <1>3, <2>1 DEF Given, version, vectors
<1>5. PICK k \in 0..MaxExact : version = Num(k)
  <2>1. version \in Values
    BY <1>4 DEF Sound
  <2>2. PICK k : version = Num(k)
    BY <1>1, <2>1, Inner, Kinds
  <2>3. k \in 0..MaxExact
    BY <2>2, Contents DEF ExactVersion, version
  <2> QED
    BY <2>2, <2>3
<1>6. PICK vs : vectors = Array(vs)
  <2>1. vectors \in Values
    BY <1>4 DEF Sound
  <2> QED
    BY <1>1, <2>1, Inner, Kinds
<1>7. vectors.array = vs /\ vs \in Seq(Values) /\ \A i \in 1..Len(vs) : Sound(vs[i])
  BY <1>4, <1>6, Contents, SoundInside
<1> DEFINE n == Len(vs)
           us == [i \in 1..n |-> VectorOf(vs[i])]
<1>8. DOMAIN vs = 1..n /\ n \in Nat
  BY <1>7
<1>9. \A i \in 1..n : DecodesVector(vs[i]) /\ ValidVector(vs[i])
  BY <1>7, <1>8 DEF ValidVectors, vectors
<1>10. \A i \in 1..n : VectorOf(vs[i]) \in Vectors /\ SayTheSame(vs[i], MarshalVector(VectorOf(vs[i])))
  BY <1>7, <1>9, VectorSays
<1>11. us \in Seq(Vectors)
  <2>1. us \in [1..n -> Vectors]
    BY <1>10
  <2> HIDE DEF us, n
  <2> QED
    BY <1>8, <2>1
<1>12. c = [subset_version |-> k, vectors |-> us]
  BY <1>5, <1>7, <1>8, Contents DEF CorpusOf, c, version, vectors
<1>13. c.subset_version = k /\ c.vectors = us
  BY <1>12
<1>14. c \in Corpora
  <2> HIDE DEF us
  <2> QED
    BY <1>11, <1>12 DEF Corpora
<1>15. SayTheSame(vectors, VectorsArray(c))
  <2> DEFINE ws == [i \in 1..n |-> MarshalVector(us[i])]
  <2>1. VectorsArray(c) = Array(ws)
    BY <1>13 DEF VectorsArray
  <2>2. \A i \in 1..n : MarshalVector(VectorOf(vs[i])) \in Values
    <3>1. 3 \in 1..5
      OBVIOUS
    <3>2. ValuesUpTo[3] \subseteq Values
      BY <3>1, LowLevels
    <3> QED
      BY <1>10, <3>2, MarshalledVector
  <2>3. ws \in [1..n -> Values]
    BY <2>2
  <2>4. \A i \in 1..n : SayTheSame(vs[i], ws[i])
    BY <1>10
  <2>5. Array(ws) \in Values
    BY <1>14, <2>1, MarshalledCorpus
  <2> HIDE DEF ws
  <2>6. ws \in Seq(Values) /\ Len(ws) = n
    <3> HIDE DEF n
    <3> QED
      BY <1>8, <2>3
  <2>7. Array(vs) \in Values
    BY <1>4, <1>6 DEF Sound
  <2> QED
    BY <1>6, <1>7, <2>1, <2>4, <2>5, <2>6, <2>7, ArraysSay
<1>16. SayTheSame(v, Marshal(c))
  <2> DEFINE ws == CorpusMembers(c)
             A == Member("subset_version", Num(k))
             B == Member("vectors", VectorsArray(c))
  <2>1. Marshal(c) = Object(ws) /\ Object(ws) \in Values /\ ws \in Seq(Members(Values))
    BY <1>14, MarshalledCorpus
  <2>2. Range(ws) = {A, B}
    BY <1>13, <1>14, MarshalledCorpus
  <2>3. A.key = "subset_version" /\ B.key = "vectors" /\ A.value = Num(k) /\ B.value = VectorsArray(c)
    BY Contents
  <2>4. "subset_version" \in Present(v) /\ "vectors" \in Present(v)
    BY <1>2, <1>5, <1>6, SaidIsPresent DEF version, vectors
  <2>5. Present(v) \subseteq {"subset_version", "vectors"}
    BY <1>1 DEF CorpusFields
  <2>6. SayTheSame(At(v, "subset_version"), Num(k))
    BY <1>5, ScalarsSay DEF version
  <2>7. SayTheSame(At(v, "vectors"), VectorsArray(c))
    BY <1>15 DEF vectors
  <2> HIDE DEF ws, A, B
  <2>8. \A m \in Range(ws) : m.key \in Present(v) /\ SayTheSame(At(v, m.key), m.value)
    BY <2>2, <2>3, <2>4, <2>6, <2>7
  <2>9. \A key \in Present(v) : \E m \in Range(ws) : m.key = key
    BY <2>2, <2>3, <2>5
  <2>10. \A l, m \in Range(ws) : l.key = m.key => l = m
    BY <2>2, <2>3
  <2> QED
    BY <1>2, <2>1, <2>8, <2>9, <2>10, Remarshalled
<1> QED
  BY <1>14, <1>16 DEF c

\* A file that loads is one document, which was let through.
LEMMA FileSound ==
  ASSUME NEW values \in Seq(Values), Loads(values)
  PROVE  /\ Len(values) = 1 /\ Sound(values[1]) /\ DecodesCorpus(<<values[1]>>)
         /\ ExactVersion(At(values[1], "subset_version").num)
         /\ ValidVectors(At(values[1], "vectors").array)
<1> DEFINE v == values[1]
           streams == [i \in DOMAIN values |-> Tokens(values[i])]
           tokens == FlattenSeq(streams)
           text == FlattenSeq([i \in DOMAIN tokens |-> Spelled(tokens[i])])
<1>1. /\ ValidUTF8(text) /\ CheckEscapes(text) /\ CheckKeys(tokens)
      /\ DecodesCorpus(values)
      /\ ExactVersion(At(v, "subset_version").num) /\ ValidVectors(At(v, "vectors").array)
  BY DEF Loads
<1>2. Len(values) = 1
  BY <1>1 DEF DecodesCorpus
<1>3. v \in Values /\ DOMAIN values = {1} /\ values = <<v>>
  <2>1. DOMAIN values = 1..1
    BY <1>2
  <2>2. v \in Values
    BY <2>1
  <2> QED
    BY <1>2, <2>1, <2>2
<1>4. tokens = Tokens(v)
  <2>1. streams = <<Tokens(v)>>
    BY <1>3
  <2>2. Tokens(v) \in Seq(AllTokens)
    BY <1>3, TokensTyped
  <2> HIDE DEF streams
  <2> QED
    BY <2>1, <2>2, FlattenOne
<1>5. text = TextOf(tokens)
  BY DEF TextOf
<1> HIDE DEF v, tokens, text
<1>6. Passes(v)
  BY <1>1, <1>4, KeysChecked
<1>7. Whole(v)
  BY <1>1, <1>3, <1>4, <1>5, TextChecked
<1>8. Sound(v)
  BY <1>3, <1>6, <1>7 DEF Sound
<1>9. DecodesCorpus(<<v>>)
  BY <1>1, <1>3
<1> QED
  BY <1>1, <1>2, <1>8, <1>9 DEF v

\* It says what the corpus says.
LEMMA FileSays ==
  ASSUME NEW values \in Seq(Values), Loads(values)
  PROVE  /\ Len(values) = 1
         /\ CorpusOf(values[1]) \in Corpora
         /\ SayTheSame(values[1], Marshal(CorpusOf(values[1])))
BY FileSound, CorpusSays

-----------------------------------------------------------------------------
(* What checkEscapes lets through.                                         *)

\* No pair of surrogates reaches over place i.
Beyond(text, i) ==
  \A g \in 1..Len(text) : g < i /\ EscapeAt(text, g, "HI") => g + 6 <= i

\* Where every surrogate has its partner, a turn does not fail.
LEMMA EscapePass ==
  ASSUME NEW S, NEW text \in Seq(S), Paired(text, Len(text) + 1),
         NEW b, b.ok, b.i \in Nat, b.i >= 1, b.i <= Len(text),
         Unescaped(text, b.i), Beyond(text, b.i)
  PROVE  LET after == EscapeTurn(text, b)
         IN /\ after.ok /\ after.i \in Nat /\ after.i > b.i
            /\ Unescaped(text, after.i) /\ Beyond(text, after.i)
<1> DEFINE i == b.i
           N == Len(text)
           fail == [i |-> i, ok |-> FALSE]
           GoOn(j) == [i |-> j, ok |-> TRUE]
           Good(j) == j \in Nat /\ j > i /\ Unescaped(text, j) /\ Beyond(text, j)
<1>1. i \in Nat /\ i >= 1 /\ i <= N /\ N \in Nat /\ N = Len(text) /\ DOMAIN text = 1..N
  OBVIOUS
<1>2. Unescaped(text, i) /\ Beyond(text, i) /\ Paired(text, N + 1) /\ b.ok /\ ~(i > N)
  BY <1>1
<1>3. \A j : GoOn(j).i = j /\ GoOn(j).ok
  OBVIOUS
<1>4. EscapeTurn(text, b) =
        CASE text[i] # "\\" -> GoOn(i + 1)
          [] Unicode(text, i, "LO") -> fail
          [] Unicode(text, i, "HI") -> IF Unicode(text, i + 3, "LO") THEN GoOn(i + 6) ELSE fail
          [] Unicode(text, i, "BMP") -> GoOn(i + 3)
          [] OTHER -> GoOn(i + 2)
  BY <1>2, Zenon DEF EscapeTurn
<1> HIDE DEF i, N, fail, GoOn
<1>5. /\ text[i] # "\\" => ~Unicode(text, i, "LO") /\ ~Unicode(text, i, "HI") /\ ~Unicode(text, i, "BMP")
      /\ Unicode(text, i, "HI") => ~Unicode(text, i, "LO") /\ ~Unicode(text, i, "BMP")
      /\ Unicode(text, i, "BMP") => ~Unicode(text, i, "LO")
  BY DEF Unicode
<1>6. /\ text[i] # "\\" => EscapeTurn(text, b) = GoOn(i + 1)
      /\ Unicode(text, i, "HI") /\ Unicode(text, i + 3, "LO") => EscapeTurn(text, b) = GoOn(i + 6)
      /\ Unicode(text, i, "BMP") => EscapeTurn(text, b) = GoOn(i + 3)
      /\ text[i] = "\\" /\ ~Unicode(text, i, "LO") /\ ~Unicode(text, i, "HI") /\ ~Unicode(text, i, "BMP")
           => EscapeTurn(text, b) = GoOn(i + 2)
  BY <1>4, <1>5
<1>7. \A g : EscapeAt(text, g, "HI") => text[g] = "\\" /\ Unescaped(text, g)
  BY DEF EscapeAt, StartsEscape
<1>8. \A m \in Nat : m >= 1 =>
        /\ text[m] # "\\" => Unescaped(text, m + 1)
        /\ Unescaped(text, m) /\ text[m] = "\\" => ~Unescaped(text, m + 1) /\ Unescaped(text, m + 2)
  BY UnescapedSteps
<1>9. \A d : Unicode(text, i, d) => EscapeAt(text, i, d)
  BY <1>1, <1>2 DEF EscapeAt, StartsEscape, Unicode
<1>10. \A g \in 1..N : g < i /\ EscapeAt(text, g, "HI") => g + 6 <= i
  BY <1>2 DEF Beyond, N
<1>11. CASE text[i] # "\\"
  <2>1. Unescaped(text, i + 1)
    BY <1>1, <1>8, <1>11
  <2>2. Beyond(text, i + 1)
    BY <1>1, <1>7, <1>10, <1>11 DEF Beyond, N
  <2>3. Good(i + 1)
    BY <1>1, <2>1, <2>2
  <2> QED
    BY <1>3, <1>6, <1>11, <2>3 DEF i
<1>12. ~Unicode(text, i, "LO")
  <2> SUFFICES ASSUME Unicode(text, i, "LO") PROVE FALSE
    OBVIOUS
  <2>1. i > 3 /\ EscapeAt(text, i - 3, "HI")
    BY <1>1, <1>2, <1>9 DEF Paired, N
  <2>2. i - 3 \in 1..N /\ i - 3 < i /\ ~((i - 3) + 6 <= i)
    BY <1>1, <2>1
  <2> QED
    BY <1>10, <2>1, <2>2
<1>13. CASE Unicode(text, i, "HI")
  <2>1. EscapeAt(text, i + 3, "LO")
    BY <1>1, <1>2, <1>9, <1>13 DEF Paired, N
  <2>2. Unicode(text, i + 3, "LO")
    BY <2>1 DEF EscapeAt
  <2>3. /\ text[i] = "\\" /\ text[i + 1] = "u" /\ text[i + 2] = "HI"
        /\ text[i + 3] = "\\" /\ text[i + 4] = "u" /\ text[i + 5] = "LO"
    BY <1>1, <1>13, <2>2 DEF Unicode, N
  <2>4. Unescaped(text, i + 3) /\ Unescaped(text, i + 6)
    BY <1>1, <1>8, <2>3
  <2>5. ASSUME NEW g \in 1..N, g < i + 6, EscapeAt(text, g, "HI")
        PROVE  g + 6 <= i + 6
    <3>1. g # i + 1 /\ g # i + 2 /\ g # i + 4 /\ g # i + 5
      BY <1>7, <2>3, <2>5
    <3>2. g # i + 3
      BY <1>1, <2>3, <2>5 DEF EscapeAt, Unicode
    <3> QED
      BY <1>1, <2>5, <3>1, <3>2
  <2>6. Beyond(text, i + 6)
    BY <2>5 DEF Beyond, N
  <2>7. Good(i + 6)
    BY <1>1, <2>4, <2>6
  <2> QED
    BY <1>3, <1>6, <1>13, <2>2, <2>7 DEF i
<1>14. CASE Unicode(text, i, "BMP")
  <2>1. text[i] = "\\" /\ text[i + 1] = "u" /\ text[i + 2] = "BMP"
    BY <1>14 DEF Unicode
  <2>2. Unescaped(text, i + 3)
    BY <1>1, <1>8, <2>1
  <2>3. ASSUME NEW g \in 1..N, g < i + 3, EscapeAt(text, g, "HI")
        PROVE  g + 6 <= i + 3
    <3>1. g # i + 1 /\ g # i + 2
      BY <1>7, <2>1, <2>3
    <3>2. g # i
      BY <2>1, <2>3 DEF EscapeAt, Unicode
    <3> QED
      BY <1>1, <1>10, <2>3, <3>1, <3>2
  <2>4. Beyond(text, i + 3)
    BY <2>3 DEF Beyond, N
  <2>5. Good(i + 3)
    BY <1>1, <2>2, <2>4
  <2> QED
    BY <1>3, <1>6, <1>14, <2>5 DEF i
<1>15. CASE text[i] = "\\" /\ ~Unicode(text, i, "HI") /\ ~Unicode(text, i, "BMP")
  <2>1. Unescaped(text, i + 2) /\ ~Unescaped(text, i + 1)
    BY <1>1, <1>2, <1>8, <1>15
  <2>2. ASSUME NEW g \in 1..N, g < i + 2, EscapeAt(text, g, "HI")
        PROVE  g + 6 <= i + 2
    <3>1. g # i + 1
      BY <1>7, <2>1, <2>2
    <3>2. g # i
      BY <1>15, <2>2 DEF EscapeAt
    <3> QED
      BY <1>1, <1>10, <2>2, <3>1, <3>2
  <2>3. Beyond(text, i + 2)
    BY <2>2 DEF Beyond, N
  <2>4. Good(i + 2)
    BY <1>1, <2>1, <2>3
  <2> QED
    BY <1>3, <1>6, <1>12, <1>15, <2>4 DEF i
<1> QED
  BY <1>11, <1>13, <1>14, <1>15

\* A text whose surrogates come in pairs is let through.
LEMMA EscapesPass ==
  ASSUME NEW S, NEW text \in Seq(S), Paired(text, Len(text) + 1)
  PROVE  CheckEscapes(text)
<1> DEFINE N == Len(text)
           turn == EscapeTurns(text)
           Good(k) == /\ turn[k].ok /\ turn[k].i \in Nat /\ turn[k].i >= 1
                      /\ Unescaped(text, turn[k].i) /\ Beyond(text, turn[k].i)
           T == {k \in 0..N : Good(k)}
<1>1. N \in Nat /\ N = Len(text)
  OBVIOUS
<1>2. turn[0] = [i |-> 1, ok |-> TRUE] /\ \A k \in 1..N : turn[k] = EscapeTurn(text, turn[k - 1])
  BY <1>1, EscapesLoop
<1> HIDE DEF N, turn
<1>3. Good(0)
  <2>1. turn[0].i = 1 /\ turn[0].ok
    BY <1>2
  <2>2. Unescaped(text, 1)
    BY UnescapedSteps
  <2>3. Beyond(text, 1)
    BY DEF Beyond
  <2> QED
    BY <2>1, <2>2, <2>3
<1>4. ASSUME NEW k \in 1..N, Good(k - 1)
      PROVE  Good(k)
  <2> DEFINE b == turn[k - 1]
  <2>1. turn[k] = EscapeTurn(text, b)
    BY <1>2
  <2>2. CASE b.i > N
    <3>1. turn[k] = b
      BY <2>1, <2>2 DEF EscapeTurn, N
    <3> QED
      BY <1>4, <3>1
  <2>3. CASE ~(b.i > N)
    <3>1. b.ok /\ b.i \in Nat /\ b.i >= 1 /\ Unescaped(text, b.i) /\ Beyond(text, b.i)
      BY <1>4
    <3>2. b.i <= Len(text)
      BY <1>1, <2>3, <3>1
    <3>3. /\ turn[k].ok /\ turn[k].i \in Nat /\ turn[k].i > b.i
          /\ Unescaped(text, turn[k].i) /\ Beyond(text, turn[k].i)
      <4> HIDE DEF b
      <4> QED
        BY <2>1, <3>1, <3>2, EscapePass
    <3> QED
      BY <3>1, <3>3
  <2> QED
    BY <2>2, <2>3
<1>5. T = 0..N
  <2> HIDE DEF Good
  <2>1. 0 \in T /\ T \in SUBSET (0..N) /\ \A k \in 1..N : k - 1 \in T => k \in T
    BY <1>1, <1>3, <1>4
  <2> HIDE DEF T
  <2> QED
    BY <1>1, <2>1, InductUpTo
<1>6. N \in T
  <2> HIDE DEF T
  <2> QED
    BY <1>1, <1>5
<1> QED
  BY <1>1, <1>6 DEF CheckEscapes, turn

\* A file whose strings are whole is UTF-8, and its surrogates come in pairs.
LEMMA TextPasses ==
  ASSUME NEW v \in Values, Whole(v)
  PROVE  ValidUTF8(TextOf(Tokens(v))) /\ CheckEscapes(TextOf(Tokens(v)))
<1> DEFINE tokens == Tokens(v)
           text == TextOf(tokens)
           N == Len(text)
           Within(g, q, o, j) == /\ q \in Seq(Characters) /\ j \in 1..Len(q) /\ g = o + j
                                 /\ Quoted(text, o, q, Len(q))
                                 /\ \A i \in 1..Len(q) : ~Lone(q, i)
<1>1. tokens \in Seq(AllTokens)
  BY TokensTyped
<1>2. \A x \in Range(tokens) : Is(x, "str") => \A i \in 1..Len(x.str) : ~Lone(x.str, i)
  BY DEF Whole
<1> HIDE DEF tokens, text
<1>3. text \in Seq(Characters)
  BY <1>1, TextQuotes DEF text
<1>4. N \in Nat /\ N = Len(text) /\ DOMAIN text = 1..N
  BY <1>3
<1> HIDE DEF N
\* What is no quote and no comma is part of a string that is whole.
<1>5. ASSUME NEW g \in 1..N, text[g] \notin {"quote", ","}
      PROVE  \E q, o, j : Within(g, q, o, j)
  <2>1. PICK k \in 1..Len(tokens) : \E o :
             /\ Is(tokens[k], "str") /\ Quoted(text, o, tokens[k].str, Len(tokens[k].str))
             /\ \E j \in 1..Len(tokens[k].str) : g = o + j
    BY <1>1, <1>4, <1>5, TextQuotes DEF text
  <2>2. tokens[k].str \in Seq(Characters)
    BY <1>1, <2>1, TextQuotes
  <2>3. tokens[k] \in Range(tokens)
    BY <1>1 DEF Range
  <2> QED
    BY <1>2, <2>1, <2>2, <2>3
<1>6. ASSUME NEW g \in 1..N, EscapeAt(text, g, "HI")
      PROVE  EscapeAt(text, g + 3, "LO")
  <2>1. text[g] \notin {"quote", ","}
    BY <1>6 DEF EscapeAt, StartsEscape
  <2>2. PICK q, o, j : Within(g, q, o, j)
    BY <1>5, <2>1
  <2>3. \A d \in {"HI", "LO"}, i \in 1..Len(q) : EscapeAt(text, o + i, d) <=> EscapeAt(q, i, d)
    BY <1>3, <2>2, EscapesWithin
  <2>4. EscapeAt(q, j, "HI") /\ o \in Nat /\ Len(q) \in Nat /\ DOMAIN q = 1..Len(q)
    BY <1>6, <2>2, <2>3 DEF Quoted
  <2>5. j + 2 \in 1..Len(q)
    BY <2>4 DEF EscapeAt, Unicode
  <2>6. (j + 2) - 2 = j /\ j + 2 > 2 /\ (j + 2) + 1 = j + 3
    BY <2>2, <2>4
  <2>7. EscapeAt(q, j + 3, "LO")
    BY <2>2, <2>4, <2>5, <2>6 DEF Lone
  <2>8. j + 3 \in 1..Len(q) /\ g + 3 = o + (j + 3)
    BY <2>2, <2>4, <2>7 DEF EscapeAt
  <2> QED
    BY <2>3, <2>7, <2>8
<1>7. ASSUME NEW g \in 1..N, EscapeAt(text, g, "LO")
      PROVE  g > 3 /\ EscapeAt(text, g - 3, "HI")
  <2>1. text[g] \notin {"quote", ","}
    BY <1>7 DEF EscapeAt, StartsEscape
  <2>2. PICK q, o, j : Within(g, q, o, j)
    BY <1>5, <2>1
  <2>3. \A d \in {"HI", "LO"}, i \in 1..Len(q) : EscapeAt(text, o + i, d) <=> EscapeAt(q, i, d)
    BY <1>3, <2>2, EscapesWithin
  <2>4. EscapeAt(q, j, "LO") /\ o \in Nat /\ Len(q) \in Nat /\ DOMAIN q = 1..Len(q)
    BY <1>7, <2>2, <2>3 DEF Quoted
  <2>5. j + 2 \in 1..Len(q)
    BY <2>4 DEF EscapeAt, Unicode
  <2>6. (j + 2) - 2 = j /\ j + 2 > 2 /\ (j + 2) - 5 = j - 3
    BY <2>2, <2>4
  <2>7. ~(j + 2 <= 5) /\ EscapeAt(q, j - 3, "HI")
    BY <2>2, <2>4, <2>5, <2>6 DEF Lone
  <2>8. j - 3 \in 1..Len(q) /\ g - 3 = o + (j - 3) /\ g > 3
    BY <2>2, <2>4, <2>7
  <2> QED
    BY <2>3, <2>7, <2>8
<1>8. Paired(text, Len(text) + 1)
  BY <1>4, <1>6, <1>7 DEF Paired
<1>9. ValidUTF8(text)
  <2> SUFFICES ASSUME "BAD" \in Range(text) PROVE FALSE
    BY DEF ValidUTF8
  <2>1. PICK g \in 1..N : text[g] = "BAD"
    BY <1>4 DEF Range
  <2>2. PICK q, o, j : Within(g, q, o, j)
    BY <1>5, <2>1
  <2>3. q[j] = "BAD"
    BY <2>1, <2>2 DEF Quoted
  <2> QED
    BY <2>2, <2>3 DEF Lone
<1> QED
  BY <1>3, <1>8, <1>9, EscapesPass DEF text, tokens

-----------------------------------------------------------------------------
(* What checkKeys lets through.                                            *)

\* Strings with nothing in them that is no character.
WholeStrings == {s \in Spellings : \A i \in 1..Len(s) : ~Lone(s, i)}

\* The same of the strings of a token stream.
WholeTokens(tokens) ==
  \A x \in Range(tokens) : Is(x, "str") => \A i \in 1..Len(x.str) : ~Lone(x.str, i)

\* A value that is let through wherever a value may come.
Clean(v) ==
  /\ v \in Values /\ Whole(v)
  /\ \A stack : Awaits(stack) => Scan(Scanning(stack), Tokens(v)).ok

\* A key or a keyword is a whole string.
LEMMA WholeSymbols ==
  /\ <<>> \in WholeStrings
  /\ \A key \in Operations \cup Verdicts : <<key>> \in WholeStrings
  /\ \A key \in Fields : \A i \in 1..Len(<<key>>) : ~Lone(<<key>>, i)
<1>1. ASSUME NEW key, key # "BAD", NEW i \in 1..Len(<<key>>)
      PROVE  ~Lone(<<key>>, i)
  <2>1. i = 1 /\ <<key>>[1] = key /\ ~(i > 2)
    OBVIOUS
  <2> QED
    BY <1>1, <2>1 DEF Lone
<1>2. "BAD" \notin Operations \cup Verdicts \cup Fields
  BY DEF Operations, Verdicts, Fields, CorpusFields, VectorFields, ScopeFields
<1>3. <<>> \in WholeStrings
  <2>1. 1..Len(<<>>) = {}
    OBVIOUS
  <2> QED
    BY <2>1, EmptyStrings DEF WholeStrings
<1>4. ASSUME NEW key \in Operations \cup Verdicts
      PROVE  <<key>> \in WholeStrings
  BY <1>1, <1>2, EmptyStrings DEF WholeStrings
<1> QED
  BY <1>1, <1>2, <1>3, <1>4

\* Streams that are whole make a whole one.
LEMMA WholeFlatten ==
  ASSUME NEW ss \in Seq(Seq(AllTokens)), \A k \in 1..Len(ss) : WholeTokens(ss[k])
  PROVE  WholeTokens(FlattenSeq(ss))
<1> DEFINE n == Len(ss)
<1>1. n \in Nat /\ n = Len(ss) /\ \A k \in 1..n : ss[k] \in Seq(AllTokens) /\ WholeTokens(ss[k])
  OBVIOUS
<1> HIDE DEF n
<1>2. PICK flat \in [0..n -> Seq(AllTokens)] :
             /\ flat[0] = <<>>
             /\ \A k \in 1..n : flat[k] = flat[k - 1] \o ss[k]
             /\ flat[n] = FlattenSeq(ss)
  BY <1>1, Flattening
<1> DEFINE T == {k \in 0..n : WholeTokens(flat[k])}
<1>3. ASSUME NEW k \in 1..n, k - 1 \in T
      PROVE  k \in T
  <2>1. k - 1 \in 0..n /\ k \in 0..n
    BY <1>1
  <2>2. flat[k - 1] \in Seq(AllTokens) /\ flat[k] = flat[k - 1] \o ss[k]
    BY <1>2, <2>1
  <2>3. ss[k] \in Seq(AllTokens) /\ WholeTokens(ss[k]) /\ WholeTokens(flat[k - 1])
    BY <1>1, <1>3
  <2>4. Range(flat[k]) = Range(flat[k - 1]) \cup Range(ss[k])
    BY <2>2, <2>3, RangeConcat
  <2> QED
    BY <2>1, <2>3, <2>4 DEF WholeTokens
<1>4. 0 \in T
  <2>1. Range(flat[0]) = {}
    BY <1>2 DEF Range
  <2> QED
    BY <1>1, <2>1 DEF WholeTokens
<1>5. T = 0..n
  <2>1. T \in SUBSET (0..n)
    OBVIOUS
  <2> HIDE DEF T
  <2> QED
    BY <1>1, <1>3, <1>4, <2>1, InductUpTo
<1>6. n \in T
  <2> HIDE DEF T
  <2> QED
    BY <1>1, <1>5
<1> QED
  BY <1>2, <1>6

\* A stream of one token.
LEMMA RangeOne ==
  ASSUME NEW x
  PROVE  Range(<<x>>) = {x}
BY DEF Range

\* A stream between two others.
LEMMA RangeEnclosed ==
  ASSUME NEW S, NEW a \in Seq(S), NEW b \in Seq(S), NEW c \in Seq(S)
  PROVE  Range(a \o b \o c) = Range(a) \cup Range(b) \cup Range(c)
<1> DEFINE first == a \o b
<1>1. Range(first) = Range(a) \cup Range(b) /\ first \in Seq(S)
  BY RangeConcat
<1> HIDE DEF first
<1>2. Range(first \o c) = Range(first) \cup Range(c) /\ first \o c \in Seq(S)
  BY <1>1, RangeConcat
<1> QED
  BY <1>1, <1>2 DEF first

\* A stream between two others is part of a whole one.
LEMMA WholeAround ==
  ASSUME NEW a \in Seq(AllTokens), NEW b \in Seq(AllTokens), NEW c \in Seq(AllTokens),
         WholeTokens(a), WholeTokens(b), WholeTokens(c)
  PROVE  WholeTokens(a \o b \o c)
<1>1. Range(a \o b \o c) = Range(a) \cup Range(b) \cup Range(c)
  BY RangeEnclosed
<1> QED
  BY <1>1 DEF WholeTokens

\* Delimiters around a whole stream.
LEMMA WholeEnclosed ==
  ASSUME NEW inner \in Seq(AllTokens), WholeTokens(inner),
         NEW d \in {"{", "}", "[", "]"}, NEW e \in {"{", "}", "[", "]"}
  PROVE  WholeTokens(<<Delim(d)>> \o inner \o <<Delim(e)>>)
<1>1. ASSUME NEW x \in {"{", "}", "[", "]"}
      PROVE  <<Delim(x)>> \in Seq(AllTokens) /\ WholeTokens(<<Delim(x)>>)
  <2>1. Range(<<Delim(x)>>) = {Delim(x)}
    BY RangeOne
  <2>2. ~Is(Delim(x), "str")
    BY Kinds
  <2> QED
    BY <2>1, <2>2, OneToken DEF WholeTokens
<1> HIDE DEF Delim
<1> QED
  BY <1>1, WholeAround

\* Ending a value raises no objection.
LEMMA ConsumedOk ==
  ASSUME NEW stack
  PROVE  Consumed(Scanning(stack)).ok
<1>1. Scanning(stack).ok /\ "ok" \in DOMAIN Scanning(stack)
  BY DEF Scanning
<1>2. ASSUME NEW n
      PROVE  [Scanning(stack) EXCEPT !.stack[n].expectKey = TRUE].ok
  BY <1>1 DEF Scanning
<1> QED
  BY <1>1, <1>2 DEF Consumed

\* A clean value leaves the stack as one value does.
LEMMA CleanScan ==
  ASSUME NEW v, Clean(v), NEW stack, Awaits(stack)
  PROVE  Scan(Scanning(stack), Tokens(v)) = Consumed(Scanning(stack))
BY AllNeutral DEF Clean, Neutral

\* Strings and numbers are clean.
LEMMA CleanScalars ==
  /\ \A s \in WholeStrings : Clean(Str(s))
  /\ \A k \in Int : Clean(Num(k))
<1>1. ASSUME NEW v \in Values, ~Is(v, "delim"), Tokens(v) = <<v>>, NEW stack, Awaits(stack)
      PROVE  Scan(Scanning(stack), Tokens(v)).ok
  <2>1. KeysTurn(Scanning(stack), v) = Consumed(Scanning(stack))
    BY <1>1, Turns DEF Awaits
  <2> QED
    BY <1>1, <2>1, ScanOne, ConsumedOk
<1>2. ASSUME NEW s \in WholeStrings
      PROVE  Clean(Str(s))
  <2>1. s \in Spellings /\ \A i \in 1..Len(s) : ~Lone(s, i)
    BY DEF WholeStrings
  <2>2. Str(s) \in Values
    BY <2>1, LowLevels, Shaped DEF Values
  <2>3. Tokens(Str(s)) = <<Str(s)>> /\ ~Is(Str(s), "delim") /\ Str(s).str = s
    BY <2>2, TokensOf, Kinds, Contents
  <2>4. Range(<<Str(s)>>) = {Str(s)}
    BY DEF Range
  <2> QED
    BY <1>1, <2>1, <2>2, <2>3, <2>4 DEF Clean, Whole
<1>3. ASSUME NEW k \in Int
      PROVE  Clean(Num(k))
  <2>1. Num(k) \in Values
    BY LowLevels, Shaped DEF Values
  <2>2. Tokens(Num(k)) = <<Num(k)>> /\ ~Is(Num(k), "delim") /\ ~Is(Num(k), "str")
    BY <2>1, TokensOf, Kinds
  <2>3. Range(<<Num(k)>>) = {Num(k)}
    BY DEF Range
  <2> QED
    BY <1>1, <2>1, <2>2, <2>3 DEF Clean, Whole
<1> QED
  BY <1>2, <1>3

\* An array of clean values is clean.
LEMMA CleanArray ==
  ASSUME NEW vs \in Seq(Values), Array(vs) \in Values, \A i \in 1..Len(vs) : Clean(vs[i])
  PROVE  Clean(Array(vs))
<1> DEFINE ss == ElementTokens(vs)
           n == Len(vs)
<1>1. /\ ss \in Seq(Seq(AllTokens)) /\ Len(ss) = n /\ n \in Nat
      /\ \A k \in 1..n : ss[k] = Tokens(vs[k]) /\ Tokens(vs[k]) \in Seq(AllTokens)
  <2>1. ss \in Seq(Seq(AllTokens)) /\ Len(ss) = n /\ n \in Nat
    <3>1. ElementTokens(vs) \in Seq(Seq(AllTokens)) /\ Len(ElementTokens(vs)) = Len(vs)
      BY TokensTyped, Parts
    <3> QED
      BY <3>1
  <2>2. ASSUME NEW k \in 1..n
        PROVE  ss[k] = Tokens(vs[k]) /\ Tokens(vs[k]) \in Seq(AllTokens)
    BY TokensTyped DEF ElementTokens
  <2> QED
    BY <2>1, <2>2
<1>2. Tokens(Array(vs)) = <<Delim("[")>> \o FlattenSeq(ss) \o <<Delim("]")>>
  BY TokensOf
<1>3. \A k \in 1..n : Clean(vs[k])
  OBVIOUS
<1> HIDE DEF ss, n
<1>4. PICK flat \in [0..n -> Seq(AllTokens)] :
             /\ flat[0] = <<>>
             /\ \A k \in 1..n : flat[k] = flat[k - 1] \o ss[k]
             /\ flat[n] = FlattenSeq(ss)
  BY <1>1, Flattening
<1> DEFINE f == flat[n]
<1>5. f = FlattenSeq(ss) /\ f \in Seq(AllTokens)
  BY <1>1, <1>4
<1>6. Whole(Array(vs))
  <2>1. \A k \in 1..Len(ss) : WholeTokens(ss[k])
    BY <1>1, <1>3 DEF Clean, Whole, WholeTokens
  <2>2. WholeTokens(f)
    BY <1>1, <1>5, <2>1, WholeFlatten
  <2> HIDE DEF f
  <2>3. WholeTokens(<<Delim("[")>> \o f \o <<Delim("]")>>)
    BY <1>5, <2>2, WholeEnclosed
  <2> QED
    BY <1>2, <1>5, <2>3 DEF Whole, WholeTokens
<1>7. ASSUME NEW stack, Awaits(stack)
      PROVE  Scan(Scanning(stack), Tokens(Array(vs))).ok
  <2> DEFINE inside == Scanning(InArray(stack))
             open == <<Delim("[")>>
             close == <<Delim("]")>>
  <2>1. stack \in Seq(Frames)
    BY <1>7 DEF Awaits
  <2>2. Awaits(InArray(stack)) /\ Consumed(inside) = inside
    BY <2>1, InsideAwaits, Turns
  <2>3. Scan(Scanning(stack), open) = inside
    <3>1. KeysTurn(Scanning(stack), Delim("[")) = inside
      BY <2>1, Turns
    <3> QED
      BY <3>1, ScanOne
  <2>4. Scan(inside, close) = Consumed(Scanning(stack))
    <3>1. ArrayFrame \in Frames
      BY DEF ArrayFrame, Frames
    <3>2. KeysTurn(inside, Delim("]")) = Consumed(Scanning(stack))
      BY <2>1, <3>1, Turns DEF InArray
    <3> QED
      BY <3>2, ScanOne
  <2>5. open \in Seq(AllTokens) /\ close \in Seq(AllTokens)
    BY OneToken
  <2>6. \A k \in 1..n : Scan(inside, Tokens(vs[k])) = inside
    BY <1>3, <2>2, CleanScan
  <2> HIDE DEF inside, open, close, f
  <2> DEFINE T == {k \in 0..n : Scan(inside, flat[k]) = inside}
  <2>7. ASSUME NEW k \in 1..n, k - 1 \in T
        PROVE  k \in T
    <3> DEFINE before == flat[k - 1]
               part == ss[k]
    <3>1. /\ k \in 0..n /\ before \in Seq(AllTokens) /\ part \in Seq(AllTokens)
          /\ flat[k] = before \o part /\ part = Tokens(vs[k]) /\ Scan(inside, before) = inside
      <4>1. k - 1 \in 0..n /\ k \in 0..n
        BY <1>1
      <4> QED
        BY <1>1, <1>4, <2>7, <4>1
    <3> HIDE DEF before, part
    <3>2. Scan(inside, before \o part) = Scan(Scan(inside, before), part)
      BY <3>1, ScanConcat
    <3> QED
      BY <2>6, <3>1, <3>2
  <2>8. 0 \in T
    <3>1. Scan(inside, flat[0]) = inside
      BY <1>4, ScanNothing
    <3> QED
      BY <1>1, <3>1
  <2>9. n \in T
    <3>1. T \in SUBSET (0..n)
      OBVIOUS
    <3> HIDE DEF T
    <3>2. T = 0..n
      BY <1>1, <2>7, <2>8, <3>1, InductUpTo
    <3> QED
      BY <1>1, <3>2
  <2>10. Scan(Scanning(stack), open \o f \o close) = Scan(Scan(inside, f), close)
    BY <1>5, <2>3, <2>5, ScanEnclosed
  <2>11. Scan(inside, f) = inside
    BY <2>9 DEF f
  <2>12. Tokens(Array(vs)) = open \o f \o close
    BY <1>2, <1>5 DEF open, close
  <2> QED
    BY <2>4, <2>10, <2>11, <2>12, ConsumedOk
<1> QED
  BY <1>6, <1>7 DEF Clean

\* No key is there twice.
Once(ms) == \A i, j \in 1..Len(ms) : ms[i].key = ms[j].key => i = j

\* An object of clean values is clean if it has fields, each of them once.
LEMMA CleanObject ==
  ASSUME NEW ms \in Seq(Members(Values)), Object(ms) \in Values, Once(ms),
         \A i \in 1..Len(ms) : Clean(ms[i].value) /\ ms[i].key \in Fields
  PROVE  Clean(Object(ms))
<1> DEFINE ss == MemberTokens(ms)
           n == Len(ms)
           name(k) == <<Str(<<ms[k].key>>)>>
<1>1. /\ ss \in Seq(Seq(AllTokens)) /\ Len(ss) = n /\ n \in Nat
      /\ \A k \in 1..n : /\ ms[k].key \in Keys /\ name(k) \in Seq(AllTokens)
                         /\ Tokens(ms[k].value) \in Seq(AllTokens)
                         /\ ss[k] = name(k) \o Tokens(ms[k].value)
  <2>1. ss \in Seq(Seq(AllTokens)) /\ Len(ss) = n /\ n \in Nat
    BY TokensTyped, Parts
  <2>2. ASSUME NEW k \in 1..n
        PROVE  /\ ms[k].key \in Keys /\ name(k) \in Seq(AllTokens)
               /\ Tokens(ms[k].value) \in Seq(AllTokens)
               /\ ss[k] = name(k) \o Tokens(ms[k].value)
    <3>1. ms[k] \in Members(Values)
      OBVIOUS
    <3>2. ms[k].key \in Keys /\ ms[k].value \in Values
      BY <3>1 DEF Members
    <3>3. k \in DOMAIN ms
      OBVIOUS
    <3>4. ss[k] = name(k) \o Tokens(ms[k].value)
      BY <3>3 DEF MemberTokens
    <3> QED
      BY <3>2, <3>4, OneToken, TokensTyped
  <2> HIDE DEF ss, n, name
  <2> QED
    BY <2>1, <2>2
<1>2. Tokens(Object(ms)) = <<Delim("{")>> \o FlattenSeq(ss) \o <<Delim("}")>>
  BY TokensOf
<1>3. \A k \in 1..n : Clean(ms[k].value) /\ ms[k].key \in Fields
  OBVIOUS
<1>4. \A i, j \in 1..n : ms[i].key = ms[j].key => i = j
  BY DEF Once
<1> HIDE DEF ss, n
<1>5. PICK flat \in [0..n -> Seq(AllTokens)] :
             /\ flat[0] = <<>>
             /\ \A k \in 1..n : flat[k] = flat[k - 1] \o ss[k]
             /\ flat[n] = FlattenSeq(ss)
  BY <1>1, Flattening
<1> DEFINE f == flat[n]
<1>6. f = FlattenSeq(ss) /\ f \in Seq(AllTokens)
  BY <1>1, <1>5
<1>7. Whole(Object(ms))
  <2>1. ASSUME NEW k \in 1..n
        PROVE  WholeTokens(ss[k])
    <3> DEFINE key == ms[k].key
               a == name(k)
               b == Tokens(ms[k].value)
    <3>1. a \in Seq(AllTokens) /\ b \in Seq(AllTokens) /\ ss[k] = a \o b
      BY <1>1
    <3>2. WholeTokens(b) /\ key \in Fields
      BY <1>3 DEF Clean, Whole, WholeTokens
    <3>3. WholeTokens(a)
      <4>1. Range(a) = {Str(<<key>>)}
        BY RangeOne
      <4>2. Str(<<key>>).str = <<key>>
        BY Contents
      <4>3. \A i \in 1..Len(<<key>>) : ~Lone(<<key>>, i)
        BY <3>2, WholeSymbols
      <4> HIDE DEF a, key
      <4> QED
        BY <4>1, <4>2, <4>3 DEF WholeTokens
    <3> HIDE DEF a, b
    <3>4. Range(a \o b) = Range(a) \cup Range(b)
      BY <3>1, RangeConcat
    <3> QED
      BY <3>1, <3>2, <3>3, <3>4 DEF WholeTokens
  <2>2. WholeTokens(f)
    BY <1>1, <1>6, <2>1, WholeFlatten
  <2> HIDE DEF f
  <2>3. WholeTokens(<<Delim("{")>> \o f \o <<Delim("}")>>)
    BY <1>6, <2>2, WholeEnclosed
  <2> QED
    BY <1>2, <1>6, <2>3 DEF Whole, WholeTokens
<1>8. ASSUME NEW stack, Awaits(stack)
      PROVE  Scan(Scanning(stack), Tokens(Object(ms))).ok
  <2> DEFINE Inside(seen) == Scanning(InObject(stack, seen, TRUE))
             open == <<Delim("{")>>
             close == <<Delim("}")>>
             Seen(k) == {ms[i].key : i \in 1..k}
  <2>1. stack \in Seq(Frames)
    BY <1>8 DEF Awaits
  <2>2. Scan(Scanning(stack), open) = Inside({})
    <3>1. KeysTurn(Scanning(stack), Delim("{")) = Inside({})
      BY <2>1, Turns
    <3> QED
      BY <3>1, ScanOne
  <2>3. ASSUME NEW seen \in SUBSET Fields
        PROVE  Scan(Inside(seen), close) = Consumed(Scanning(stack))
    <3>1. Opened(seen, TRUE) \in Frames
      BY DEF Opened, Frames
    <3>2. KeysTurn(Inside(seen), Delim("}")) = Consumed(Scanning(stack))
      BY <2>1, <3>1, Turns DEF InObject
    <3> QED
      BY <3>2, ScanOne
  <2>4. open \in Seq(AllTokens) /\ close \in Seq(AllTokens)
    BY OneToken
\* One member.
  <2>5. ASSUME NEW seen \in SUBSET Fields, NEW k \in 1..n, ms[k].key \notin seen
        PROVE  Scan(Inside(seen), ss[k]) = Inside(seen \cup {ms[k].key})
    <3> DEFINE key == ms[k].key
               value == ms[k].value
               a == name(k)
               b == Tokens(value)
               scan == Inside(seen)
               after == Scanning(InObject(stack, seen \cup {key}, FALSE))
    <3>1. /\ key \in Keys /\ a \in Seq(AllTokens) /\ b \in Seq(AllTokens)
          /\ ss[k] = a \o b /\ Clean(value) /\ key \in Fields \ seen
      BY <1>1, <1>3, <2>5
    <3>2. a = <<Str(<<key>>)>>
      OBVIOUS
    <3> HIDE DEF a, key, value
    <3>3. Scan(scan, a) = after
      <4>1. KeysTurn(scan, Str(<<key>>)) = after
        BY <2>1, <3>1, Turns
      <4>2. Scan(scan, <<Str(<<key>>)>>) = KeysTurn(scan, Str(<<key>>))
        BY ScanOne
      <4> QED
        BY <3>2, <4>1, <4>2
    <3>4. seen \cup {key} \in SUBSET Fields
      BY <3>1
    <3>5. Awaits(InObject(stack, seen \cup {key}, FALSE))
      BY <2>1, <3>4, InsideAwaits
    <3>6. Consumed(after) = Inside(seen \cup {key})
      BY <2>1, <3>4, Turns
    <3>7. Scan(after, b) = Consumed(after)
      BY <3>1, <3>5, CleanScan
    <3> HIDE DEF b, scan, after
    <3>8. Scan(scan, a \o b) = Scan(Scan(scan, a), b)
      BY <3>1, ScanConcat
    <3>9. Scan(scan, ss[k]) = Inside(seen \cup {key})
      BY <3>1, <3>3, <3>6, <3>7, <3>8
    <3> QED
      BY <3>9 DEF scan, key
  <2> HIDE DEF open, close, f, Inside
  <2> DEFINE start == Inside({})
             T == {k \in 0..n : Scan(start, flat[k]) = Inside(Seen(k))}
  <2> HIDE DEF start
  <2>6. ASSUME NEW k \in 1..n, k - 1 \in T
        PROVE  k \in T
    <3> DEFINE before == flat[k - 1]
               part == ss[k]
    <3>1. k - 1 \in 0..n /\ k \in 0..n
      BY <1>1
    <3>2. /\ before \in Seq(AllTokens) /\ part \in Seq(AllTokens)
          /\ flat[k] = before \o part /\ Scan(start, before) = Inside(Seen(k - 1))
      <4>1. ss[k] \in Seq(AllTokens)
        BY <1>1
      <4> QED
        BY <1>1, <1>5, <2>6, <3>1, <4>1
    <3>3. Seen(k - 1) \in SUBSET Fields /\ ms[k].key \notin Seen(k - 1)
      <4>1. \A i \in 1..(k - 1) : i \in 1..n /\ i # k
        BY <1>1
      <4> QED
        BY <1>3, <1>4, <4>1
    <3>4. Seen(k - 1) \cup {ms[k].key} = Seen(k)
      <4>1. \A i \in 1..k : i = k \/ i \in 1..(k - 1)
        BY <3>1
      <4>2. k \in 1..k /\ \A i \in 1..(k - 1) : i \in 1..k
        BY <3>1
      <4> QED
        BY <4>1, <4>2
    <3> HIDE DEF Seen
    <3>5. Scan(Inside(Seen(k - 1)), part) = Inside(Seen(k - 1) \cup {ms[k].key})
      BY <2>5, <3>3
    <3> HIDE DEF before, part
    <3>6. Scan(start, before \o part) = Scan(Scan(start, before), part)
      BY <3>2, ScanConcat
    <3> QED
      BY <3>1, <3>2, <3>4, <3>5, <3>6
  <2>7. 0 \in T
    <3>1. Scan(start, flat[0]) = start
      BY <1>5, ScanNothing
    <3>2. Seen(0) = {}
      OBVIOUS
    <3> HIDE DEF Seen
    <3>3. Scan(start, flat[0]) = Inside(Seen(0))
      BY <3>1, <3>2 DEF start
    <3> QED
      BY <1>1, <3>3
  <2>8. n \in T
    <3>1. T \in SUBSET (0..n)
      OBVIOUS
    <3> HIDE DEF T
    <3>2. T = 0..n
      BY <1>1, <2>6, <2>7, <3>1, InductUpTo
    <3> QED
      BY <1>1, <3>2
  <2>9. Scan(start, f) = Inside(Seen(n)) /\ Seen(n) \in SUBSET Fields
    BY <1>3, <2>8 DEF f
  <2>10. Scan(Inside(Seen(n)), close) = Consumed(Scanning(stack))
    <3> HIDE DEF Seen
    <3> QED
      BY <2>3, <2>9
  <2>11. Scan(Scanning(stack), open \o f \o close) = Scan(Scan(start, f), close)
    BY <1>6, <2>2, <2>4, ScanEnclosed DEF start
  <2>12. Tokens(Object(ms)) = open \o f \o close
    BY <1>2, <1>6 DEF open, close
  <2> QED
    BY <2>9, <2>10, <2>11, <2>12, ConsumedOk
<1> QED
  BY <1>7, <1>8 DEF Clean

\* Members whose keys differ, one after the other.
LEMMA OnceConcat ==
  ASSUME NEW M, NEW a \in Seq(M), NEW b \in Seq(M), Once(a), Once(b),
         \A i \in 1..Len(a), j \in 1..Len(b) : a[i].key # b[j].key
  PROVE  Once(a \o b)
<1> DEFINE m == Len(a)
           n == Len(b)
           s == a \o b
<1>1. m \in Nat /\ n \in Nat /\ Len(s) = m + n
  OBVIOUS
<1>2. \A i \in 1..m : s[i] = a[i]
  OBVIOUS
<1>3. \A i \in (m + 1)..(m + n) : s[i] = b[i - m] /\ i - m \in 1..n
  OBVIOUS
<1>4. /\ \A i, j \in 1..m : a[i].key = a[j].key => i = j
      /\ \A i, j \in 1..n : b[i].key = b[j].key => i = j
      /\ \A i \in 1..m, j \in 1..n : a[i].key # b[j].key
  BY DEF Once
<1> HIDE DEF m, n, s
<1>5. ASSUME NEW i \in 1..(m + n), NEW j \in 1..(m + n), s[i].key = s[j].key
      PROVE  i = j
  <2>1. CASE i <= m /\ j <= m
    <3>1. i \in 1..m /\ j \in 1..m
      BY <1>1, <2>1
    <3> QED
      BY <1>2, <1>4, <1>5, <3>1
  <2>2. CASE i > m /\ j > m
    <3>1. i \in (m + 1)..(m + n) /\ j \in (m + 1)..(m + n)
      BY <1>1, <2>2
    <3>2. i - m = j - m
      BY <1>3, <1>4, <1>5, <3>1
    <3> QED
      BY <1>1, <3>2
  <2>3. CASE i <= m /\ j > m
    <3>1. i \in 1..m /\ j \in (m + 1)..(m + n)
      BY <1>1, <2>3
    <3> QED
      BY <1>2, <1>3, <1>4, <1>5, <3>1
  <2>4. CASE i > m /\ j <= m
    <3>1. j \in 1..m /\ i \in (m + 1)..(m + n)
      BY <1>1, <2>4
    <3> QED
      BY <1>2, <1>3, <1>4, <1>5, <3>1
  <2> QED
    BY <1>1, <2>1, <2>2, <2>3, <2>4
<1> QED
  BY <1>1, <1>5 DEF Once, s

\* A member that omitempty may leave out is there once at most.
LEMMA OnceOptional ==
  ASSUME NEW key, NEW x, NEW empty \in BOOLEAN
  PROVE  /\ Once(Unless(empty, key, x))
         /\ \A i \in 1..Len(Unless(empty, key, x)) : Unless(empty, key, x)[i].key = key
<1>1. CASE empty
  BY <1>1 DEF Unless, Once
<1>2. CASE ~empty
  <2>1. Unless(empty, key, x) = <<Member(key, x)>>
    BY <1>2 DEF Unless
  <2> DEFINE m == Member(key, x)
  <2>2. m.key = key
    BY Contents
  <2> HIDE DEF m
  <2>3. Len(<<m>>) = 1 /\ <<m>>[1] = m
    OBVIOUS
  <2> QED
    BY <2>1, <2>2, <2>3 DEF Once, m
<1> QED
  BY <1>1, <1>2

\* Three members that are always there, and two that omitempty may leave out.
LEMMA OnceMembers ==
  ASSUME NEW M, NEW a \in M, NEW b \in M, NEW c \in M,
         a.key # b.key, a.key # c.key, b.key # c.key,
         NEW d, NEW e, d # e, {d, e} \cap {a.key, b.key, c.key} = {},
         NEW D \in Seq(M), Once(D), \A i \in 1..Len(D) : D[i].key = d,
         NEW P \in Seq(M), Once(P), \A i \in 1..Len(P) : P[i].key = e
  PROVE  Once(<<a, b, c>> \o D \o P)
<1> DEFINE T == <<a, b, c>>
           L == T \o D
<1>1. T \in Seq(M) /\ Once(T) /\ \A i \in 1..Len(T) : T[i].key \in {a.key, b.key, c.key}
  <2>1. T \in Seq(M) /\ Len(T) = 3 /\ T[1] = a /\ T[2] = b /\ T[3] = c
    OBVIOUS
  <2>2. 1..3 = {1, 2, 3}
    OBVIOUS
  <2> HIDE DEF T
  <2> QED
    BY <2>1, <2>2 DEF Once
<1> HIDE DEF T
<1>2. \A i \in 1..Len(T), j \in 1..Len(D) : T[i].key # D[j].key
  BY <1>1
<1>3. L \in Seq(M) /\ Once(L)
  BY <1>1, <1>2, OnceConcat
<1>4. ASSUME NEW i \in 1..Len(L), NEW j \in 1..Len(P)
      PROVE  L[i].key # P[j].key
  <2>1. \/ i \in 1..Len(T) /\ L[i] = T[i]
        \/ \E k \in 1..Len(D) : L[i] = D[k]
    BY <1>1
  <2> QED
    BY <1>1, <2>1
<1> HIDE DEF L
<1>5. Once(L \o P)
  BY <1>3, <1>4, OnceConcat
<1> QED
  BY <1>5 DEF L, T

\* A marshalled object names no field twice.
LEMMA OnceMarshalled ==
  /\ \A s : Once(ScopeMembers(s))
  /\ \A v : Once(VectorMembers(v))
  /\ \A c : Once(CorpusMembers(c))
<1>1. ASSUME NEW a, NEW b, NEW c, a.key # b.key, a.key # c.key, b.key # c.key,
             NEW d, NEW e, d # e, {d, e} \cap {a.key, b.key, c.key} = {},
             NEW x, NEW y, NEW noX \in BOOLEAN, NEW noY \in BOOLEAN
      PROVE  Once(<<a, b, c>> \o Unless(noX, d, x) \o Unless(noY, e, y))
  <2> DEFINE M == {a, b, c, Member(d, x), Member(e, y)}
             D == Unless(noX, d, x)
             P == Unless(noY, e, y)
  <2>1. \A m \in M : <<m>> \in Seq(M)
    OBVIOUS
  <2>2. <<>> \in Seq(M) /\ a \in M /\ b \in M /\ c \in M /\ Member(d, x) \in M /\ Member(e, y) \in M
    OBVIOUS
  <2> HIDE DEF M
  <2>3. D \in Seq(M) /\ P \in Seq(M)
    BY <2>1, <2>2 DEF Unless
  <2>4. Once(D) /\ \A i \in 1..Len(D) : D[i].key = d
    BY OnceOptional
  <2>5. Once(P) /\ \A i \in 1..Len(P) : P[i].key = e
    BY OnceOptional
  <2> HIDE DEF D, P
  <2>6. Once(<<a, b, c>> \o D \o P)
    BY <1>1, <2>2, <2>3, <2>4, <2>5, OnceMembers
  <2> QED
    BY <2>6 DEF D, P
<1>2. ASSUME NEW s
      PROVE  Once(ScopeMembers(s))
  <2> DEFINE A == Member("operation", Str(<<s.operation>>))
             B == Member("schema", Str(s.schema))
             C == Member("relation", Str(s.relation))
             noColumns == (s.columns_written = <<>>)
             noPredicate == (s.predicate = <<>>)
  <2>1. A.key = "operation" /\ B.key = "schema" /\ C.key = "relation"
    BY Contents
  <2>2. noColumns \in BOOLEAN /\ noPredicate \in BOOLEAN
    OBVIOUS
  <2>3. ScopeMembers(s) = <<A, B, C>> \o Unless(noColumns, "columns_written", ColumnsArray(s))
                                      \o Unless(noPredicate, "predicate", Str(s.predicate))
    BY DEF ScopeMembers
  <2> HIDE DEF A, B, C, noColumns, noPredicate
  <2> QED
    BY <1>1, <2>1, <2>2, <2>3
<1>3. ASSUME NEW v
      PROVE  Once(VectorMembers(v))
  <2> DEFINE A == Member("name", Str(v.name))
             B == Member("statement", Str(v.statement))
             C == Member("verdict", Str(<<v.verdict>>))
             noScope == (v.scope = None)
             noBecause == (v.because = <<>>)
  <2>1. A.key = "name" /\ B.key = "statement" /\ C.key = "verdict"
    BY Contents
  <2>2. noScope \in BOOLEAN /\ noBecause \in BOOLEAN
    OBVIOUS
  <2>3. VectorMembers(v) = <<A, B, C>> \o Unless(noScope, "scope", MarshalScope(v.scope))
                                       \o Unless(noBecause, "because", Str(v.because))
    BY DEF VectorMembers
  <2> HIDE DEF A, B, C, noScope, noBecause
  <2> QED
    BY <1>1, <2>1, <2>2, <2>3
<1>4. ASSUME NEW c
      PROVE  Once(CorpusMembers(c))
  <2> DEFINE A == Member("subset_version", Num(c.subset_version))
             B == Member("vectors", VectorsArray(c))
  <2>1. A.key = "subset_version" /\ B.key = "vectors"
    BY Contents
  <2>2. CorpusMembers(c) = <<A, B>>
    BY DEF CorpusMembers
  <2> HIDE DEF A, B
  <2>3. Len(<<A, B>>) = 2 /\ <<A, B>>[1] = A /\ <<A, B>>[2] = B
    OBVIOUS
  <2> QED
    BY <2>1, <2>2, <2>3 DEF Once
<1> QED
  BY <1>2, <1>3, <1>4

-----------------------------------------------------------------------------
(* What is loaded, and what loads again.                                   *)

\* Scopes that validate lets through.
GoodScope(s) ==
  /\ s \in Scopes
  /\ s.schema \in WholeStrings /\ s.relation \in WholeStrings /\ s.predicate \in WholeStrings
  /\ \A i \in 1..Len(s.columns_written) :
       s.columns_written[i] \in WholeStrings /\ ~Blank(s.columns_written[i])
  /\ ~Blank(s.schema) /\ ~Blank(s.relation)
  /\ AssignsColumns(s.operation) <=> s.columns_written # <<>>
  /\ IF HasPredicate(s.operation) THEN ~Blank(s.predicate) ELSE s.predicate = <<>>

GoodVector(u) ==
  /\ u \in Vectors
  /\ u.name \in WholeStrings /\ u.statement \in WholeStrings /\ u.because \in WholeStrings
  /\ ~Blank(u.name) /\ ~Blank(u.statement)
  /\ IF u.verdict = "in_subset" THEN GoodScope(u.scope) /\ u.because = <<>>
     ELSE u.scope = None /\ ~Blank(u.because)

GoodCorpus(c) ==
  /\ c \in Corpora
  /\ \A i \in 1..Len(c.vectors) : GoodVector(c.vectors[i])
  /\ \A i, j \in 1..Len(c.vectors) : i # j => c.vectors[i].name # c.vectors[j].name

\* A text field is a whole string, and so are the columns.
LEMMA PlainText ==
  ASSUME NEW v, Given(v)
  PROVE  /\ IsText(v) => Decoded(v) \in WholeStrings
         /\ (Is(v, "array") => \A i \in DOMAIN v.array : IsText(v.array[i]))
              => \A i \in DOMAIN Columns(v) : Columns(v)[i] \in WholeStrings
<1>1. ASSUME NEW w, Given(w), IsText(w)
      PROVE  Decoded(w) \in WholeStrings
  <2>1. w = Null \/ w = Str(Decoded(w))
    BY <1>1, Text
  <2>2. CASE w = Null
    BY <2>2, EmptyStrings, WholeSymbols
  <2>3. CASE w = Str(Decoded(w)) /\ w # Null
    <3>1. Sound(Str(Decoded(w)))
      BY <1>1, <2>3 DEF Given
    <3> QED
      BY <3>1, SoundInside DEF WholeStrings
  <2> QED
    BY <2>1, <2>2, <2>3
<1>2. ASSUME Is(v, "array") => \A i \in DOMAIN v.array : IsText(v.array[i]),
             NEW i \in DOMAIN Columns(v)
      PROVE  Columns(v)[i] \in WholeStrings
  <2>1. Is(v, "array")
    <3>1. DOMAIN <<>> = {}
      OBVIOUS
    <3> QED
      BY <1>2, <3>1 DEF Columns
  <2>2. Sound(v) /\ v \in Values
    BY <2>1, Kinds DEF Given, Sound
  <2>3. PICK vs : v = Array(vs)
    BY <2>1, <2>2, Inner, Kinds
  <2>4. v.array = vs /\ vs \in Seq(Values) /\ \A j \in 1..Len(vs) : Sound(vs[j])
    BY <2>2, <2>3, Contents, SoundInside
  <2>5. i \in DOMAIN vs /\ Columns(v)[i] = Decoded(vs[i])
    BY <1>2, <2>1, <2>4 DEF Columns
  <2>6. Given(vs[i]) /\ IsText(vs[i])
    BY <1>2, <2>1, <2>4, <2>5 DEF Given
  <2> QED
    BY <1>1, <2>5, <2>6
<1> QED
  BY <1>1, <1>2

\* A scope that is loaded is good.
LEMMA ScopeGood ==
  ASSUME NEW v, Sound(v), DecodesScope(v), ValidScope(v)
  PROVE  GoodScope(ScopeOf(v))
<1> DEFINE s == ScopeOf(v)
           columns == At(v, "columns_written")
           texts == {"operation", "schema", "relation", "predicate"}
<1>1. PICK ms : v = Object(ms)
  BY SoundObject DEF DecodesScope
<1>2. ~Is(v, "null")
  BY <1>1, Kinds
<1>3. /\ s.operation = Keyword(At(v, "operation")) /\ s.schema = Decoded(At(v, "schema"))
      /\ s.relation = Decoded(At(v, "relation")) /\ s.columns_written = Columns(columns)
      /\ s.predicate = Decoded(At(v, "predicate"))
  BY <1>2 DEF ScopeOf
<1>4. s \in Scopes
  BY ScopeSays
<1> HIDE DEF s, columns
<1>5. \A key : Given(At(v, key)) /\ (key \notin Present(v) => At(v, key) = Null)
  BY <1>1, Fieldwise
<1>6. \A key \in texts : IsText(At(v, key))
  BY DEF DecodesScope, ScopeFields
<1>7. \A key \in texts : Decoded(At(v, key)) \in WholeStrings
  BY <1>5, <1>6, PlainText
<1>8. \A i \in DOMAIN Columns(columns) : Columns(columns)[i] \in WholeStrings
  <2>1. Is(columns, "array") => \A i \in DOMAIN columns.array : IsText(columns.array[i])
    <3>1. columns = Null \/ columns \in Values
      BY <1>5 DEF Given, Sound, columns
    <3>2. ~(Is(columns, "array") /\ Is(columns, "null"))
      BY <3>1, Inner, Kinds
    <3> QED
      BY <3>2 DEF DecodesScope, columns
  <2> QED
    BY <1>5, <2>1, PlainText DEF columns
<1>9. DOMAIN s.columns_written = 1..Len(s.columns_written)
  BY <1>4 DEF Scopes
<1>10. /\ ~Blank(s.schema) /\ ~Blank(s.relation)
       /\ \A i \in DOMAIN s.columns_written : ~Blank(s.columns_written[i])
  BY <1>3 DEF ValidScope, columns
<1>11. AssignsColumns(s.operation) <=> s.columns_written # <<>>
  <2>1. columns = Null => Columns(columns) = <<>>
    BY Kinds DEF Columns
  <2>2. CASE AssignsColumns(s.operation)
    BY <1>3, <2>2 DEF ValidScope, columns
  <2>3. CASE ~AssignsColumns(s.operation)
    <3>1. columns = Null
      BY <1>3, <1>5, <2>3 DEF ValidScope, columns
    <3> QED
      BY <1>3, <2>1, <2>3, <3>1
  <2> QED
    BY <2>2, <2>3
<1>12. IF HasPredicate(s.operation) THEN ~Blank(s.predicate) ELSE s.predicate = <<>>
  BY <1>3, <1>5, EmptyStrings DEF ValidScope
<1> QED
  BY <1>3, <1>4, <1>7, <1>8, <1>9, <1>10, <1>11, <1>12 DEF GoodScope, s

\* A vector that is loaded is good.
LEMMA VectorGood ==
  ASSUME NEW v, Sound(v), DecodesVector(v), ValidVector(v)
  PROVE  GoodVector(VectorOf(v))
<1> DEFINE u == VectorOf(v)
           scope == At(v, "scope")
           texts == {"name", "statement", "verdict", "because"}
<1>1. PICK ms : v = Object(ms)
  BY SoundObject DEF DecodesVector
<1>2. /\ u.name = Decoded(At(v, "name")) /\ u.statement = Decoded(At(v, "statement"))
      /\ u.verdict = Keyword(At(v, "verdict")) /\ u.scope = ScopeOf(scope)
      /\ u.because = Decoded(At(v, "because"))
  BY DEF VectorOf
<1>3. u \in Vectors
  BY VectorSays
<1> HIDE DEF u, scope
<1>4. \A key : Given(At(v, key)) /\ (key \notin Present(v) => At(v, key) = Null)
  BY <1>1, Fieldwise
<1>5. \A key \in texts : IsText(At(v, key))
  BY DEF DecodesVector, VectorFields
<1>6. \A key \in texts : Decoded(At(v, key)) \in WholeStrings
  BY <1>4, <1>5, PlainText
<1>7. ~Blank(u.name) /\ ~Blank(u.statement)
  BY <1>2 DEF ValidVector
<1>8. CASE u.verdict = "in_subset"
  <2>1. Is(scope, "object") /\ ValidScope(scope) /\ "because" \notin Present(v)
    BY <1>2, <1>8 DEF ValidVector, scope
  <2>2. Sound(scope) /\ DecodesScope(scope)
    <3>1. scope # Null /\ (scope \in Values => ~Is(scope, "null"))
      <4>1. ~Is(Null, "object")
        BY Kinds
      <4> QED
        BY <2>1, <4>1, Inner, Kinds
    <3>2. Sound(scope)
      BY <1>4, <3>1 DEF Given, scope
    <3>3. ~Is(scope, "null")
      BY <3>1, <3>2 DEF Sound
    <3> QED
      BY <3>2, <3>3 DEF DecodesVector, scope
  <2>3. GoodScope(u.scope)
    BY <1>2, <2>1, <2>2, ScopeGood
  <2>4. u.because = <<>>
    BY <1>2, <1>4, <2>1, EmptyStrings
  <2> QED
    BY <1>2, <1>3, <1>6, <1>7, <1>8, <2>3, <2>4 DEF GoodVector, u
<1>9. CASE u.verdict # "in_subset"
  <2>1. ~Blank(u.because) /\ "scope" \notin Present(v)
    BY <1>2, <1>9 DEF ValidVector
  <2>2. Is(scope, "null")
    BY <1>4, <2>1, Kinds DEF scope
  <2>3. u.scope = None
    BY <1>2, <2>2 DEF ScopeOf
  <2> QED
    BY <1>2, <1>3, <1>6, <1>7, <1>9, <2>1, <2>3 DEF GoodVector, u
<1> QED
  BY <1>8, <1>9

\* A corpus that is loaded is good.
LEMMA CorpusGood ==
  ASSUME NEW v, Sound(v), DecodesCorpus(<<v>>), ExactVersion(At(v, "subset_version").num),
         ValidVectors(At(v, "vectors").array)
  PROVE  GoodCorpus(CorpusOf(v))
<1> DEFINE c == CorpusOf(v)
           vectors == At(v, "vectors")
<1>1. Is(v, "object") /\ Is(vectors, "array")
  <2>1. <<v>>[1] = v
    OBVIOUS
  <2> QED
    BY <2>1 DEF DecodesCorpus
<1>2. PICK ms : v = Object(ms)
  BY <1>1, SoundObject
<1>3. c \in Corpora
  BY CorpusSays
<1>4. c.vectors = [i \in DOMAIN vectors.array |-> VectorOf(vectors.array[i])]
  BY DEF CorpusOf
<1>5. \A i \in DOMAIN vectors.array : DecodesVector(vectors.array[i]) /\ ValidVector(vectors.array[i])
  BY DEF ValidVectors
<1>6. \A i, j \in DOMAIN vectors.array : i # j =>
        Decoded(At(vectors.array[i], "name")) # Decoded(At(vectors.array[j], "name"))
  BY DEF ValidVectors
<1> HIDE DEF c, vectors
<1>7. Sound(vectors)
  <2>1. Given(vectors)
    BY <1>2, Fieldwise DEF vectors
  <2>2. vectors # Null
    BY <1>1, Kinds
  <2> QED
    BY <2>1, <2>2 DEF Given
<1>8. PICK vs : vectors = Array(vs)
  BY <1>1, <1>7, Inner, Kinds DEF Sound
<1>9. vectors.array = vs /\ vs \in Seq(Values) /\ \A i \in 1..Len(vs) : Sound(vs[i])
  BY <1>7, <1>8, Contents, SoundInside
<1>10. DOMAIN vs = 1..Len(vs)
  BY <1>9
<1>11. DOMAIN c.vectors = 1..Len(c.vectors) /\ Len(c.vectors) \in Nat
  BY <1>3 DEF Corpora
<1>12. DOMAIN c.vectors = DOMAIN vs /\ \A i \in DOMAIN vs : c.vectors[i] = VectorOf(vs[i])
  BY <1>4, <1>9
<1>13. \A i \in 1..Len(c.vectors) : GoodVector(c.vectors[i])
  BY <1>5, <1>9, <1>10, <1>11, <1>12, VectorGood
<1>14. \A i \in DOMAIN vs : c.vectors[i].name = Decoded(At(vs[i], "name"))
  <2>1. \A w : VectorOf(w).name = Decoded(At(w, "name"))
    BY DEF VectorOf
  <2> QED
    BY <1>12, <2>1
<1>15. \A i, j \in 1..Len(c.vectors) : i # j => c.vectors[i].name # c.vectors[j].name
  BY <1>6, <1>9, <1>11, <1>12, <1>14
<1> QED
  BY <1>3, <1>13, <1>15 DEF GoodCorpus, c

\* A scalar is decoded as what was marshalled.
LEMMA ReadBack ==
  /\ \A s : Decoded(Str(s)) = s /\ IsText(Str(s)) /\ ~Is(Str(s), "null")
  /\ \A key : Keyword(Str(<<key>>)) = key
  /\ IsText(Null) /\ Decoded(Null) = <<>> /\ Columns(Null) = <<>> /\ ScopeOf(Null) = None
<1>1. \A s : Decoded(Str(s)) = s /\ IsText(Str(s)) /\ ~Is(Str(s), "null")
  BY Kinds, Contents DEF Decoded, IsText
<1>2. ASSUME NEW key
      PROVE  Keyword(Str(<<key>>)) = key
  <2>1. Decoded(Str(<<key>>)) = <<key>>
    BY <1>1
  <2>2. Len(<<key>>) = 1 /\ <<key>>[1] = key
    OBVIOUS
  <2> QED
    BY <2>1, <2>2 DEF Keyword
<1>3. IsText(Null) /\ Decoded(Null) = <<>> /\ Columns(Null) = <<>> /\ ScopeOf(Null) = None
  BY Kinds DEF IsText, Decoded, Columns, ScopeOf
<1> QED
  BY <1>1, <1>2, <1>3

\* The columns of a good scope, marshalled.
LEMMA ColumnsLoad ==
  ASSUME NEW s, GoodScope(s)
  PROVE  /\ Clean(ColumnsArray(s))
         /\ Is(ColumnsArray(s), "array")
         /\ \A i \in DOMAIN ColumnsArray(s).array : IsText(ColumnsArray(s).array[i])
         /\ Columns(ColumnsArray(s)) = s.columns_written
<1> DEFINE cs == s.columns_written
           n == Len(cs)
           strs == [i \in 1..n |-> Str(cs[i])]
<1>1. cs \in Seq(Spellings) /\ \A i \in 1..n : cs[i] \in WholeStrings
  BY DEF GoodScope, Scopes
<1>2. DOMAIN cs = 1..n /\ n \in Nat
  BY <1>1
<1>3. ColumnsArray(s) = Array(strs)
  BY <1>2 DEF ColumnsArray
<1>4. \A i \in 1..n : Str(cs[i]) \in ValuesUpTo[0] /\ Clean(Str(cs[i]))
  <2>1. 0 \in 0..Nesting
    BY ConformanceAssumption DEF ConformanceAssumption
  <2> QED
    BY <1>1, <1>2, <2>1, CleanScalars, Shaped
<1>5. strs \in [1..n -> ValuesUpTo[0]] /\ \A i \in 1..n : Clean(strs[i])
  BY <1>4
<1>6. DOMAIN strs = 1..n /\ \A i \in 1..n : strs[i] = Str(cs[i])
  OBVIOUS
<1> HIDE DEF strs, n
<1>7. strs \in Seq(ValuesUpTo[0]) /\ Len(strs) = n
  BY <1>2, <1>5
<1>8. 1 \in 1..Nesting /\ 1 - 1 = 0 /\ ValuesUpTo[1] \subseteq Values /\ ValuesUpTo[0] \subseteq Values
  <2>1. 0 \in 0..Nesting
    BY ConformanceAssumption DEF ConformanceAssumption
  <2> QED
    BY <2>1, LowLevels, AllLevels
<1>9. Array(strs) \in Values
  BY <1>7, <1>8, Shaped
<1>10. strs \in Seq(Values)
  BY <1>7, <1>8, SeqMonotonic
<1>11. Clean(Array(strs))
  BY <1>5, <1>7, <1>9, <1>10, CleanArray
<1>12. Is(Array(strs), "array") /\ Array(strs).array = strs
  BY Kinds, Contents
<1>13. \A i \in DOMAIN strs : IsText(strs[i])
  BY <1>6, ReadBack
<1>14. Columns(Array(strs)) = cs
  <2>1. Columns(Array(strs)) = [i \in DOMAIN strs |-> Decoded(strs[i])]
    BY <1>12 DEF Columns
  <2>2. [i \in DOMAIN strs |-> Decoded(strs[i])] = [i \in 1..n |-> cs[i]]
    BY <1>6, ReadBack
  <2>3. cs = [i \in 1..n |-> cs[i]]
    BY <1>1, <1>2
  <2> QED
    BY <2>1, <2>2, <2>3
<1> QED
  BY <1>3, <1>11, <1>12, <1>13, <1>14

\* Members that stand in their object under keys of their own.
LEMMA CleanMembers ==
  ASSUME NEW ms \in Seq(Members(Values)), Object(ms) \in Values, Once(ms),
         \A m \in Range(ms) : Clean(m.value) /\ m.key \in Fields
  PROVE  /\ Clean(Object(ms))
         /\ Fielded(Range(ms))
<1>1. DOMAIN ms = 1..Len(ms)
  OBVIOUS
<1>2. \A i \in 1..Len(ms) : Clean(ms[i].value) /\ ms[i].key \in Fields
  BY <1>1 DEF Range
<1>3. Clean(Object(ms))
  BY <1>2, CleanObject
<1>4. Fielded(Range(ms))
  BY <1>1, <1>2 DEF Once, Fielded, Range
<1> QED
  BY <1>3, <1>4

\* A good scope is marshalled as one that loads, as the same scope.
LEMMA ScopeLoads ==
  ASSUME NEW s, GoodScope(s)
  PROVE  /\ Clean(MarshalScope(s)) /\ Is(MarshalScope(s), "object")
         /\ DecodesScope(MarshalScope(s)) /\ ValidScope(MarshalScope(s))
         /\ ScopeOf(MarshalScope(s)) = s
<1> DEFINE v == MarshalScope(s)
           ms == ScopeMembers(s)
           columns == ColumnsArray(s)
           A == Member("operation", Str(<<s.operation>>))
           B == Member("schema", Str(s.schema))
           C == Member("relation", Str(s.relation))
           D == Member("columns_written", columns)
           F == Member("predicate", Str(s.predicate))
           noColumns == (s.columns_written = <<>>)
           noPredicate == (s.predicate = <<>>)
<1>1. s \in Scopes
  BY DEF GoodScope
<1>2. /\ s.operation \in Operations
      /\ s.schema \in WholeStrings /\ s.relation \in WholeStrings /\ s.predicate \in WholeStrings
      /\ ~Blank(s.schema) /\ ~Blank(s.relation)
      /\ AssignsColumns(s.operation) <=> ~noColumns
      /\ IF HasPredicate(s.operation) THEN ~Blank(s.predicate) ELSE noPredicate
      /\ DOMAIN s.columns_written = 1..Len(s.columns_written)
      /\ \A i \in 1..Len(s.columns_written) : ~Blank(s.columns_written[i])
  BY DEF GoodScope, Scopes
<1>3. v = Object(ms) /\ Object(ms) \in Values /\ ms \in Seq(Members(Values))
  <2>1. v = Object(ms) /\ v \in ValuesUpTo[2] /\ ms \in Seq(Members(Values))
    BY <1>1, MarshalledScope
  <2>2. 2 \in 1..5
    OBVIOUS
  <2>3. ValuesUpTo[2] \subseteq Values
    BY <2>2, LowLevels
  <2> QED
    BY <2>1, <2>3
<1>4. Range(ms) = {A, B, C} \cup (IF noColumns THEN {} ELSE {D})
                            \cup (IF noPredicate THEN {} ELSE {F})
  BY <1>1, MarshalledScope
<1>5. /\ A.key = "operation" /\ B.key = "schema" /\ C.key = "relation"
      /\ D.key = "columns_written" /\ F.key = "predicate"
      /\ A.value = Str(<<s.operation>>) /\ B.value = Str(s.schema) /\ C.value = Str(s.relation)
      /\ D.value = columns /\ F.value = Str(s.predicate)
  BY Contents
<1>6. /\ Clean(Str(<<s.operation>>)) /\ Clean(Str(s.schema)) /\ Clean(Str(s.relation))
      /\ Clean(columns) /\ Clean(Str(s.predicate))
  <2>1. <<s.operation>> \in WholeStrings
    BY <1>2, WholeSymbols
  <2> QED
    BY <1>2, <2>1, CleanScalars, ColumnsLoad
<1>7. noPredicate => s.predicate = <<>>
  OBVIOUS
<1>8. noColumns => s.columns_written = <<>>
  OBVIOUS
<1>9. Once(ms)
  BY OnceMarshalled
<1> HIDE DEF v, ms, columns, A, B, C, D, F, noColumns, noPredicate
<1>10. \A m \in Range(ms) : Clean(m.value) /\ m.key \in Fields
  BY <1>4, <1>5, <1>6 DEF Fields, ScopeFields
<1>11. Clean(v) /\ Fielded(Range(ms))
  BY <1>3, <1>9, <1>10, CleanMembers
<1>12. Is(v, "object") /\ ~Is(v, "null")
  BY <1>3, Kinds
<1>13. Present(v) = FieldNames(ms)
  BY <1>3, <1>11, AtIs
<1>14. \A m \in Range(ms) : At(v, m.key) = m.value
  BY <1>3, <1>11, AtIs
<1>15. \A key : key \notin Present(v) => At(v, key) = Null
  BY <1>3, <1>11, AtIs
<1>16. Present(v) = {"operation", "schema", "relation"}
                    \cup (IF noColumns THEN {} ELSE {"columns_written"})
                    \cup (IF noPredicate THEN {} ELSE {"predicate"})
  BY <1>4, <1>5, <1>13 DEF FieldNames
<1>17. /\ At(v, "operation") = Str(<<s.operation>>) /\ At(v, "schema") = Str(s.schema)
       /\ At(v, "relation") = Str(s.relation)
  BY <1>4, <1>5, <1>14
<1>18. At(v, "columns_written") = IF noColumns THEN Null ELSE columns
  BY <1>4, <1>5, <1>14, <1>15, <1>16
<1>19. At(v, "predicate") = IF noPredicate THEN Null ELSE Str(s.predicate)
  BY <1>4, <1>5, <1>14, <1>15, <1>16
<1>20. Columns(At(v, "columns_written")) = s.columns_written
  BY <1>8, <1>18, ColumnsLoad, ReadBack DEF columns
<1>21. Decoded(At(v, "predicate")) = s.predicate
  BY <1>7, <1>19, ReadBack
<1>22. /\ Keyword(At(v, "operation")) = s.operation
       /\ Decoded(At(v, "schema")) = s.schema /\ Decoded(At(v, "relation")) = s.relation
  BY <1>17, ReadBack
<1>23. DecodesScope(v)
  <2>1. Present(v) \subseteq ScopeFields
    BY <1>16 DEF ScopeFields
  <2>2. \A key \in ScopeFields \ {"columns_written"} : IsText(At(v, key))
    BY <1>17, <1>19, ReadBack DEF ScopeFields
  <2>3. CASE noColumns
    BY <1>12, <1>18, <2>1, <2>2, <2>3, Kinds DEF DecodesScope
  <2>4. CASE ~noColumns
    <3>1. At(v, "columns_written") = columns
      BY <1>18, <2>4
    <3>2. Is(columns, "array") /\ \A i \in DOMAIN columns.array : IsText(columns.array[i])
      BY ColumnsLoad DEF columns
    <3> QED
      BY <1>12, <2>1, <2>2, <3>1, <3>2 DEF DecodesScope
  <2> QED
    BY <2>3, <2>4
<1>24. ValidScope(v)
  <2>1. noColumns => "columns_written" \notin Present(v)
    BY <1>16
  <2>2. noPredicate => "predicate" \notin Present(v)
    BY <1>16
  <2>3. ~noColumns => s.columns_written # <<>>
    BY DEF noColumns
  <2> QED
    BY <1>2, <1>20, <1>21, <1>22, <2>1, <2>2, <2>3 DEF ValidScope
<1>25. ScopeOf(v) = s
  <2>1. ScopeOf(v) = [operation |-> s.operation, schema |-> s.schema, relation |-> s.relation,
                      columns_written |-> s.columns_written, predicate |-> s.predicate]
    BY <1>12, <1>20, <1>21, <1>22 DEF ScopeOf
  <2> QED
    BY <1>1, <2>1 DEF Scopes
<1> QED
  BY <1>11, <1>12, <1>23, <1>24, <1>25 DEF v

\* A good vector is marshalled as one that loads, as the same vector.
LEMMA VectorLoads ==
  ASSUME NEW u, GoodVector(u)
  PROVE  /\ Clean(MarshalVector(u))
         /\ DecodesVector(MarshalVector(u)) /\ ValidVector(MarshalVector(u))
         /\ VectorOf(MarshalVector(u)) = u
         /\ Decoded(At(MarshalVector(u), "name")) = u.name
<1> DEFINE v == MarshalVector(u)
           ms == VectorMembers(u)
           scope == MarshalScope(u.scope)
           A == Member("name", Str(u.name))
           B == Member("statement", Str(u.statement))
           C == Member("verdict", Str(<<u.verdict>>))
           D == Member("scope", scope)
           F == Member("because", Str(u.because))
           noScope == (u.scope = None)
           noBecause == (u.because = <<>>)
<1>1. u \in Vectors
  BY DEF GoodVector
<1>2. /\ u.verdict \in Verdicts
      /\ u.name \in WholeStrings /\ u.statement \in WholeStrings /\ u.because \in WholeStrings
      /\ ~Blank(u.name) /\ ~Blank(u.statement)
      /\ u.verdict = "in_subset" => GoodScope(u.scope) /\ noBecause
      /\ u.verdict # "in_subset" => noScope /\ ~Blank(u.because)
  BY DEF GoodVector, Vectors
<1>3. u.verdict = "in_subset" => ~noScope
  BY <1>2, ConformanceAssumption DEF GoodScope, ConformanceAssumption
<1>4. v = Object(ms) /\ Object(ms) \in Values /\ ms \in Seq(Members(Values))
  <2>1. v = Object(ms) /\ v \in ValuesUpTo[3] /\ ms \in Seq(Members(Values))
    BY <1>1, MarshalledVector
  <2>2. 3 \in 1..5
    OBVIOUS
  <2>3. ValuesUpTo[3] \subseteq Values
    BY <2>2, LowLevels
  <2> QED
    BY <2>1, <2>3
<1>5. Range(ms) = {A, B, C} \cup (IF noScope THEN {} ELSE {D})
                            \cup (IF noBecause THEN {} ELSE {F})
  BY <1>1, MarshalledVector
<1>6. /\ A.key = "name" /\ B.key = "statement" /\ C.key = "verdict"
      /\ D.key = "scope" /\ F.key = "because"
      /\ A.value = Str(u.name) /\ B.value = Str(u.statement) /\ C.value = Str(<<u.verdict>>)
      /\ D.value = scope /\ F.value = Str(u.because)
  BY Contents
<1>7. /\ Clean(Str(u.name)) /\ Clean(Str(u.statement)) /\ Clean(Str(<<u.verdict>>))
      /\ Clean(Str(u.because))
  <2>1. <<u.verdict>> \in WholeStrings
    BY <1>2, WholeSymbols
  <2> QED
    BY <1>2, <2>1, CleanScalars
<1>8. ~noScope =>
        /\ u.verdict = "in_subset" /\ Clean(scope) /\ Is(scope, "object")
        /\ DecodesScope(scope) /\ ValidScope(scope) /\ ScopeOf(scope) = u.scope
  BY <1>2, ScopeLoads
<1>9. noBecause => u.because = <<>>
  OBVIOUS
<1>10. noScope => u.scope = None
  OBVIOUS
<1>11. Once(ms)
  BY OnceMarshalled
<1> HIDE DEF v, ms, scope, A, B, C, D, F, noScope, noBecause
<1>12. \A m \in Range(ms) : Clean(m.value) /\ m.key \in Fields
  BY <1>5, <1>6, <1>7, <1>8 DEF Fields, VectorFields
<1>13. Clean(v) /\ Fielded(Range(ms))
  BY <1>4, <1>11, <1>12, CleanMembers
<1>14. Is(v, "object")
  BY <1>4, Kinds
<1>15. Present(v) = FieldNames(ms)
  BY <1>4, <1>13, AtIs
<1>16. \A m \in Range(ms) : At(v, m.key) = m.value
  BY <1>4, <1>13, AtIs
<1>17. \A key : key \notin Present(v) => At(v, key) = Null
  BY <1>4, <1>13, AtIs
<1>18. Present(v) = {"name", "statement", "verdict"}
                    \cup (IF noScope THEN {} ELSE {"scope"})
                    \cup (IF noBecause THEN {} ELSE {"because"})
  BY <1>5, <1>6, <1>15 DEF FieldNames
<1>19. /\ At(v, "name") = Str(u.name) /\ At(v, "statement") = Str(u.statement)
       /\ At(v, "verdict") = Str(<<u.verdict>>)
  BY <1>5, <1>6, <1>16
<1>20. At(v, "scope") = IF noScope THEN Null ELSE scope
  BY <1>5, <1>6, <1>16, <1>17, <1>18
<1>21. At(v, "because") = IF noBecause THEN Null ELSE Str(u.because)
  BY <1>5, <1>6, <1>16, <1>17, <1>18
<1>22. ScopeOf(At(v, "scope")) = u.scope
  BY <1>8, <1>10, <1>20, ReadBack
<1>23. Decoded(At(v, "because")) = u.because
  BY <1>9, <1>21, ReadBack
<1>24. /\ Keyword(At(v, "verdict")) = u.verdict
       /\ Decoded(At(v, "name")) = u.name /\ Decoded(At(v, "statement")) = u.statement
  BY <1>19, ReadBack
<1>25. DecodesVector(v)
  <2>1. Present(v) \subseteq VectorFields
    BY <1>18 DEF VectorFields
  <2>2. \A key \in VectorFields \ {"scope"} : IsText(At(v, key))
    BY <1>19, <1>21, ReadBack DEF VectorFields
  <2>3. Is(At(v, "scope"), "null") \/ DecodesScope(At(v, "scope"))
    BY <1>8, <1>20, Kinds
  <2> QED
    BY <1>14, <2>1, <2>2, <2>3 DEF DecodesVector
<1>26. ValidVector(v)
  <2>1. CASE u.verdict = "in_subset"
    <3>1. "because" \notin Present(v)
      BY <1>2, <1>18, <2>1 DEF noBecause
    <3>2. Is(At(v, "scope"), "object") /\ ValidScope(At(v, "scope"))
      BY <1>3, <1>8, <1>20, <2>1
    <3> QED
      BY <1>2, <1>24, <2>1, <3>1, <3>2 DEF ValidVector
  <2>2. CASE u.verdict # "in_subset"
    <3>1. "scope" \notin Present(v)
      BY <1>2, <1>18, <2>2 DEF noScope
    <3> QED
      BY <1>2, <1>23, <1>24, <2>2, <3>1 DEF ValidVector
  <2> QED
    BY <2>1, <2>2
<1>27. VectorOf(v) = u
  <2>1. VectorOf(v) = [name |-> u.name, statement |-> u.statement, verdict |-> u.verdict,
                       scope |-> u.scope, because |-> u.because]
    BY <1>22, <1>23, <1>24 DEF VectorOf
  <2> QED
    BY <1>1, <2>1 DEF Vectors
<1> QED
  BY <1>13, <1>24, <1>25, <1>26, <1>27 DEF v

\* A good corpus is marshalled as a file that loads, as the same corpus.
LEMMA CorpusLoads ==
  ASSUME NEW c, GoodCorpus(c)
  PROVE  /\ Clean(Marshal(c)) /\ DecodesCorpus(<<Marshal(c)>>)
         /\ ExactVersion(At(Marshal(c), "subset_version").num)
         /\ ValidVectors(At(Marshal(c), "vectors").array)
         /\ CorpusOf(Marshal(c)) = c
<1> DEFINE v == Marshal(c)
           ms == CorpusMembers(c)
           vectors == VectorsArray(c)
           A == Member("subset_version", Num(c.subset_version))
           B == Member("vectors", vectors)
           us == c.vectors
           n == Len(us)
           ws == [i \in 1..n |-> MarshalVector(us[i])]
<1>1. c \in Corpora
  BY DEF GoodCorpus
<1>2. us \in Seq(Vectors) /\ c.subset_version \in 0..MaxExact
  BY <1>1 DEF Corpora
<1>3. DOMAIN us = 1..n /\ n \in Nat
  BY <1>2
<1>4. /\ \A i \in 1..n : GoodVector(us[i])
      /\ \A i, j \in 1..n : i # j => us[i].name # us[j].name
  BY DEF GoodCorpus
<1>5. v = Object(ms) /\ Object(ms) \in Values /\ ms \in Seq(Members(Values)) /\ vectors \in Values
  BY <1>1, MarshalledCorpus
<1>6. Range(ms) = {A, B}
  BY <1>1, MarshalledCorpus
<1>7. /\ A.key = "subset_version" /\ B.key = "vectors"
      /\ A.value = Num(c.subset_version) /\ B.value = vectors
  BY Contents
<1>8. vectors = Array(ws)
  BY <1>3 DEF VectorsArray
<1>9. \A i \in 1..n : ws[i] = MarshalVector(us[i])
  OBVIOUS
<1>10. DOMAIN ws = 1..n
  OBVIOUS
<1> HIDE DEF ws
<1>11. \A i \in 1..n :
         /\ Clean(ws[i]) /\ DecodesVector(ws[i]) /\ ValidVector(ws[i])
         /\ VectorOf(ws[i]) = us[i] /\ Decoded(At(ws[i], "name")) = us[i].name
  BY <1>4, <1>9, VectorLoads
<1>12. ws \in Seq(Values) /\ Len(ws) = n
  <2>1. ws = [i \in 1..n |-> MarshalVector(us[i])]
    BY DEF ws
  <2>2. \A i \in 1..n : MarshalVector(us[i]) \in Values
    BY <1>9, <1>11 DEF Clean
  <2>3. ws \in [1..n -> Values]
    BY <2>1, <2>2
  <2> HIDE DEF n
  <2> QED
    BY <1>3, <1>10, <2>3
<1>13. Clean(vectors)
  <2>1. Array(ws) \in Values
    BY <1>5, <1>8
  <2>2. \A i \in 1..Len(ws) : Clean(ws[i])
    BY <1>11, <1>12
  <2>3. Clean(Array(ws))
    BY <1>12, <2>1, <2>2, CleanArray
  <2> QED
    BY <1>8, <2>3
<1>14. Clean(Num(c.subset_version))
  <2>1. c.subset_version \in Int
    BY <1>2, ConformanceAssumption DEF ConformanceAssumption
  <2> QED
    BY <2>1, CleanScalars
<1>15. Once(ms)
  BY OnceMarshalled
<1> HIDE DEF v, ms, vectors, A, B, us, n
<1>16. \A m \in Range(ms) : Clean(m.value) /\ m.key \in Fields
  BY <1>6, <1>7, <1>13, <1>14 DEF Fields, CorpusFields
<1>17. Clean(v) /\ Fielded(Range(ms))
  BY <1>5, <1>15, <1>16, CleanMembers
<1>18. Present(v) = {"subset_version", "vectors"}
  <2>1. Present(v) = FieldNames(ms)
    BY <1>5, <1>17, AtIs
  <2> QED
    BY <1>6, <1>7, <2>1 DEF FieldNames
<1>19. At(v, "subset_version") = Num(c.subset_version) /\ At(v, "vectors") = vectors
  <2>1. \A m \in Range(ms) : At(v, m.key) = m.value
    BY <1>5, <1>17, AtIs
  <2> QED
    BY <1>6, <1>7, <2>1
<1>20. /\ Is(v, "object") /\ Is(Num(c.subset_version), "num") /\ Is(vectors, "array")
       /\ vectors.array = ws /\ Num(c.subset_version).num = c.subset_version
  BY <1>5, <1>8, Kinds, Contents
<1>21. DecodesCorpus(<<v>>)
  <2>1. Len(<<v>>) = 1 /\ <<v>>[1] = v
    OBVIOUS
  <2>2. Present(v) \subseteq CorpusFields
    BY <1>18 DEF CorpusFields
  <2> QED
    BY <1>19, <1>20, <2>1, <2>2 DEF DecodesCorpus
<1>22. ValidVectors(ws)
  BY <1>4, <1>10, <1>11 DEF ValidVectors
<1>23. ExactVersion(c.subset_version)
  BY <1>2 DEF ExactVersion
<1>24. CorpusOf(v) = c
  <2>1. CorpusOf(v) = [subset_version |-> c.subset_version,
                       vectors |-> [i \in DOMAIN ws |-> VectorOf(ws[i])]]
    BY <1>19, <1>20 DEF CorpusOf
  <2>2. [i \in DOMAIN ws |-> VectorOf(ws[i])] = us
    <3>1. [i \in DOMAIN ws |-> VectorOf(ws[i])] = [i \in 1..n |-> us[i]]
      BY <1>10, <1>11
    <3>2. us = [i \in 1..n |-> us[i]]
      BY <1>2, <1>3
    <3> QED
      BY <3>1, <3>2
  <2>3. c = [subset_version |-> c.subset_version, vectors |-> us]
    BY <1>1 DEF Corpora, us
  <2> QED
    BY <2>1, <2>2, <2>3
<1> QED
  BY <1>17, <1>19, <1>20, <1>21, <1>22, <1>23, <1>24 DEF v

\* A file that loads holds a good corpus.
LEMMA FileGood ==
  ASSUME NEW values \in Seq(Values), Loads(values)
  PROVE  GoodCorpus(CorpusOf(values[1]))
BY FileSound, CorpusGood

\* A good corpus is marshalled as a file that loads.
LEMMA GoodLoads ==
  ASSUME NEW c, GoodCorpus(c)
  PROVE  Loads(<<Marshal(c)>>)
<1> DEFINE v == Marshal(c)
           values == <<v>>
           streams == [i \in DOMAIN values |-> Tokens(values[i])]
           tokens == FlattenSeq(streams)
           text == FlattenSeq([i \in DOMAIN tokens |-> Spelled(tokens[i])])
<1>1. /\ Clean(v) /\ DecodesCorpus(values)
      /\ ExactVersion(At(v, "subset_version").num) /\ ValidVectors(At(v, "vectors").array)
  BY CorpusLoads
<1>2. values[1] = v
  OBVIOUS
<1>3. tokens = Tokens(v)
  <2>1. streams = <<Tokens(v)>>
    OBVIOUS
  <2>2. Tokens(v) \in Seq(AllTokens)
    BY <1>1, TokensTyped DEF Clean
  <2> HIDE DEF streams
  <2> QED
    BY <2>1, <2>2, FlattenOne
<1>4. text = TextOf(tokens)
  BY DEF TextOf
<1>5. Loads(values) <=>
        /\ ValidUTF8(text) /\ CheckEscapes(text) /\ CheckKeys(tokens) /\ DecodesCorpus(values)
        /\ ExactVersion(At(values[1], "subset_version").num)
        /\ ValidVectors(At(values[1], "vectors").array)
  BY DEF Loads
<1> HIDE DEF v, values, tokens, text
<1>6. ValidUTF8(text) /\ CheckEscapes(text)
  BY <1>1, <1>3, <1>4, TextPasses DEF Clean
<1>7. CheckKeys(tokens)
  <2>1. Awaits(<<>>)
    BY DEF Awaits
  <2>2. Scan(Scanning(<<>>), Tokens(v)).ok
    BY <1>1, <2>1 DEF Clean
  <2> QED
    BY <1>3, <2>2 DEF CheckKeys, Scan, Scanning
<1>8. Loads(values)
  BY <1>1, <1>2, <1>5, <1>6, <1>7
<1> QED
  BY <1>8 DEF values, v

-----------------------------------------------------------------------------
(* The specification.                                                      *)

\* Every variable has its type, a file that was accepted is one that loads, and
\* the corpus it was loaded as is good: it has been in the file since it was saved.
Inv ==
  /\ TypeOK
  /\ Accepted => Loads(file) /\ corpus = CorpusOf(file[1])
  /\ corpus # None => GoodCorpus(corpus)
  /\ saved => corpus # None /\ file = <<Marshal(corpus)>>

\* An edit of a value is a value.
LEMMA EditedTyped ==
  ASSUME NEW v, NEW w \in Edited(v)
  PROVE  w \in Values
BY DEF Edited

\* The only document of a file is the one that every reader reads.
LEMMA OneDocument ==
  ASSUME NEW r, NEW values \in Seq(Values), Len(values) = 1
  PROVE  ReadFile(r, values) = Read(r, values[1])
<1>1. DOMAIN values = 1..1
  OBVIOUS
<1>2. PickOf(r, DOMAIN values) \in DOMAIN values
  <2> DEFINE places == DOMAIN values
  <2>1. places \in SUBSET (1..1) /\ places # {} /\ 1 \in Nat
    BY <1>1
  <2> HIDE DEF places
  <2>2. PickOf(r, places) \in places
    BY <2>1, PickIs
  <2> QED
    BY <2>2 DEF places
<1>3. PickOf(r, DOMAIN values) = 1
  BY <1>1, <1>2
<1> QED
  BY <1>3 DEF ReadFile

\* No file is accepted, yet.
LEMMA Starts == Init => Inv
<1> SUFFICES ASSUME Init
             PROVE  Inv
  OBVIOUS
<1>1. None \notin {"accepted", "refused"} /\ Templates \subseteq Seq(Values) \ {<<>>} /\ MaxEdits \in Nat
  BY ConformanceAssumption DEF ConformanceAssumption
<1>2. file \in Seq(Values) \ {<<>>} /\ edits \in 0..MaxEdits
  BY <1>1 DEF Init
<1>3. verdict = None /\ verdict # "accepted" /\ corpus = None
  BY <1>1 DEF Init
<1>4. saved \in BOOLEAN /\ ~saved
  BY DEF Init
<1> QED
  BY <1>2, <1>3, <1>4 DEF Inv, TypeOK, Accepted

\* Editing leaves JSON.
LEMMA EditKeeps ==
  ASSUME Inv, Edit
  PROVE  Inv'
<1>1. None \notin {"accepted", "refused"} /\ MaxEdits \in Nat
  BY ConformanceAssumption DEF ConformanceAssumption
<1>2. file \in Seq(Values) /\ file # <<>>
  BY DEF Inv, TypeOK
<1>3. file' \in Seq(Values) /\ file' # <<>>
  <2>1. CASE \E v \in Edited(file[1]) : file' = <<v>> \o Tail(file)
    <3>1. PICK v \in Values : file' = <<v>> \o Tail(file)
      BY <2>1, EditedTyped
    <3>2. Tail(file) \in Seq(Values) /\ <<v>> \in Seq(Values) /\ Len(<<v>>) = 1
      BY <1>2
    <3> DEFINE s == <<v>>
               t == Tail(file)
    <3> HIDE DEF s, t
    <3>3. s \o t \in Seq(Values) /\ Len(s \o t) = Len(s) + Len(t) /\ Len(t) \in Nat
      BY <3>2, ConcatProperties DEF s, t
    <3>4. Len(<<>>) = 0
      OBVIOUS
    <3> QED
      BY <3>1, <3>2, <3>3, <3>4 DEF s, t
  <2>2. CASE file' = Append(file, Null)
    <3>1. Null \in Values
      BY LowLevels, Shaped DEF Values
    <3> QED
      BY <1>2, <2>2, <3>1
  <2> QED
    BY <2>1, <2>2 DEF Edit
<1>4. verdict' = None /\ edits' \in 0..MaxEdits
  BY <1>1 DEF Inv, TypeOK, Edit
<1> QED
  BY <1>1, <1>3, <1>4 DEF Inv, TypeOK, Accepted, Edit

\* A corpus that was saved is the one in the file.
LEMMA SavedReadsBack ==
  ASSUME saved, saved => corpus # None /\ file = <<Marshal(corpus)>>,
         corpus # None => GoodCorpus(corpus)
  PROVE  Loads(file) /\ CorpusOf(file[1]) = corpus
<1> DEFINE v == Marshal(corpus)
<1>1. Loads(<<v>>) /\ CorpusOf(v) = corpus
  BY GoodLoads, CorpusLoads
<1>2. file = <<v>>
  OBVIOUS
<1> HIDE DEF v
<1> QED
  BY <1>1, <1>2

\* Load accepts what loads, and nothing else; what was saved it loads as it was.
LEMMA LoadKeeps ==
  ASSUME Inv, Load
  PROVE  Inv'
<1>1. None \notin {"accepted", "refused"} \cup Corpora
  BY ConformanceAssumption DEF ConformanceAssumption
<1>2. file \in Seq(Values)
  BY DEF Inv, TypeOK
<1>3. CASE Loads(file)
  <2>1. CorpusOf(file[1]) \in Corpora /\ GoodCorpus(CorpusOf(file[1]))
    BY <1>2, <1>3, FileSays, FileGood
  <2>2. verdict' = "accepted" /\ corpus' = CorpusOf(file[1]) /\ UNCHANGED <<file, edits, saved>>
    BY <1>3 DEF Load
  <2>3. Loads(file)'
    BY <1>3, <2>2
  <2>4. saved => corpus' = corpus
    BY <2>2, SavedReadsBack DEF Inv
  <2> QED
    BY <1>1, <2>1, <2>2, <2>3, <2>4 DEF Inv, TypeOK, Accepted
<1>4. CASE ~Loads(file)
  <2>1. verdict' = "refused" /\ UNCHANGED <<corpus, file, edits, saved>>
    BY <1>4 DEF Load
  <2> QED
    BY <2>1 DEF Inv, TypeOK, Accepted
<1> QED
  BY <1>3, <1>4

\* What is written back is JSON.
LEMMA SaveKeeps ==
  ASSUME Inv, Save
  PROVE  Inv'
<1>1. None \notin {"accepted", "refused"}
  BY ConformanceAssumption DEF ConformanceAssumption
<1>2. corpus \in Corpora /\ corpus # None
  BY DEF Inv, TypeOK, Accepted, Save
<1>3. Marshal(corpus) \in Values
  BY <1>2, MarshalledCorpus
<1>4. file' \in Seq(Values) \ {<<>>}
  BY <1>3 DEF Save
<1>5. UNCHANGED <<edits, corpus>> /\ verdict' = None /\ saved' /\ file' = <<Marshal(corpus')>>
  BY DEF Save
<1> QED
  BY <1>1, <1>2, <1>4, <1>5 DEF Inv, TypeOK, Accepted

\* Every step keeps it.
LEMMA Invariance == Spec => []Inv
<1>1. Inv /\ [Next]_vars => Inv'
  <2> SUFFICES ASSUME Inv, [Next]_vars
               PROVE  Inv'
    OBVIOUS
  <2>1. CASE Edit
    BY <2>1, EditKeeps
  <2>2. CASE Load
    BY <2>2, LoadKeeps
  <2>3. CASE Save
    BY <2>3, SaveKeeps
  <2>4. CASE UNCHANGED vars
    BY <2>4 DEF vars, Inv, TypeOK, Accepted
  <2> QED
    BY <2>1, <2>2, <2>3, <2>4 DEF Next
<1> QED
  BY Starts, <1>1, PTL DEF Spec

\* Every variable has its type: a corpus that Load returns holds no verdict and
\* no operation that nobody defined, and what Save writes is JSON.
THEOREM TypeCorrect == Spec => []TypeOK
<1>1. Inv => TypeOK
  BY DEF Inv
<1> QED
  BY Invariance, <1>1, PTL

\* A file that Load accepts says the same to every reader: checkKeys has left no
\* key that is there twice or that folds to another, checkEscapes no half of a
\* surrogate, and the version is a number that a double holds.
THEOREM OneMeaning == Spec => []ReadersAgree
<1>1. Inv => ReadersAgree
  <2> SUFFICES ASSUME Inv, Accepted, NEW r \in Readers, NEW q \in Readers
               PROVE  ReadFile(r, file) = ReadFile(q, file)
    BY DEF ReadersAgree
  <2> DEFINE u == Marshal(CorpusOf(file[1]))
  <2>1. file \in Seq(Values) /\ Loads(file)
    BY DEF Inv, TypeOK
  <2>2. Len(file) = 1 /\ SayTheSame(file[1], u)
    BY <2>1, FileSays
  <2>3. ReadFile(r, file) = Read(r, file[1]) /\ ReadFile(q, file) = Read(q, file[1])
    BY <2>1, <2>2, OneDocument
  <2> HIDE DEF u
  <2>4. Read(r, file[1]) = Read(q, u) /\ Read(q, file[1]) = Read(q, u)
    BY <2>2 DEF SayTheSame
  <2> QED
    BY <2>3, <2>4
<1> QED
  BY Invariance, <1>1, PTL

\* The corpus that Load returns says all that the file says: every field that an
\* author wrote is in it, with its value.
THEOREM NothingDropped == Spec => []NothingIsDropped
<1>1. Inv => NothingIsDropped
  <2> SUFFICES ASSUME Inv, Accepted
               PROVE  ReadFile(Strict, file) = Read(Strict, Marshal(corpus))
    BY DEF NothingIsDropped
  <2>1. file \in Seq(Values) /\ Loads(file) /\ corpus = CorpusOf(file[1])
    BY DEF Inv, TypeOK
  <2>2. Len(file) = 1 /\ SayTheSame(file[1], Marshal(corpus))
    BY <2>1, FileSays
  <2>3. ReadFile(Strict, file) = Read(Strict, file[1])
    BY <2>1, <2>2, OneDocument
  <2>4. Strict \in Readers
    BY DEF Strict, Readers
  <2> HIDE DEF Strict
  <2> QED
    BY <2>2, <2>3, <2>4 DEF SayTheSame
<1> QED
  BY Invariance, <1>1, PTL

\* A corpus that was loaded and saved loads again, as the same corpus: omitempty
\* leaves out what validation takes for empty, and nothing else.
THEOREM WritesBack == Spec => RoundTrips
<1> DEFINE Kept == saved /\ verdict = None /\ verdict' # None =>
                     verdict' = "accepted" /\ corpus' = CorpusOf(file[1]) /\ corpus' = corpus
<1>1. ASSUME Inv, [Next]_vars, saved, verdict = None, verdict' # None
      PROVE  verdict' = "accepted" /\ corpus' = CorpusOf(file[1]) /\ corpus' = corpus
  <2>1. Load
    BY <1>1 DEF Next, Edit, Save, vars
  <2>2. Loads(file) /\ CorpusOf(file[1]) = corpus
    BY <1>1, SavedReadsBack DEF Inv
  <2> QED
    BY <2>1, <2>2 DEF Load
<1>2. Inv /\ [Next]_vars => [Kept]_vars
  BY <1>1
<1>3. Spec => [][Kept]_vars
  BY Invariance, <1>2, PTL DEF Spec
<1> QED
  BY <1>3 DEF RoundTrips
=============================================================================

-------------------------- MODULE Template_proofs --------------------------
(***************************************************************************)
(* Proofs about the template compiler, its parser and code generator       *)
(* (TemplateParser) first, its lexer (TemplateLexer) last.                 *)
(*                                                                         *)
(* The generator: what a node outputs is stated without recursion, by the  *)
(* texts of its subtree and the tags on the path to each (PageOuts,        *)
(* CssOuts), and its functions are shown to list just that, in order, by   *)
(* induction down the nodes, which are numbered in preorder.  The parser:  *)
(* TreeInv says that they are, and NestInv that the path to a node has the *)
(* tags that counting opening and closing tags finds around its token.     *)
(***************************************************************************)
EXTENDS TemplateParser, TemplateLexer, FiniteSetTheorems, SequenceTheorems,
        WellFoundedInduction, TLAPS

-----------------------------------------------------------------------------
(* Numbers, and recursion that goes up to a bound.                         *)

\* A set of naturals that is not empty has a least element: the intervals up to its
\* elements are finite sets, of which one has no other below it.
LEMMA LeastElement ==
    ASSUME NEW S, S \subseteq Nat, S # {}
    PROVE  \E i \in S : \A j \in S : i <= j
<1> DEFINE T == {0..j : j \in S}
           R == StrictSubsetOrdering(Nat)
<1>1. T \subseteq FiniteSubsetsOf(Nat)
  <2>1. \A j \in Nat : IsFiniteSet(0..j) /\ 0..j \subseteq Nat
    BY FS_Interval
  <2>2. QED
    BY <2>1 DEF FiniteSubsetsOf
<1>2. T # {}
  OBVIOUS
<1>3. IsWellFoundedOn(R, FiniteSubsetsOf(Nat))
  BY FS_StrictSubsetOrderingWellFounded
<1>4. \E x \in T : \A y \in T : ~(<<y, x>> \in R)
  <2> HIDE DEF T, R
  <2>1. QED
    BY <1>1, <1>2, <1>3, WFMin
<1>5. PICK i \in S : \A j \in S : ~(<<0..j, 0..i>> \in R)
  BY <1>4
<1>6. \A j \in S : i <= j
  <2>1. SUFFICES ASSUME NEW j \in S, j < i
                 PROVE  FALSE
    OBVIOUS
  <2>2. 0..j \subseteq 0..i /\ i \in 0..i /\ i \notin 0..j
    BY <2>1
  <2>3. <<0..j, 0..i>> \in (SUBSET Nat) \X (SUBSET Nat)
    OBVIOUS
  <2>4. 0..j # 0..i
    BY <2>2
  <2>5. <<0..j, 0..i>> \in R
    BY <2>2, <2>3, <2>4 DEF StrictSubsetOrdering
  <2>6. QED
    BY <1>5, <2>5
<1>7. QED
  BY <1>6

\* A set of naturals with an upper bound has a greatest element.
LEMMA GreatestElement ==
    ASSUME NEW N \in Nat, NEW S, S \subseteq 0..N, S # {}
    PROVE  \E i \in S : \A j \in S : j <= i
<1> DEFINE T == {N - i : i \in S}
<1>1. PICK i \in S : \A j \in S : N - i <= N - j
  <2>1. T \subseteq Nat /\ T # {}
    OBVIOUS
  <2>2. PICK t \in T : \A u \in T : t <= u
    <3> HIDE DEF T
    <3>1. QED
      BY <2>1, LeastElement
  <2>3. QED
    BY <2>2
<1>2. QED
  BY <1>1

\* Induction up to a bound, over a set of numbers.
LEMMA UpToInduction ==
    ASSUME NEW N \in Nat, NEW S, 0 \in S, \A k \in 0..(N - 1) : k \in S => k + 1 \in S
    PROVE  0..N \subseteq S
<1> DEFINE T == (0..N) \ S
<1> SUFFICES ASSUME T # {}
             PROVE  FALSE
  OBVIOUS
<1>1. PICK i \in T : \A j \in T : i <= j
  <2>1. T \subseteq Nat
    OBVIOUS
  <2> HIDE DEF T
  <2>2. QED
    BY <2>1, LeastElement
<1>2. i # 0 /\ i - 1 \in 0..(N - 1) /\ i - 1 \in 0..N
  BY <1>1
<1>3. i - 1 \in S
  BY <1>1, <1>2
<1>4. QED
  BY <1>1, <1>2, <1>3

\* And down from one.
LEMMA DownInduction ==
    ASSUME NEW N \in Nat, NEW S, \A k \in 0..N : (\A m \in (k + 1)..N : m \in S) => k \in S
    PROVE  0..N \subseteq S
<1> DEFINE T == (0..N) \ S
<1> SUFFICES ASSUME T # {}
             PROVE  FALSE
  OBVIOUS
<1>1. PICK i \in T : \A j \in T : j <= i
  <2>1. T \subseteq 0..N
    OBVIOUS
  <2> HIDE DEF T
  <2>2. QED
    BY <2>1, GreatestElement
<1>2. \A m \in (i + 1)..N : m \in S
  BY <1>1
<1>3. QED
  BY <1>1, <1>2

\* A step is recursive in the values of a greater rank.
Ranked(N, D, V, rank, Step) ==
    /\ N \in Nat /\ V # {} /\ rank \in [D -> 0..N] /\ Step \in [D -> [[D -> V] -> V]]
    /\ \A x \in D : \A f, g \in [D -> V] :
          (\A y \in D : rank[y] > rank[x] => f[y] = g[y]) => Step[x][f] = Step[x][g]

\* Then there is a function that each of its steps describes.
LEMMA RecursionWorks ==
    ASSUME NEW N, NEW D, NEW V, NEW rank, NEW Step, Ranked(N, D, V, rank, Step)
    PROVE  \E f \in [D -> V] : \A x \in D : f[x] = Step[x][f]
<1> USE DEF Ranked
<1> DEFINE Upper(k, f) == \A x \in D : rank[x] >= k => f[x] = Step[x][f]
           S == {k \in 0..(N + 1) : \E f \in [D -> V] : Upper(N + 1 - k, f)}
<1>1. 0 \in S
  <2>1. PICK v \in V : TRUE
    OBVIOUS
  <2>2. [x \in D |-> v] \in [D -> V]
    OBVIOUS
  <2>3. \A x \in D : ~(rank[x] >= N + 1)
    OBVIOUS
  <2>4. N + 1 - 0 = N + 1 /\ 0 \in 0..(N + 1)
    OBVIOUS
  <2>5. Upper(N + 1 - 0, [x \in D |-> v])
    BY <2>3, <2>4
  <2>6. QED
    BY <2>2, <2>4, <2>5
<1>2. ASSUME NEW k \in 0..N, k \in S
      PROVE  k + 1 \in S
  <2>1. PICK f \in [D -> V] : Upper(N + 1 - k, f)
    BY <1>2
  <2> DEFINE g == [x \in D |-> IF rank[x] = N - k THEN Step[x][f] ELSE f[x]]
  <2>2. g \in [D -> V]
    OBVIOUS
  <2>3. ASSUME NEW x \in D, rank[x] >= N - k
        PROVE  g[x] = Step[x][g]
    <3>1. \A y \in D : rank[y] > rank[x] => f[y] = g[y]
      BY <2>3
    <3>2. Step[x][f] = Step[x][g]
      BY <2>2, <3>1
    <3>3. ASSUME rank[x] # N - k
          PROVE  f[x] = Step[x][f]
      <4>1. PICK r \in 0..N : r = rank[x]
        OBVIOUS
      <4>2. r >= N - k /\ r # N - k
        BY <2>3, <3>3, <4>1
      <4>3. r >= N + 1 - k
        BY <4>2
      <4>4. QED
        BY <2>1, <4>1, <4>3
    <3>4. QED
      BY <3>2, <3>3
  <2>4. N + 1 - (k + 1) = N - k /\ k + 1 \in 0..(N + 1)
    OBVIOUS
  <2>5. Upper(N + 1 - (k + 1), g)
    BY <2>3, <2>4
  <2>6. QED
    BY <2>2, <2>4, <2>5
<1>3. 0..(N + 1) \subseteq S
  <2>1. N + 1 \in Nat /\ (N + 1) - 1 = N
    OBVIOUS
  <2> HIDE DEF S, Ranked
  <2>2. QED
    BY <1>1, <1>2, <2>1, UpToInduction
<1>4. PICK f \in [D -> V] : Upper(N + 1 - (N + 1), f)
  <2>1. N + 1 \in S
    <3>1. N + 1 \in 0..(N + 1)
      OBVIOUS
    <3> HIDE DEF S
    <3>2. QED
      BY <1>3, <3>1
  <2>2. QED
    BY <2>1
<1>5. \A x \in D : rank[x] >= N + 1 - (N + 1)
  OBVIOUS
<1>6. QED
  BY <1>4, <1>5

-----------------------------------------------------------------------------
(* Sequences of outputs.                                                   *)

Output == [at : Nat, under : SUBSET Nat]

\* f is the sequence of the outputs in R, in the order of their positions.
Lists(f, R) ==
    /\ f \in Seq(Output)
    /\ InOrder(f)
    /\ {f[i] : i \in DOMAIN f} = R

\* Every output of R comes before every one of T.
Before(R, T) == \A a \in R, b \in T : a.at < b.at

\* No output at all is the list of none.
LEMMA ListsEmpty == Lists(<<>>, {})
BY DEF Lists, InOrder

\* A single output is the list of itself.
LEMMA ListsOne ==
    ASSUME NEW o \in Output
    PROVE  Lists(<<o>>, {o})
BY DEF Lists, InOrder

\* A function that lists nothing outputs nothing.
LEMMA ListsNothing ==
    ASSUME NEW f, Lists(f, {})
    PROVE  f = <<>>
<1>1. f \in Seq(Output) /\ \A i \in DOMAIN f : FALSE
  BY DEF Lists
<1>2. 1..Len(f) = {}
  BY <1>1
<1>3. QED
  BY SMTT(30), <1>1, <1>2

\* Two functions one after the other list what both list, if the outputs of the second
\* all come later in the template.
LEMMA ConcatLists ==
    ASSUME NEW f, NEW g, NEW R, NEW T, Lists(f, R), Lists(g, T), Before(R, T)
    PROVE  Lists(f \o g, R \cup T)
<1> DEFINE h == f \o g
           m == Len(f)
           n == Len(g)
<1>1. f \in Seq(Output) /\ g \in Seq(Output) /\ m \in Nat /\ n \in Nat
      /\ DOMAIN f = 1..m /\ DOMAIN g = 1..n
  BY DEF Lists
<1>2. h \in Seq(Output) /\ DOMAIN h = 1..(m + n)
      /\ \A i \in 1..(m + n) : h[i] = IF i <= m THEN f[i] ELSE g[i - m]
  BY <1>1
<1>3. {h[i] : i \in DOMAIN h} = R \cup T
  <2>1. \A i \in 1..m : i \in 1..(m + n) /\ h[i] = f[i]
    BY <1>1, <1>2
  <2>2. \A i \in 1..n : i + m \in 1..(m + n) /\ h[i + m] = g[i]
    BY <1>1, <1>2
  <2>3. \A i \in 1..(m + n) : i \in 1..m \/ i - m \in 1..n
    BY <1>1
  <2>4. R = {f[i] : i \in 1..m} /\ T = {g[i] : i \in 1..n}
    BY <1>1 DEF Lists
  <2> HIDE DEF h, m, n
  <2>5. \A e \in R \cup T : e \in {h[i] : i \in DOMAIN h}
    BY <1>2, <2>1, <2>2, <2>4
  <2>6. \A i \in 1..(m + n) : h[i] \in R \cup T
    BY <1>1, <1>2, <2>3, <2>4
  <2>7. QED
    BY <1>2, <2>5, <2>6
<1>4. InOrder(h)
  <2> SUFFICES ASSUME NEW i \in 1..(m + n), NEW j \in 1..(m + n), i < j
               PROVE  h[i].at < h[j].at
    BY <1>2 DEF InOrder
  <2>1. CASE j <= m
    <3>1. i \in 1..m /\ j \in 1..m
      BY <1>1, <2>1
    <3>2. f[i].at < f[j].at
      BY <1>1, <3>1 DEF Lists, InOrder
    <3>3. QED
      BY <1>1, <1>2, <3>1, <3>2
  <2>2. CASE i <= m /\ m < j
    <3>1. i \in 1..m /\ j - m \in 1..n
      BY <1>1, <2>2
    <3>2. f[i] \in R /\ g[j - m] \in T
      BY <1>1, <3>1 DEF Lists
    <3>3. h[i] = f[i] /\ h[j] = g[j - m]
      BY <1>1, <1>2, <2>2
    <3>4. QED
      BY <3>2, <3>3 DEF Before
  <2>3. CASE m < i
    <3>1. i - m \in 1..n /\ j - m \in 1..n /\ i - m < j - m
      BY <1>1, <2>3
    <3>2. g[i - m].at < g[j - m].at
      BY <1>1, <3>1 DEF Lists, InOrder
    <3>3. h[i] = g[i - m] /\ h[j] = g[j - m]
      BY <1>1, <1>2, <2>3
    <3>4. QED
      BY <3>2, <3>3
  <2>4. QED
    BY <1>1, <2>1, <2>2, <2>3
<1>5. QED
  BY <1>2, <1>3, <1>4 DEF Lists

\* The loop over a sequence of sequences.
LEMMA FlattenUnfolds ==
    ASSUME NEW V, NEW N \in Nat \ {0}, NEW s \in [1..N -> Seq(V)]
    PROVE  \E fl : /\ fl = [i \in 1..N |-> IF i = 1 THEN s[i] ELSE fl[i - 1] \o s[i]]
                   /\ FlattenSeq(s) = fl[N]
<1> DEFINE Fl == CHOOSE fl : fl = [i \in 1..Len(s) |-> IF i = 1 THEN s[i] ELSE fl[i - 1] \o s[i]]
           W == {k \in 0..N : \E fl \in [1..N -> Seq(V)] : \A i \in 1..k :
                    fl[i] = IF i = 1 THEN s[i] ELSE fl[i - 1] \o s[i]}
<1>1. s \in Seq(Seq(V)) /\ Len(s) = N
  OBVIOUS
<1>2. 0 \in W
  OBVIOUS
<1>3. ASSUME NEW k \in 0..(N - 1), k \in W
      PROVE  k + 1 \in W
  <2>1. PICK fl \in [1..N -> Seq(V)] : \A i \in 1..k :
            fl[i] = IF i = 1 THEN s[i] ELSE fl[i - 1] \o s[i]
    BY <1>3
  <2> DEFINE v == IF k = 0 THEN s[1] ELSE fl[k] \o s[k + 1]
             gl == [fl EXCEPT ![k + 1] = v]
  <2>2. v \in Seq(V)
    <3>1. k # 0 => k \in 1..N /\ k + 1 \in 1..N
      OBVIOUS
    <3>2. k = 0 => s[1] \in Seq(V)
      OBVIOUS
    <3>3. k # 0 => fl[k] \in Seq(V) /\ s[k + 1] \in Seq(V)
      BY <3>1
    <3>4. QED
      BY <3>2, <3>3
  <2>3. gl \in [1..N -> Seq(V)]
    BY <2>2
  <2>4. \A i \in 1..(k + 1) : gl[i] = IF i = 1 THEN s[i] ELSE gl[i - 1] \o s[i]
    <3> SUFFICES ASSUME NEW i \in 1..(k + 1)
                 PROVE  gl[i] = IF i = 1 THEN s[i] ELSE gl[i - 1] \o s[i]
      OBVIOUS
    <3>1. CASE i \in 1..k
      <4>1. gl[i] = fl[i] /\ (i # 1 => gl[i - 1] = fl[i - 1])
        BY <3>1
      <4>2. QED
        BY <2>1, <3>1, <4>1
    <3>2. CASE i = k + 1
      <4>1. gl[i] = v /\ (i # 1 => gl[i - 1] = fl[k])
        BY <3>2
      <4>2. QED
        BY <3>2, <4>1
    <3>3. QED
      BY <3>1, <3>2
  <2>5. k + 1 \in 0..N
    OBVIOUS
  <2>6. QED
    BY <2>3, <2>4, <2>5
<1>4. N \in W
  <2>1. N \in 0..N
    OBVIOUS
  <2> HIDE DEF W
  <2>2. \A k \in 0..(N - 1) : k \in W => k + 1 \in W
    BY <1>3
  <2>3. 0..N \subseteq W
    BY <1>2, <2>2, UpToInduction
  <2>4. QED
    BY <2>1, <2>3
<1>5. \E fl : fl = [i \in 1..N |-> IF i = 1 THEN s[i] ELSE fl[i - 1] \o s[i]]
  <2>1. PICK fl \in [1..N -> Seq(V)] : \A i \in 1..N :
            fl[i] = IF i = 1 THEN s[i] ELSE fl[i - 1] \o s[i]
    BY <1>4
  <2>2. QED
    BY <2>1
<1>6. Fl = [i \in 1..N |-> IF i = 1 THEN s[i] ELSE Fl[i - 1] \o s[i]]
  BY <1>1, <1>5
<1>7. FlattenSeq(s) = Fl[N]
  BY <1>1 DEF FlattenSeq
<1> HIDE DEF Fl
<1>8. QED
  BY <1>6, <1>7

\* Nothing flattened is nothing.
LEMMA FlattenNothing ==
    ASSUME NEW s, s = <<>>
    PROVE  FlattenSeq(s) = <<>>
BY DEF FlattenSeq

\* A sequence of sequences of values is flattened to a sequence of values.
LEMMA FlattenType ==
    ASSUME NEW V, NEW N \in Nat, NEW s \in [1..N -> Seq(V)]
    PROVE  FlattenSeq(s) \in Seq(V)
<1>1. CASE N = 0
  <2>1. s = <<>> /\ <<>> \in Seq(V)
    BY <1>1
  <2>2. FlattenSeq(s) = <<>>
    BY <2>1, FlattenNothing
  <2>3. QED
    BY <2>1, <2>2
<1>2. CASE N # 0
  <2>1. PICK fl : /\ fl = [i \in 1..N |-> IF i = 1 THEN s[i] ELSE fl[i - 1] \o s[i]]
                  /\ FlattenSeq(s) = fl[N]
    <3>1. N \in Nat \ {0}
      BY <1>2
    <3>2. QED
      BY <3>1, FlattenUnfolds
  <2> DEFINE L == {k \in 0..N : k # 0 => fl[k] \in Seq(V)}
  <2>2. ASSUME NEW k \in 0..(N - 1), k \in L
        PROVE  k + 1 \in L
    <3>1. k + 1 \in 1..N /\ (k + 1) - 1 = k /\ s[k + 1] \in Seq(V) /\ s[1] \in Seq(V)
      BY <1>2
    <3>2. fl[k + 1] = IF k + 1 = 1 THEN s[k + 1] ELSE fl[k] \o s[k + 1]
      BY <2>1, <3>1
    <3>3. k # 0 => fl[k] \in Seq(V)
      BY <2>2
    <3>4. k + 1 # 1 => k # 0
      OBVIOUS
    <3>5. fl[k + 1] \in Seq(V)
      BY <3>1, <3>2, <3>3, <3>4
    <3>6. QED
      BY <3>1, <3>5
  <2>3. N \in L
    <3>1. 0 \in L
      OBVIOUS
    <3>2. N \in 0..N
      OBVIOUS
    <3> HIDE DEF L
    <3>3. \A k \in 0..(N - 1) : k \in L => k + 1 \in L
      BY <2>2
    <3>4. 0..N \subseteq L
      BY <3>1, <3>3, UpToInduction
    <3>5. QED
      BY <3>2, <3>4
  <2>4. QED
    BY <1>2, <2>1, <2>3
<1>3. QED
  BY <1>1, <1>2

\* A loop over the children of a node lists what each lists, if they are in order.
LEMMA FlattenLists ==
    ASSUME NEW N \in Nat, NEW s \in [1..N -> Seq(Output)], NEW R \in [1..N -> SUBSET Output],
           \A i \in 1..N : Lists(s[i], R[i]),
           \A i, j \in 1..N : i < j => Before(R[i], R[j])
    PROVE  Lists(FlattenSeq(s), UNION {R[i] : i \in 1..N})
<1>1. CASE N = 0
  <2>1. s = <<>> /\ {R[i] : i \in 1..N} = {}
    BY <1>1
  <2>2. FlattenSeq(s) = <<>>
    BY <2>1, FlattenNothing
  <2>3. QED
    BY <2>1, <2>2, ListsEmpty
<1>2. CASE N # 0
  <2>1. PICK fl : /\ fl = [i \in 1..N |-> IF i = 1 THEN s[i] ELSE fl[i - 1] \o s[i]]
                  /\ FlattenSeq(s) = fl[N]
    <3>1. N \in Nat \ {0}
      BY <1>2
    <3>2. QED
      BY <3>1, FlattenUnfolds
  <2> DEFINE P(k) == UNION {R[i] : i \in 1..k}
             L == {k \in 0..N : k # 0 => Lists(fl[k], P(k))}
  <2>7. ASSUME NEW k \in 0..(N - 1), k \in L
        PROVE  k + 1 \in L
    <3>1. CASE k = 0
      <4>1. 1 \in 1..N /\ k + 1 = 1 /\ 1 \in 0..N
        BY <1>2, <3>1
      <4>2. fl[1] = s[1]
        BY <2>1, <4>1
      <4>3. P(1) = R[1]
        BY <4>1
      <4> HIDE DEF P
      <4>4. Lists(fl[1], P(1))
        BY <4>1, <4>2, <4>3
      <4>5. QED
        BY <4>1, <4>4
    <3>2. CASE k # 0
      <4>0. k \in 1..N /\ k + 1 \in 1..N /\ k + 1 # 1 /\ (k + 1) - 1 = k
        BY <3>2
      <4>1. fl[k + 1] = fl[k] \o s[k + 1]
        BY <2>1, <4>0
      <4>2. P(k + 1) = P(k) \cup R[k + 1]
        BY <3>2
      <4>3. Before(P(k), R[k + 1])
        <5>1. \A i \in 1..k : Before(R[i], R[k + 1])
          BY <3>2
        <5>2. QED
          BY <5>1 DEF Before
      <4>4. Lists(fl[k], P(k)) /\ Lists(s[k + 1], R[k + 1])
        BY <2>7, <3>2
      <4> HIDE DEF P
      <4>5. Lists(fl[k] \o s[k + 1], P(k) \cup R[k + 1])
        BY <4>3, <4>4, ConcatLists
      <4>6. Lists(fl[k + 1], P(k + 1))
        BY <4>1, <4>2, <4>5
      <4>7. QED
        BY <4>6
    <3>3. QED
      BY <3>1, <3>2
  <2>8. N \in L
    <3>1. 0 \in L
      OBVIOUS
    <3> HIDE DEF L
    <3>2. \A k \in 0..(N - 1) : k \in L => k + 1 \in L
      BY <2>7
    <3>3. 0..N \subseteq L
      BY <3>1, <3>2, UpToInduction
    <3>4. QED
      BY <3>3
  <2>9. QED
    BY <1>2, <2>1, <2>8
<1>3. QED
  BY <1>1, <1>2

-----------------------------------------------------------------------------
(* The tree, its subtrees and its paths.                                   *)

NodeKinds == {"text", "celse"} \cup Opening
NodeType == [kind : NodeKinds, parent : Nat, at : Nat]
AllNodes == 1..Len(nodes)

\* Children come after their parents, text has none, and a second branch is the last
\* child of a condition.
Links ==
    \A i \in AllNodes :
        /\ nodes[i].parent < i
        /\ nodes[i].parent # 0 => nodes[nodes[i].parent].kind # "text"
        /\ nodes[i].kind = "celse" =>
              /\ nodes[i].parent # 0 /\ nodes[nodes[i].parent].kind = "cif"
              /\ \A j \in AllNodes : i < j => nodes[j].parent # nodes[i].parent

\* Once a node comes that is outside of the subtree of i, no later one is inside.
Preorder ==
    \A i, j, k \in AllNodes :
        i < j /\ j < k /\ nodes[j].parent < i => nodes[k].parent < i \/ nodes[k].parent >= j

Tree ==
    /\ nodes \in Seq(NodeType)
    /\ Links
    /\ \A i, j \in AllNodes : i < j => nodes[i].at < nodes[j].at
    /\ Preorder

\* The nodes of the subtree of n, and those of them on the way to d.
Sub(n) == {m \in n..Len(nodes) : \A k \in (n + 1)..m : nodes[k].parent >= n}
Path(n, d) == {a \in n..d : d \in Sub(a)}

\* The types of a node of the tree: its parent comes before it.
LEMMA TreeTypes ==
    ASSUME Tree
    PROVE  /\ Len(nodes) \in Nat
           /\ \A i \in AllNodes : /\ nodes[i].kind \in NodeKinds
                                  /\ nodes[i].parent \in 0..(i - 1)
                                  /\ nodes[i].at \in Nat
<1>1. nodes \in Seq(NodeType)
  BY DEF Tree
<1>2. Len(nodes) \in Nat /\ \A i \in AllNodes : nodes[i] \in NodeType
  BY <1>1 DEF AllNodes
<1>3. QED
  BY <1>2 DEF Tree, Links, AllNodes, NodeType

\* Below a child.
LEMMA BelowChild ==
    ASSUME Tree, NEW n \in 0..Len(nodes), NEW c \in Children(n), NEW d \in Sub(c)
    PROVE  /\ c \in AllNodes /\ d \in AllNodes /\ n < c /\ c <= d
           /\ d \in Sub(n)
           /\ Path(n, d) = {n} \cup Path(c, d)
           /\ c \in Path(c, d) /\ Path(c, d) \subseteq c..d
           /\ \A k \in (c + 1)..d : nodes[k].parent >= c
<1> USE TreeTypes DEF AllNodes
<1>1. c \in 1..Len(nodes) /\ d \in c..Len(nodes) /\ n < c /\ nodes[c].parent = n
  BY DEF Children, Sub
<1>2. \A k \in (c + 1)..d : nodes[k].parent >= c
  BY DEF Sub
<1>3. ASSUME NEW k \in (n + 1)..(c - 1), nodes[k].parent < n
      PROVE  FALSE
  <2>1. n \in 1..Len(nodes) /\ k \in 1..Len(nodes) /\ n < k /\ k < c
    BY <1>1, <1>3
  <2>2. nodes[c].parent < n \/ nodes[c].parent >= k
    BY <1>1, <1>3, <2>1 DEF Tree, Preorder
  <2>3. QED
    BY <1>1, <2>1, <2>2
<1>4. \A k \in (n + 1)..d : nodes[k].parent >= n
  <2> SUFFICES ASSUME NEW k \in (n + 1)..d
               PROVE  nodes[k].parent >= n
    OBVIOUS
  <2>1. k \in (n + 1)..(c - 1) \/ k = c \/ k \in (c + 1)..d
    BY <1>1
  <2>2. k \in 1..Len(nodes) /\ nodes[k].parent \in Nat
    BY <1>1
  <2>3. QED
    BY SMTT(30), <1>1, <1>2, <1>3, <2>1, <2>2
<1>5. d \in Sub(n)
  BY <1>1, <1>4 DEF Sub
<1>6. \A a \in (n + 1)..(c - 1) : d \notin Sub(a)
  <2> SUFFICES ASSUME NEW a \in (n + 1)..(c - 1), d \in Sub(a)
               PROVE  FALSE
    OBVIOUS
  <2>1. c \in (a + 1)..d
    BY <1>1
  <2>2. nodes[c].parent >= a
    BY <2>1 DEF Sub
  <2>3. QED
    BY <1>1, <2>2
<1>7. Path(n, d) = {n} \cup Path(c, d)
  <2>1. \A a \in Int : a \in n..d <=> a = n \/ a \in (n + 1)..(c - 1) \/ a \in c..d
    BY <1>1
  <2>2. QED
    BY <1>5, <1>6, <2>1 DEF Path
<1>8. c \in Path(c, d)
  BY <1>1 DEF Path
<1>9. QED
  BY <1>1, <1>2, <1>5, <1>7, <1>8 DEF Path

\* Every node below n is below one of its children.
LEMMA BelowSomeChild ==
    ASSUME Tree, NEW n \in 0..Len(nodes), NEW d \in Sub(n), d # n
    PROVE  \E c \in Children(n) : d \in Sub(c)
<1> USE TreeTypes DEF AllNodes
<1>1. d \in (n + 1)..Len(nodes) /\ \A k \in (n + 1)..d : nodes[k].parent >= n
  BY DEF Sub
<1> DEFINE S == {c \in Children(n) : c <= d}
<1>2. n + 1 \in S
  <2>1. n + 1 \in 1..Len(nodes) /\ n + 1 \in (n + 1)..d
    BY <1>1
  <2>2. nodes[n + 1].parent >= n /\ nodes[n + 1].parent \in 0..n
    BY <1>1, <2>1
  <2>3. QED
    BY <2>1, <2>2 DEF Children
<1>3. PICK c \in S : \A j \in S : j <= c
  <2>1. S \subseteq 0..Len(nodes)
    BY DEF Children
  <2> HIDE DEF S
  <2>2. QED
    BY <1>2, <2>1, GreatestElement
<1>4. c \in 1..Len(nodes) /\ nodes[c].parent = n /\ n < c /\ c <= d
  BY DEF Children
<1>5. \A k \in (c + 1)..d : nodes[k].parent >= c
  <2> SUFFICES ASSUME NEW k \in (c + 1)..d, nodes[k].parent < c
               PROVE  FALSE
    <3>1. \A k \in (c + 1)..d : nodes[k].parent \in Nat
      BY <1>1, <1>4
    <3>2. QED
      BY <1>4, <3>1
  <2> DEFINE p == nodes[k].parent
  <2>1. k \in 1..Len(nodes) /\ k \in (n + 1)..d /\ p \in 0..(c - 1) /\ p >= n
    BY <1>1, <1>4
  <2>2. p # n
    <3>1. p = n => k \in S
      BY <2>1 DEF Children
    <3>2. QED
      BY <1>3, <1>4, <3>1
  <2>3. p \in 1..Len(nodes) /\ p < c /\ c < k /\ nodes[c].parent < p
    BY SMTT(30), <1>4, <2>1, <2>2
  <2>4. p < p \/ p >= c
    BY <1>4, <2>1, <2>3 DEF Tree, Preorder
  <2> HIDE DEF p
  <2>5. QED
    BY <1>4, <2>3, <2>4
<1>6. QED
  BY <1>1, <1>4, <1>5 DEF Sub

\* The subtrees of two children are one after the other.
LEMMA ChildrenInOrder ==
    ASSUME Tree, NEW n \in 0..Len(nodes), NEW c \in Children(n), NEW e \in Children(n), c < e,
           NEW i \in Sub(c), NEW j \in Sub(e)
    PROVE  nodes[i].at < nodes[j].at
<1> USE TreeTypes DEF AllNodes
<1>1. /\ c \in 1..Len(nodes) /\ e \in 1..Len(nodes) /\ n < c /\ nodes[e].parent = n
      /\ i \in c..Len(nodes) /\ j \in e..Len(nodes)
  BY DEF Children, Sub
<1>2. i < e
  <2> SUFFICES ASSUME e <= i
               PROVE  FALSE
    BY <1>1
  <2>1. nodes[e].parent >= c
    BY <1>1 DEF Sub
  <2>2. QED
    BY <1>1, <2>1
<1>3. QED
  BY SMTT(30), <1>1, <1>2 DEF Tree

\* Content is a leaf of the tree.
LEMMA TextHasNothingBelow ==
    ASSUME Tree, NEW n \in AllNodes, Kind(n) = "text"
    PROVE  Sub(n) = {n} /\ Path(n, n) = {n} /\ Children(n) = {}
<1> USE TreeTypes DEF AllNodes
<1>1. Children(n) = {}
  BY DEF Children, Kind, Tree, Links
<1>2. n \in Sub(n)
  BY DEF Sub
<1>3. \A d \in Sub(n) : d = n
  BY <1>1, BelowSomeChild
<1>4. QED
  BY <1>1, <1>2, <1>3 DEF Path

-----------------------------------------------------------------------------
(* What the tree says about each piece of content: the function that writes it and the *)
(* tags it is written in.                                                  *)

\* The tags around d from n on: loops, first branches it is in, and second branches.
Wraps(n, d) ==
    {a \in Path(n, d) :
        \/ Kind(a) = "cloop"
        \/ Kind(a) = "cif" /\ \A e \in Path(n, d) : ~(Kind(e) = "celse" /\ nodes[e].parent = a)
        \/ Kind(a) = "celse" /\ a # n}

\* The outermost style around d from n on.
Outermost(n, d) ==
    {a \in Path(n, d) :
        Kind(a) \in Styles /\ \A b \in Path(n, d) : Kind(b) \in Styles => a <= b}

CssTexts(n, mode) ==
    {d \in Sub(n) : /\ Kind(d) = "text"
                    /\ mode = "css" \/ \E a \in Outermost(n, d) : Kind(a) = "cstyle"}
PageTexts(n) ==
    {d \in Sub(n) : Kind(d) = "text" /\ \A a \in Outermost(n, d) : Kind(a) = "cinline"}

Out(d, tags) == [at |-> nodes[d].at, under |-> {nodes[a].at : a \in tags}]

\* What the two functions output from n on.
CssOut(n, d) == Out(d, Wraps(n, d))
PageOut(n, d) == Out(d, Wraps(n, d) \cup Outermost(n, d))
CssOuts(n, mode) == {CssOut(n, d) : d \in CssTexts(n, mode)}
PageOuts(n) == {PageOut(n, d) : d \in PageTexts(n)}

\* The same from a child on.
LEMMA WrapsBelow ==
    ASSUME Tree, NEW n \in 0..Len(nodes), NEW c \in Children(n), NEW d \in Sub(c)
    PROVE  Wraps(n, d) = IF Kind(c) = "celse" THEN {c} \cup Wraps(c, d)
                         ELSE IF Kind(n) \in {"cloop", "cif"} THEN {n} \cup Wraps(c, d)
                         ELSE Wraps(c, d)
<1>1. /\ c \in AllNodes /\ d \in AllNodes /\ n < c /\ c <= d
      /\ Path(n, d) = {n} \cup Path(c, d)
      /\ c \in Path(c, d) /\ Path(c, d) \subseteq c..d
      /\ \A k \in (c + 1)..d : nodes[k].parent >= c
  BY BelowChild
<1>2. Len(nodes) \in Nat /\ nodes[c].parent = n /\ Kind(c) = nodes[c].kind
  BY <1>1, TreeTypes DEF Children, Kind, AllNodes
<1>3. Kind(c) = "celse" => Kind(n) = "cif"
  BY <1>1, <1>2 DEF Tree, Links, Kind
<1>4. \A e \in Path(c, d) : e # c => nodes[e].parent # n
  BY <1>1, <1>2, TreeTypes DEF AllNodes
<1>5. Kind(n) = "celse" => nodes[n].parent < n
  <2>1. Kind(n) = "celse" => n \in AllNodes
    BY <1>2 DEF Kind, AllNodes
  <2>2. QED
    BY <2>1, TreeTypes
<1>6. \A a \in Path(c, d) : a > n /\ a # n
  BY <1>1, <1>2 DEF AllNodes
<1>7. \A a \in Path(c, d) :
          (\A e \in Path(n, d) : ~(Kind(e) = "celse" /\ nodes[e].parent = a))
          <=> (\A e \in Path(c, d) : ~(Kind(e) = "celse" /\ nodes[e].parent = a))
  <2>1. \A a \in Path(c, d) : ~(Kind(n) = "celse" /\ nodes[n].parent = a)
    BY <1>2, <1>5, <1>6, <1>1, TreeTypes DEF AllNodes, Kind
  <2>2. QED
    BY <1>1, <2>1
<1>8. (\A e \in Path(n, d) : ~(Kind(e) = "celse" /\ nodes[e].parent = n))
          <=> Kind(c) # "celse"
  <2>1. ~(Kind(n) = "celse" /\ nodes[n].parent = n)
    BY <1>5, <1>2
  <2>2. QED
    BY <1>1, <1>2, <1>4, <2>1
<1>9. CASE Kind(c) = "celse"
  <2>1. n \notin Wraps(n, d)
    BY <1>3, <1>8, <1>9 DEF Wraps
  <2>2. \A a \in Path(c, d) : a \in Wraps(n, d) <=> a = c \/ a \in Wraps(c, d)
    BY <1>1, <1>6, <1>7, <1>9 DEF Wraps
  <2>3. QED
    BY <1>1, <1>9, <2>1, <2>2 DEF Wraps
<1>10. CASE Kind(c) # "celse"
  <2>1. n \in Wraps(n, d) <=> Kind(n) \in {"cloop", "cif"}
    BY <1>1, <1>8, <1>10 DEF Wraps
  <2>2. \A a \in Path(c, d) : a \in Wraps(n, d) <=> a \in Wraps(c, d)
    BY <1>1, <1>6, <1>7, <1>10 DEF Wraps
  <2>3. QED
    BY <1>1, <1>10, <2>1, <2>2 DEF Wraps
<1>11. QED
  BY <1>9, <1>10

\* The outermost style from a node on is that node, if it is a style, or the one from its
\* child on.
LEMMA OutermostBelow ==
    ASSUME Tree, NEW n \in 0..Len(nodes), NEW c \in Children(n), NEW d \in Sub(c)
    PROVE  Outermost(n, d) = IF Kind(n) \in Styles THEN {n} ELSE Outermost(c, d)
<1>1. /\ c \in AllNodes /\ n < c /\ Path(n, d) = {n} \cup Path(c, d)
      /\ Path(c, d) \subseteq c..d /\ d \in AllNodes
  BY BelowChild
<1>2. \A a \in Path(c, d) : n <= a /\ n # a /\ ~(a <= n)
  BY <1>1, TreeTypes DEF AllNodes
<1>3. n <= n
  OBVIOUS
<1>4. CASE Kind(n) \in Styles
  BY <1>1, <1>2, <1>3, <1>4 DEF Outermost
<1>5. CASE Kind(n) \notin Styles
  BY <1>1, <1>2, <1>5 DEF Outermost
<1>6. QED
  BY <1>4, <1>5

\* What is output from n on is what is output from its children on.
LEMMA TextsBelow ==
    ASSUME Tree, NEW n \in 0..Len(nodes), Kind(n) # "text"
    PROVE  /\ \A mode \in Modes :
                CssTexts(n, mode) =
                    IF Kind(n) = "cinline" /\ mode = "page" THEN {}
                    ELSE UNION {CssTexts(c, IF Kind(n) \in Styles THEN "css" ELSE mode) :
                                    c \in Children(n)}
           /\ PageTexts(n) =
                IF Kind(n) = "cstyle" THEN {}
                ELSE IF Kind(n) = "cinline" THEN UNION {CssTexts(c, "css") : c \in Children(n)}
                ELSE UNION {PageTexts(c) : c \in Children(n)}
<1>1. \A d \in Sub(n) : Kind(d) = "text" => \E c \in Children(n) : d \in Sub(c)
  BY BelowSomeChild
<1>2. \A c \in Children(n) : \A d \in Sub(c) : d \in Sub(n)
  BY BelowChild
<1>3. \A c \in Children(n) : \A d \in Sub(c) :
          Outermost(n, d) = IF Kind(n) \in Styles THEN {n} ELSE Outermost(c, d)
  BY OutermostBelow
<1>4. ASSUME NEW mode \in Modes
      PROVE  CssTexts(n, mode) =
                    IF Kind(n) = "cinline" /\ mode = "page" THEN {}
                    ELSE UNION {CssTexts(c, IF Kind(n) \in Styles THEN "css" ELSE mode) :
                                    c \in Children(n)}
  <2>1. CASE Kind(n) = "cinline" /\ mode = "page"
    BY <1>1, <1>3, <2>1 DEF CssTexts, Styles
  <2>2. CASE Kind(n) \in Styles /\ ~(Kind(n) = "cinline" /\ mode = "page")
    <3>1. Kind(n) = "cstyle" \/ mode = "css"
      BY <2>2 DEF Modes, Styles
    <3>2. \A c \in Children(n) : \A d \in Sub(c) :
              d \in CssTexts(n, mode) <=> d \in CssTexts(c, "css")
      BY <1>2, <1>3, <2>2, <3>1 DEF CssTexts
    <3>3. \A d \in CssTexts(n, mode) : \E c \in Children(n) : d \in Sub(c)
      BY <1>1 DEF CssTexts
    <3>4. \A c \in Children(n) : CssTexts(c, "css") \subseteq Sub(c)
      BY DEF CssTexts
    <3>5. CssTexts(n, mode) = UNION {CssTexts(c, "css") : c \in Children(n)}
      BY <3>2, <3>3, <3>4
    <3>6. QED
      BY <2>2, <3>5
  <2>3. CASE Kind(n) \notin Styles
    <3>2. \A c \in Children(n) : \A d \in Sub(c) :
              d \in CssTexts(n, mode) <=> d \in CssTexts(c, mode)
      BY <1>2, <1>3, <2>3 DEF CssTexts
    <3>3. \A d \in CssTexts(n, mode) : \E c \in Children(n) : d \in Sub(c)
      BY <1>1 DEF CssTexts
    <3>4. \A c \in Children(n) : CssTexts(c, mode) \subseteq Sub(c)
      BY DEF CssTexts
    <3>5. CssTexts(n, mode) = UNION {CssTexts(c, mode) : c \in Children(n)}
      BY <3>2, <3>3, <3>4
    <3>6. QED
      BY <2>3, <3>5 DEF Styles
  <2>4. QED
    BY <2>1, <2>2, <2>3
<1>5. PageTexts(n) =
                IF Kind(n) = "cstyle" THEN {}
                ELSE IF Kind(n) = "cinline" THEN UNION {CssTexts(c, "css") : c \in Children(n)}
                ELSE UNION {PageTexts(c) : c \in Children(n)}
  <2>1. CASE Kind(n) = "cstyle"
    BY <1>1, <1>3, <2>1 DEF PageTexts, Styles
  <2>2. CASE Kind(n) = "cinline"
    <3>2. \A c \in Children(n) : \A d \in Sub(c) :
              d \in PageTexts(n) <=> d \in CssTexts(c, "css")
      BY <1>2, <1>3, <2>2 DEF CssTexts, PageTexts, Styles
    <3>3. \A d \in PageTexts(n) : \E c \in Children(n) : d \in Sub(c)
      BY <1>1 DEF PageTexts
    <3>4. \A c \in Children(n) : CssTexts(c, "css") \subseteq Sub(c)
      BY DEF CssTexts
    <3>5. PageTexts(n) = UNION {CssTexts(c, "css") : c \in Children(n)}
      BY <3>2, <3>3, <3>4
    <3>6. QED
      BY <2>2, <3>5
  <2>3. CASE Kind(n) \notin Styles
    <3>2. \A c \in Children(n) : \A d \in Sub(c) :
              d \in PageTexts(n) <=> d \in PageTexts(c)
      BY <1>2, <1>3, <2>3 DEF PageTexts
    <3>3. \A d \in PageTexts(n) : \E c \in Children(n) : d \in Sub(c)
      BY <1>1 DEF PageTexts
    <3>4. \A c \in Children(n) : PageTexts(c) \subseteq Sub(c)
      BY DEF PageTexts
    <3>5. PageTexts(n) = UNION {PageTexts(c) : c \in Children(n)}
      BY <3>2, <3>3, <3>4
    <3>6. QED
      BY <2>3, <3>5 DEF Styles
  <2>4. QED
    BY <2>1, <2>2, <2>3 DEF Styles
<1>6. QED
  BY <1>4, <1>5

-----------------------------------------------------------------------------
(* Outputs from a node on and from its children on.                        *)

\* The outputs in R with the tag of n around them.
Around(n, o) == [at |-> o.at, under |-> o.under \cup {nodes[n].at}]
WrapOuts(n, R) == {Around(n, o) : o \in R}

\* The outputs R of a child, seen from its parent.
Passed(n, c, R) ==
    IF Kind(c) = "celse" THEN WrapOuts(c, R)
    ELSE IF Kind(n) \in {"cloop", "cif"} THEN WrapOuts(n, R)
    ELSE R

\* The output of a node in any tags is an output.
LEMMA OutTypes ==
    ASSUME Tree, NEW n \in 0..Len(nodes), NEW d \in AllNodes, NEW W \in SUBSET AllNodes
    PROVE  Out(d, W) \in Output
BY TreeTypes DEF Out, Output

\* Nothing is around d but tags before it.
LEMMA WrapsTypes ==
    ASSUME Tree, NEW n \in 0..Len(nodes), NEW d \in Sub(n)
    PROVE  /\ Wraps(n, d) \subseteq AllNodes
           /\ n # 0 \/ Kind(n) \notin Styles => Outermost(n, d) \subseteq AllNodes
<1>1. \A a \in Path(n, d) : a \in AllNodes \/ a = 0
  BY TreeTypes DEF Path, Sub, AllNodes
<1>2. 0 \notin Wraps(n, d) /\ 0 \notin Outermost(n, d)
  BY DEF Wraps, Outermost, Kind, Styles
<1>3. QED
  BY <1>1, <1>2 DEF Wraps, Outermost

\* One more tag around an output.
LEMMA OutWith ==
    ASSUME NEW d, NEW W, NEW a, NEW V, V = {a} \cup W
    PROVE  Out(d, V) = Around(a, Out(d, W))
<1>1. {nodes[b].at : b \in {a} \cup W} = {nodes[b].at : b \in W} \cup {nodes[a].at}
  OBVIOUS
<1>2. QED
  BY <1>1 DEF Out, Around

\* The output of a text from a node on is that from its child on, inside the tag of the
\* node or of the second branch.
LEMMA OutBelow ==
    ASSUME Tree, NEW n \in 0..Len(nodes), NEW c \in Children(n), NEW d \in Sub(c)
    PROVE  /\ CssOut(n, d) = IF Kind(c) = "celse" THEN Around(c, CssOut(c, d))
                             ELSE IF Kind(n) \in {"cloop", "cif"} THEN Around(n, CssOut(c, d))
                             ELSE CssOut(c, d)
           /\ Kind(n) \notin Styles =>
                PageOut(n, d) = IF Kind(c) = "celse" THEN Around(c, PageOut(c, d))
                                ELSE IF Kind(n) \in {"cloop", "cif"} THEN Around(n, PageOut(c, d))
                                ELSE PageOut(c, d)
           /\ Kind(n) = "cinline" => PageOut(n, d) = Around(n, CssOut(c, d))
<1> DEFINE P == Wraps(n, d)
           Q == Wraps(c, d)
           O == Outermost(n, d)
           U == Outermost(c, d)
<1>1. /\ P = IF Kind(c) = "celse" THEN {c} \cup Q
              ELSE IF Kind(n) \in {"cloop", "cif"} THEN {n} \cup Q
              ELSE Q
      /\ O = IF Kind(n) \in Styles THEN {n} ELSE U
  BY WrapsBelow, OutermostBelow
<1>2. Kind(c) = "celse" => Kind(n) = "cif"
  BY BelowChild, TreeTypes DEF Tree, Links, Kind, Children, AllNodes
<1>3. CssOut(n, d) = Out(d, P) /\ CssOut(c, d) = Out(d, Q)
      /\ PageOut(n, d) = Out(d, P \cup O) /\ PageOut(c, d) = Out(d, Q \cup U)
  BY DEF CssOut, PageOut
<1> HIDE DEF P, Q, O, U
<1>4. CASE Kind(c) = "celse"
  <2>1. Out(d, P) = Around(c, Out(d, Q))
    BY <1>1, <1>4, OutWith
  <2>2. P \cup O = {c} \cup (Q \cup U)
    BY <1>1, <1>2, <1>4 DEF Styles
  <2>3. Out(d, P \cup O) = Around(c, Out(d, Q \cup U))
    BY <2>2, OutWith
  <2>4. QED
    BY <1>2, <1>3, <1>4, <2>1, <2>3
<1>5. CASE Kind(c) # "celse" /\ Kind(n) \in {"cloop", "cif"}
  <2>1. Out(d, P) = Around(n, Out(d, Q))
    BY <1>1, <1>5, OutWith
  <2>2. P \cup O = {n} \cup (Q \cup U)
    BY <1>1, <1>5 DEF Styles
  <2>3. Out(d, P \cup O) = Around(n, Out(d, Q \cup U))
    BY <2>2, OutWith
  <2>4. QED
    BY <1>3, <1>5, <2>1, <2>3
<1>6. CASE Kind(c) # "celse" /\ Kind(n) \notin {"cloop", "cif"}
  <2>1. P = Q
    BY <1>1, <1>6
  <2>2. Kind(n) \notin Styles => P \cup O = Q \cup U
    BY <1>1, <2>1
  <2>3. Kind(n) = "cinline" => P \cup O = {n} \cup Q
    BY <1>1, <2>1 DEF Styles
  <2>4. Kind(n) = "cinline" => Out(d, P \cup O) = Around(n, Out(d, Q))
    BY <2>3, OutWith
  <2>5. QED
    BY <1>3, <1>6, <2>1, <2>2, <2>4
<1>7. QED
  BY <1>4, <1>5, <1>6

\* The same of a set of texts below one child.
LEMMA OutsBelow ==
    ASSUME Tree, NEW n \in 0..Len(nodes), NEW c \in Children(n), NEW T, T \subseteq Sub(c)
    PROVE  /\ {CssOut(n, d) : d \in T} = Passed(n, c, {CssOut(c, d) : d \in T})
           /\ Kind(n) \notin Styles =>
                {PageOut(n, d) : d \in T} = Passed(n, c, {PageOut(c, d) : d \in T})
           /\ Kind(n) = "cinline" =>
                {PageOut(n, d) : d \in T} = WrapOuts(n, {CssOut(c, d) : d \in T})
<1>1. \A d \in T :
          /\ CssOut(n, d) = IF Kind(c) = "celse" THEN Around(c, CssOut(c, d))
                            ELSE IF Kind(n) \in {"cloop", "cif"} THEN Around(n, CssOut(c, d))
                            ELSE CssOut(c, d)
          /\ Kind(n) \notin Styles =>
                PageOut(n, d) = IF Kind(c) = "celse" THEN Around(c, PageOut(c, d))
                                ELSE IF Kind(n) \in {"cloop", "cif"} THEN Around(n, PageOut(c, d))
                                ELSE PageOut(c, d)
          /\ Kind(n) = "cinline" => PageOut(n, d) = Around(n, CssOut(c, d))
  BY OutBelow
<1>2. {CssOut(n, d) : d \in T} = Passed(n, c, {CssOut(c, d) : d \in T})
  BY <1>1 DEF Passed, WrapOuts
<1>3. Kind(n) \notin Styles =>
                {PageOut(n, d) : d \in T} = Passed(n, c, {PageOut(c, d) : d \in T})
  BY <1>1 DEF Passed, WrapOuts
<1>4. Kind(n) = "cinline" =>
                {PageOut(n, d) : d \in T} = WrapOuts(n, {CssOut(c, d) : d \in T})
  BY <1>1 DEF WrapOuts
<1>5. QED
  BY <1>2, <1>3, <1>4

\* So the outputs of a tag are those of its children, passed on.
LEMMA OutsOfChildren ==
    ASSUME Tree, NEW n \in 0..Len(nodes), Kind(n) # "text"
    PROVE  /\ \A mode \in Modes :
                CssOuts(n, mode) =
                    IF Kind(n) = "cinline" /\ mode = "page" THEN {}
                    ELSE UNION {Passed(n, c, CssOuts(c, IF Kind(n) \in Styles THEN "css" ELSE mode)) :
                                    c \in Children(n)}
           /\ PageOuts(n) =
                IF Kind(n) = "cstyle" THEN {}
                ELSE IF Kind(n) = "cinline"
                     THEN UNION {WrapOuts(n, CssOuts(c, "css")) : c \in Children(n)}
                ELSE UNION {Passed(n, c, PageOuts(c)) : c \in Children(n)}
<1>1. \A c \in Children(n) : PageTexts(c) \subseteq Sub(c)
  BY DEF PageTexts
<1>2. \A c \in Children(n) : \A mode \in Modes : CssTexts(c, mode) \subseteq Sub(c)
  BY DEF CssTexts
<1>3. ASSUME NEW mode \in Modes
      PROVE  CssOuts(n, mode) =
                    IF Kind(n) = "cinline" /\ mode = "page" THEN {}
                    ELSE UNION {Passed(n, c, CssOuts(c, IF Kind(n) \in Styles THEN "css" ELSE mode)) :
                                    c \in Children(n)}
  <2> DEFINE m == IF Kind(n) \in Styles THEN "css" ELSE mode
  <2>1. m \in Modes
    BY DEF Modes
  <2>2. CASE Kind(n) = "cinline" /\ mode = "page"
    <3>1. CssTexts(n, mode) = {}
      BY <2>2, TextsBelow
    <3>2. QED
      BY <2>2, <3>1 DEF CssOuts
  <2>3. CASE ~(Kind(n) = "cinline" /\ mode = "page")
    <3>1. CssTexts(n, mode) = UNION {CssTexts(c, m) : c \in Children(n)}
      BY <2>3, TextsBelow
    <3> HIDE DEF m
    <3>2. CssOuts(n, mode) = UNION {{CssOut(n, d) : d \in CssTexts(c, m)} : c \in Children(n)}
      BY <3>1 DEF CssOuts
    <3>3. \A c \in Children(n) :
              {CssOut(n, d) : d \in CssTexts(c, m)} = Passed(n, c, CssOuts(c, m))
      BY <1>2, <2>1, OutsBelow DEF CssOuts
    <3>4. CssOuts(n, mode) = UNION {Passed(n, c, CssOuts(c, m)) : c \in Children(n)}
      BY <3>2, <3>3
    <3>5. QED
      BY <2>3, <3>4 DEF m
  <2>4. QED
    BY <2>2, <2>3
<1>4. PageOuts(n) =
                IF Kind(n) = "cstyle" THEN {}
                ELSE IF Kind(n) = "cinline"
                     THEN UNION {WrapOuts(n, CssOuts(c, "css")) : c \in Children(n)}
                ELSE UNION {Passed(n, c, PageOuts(c)) : c \in Children(n)}
  <2>1. CASE Kind(n) = "cstyle"
    <3>1. PageTexts(n) = {}
      BY <2>1, TextsBelow
    <3>2. QED
      BY <2>1, <3>1 DEF PageOuts
  <2>2. CASE Kind(n) = "cinline"
    <3>1. PageTexts(n) = UNION {CssTexts(c, "css") : c \in Children(n)}
      BY <2>2, TextsBelow
    <3>2. PageOuts(n) = UNION {{PageOut(n, d) : d \in CssTexts(c, "css")} : c \in Children(n)}
      BY <3>1 DEF PageOuts
    <3>3. \A c \in Children(n) : {PageOut(n, d) : d \in CssTexts(c, "css")} = WrapOuts(n, CssOuts(c, "css"))
      BY <1>2, <2>2, OutsBelow DEF CssOuts, Modes
    <3>4. PageOuts(n) = UNION {WrapOuts(n, CssOuts(c, "css")) : c \in Children(n)}
      BY <3>2, <3>3
    <3>5. QED
      BY <2>2, <3>4
  <2>3. CASE Kind(n) \notin Styles
    <3>1. PageTexts(n) = UNION {PageTexts(c) : c \in Children(n)}
      BY <2>3, TextsBelow DEF Styles
    <3>2. PageOuts(n) = UNION {{PageOut(n, d) : d \in PageTexts(c)} : c \in Children(n)}
      BY <3>1 DEF PageOuts
    <3>3. \A c \in Children(n) : {PageOut(n, d) : d \in PageTexts(c)} = Passed(n, c, PageOuts(c))
      BY <1>1, <2>3, OutsBelow DEF PageOuts
    <3>4. PageOuts(n) = UNION {Passed(n, c, PageOuts(c)) : c \in Children(n)}
      BY <3>2, <3>3
    <3>5. QED
      BY <2>3, <3>4 DEF Styles
  <2>4. QED
    BY <2>1, <2>2, <2>3 DEF Styles
<1>5. QED
  BY <1>3, <1>4

-----------------------------------------------------------------------------
\* Wrap and InTurn on sequences of outputs.

\* Wrapping the outputs of a function wraps each.
LEMMA WrapLists ==
    ASSUME Tree, NEW n \in AllNodes, NEW f, NEW R, Lists(f, R)
    PROVE  Lists(Wrap(n, f), WrapOuts(n, R))
<1> DEFINE g == Wrap(n, f)
<1>1. f \in Seq(Output) /\ Len(f) \in Nat /\ DOMAIN f = 1..Len(f) /\ nodes[n].at \in Nat
      /\ \A i \in 1..Len(f) : f[i] \in Output
  BY TreeTypes DEF Lists
<1>2. DOMAIN g = 1..Len(f) /\ g = [i \in 1..Len(f) |-> g[i]]
      /\ \A i \in 1..Len(f) : g[i] = Around(n, f[i])
  BY DEF Wrap, Around
<1>3. \A i \in 1..Len(f) : g[i] \in Output
  BY <1>1, <1>2 DEF Output, Around
<1> HIDE DEF g
<1>4. g \in Seq(Output)
  BY <1>1, <1>2, <1>3
<1>5. InOrder(g)
  BY <1>1, <1>2 DEF InOrder, Lists, Around, Output
<1>6. {g[i] : i \in DOMAIN g} = WrapOuts(n, R)
  <2>1. R = {f[i] : i \in 1..Len(f)}
    BY <1>1 DEF Lists
  <2>2. \A i \in 1..Len(f) : g[i] \in WrapOuts(n, R)
    BY <1>2, <2>1 DEF WrapOuts
  <2>3. ASSUME NEW w \in WrapOuts(n, R)
        PROVE  w \in {g[i] : i \in 1..Len(f)}
    <3>1. PICK o \in R : w = Around(n, o)
      BY DEF WrapOuts
    <3>2. PICK i \in 1..Len(f) : o = f[i]
      BY <2>1
    <3>3. QED
      BY <1>2, <3>1, <3>2
  <2>4. QED
    BY <1>2, <2>2, <2>3
<1>7. QED
  BY <1>4, <1>5, <1>6 DEF Lists, g

\* The outputs in R are of nodes from n on, below it.
From(n, R) == \A o \in R : \E d \in Sub(n) : o.at = nodes[d].at

Together(R, C) == UNION {R[c] : c \in C}
PassedOn(n, R) == UNION {Passed(n, c, R[c]) : c \in Children(n)}

\* A loop over children, each of which lists the outputs of its subtree, lists them all.
LEMMA InTurnLists ==
    ASSUME Tree, NEW n \in 0..Len(nodes), NEW C, C \subseteq Children(n), NEW f, NEW R,
           \A c \in C : Lists(f[c], R[c]) /\ From(c, R[c])
    PROVE  Lists(InTurn(C, f), Together(R, C))
<1> DEFINE N == Len(nodes)
           s == [i \in 1..N |-> IF i \in C THEN f[i] ELSE <<>>]
           T == [i \in 1..N |-> IF i \in C THEN R[i] ELSE {}]
<1>1. N \in Nat /\ C \subseteq 1..N
  BY TreeTypes DEF Children
<1>2. \A i \in 1..N : Lists(s[i], T[i])
  BY ListsEmpty
<1>3. s \in [1..N -> Seq(Output)] /\ T \in [1..N -> SUBSET Output]
  <2>1. \A i \in 1..N : s[i] \in Seq(Output) /\ T[i] \in SUBSET Output
    <3> SUFFICES ASSUME NEW i \in 1..N
                 PROVE  s[i] \in Seq(Output) /\ T[i] \in SUBSET Output
      OBVIOUS
    <3>1. Lists(s[i], T[i])
      BY <1>2
    <3> HIDE DEF s, T
    <3>2. s[i] \in Seq(Output) /\ T[i] = {s[i][j] : j \in DOMAIN s[i]}
      BY <3>1 DEF Lists
    <3>3. QED
      BY <3>2
  <2>2. QED
    BY <2>1
<1>4. \A i, j \in 1..N : i < j => Before(T[i], T[j])
  <2> SUFFICES ASSUME NEW i \in 1..N, NEW j \in 1..N, i < j, i \in C, j \in C
               PROVE  Before(R[i], R[j])
    BY DEF Before
  <2>1. i \in Children(n) /\ j \in Children(n)
    OBVIOUS
  <2>2. \A d \in Sub(i), e \in Sub(j) : nodes[d].at < nodes[e].at
    BY <2>1, ChildrenInOrder
  <2>3. QED
    BY <2>2 DEF Before, From
<1>5. UNION {T[i] : i \in 1..N} = Together(R, C)
  BY <1>1 DEF Together
<1>6. InTurn(C, f) = FlattenSeq(s)
  BY DEF InTurn
<1> HIDE DEF s, T, N
<1>7. Lists(FlattenSeq(s), UNION {T[i] : i \in 1..N})
  BY <1>1, <1>2, <1>3, <1>4, FlattenLists
<1>8. QED
  BY <1>5, <1>6, <1>7

-----------------------------------------------------------------------------
(* The helpers of the generator, and how far it looks.                     *)

\* What a text writes is a sequence of outputs.
LEMMA WriteType ==
    ASSUME Tree, NEW n \in AllNodes
    PROVE  Write(n) \in Seq(Output)
<1>1. nodes[n].at \in Nat
  BY TreeTypes
<1>2. [at |-> nodes[n].at, under |-> {}] \in Output
  BY <1>1 DEF Output
<1>3. QED
  BY <1>2 DEF Write

\* Wrapped outputs are outputs.
LEMMA WrapType ==
    ASSUME Tree, NEW n \in AllNodes, NEW f \in Seq(Output)
    PROVE  Wrap(n, f) \in Seq(Output)
<1>1. nodes[n].at \in Nat /\ Len(f) \in Nat /\ \A i \in 1..Len(f) : f[i] \in Output
  BY TreeTypes
<1>2. \A i \in 1..Len(f) :
          [at |-> f[i].at, under |-> f[i].under \cup {nodes[n].at}] \in Output
  BY <1>1 DEF Output
<1>3. QED
  BY <1>1, <1>2 DEF Wrap

\* So are those of children in turn.
LEMMA InTurnType ==
    ASSUME Tree, NEW C, NEW f, \A c \in C : f[c] \in Seq(Output)
    PROVE  InTurn(C, f) \in Seq(Output)
<1> DEFINE s == [i \in 1..Len(nodes) |-> IF i \in C THEN f[i] ELSE <<>>]
<1>1. Len(nodes) \in Nat
  BY TreeTypes
<1>2. \A i \in 1..Len(nodes) : s[i] \in Seq(Output)
  <2>1. <<>> \in Seq(Output)
    OBVIOUS
  <2>2. QED
    BY <2>1
<1>3. s \in [1..Len(nodes) -> Seq(Output)]
  BY <1>2
<1>4. InTurn(C, f) = FlattenSeq(s)
  BY DEF InTurn
<1> HIDE DEF s
<1>5. QED
  BY <1>1, <1>3, <1>4, FlattenType

\* A loop over children depends on what these children output and on nothing else.
LEMMA InTurnSame ==
    ASSUME NEW C, NEW f, NEW g, \A c \in C : f[c] = g[c]
    PROVE  InTurn(C, f) = InTurn(C, g)
<1>1. [i \in 1..Len(nodes) |-> IF i \in C THEN f[i] ELSE <<>>]
      = [i \in 1..Len(nodes) |-> IF i \in C THEN g[i] ELSE <<>>]
  OBVIOUS
<1>2. QED
  BY <1>1 DEF InTurn

\* The children of a node come after it; a second branch is one of them.
LEMMA ChildrenAfter ==
    ASSUME Tree, NEW n \in 0..Len(nodes)
    PROVE  /\ \A c \in Children(n) : c \in AllNodes /\ c > n /\ c \in (n + 1)..Len(nodes)
           /\ ThenPart(n) \subseteq Children(n) /\ ElsePart(n) \subseteq Children(n)
           /\ ElsePart(n) # {} => SecondBranch(n) \in ElsePart(n)
<1>1. \A c \in Children(n) : c \in AllNodes /\ c > n /\ c \in (n + 1)..Len(nodes)
  BY TreeTypes DEF Children, AllNodes
<1>2. QED
  BY <1>1 DEF ThenPart, ElsePart, SecondBranch

-----------------------------------------------------------------------------
\* The recursive functions are what their definitions say.

HasCssStep(x, f) ==
    LET n == x[1]
        AnyChild(mode) == \E i \in Children(n) : f[<<i, mode>>]
    IN  \/ Kind(n) = "text" /\ x[2] = "css"
        \/ Kind(n) = "cinline" /\ x[2] = "css" /\ AnyChild("css")
        \/ Kind(n) = "cstyle" /\ AnyChild("css")
        \/ Kind(n) \notin {"text"} \cup Styles /\ AnyChild(x[2])

\* A visit of a node makes visits of nodes that come later: the rank that the recursion of
\* the generator goes up.
LEMMA VisitsRank ==
    ASSUME Tree
    PROVE  /\ [x \in Visits |-> x[1]] \in [Visits -> 0..Len(nodes)]
           /\ \A x \in Visits : /\ x[1] \in 0..Len(nodes) /\ x[2] \in Modes /\ x = <<x[1], x[2]>>
                                /\ \A c \in Children(x[1]) : \A m \in Modes :
                                      <<c, m>> \in Visits /\ <<c, m>>[1] > x[1]
<1>1. \A x \in Visits : x[1] \in 0..Len(nodes) /\ x[2] \in Modes /\ x = <<x[1], x[2]>>
  BY DEF Visits
<1>2. QED
  BY <1>1, ChildrenAfter, TreeTypes DEF Visits, AllNodes

\* node_contains_css_content is described by its step.
LEMMA HasCssUnfolds ==
    ASSUME Tree
    PROVE  HasCss = [x \in Visits |-> HasCssStep(x, HasCss)]
<1> DEFINE Step == [x \in Visits |-> [f \in [Visits -> BOOLEAN] |-> HasCssStep(x, f)]]
           rank == [x \in Visits |-> x[1]]
<1>1. Step \in [Visits -> [[Visits -> BOOLEAN] -> BOOLEAN]]
  <2>1. \A x \in Visits, f \in [Visits -> BOOLEAN] : HasCssStep(x, f) \in BOOLEAN
    BY DEF HasCssStep
  <2>2. QED
    BY <2>1
<1>2. ASSUME NEW x \in Visits, NEW f \in [Visits -> BOOLEAN], NEW g \in [Visits -> BOOLEAN],
             \A y \in Visits : rank[y] > rank[x] => f[y] = g[y]
      PROVE  HasCssStep(x, f) = HasCssStep(x, g)
  <2>1. \A c \in Children(x[1]) : \A m \in Modes : f[<<c, m>>] = g[<<c, m>>]
    BY <1>2, VisitsRank
  <2>2. x[2] \in Modes /\ "css" \in Modes
    BY VisitsRank DEF Modes
  <2>3. QED
    BY <2>1, <2>2 DEF HasCssStep
<1>3. \E f \in [Visits -> BOOLEAN] : \A x \in Visits : f[x] = Step[x][f]
  <2>1. Ranked(Len(nodes), Visits, BOOLEAN, rank, Step)
    BY <1>1, <1>2, VisitsRank, TreeTypes DEF Ranked
  <2> HIDE DEF Step, rank
  <2>2. QED
    BY <2>1, RecursionWorks
<1>4. \E f : f = [x \in Visits |-> HasCssStep(x, f)]
  <2>1. PICK f \in [Visits -> BOOLEAN] : \A x \in Visits : f[x] = Step[x][f]
    BY <1>3
  <2>2. \A x \in Visits : f[x] = HasCssStep(x, f)
    BY <2>1
  <2>3. QED
    BY <2>2
<1>5. QED
  BY <1>4 DEF HasCss, HasCssStep

-----------------------------------------------------------------------------
(* The functions of the generator are what their definitions say.          *)

HasExternalCssStep(n, f) ==
    \/ Kind(n) = "cstyle" /\ HasCss[<<n, "page">>]
    \/ \E i \in Children(n) : f[i]

\* template_has_external_css is described by its step.
LEMMA HasExternalCssUnfolds ==
    ASSUME Tree
    PROVE  HasExternalCss = [n \in 0..Len(nodes) |-> HasExternalCssStep(n, HasExternalCss)]
<1> DEFINE D == 0..Len(nodes)
           Step == [n \in D |-> [f \in [D -> BOOLEAN] |-> HasExternalCssStep(n, f)]]
           rank == [n \in D |-> n]
<1>1. Step \in [D -> [[D -> BOOLEAN] -> BOOLEAN]]
  <2>1. \A n \in D, f \in [D -> BOOLEAN] : HasExternalCssStep(n, f) \in BOOLEAN
    BY DEF HasExternalCssStep
  <2>2. QED
    BY <2>1
<1>2. ASSUME NEW n \in D, NEW f \in [D -> BOOLEAN], NEW g \in [D -> BOOLEAN],
             \A y \in D : rank[y] > rank[n] => f[y] = g[y]
      PROVE  HasExternalCssStep(n, f) = HasExternalCssStep(n, g)
  <2>1. \A c \in Children(n) : f[c] = g[c]
    BY <1>2, ChildrenAfter DEF AllNodes
  <2>2. QED
    BY <2>1 DEF HasExternalCssStep
<1>3. \E f \in [D -> BOOLEAN] : \A n \in D : f[n] = Step[n][f]
  <2>1. Ranked(Len(nodes), D, BOOLEAN, rank, Step)
    BY <1>1, <1>2, TreeTypes DEF Ranked
  <2> HIDE DEF Step, rank, D
  <2>2. QED
    BY <2>1, RecursionWorks
<1>4. \E f : f = [n \in D |-> HasExternalCssStep(n, f)]
  <2>1. PICK f \in [D -> BOOLEAN] : \A n \in D : f[n] = Step[n][f]
    BY <1>3
  <2>2. \A n \in D : f[n] = HasExternalCssStep(n, f)
    BY <2>1
  <2>3. QED
    BY <2>2
<1>5. QED
  BY <1>4 DEF HasExternalCss, HasExternalCssStep

-----------------------------------------------------------------------------
EmitAll(f, children, mode) == InTurn(children, [i \in children |-> f[<<i, mode>>]])

EmitCssStep(x, f) ==
    LET n == x[1]
        second == SecondBranch(n)
    IN  CASE Kind(n) = "text"    -> IF x[2] = "css" THEN Write(n) ELSE <<>>
          [] Kind(n) = "cloop"   -> IF Pruned(n, x[2]) THEN <<>>
                                    ELSE Wrap(n, EmitAll(f, Children(n), x[2]))
          [] Kind(n) = "cif"     -> IF Pruned(n, x[2]) THEN <<>>
                                    ELSE Wrap(n, EmitAll(f, ThenPart(n), x[2])) \o
                                         (IF ElsePart(n) # {} /\ HasCss[<<second, x[2]>>]
                                          THEN Wrap(second, EmitAll(f, Children(second), x[2]))
                                          ELSE <<>>)
          [] Kind(n) = "cinline" -> IF x[2] = "css" THEN EmitAll(f, Children(n), "css") ELSE <<>>
          [] Kind(n) = "cstyle"  -> EmitAll(f, Children(n), "css")
          [] OTHER               -> EmitAll(f, Children(n), x[2])

\* The kinds of nodes tell the cases apart.
LEMMA EmitCssCases ==
    ASSUME NEW x, NEW f
    PROVE  LET n == x[1]
               second == SecondBranch(n)
           IN  /\ Kind(n) = "text" => EmitCssStep(x, f) = IF x[2] = "css" THEN Write(n) ELSE <<>>
               /\ Kind(n) = "cloop" =>
                    EmitCssStep(x, f) = IF Pruned(n, x[2]) THEN <<>>
                                        ELSE Wrap(n, EmitAll(f, Children(n), x[2]))
               /\ Kind(n) = "cif" =>
                    EmitCssStep(x, f) =
                        IF Pruned(n, x[2]) THEN <<>>
                        ELSE Wrap(n, EmitAll(f, ThenPart(n), x[2])) \o
                             (IF ElsePart(n) # {} /\ HasCss[<<second, x[2]>>]
                              THEN Wrap(second, EmitAll(f, Children(second), x[2]))
                              ELSE <<>>)
               /\ Kind(n) = "cinline" =>
                    EmitCssStep(x, f) = IF x[2] = "css" THEN EmitAll(f, Children(n), "css") ELSE <<>>
               /\ Kind(n) = "cstyle" => EmitCssStep(x, f) = EmitAll(f, Children(n), "css")
               /\ Kind(n) \notin {"text", "cloop", "cif", "cinline", "cstyle"} =>
                    EmitCssStep(x, f) = EmitAll(f, Children(n), x[2])
<1> DEFINE n == x[1]
<1>1. CASE Kind(n) = "text"
  BY <1>1 DEF EmitCssStep
<1>2. CASE Kind(n) = "cloop"
  BY <1>2 DEF EmitCssStep
<1>3. CASE Kind(n) = "cif"
  BY <1>3 DEF EmitCssStep
<1>4. CASE Kind(n) = "cinline"
  BY <1>4 DEF EmitCssStep
<1>5. CASE Kind(n) = "cstyle"
  BY <1>5 DEF EmitCssStep
<1>6. CASE Kind(n) \notin {"text", "cloop", "cif", "cinline", "cstyle"}
  BY <1>6 DEF EmitCssStep
<1>7. QED
  BY <1>1, <1>2, <1>3, <1>4, <1>5, <1>6

\* emit_css_children outputs, and depends on the outputs of these children only.
LEMMA EmitAllWorks ==
    ASSUME Tree, NEW C, C \subseteq AllNodes, NEW mode \in Modes, NEW f \in [Visits -> Seq(Output)]
    PROVE  /\ EmitAll(f, C, mode) \in Seq(Output)
           /\ \A g \in [Visits -> Seq(Output)] :
                (\A c \in C : f[<<c, mode>>] = g[<<c, mode>>]) =>
                    EmitAll(f, C, mode) = EmitAll(g, C, mode)
<1>1. \A c \in C : <<c, mode>> \in Visits
  BY TreeTypes DEF Visits, AllNodes
<1>2. EmitAll(f, C, mode) \in Seq(Output)
  <2> DEFINE h == [i \in C |-> f[<<i, mode>>]]
  <2>1. \A c \in C : h[c] \in Seq(Output)
    BY <1>1
  <2>2. EmitAll(f, C, mode) = InTurn(C, h)
    BY DEF EmitAll
  <2> HIDE DEF h
  <2>3. QED
    BY <2>1, <2>2, InTurnType
<1>3. ASSUME NEW g \in [Visits -> Seq(Output)], \A c \in C : f[<<c, mode>>] = g[<<c, mode>>]
      PROVE  EmitAll(f, C, mode) = EmitAll(g, C, mode)
  <2>1. [i \in C |-> f[<<i, mode>>]] = [i \in C |-> g[<<i, mode>>]]
    BY <1>3
  <2>2. QED
    BY <2>1 DEF EmitAll
<1>4. QED
  BY <1>2, <1>3

\* emit_css_node is described by its step.
LEMMA EmitCssUnfolds ==
    ASSUME Tree
    PROVE  EmitCss = [x \in Visits |-> EmitCssStep(x, EmitCss)]
<1> DEFINE V == Seq(Output)
           Step == [x \in Visits |-> [f \in [Visits -> V] |-> EmitCssStep(x, f)]]
           rank == [x \in Visits |-> x[1]]
<1>1. ASSUME NEW x \in Visits
      PROVE  \A f \in [Visits -> V] :
                /\ EmitCssStep(x, f) \in V
                /\ \A g \in [Visits -> V] :
                      (\A y \in Visits : rank[y] > rank[x] => f[y] = g[y]) =>
                        EmitCssStep(x, f) = EmitCssStep(x, g)
  <2> DEFINE n == x[1]
             m == x[2]
             second == SecondBranch(n)
  <2>1. n \in 0..Len(nodes) /\ m \in Modes /\ "css" \in Modes /\ <<>> \in V
    BY VisitsRank DEF Modes
  <2>2. /\ Children(n) \subseteq AllNodes /\ ThenPart(n) \subseteq AllNodes
        /\ \A c \in Children(n) \cup ThenPart(n) : c > n
        /\ Kind(n) \in {"text", "cloop", "cif", "cinline", "cstyle"} => n \in AllNodes
    BY <2>1, ChildrenAfter, TreeTypes DEF Kind, AllNodes
  <2>3. ElsePart(n) # {} => /\ second \in AllNodes /\ Children(second) \subseteq AllNodes
                            /\ \A c \in Children(second) : c > n
    <3>1. SUFFICES ASSUME ElsePart(n) # {}
                   PROVE  /\ second \in AllNodes /\ Children(second) \subseteq AllNodes
                          /\ \A c \in Children(second) : c > n
      OBVIOUS
    <3>2. second \in Children(n)
      BY <2>1, <3>1, ChildrenAfter
    <3>3. second \in AllNodes /\ second > n /\ second \in 0..Len(nodes)
      BY <2>1, <3>2, ChildrenAfter, TreeTypes DEF AllNodes
    <3>4. \A c \in Children(second) : c \in AllNodes /\ c > second
      BY <3>3, ChildrenAfter
    <3>5. QED
      BY <2>1, <3>3, <3>4, TreeTypes DEF AllNodes
  <2>4. ASSUME NEW f \in [Visits -> V], NEW C, C \subseteq AllNodes, \A c \in C : c > n,
               NEW mode \in Modes
        PROVE  /\ EmitAll(f, C, mode) \in V
               /\ \A g \in [Visits -> V] :
                    (\A y \in Visits : rank[y] > rank[x] => f[y] = g[y]) =>
                        EmitAll(f, C, mode) = EmitAll(g, C, mode)
    <3>1. \A c \in C : <<c, mode>> \in Visits /\ rank[<<c, mode>>] > rank[x]
      BY <2>4, TreeTypes DEF Visits, AllNodes
    <3>2. QED
      BY <2>4, <3>1, EmitAllWorks
  <2> HIDE DEF n, m, second, rank
  <2>5. ASSUME NEW f \in [Visits -> V]
        PROVE  EmitCssStep(x, f) \in V
    <3>1. /\ EmitAll(f, Children(n), m) \in V /\ EmitAll(f, ThenPart(n), m) \in V
          /\ EmitAll(f, Children(n), "css") \in V
          /\ ElsePart(n) # {} => EmitAll(f, Children(second), m) \in V
      BY <2>1, <2>2, <2>3, <2>4
    <3>2. n \in AllNodes => /\ Write(n) \in V /\ Wrap(n, EmitAll(f, Children(n), m)) \in V
                            /\ Wrap(n, EmitAll(f, ThenPart(n), m)) \in V
      BY <3>1, WriteType, WrapType
    <3>3. ElsePart(n) # {} => Wrap(second, EmitAll(f, Children(second), m)) \in V
      BY <2>3, <3>1, WrapType
    <3>4. Kind(n) = "cif" => EmitCssStep(x, f) \in V
      <4> SUFFICES ASSUME Kind(n) = "cif"
                   PROVE  EmitCssStep(x, f) \in V
        OBVIOUS
      <4> DEFINE e == IF ElsePart(n) # {} /\ HasCss[<<second, m>>]
                      THEN Wrap(second, EmitAll(f, Children(second), m)) ELSE <<>>
      <4>1. e \in V
        BY <2>1, <3>3
      <4>2. Wrap(n, EmitAll(f, ThenPart(n), m)) \o e \in V
        <5> HIDE DEF e
        <5>1. QED
          BY <2>2, <3>2, <4>1
      <4>3. QED
        BY <2>1, <4>2, EmitCssCases DEF n, m, second
    <3>5. Kind(n) # "cif" => EmitCssStep(x, f) \in V
      BY <2>1, <2>2, <3>1, <3>2, EmitCssCases DEF n, m
    <3>6. QED
      BY <3>4, <3>5
  <2>6. ASSUME NEW f \in [Visits -> V], NEW g \in [Visits -> V],
               \A y \in Visits : rank[y] > rank[x] => f[y] = g[y]
        PROVE  EmitCssStep(x, f) = EmitCssStep(x, g)
    <3>0. ASSUME NEW C, C \subseteq AllNodes, \A c \in C : c > n, NEW mode \in Modes
          PROVE  EmitAll(f, C, mode) = EmitAll(g, C, mode)
      BY <2>4, <2>6, <3>0
    <3>1. /\ EmitAll(f, Children(n), m) = EmitAll(g, Children(n), m)
          /\ EmitAll(f, ThenPart(n), m) = EmitAll(g, ThenPart(n), m)
          /\ EmitAll(f, Children(n), "css") = EmitAll(g, Children(n), "css")
          /\ ElsePart(n) # {} => EmitAll(f, Children(second), m) = EmitAll(g, Children(second), m)
      BY <2>1, <2>2, <2>3, <3>0
    <3>2. QED
      BY ZenonT(60), <3>1, EmitCssCases DEF n, m, second
  <2>7. QED
    BY <2>5, <2>6
<1>2. \E f \in [Visits -> V] : \A x \in Visits : f[x] = Step[x][f]
  <2>1. Ranked(Len(nodes), Visits, V, rank, Step)
    <3>1. Step \in [Visits -> [[Visits -> V] -> V]]
      BY <1>1
    <3>2. \A x \in Visits : \A f, g \in [Visits -> V] :
            (\A y \in Visits : rank[y] > rank[x] => f[y] = g[y]) => Step[x][f] = Step[x][g]
      BY <1>1
    <3>3. rank \in [Visits -> 0..Len(nodes)] /\ Len(nodes) \in Nat /\ V # {}
      <4>1. <<>> \in V
        OBVIOUS
      <4>2. QED
        BY <4>1, VisitsRank, TreeTypes
    <3> HIDE DEF Step, rank, V
    <3>4. QED
      BY <3>1, <3>2, <3>3 DEF Ranked
  <2> HIDE DEF Step, rank, V
  <2>2. QED
    BY <2>1, RecursionWorks
<1>3. \E f : f = [x \in Visits |-> EmitCssStep(x, f)]
  <2>1. PICK f \in [Visits -> V] : \A x \in Visits : f[x] = Step[x][f]
    BY <1>2
  <2>2. \A x \in Visits : f[x] = EmitCssStep(x, f)
    BY <2>1
  <2>3. QED
    BY <2>2
<1>4. QED
  BY <1>3 DEF EmitCss, EmitCssStep, EmitAll

-----------------------------------------------------------------------------
GenerateAll(f, children) == InTurn(children, [i \in children |-> f[i]])

GenerateHtmlStep(n, f) ==
    LET second == SecondBranch(n)
    IN  CASE Kind(n) = "text"    -> Write(n)
          [] Kind(n) = "cloop"   -> Wrap(n, GenerateAll(f, Children(n)))
          [] Kind(n) = "cif"     -> Wrap(n, GenerateAll(f, ThenPart(n))) \o
                                    (IF ElsePart(n) # {}
                                     THEN Wrap(second, GenerateAll(f, Children(second)))
                                     ELSE <<>>)
          [] Kind(n) = "cinline" -> Wrap(n, EmitAll(EmitCss, Children(n), "css"))
          [] Kind(n) = "cstyle"  -> <<>>
          [] OTHER               -> GenerateAll(f, Children(n))

\* The step of generate_html_node, one kind of node at a time.
LEMMA GenerateHtmlCases ==
    ASSUME NEW n, NEW f
    PROVE  LET second == SecondBranch(n)
           IN  /\ Kind(n) = "text" => GenerateHtmlStep(n, f) = Write(n)
               /\ Kind(n) = "cloop" =>
                    GenerateHtmlStep(n, f) = Wrap(n, GenerateAll(f, Children(n)))
               /\ Kind(n) = "cif" =>
                    GenerateHtmlStep(n, f) =
                        Wrap(n, GenerateAll(f, ThenPart(n))) \o
                            (IF ElsePart(n) # {}
                             THEN Wrap(second, GenerateAll(f, Children(second)))
                             ELSE <<>>)
               /\ Kind(n) = "cinline" =>
                    GenerateHtmlStep(n, f) = Wrap(n, EmitAll(EmitCss, Children(n), "css"))
               /\ Kind(n) = "cstyle" => GenerateHtmlStep(n, f) = <<>>
               /\ Kind(n) \notin {"text", "cloop", "cif", "cinline", "cstyle"} =>
                    GenerateHtmlStep(n, f) = GenerateAll(f, Children(n))
<1>1. CASE Kind(n) = "text"
  BY <1>1 DEF GenerateHtmlStep
<1>2. CASE Kind(n) = "cloop"
  BY <1>2 DEF GenerateHtmlStep
<1>3. CASE Kind(n) = "cif"
  BY <1>3 DEF GenerateHtmlStep
<1>4. CASE Kind(n) = "cinline"
  BY <1>4 DEF GenerateHtmlStep
<1>5. CASE Kind(n) = "cstyle"
  BY <1>5 DEF GenerateHtmlStep
<1>6. CASE Kind(n) \notin {"text", "cloop", "cif", "cinline", "cstyle"}
  BY <1>6 DEF GenerateHtmlStep
<1>7. QED
  BY <1>1, <1>2, <1>3, <1>4, <1>5, <1>6

\* The loop of generate_html_node outputs, and depends on these children only.
LEMMA GenerateAllWorks ==
    ASSUME Tree, NEW C, C \subseteq AllNodes, NEW f \in [0..Len(nodes) -> Seq(Output)]
    PROVE  /\ GenerateAll(f, C) \in Seq(Output)
           /\ \A g \in [0..Len(nodes) -> Seq(Output)] :
                (\A c \in C : f[c] = g[c]) => GenerateAll(f, C) = GenerateAll(g, C)
<1>1. \A c \in C : c \in 0..Len(nodes)
  BY TreeTypes DEF AllNodes
<1>2. GenerateAll(f, C) \in Seq(Output)
  <2> DEFINE h == [i \in C |-> f[i]]
  <2>1. \A c \in C : h[c] \in Seq(Output)
    BY <1>1
  <2>2. GenerateAll(f, C) = InTurn(C, h)
    BY DEF GenerateAll
  <2> HIDE DEF h
  <2>3. QED
    BY <2>1, <2>2, InTurnType
<1>3. ASSUME NEW g \in [0..Len(nodes) -> Seq(Output)], \A c \in C : f[c] = g[c]
      PROVE  GenerateAll(f, C) = GenerateAll(g, C)
  <2>1. [i \in C |-> f[i]] = [i \in C |-> g[i]]
    BY <1>3
  <2>2. QED
    BY <2>1 DEF GenerateAll
<1>4. QED
  BY <1>2, <1>3

\* generate_html_node is described by its step.
LEMMA GenerateHtmlUnfolds ==
    ASSUME Tree, EmitCss \in [Visits -> Seq(Output)]
    PROVE  GenerateHtml = [n \in 0..Len(nodes) |-> GenerateHtmlStep(n, GenerateHtml)]
<1> DEFINE D == 0..Len(nodes)
           V == Seq(Output)
           Step == [n \in D |-> [f \in [D -> V] |-> GenerateHtmlStep(n, f)]]
           rank == [n \in D |-> n]
<1>1. ASSUME NEW n \in D
      PROVE  \A f \in [D -> V] :
                /\ GenerateHtmlStep(n, f) \in V
                /\ \A g \in [D -> V] :
                      (\A y \in D : rank[y] > rank[n] => f[y] = g[y]) =>
                        GenerateHtmlStep(n, f) = GenerateHtmlStep(n, g)
  <2> DEFINE second == SecondBranch(n)
  <2>1. n \in 0..Len(nodes) /\ "css" \in Modes /\ <<>> \in V
    BY DEF Modes
  <2>2. /\ Children(n) \subseteq AllNodes /\ ThenPart(n) \subseteq AllNodes
        /\ \A c \in Children(n) \cup ThenPart(n) : c > n
        /\ Kind(n) \in {"text", "cloop", "cif", "cinline", "cstyle"} => n \in AllNodes
    BY <2>1, ChildrenAfter, TreeTypes DEF Kind, AllNodes
  <2>3. ElsePart(n) # {} => /\ second \in AllNodes /\ Children(second) \subseteq AllNodes
                            /\ \A c \in Children(second) : c > n
    <3>1. SUFFICES ASSUME ElsePart(n) # {}
                   PROVE  /\ second \in AllNodes /\ Children(second) \subseteq AllNodes
                          /\ \A c \in Children(second) : c > n
      OBVIOUS
    <3>2. second \in Children(n)
      BY <2>1, <3>1, ChildrenAfter
    <3>3. second \in AllNodes /\ second > n /\ second \in 0..Len(nodes)
      BY <2>1, <3>2, ChildrenAfter, TreeTypes DEF AllNodes
    <3>4. \A c \in Children(second) : c \in AllNodes /\ c > second
      BY <3>3, ChildrenAfter
    <3>5. QED
      BY <2>1, <3>3, <3>4, TreeTypes DEF AllNodes
  <2>4. ASSUME NEW f \in [D -> V], NEW C, C \subseteq AllNodes, \A c \in C : c > n
        PROVE  /\ GenerateAll(f, C) \in V
               /\ \A g \in [D -> V] :
                    (\A y \in D : rank[y] > rank[n] => f[y] = g[y]) =>
                        GenerateAll(f, C) = GenerateAll(g, C)
    <3>1. \A c \in C : c \in D /\ rank[c] > rank[n]
      BY <2>4, TreeTypes DEF AllNodes
    <3>2. QED
      BY <2>4, <3>1, GenerateAllWorks
  <2>5. EmitAll(EmitCss, Children(n), "css") \in V
    BY <2>1, <2>2, EmitAllWorks
  <2> HIDE DEF second, rank, D
  <2>6. ASSUME NEW f \in [D -> V]
        PROVE  GenerateHtmlStep(n, f) \in V
    <3>1. /\ GenerateAll(f, Children(n)) \in V /\ GenerateAll(f, ThenPart(n)) \in V
          /\ ElsePart(n) # {} => GenerateAll(f, Children(second)) \in V
      BY <2>1, <2>2, <2>3, <2>4
    <3>2. n \in AllNodes => /\ Write(n) \in V /\ Wrap(n, GenerateAll(f, Children(n))) \in V
                            /\ Wrap(n, GenerateAll(f, ThenPart(n))) \in V
                            /\ Wrap(n, EmitAll(EmitCss, Children(n), "css")) \in V
      BY <2>5, <3>1, WriteType, WrapType
    <3>3. ElsePart(n) # {} => Wrap(second, GenerateAll(f, Children(second))) \in V
      BY <2>3, <3>1, WrapType
    <3>4. Kind(n) = "cif" => GenerateHtmlStep(n, f) \in V
      <4> SUFFICES ASSUME Kind(n) = "cif"
                   PROVE  GenerateHtmlStep(n, f) \in V
        OBVIOUS
      <4> DEFINE e == IF ElsePart(n) # {}
                      THEN Wrap(second, GenerateAll(f, Children(second))) ELSE <<>>
      <4>1. e \in V
        BY <2>1, <3>3
      <4>2. Wrap(n, GenerateAll(f, ThenPart(n))) \o e \in V
        <5> HIDE DEF e
        <5>1. QED
          BY <2>2, <3>2, <4>1
      <4>3. QED
        BY <4>2, GenerateHtmlCases DEF second
    <3>5. Kind(n) # "cif" => GenerateHtmlStep(n, f) \in V
      BY <2>1, <2>2, <3>1, <3>2, GenerateHtmlCases
    <3>6. QED
      BY <3>4, <3>5
  <2>7. ASSUME NEW f \in [D -> V], NEW g \in [D -> V],
               \A y \in D : rank[y] > rank[n] => f[y] = g[y]
        PROVE  GenerateHtmlStep(n, f) = GenerateHtmlStep(n, g)
    <3>1. ASSUME NEW C, C \subseteq AllNodes, \A c \in C : c > n
          PROVE  GenerateAll(f, C) = GenerateAll(g, C)
      BY <2>4, <2>7, <3>1
    <3>2. /\ GenerateAll(f, Children(n)) = GenerateAll(g, Children(n))
          /\ GenerateAll(f, ThenPart(n)) = GenerateAll(g, ThenPart(n))
          /\ ElsePart(n) # {} => GenerateAll(f, Children(second)) = GenerateAll(g, Children(second))
      BY <2>1, <2>2, <2>3, <3>1
    <3>3. QED
      BY <3>2, GenerateHtmlCases DEF second
  <2>8. QED
    BY <2>6, <2>7
<1>2. \E f \in [D -> V] : \A n \in D : f[n] = Step[n][f]
  <2>1. Ranked(Len(nodes), D, V, rank, Step)
    <3>1. Step \in [D -> [[D -> V] -> V]]
      BY <1>1
    <3>2. \A n \in D : \A f, g \in [D -> V] :
            (\A y \in D : rank[y] > rank[n] => f[y] = g[y]) => Step[n][f] = Step[n][g]
      BY <1>1
    <3>3. rank \in [D -> 0..Len(nodes)] /\ Len(nodes) \in Nat /\ V # {}
      <4>1. <<>> \in V
        OBVIOUS
      <4>2. QED
        BY <4>1, TreeTypes
    <3> HIDE DEF Step, rank, V, D
    <3>4. QED
      BY <3>1, <3>2, <3>3 DEF Ranked
  <2> HIDE DEF Step, rank, V, D
  <2>2. QED
    BY <2>1, RecursionWorks
<1>3. \E f : f = [n \in D |-> GenerateHtmlStep(n, f)]
  <2>1. PICK f \in [D -> V] : \A n \in D : f[n] = Step[n][f]
    BY <1>2
  <2>2. \A n \in D : f[n] = GenerateHtmlStep(n, f)
    BY <2>1
  <2>3. QED
    BY <2>2
<1>4. QED
  BY <1>3 DEF GenerateHtml, GenerateHtmlStep, GenerateAll, EmitAll

-----------------------------------------------------------------------------
(* Where there is CSS, and what branches and loops list.                   *)

\* node_contains_css_content, one kind of node at a time.
LEMMA HasCssCases ==
    ASSUME Tree, NEW n \in 0..Len(nodes), NEW mode \in Modes
    PROVE  HasCss[<<n, mode>>] <=>
              \/ Kind(n) = "text" /\ mode = "css"
              \/ Kind(n) = "cinline" /\ mode = "css" /\ \E c \in Children(n) : HasCss[<<c, "css">>]
              \/ Kind(n) = "cstyle" /\ \E c \in Children(n) : HasCss[<<c, "css">>]
              \/ Kind(n) \notin {"text"} \cup Styles /\ \E c \in Children(n) : HasCss[<<c, mode>>]
<1>1. <<n, mode>> \in Visits
  BY DEF Visits
<1>2. HasCss[<<n, mode>>] = HasCssStep(<<n, mode>>, HasCss)
  BY <1>1, HasCssUnfolds
<1>3. QED
  BY <1>2 DEF HasCssStep

\* A text node on its own.
LEMMA TextOut ==
    ASSUME Tree, NEW n \in AllNodes, Kind(n) = "text"
    PROVE  /\ CssTexts(n, "css") = {n} /\ CssTexts(n, "page") = {} /\ PageTexts(n) = {n}
           /\ CssOut(n, n) = Write(n)[1] /\ PageOut(n, n) = Write(n)[1]
           /\ Lists(Write(n), {Write(n)[1]})
<1>1. Sub(n) = {n} /\ Path(n, n) = {n}
  BY TextHasNothingBelow
<1>2. Wraps(n, n) = {} /\ Outermost(n, n) = {}
  BY <1>1 DEF Wraps, Outermost, Styles
<1>3. [at |-> nodes[n].at, under |-> {}] \in Output
  BY TreeTypes DEF Output
<1>4. QED
  BY <1>1, <1>2, <1>3, ListsOne DEF CssTexts, PageTexts, CssOut, PageOut, Out, Write

\* node_contains_css_content finds whether there is anything to output.
LEMMA HasCssWorks ==
    ASSUME Tree
    PROVE  \A n \in 0..Len(nodes) : \A mode \in Modes :
              HasCss[<<n, mode>>] <=> CssTexts(n, mode) # {}
<1> DEFINE S == {n \in 0..Len(nodes) : \A mode \in Modes :
                    HasCss[<<n, mode>>] <=> CssTexts(n, mode) # {}}
<1>1. ASSUME NEW n \in 0..Len(nodes), \A m \in (n + 1)..Len(nodes) : m \in S
      PROVE  n \in S
  <2> SUFFICES ASSUME NEW mode \in Modes
               PROVE  HasCss[<<n, mode>>] <=> CssTexts(n, mode) # {}
    OBVIOUS
  <2>1. \A c \in Children(n) : \A m \in Modes : HasCss[<<c, m>>] <=> CssTexts(c, m) # {}
    BY <1>1, ChildrenAfter
  <2>2. "css" \in Modes /\ (mode = "css" \/ mode = "page")
    BY DEF Modes
  <2>3. CASE Kind(n) = "text"
    <3>1. n \in AllNodes
      BY <2>3, TreeTypes DEF Kind, AllNodes
    <3>2. CssTexts(n, mode) = IF mode = "css" THEN {n} ELSE {}
      BY <2>2, <2>3, <3>1, TextOut
    <3>3. HasCss[<<n, mode>>] <=> mode = "css"
      BY <2>3, HasCssCases DEF Styles
    <3>4. QED
      BY <3>2, <3>3
  <2>4. CASE Kind(n) # "text"
    <3>1. CssTexts(n, mode) =
              IF Kind(n) = "cinline" /\ mode = "page" THEN {}
              ELSE UNION {CssTexts(c, IF Kind(n) \in Styles THEN "css" ELSE mode) :
                              c \in Children(n)}
      BY <2>4, TextsBelow
    <3>2. CASE Kind(n) \in Styles
      <4>1. HasCss[<<n, mode>>] <=> /\ ~(Kind(n) = "cinline" /\ mode = "page")
                                    /\ \E c \in Children(n) : HasCss[<<c, "css">>]
        BY <2>2, <3>2, HasCssCases DEF Styles
      <4>2. \A c \in Children(n) : HasCss[<<c, "css">>] <=> CssTexts(c, "css") # {}
        BY <2>1, <2>2
      <4>3. QED
        BY <3>1, <3>2, <4>1, <4>2
    <3>3. CASE Kind(n) \notin Styles
      <4>1. HasCss[<<n, mode>>] <=> \E c \in Children(n) : HasCss[<<c, mode>>]
        BY <2>4, <3>3, HasCssCases DEF Styles
      <4>2. CssTexts(n, mode) = UNION {CssTexts(c, mode) : c \in Children(n)}
        BY <3>1, <3>3 DEF Styles
      <4>3. \A c \in Children(n) : HasCss[<<c, mode>>] <=> CssTexts(c, mode) # {}
        BY <2>1
      <4>4. (\E c \in Children(n) : CssTexts(c, mode) # {}) <=> CssTexts(n, mode) # {}
        BY <4>2
      <4>5. QED
        BY <4>1, <4>3, <4>4
    <3>4. QED
      BY <3>2, <3>3
  <2>5. QED
    BY <2>3, <2>4
<1>2. Len(nodes) \in Nat
  BY TreeTypes
<1>3. 0..Len(nodes) \subseteq S
  <2>1. \A n \in 0..Len(nodes) : (\A m \in (n + 1)..Len(nodes) : m \in S) => n \in S
    BY <1>1
  <2> HIDE DEF S
  <2>2. QED
    BY <1>2, <2>1, DownInduction
<1>4. QED
  BY <1>3

\* template_has_external_css misses nothing that the second function would write.
LEMMA HasExternalCssWorks ==
    ASSUME Tree
    PROVE  \A n \in 0..Len(nodes) : ~HasExternalCss[n] => CssTexts(n, "page") = {}
<1> DEFINE S == {n \in 0..Len(nodes) : ~HasExternalCss[n] => CssTexts(n, "page") = {}}
<1>1. ASSUME NEW n \in 0..Len(nodes), \A m \in (n + 1)..Len(nodes) : m \in S,
             ~HasExternalCss[n]
      PROVE  CssTexts(n, "page") = {}
  <2>0. "page" \in Modes
    BY DEF Modes
  <2>1. HasExternalCss[n] <=> \/ Kind(n) = "cstyle" /\ HasCss[<<n, "page">>]
                              \/ \E i \in Children(n) : HasExternalCss[i]
    <3>1. HasExternalCss[n] = HasExternalCssStep(n, HasExternalCss)
      BY HasExternalCssUnfolds
    <3>2. QED
      BY <3>1 DEF HasExternalCssStep
  <2>2. \A c \in Children(n) : CssTexts(c, "page") = {}
    BY <1>1, <2>1, ChildrenAfter
  <2>3. CASE Kind(n) = "text"
    <3>1. n \in AllNodes
      BY <2>3, TreeTypes DEF Kind, AllNodes
    <3>2. QED
      BY <2>3, <3>1, TextOut
  <2>4. CASE Kind(n) = "cstyle"
    BY <1>1, <2>0, <2>1, <2>4, HasCssWorks
  <2>5. CASE Kind(n) \notin {"text", "cstyle"}
    <3>1. CssTexts(n, "page") =
              IF Kind(n) = "cinline" THEN {}
              ELSE UNION {CssTexts(c, IF Kind(n) \in Styles THEN "css" ELSE "page") :
                              c \in Children(n)}
      BY <2>0, <2>5, TextsBelow
    <3>2. Kind(n) # "cinline" => CssTexts(n, "page") = UNION {CssTexts(c, "page") : c \in Children(n)}
      BY <2>5, <3>1 DEF Styles
    <3>3. QED
      BY <2>2, <3>1, <3>2
  <2>6. QED
    BY <2>3, <2>4, <2>5
<1>2. Len(nodes) \in Nat
  BY TreeTypes
<1>3. 0..Len(nodes) \subseteq S
  <2>1. \A n \in 0..Len(nodes) : (\A m \in (n + 1)..Len(nodes) : m \in S) => n \in S
    BY <1>1
  <2> HIDE DEF S
  <2>2. QED
    BY <1>2, <2>1, DownInduction
<1>4. QED
  BY <1>3

-----------------------------------------------------------------------------
\* The outputs from a node on are made of texts of its subtree.
LEMMA OutsFrom ==
    ASSUME Tree, NEW n \in 0..Len(nodes)
    PROVE  From(n, PageOuts(n)) /\ \A mode \in Modes : From(n, CssOuts(n, mode))
BY DEF From, PageOuts, CssOuts, CssTexts, PageTexts, CssOut, PageOut, Out

\* A condition: the first branch, then the second in its own tag.
LEMMA ConditionLists ==
    ASSUME Tree, NEW n \in AllNodes, Kind(n) = "cif", NEW f, NEW R,
           \A c \in Children(n) : Lists(f[c], R[c]) /\ From(c, R[c])
    PROVE  Lists(Wrap(n, InTurn(ThenPart(n), f)) \o
                    (IF ElsePart(n) # {} THEN Wrap(SecondBranch(n), f[SecondBranch(n)]) ELSE <<>>),
                 PassedOn(n, R))
<1> DEFINE second == SecondBranch(n)
           T == Together(R, ThenPart(n))
           P == Wrap(n, InTurn(ThenPart(n), f))
<1>0. n \in 0..Len(nodes)
  BY TreeTypes DEF AllNodes
<1>1. Lists(P, WrapOuts(n, T))
  <2>1. ThenPart(n) \subseteq Children(n) /\ \A c \in ThenPart(n) : Lists(f[c], R[c]) /\ From(c, R[c])
    BY <1>0, ChildrenAfter
  <2>2. Lists(InTurn(ThenPart(n), f), T)
    BY <1>0, <2>1, InTurnLists
  <2> HIDE DEF T
  <2>3. QED
    BY <2>2, WrapLists
<1>2. WrapOuts(n, T) = UNION {Passed(n, c, R[c]) : c \in ThenPart(n)}
  <2>1. \A c \in ThenPart(n) : Passed(n, c, R[c]) = WrapOuts(n, R[c])
    BY DEF Passed, ThenPart
  <2>2. WrapOuts(n, T) = UNION {WrapOuts(n, R[c]) : c \in ThenPart(n)}
    BY DEF WrapOuts, Together
  <2>3. QED
    BY <2>1, <2>2
<1>3. CASE ElsePart(n) = {}
  <2>1. Children(n) = ThenPart(n)
    BY <1>3 DEF ElsePart, ThenPart
  <2>2. P \o <<>> = P
    BY <1>1 DEF Lists
  <2>3. PassedOn(n, R) = WrapOuts(n, T)
    BY <1>2, <2>1 DEF PassedOn
  <2>4. Lists(P \o <<>>, PassedOn(n, R))
    <3> HIDE DEF P, T
    <3>1. QED
      BY <1>1, <2>2, <2>3
  <2>5. QED
    BY <1>3, <2>4
<1>4. CASE ElsePart(n) # {}
  <2>1. second \in ElsePart(n) /\ second \in Children(n) /\ Kind(second) = "celse"
    BY <1>0, <1>4, ChildrenAfter DEF ElsePart
  <2>2. \A c \in Children(n) : c # second => c < second
    <3>1. /\ second \in AllNodes /\ nodes[second].parent = n /\ nodes[second].kind = "celse"
          /\ \A c \in Children(n) : c \in AllNodes /\ nodes[c].parent = n
      BY <1>0, <2>1, TreeTypes DEF Children, Kind, AllNodes
    <3>2. \A c \in AllNodes : second < c => nodes[c].parent # n
      BY <3>1 DEF Tree, Links
    <3> HIDE DEF second
    <3>3. QED
      BY <3>1, <3>2, TreeTypes DEF AllNodes
  <2>3. Children(n) = ThenPart(n) \cup {second}
    <3>1. \A c \in Children(n) : Kind(c) = "celse" => c = second
      <4> SUFFICES ASSUME NEW c \in Children(n), Kind(c) = "celse", c # second
                   PROVE  FALSE
        OBVIOUS
      <4>1. /\ c \in AllNodes /\ nodes[c].parent = n /\ nodes[c].kind = "celse" /\ c < second
            /\ second \in AllNodes /\ nodes[second].parent = n
        BY <1>0, <2>1, <2>2, TreeTypes DEF Children, Kind, AllNodes
      <4>2. QED
        BY <4>1 DEF Tree, Links
    <3>2. QED
      BY <2>1, <3>1 DEF ThenPart
  <2>4. Lists(Wrap(second, f[second]), WrapOuts(second, R[second]))
    <3>1. second \in AllNodes /\ Lists(f[second], R[second])
      BY <1>0, <2>1, ChildrenAfter
    <3> HIDE DEF second
    <3>2. QED
      BY <3>1, WrapLists
  <2>5. Before(WrapOuts(n, T), WrapOuts(second, R[second]))
    <3> SUFFICES ASSUME NEW a \in WrapOuts(n, T), NEW b \in WrapOuts(second, R[second])
                 PROVE  a.at < b.at
      BY DEF Before
    <3>1. PICK c \in ThenPart(n) : \E o \in R[c] : a.at = o.at
      BY DEF WrapOuts, Around, Together
    <3>2. PICK p \in R[second] : b.at = p.at
      BY DEF WrapOuts, Around
    <3>3. c \in Children(n) /\ c < second
      BY <2>1, <2>2 DEF ThenPart
    <3>4. PICK d \in Sub(c) : a.at = nodes[d].at
      BY <3>1, <3>3 DEF From
    <3>5. PICK e \in Sub(second) : p.at = nodes[e].at
      BY <2>1 DEF From
    <3>6. nodes[d].at < nodes[e].at
      BY <1>0, <2>1, <3>3, ChildrenInOrder
    <3>7. QED
      BY <3>2, <3>4, <3>5, <3>6
  <2>6. Lists(P \o Wrap(second, f[second]), WrapOuts(n, T) \cup WrapOuts(second, R[second]))
    <3> HIDE DEF P, T, second
    <3>1. QED
      BY <1>1, <2>4, <2>5, ConcatLists
  <2>7. Passed(n, second, R[second]) = WrapOuts(second, R[second])
    BY <2>1 DEF Passed
  <2>8. PassedOn(n, R) = WrapOuts(n, T) \cup WrapOuts(second, R[second])
    <3> HIDE DEF T, second
    <3>1. QED
      BY <1>2, <2>3, <2>7 DEF PassedOn
  <2>9. Lists(P \o Wrap(second, f[second]), PassedOn(n, R))
    <3> HIDE DEF P, T, second
    <3>1. QED
      BY <2>6, <2>8
  <2>10. QED
    BY <1>4, <2>9
<1>5. QED
  BY <1>3, <1>4

\* A loop, and an inline style.
LEMMA LoopLists ==
    ASSUME Tree, NEW n \in AllNodes, NEW f, NEW R,
           \A c \in Children(n) : Lists(f[c], R[c]) /\ From(c, R[c])
    PROVE  Lists(Wrap(n, InTurn(Children(n), f)), WrapOuts(n, Together(R, Children(n))))
<1>1. n \in 0..Len(nodes)
  BY TreeTypes DEF AllNodes
<1>2. Lists(InTurn(Children(n), f), Together(R, Children(n)))
  BY <1>1, InTurnLists
<1>3. QED
  BY <1>2, WrapLists

-----------------------------------------------------------------------------
(* The CSS.                                                                *)

\* From a node on, with its children's outputs: a loop over them, in a tag that adds
\* nothing of its own.
LEMMA PassedOnKinds ==
    ASSUME Tree, NEW n \in 0..Len(nodes), NEW R
    PROVE  /\ Kind(n) = "cloop" => PassedOn(n, R) = WrapOuts(n, Together(R, Children(n)))
           /\ Kind(n) \notin {"cloop", "cif"} => PassedOn(n, R) = Together(R, Children(n))
<1>1. \A c \in Children(n) : Kind(c) = "celse" => Kind(n) = "cif"
  BY ChildrenAfter, TreeTypes DEF Tree, Links, Kind, Children, AllNodes
<1>2. CASE Kind(n) = "cloop"
  <2>1. \A c \in Children(n) : Passed(n, c, R[c]) = WrapOuts(n, R[c])
    BY <1>1, <1>2 DEF Passed
  <2>2. WrapOuts(n, Together(R, Children(n))) = UNION {WrapOuts(n, R[c]) : c \in Children(n)}
    BY DEF WrapOuts, Together
  <2>3. QED
    BY <1>2, <2>1, <2>2 DEF PassedOn
<1>3. CASE Kind(n) \notin {"cloop", "cif"}
  <2>1. \A c \in Children(n) : Passed(n, c, R[c]) = R[c]
    BY <1>1, <1>3 DEF Passed
  <2>2. QED
    BY <1>3, <2>1 DEF PassedOn, Together
<1>4. QED
  BY <1>2, <1>3

\* emit_css_node, one kind of node at a time.
LEMMA EmitCssIs ==
    ASSUME Tree, NEW n \in 0..Len(nodes), NEW mode \in Modes
    PROVE  LET second == SecondBranch(n)
           IN  /\ Kind(n) = "text" =>
                    EmitCss[<<n, mode>>] = IF mode = "css" THEN Write(n) ELSE <<>>
               /\ Kind(n) = "cloop" =>
                    EmitCss[<<n, mode>>] = IF Pruned(n, mode) THEN <<>>
                                           ELSE Wrap(n, EmitAll(EmitCss, Children(n), mode))
               /\ Kind(n) = "cif" =>
                    EmitCss[<<n, mode>>] =
                        IF Pruned(n, mode) THEN <<>>
                        ELSE Wrap(n, EmitAll(EmitCss, ThenPart(n), mode)) \o
                             (IF ElsePart(n) # {} /\ HasCss[<<second, mode>>]
                              THEN Wrap(second, EmitAll(EmitCss, Children(second), mode))
                              ELSE <<>>)
               /\ Kind(n) = "cinline" =>
                    EmitCss[<<n, mode>>] = IF mode = "css" THEN EmitAll(EmitCss, Children(n), "css")
                                           ELSE <<>>
               /\ Kind(n) = "cstyle" =>
                    EmitCss[<<n, mode>>] = EmitAll(EmitCss, Children(n), "css")
               /\ Kind(n) \notin {"text", "cloop", "cif", "cinline", "cstyle"} =>
                    EmitCss[<<n, mode>>] = EmitAll(EmitCss, Children(n), mode)
<1> DEFINE x == <<n, mode>>
<1>1. x \in Visits /\ x[1] = n /\ x[2] = mode
  BY DEF Visits
<1> HIDE DEF x
<1>2. EmitCss[x] = EmitCssStep(x, EmitCss)
  BY <1>1, EmitCssUnfolds
<1>3. EmitCss[<<n, mode>>] = EmitCssStep(x, EmitCss)
  BY <1>2 DEF x
<1>4. QED
  BY <1>1, <1>3, EmitCssCases

\* Nothing wrapped is nothing.
LEMMA WrapNothing ==
    ASSUME NEW n, NEW f, f = <<>>
    PROVE  Wrap(n, f) = <<>>
BY DEF Wrap

\* A text outputs itself, to the page, and to the CSS if it is in a style.
LEMMA TextOuts ==
    ASSUME Tree, NEW n \in AllNodes, Kind(n) = "text"
    PROVE  /\ CssOuts(n, "css") = {Write(n)[1]} /\ CssOuts(n, "page") = {}
           /\ PageOuts(n) = {Write(n)[1]}
<1>1. /\ CssTexts(n, "css") = {n} /\ CssTexts(n, "page") = {} /\ PageTexts(n) = {n}
      /\ CssOut(n, n) = Write(n)[1] /\ PageOut(n, n) = Write(n)[1]
  BY TextOut
<1>2. CssOuts(n, "css") = {CssOut(n, n)} /\ CssOuts(n, "page") = {} /\ PageOuts(n) = {PageOut(n, n)}
  BY <1>1 DEF CssOuts, PageOuts
<1>3. QED
  BY <1>1, <1>2

\* emit_css_node lists the CSS of a subtree if it lists that of the subtrees below.
LEMMA EmitCssStepWorks ==
    ASSUME Tree, NEW n \in 0..Len(nodes), NEW mode \in Modes,
           \A c \in Children(n) : \A m \in Modes : Lists(EmitCss[<<c, m>>], CssOuts(c, m))
    PROVE  Lists(EmitCss[<<n, mode>>], CssOuts(n, mode))
<1> DEFINE m == IF Kind(n) \in Styles THEN "css" ELSE mode
           f == [c \in Children(n) |-> EmitCss[<<c, m>>]]
           R == [c \in Children(n) |-> CssOuts(c, m)]
           second == SecondBranch(n)
           step == EmitCss[<<n, mode>>]
<1>1. EmitCss[<<n, mode>>] = step
  OBVIOUS
<1>2. m \in Modes /\ (mode = "css" \/ mode = "page")
  BY DEF Modes
<1>3. \A c \in Children(n) : Lists(f[c], R[c]) /\ From(c, R[c])
  <2>1. \A c \in Children(n) : From(c, CssOuts(c, m))
    BY <1>2, ChildrenAfter, OutsFrom, TreeTypes DEF AllNodes
  <2>2. QED
    BY <1>2, <2>1
<1>4. Kind(n) # "text" =>
        CssOuts(n, mode) = IF Kind(n) = "cinline" /\ mode = "page" THEN {} ELSE PassedOn(n, R)
  <2>1. PassedOn(n, R) = UNION {Passed(n, c, CssOuts(c, m)) : c \in Children(n)}
    BY DEF PassedOn
  <2>2. QED
    BY <2>1, OutsOfChildren
<1>5. \A C \in SUBSET Children(n) : EmitAll(EmitCss, C, m) = InTurn(C, f)
  <2> SUFFICES ASSUME NEW C \in SUBSET Children(n)
               PROVE  EmitAll(EmitCss, C, m) = InTurn(C, f)
    OBVIOUS
  <2> DEFINE g == [i \in C |-> EmitCss[<<i, m>>]]
  <2>1. \A c \in C : g[c] = f[c]
    OBVIOUS
  <2>2. EmitAll(EmitCss, C, m) = InTurn(C, g)
    BY DEF EmitAll
  <2> HIDE DEF f, g
  <2>3. QED
    BY <2>1, <2>2, InTurnSame
<1>6. Kind(n) # "text" /\ Pruned(n, m) => PassedOn(n, R) = {}
  <2> SUFFICES ASSUME Pruned(n, m)
               PROVE  PassedOn(n, R) = {}
    OBVIOUS
  <2>1. \A c \in Children(n) : CssTexts(c, m) = {}
    <3> HIDE DEF m
    <3>1. \A c \in Children(n) : ~HasCss[<<c, m>>]
      BY DEF Pruned
    <3>2. \A c \in Children(n) : c \in 0..Len(nodes)
      BY ChildrenAfter, TreeTypes DEF AllNodes
    <3>3. QED
      BY <1>2, <3>1, <3>2, HasCssWorks
  <2>2. \A c \in Children(n) : R[c] = {}
    BY <2>1 DEF CssOuts
  <2>3. \A c \in Children(n) : Passed(n, c, R[c]) = {}
    BY <2>2 DEF Passed, WrapOuts
  <2>4. QED
    BY <2>3 DEF PassedOn
<1>7. CASE Kind(n) = "text"
  <2>1. n \in AllNodes
    BY <1>7, TreeTypes DEF Kind, AllNodes
  <2>2. step = IF mode = "css" THEN Write(n) ELSE <<>>
    BY <1>7, EmitCssIs
  <2>3. CssOuts(n, "css") = {Write(n)[1]} /\ CssOuts(n, "page") = {}
    BY <1>7, <2>1, TextOuts
  <2>4. Lists(Write(n), {Write(n)[1]})
    BY <1>7, <2>1, TextOut
  <2>5. QED
    BY <1>1, <1>2, <2>2, <2>3, <2>4, ListsEmpty
<1>8. CASE Kind(n) = "cloop"
  <2>1. n \in AllNodes /\ m = mode
    BY <1>8, TreeTypes DEF Kind, AllNodes, Styles
  <2>2. step = IF Pruned(n, m) THEN <<>> ELSE Wrap(n, EmitAll(EmitCss, Children(n), m))
    BY <1>8, <2>1, EmitCssIs
  <2>3. CssOuts(n, mode) = PassedOn(n, R)
    BY <1>4, <1>8
  <2>4. EmitAll(EmitCss, Children(n), m) = InTurn(Children(n), f)
    BY <1>5
  <2> HIDE DEF m, f, R
  <2>5. Lists(Wrap(n, InTurn(Children(n), f)), PassedOn(n, R))
    BY <1>3, <1>8, <2>1, LoopLists, PassedOnKinds
  <2>6. CASE Pruned(n, m)
    <3>1. PassedOn(n, R) = {}
      BY <1>6, <1>8, <2>6
    <3>2. QED
      BY <1>1, <2>2, <2>3, <2>6, <3>1, ListsEmpty
  <2>7. CASE ~Pruned(n, m)
    BY <1>1, <2>2, <2>3, <2>4, <2>5, <2>7
  <2>8. QED
    BY <2>6, <2>7
<1>9. CASE Kind(n) = "cif"
  <2>1. n \in AllNodes /\ m = mode
    BY <1>9, TreeTypes DEF Kind, AllNodes, Styles
  <2>2. step = IF Pruned(n, m) THEN <<>>
               ELSE Wrap(n, EmitAll(EmitCss, ThenPart(n), m)) \o
                        (IF ElsePart(n) # {} /\ HasCss[<<second, m>>]
                         THEN Wrap(second, EmitAll(EmitCss, Children(second), m))
                         ELSE <<>>)
    BY <1>9, <2>1, EmitCssIs
  <2>3. CssOuts(n, mode) = PassedOn(n, R)
    BY <1>4, <1>9
  <2>4. EmitAll(EmitCss, ThenPart(n), m) = InTurn(ThenPart(n), f)
    BY <1>5, ChildrenAfter
  <2>5. ElsePart(n) # {} =>
          (IF HasCss[<<second, m>>] THEN Wrap(second, EmitAll(EmitCss, Children(second), m)) ELSE <<>>)
          = Wrap(second, f[second])
    <3> SUFFICES ASSUME ElsePart(n) # {}
                 PROVE  (IF HasCss[<<second, m>>]
                         THEN Wrap(second, EmitAll(EmitCss, Children(second), m)) ELSE <<>>)
                        = Wrap(second, f[second])
      OBVIOUS
    <3>1. /\ second \in Children(n) /\ Kind(second) = "celse" /\ second \in 0..Len(nodes)
          /\ f[second] = EmitCss[<<second, m>>]
      BY ChildrenAfter, TreeTypes DEF ElsePart, AllNodes
    <3>2. EmitCss[<<second, m>>] = EmitAll(EmitCss, Children(second), m)
      <4> HIDE DEF m, second
      <4>1. QED
        BY <1>2, <3>1, EmitCssIs
    <3>3. ASSUME ~HasCss[<<second, m>>]
          PROVE  Wrap(second, f[second]) = <<>>
      <4>1. CssTexts(second, m) = {}
        BY <1>2, <3>1, <3>3, HasCssWorks
      <4>2. R[second] = {}
        BY <3>1, <4>1 DEF CssOuts
      <4>3. f[second] = <<>>
        <5>1. Lists(f[second], {})
          <6> HIDE DEF f, R, second
          <6>1. QED
            BY <1>3, <3>1, <4>2
        <5> HIDE DEF f, second
        <5>2. QED
          BY <5>1, ListsNothing
      <4>4. QED
        BY <4>3, WrapNothing
    <3>4. QED
      BY <3>1, <3>2, <3>3
  <2>6. ~Pruned(n, m) =>
            step = Wrap(n, InTurn(ThenPart(n), f)) \o
                      (IF ElsePart(n) # {} THEN Wrap(second, f[second]) ELSE <<>>)
    <3> HIDE DEF step, f, m, second
    <3>1. QED
      BY <2>2, <2>4, <2>5
  <2> HIDE DEF m, f, R, step
  <2>7. Lists(Wrap(n, InTurn(ThenPart(n), f)) \o
                      (IF ElsePart(n) # {} THEN Wrap(second, f[second]) ELSE <<>>), PassedOn(n, R))
    BY <1>3, <1>9, <2>1, ConditionLists
  <2> HIDE DEF second
  <2>8. CASE Pruned(n, m)
    <3>1. PassedOn(n, R) = {}
      BY <1>6, <1>9, <2>8
    <3>2. QED
      BY <1>1, <2>2, <2>3, <2>8, <3>1, ListsEmpty
  <2>9. CASE ~Pruned(n, m)
    BY <1>1, <2>3, <2>6, <2>7, <2>9
  <2>10. QED
    BY <2>8, <2>9
<1>10. CASE Kind(n) \notin {"text", "cloop", "cif"}
  <2>1. step = IF Kind(n) = "cinline" /\ mode = "page" THEN <<>>
               ELSE EmitAll(EmitCss, Children(n), m)
    <3>1. CASE Kind(n) = "cinline"
      BY <1>2, <3>1, EmitCssIs DEF Styles
    <3>2. CASE Kind(n) = "cstyle"
      BY <3>2, EmitCssIs DEF Styles
    <3>3. CASE Kind(n) \notin {"text", "cloop", "cif", "cinline", "cstyle"}
      BY <3>3, EmitCssIs DEF Styles
    <3>4. QED
      BY <1>10, <3>1, <3>2, <3>3
  <2>2. EmitAll(EmitCss, Children(n), m) = InTurn(Children(n), f)
    BY <1>5
  <2> HIDE DEF m, f, R, step
  <2>3. Lists(InTurn(Children(n), f), PassedOn(n, R))
    BY <1>3, <1>10, InTurnLists, PassedOnKinds
  <2>4. QED
    BY <1>1, <1>4, <1>10, <2>1, <2>2, <2>3, ListsEmpty
<1>11. QED
  BY <1>7, <1>8, <1>9, <1>10

\* emit_css_node outputs just the CSS texts, in order, each in its tags.
LEMMA EmitCssWorks ==
    ASSUME Tree
    PROVE  \A n \in 0..Len(nodes) : \A mode \in Modes :
              Lists(EmitCss[<<n, mode>>], CssOuts(n, mode))
<1> DEFINE S == {n \in 0..Len(nodes) : \A mode \in Modes :
                    Lists(EmitCss[<<n, mode>>], CssOuts(n, mode))}
<1>1. ASSUME NEW n \in 0..Len(nodes), \A m \in (n + 1)..Len(nodes) : m \in S
      PROVE  n \in S
  <2>1. \A c \in Children(n) : \A m \in Modes : Lists(EmitCss[<<c, m>>], CssOuts(c, m))
    BY <1>1, ChildrenAfter
  <2>2. \A mode \in Modes : Lists(EmitCss[<<n, mode>>], CssOuts(n, mode))
    BY <2>1, EmitCssStepWorks
  <2>3. QED
    BY <2>2
<1>2. Len(nodes) \in Nat
  BY TreeTypes
<1>3. 0..Len(nodes) \subseteq S
  <2>1. \A n \in 0..Len(nodes) : (\A m \in (n + 1)..Len(nodes) : m \in S) => n \in S
    BY <1>1
  <2> HIDE DEF S
  <2>2. QED
    BY <1>2, <2>1, DownInduction
<1>4. QED
  BY <1>3

\* emit_css_node outputs.
LEMMA EmitCssType ==
    ASSUME Tree
    PROVE  EmitCss \in [Visits -> Seq(Output)]
<1>1. \A x \in Visits : EmitCss[x] \in Seq(Output)
  BY EmitCssWorks, VisitsRank DEF Lists
<1>2. EmitCss = [x \in Visits |-> EmitCss[x]]
  BY EmitCssUnfolds
<1>3. QED
  BY <1>1, <1>2

-----------------------------------------------------------------------------
(* The page.                                                               *)

\* generate_html_node, one kind of node at a time.
LEMMA GenerateHtmlIs ==
    ASSUME Tree, NEW n \in 0..Len(nodes)
    PROVE  LET second == SecondBranch(n)
           IN  /\ Kind(n) = "text" => GenerateHtml[n] = Write(n)
               /\ Kind(n) = "cloop" => GenerateHtml[n] = Wrap(n, GenerateAll(GenerateHtml, Children(n)))
               /\ Kind(n) = "cif" =>
                    GenerateHtml[n] =
                        Wrap(n, GenerateAll(GenerateHtml, ThenPart(n))) \o
                            (IF ElsePart(n) # {}
                             THEN Wrap(second, GenerateAll(GenerateHtml, Children(second)))
                             ELSE <<>>)
               /\ Kind(n) = "cinline" =>
                    GenerateHtml[n] = Wrap(n, EmitAll(EmitCss, Children(n), "css"))
               /\ Kind(n) = "cstyle" => GenerateHtml[n] = <<>>
               /\ Kind(n) \notin {"text", "cloop", "cif", "cinline", "cstyle"} =>
                    GenerateHtml[n] = GenerateAll(GenerateHtml, Children(n))
<1>1. GenerateHtml[n] = GenerateHtmlStep(n, GenerateHtml)
  BY EmitCssType, GenerateHtmlUnfolds
<1>2. QED
  BY <1>1, GenerateHtmlCases

\* generate_html_node lists the page of a subtree if it lists that of the subtrees below.
LEMMA GenerateHtmlStepWorks ==
    ASSUME Tree, NEW n \in 0..Len(nodes),
           \A c \in Children(n) : Lists(GenerateHtml[c], PageOuts(c))
    PROVE  Lists(GenerateHtml[n], PageOuts(n))
<1> DEFINE f == [c \in Children(n) |-> GenerateHtml[c]]
           R == [c \in Children(n) |-> PageOuts(c)]
           second == SecondBranch(n)
           step == GenerateHtml[n]
<1>1. GenerateHtml[n] = step
  OBVIOUS
<1>2. \A c \in Children(n) : Lists(f[c], R[c]) /\ From(c, R[c])
  <2>1. \A c \in Children(n) : From(c, PageOuts(c))
    BY ChildrenAfter, OutsFrom, TreeTypes DEF AllNodes
  <2>2. QED
    BY <2>1
<1>3. Kind(n) \notin {"text", "cstyle", "cinline"} => PageOuts(n) = PassedOn(n, R)
  <2>1. PassedOn(n, R) = UNION {Passed(n, c, PageOuts(c)) : c \in Children(n)}
    BY DEF PassedOn
  <2>2. QED
    BY <2>1, OutsOfChildren
<1>4. \A C \in SUBSET Children(n) : GenerateAll(GenerateHtml, C) = InTurn(C, f)
  <2> SUFFICES ASSUME NEW C \in SUBSET Children(n)
               PROVE  GenerateAll(GenerateHtml, C) = InTurn(C, f)
    OBVIOUS
  <2> DEFINE g == [i \in C |-> GenerateHtml[i]]
  <2>1. \A c \in C : g[c] = f[c]
    OBVIOUS
  <2>2. GenerateAll(GenerateHtml, C) = InTurn(C, g)
    BY DEF GenerateAll
  <2> HIDE DEF f, g
  <2>3. QED
    BY <2>1, <2>2, InTurnSame
<1>5. Kind(n) \in {"text", "cloop", "cif", "cstyle", "cinline"} => n \in AllNodes
  BY TreeTypes DEF Kind, AllNodes
<1>6. CASE Kind(n) = "text"
  <2>1. PageOuts(n) = {Write(n)[1]} /\ Lists(Write(n), {Write(n)[1]})
    BY <1>5, <1>6, TextOut, TextOuts
  <2>2. QED
    BY <1>6, <2>1, GenerateHtmlIs
<1>7. CASE Kind(n) = "cloop"
  <2>1. step = Wrap(n, GenerateAll(GenerateHtml, Children(n)))
    BY <1>7, GenerateHtmlIs
  <2>2. GenerateAll(GenerateHtml, Children(n)) = InTurn(Children(n), f)
    BY <1>4
  <2> HIDE DEF f, R, step
  <2>3. Lists(Wrap(n, InTurn(Children(n), f)), PassedOn(n, R))
    BY <1>2, <1>5, <1>7, LoopLists, PassedOnKinds
  <2>4. QED
    BY <1>1, <1>3, <1>7, <2>1, <2>2, <2>3
<1>8. CASE Kind(n) = "cif"
  <2>1. step = Wrap(n, GenerateAll(GenerateHtml, ThenPart(n))) \o
                    (IF ElsePart(n) # {}
                     THEN Wrap(second, GenerateAll(GenerateHtml, Children(second)))
                     ELSE <<>>)
    BY <1>8, GenerateHtmlIs
  <2>2. GenerateAll(GenerateHtml, ThenPart(n)) = InTurn(ThenPart(n), f)
    BY <1>4, ChildrenAfter
  <2>3. ElsePart(n) # {} => GenerateAll(GenerateHtml, Children(second)) = f[second]
    <3> SUFFICES ASSUME ElsePart(n) # {}
                 PROVE  GenerateAll(GenerateHtml, Children(second)) = f[second]
      OBVIOUS
    <3>1. /\ second \in Children(n) /\ Kind(second) = "celse" /\ second \in 0..Len(nodes)
          /\ f[second] = GenerateHtml[second]
      BY ChildrenAfter, TreeTypes DEF ElsePart, AllNodes
    <3> HIDE DEF f, second
    <3>2. QED
      BY <3>1, GenerateHtmlIs
  <2> HIDE DEF f, R, step
  <2>4. Lists(Wrap(n, InTurn(ThenPart(n), f)) \o
                    (IF ElsePart(n) # {} THEN Wrap(second, f[second]) ELSE <<>>), PassedOn(n, R))
    BY <1>2, <1>5, <1>8, ConditionLists
  <2> HIDE DEF second
  <2>5. QED
    BY <1>1, <1>3, <1>8, <2>1, <2>2, <2>3, <2>4
<1>9. CASE Kind(n) = "cinline"
  <2> DEFINE g == [c \in Children(n) |-> EmitCss[<<c, "css">>]]
             Q == [c \in Children(n) |-> CssOuts(c, "css")]
  <2>1. step = Wrap(n, InTurn(Children(n), g))
    BY <1>9, GenerateHtmlIs DEF EmitAll
  <2>2. \A c \in Children(n) : Lists(g[c], Q[c]) /\ From(c, Q[c])
    <3>1. "css" \in Modes /\ \A c \in Children(n) : c \in 0..Len(nodes)
      BY ChildrenAfter, TreeTypes DEF AllNodes, Modes
    <3>2. \A c \in Children(n) : Lists(EmitCss[<<c, "css">>], CssOuts(c, "css"))
      BY <3>1, EmitCssWorks
    <3>3. \A c \in Children(n) : From(c, CssOuts(c, "css"))
      BY <3>1, OutsFrom
    <3>4. QED
      BY <3>2, <3>3
  <2>3. PageOuts(n) = WrapOuts(n, Together(Q, Children(n)))
    <3>1. PageOuts(n) = UNION {WrapOuts(n, CssOuts(c, "css")) : c \in Children(n)}
      BY <1>9, OutsOfChildren
    <3>2. \A c \in Children(n) : Q[c] = CssOuts(c, "css")
      OBVIOUS
    <3> HIDE DEF Q
    <3>3. WrapOuts(n, Together(Q, Children(n))) = UNION {WrapOuts(n, Q[c]) : c \in Children(n)}
      BY DEF WrapOuts, Together
    <3>4. QED
      BY <3>1, <3>2, <3>3
  <2> HIDE DEF g, Q, step
  <2>4. Lists(Wrap(n, InTurn(Children(n), g)), WrapOuts(n, Together(Q, Children(n))))
    BY <1>5, <1>9, <2>2, LoopLists
  <2>5. QED
    BY <1>1, <2>1, <2>3, <2>4
<1>10. CASE Kind(n) = "cstyle"
  <2>1. PageOuts(n) = {}
    BY <1>10, OutsOfChildren
  <2>2. QED
    BY <1>10, <2>1, GenerateHtmlIs, ListsEmpty
<1>11. CASE Kind(n) \notin {"text", "cloop", "cif", "cinline", "cstyle"}
  <2>1. step = GenerateAll(GenerateHtml, Children(n))
    BY <1>11, GenerateHtmlIs
  <2>2. GenerateAll(GenerateHtml, Children(n)) = InTurn(Children(n), f)
    BY <1>4
  <2> HIDE DEF f, R, step
  <2>3. Lists(InTurn(Children(n), f), PassedOn(n, R))
    BY <1>2, <1>11, InTurnLists, PassedOnKinds
  <2>4. QED
    BY <1>1, <1>3, <1>11, <2>1, <2>2, <2>3
<1>12. QED
  BY <1>6, <1>7, <1>8, <1>9, <1>10, <1>11

\* generate_html_node outputs just the texts of the page, in order, each in its tags.
LEMMA GenerateHtmlWorks ==
    ASSUME Tree
    PROVE  \A n \in 0..Len(nodes) : Lists(GenerateHtml[n], PageOuts(n))
<1> DEFINE S == {n \in 0..Len(nodes) : Lists(GenerateHtml[n], PageOuts(n))}
<1>1. ASSUME NEW n \in 0..Len(nodes), \A m \in (n + 1)..Len(nodes) : m \in S
      PROVE  n \in S
  <2>1. \A c \in Children(n) : Lists(GenerateHtml[c], PageOuts(c))
    BY <1>1, ChildrenAfter
  <2>2. QED
    BY <2>1, GenerateHtmlStepWorks
<1>2. Len(nodes) \in Nat
  BY TreeTypes
<1>3. 0..Len(nodes) \subseteq S
  <2>1. \A n \in 0..Len(nodes) : (\A m \in (n + 1)..Len(nodes) : m \in S) => n \in S
    BY <1>1
  <2> HIDE DEF S
  <2>2. QED
    BY <1>2, <2>1, DownInduction
<1>4. QED
  BY <1>3

\* What the two functions write.
LEMMA FunctionsList ==
    ASSUME Tree
    PROVE  Lists(PageFunction, PageOuts(0)) /\ Lists(CssFunction, CssOuts(0, "page"))
<1>1. 0 \in 0..Len(nodes) /\ "page" \in Modes
  BY TreeTypes DEF Modes
<1>2. Lists(PageFunction, PageOuts(0))
  BY <1>1, GenerateHtmlWorks DEF PageFunction
<1>3. CASE HasExternalCss[0]
  BY <1>1, <1>2, <1>3, EmitCssWorks DEF CssFunction
<1>4. CASE ~HasExternalCss[0]
  <2>1. CssOuts(0, "page") = {}
    BY <1>1, <1>4, HasExternalCssWorks DEF CssOuts
  <2>2. QED
    BY <1>2, <1>4, <2>1, ListsEmpty DEF CssFunction
<1>5. QED
  BY <1>2, <1>3, <1>4

\* Every text goes to one of them.
LEMMA TextsDivided ==
    ASSUME Tree
    PROVE  /\ PageTexts(0) \cap CssTexts(0, "page") = {}
           /\ PageTexts(0) \cup CssTexts(0, "page") = {i \in AllNodes : nodes[i].kind = "text"}
<1>1. Sub(0) = 0..Len(nodes)
  BY TreeTypes DEF Sub, AllNodes
<1>2. \A d \in 0..Len(nodes) : Kind(d) = "text" <=> d \in AllNodes /\ nodes[d].kind = "text"
  BY TreeTypes DEF Kind, AllNodes
<1>3. \A i \in AllNodes : i \in 0..Len(nodes)
  BY TreeTypes DEF AllNodes
<1>4. \A d \in 0..Len(nodes) : \A a, b \in Outermost(0, d) : a = b /\ Kind(a) \in Styles
  BY TreeTypes DEF Outermost, Path
<1>5. QED
  BY <1>1, <1>2, <1>3, <1>4 DEF PageTexts, CssTexts, Styles

-----------------------------------------------------------------------------
(* The parser keeps a tree: what its state says about the tree.            *)

\* Every node has the token it was made of, and every text token has a node.
Recorded ==
    /\ source \in Seq(NodeKinds \cup Closing)
    /\ \A i \in AllNodes : nodes[i].at \in 1..Len(source) /\ source[nodes[i].at] = nodes[i].kind
    /\ \A k \in 1..Len(source) :
          source[k] \in NodeKinds \ {"celse"} => \E i \in AllNodes : nodes[i].at = k

\* The open nodes are a path from below the root, to which everything new is added.
OpenPath ==
    /\ open \in Seq(AllNodes)
    /\ \A k \in 1..Len(open) :
          /\ nodes[open[k]].kind # "text"
          /\ nodes[open[k]].parent = IF k = 1 THEN 0 ELSE open[k - 1]
          /\ \A j \in AllNodes : open[k] < j => nodes[j].parent >= open[k]
    /\ \A k, l \in 1..Len(open) : k < l => open[k] < open[l]

\* A condition with a second branch is open only for that branch.
SecondBranches ==
    \A i \in AllNodes :
        nodes[i].kind = "celse" /\ (\E k \in 1..Len(open) : open[k] = nodes[i].parent)
            => \E k \in 1..Len(open) : open[k] = i

TreeInv == Tree /\ Recorded /\ OpenPath /\ SecondBranches

\* The current node is the last of the open path: nothing has been put beside or above its
\* subtree since it was opened, and it has no second branch.
LEMMA CurrentFacts ==
    ASSUME TreeInv
    PROVE  /\ Len(nodes) \in Nat /\ Len(source) \in Nat /\ Len(open) \in Nat
           /\ Current \in 0..Len(nodes)
           /\ Current # 0 => nodes[Current].kind # "text"
           /\ \A j \in AllNodes : Current < j => nodes[j].parent >= Current
           /\ \A k \in 1..Len(open) : open[k] \in AllNodes /\ open[k] <= Current
           /\ open # <<>> => Len(open) \in 1..Len(open) /\ Current = open[Len(open)]
           /\ open = <<>> => Current = 0
           /\ \A j \in AllNodes : nodes[j].kind = "celse" => nodes[j].parent # Current
<1>1. Len(nodes) \in Nat /\ Len(source) \in Nat /\ Len(open) \in Nat
      /\ \A i \in AllNodes : nodes[i].parent \in Nat
  BY TreeTypes DEF TreeInv, Recorded, OpenPath
<1>2. \A k \in 1..Len(open) : open[k] \in AllNodes
  BY DEF TreeInv, OpenPath
<1>3. CASE open = <<>>
  <2>1. Current = 0 /\ Len(open) = 0
    BY <1>3 DEF Current
  <2>2. \A j \in AllNodes : nodes[j].kind = "celse" => nodes[j].parent # 0
    BY DEF TreeInv, Tree, Links
  <2>3. QED
    BY <1>1, <1>3, <2>1, <2>2
<1>4. CASE open # <<>>
  <2>1. Current = open[Len(open)] /\ Len(open) \in 1..Len(open)
    BY <1>1, <1>4 DEF Current, Last, TreeInv, OpenPath
  <2>2. \A k \in 1..Len(open) : k # Len(open) => open[k] < Current
    BY <1>1, <2>1 DEF TreeInv, OpenPath
  <2>3. ASSUME NEW j \in AllNodes, nodes[j].kind = "celse", nodes[j].parent = Current
        PROVE  FALSE
    <3>1. PICK k \in 1..Len(open) : open[k] = j
      BY <2>1, <2>3 DEF TreeInv, SecondBranches
    <3>2. nodes[j].parent < j
      BY DEF TreeInv, Tree, Links
    <3>3. j <= Current
      BY <1>1, <1>2, <2>1, <2>2, <3>1 DEF AllNodes
    <3>4. QED
      BY <1>1, <1>2, <2>1, <2>3, <3>2, <3>3 DEF AllNodes
  <2>4. Current \in AllNodes /\ nodes[Current].kind # "text"
        /\ \A j \in AllNodes : Current < j => nodes[j].parent >= Current
    BY <1>2, <2>1 DEF TreeInv, OpenPath
  <2>5. QED
    BY <1>1, <1>2, <1>4, <2>1, <2>2, <2>3, <2>4 DEF AllNodes
<1>5. QED
  BY <1>3, <1>4

\* A new node keeps the tree.
LEMMA AddNodeTree ==
    ASSUME TreeInv, NEW kind \in NodeKinds, AddNode(kind),
           kind = "celse" => Current # 0 /\ nodes[Current].kind = "cif"
    PROVE  /\ Tree'
           /\ Len(nodes') = Len(nodes) + 1
           /\ nodes'[Len(nodes) + 1] = [kind |-> kind, parent |-> Current, at |-> Len(source) + 1]
           /\ \A i \in AllNodes : nodes'[i] = nodes[i]
<1> DEFINE N == Len(nodes)
           new == [kind |-> kind, parent |-> Current, at |-> Len(source) + 1]
<1>1. /\ N \in Nat /\ Len(source) \in Nat /\ Current \in 0..N
      /\ nodes \in Seq(NodeType)
      /\ Current # 0 => nodes[Current].kind # "text"
      /\ \A j \in AllNodes : Current < j => nodes[j].parent >= Current
      /\ \A j \in AllNodes : nodes[j].kind = "celse" => nodes[j].parent # Current
  BY CurrentFacts DEF TreeInv, Tree
<1>2. new \in NodeType
  BY <1>1 DEF NodeType
<1>3. nodes' = Append(nodes, new)
  BY DEF AddNode
<1> HIDE DEF new
<1>4. /\ nodes' \in Seq(NodeType) /\ Len(nodes') = N + 1
      /\ nodes'[N + 1] = new /\ \A i \in AllNodes : nodes'[i] = nodes[i]
  BY <1>1, <1>2, <1>3 DEF AllNodes
<1>5. /\ new.kind = kind /\ new.parent = Current /\ new.at = Len(source) + 1
  BY DEF new
<1>6. \A i \in 1..(N + 1) : i \in AllNodes \/ i = N + 1
  BY <1>1 DEF AllNodes
<1>7. \A i \in AllNodes : i \in Nat /\ i < N + 1 /\ nodes[i].parent \in 0..(i - 1) /\ nodes[i].at \in Nat
  BY <1>1, TreeTypes DEF TreeInv, AllNodes
<1>8. ASSUME NEW i \in 1..(N + 1)
      PROVE  /\ nodes'[i].parent < i
             /\ nodes'[i].parent # 0 => nodes'[nodes'[i].parent].kind # "text"
             /\ nodes'[i].kind = "celse" =>
                   /\ nodes'[i].parent # 0 /\ nodes'[nodes'[i].parent].kind = "cif"
                   /\ \A j \in 1..(N + 1) : i < j => nodes'[j].parent # nodes'[i].parent
  <2>1. CASE i \in AllNodes
    <3>1. /\ nodes[i].parent # 0 => nodes[i].parent \in AllNodes /\ nodes[nodes[i].parent].kind # "text"
          /\ nodes[i].kind = "celse" =>
                   /\ nodes[i].parent # 0 /\ nodes[nodes[i].parent].kind = "cif"
                   /\ \A j \in AllNodes : i < j => nodes[j].parent # nodes[i].parent
      BY <1>1, <1>7, <2>1 DEF TreeInv, Tree, Links, AllNodes
    <3>2. nodes'[i] = nodes[i] /\ nodes[i].parent < i
      BY <1>4, <1>7, <2>1
    <3>3. nodes[i].parent # 0 => nodes'[nodes[i].parent] = nodes[nodes[i].parent]
      BY <1>4, <3>1
    <3>4. ASSUME nodes[i].kind = "celse", NEW j \in 1..(N + 1), i < j
          PROVE  nodes'[j].parent # nodes[i].parent
      <4>1. CASE j \in AllNodes
        BY <1>4, <3>1, <3>4, <4>1
      <4>2. CASE j = N + 1
        BY <1>1, <1>4, <1>5, <2>1, <3>4, <4>2
      <4>3. QED
        BY <1>6, <4>1, <4>2
    <3>5. QED
      BY <3>1, <3>2, <3>3, <3>4
  <2>2. CASE i = N + 1
    <3>1. Current # 0 => Current \in AllNodes
      BY <1>1 DEF AllNodes
    <3>2. \A j \in 1..(N + 1) : ~(N + 1 < j)
      BY <1>1
    <3>3. QED
      BY <1>1, <1>4, <1>5, <2>2, <3>1, <3>2
  <2>3. QED
    BY <1>6, <2>1, <2>2
<1>9. ASSUME NEW i \in 1..(N + 1), NEW j \in 1..(N + 1), i < j
      PROVE  nodes'[i].at < nodes'[j].at
  <2>1. i \in AllNodes
    BY <1>1, <1>9 DEF AllNodes
  <2>2. CASE j \in AllNodes
    BY <1>4, <1>9, <2>1, <2>2 DEF TreeInv, Tree
  <2>3. CASE j = N + 1
    <3>1. nodes[i].at \in 1..Len(source)
      BY <2>1 DEF TreeInv, Recorded
    <3>2. QED
      BY <1>1, <1>4, <1>5, <2>1, <2>3, <3>1
  <2>4. QED
    BY <1>6, <2>2, <2>3
<1>10. ASSUME NEW i \in 1..(N + 1), NEW j \in 1..(N + 1), NEW k \in 1..(N + 1),
              i < j, j < k, nodes'[j].parent < i
       PROVE  nodes'[k].parent < i \/ nodes'[k].parent >= j
  <2>1. i \in AllNodes /\ j \in AllNodes /\ nodes[j].parent < i
    BY <1>1, <1>4, <1>10 DEF AllNodes
  <2>2. CASE k \in AllNodes
    <3>1. nodes[k].parent < i \/ nodes[k].parent >= j
      BY <1>10, <2>1, <2>2 DEF TreeInv, Tree, Preorder
    <3>2. QED
      BY <1>4, <2>2, <3>1
  <2>3. CASE k = N + 1
    <3>1. Current < i \/ Current >= j
      <4>1. Current < j => nodes[j].parent >= Current
        BY <1>1, <2>1
      <4>2. QED
        BY <1>1, <1>7, <2>1, <4>1
    <3>2. QED
      BY <1>4, <1>5, <2>3, <3>1
  <2>4. QED
    BY <1>6, <2>2, <2>3
<1>11. Tree'
  BY <1>4, <1>8, <1>9, <1>10 DEF Tree, Links, Preorder, AllNodes
<1>12. QED
  BY <1>4, <1>11 DEF new

\* A node that opens is the end of the path.
LEMMA OpenNode ==
    ASSUME TreeInv, NEW kind \in NodeKinds \ {"text"}, AddNode(kind),
           kind = "celse" => Current # 0 /\ nodes[Current].kind = "cif",
           open' = Append(open, Len(nodes) + 1)
    PROVE  OpenPath' /\ SecondBranches'
<1> DEFINE N == Len(nodes)
           M == Len(open)
<1>1. /\ N \in Nat /\ M \in Nat /\ Current \in 0..N
      /\ \A k \in 1..M : open[k] \in AllNodes /\ open[k] <= Current
      /\ open # <<>> => M \in 1..M /\ Current = open[M]
      /\ open = <<>> => Current = 0
  BY CurrentFacts
<1>2. /\ Len(nodes') = N + 1 /\ \A i \in AllNodes : nodes'[i] = nodes[i]
      /\ nodes'[N + 1].kind = kind /\ nodes'[N + 1].parent = Current
  <2>1. kind \in NodeKinds
    OBVIOUS
  <2>2. /\ Len(nodes') = N + 1 /\ \A i \in AllNodes : nodes'[i] = nodes[i]
        /\ nodes'[N + 1] = [kind |-> kind, parent |-> Current, at |-> Len(source) + 1]
    BY <2>1, AddNodeTree
  <2>3. QED
    BY <2>2
<1>3. /\ open \in Seq(AllNodes)
      /\ \A k \in 1..M :
          /\ nodes[open[k]].kind # "text"
          /\ nodes[open[k]].parent = IF k = 1 THEN 0 ELSE open[k - 1]
          /\ \A j \in AllNodes : open[k] < j => nodes[j].parent >= open[k]
      /\ \A k, l \in 1..M : k < l => open[k] < open[l]
  BY DEF TreeInv, OpenPath
<1>4. /\ AllNodes' = 1..(N + 1) /\ AllNodes = 1..N
      /\ \A i \in 1..(N + 1) : i \in AllNodes \/ i = N + 1
      /\ M = 0 => open = <<>>
  BY <1>1, <1>2, <1>3 DEF AllNodes
<1>5. /\ open' \in Seq(1..(N + 1)) /\ Len(open') = M + 1
      /\ \A k \in 1..M : open'[k] = open[k] /\ k # M + 1
      /\ open'[M + 1] = N + 1
      /\ \A k \in 1..(M + 1) : k \in 1..M \/ k = M + 1
  <2>1. open \in Seq(1..(N + 1)) /\ N + 1 \in 1..(N + 1)
    BY <1>1, <1>3, <1>4
  <2>2. QED
    BY <1>1, <2>1
<1>6. ASSUME NEW k \in 1..(M + 1)
      PROVE  /\ nodes'[open'[k]].kind # "text"
             /\ nodes'[open'[k]].parent = IF k = 1 THEN 0 ELSE open'[k - 1]
             /\ \A j \in 1..(N + 1) : open'[k] < j => nodes'[j].parent >= open'[k]
  <2>1. CASE k \in 1..M
    <3>1. nodes'[open'[k]] = nodes[open[k]] /\ open'[k] = open[k] /\ open[k] \in AllNodes
          /\ (k # 1 => open'[k - 1] = open[k - 1])
      BY <1>1, <1>2, <1>5, <2>1
    <3>2. \A j \in 1..(N + 1) : open[k] < j => nodes'[j].parent >= open[k]
      BY <1>1, <1>2, <1>3, <1>4, <2>1
    <3>3. QED
      BY <1>3, <2>1, <3>1, <3>2
  <2>2. CASE k = M + 1
    <3>1. k # 1 => open'[k - 1] = Current
      BY <1>1, <1>4, <1>5, <2>2
    <3>2. k = 1 => Current = 0
      BY <1>1, <1>4, <2>2
    <3>3. \A j \in 1..(N + 1) : ~(N + 1 < j)
      BY <1>1
    <3>4. QED
      BY <1>2, <1>5, <2>2, <3>1, <3>2, <3>3
  <2>3. QED
    BY <1>5, <2>1, <2>2
<1>7. \A k, l \in 1..(M + 1) : k < l => open'[k] < open'[l]
  <2> SUFFICES ASSUME NEW k \in 1..(M + 1), NEW l \in 1..(M + 1), k < l
               PROVE  open'[k] < open'[l]
    OBVIOUS
  <2>1. k \in 1..M /\ open'[k] = open[k] /\ open[k] \in 1..N
    BY <1>1, <1>4, <1>5
  <2>2. CASE l \in 1..M
    BY <1>3, <1>5, <2>1, <2>2
  <2>3. CASE l = M + 1
    BY <1>1, <1>5, <2>1, <2>3
  <2>4. QED
    BY <1>5, <2>2, <2>3
<1>8. OpenPath'
  BY <1>4, <1>5, <1>6, <1>7 DEF OpenPath
<1>9. ASSUME NEW i \in 1..(N + 1), nodes'[i].kind = "celse",
             NEW k \in 1..(M + 1), open'[k] = nodes'[i].parent
      PROVE  \E l \in 1..(M + 1) : open'[l] = i
  <2>1. CASE i = N + 1
    BY <1>1, <1>5, <2>1
  <2>2. CASE i \in AllNodes
    <3>1. nodes[i].parent < i /\ nodes[i].kind = "celse" /\ open'[k] = nodes[i].parent /\ i \in 1..N
      BY <1>2, <1>4, <1>9, <2>2 DEF TreeInv, Tree, Links
    <3>2. k \in 1..M
      BY <1>1, <1>5, <3>1
    <3>3. PICK l \in 1..M : open[l] = i
      BY <1>5, <2>2, <3>1, <3>2 DEF TreeInv, SecondBranches
    <3>4. QED
      BY <1>1, <1>5, <3>3
  <2>3. QED
    BY <1>4, <2>1, <2>2
<1>10. SecondBranches'
  BY <1>4, <1>5, <1>9 DEF SecondBranches
<1>11. QED
  BY <1>8, <1>10

-----------------------------------------------------------------------------
(* The parser keeps a tree: each step.                                     *)

\* A token that is read and gets a node.
LEMMA NodeRecorded ==
    ASSUME TreeInv, NEW kind \in NodeKinds, AddNode(kind), Advance(kind),
           kind = "celse" => Current # 0 /\ nodes[Current].kind = "cif"
    PROVE  Recorded'
<1> DEFINE N == Len(nodes)
           S == Len(source)
<1>1. N \in Nat /\ S \in Nat
  BY CurrentFacts
<1>2. /\ Len(nodes') = N + 1 /\ \A i \in AllNodes : nodes'[i] = nodes[i]
      /\ nodes'[N + 1] = [kind |-> kind, parent |-> Current, at |-> S + 1]
  BY AddNodeTree
<1>3. /\ source \in Seq(NodeKinds \cup Closing) /\ source' = Append(source, kind)
      /\ \A i \in AllNodes : nodes[i].at \in 1..S /\ source[nodes[i].at] = nodes[i].kind
      /\ \A k \in 1..S : source[k] \in NodeKinds \ {"celse"} => \E i \in AllNodes : nodes[i].at = k
  BY DEF TreeInv, Recorded, Advance
<1>4. /\ source' \in Seq(NodeKinds \cup Closing) /\ Len(source') = S + 1
      /\ source'[S + 1] = kind /\ \A k \in 1..S : source'[k] = source[k]
  BY <1>1, <1>3
<1>5. AllNodes' = AllNodes \cup {N + 1} /\ N + 1 \in AllNodes'
  BY <1>1, <1>2 DEF AllNodes
<1>6. nodes'[N + 1].at = S + 1 /\ nodes'[N + 1].kind = kind
  BY <1>2
<1>7. ASSUME NEW i \in AllNodes'
      PROVE  nodes'[i].at \in 1..(S + 1) /\ source'[nodes'[i].at] = nodes'[i].kind
  <2>1. CASE i \in AllNodes
    BY <1>1, <1>2, <1>3, <1>4, <2>1
  <2>2. CASE i = N + 1
    BY <1>1, <1>4, <1>6, <2>2
  <2>3. QED
    BY <1>5, <2>1, <2>2
<1>8. ASSUME NEW k \in 1..(S + 1), source'[k] \in NodeKinds \ {"celse"}
      PROVE  \E i \in AllNodes' : nodes'[i].at = k
  <2>1. CASE k \in 1..S
    <3>1. PICK i \in AllNodes : nodes[i].at = k
      BY <1>3, <1>4, <1>8, <2>1
    <3>2. QED
      BY <1>2, <1>5, <3>1
  <2>2. CASE k = S + 1
    BY <1>5, <1>6, <2>2
  <2>3. QED
    BY <1>1, <2>1, <2>2
<1>9. QED
  BY <1>4, <1>7, <1>8 DEF Recorded

\* A token that is read and gets none.
LEMMA TokenRecorded ==
    ASSUME TreeInv, NEW tag \in Closing \cup {"celse"}, Advance(tag), nodes' = nodes
    PROVE  Tree' /\ Recorded'
<1> DEFINE S == Len(source)
<1>1. S \in Nat
  BY CurrentFacts
<1>2. /\ source \in Seq(NodeKinds \cup Closing) /\ source' = Append(source, tag)
      /\ \A i \in AllNodes : nodes[i].at \in 1..S /\ source[nodes[i].at] = nodes[i].kind
      /\ \A k \in 1..S : source[k] \in NodeKinds \ {"celse"} => \E i \in AllNodes : nodes[i].at = k
  BY DEF TreeInv, Recorded, Advance
<1>3. tag \in NodeKinds \cup Closing /\ tag \notin NodeKinds \ {"celse"}
  BY DEF NodeKinds, Closing, Opening, Styles
<1>4. /\ source' \in Seq(NodeKinds \cup Closing) /\ Len(source') = S + 1
      /\ source'[S + 1] = tag /\ \A k \in 1..S : source'[k] = source[k]
      /\ \A k \in 1..(S + 1) : k \in 1..S \/ k = S + 1
  BY <1>1, <1>2, <1>3
<1>5. AllNodes' = AllNodes
  BY DEF AllNodes
<1>6. Recorded'
  <2>1. \A i \in AllNodes : nodes[i].at \in 1..(S + 1) /\ source'[nodes[i].at] = nodes[i].kind
    BY <1>1, <1>2, <1>4
  <2>2. \A k \in 1..(S + 1) : source'[k] \in NodeKinds \ {"celse"} => \E i \in AllNodes : nodes[i].at = k
    BY <1>2, <1>3, <1>4
  <2>3. QED
    BY <1>4, <1>5, <2>1, <2>2 DEF Recorded
<1>7. Tree'
  BY <1>5 DEF TreeInv, Tree, Links, Preorder
<1>8. QED
  BY <1>6, <1>7

\* Reading content keeps the invariant.
LEMMA TextTreeInv ==
    ASSUME TreeInv, ParseText
    PROVE  TreeInv'
<1> DEFINE N == Len(nodes)
<1>1. Advance("text") /\ AddNode("text") /\ open' = open /\ "text" \in NodeKinds
  BY DEF ParseText, NodeKinds
<1>2. Recorded'
  BY <1>1, NodeRecorded
<1>3. /\ Tree' /\ Len(nodes') = N + 1 /\ \A i \in AllNodes : nodes'[i] = nodes[i]
      /\ nodes'[N + 1] = [kind |-> "text", parent |-> Current, at |-> Len(source) + 1]
  BY <1>1, AddNodeTree
<1>4. /\ nodes'[N + 1].kind = "text" /\ nodes'[N + 1].parent = Current
  BY <1>3
<1>5. /\ N \in Nat /\ Len(open) \in Nat /\ Current \in 0..N
      /\ \A k \in 1..Len(open) : open[k] \in AllNodes /\ open[k] <= Current
  BY CurrentFacts
<1>6. AllNodes' = AllNodes \cup {N + 1}
  BY <1>3, <1>5 DEF AllNodes
<1>7. OpenPath'
  <2>1. open' \in Seq(AllNodes')
    <3>1. open \in Seq(AllNodes)
      BY DEF TreeInv, OpenPath
    <3>2. AllNodes \subseteq AllNodes'
      BY <1>6
    <3> DEFINE T == AllNodes'
    <3>3. AllNodes \subseteq T
      BY <3>2
    <3> HIDE DEF T
    <3>4. open \in Seq(T)
      BY <3>1, <3>3
    <3>5. QED
      BY <1>1, <3>4 DEF T
  <2>2. ASSUME NEW k \in 1..Len(open)
        PROVE  /\ nodes'[open[k]].kind # "text"
               /\ nodes'[open[k]].parent = IF k = 1 THEN 0 ELSE open[k - 1]
               /\ \A j \in AllNodes' : open[k] < j => nodes'[j].parent >= open[k]
    <3>1. nodes'[open[k]] = nodes[open[k]]
      BY <1>3, <1>5
    <3>2. nodes'[N + 1].parent >= open[k]
      BY <1>4, <1>5 DEF AllNodes
    <3>3. QED
      BY <1>3, <1>6, <3>1, <3>2 DEF TreeInv, OpenPath
  <2>3. \A k, l \in 1..Len(open) : k < l => open[k] < open[l]
    BY DEF TreeInv, OpenPath
  <2>4. QED
    BY <1>1, <2>1, <2>2, <2>3 DEF OpenPath
<1>8. SecondBranches'
  <2>1. \A i \in AllNodes' : nodes'[i].kind = "celse" => i \in AllNodes /\ nodes'[i] = nodes[i]
    BY <1>3, <1>4, <1>6
  <2>2. QED
    BY <1>1, <2>1 DEF TreeInv, SecondBranches
<1>9. QED
  BY <1>2, <1>3, <1>7, <1>8 DEF TreeInv

\* So does reading an opening tag.
LEMMA OpeningTreeInv ==
    ASSUME TreeInv, NEW tag \in Opening, ParseOpening(tag)
    PROVE  TreeInv'
<1>1. Advance(tag) /\ AddNode(tag) /\ open' = Append(open, Len(nodes) + 1)
  BY DEF ParseOpening
<1>2. tag \in NodeKinds /\ tag \in NodeKinds \ {"text"} /\ tag # "celse"
  BY DEF NodeKinds, Opening, Styles
<1>3. QED
  BY <1>1, <1>2, NodeRecorded, AddNodeTree, OpenNode DEF TreeInv

\* So does reading <celse> where it belongs.
LEMMA ElseTreeInv ==
    ASSUME TreeInv, ParseElse
    PROVE  TreeInv'
<1>1. Advance("celse") /\ AddNode("celse") /\ open' = Append(open, Len(nodes) + 1)
      /\ Within({"cif"})
  BY DEF ParseElse
<1>2. "celse" \in NodeKinds /\ "celse" \in NodeKinds \ {"text"}
  BY DEF NodeKinds
<1>3. Current # 0 /\ nodes[Current].kind = "cif"
  BY <1>1, CurrentFacts DEF Within, Current, AllNodes
<1>4. QED
  BY <1>1, <1>2, <1>3, NodeRecorded, AddNodeTree, OpenNode DEF TreeInv

\* Where a closing tag leads: one node less is open, or two when the last is a second branch.
LEMMA ReturnedFacts ==
    ASSUME TreeInv, open # <<>>, NEW tag
    PROVE  LET m == IF nodes[Last(open)].kind = "celse" THEN Len(open) - 2 ELSE Len(open) - 1
           IN  /\ m \in 0..(Len(open) - 1) /\ Len(open) \in Nat
               /\ Returned(tag) = [k \in 1..m |-> open[k]]
               /\ Returned(tag) \in Seq(AllNodes)
               /\ Len(Returned(tag)) = m
<1> DEFINE M == Len(open)
<1>1. M \in 1..M /\ M \in Nat /\ open \in Seq(AllNodes) /\ Last(open) = open[M]
      /\ open[M] \in AllNodes
  BY CurrentFacts DEF TreeInv, OpenPath, Last
<1>2. CASE nodes[Last(open)].kind = "celse"
  <2>1. nodes[open[M]].parent # 0
    BY <1>1, <1>2 DEF TreeInv, Tree, Links
  <2>2. M # 1
    BY <1>1, <2>1 DEF TreeInv, OpenPath
  <2>3. Returned(tag) = SubSeq(SubSeq(open, 1, M - 1), 1, M - 2)
    BY <1>1, <1>2, <2>2 DEF Returned, Within, Front
  <2>4. Returned(tag) = [k \in 1..(M - 2) |-> open[k]]
    BY <1>1, <2>2, <2>3
  <2>5. M - 2 \in 0..(M - 1) /\ \A k \in 1..(M - 2) : open[k] \in AllNodes
    <3>1. \A k \in 1..M : open[k] \in AllNodes
      BY <1>1
    <3>2. M \in Nat /\ M >= 1 /\ M # 1
      BY <1>1, <2>2
    <3> HIDE DEF M
    <3>3. QED
      BY <3>1, <3>2
  <2>6. Returned(tag) \in Seq(AllNodes) /\ Len(Returned(tag)) = M - 2
    BY <2>4, <2>5
  <2>7. QED
    BY <1>1, <1>2, <2>4, <2>5, <2>6
<1>3. CASE nodes[Last(open)].kind # "celse"
  <2>1. Returned(tag) = SubSeq(open, 1, M - 1)
    BY <1>1, <1>3 DEF Returned, Within, Front
  <2>2. Returned(tag) = [k \in 1..(M - 1) |-> open[k]]
    BY <1>1, <2>1
  <2>3. QED
    BY <1>1, <1>3, <2>2
<1>4. QED
  BY <1>2, <1>3

\* So does a closing tag that ends the current node.
LEMMA ClosingTreeInv ==
    ASSUME TreeInv, NEW tag \in Closing, ParseClosing(tag)
    PROVE  TreeInv'
<1> DEFINE M == Len(open)
           m == IF nodes[Last(open)].kind = "celse" THEN M - 2 ELSE M - 1
<1>1. open # <<>> /\ Advance(tag) /\ open' = Returned(tag) /\ nodes' = nodes
      /\ tag \in Closing \cup {"celse"}
  BY DEF ParseClosing, Within
<1>2. Tree' /\ Recorded'
  BY <1>1, TokenRecorded
<1>3. /\ m \in 0..(M - 1) /\ M \in Nat
      /\ Returned(tag) = [k \in 1..m |-> open[k]]
      /\ Returned(tag) \in Seq(AllNodes) /\ Len(Returned(tag)) = m
  BY <1>1, ReturnedFacts
<1> HIDE DEF m
<1>4. /\ open' \in Seq(AllNodes) /\ Len(open') = m
      /\ \A k \in 1..m : open'[k] = open[k] /\ k \in 1..M /\ (k # 1 => open'[k - 1] = open[k - 1])
  BY <1>1, <1>3
<1>5. AllNodes' = AllNodes
  BY <1>1 DEF AllNodes
<1>6. OpenPath'
  BY ZenonT(60), <1>1, <1>4, <1>5 DEF TreeInv, OpenPath
<1>7. ASSUME NEW i \in AllNodes, nodes[i].kind = "celse",
             NEW k \in 1..m, open[k] = nodes[i].parent
      PROVE  \E l \in 1..m : open[l] = i
  <2>1. PICK l \in 1..M : open[l] = i
    BY <1>4, <1>7 DEF TreeInv, SecondBranches
  <2>2. open[M] = Last(open) /\ M \in 1..M
    BY <1>1, CurrentFacts DEF Last
  <2>3. k < l /\ k # l
    <3>1. nodes[i].parent < i /\ i \in Nat /\ nodes[i].parent \in Nat
      BY TreeTypes DEF TreeInv, Tree, Links, AllNodes
    <3>2. \A a, b \in 1..M : a < b => open[a] < open[b]
      BY DEF TreeInv, OpenPath
    <3>3. ~(l < k)
      <4>1. k \in 1..M /\ open[k] = nodes[i].parent
        BY <1>4, <1>7
      <4>2. l < k => i < nodes[i].parent
        BY <2>1, <3>2, <4>1
      <4>3. QED
        BY <3>1, <4>2
    <3>4. QED
      BY <1>3, <1>7, <2>1, <3>1, <3>3
  <2>4. l # 1 /\ open[l - 1] = nodes[i].parent
    BY <1>3, <2>1, <2>3, TreeTypes DEF TreeInv, OpenPath
  <2>5. CASE nodes[Last(open)].kind = "celse"
    <3>1. m = M - 2
      BY <2>5 DEF m
    <3>2. k = l - 1
      <4>1. \A a, b \in 1..M : a < b => open[a] < open[b]
        BY DEF TreeInv, OpenPath
      <4>2. k \in 1..M /\ l - 1 \in 1..M /\ open[k] = open[l - 1] /\ open[k] \in Nat
        BY <1>3, <1>4, <1>7, <2>1, <2>3, <2>4, TreeTypes DEF TreeInv
      <4>3. QED
        BY <4>1, <4>2
    <3>3. l - 1 <= M - 2 => l <= M - 1
      BY <1>3
    <3>4. l # M - 1
      <4>1. SUFFICES ASSUME l = M - 1
                     PROVE  FALSE
        OBVIOUS
      <4>2. nodes[open[M]].parent = open[M - 1]
        BY <2>2, <2>3, <4>1 DEF TreeInv, OpenPath
      <4>3. nodes[open[M - 1]].kind = "celse" /\ nodes[open[M]].kind = "celse"
        BY <1>7, <2>1, <2>2, <2>5, <4>1
      <4>4. nodes[nodes[open[M]].parent].kind = "cif"
        BY <2>2, <4>3, CurrentFacts DEF TreeInv, Tree, Links
      <4>5. QED
        BY <4>2, <4>3, <4>4
    <3>5. l \in 1..m
      <4>1. M \in Nat /\ m \in Int
        BY <1>3
      <4> HIDE DEF M
      <4>2. QED
        BY <3>1, <3>2, <3>4, <4>1
    <3>6. QED
      BY <2>1, <3>5
  <2>6. CASE nodes[Last(open)].kind # "celse"
    <3>1. m = M - 1 /\ l # M
      BY <1>7, <2>1, <2>2, <2>6 DEF m
    <3>2. l \in 1..m
      <4>1. M \in Nat /\ m \in Int
        BY <1>3
      <4> HIDE DEF M
      <4>2. QED
        BY <3>1, <4>1
    <3>3. QED
      BY <2>1, <3>2
  <2>7. QED
    BY <2>5, <2>6
<1>8. SecondBranches'
  <2>1. \A i \in AllNodes : nodes[i].kind = "celse" =>
            \A k \in 1..m : open[k] = nodes[i].parent => \E l \in 1..m : open[l] = i
    BY <1>7
  <2>2. \A i \in AllNodes : nodes[i].kind = "celse" =>
            \A k \in 1..m : open'[k] = nodes[i].parent => \E l \in 1..m : open'[l] = i
    BY <1>4, <2>1
  <2>3. nodes' = nodes
    BY <1>1
  <2>4. QED
    BY <1>4, <1>5, <2>2, <2>3 DEF SecondBranches
<1>9. QED
  BY <1>2, <1>6, <1>8 DEF TreeInv

\* So does a tag that is skipped.
LEMMA SkipTreeInv ==
    ASSUME TreeInv, NEW tag \in Closing \cup {"celse"}, SkipToken(tag)
    PROVE  TreeInv'
<1>1. Advance(tag) /\ nodes' = nodes /\ open' = open
  BY DEF SkipToken
<1>2. Tree' /\ Recorded'
  BY <1>1, TokenRecorded
<1>3. OpenPath' /\ SecondBranches'
  BY <1>1 DEF TreeInv, OpenPath, SecondBranches, AllNodes
<1>4. QED
  BY <1>2, <1>3 DEF TreeInv

\* However the tags of a template are nested or misplaced, the parser builds a tree in
\* preorder: every piece of content has its node, in the order of the template, and a
\* second branch is the last child of its condition.
THEOREM TreeInvariant == ParserSpec => []TreeInv
<1>1. ParserInit => TreeInv
  BY DEF ParserInit, TreeInv, Tree, Links, Preorder, Recorded, OpenPath, SecondBranches, AllNodes
<1>2. TreeInv /\ [ParserNext]_parserVars => TreeInv'
  <2> SUFFICES ASSUME TreeInv, [ParserNext]_parserVars
               PROVE  TreeInv'
    OBVIOUS
  <2>1. CASE ParserNext
    BY <2>1, TextTreeInv, OpeningTreeInv, ElseTreeInv, ClosingTreeInv, SkipTreeInv DEF ParserNext
  <2>2. CASE UNCHANGED parserVars
    <3>1. source' = source /\ nodes' = nodes /\ open' = open /\ AllNodes' = AllNodes
      BY <2>2 DEF parserVars, AllNodes
    <3>2. Tree'
      BY <3>1 DEF TreeInv, Tree, Links, Preorder
    <3>3. Recorded'
      BY <3>1 DEF TreeInv, Recorded
    <3>4. OpenPath'
      BY <3>1 DEF TreeInv, OpenPath
    <3>5. SecondBranches'
      BY <3>1 DEF TreeInv, SecondBranches
    <3>6. QED
      BY <3>2, <3>3, <3>4, <3>5 DEF TreeInv
  <2>3. QED
    BY <2>1, <2>2
<1>3. QED
  BY <1>1, <1>2, PTL DEF ParserSpec

\* Each piece of content is written once, by one function, in its place.
LEMMA TreeWritten ==
    ASSUME TreeInv
    PROVE  ContentWrittenOnce
<1>1. Tree
  BY DEF TreeInv
<1>2. Lists(PageFunction, PageOuts(0)) /\ Lists(CssFunction, CssOuts(0, "page"))
  BY <1>1, FunctionsList
<1>3. InOrder(PageFunction) /\ InOrder(CssFunction)
  BY <1>2 DEF Lists
<1>4. ASSUME NEW f, NEW R, Lists(f, R)
      PROVE  Outputs(f) = {o.at : o \in R}
  <2>1. R = {f[i] : i \in DOMAIN f}
    BY <1>4 DEF Lists
  <2>2. QED
    BY <2>1 DEF Outputs
<1>5. Outputs(PageFunction) = {nodes[d].at : d \in PageTexts(0)}
  <2>1. Outputs(PageFunction) = {o.at : o \in PageOuts(0)}
    BY <1>2, <1>4
  <2>2. \A d \in PageTexts(0) : PageOut(0, d).at = nodes[d].at
    BY DEF PageOut, Out
  <2>3. QED
    BY <2>1, <2>2 DEF PageOuts
<1>6. Outputs(CssFunction) = {nodes[d].at : d \in CssTexts(0, "page")}
  <2>1. Outputs(CssFunction) = {o.at : o \in CssOuts(0, "page")}
    BY <1>2, <1>4
  <2>2. \A d \in CssTexts(0, "page") : CssOut(0, d).at = nodes[d].at
    BY DEF CssOut, Out
  <2>3. QED
    BY <2>1, <2>2 DEF CssOuts
<1>7. /\ PageTexts(0) \cap CssTexts(0, "page") = {}
      /\ PageTexts(0) \cup CssTexts(0, "page") = {i \in AllNodes : nodes[i].kind = "text"}
  BY <1>1, TextsDivided
<1>8. \A i, j \in AllNodes : nodes[i].at = nodes[j].at => i = j
  <2>1. \A i, j \in AllNodes : i < j => nodes[i].at < nodes[j].at
    BY <1>1 DEF Tree
  <2>2. \A i \in AllNodes : i \in Int /\ nodes[i].at \in Int
    BY <1>1, TreeTypes DEF AllNodes
  <2>3. QED
    BY <2>1, <2>2
<1>9. Outputs(PageFunction) \cap Outputs(CssFunction) = {}
  BY <1>5, <1>6, <1>7, <1>8
<1>10. {nodes[d].at : d \in {i \in AllNodes : nodes[i].kind = "text"}}
          = {k \in DOMAIN source : source[k] = "text"}
  <2>1. DOMAIN source = 1..Len(source)
    BY DEF TreeInv, Recorded
  <2>2. \A i \in AllNodes : nodes[i].at \in 1..Len(source) /\ source[nodes[i].at] = nodes[i].kind
    BY DEF TreeInv, Recorded
  <2>3. ASSUME NEW k \in 1..Len(source), source[k] = "text"
        PROVE  \E i \in AllNodes : nodes[i].at = k /\ nodes[i].kind = "text"
    <3>1. source[k] \in NodeKinds \ {"celse"}
      BY <2>3 DEF NodeKinds
    <3>2. PICK i \in AllNodes : nodes[i].at = k
      BY <3>1 DEF TreeInv, Recorded
    <3>3. QED
      BY <2>2, <2>3, <3>2
  <2>4. QED
    BY <2>1, <2>2, <2>3
<1>11. Outputs(PageFunction) \cup Outputs(CssFunction) = {k \in DOMAIN source : source[k] = "text"}
  BY <1>5, <1>6, <1>7, <1>10
<1>12. QED
  BY <1>3, <1>9, <1>11 DEF ContentWrittenOnce

\* Each piece of content of a template is written by exactly one of the two functions, once
\* and in order: parser_parse_element puts every one into the tree, and generate_html_node
\* and emit_css_node together leave none of them out and visit none twice.
THEOREM ContentWritten == ParserSpec => []ContentWrittenOnce
<1>1. TreeInv => ContentWrittenOnce
  BY TreeWritten
<1>2. QED
  BY <1>1, TreeInvariant, PTL

-----------------------------------------------------------------------------
(* Reading a template by counting.                                         *)

Tokens == NodeKinds \cup Closing

\* The reading of a source, for any sequence of tokens: the tags among tokens e+1 to j, the
\* tags that are open after the first n tokens, and the last of these.
Occur(s, e, j, tags) == Cardinality({k \in (e + 1)..j : s[k] \in tags})
StillOpen(s, n, j) ==
    s[j] \in Opening /\ \A k \in (j + 1)..n : Occur(s, j, k, Closing) <= Occur(s, j, k, Opening)
Enc(s, n) == {j \in 1..n : StillOpen(s, n, j)}
Inner(s, n) == CHOOSE j \in Enc(s, n) : \A k \in Enc(s, n) : k <= j
Above(s, n, e) == {j \in Enc(s, n) : e < j}

\* What the counts say at the end: after a tag that is open, as many more have been opened
\* than closed as are open inside it.
Balanced(s) ==
    \A e \in Enc(s, Len(s)) :
        Occur(s, e, Len(s), Opening) = Occur(s, e, Len(s), Closing) + Cardinality(Above(s, Len(s), e))

\* What one more token adds to a count.
Follows(m, j) == m = j + 1

\* A count, and what one more token adds to it.
LEMMA Occurs ==
    ASSUME NEW s, NEW e \in Nat, NEW j \in Nat, NEW tags
    PROVE  /\ Occur(s, e, j, tags) \in Nat
           /\ \A m \in Nat : e <= j /\ Follows(m, j)
                => Occur(s, e, m, tags) = Occur(s, e, j, tags) + (IF s[m] \in tags THEN 1 ELSE 0)
<1> DEFINE K == {k \in (e + 1)..j : s[k] \in tags}
           L(m) == {k \in (e + 1)..m : s[k] \in tags}
<1>1. IsFiniteSet(K) /\ Cardinality(K) \in Nat
  <2>1. IsFiniteSet((e + 1)..j) /\ K \in SUBSET ((e + 1)..j)
    BY FS_Interval
  <2> HIDE DEF K
  <2>2. IsFiniteSet(K)
    BY <2>1, FS_Subset
  <2>3. QED
    BY <2>2, FS_CardinalityType
<1>2. ASSUME NEW m \in Nat, e <= j, m = j + 1
      PROVE  Cardinality(L(m)) = Cardinality(K) + (IF s[m] \in tags THEN 1 ELSE 0)
  <2>1. CASE s[m] \in tags
    <3>1. L(m) = K \cup {m} /\ m \notin K
      BY <1>2, <2>1
    <3> HIDE DEF K, L
    <3>2. Cardinality(L(m)) = Cardinality(K) + 1
      BY <1>1, <3>1, FS_AddElement
    <3>3. QED
      BY <2>1, <3>2
  <2>2. CASE s[m] \notin tags
    <3>1. \A k \in Int : k \in (e + 1)..m <=> k \in (e + 1)..j \/ k = m
      BY <1>2
    <3>2. L(m) = K
      BY <2>2, <3>1
    <3> HIDE DEF K, L
    <3>3. QED
      BY <1>1, <2>2, <3>2
  <2>3. QED
    BY <2>1, <2>2
<1>3. QED
  BY <1>1, <1>2 DEF Occur, Follows

\* Nothing occurs after the last token.
LEMMA OccurNone ==
    ASSUME NEW s, NEW e \in Nat, NEW tags
    PROVE  Occur(s, e, e, tags) = 0
<1>1. {k \in (e + 1)..e : s[k] \in tags} = {}
  OBVIOUS
<1>2. QED
  BY <1>1, FS_EmptySet DEF Occur

\* What one more token adds to a count, once more, in a form to cite.
LEMMA OccurNext ==
    ASSUME NEW s, NEW e \in Nat, NEW j \in Nat, NEW tags, NEW m \in Nat, e <= j, Follows(m, j)
    PROVE  /\ Occur(s, e, j, tags) \in Nat
           /\ Occur(s, e, m, tags) = Occur(s, e, j, tags) + (IF s[m] \in tags THEN 1 ELSE 0)
  BY Occurs

\* A count depends on the tokens it counts.
LEMMA OccurSame ==
    ASSUME NEW s, NEW r, NEW e \in Nat, NEW j \in Nat, NEW tags, \A k \in 1..j : s[k] = r[k]
    PROVE  Occur(s, e, j, tags) = Occur(r, e, j, tags)
<1>1. \A k \in (e + 1)..j : s[k] = r[k]
  OBVIOUS
<1>2. {k \in (e + 1)..j : s[k] \in tags} = {k \in (e + 1)..j : r[k] \in tags}
  BY <1>1
<1>3. QED
  BY <1>2 DEF Occur

\* The tags open after n tokens depend on these tokens only.
LEMMA EncSame ==
    ASSUME NEW s, NEW r, NEW n \in Nat, \A k \in 1..n : s[k] = r[k]
    PROVE  Enc(s, n) = Enc(r, n) /\ Inner(s, n) = Inner(r, n)
<1>1. \A j \in 1..n : StillOpen(s, n, j) <=> StillOpen(r, n, j)
  <2> SUFFICES ASSUME NEW j \in 1..n
               PROVE  StillOpen(s, n, j) <=> StillOpen(r, n, j)
    OBVIOUS
  <2>1. \A k \in (j + 1)..n : \A tags : Occur(s, j, k, tags) = Occur(r, j, k, tags)
    <3> SUFFICES ASSUME NEW k \in (j + 1)..n, NEW tags
                 PROVE  Occur(s, j, k, tags) = Occur(r, j, k, tags)
      OBVIOUS
    <3>1. j \in Nat /\ k \in Nat /\ \A l \in 1..k : s[l] = r[l]
      OBVIOUS
    <3>2. QED
      BY <3>1, OccurSame
  <2>2. QED
    BY <2>1 DEF StillOpen
<1>2. Enc(s, n) = Enc(r, n)
  BY <1>1 DEF Enc
<1>3. QED
  BY <1>2 DEF Inner

\* The tags that are open are some of the tokens read, and the innermost is the last.
LEMMA EncFacts ==
    ASSUME NEW s, NEW n \in Nat
    PROVE  /\ Enc(s, n) \subseteq 1..n /\ IsFiniteSet(Enc(s, n))
           /\ Enc(s, n) # {} => /\ Inner(s, n) \in Enc(s, n)
                                /\ \A k \in Enc(s, n) : k <= Inner(s, n)
<1>1. Enc(s, n) \subseteq 1..n
  BY DEF Enc
<1>2. IsFiniteSet(Enc(s, n))
  <2>1. IsFiniteSet(1..n) /\ Enc(s, n) \in SUBSET (1..n)
    BY <1>1, FS_Interval
  <2>2. QED
    BY <2>1, FS_Subset
<1>3. Enc(s, n) # {} => \E j \in Enc(s, n) : \A k \in Enc(s, n) : k <= j
  <2>1. Enc(s, n) \subseteq 0..n
    BY <1>1
  <2>2. QED
    BY <2>1, GreatestElement
<1>4. QED
  BY <1>1, <1>2, <1>3 DEF Inner

\* So are those opened inside one of them.
LEMMA AboveFacts ==
    ASSUME NEW s, NEW n \in Nat, NEW e
    PROVE  /\ Above(s, n, e) \subseteq Enc(s, n) /\ IsFiniteSet(Above(s, n, e))
           /\ Cardinality(Above(s, n, e)) \in Nat
           /\ Cardinality(Above(s, n, e)) = 0 <=> Above(s, n, e) = {}
<1>1. Above(s, n, e) \in SUBSET Enc(s, n)
  BY DEF Above
<1>2. IsFiniteSet(Above(s, n, e))
  BY <1>1, EncFacts, FS_Subset
<1>3. QED
  BY <1>1, <1>2, FS_CardinalityType, FS_EmptySet

\* Sequence r, of length T, is sequence s, of length S, and token t.
Reads(s, S, r, T, t) ==
    S = Len(s) /\ T = S + 1 /\ Len(r) = T /\ r[T] = t /\ \A k \in 1..S : s[k] = r[k]

\* One more token opens a tag, closes the innermost one or leaves them all open.
LEMMA ReadToken ==
    ASSUME NEW s, NEW r, NEW t, NEW S \in Nat, NEW T \in Nat, Reads(s, S, r, T, t),
           Balanced(s), t \in Closing => Enc(s, S) # {}
    PROVE  /\ Enc(r, T) = IF t \in Opening THEN Enc(s, S) \cup {T}
                          ELSE IF t \in Closing THEN Enc(s, S) \ {Inner(s, S)}
                          ELSE Enc(s, S)
           /\ Balanced(r)
<1> DEFINE E == Enc(s, S)
           F == Enc(r, T)
<1>1. S = Len(s) /\ Len(r) = T /\ r[T] = t /\ \A k \in 1..S : s[k] = r[k]
  BY DEF Reads
<1>0. T = S + 1
  BY DEF Reads
<1>f. Follows(T, S)
  BY <1>0 DEF Follows
<1>2. /\ E \subseteq 1..S /\ IsFiniteSet(E)
      /\ E # {} => Inner(s, S) \in E /\ \A k \in E : k <= Inner(s, S)
  BY EncFacts
<1>3. \A e \in 1..S : \A tags :
        /\ Occur(r, e, T, tags) = Occur(s, e, S, tags) + (IF t \in tags THEN 1 ELSE 0)
        /\ Occur(s, e, S, tags) \in Nat
        /\ \A k \in 1..S : Occur(r, e, k, tags) = Occur(s, e, k, tags)
  <2> SUFFICES ASSUME NEW e \in 1..S, NEW tags
               PROVE  /\ Occur(r, e, T, tags) = Occur(s, e, S, tags) + (IF t \in tags THEN 1 ELSE 0)
                      /\ Occur(s, e, S, tags) \in Nat
                      /\ \A k \in 1..S : Occur(r, e, k, tags) = Occur(s, e, k, tags)
    OBVIOUS
  <2>1. \A k \in 1..S : Occur(r, e, k, tags) = Occur(s, e, k, tags)
    <3> SUFFICES ASSUME NEW k \in 1..S
                 PROVE  Occur(r, e, k, tags) = Occur(s, e, k, tags)
      OBVIOUS
    <3>1. e \in Nat /\ k \in Nat /\ \A l \in 1..k : s[l] = r[l]
      BY <1>1
    <3>2. QED
      BY <3>1, OccurSame
  <2>2. Occur(r, e, T, tags) = Occur(r, e, S, tags) + (IF r[T] \in tags THEN 1 ELSE 0)
        /\ Occur(s, e, S, tags) \in Nat
    <3>1. e \in Nat /\ e <= S
      OBVIOUS
    <3>2. QED
      BY <1>f, <3>1, OccurNext
  <2>3. QED
    BY <1>1, <2>1, <2>2
<1>4. ASSUME NEW e \in E
      PROVE  Occur(s, e, S, Opening) = Occur(s, e, S, Closing) + Cardinality(Above(s, S, e))
  BY <1>1 DEF Balanced
<1>5. \A j \in 1..S : j \in F <=> /\ j \in E
                                  /\ Occur(r, j, T, Closing) <= Occur(r, j, T, Opening)
  <2> SUFFICES ASSUME NEW j \in 1..S
               PROVE  StillOpen(r, T, j) <=> /\ StillOpen(s, S, j)
                                             /\ Occur(r, j, T, Closing) <= Occur(r, j, T, Opening)
    <3>1. \A j \in 1..S : j \in 1..T
      BY <1>0
    <3>2. QED
      BY <3>1 DEF Enc
  <2>1. \A k \in Int : k \in (j + 1)..T <=> k \in (j + 1)..S \/ k = T
    BY <1>0
  <2>2. \A k \in (j + 1)..S : /\ Occur(r, j, k, Closing) = Occur(s, j, k, Closing)
                              /\ Occur(r, j, k, Opening) = Occur(s, j, k, Opening)
    <3>1. \A k \in (j + 1)..S : k \in 1..S
      OBVIOUS
    <3>2. \A k \in 1..S : /\ Occur(r, j, k, Closing) = Occur(s, j, k, Closing)
                          /\ Occur(r, j, k, Opening) = Occur(s, j, k, Opening)
      BY <1>3
    <3>3. QED
      BY <3>1, <3>2
  <2>3. \A k \in (j + 1)..S : k \in Int
    OBVIOUS
  <2>4. QED
    BY <1>1, <2>1, <2>2, <2>3 DEF StillOpen
<1>6. T \in F <=> t \in Opening
  <2>1. T \in 1..T /\ \A k \in (T + 1)..T : FALSE
    BY <1>0
  <2>2. QED
    BY <1>1, <2>1 DEF Enc, StillOpen
<1>7. F \subseteq 1..T /\ \A j \in 1..T : j \in 1..S \/ j = T
  BY <1>0 DEF Enc
<1>8. Opening \cap Closing = {}
  BY DEF Opening, Closing, Styles
<1>9. \A e \in E : /\ e \in 1..S
                   /\ Above(s, S, e) \subseteq E /\ IsFiniteSet(Above(s, S, e))
                   /\ Cardinality(Above(s, S, e)) \in Nat
                   /\ Cardinality(Above(s, S, e)) = 0 <=> Above(s, S, e) = {}
                   /\ Occur(s, e, S, Closing) \in Nat
  BY <1>2, <1>3, AboveFacts
<1>10. \A e \in E : \A c, n \in Nat :
         c = Occur(s, e, S, Closing) /\ n = Cardinality(Above(s, S, e))
         => /\ Occur(r, e, T, Closing) = c + (IF t \in Closing THEN 1 ELSE 0)
            /\ Occur(r, e, T, Opening) = c + n + (IF t \in Opening THEN 1 ELSE 0)
            /\ n = 0 <=> Above(s, S, e) = {}
  <2> SUFFICES ASSUME NEW e \in E, NEW c \in Nat, NEW n \in Nat,
                      c = Occur(s, e, S, Closing), n = Cardinality(Above(s, S, e))
               PROVE  /\ Occur(r, e, T, Closing) = c + (IF t \in Closing THEN 1 ELSE 0)
                      /\ Occur(r, e, T, Opening) = c + n + (IF t \in Opening THEN 1 ELSE 0)
                      /\ n = 0 <=> Above(s, S, e) = {}
    OBVIOUS
  <2>1. Occur(s, e, S, Opening) = c + n
    BY <1>4
  <2>2. e \in 1..S
    BY <1>9
  <2>3. Occur(r, e, T, Closing) = Occur(s, e, S, Closing) + (IF t \in Closing THEN 1 ELSE 0)
    BY <1>3, <2>2
  <2>4. Occur(r, e, T, Opening) = Occur(s, e, S, Opening) + (IF t \in Opening THEN 1 ELSE 0)
    BY <1>3, <2>2
  <2>5. n = 0 <=> Above(s, S, e) = {}
    BY <1>9
  <2>6. QED
    BY <2>1, <2>3, <2>4, <2>5
<1>11. \A e \in E : \E c, n \in Nat : /\ c = Occur(s, e, S, Closing)
                                      /\ n = Cardinality(Above(s, S, e))
  BY <1>9
<1> HIDE DEF E, F
<1>12. \A j \in E : j \in F <=> (t \in Closing => Above(s, S, j) # {})
  <2> SUFFICES ASSUME NEW j \in E
               PROVE  j \in F <=> (t \in Closing => Above(s, S, j) # {})
    OBVIOUS
  <2>1. j \in F <=> Occur(r, j, T, Closing) <= Occur(r, j, T, Opening)
    BY <1>5, <1>9
  <2>2. PICK c, n \in Nat : /\ c = Occur(s, j, S, Closing)
                            /\ n = Cardinality(Above(s, S, j))
    BY <1>11
  <2>3. /\ Occur(r, j, T, Closing) = c + (IF t \in Closing THEN 1 ELSE 0)
        /\ Occur(r, j, T, Opening) = c + n + (IF t \in Opening THEN 1 ELSE 0)
        /\ n = 0 <=> Above(s, S, j) = {}
    BY <1>10, <2>2
  <2>4. CASE t \in Closing
    <3>1. t \notin Opening
      BY <1>8, <2>4
    <3>2. QED
      BY <2>1, <2>3, <2>4, <3>1
  <2>5. CASE t \notin Closing
    BY <2>1, <2>3, <2>5
  <2>6. QED
    BY <2>4, <2>5
<1>13. F = IF t \in Opening THEN E \cup {T}
           ELSE IF t \in Closing THEN E \ {Inner(s, S)}
           ELSE E
  <2>1. \A j \in 1..S : j \in F => j \in E
    BY <1>5
  <2>2. CASE t \in Opening
    BY <1>2, <1>6, <1>7, <1>8, <1>12, <2>1, <2>2
  <2>3. CASE t \in Closing
    <3>1. E # {}
      BY <2>3 DEF E
    <3>2. \A j \in E : Above(s, S, j) # {} <=> j # Inner(s, S)
      BY <1>2, <3>1 DEF Above, E
    <3>3. QED
      BY <1>2, <1>6, <1>7, <1>8, <1>12, <2>1, <2>3, <3>2
  <2>4. CASE t \notin Opening /\ t \notin Closing
    <3>1. \A j : j \in F <=> j \in E
      BY <1>2, <1>6, <1>7, <1>12, <2>1, <2>4
    <3>2. F = E
      BY <3>1
    <3>3. QED
      BY <2>4, <3>2
  <2>5. QED
    BY <2>2, <2>3, <2>4
<1>14. Balanced(r)
  <2> SUFFICES ASSUME NEW e \in F
               PROVE  Occur(r, e, T, Opening) = Occur(r, e, T, Closing) + Cardinality(Above(r, T, e))
    BY <1>1 DEF Balanced, F
  <2>1. CASE e = T
    <3>1. Above(r, T, e) = {}
      BY <1>7, <2>1 DEF Above, F
    <3>2. Occur(r, e, T, Opening) = 0 /\ Occur(r, e, T, Closing) = 0
      <4>1. \A tags : Occur(r, T, T, tags) = 0
        BY OccurNone
      <4>2. QED
        BY <2>1, <4>1
    <3>3. Cardinality(Above(r, T, e)) = 0
      BY <3>1, FS_EmptySet
    <3>4. QED
      BY <3>2, <3>3
  <2>2. CASE e # T
    <3>1. e \in E /\ e \in 1..S
      BY <1>5, <1>7, <2>2
    <3>2. PICK c, n \in Nat : /\ c = Occur(s, e, S, Closing)
                              /\ n = Cardinality(Above(s, S, e))
      BY <1>11, <3>1
    <3>3. /\ Occur(r, e, T, Closing) = c + (IF t \in Closing THEN 1 ELSE 0)
          /\ Occur(r, e, T, Opening) = c + n + (IF t \in Opening THEN 1 ELSE 0)
      BY <1>10, <3>1, <3>2
    <3>4. IsFiniteSet(Above(s, S, e))
      BY <1>9, <3>1
    <3>5. CASE t \in Opening
      <4>1. Above(r, T, e) = Above(s, S, e) \cup {T} /\ T \notin Above(s, S, e)
        BY <1>0, <1>2, <1>13, <3>1, <3>5 DEF Above, E, F
      <4>2. Cardinality(Above(r, T, e)) = n + 1
        BY <3>2, <3>4, <4>1, FS_AddElement
      <4>3. t \notin Closing
        BY <1>8, <3>5
      <4>4. QED
        BY <3>2, <3>3, <3>5, <4>2, <4>3
    <3>6. CASE t \in Closing
      <4>1. E # {}
        BY <3>1
      <4>2. Above(s, S, e) # {}
        BY <1>12, <3>1, <3>6
      <4>3. Inner(s, S) \in Above(s, S, e)
        BY <1>2, <3>1, <4>1, <4>2 DEF Above, E
      <4>4. t \notin Opening
        BY <1>8, <3>6
      <4>5. Above(r, T, e) = Above(s, S, e) \ {Inner(s, S)}
        BY <1>13, <3>6, <4>4 DEF Above, E, F
      <4>6. Cardinality(Above(r, T, e)) = n - 1
        BY <3>2, <3>4, <4>3, <4>5, FS_RemoveElement
      <4>7. QED
        BY <3>2, <3>3, <3>6, <4>4, <4>6
    <3>7. CASE t \notin Opening /\ t \notin Closing
      <4>1. Above(r, T, e) = Above(s, S, e)
        BY <1>13, <3>7 DEF Above, E, F
      <4>2. QED
        BY <3>2, <3>3, <3>7, <4>1
    <3>8. QED
      BY <3>5, <3>6, <3>7
  <2>3. QED
    BY <2>1, <2>2
<1>15. QED
  BY <1>13, <1>14 DEF E, F

-----------------------------------------------------------------------------
(* The parser keeps the nesting that counting finds.                       *)

\* The tags open before token i.
EncBefore(s, i) == Enc(s, i - 1)
InnerBefore(s, i) == Inner(s, i - 1)

\* WellNested, said of any sequence of tokens.
WellPlaced(s, i) ==
    /\ s[i] \in Closing => EncBefore(s, i) # {} /\ s[InnerBefore(s, i)] \in EndedBy(s[i])
    /\ s[i] = "celse" =>
        /\ EncBefore(s, i) # {} /\ s[InnerBefore(s, i)] = "cif"
        /\ \A k \in 1..(i - 1) : s[k] = "celse" => EncBefore(s, k) # EncBefore(s, i)
WellRead(s) == \A i \in 1..Len(s) : WellPlaced(s, i)

\* One more token changes nothing of the reading so far.
LEMMA BeforeKept ==
    ASSUME NEW s, NEW r, NEW t, NEW S \in Nat, NEW T \in Nat, Reads(s, S, r, T, t)
    PROVE  /\ \A i \in 1..S : EncBefore(r, i) = EncBefore(s, i) /\ InnerBefore(r, i) = InnerBefore(s, i)
           /\ EncBefore(r, T) = Enc(s, S) /\ InnerBefore(r, T) = Inner(s, S)
           /\ EncBefore(r, T) = Enc(r, S)
<1>1. T - 1 = S /\ \A k \in 1..S : s[k] = r[k]
  BY DEF Reads
<1>2. ASSUME NEW i \in 1..S
      PROVE  EncBefore(r, i) = EncBefore(s, i) /\ InnerBefore(r, i) = InnerBefore(s, i)
  <2>1. PICK n \in Nat : n = i - 1
    OBVIOUS
  <2>2. \A k \in 1..n : s[k] = r[k]
    BY <1>1, <2>1
  <2>3. Enc(s, n) = Enc(r, n) /\ Inner(s, n) = Inner(r, n)
    BY <2>2, EncSame
  <2>4. QED
    BY <2>1, <2>3 DEF EncBefore, InnerBefore
<1>3. Enc(s, S) = Enc(r, S) /\ Inner(s, S) = Inner(r, S)
  BY <1>1, EncSame
<1>4. QED
  BY <1>1, <1>2, <1>3 DEF EncBefore, InnerBefore

\* A well-nested template was well nested before its last token, which fits.
LEMMA WellReadBefore ==
    ASSUME NEW s, NEW r, NEW t, NEW S \in Nat, NEW T \in Nat, Reads(s, S, r, T, t), WellRead(r)
    PROVE  /\ WellRead(s)
           /\ t \in Closing => Enc(s, S) # {} /\ r[Inner(s, S)] \in EndedBy(t)
           /\ t = "celse" => /\ Enc(s, S) # {} /\ r[Inner(s, S)] = "cif"
                             /\ \A k \in 1..S : s[k] = "celse" => EncBefore(s, k) # Enc(s, S)
<1>1. T = S + 1 /\ T - 1 = S /\ S = Len(s) /\ T = Len(r) /\ r[T] = t /\ \A k \in 1..S : s[k] = r[k]
  BY DEF Reads
<1>2. /\ \A i \in 1..S : EncBefore(r, i) = EncBefore(s, i) /\ InnerBefore(r, i) = InnerBefore(s, i)
      /\ EncBefore(r, T) = Enc(s, S) /\ InnerBefore(r, T) = Inner(s, S)
  BY BeforeKept
<1>3. ASSUME NEW i \in 1..S
      PROVE  WellPlaced(s, i)
  <2>1. WellPlaced(r, i)
    BY <1>1 DEF WellRead
  <2>2. \A k \in 1..(i - 1) : k \in 1..S
    OBVIOUS
  <2>3. EncBefore(s, i) # {} => InnerBefore(s, i) \in 1..S
    <3>1. PICK n \in Nat : n = i - 1
      OBVIOUS
    <3>2. Enc(s, n) \subseteq 1..n /\ (Enc(s, n) # {} => Inner(s, n) \in Enc(s, n))
      BY EncFacts
    <3>3. EncBefore(s, i) = Enc(s, n) /\ InnerBefore(s, i) = Inner(s, n)
      BY <3>1 DEF EncBefore, InnerBefore
    <3>4. QED
      BY <3>1, <3>2, <3>3
  <2>4. QED
    BY <1>1, <1>2, <2>1, <2>2, <2>3 DEF WellPlaced
<1>4. WellPlaced(r, T)
  BY <1>1 DEF WellRead
<1>5. WellRead(s)
  BY <1>1, <1>3 DEF WellRead
<1>6. QED
  BY <1>1, <1>2, <1>4, <1>5 DEF WellPlaced

\* The tags around what is put into node p.
EncIn(s, tree, p) ==
    IF p = 0 THEN {}
    ELSE EncBefore(s, tree[p].at) \cup (IF tree[p].kind \in Opening THEN {tree[p].at} ELSE {})

\* In a well-nested template the tree has just the nesting that counting finds.
Nested ==
    /\ Balanced(source)
    /\ \A i \in AllNodes : EncBefore(source, nodes[i].at) = EncIn(source, nodes, nodes[i].parent)
    /\ Enc(source, Len(source)) = EncIn(source, nodes, Current)
    /\ \A k \in 1..Len(source) : source[k] = "celse" => \E i \in AllNodes : nodes[i].at = k
NestInv == WellRead(source) => Nested

\* The innermost tag is that of the current node, or of the condition it is a branch of.
LEMMA InnerIsCurrent ==
    ASSUME TreeInv, Nested, open # <<>>, NEW c, c = Current, NEW S \in Nat, S = Len(source)
    PROVE  /\ c \in AllNodes /\ nodes[c].parent \in 0..Len(nodes)
           /\ nodes[c].kind \in Opening =>
                /\ Enc(source, S) # {} /\ Inner(source, S) = nodes[c].at
                /\ Enc(source, S) \ {nodes[c].at} = EncIn(source, nodes, nodes[c].parent)
           /\ nodes[c].kind \notin Opening =>
                /\ nodes[c].kind = "celse" /\ nodes[c].parent \in AllNodes
                /\ nodes[nodes[c].parent].kind = "cif"
                /\ nodes[nodes[c].parent].parent \in 0..Len(nodes)
                /\ EncBefore(source, nodes[c].at) = Enc(source, S)
                /\ Enc(source, S) # {} /\ Inner(source, S) = nodes[nodes[c].parent].at
                /\ Enc(source, S) \ {nodes[nodes[c].parent].at} = EncIn(source, nodes, nodes[nodes[c].parent].parent)
<1>1. /\ c \in AllNodes /\ nodes[c].kind # "text"
      /\ \A i \in AllNodes : /\ nodes[i].kind \in NodeKinds /\ nodes[i].parent \in 0..(i - 1)
                             /\ nodes[i].at \in 1..S
  BY CurrentFacts, TreeTypes DEF TreeInv, Recorded, AllNodes
<1>2. /\ \A i \in AllNodes : EncBefore(source, nodes[i].at) = EncIn(source, nodes, nodes[i].parent)
      /\ Enc(source, S) = EncIn(source, nodes, c)
  BY DEF Nested
<1>3. ASSUME NEW i \in AllNodes, nodes[i].kind \in Opening, EncIn(source, nodes, i) = Enc(source, S)
      PROVE  /\ Enc(source, S) # {} /\ Inner(source, S) = nodes[i].at
             /\ Enc(source, S) \ {nodes[i].at} = EncIn(source, nodes, nodes[i].parent)
  <2>1. Enc(source, S) = EncBefore(source, nodes[i].at) \cup {nodes[i].at}
    BY <1>3 DEF EncIn, AllNodes
  <2>2. PICK n \in Nat : n = nodes[i].at - 1
    BY <1>1
  <2>3. EncBefore(source, nodes[i].at) = Enc(source, n)
    BY <2>2 DEF EncBefore
  <2>4. Enc(source, n) \subseteq 1..n
    BY EncFacts
  <2>5. \A k \in EncBefore(source, nodes[i].at) : k < nodes[i].at /\ k \in Nat
    BY <1>1, <2>2, <2>3, <2>4
  <2>6. Inner(source, S) \in Enc(source, S) /\ \A k \in Enc(source, S) : k <= Inner(source, S)
    BY <2>1, EncFacts
  <2>7. Inner(source, S) = nodes[i].at
    BY <1>1, <2>1, <2>5, <2>6
  <2>8. QED
    BY <1>1, <1>2, <2>1, <2>5, <2>7
<1>4. CASE nodes[c].kind \in Opening
  BY <1>1, <1>2, <1>3, <1>4 DEF AllNodes
<1>5. CASE nodes[c].kind \notin Opening
  <2>1. nodes[c].kind = "celse"
    BY <1>1, <1>5 DEF NodeKinds
  <2> DEFINE p == nodes[c].parent
  <2>2. p \in AllNodes /\ nodes[p].kind = "cif"
    BY <1>1, <2>1 DEF TreeInv, Tree, Links, AllNodes
  <2>3. EncIn(source, nodes, c) = EncBefore(source, nodes[c].at) /\ EncIn(source, nodes, c) = EncIn(source, nodes, p)
    <3>1. c # 0 /\ p = nodes[c].parent
      BY <1>1 DEF AllNodes
    <3>2. EncIn(source, nodes, c) = EncBefore(source, nodes[c].at) \cup {}
      BY <1>5, <3>1 DEF EncIn
    <3> HIDE DEF p
    <3>3. QED
      BY <1>1, <1>2, <3>1, <3>2
  <2>4. nodes[p].kind \in Opening
    BY <2>2 DEF Opening
  <2> HIDE DEF p
  <2>5. /\ Enc(source, S) # {} /\ Inner(source, S) = nodes[p].at
        /\ Enc(source, S) \ {nodes[p].at} = EncIn(source, nodes, nodes[p].parent)
    BY <1>2, <1>3, <2>2, <2>3, <2>4
  <2>6. nodes[p].parent \in 0..Len(nodes) /\ p \in 0..Len(nodes)
    BY <1>1, <2>2 DEF AllNodes
  <2>7. QED
    BY <1>1, <1>2, <1>5, <2>1, <2>2, <2>3, <2>5, <2>6 DEF p
<1>6. QED
  BY <1>4, <1>5

\* Nothing of what is there changes with one more token.
LEMMA EncInKept ==
    ASSUME TreeInv, NEW t, Advance(t), \A i \in AllNodes : nodes'[i] = nodes[i],
           NEW S \in Nat, S = Len(source), NEW T \in Nat, T = S + 1
    PROVE  /\ Reads(source, S, source', T, t)
           /\ \A p \in 0..Len(nodes) : EncIn(source', nodes', p) = EncIn(source, nodes, p)
<1>1. source' = Append(source, t) /\ source \in Seq(NodeKinds \cup Closing)
  BY DEF Advance, TreeInv, Recorded
<1>2. Reads(source, S, source', T, t)
  <2>1. Len(source') = S + 1 /\ source'[S + 1] = t /\ \A k \in 1..S : source[k] = source'[k]
    BY <1>1
  <2>2. QED
    BY <2>1 DEF Reads
<1>3. \A i \in 1..S : EncBefore(source', i) = EncBefore(source, i)
  BY <1>2, BeforeKept
<1>4. ASSUME NEW p \in 0..Len(nodes)
      PROVE  EncIn(source', nodes', p) = EncIn(source, nodes, p)
  <2>1. CASE p = 0
    BY <2>1 DEF EncIn
  <2>2. CASE p \in AllNodes
    <3>1. nodes[p].at \in 1..S /\ nodes'[p] = nodes[p] /\ p # 0
      BY <2>2 DEF TreeInv, Recorded, AllNodes
    <3>2. EncBefore(source', nodes[p].at) = EncBefore(source, nodes[p].at)
      BY <1>3, <3>1
    <3>3. EncIn(source', nodes', p) = EncBefore(source', nodes'[p].at)
                      \cup (IF nodes'[p].kind \in Opening THEN {nodes'[p].at} ELSE {})
      BY <3>1 DEF EncIn
    <3>4. QED
      BY <3>1, <3>2, <3>3 DEF EncIn
  <2>3. QED
    BY <2>1, <2>2, TreeTypes DEF TreeInv, AllNodes
<1>5. QED
  BY <1>2, <1>4

\* A token that gets a node.
LEMMA NodeNested ==
    ASSUME TreeInv, Nested, NEW kind \in NodeKinds, AddNode(kind), Advance(kind),
           kind = "celse" => Current # 0 /\ nodes[Current].kind = "cif",
           IF kind = "text" THEN open' = open ELSE open' = Append(open, Len(nodes) + 1)
    PROVE  Nested'
<1>1. PICK N \in Nat, S \in Nat, T \in Nat : N = Len(nodes) /\ S = Len(source) /\ T = S + 1
  BY CurrentFacts
<1>2. /\ Len(nodes') = N + 1 /\ \A i \in AllNodes : nodes'[i] = nodes[i]
      /\ nodes'[N + 1] = [kind |-> kind, parent |-> Current, at |-> T]
  BY <1>1, AddNodeTree
<1>3. Reads(source, S, source', T, kind) /\ \A p \in 0..N : EncIn(source', nodes', p) = EncIn(source, nodes, p)
  BY <1>1, <1>2, EncInKept
<1>4. AllNodes' = AllNodes \cup {N + 1} /\ N + 1 \in AllNodes' /\ AllNodes = 1..N
  BY <1>1, <1>2 DEF AllNodes
<1>5. nodes'[N + 1].at = T /\ nodes'[N + 1].kind = kind /\ nodes'[N + 1].parent = Current
  BY <1>2
<1>6. /\ \A i \in 1..S : EncBefore(source', i) = EncBefore(source, i)
      /\ EncBefore(source', T) = Enc(source, S)
  <2>1. Reads(source, S, source', T, kind)
    BY <1>3
  <2>2. QED
    BY <2>1, BeforeKept
<1>7. kind \notin Closing /\ source \in Seq(Tokens)
  BY DEF NodeKinds, Closing, Opening, Styles, Tokens, TreeInv, Recorded
<1>8. /\ Balanced(source)
      /\ \A i \in AllNodes : EncBefore(source, nodes[i].at) = EncIn(source, nodes, nodes[i].parent)
      /\ Enc(source, S) = EncIn(source, nodes, Current)
      /\ \A k \in 1..S : source[k] = "celse" => \E i \in AllNodes : nodes[i].at = k
  BY <1>1 DEF Nested
<1>9. /\ Enc(source', T) = IF kind \in Opening THEN Enc(source, S) \cup {T} ELSE Enc(source, S)
      /\ Balanced(source')
  BY <1>3, <1>7, <1>8, ReadToken
<1>10. /\ Len(source') = T /\ source'[T] = kind /\ \A k \in 1..S : source'[k] = source[k]
       /\ \A k \in 1..T : k \in 1..S \/ k = T
  BY <1>1, <1>3 DEF Reads
<1>11. Current \in 0..N /\ \A i \in AllNodes : nodes[i].at \in 1..S /\ nodes[i].parent \in 0..N
  <2>1. Current \in 0..N
    BY <1>1, CurrentFacts
  <2>2. \A i \in AllNodes : nodes[i].at \in 1..S
    BY <1>1 DEF TreeInv, Recorded
  <2>3. Tree /\ \A i \in AllNodes : i \in 1..N
    BY <1>4 DEF TreeInv
  <2>4. \A i \in AllNodes : nodes[i].parent \in 0..(i - 1)
    BY <2>3, TreeTypes
  <2>5. QED
    BY <1>1, <2>1, <2>2, <2>3, <2>4
<1>12. ASSUME NEW i \in AllNodes'
       PROVE  EncBefore(source', nodes'[i].at) = EncIn(source', nodes', nodes'[i].parent)
  <2>1. CASE i \in AllNodes
    <3>1. nodes'[i] = nodes[i] /\ EncBefore(source', nodes[i].at) = EncIn(source, nodes, nodes[i].parent)
      BY <1>2, <1>6, <1>8, <1>11, <2>1
    <3>2. QED
      BY <1>3, <1>11, <2>1, <3>1
  <2>2. CASE i = N + 1
    <3>1. EncBefore(source', T) = EncIn(source, nodes, Current)
      BY <1>6, <1>8
    <3>2. EncIn(source', nodes', Current) = EncIn(source, nodes, Current)
      BY <1>3, <1>11
    <3>3. QED
      BY <1>5, <2>2, <3>1, <3>2
  <2>3. QED
    BY <1>4, <2>1, <2>2
<1>13. Enc(source', T) = EncIn(source', nodes', Current')
  <2>1. CASE kind = "text"
    <3>1. Current' = Current
      BY <2>1 DEF Current
    <3>2. EncIn(source', nodes', Current) = EncIn(source, nodes, Current)
      BY <1>3, <1>11
    <3>3. kind \notin Opening
      BY <2>1 DEF Opening, Styles
    <3>4. QED
      BY <1>8, <1>9, <3>1, <3>2, <3>3
  <2>2. CASE kind # "text"
    <3>1. Current' = N + 1
      <4>1. open' = Append(open, N + 1) /\ open \in Seq(AllNodes)
        BY <1>1, <2>2 DEF TreeInv, OpenPath
      <4>2. open' # <<>> /\ Last(open') = N + 1
        BY <4>1 DEF Last
      <4>3. QED
        BY <4>2 DEF Current
    <3>2. N + 1 # 0
      BY <1>1
    <3>3. EncIn(source', nodes', N + 1)
          = EncBefore(source', T) \cup (IF kind \in Opening THEN {T} ELSE {})
      BY <1>5, <3>2 DEF EncIn
    <3>4. CASE kind \in Opening
      BY <1>6, <1>9, <3>1, <3>3, <3>4
    <3>5. CASE kind \notin Opening
      BY <1>6, <1>9, <3>1, <3>3, <3>5
    <3>6. QED
      BY <3>4, <3>5
  <2>3. QED
    BY <2>1, <2>2
<1>14. \A k \in 1..T : source'[k] = "celse" => \E i \in AllNodes' : nodes'[i].at = k
  <2> SUFFICES ASSUME NEW k \in 1..T, source'[k] = "celse"
               PROVE  \E i \in AllNodes' : nodes'[i].at = k
    OBVIOUS
  <2>1. CASE k \in 1..S
    <3>1. PICK i \in AllNodes : nodes[i].at = k
      BY <1>8, <1>10, <2>1
    <3>2. QED
      BY <1>2, <1>4, <3>1
  <2>2. CASE k = T
    BY <1>4, <1>5, <2>2
  <2>3. QED
    BY <1>10, <2>1, <2>2
<1>15. QED
  BY <1>9, <1>10, <1>12, <1>13, <1>14 DEF Nested

\* A token that gets none, and leaves q current.
LEMMA TokenNested ==
    ASSUME TreeInv, Nested, NEW t \in Closing, Advance(t), nodes' = nodes,
           NEW S \in Nat, S = Len(source), Enc(source, S) # {},
           NEW q \in 0..Len(nodes), Current' = q,
           Enc(source, S) \ {Inner(source, S)} = EncIn(source, nodes, q)
    PROVE  Nested'
<1>1. PICK T \in Nat : T = S + 1
  OBVIOUS
<1>2. Reads(source, S, source', T, t)
      /\ \A p \in 0..Len(nodes) : EncIn(source', nodes, p) = EncIn(source, nodes, p)
  BY <1>1, EncInKept
<1>3. /\ \A i \in 1..S : EncBefore(source', i) = EncBefore(source, i)
  BY <1>2, BeforeKept
<1>4. t \notin Opening /\ source \in Seq(Tokens)
  BY DEF Closing, Opening, Styles, Tokens, TreeInv, Recorded
<1>5. /\ Balanced(source)
      /\ \A i \in AllNodes : EncBefore(source, nodes[i].at) = EncIn(source, nodes, nodes[i].parent)
      /\ \A k \in 1..S : source[k] = "celse" => \E i \in AllNodes : nodes[i].at = k
  BY DEF Nested
<1>6. Enc(source', T) = Enc(source, S) \ {Inner(source, S)} /\ Balanced(source')
  BY <1>2, <1>4, <1>5, ReadToken
<1>7. /\ Len(source') = T /\ source'[T] = t /\ \A k \in 1..S : source'[k] = source[k]
      /\ \A k \in 1..T : k \in 1..S \/ k = T
  BY <1>1, <1>2 DEF Reads
<1>8. AllNodes' = AllNodes /\ \A i \in AllNodes : nodes[i].at \in 1..S /\ nodes[i].parent \in 0..Len(nodes)
  BY TreeTypes DEF TreeInv, Recorded, AllNodes
<1>9. \A i \in AllNodes : EncBefore(source', nodes[i].at) = EncIn(source', nodes, nodes[i].parent)
  BY <1>2, <1>3, <1>5, <1>8
<1>10. Enc(source', T) = EncIn(source', nodes, q)
  BY <1>2, <1>6
<1>11. t # "celse"
  BY DEF Closing
<1>12. \A k \in 1..T : source'[k] = "celse" => \E i \in AllNodes : nodes[i].at = k
  BY <1>5, <1>7, <1>11
<1>13. QED
  BY <1>6, <1>7, <1>8, <1>9, <1>10, <1>12 DEF Nested

\* Reading content keeps the nesting.
LEMMA TextNestInv ==
    ASSUME TreeInv, Nested, ParseText
    PROVE  Nested'
  BY NodeNested DEF ParseText, NodeKinds

\* So does reading an opening tag, which is then the innermost.
LEMMA OpeningNestInv ==
    ASSUME TreeInv, Nested, NEW tag \in Opening, ParseOpening(tag)
    PROVE  Nested'
<1>1. Advance(tag) /\ AddNode(tag) /\ open' = Append(open, Len(nodes) + 1)
  BY DEF ParseOpening
<1>2. tag \in NodeKinds /\ tag # "text" /\ tag # "celse"
  BY DEF NodeKinds, Opening, Styles
<1>3. QED
  BY <1>1, <1>2, NodeNested

\* So does reading <celse> where it belongs.
LEMMA ElseNestInv ==
    ASSUME TreeInv, Nested, ParseElse
    PROVE  Nested'
<1>1. Advance("celse") /\ AddNode("celse") /\ open' = Append(open, Len(nodes) + 1)
      /\ Within({"cif"})
  BY DEF ParseElse
<1>2. "celse" \in NodeKinds /\ "celse" # "text"
  BY DEF NodeKinds
<1>3. Current # 0 /\ nodes[Current].kind = "cif"
  BY <1>1, CurrentFacts DEF Within, Current, AllNodes
<1>4. QED
  BY <1>1, <1>2, <1>3, NodeNested

\* So does a closing tag: the innermost tag that counting finds is that of the node the
\* parser returns from, whichever way it was opened.
LEMMA ClosingNestInv ==
    ASSUME TreeInv, Nested, NEW tag \in Closing, ParseClosing(tag)
    PROVE  Nested'
<1>1. /\ open # <<>> /\ Advance(tag) /\ open' = Returned(tag) /\ nodes' = nodes
      /\ nodes[Last(open)].kind \in EndedBy(tag)
  BY DEF ParseClosing, Within
<1>2. PICK c : c = Current
  OBVIOUS
<1>3. PICK M \in Nat, S \in Nat : M = Len(open) /\ S = Len(source)
  BY CurrentFacts
<1>4. c = open[M] /\ c = Last(open) /\ M >= 1
  BY <1>1, <1>2, <1>3, CurrentFacts DEF Last
<1>5. /\ \A k \in 1..M : /\ open[k] \in AllNodes
                         /\ nodes[open[k]].parent = IF k = 1 THEN 0 ELSE open[k - 1]
  BY <1>3 DEF TreeInv, OpenPath
<1> DEFINE m == IF nodes[c].kind = "celse" THEN M - 2 ELSE M - 1
<1>6. /\ m \in 0..(M - 1) /\ Returned(tag) = [k \in 1..m |-> open[k]]
      /\ Returned(tag) \in Seq(AllNodes) /\ Len(Returned(tag)) = m
  BY <1>1, <1>3, <1>4, ReturnedFacts
<1>7. Current' = IF m = 0 THEN 0 ELSE open[m]
  <2>1. open' = <<>> <=> m = 0
    BY <1>1, <1>6
  <2>2. m # 0 => Last(open') = open[m]
    BY <1>1, <1>6 DEF Last
  <2>3. QED
    BY <2>1, <2>2 DEF Current
<1>8. c \in AllNodes /\ nodes[c].parent \in 0..Len(nodes)
  BY <1>1, <1>2, <1>3, InnerIsCurrent
<1>9. CASE nodes[c].kind \in Opening
  <2>1. nodes[c].kind # "celse"
    BY <1>9 DEF Opening, Styles
  <2>2. Current' = nodes[c].parent
    <3>1. nodes[c].parent = IF M = 1 THEN 0 ELSE open[M - 1]
      <4>1. M \in 1..M
        BY <1>4
      <4>2. QED
        BY <1>4, <1>5, <4>1
    <3>2. m = M - 1
      BY <2>1
    <3> HIDE DEF m
    <3>3. QED
      BY <1>4, <1>7, <3>1, <3>2
  <2>3. /\ Enc(source, S) # {} /\ Inner(source, S) = nodes[c].at
        /\ Enc(source, S) \ {nodes[c].at} = EncIn(source, nodes, nodes[c].parent)
    BY <1>1, <1>2, <1>3, <1>9, InnerIsCurrent
  <2>4. QED
    BY <1>1, <1>3, <1>8, <2>2, <2>3, TokenNested
<1>10. CASE nodes[c].kind \notin Opening
  <2> DEFINE p == nodes[c].parent
  <2>1. /\ nodes[c].kind = "celse" /\ p \in AllNodes
        /\ nodes[p].parent \in 0..Len(nodes)
        /\ Enc(source, S) # {} /\ Inner(source, S) = nodes[p].at
        /\ Enc(source, S) \ {nodes[p].at} = EncIn(source, nodes, nodes[p].parent)
    BY <1>1, <1>2, <1>3, <1>10, InnerIsCurrent
  <2>2. M # 1 /\ p = open[M - 1]
    <3>1. p # 0 /\ M \in 1..M
      BY <1>3, <1>4, <2>1 DEF AllNodes
    <3>2. QED
      BY <1>4, <1>5, <3>1
  <2>3. nodes[p].parent = IF M - 1 = 1 THEN 0 ELSE open[M - 2]
    <3>1. M - 1 \in 1..M /\ M - 1 - 1 = M - 2
      BY <1>3, <1>4, <2>2
    <3> HIDE DEF p
    <3>2. QED
      BY <1>5, <2>2, <3>1
  <2>4. Current' = nodes[p].parent
    <3>1. m = M - 2
      BY <2>1
    <3> HIDE DEF m, p
    <3>2. QED
      BY <1>3, <1>7, <2>3, <3>1
  <2> HIDE DEF p
  <2>5. QED
    BY <1>1, <1>3, <2>1, <2>4, TokenNested
<1>11. QED
  BY <1>9, <1>10

\* No tag of a well-nested template is skipped.
LEMMA NothingSkipped ==
    ASSUME TreeInv, Nested, WellRead(source'), NEW tag \in Closing \cup {"celse"}, SkipToken(tag)
    PROVE  FALSE
<1>1. /\ Advance(tag) /\ nodes' = nodes
      /\ ~Within(IF tag = "celse" THEN {"cif"} ELSE EndedBy(tag))
  BY DEF SkipToken
<1>2. PICK c : c = Current
  OBVIOUS
<1>3. PICK S \in Nat, T \in Nat : S = Len(source) /\ T = S + 1
  BY CurrentFacts
<1>4. Reads(source, S, source', T, tag)
  BY <1>1, <1>3, EncInKept
<1>5. /\ tag \in Closing => Enc(source, S) # {} /\ source'[Inner(source, S)] \in EndedBy(tag)
      /\ tag = "celse" => /\ Enc(source, S) # {} /\ source'[Inner(source, S)] = "cif"
                          /\ \A k \in 1..S : source[k] = "celse" => EncBefore(source, k) # Enc(source, S)
  BY <1>4, WellReadBefore
<1>6. Enc(source, S) # {}
  BY <1>5
<1>7. open # <<>>
  <2>1. Enc(source, S) = EncIn(source, nodes, Current)
    BY <1>3 DEF Nested
  <2>2. open = <<>> => Current = 0
    BY DEF Current
  <2>3. QED
    BY <1>6, <2>1, <2>2 DEF EncIn
<1>8. c = Last(open)
  BY <1>2, <1>7 DEF Current
<1>9. /\ c \in AllNodes
      /\ \A i \in AllNodes : nodes[i].at \in 1..S /\ source'[nodes[i].at] = nodes[i].kind
                             /\ source[nodes[i].at] = nodes[i].kind
  <2>1. c \in AllNodes
    BY <1>2, <1>3, <1>7, InnerIsCurrent
  <2>2. \A i \in AllNodes : nodes[i].at \in 1..S /\ source[nodes[i].at] = nodes[i].kind
    BY <1>3 DEF TreeInv, Recorded
  <2>3. QED
    BY <1>4, <2>1, <2>2 DEF Reads
<1>10. CASE nodes[c].kind \in Opening
  <2>1. Inner(source, S) = nodes[c].at
    BY <1>2, <1>3, <1>7, <1>10, InnerIsCurrent
  <2>2. QED
    BY <1>1, <1>5, <1>7, <1>8, <1>9, <2>1 DEF Within
<1>11. CASE nodes[c].kind \notin Opening
  <2>1. /\ nodes[c].kind = "celse" /\ nodes[c].parent \in AllNodes
        /\ nodes[nodes[c].parent].kind = "cif"
        /\ EncBefore(source, nodes[c].at) = Enc(source, S)
        /\ Inner(source, S) = nodes[nodes[c].parent].at
    BY <1>2, <1>3, <1>7, <1>11, InnerIsCurrent
  <2>2. CASE tag = "celse"
    BY <1>5, <1>9, <2>1, <2>2
  <2>3. CASE tag \in Closing
    <3>1. "cif" \in EndedBy(tag)
      BY <1>5, <1>9, <2>1, <2>3
    <3>2. "celse" \in EndedBy(tag)
      BY <2>3, <3>1 DEF Closing, EndedBy, Styles
    <3>3. tag # "celse"
      BY <2>3 DEF Closing
    <3>4. QED
      BY <1>1, <1>7, <1>8, <2>1, <3>2, <3>3 DEF Within
  <2>4. QED
    BY <2>2, <2>3
<1>12. QED
  BY <1>10, <1>11

\* As long as the template is well nested, the tree has the nesting of the template.
THEOREM NestInvariant == ParserSpec => []NestInv
<1>1. ParserInit => NestInv
  <2> SUFFICES ASSUME ParserInit
               PROVE  Nested
    BY DEF NestInv
  <2>1. source = <<>> /\ Len(source) = 0 /\ AllNodes = {} /\ Current = 0
    BY DEF ParserInit, AllNodes, Current
  <2>2. Enc(source, 0) = {}
    BY DEF Enc
  <2>3. QED
    BY <2>1, <2>2 DEF Nested, Balanced, EncIn
<1>2. TreeInv /\ NestInv /\ [ParserNext]_parserVars => NestInv'
  <2> SUFFICES ASSUME TreeInv, NestInv, [ParserNext]_parserVars, WellRead(source')
               PROVE  Nested'
    BY DEF NestInv
  <2>1. CASE ParserNext
    <3>1. PICK t : Advance(t) /\ \A i \in AllNodes : nodes'[i] = nodes[i]
      <4>1. \A kind : AddNode(kind) => \A i \in AllNodes : nodes'[i] = nodes[i]
        BY DEF AddNode, TreeInv, Tree, AllNodes
      <4>2. QED
        BY <2>1, <4>1 DEF ParserNext, ParseText, ParseOpening, ParseElse, ParseClosing, SkipToken
    <3>2. PICK S \in Nat, T \in Nat : S = Len(source) /\ T = S + 1
      BY CurrentFacts
    <3>3. Reads(source, S, source', T, t)
      BY <3>1, <3>2, EncInKept
    <3>4. Nested
      BY <3>3, WellReadBefore DEF NestInv
    <3>5. QED
      BY <2>1, <3>4, TextNestInv, OpeningNestInv, ElseNestInv, ClosingNestInv, NothingSkipped
      DEF ParserNext
  <2>2. CASE UNCHANGED parserVars
    <3>1. source' = source /\ nodes' = nodes /\ open' = open
      BY <2>2 DEF parserVars
    <3>2. QED
      BY <3>1 DEF NestInv, Nested, AllNodes, Current
  <2>3. QED
    BY <2>1, <2>2
<1>3. QED
  BY <1>1, <1>2, TreeInvariant, PTL DEF ParserSpec

-----------------------------------------------------------------------------
(* The tree says what encloses a node.                                     *)

\* The nodes above i whose tags are open there, and the positions of a set of nodes.
Tags(i) == {a \in Path(0, i) : a # i /\ Kind(a) \in Opening}
AtOf(A) == {nodes[a].at : a \in A}

\* Every node is below the root, at the end of its path.
LEMMA PathFacts ==
    ASSUME Tree, NEW d \in 0..Len(nodes)
    PROVE  /\ Path(0, d) \subseteq 0..d
           /\ d \in Path(0, d) /\ 0 \in Path(0, d)
           /\ \A a \in Path(0, d) : d \in Sub(a) /\ Path(0, a) \subseteq Path(0, d)
<1> USE TreeTypes DEF AllNodes
<1>1. Len(nodes) \in Nat /\ \A k \in 1..Len(nodes) : nodes[k].parent \in Nat
  OBVIOUS
<1>2. Path(0, d) \subseteq 0..d /\ d \in Path(0, d)
  BY DEF Path, Sub
<1>3. 0 \in Path(0, d)
  <2>1. \A k \in 1..d : nodes[k].parent >= 0
    BY <1>1
  <2>2. QED
    BY <2>1 DEF Path, Sub
<1>4. ASSUME NEW a \in Path(0, d)
      PROVE  d \in Sub(a) /\ Path(0, a) \subseteq Path(0, d)
  <2>1. d \in Sub(a) /\ a \in 0..d
    BY DEF Path
  <2> SUFFICES ASSUME NEW b \in Path(0, a)
               PROVE  b \in Path(0, d)
    BY <2>1
  <2>2. a \in Sub(b) /\ b \in 0..a
    BY DEF Path
  <2>3. \A k \in (a + 1)..d : nodes[k].parent >= a
    BY <2>1 DEF Sub
  <2>4. \A k \in (b + 1)..a : nodes[k].parent >= b
    BY <2>2 DEF Sub
  <2>5. \A k \in (b + 1)..d : nodes[k].parent >= b
    <3> SUFFICES ASSUME NEW k \in (b + 1)..d
                 PROVE  nodes[k].parent >= b
      OBVIOUS
    <3>1. nodes[k].parent \in Nat
      BY <1>1, <2>2
    <3>2. CASE k <= a
      BY <2>2, <2>4, <3>2
    <3>3. CASE k > a
      BY <2>1, <2>2, <2>3, <3>1, <3>3
    <3>4. QED
      BY <2>1, <2>2, <3>2, <3>3
  <2>6. QED
    BY <2>1, <2>2, <2>5 DEF Path, Sub
<1>5. QED
  BY <1>2, <1>3, <1>4

\* The path to a node is the path to its parent, and the node.
LEMMA PathUp ==
    ASSUME Tree, NEW i \in AllNodes, NEW p, p = nodes[i].parent
    PROVE  Path(0, i) = {i} \cup Path(0, p)
<1> USE TreeTypes DEF AllNodes
<1>1. p \in 0..(i - 1) /\ i \in 1..Len(nodes) /\ Len(nodes) \in Nat
      /\ \A k \in 1..Len(nodes) : nodes[k].parent \in Nat
  OBVIOUS
<1>2. i \in Path(0, i) /\ Path(0, i) \subseteq 0..i
  BY <1>1, PathFacts
<1>3. ASSUME NEW a \in Path(0, i), a # i
      PROVE  a \in Path(0, p)
  <2>1. a \in 0..i /\ \A k \in (a + 1)..i : nodes[k].parent >= a
    BY DEF Path, Sub
  <2>2. i \in (a + 1)..i
    BY <1>1, <1>3, <2>1
  <2>3. p >= a
    BY <2>1, <2>2
  <2>4. \A k \in (a + 1)..p : k \in (a + 1)..i
    BY <1>1, <2>1
  <2>5. QED
    BY <1>1, <2>1, <2>3, <2>4 DEF Path, Sub
<1>4. ASSUME NEW a \in Path(0, p)
      PROVE  a \in Path(0, i)
  <2>1. a \in 0..p /\ \A k \in (a + 1)..p : nodes[k].parent >= a
    BY DEF Path, Sub
  <2>2. ASSUME NEW k \in (p + 1)..(i - 1), nodes[k].parent < a
        PROVE  FALSE
    <3>1. p \in 1..Len(nodes) /\ k \in 1..Len(nodes) /\ p < k /\ k < i /\ nodes[k].parent < p
      BY <1>1, <2>1, <2>2
    <3>2. p < p \/ p >= k
      BY <1>1, <3>1 DEF Tree, Preorder
    <3>3. QED
      BY <1>1, <3>1, <3>2
  <2>3. \A k \in (a + 1)..i : nodes[k].parent >= a
    <3> SUFFICES ASSUME NEW k \in (a + 1)..i
                 PROVE  nodes[k].parent >= a
      OBVIOUS
    <3>1. k \in (a + 1)..p \/ k \in (p + 1)..(i - 1) \/ k = i
      BY <1>1, <2>1
    <3>2. nodes[k].parent \in Nat
      BY <1>1, <2>1
    <3>3. QED
      BY <1>1, <2>1, <2>2, <3>1, <3>2
  <2>4. QED
    BY <1>1, <2>1, <2>3 DEF Path, Sub
<1>5. QED
  BY <1>2, <1>3, <1>4

\* What comes after a second branch in its condition is inside of the branch.
LEMMA InSecondBranch ==
    ASSUME Tree, NEW e \in AllNodes, nodes[e].kind = "celse", NEW a, a = nodes[e].parent,
           NEW d \in Sub(a), e <= d
    PROVE  e \in Path(0, d)
<1> USE TreeTypes DEF AllNodes
<1>1. a \in 1..(e - 1) /\ nodes[a].kind = "cif" /\ e \in 1..Len(nodes) /\ Len(nodes) \in Nat
      /\ d \in a..Len(nodes)
      /\ \A k \in 1..Len(nodes) : nodes[k].parent \in 0..(k - 1)
  BY DEF Tree, Links, Sub
<1>2. ASSUME NEW m \in (e + 1)..d, nodes[m].parent < e
      PROVE  FALSE
  <2>1. PICK q : q = nodes[m].parent
    OBVIOUS
  <2>2. m \in 1..Len(nodes) /\ e < m /\ q \in Nat /\ q < e
    BY <1>1, <1>2, <2>1
  <2>3. q >= a
    BY <1>1, <2>1, <2>2 DEF Sub
  <2>4. q # a
    BY <1>1, <2>1, <2>2 DEF Tree, Links
  <2>5. q \in 1..Len(nodes) /\ a < q
    BY <1>1, <2>2, <2>3, <2>4
  <2>6. q < q \/ q >= e
    BY <1>1, <2>1, <2>2, <2>5 DEF Tree, Preorder
  <2>7. QED
    BY <1>1, <2>2, <2>6
<1>3. \A m \in (e + 1)..d : nodes[m].parent >= e
  <2>1. \A m \in (e + 1)..d : nodes[m].parent \in Nat
    BY <1>1
  <2>2. QED
    BY <1>1, <1>2, <2>1
<1>4. QED
  BY <1>1, <1>3 DEF Path, Sub

\* The tags that enclose a node are those on the path to it.
LEMMA TagsEnclose ==
    ASSUME TreeInv, Nested
    PROVE  \A i \in AllNodes : EncBefore(source, nodes[i].at) = AtOf(Tags(i))
<1>1. Tree
  BY DEF TreeInv
<1> USE <1>1, TreeTypes
<1> DEFINE N == Len(nodes)
           Right(i) == i # 0 => EncBefore(source, nodes[i].at) = AtOf(Tags(i))
           S == {n \in 0..N : \A i \in 0..n : Right(i)}
<1>2. N \in Nat /\ AllNodes = 1..N
  BY DEF AllNodes
<1>3. ASSUME NEW k \in 0..(N - 1), \A i \in 0..k : Right(i)
      PROVE  Right(k + 1)
  <2>1. PICK i \in AllNodes, p \in 0..N : i = k + 1 /\ p = nodes[i].parent /\ p \in 0..k
    BY <1>2
  <2>2. EncBefore(source, nodes[i].at) = EncIn(source, nodes, p)
    BY <2>1 DEF Nested
  <2>3. Path(0, i) = {i} \cup Path(0, p) /\ p \in Path(0, p) /\ i \notin Path(0, p)
    <3>1. Path(0, p) \subseteq 0..p /\ p \in Path(0, p)
      BY <2>1, PathFacts
    <3>2. QED
      BY <2>1, <3>1, PathUp
  <2>4. Tags(i) = {a \in Path(0, p) : Kind(a) \in Opening}
    BY <2>3 DEF Tags
  <2>5. CASE p = 0
    <3>1. Path(0, p) = {0}
      BY <1>2, <2>1, <2>5, PathFacts
    <3>2. Tags(i) = {}
      BY <2>4, <3>1 DEF Kind, Opening, Styles
    <3>3. QED
      BY <2>1, <2>2, <2>5, <3>2 DEF EncIn, AtOf
  <2>6. CASE p # 0
    <3>1. EncBefore(source, nodes[p].at) = AtOf(Tags(p))
      BY <1>3, <2>1, <2>6
    <3>2. Kind(p) = nodes[p].kind
      BY <2>6 DEF Kind
    <3>3. Tags(i) = Tags(p) \cup (IF nodes[p].kind \in Opening THEN {p} ELSE {})
      BY <2>3, <2>4, <3>2 DEF Tags
    <3>4. AtOf(Tags(i)) = AtOf(Tags(p)) \cup (IF nodes[p].kind \in Opening THEN {nodes[p].at} ELSE {})
      <4>1. CASE nodes[p].kind \in Opening
        BY <3>3, <4>1 DEF AtOf
      <4>2. CASE nodes[p].kind \notin Opening
        BY <3>3, <4>2 DEF AtOf
      <4>3. QED
        BY <4>1, <4>2
    <3>5. QED
      BY <2>1, <2>2, <2>6, <3>1, <3>4 DEF EncIn
  <2>7. QED
    BY <2>5, <2>6
<1>4. 0 \in S
  BY <1>2
<1>5. \A k \in 0..(N - 1) : k \in S => k + 1 \in S
  <2> SUFFICES ASSUME NEW k \in 0..(N - 1), k \in S
               PROVE  k + 1 \in S
    OBVIOUS
  <2>1. \A i \in 0..k : Right(i)
    OBVIOUS
  <2>2. Right(k + 1)
    BY <1>3, <2>1
  <2>3. \A i \in 0..(k + 1) : i \in 0..k \/ i = k + 1
    OBVIOUS
  <2> HIDE DEF Right
  <2>4. QED
    BY <1>2, <2>1, <2>2, <2>3
<1>6. N \in S
  <2> HIDE DEF S, Right
  <2>1. 0..N \subseteq S
    BY <1>2, <1>4, <1>5, UpToInduction
  <2>2. QED
    BY <1>2, <2>1
<1>7. QED
  BY <1>2, <1>6

-----------------------------------------------------------------------------
(* What encloses a text, by counting and by the tree.                      *)

\* The reading of the source in TemplateParser is that of any sequence of tokens.
LEMMA SameReading ==
    ASSUME NEW i
    PROVE  Enclosing(i) = EncBefore(source, i)
BY DEF Enclosing, EncBefore, Enc, StillOpen, Count, Occur

\* And so is what it calls well nested.
LEMMA WellNestedReads ==
    ASSUME TreeInv, WellNested
    PROVE  WellRead(source)
<1>1. DOMAIN source = 1..Len(source)
  BY DEF TreeInv, Recorded
<1>2. \A i : Innermost(i) = InnerBefore(source, i)
  <2> SUFFICES ASSUME NEW i
               PROVE  Innermost(i) = InnerBefore(source, i)
    OBVIOUS
  <2>1. Enclosing(i) = Enc(source, i - 1)
    BY SameReading DEF EncBefore
  <2>2. QED
    BY <2>1 DEF Innermost, InnerBefore, Inner
<1>3. \A i : Enclosing(i) = EncBefore(source, i)
  BY SameReading
<1>4. QED
  BY <1>1, <1>2, <1>3 DEF WellNested, WellRead, WellPlaced

\* Positions are in the order of the nodes.
LEMMA Positions ==
    ASSUME TreeInv
    PROVE  /\ \A a, b \in AllNodes : a < b <=> nodes[a].at < nodes[b].at
           /\ \A a, b \in AllNodes : nodes[a].at = nodes[b].at => a = b
           /\ \A a \in AllNodes : /\ a \in Nat /\ nodes[a].at \in Nat \ {0}
                                  /\ nodes[a].at \in 1..Len(source)
                                  /\ source[nodes[a].at] = nodes[a].kind /\ Kind(a) = nodes[a].kind
           /\ Len(source) \in Nat /\ Len(nodes) \in Nat
<1>1. \A a, b \in AllNodes : a < b => nodes[a].at < nodes[b].at
  BY DEF TreeInv, Tree
<1>2. Len(source) \in Nat /\ Len(nodes) \in Nat
  BY CurrentFacts
<1>3. \A a \in AllNodes : /\ a \in Nat /\ a # 0 /\ nodes[a].at \in Nat \ {0}
                          /\ nodes[a].at \in 1..Len(source)
                          /\ source[nodes[a].at] = nodes[a].kind
  BY <1>2 DEF TreeInv, Recorded, AllNodes
<1>4. \A a, b \in AllNodes : a < b <=> nodes[a].at < nodes[b].at
  BY <1>1, <1>3
<1>5. \A a, b \in AllNodes : nodes[a].at = nodes[b].at => a = b
  BY <1>3, <1>4
<1>6. QED
  BY <1>2, <1>3, <1>4, <1>5 DEF Kind

\* What encloses a text by counting, and by the tree.
LEMMA TextEnclosed ==
    ASSUME TreeInv, Nested, NEW d \in AllNodes, Kind(d) = "text", NEW i, i = nodes[d].at
    PROVE  /\ Path(0, d) \subseteq 0..d
           /\ \A a \in Path(0, d) : a # 0 => a \in AllNodes
           /\ Tags(d) = {a \in Path(0, d) : Kind(a) \in Opening}
           /\ Tags(d) \subseteq AllNodes
           /\ Enclosing(i) = AtOf(Tags(d))
<1>1. Tree
  BY DEF TreeInv
<1>2. Path(0, d) \subseteq 0..d
  BY <1>1, PathFacts, TreeTypes DEF AllNodes
<1>3. \A a \in Path(0, d) : a # 0 => a \in AllNodes
  BY <1>1, <1>2, TreeTypes DEF AllNodes
<1>4. Tags(d) = {a \in Path(0, d) : Kind(a) \in Opening}
  BY DEF Tags, Opening, Styles
<1>5. Tags(d) \subseteq AllNodes
  BY <1>3, <1>4 DEF Kind, Opening, Styles
<1>6. Enclosing(i) = AtOf(Tags(d))
  BY SameReading, TagsEnclose
<1>7. QED
  BY <1>2, <1>3, <1>4, <1>5, <1>6

\* The outermost style, by counting and by the tree.
LEMMA OutermostSame ==
    ASSUME TreeInv, Nested, NEW d \in AllNodes, Kind(d) = "text", NEW i, i = nodes[d].at
    PROVE  /\ StylesAround(i) = {} => Outermost(0, d) = {}
           /\ StylesAround(i) # {} =>
                \E a \in Tags(d) : /\ Outermost(0, d) = {a} /\ nodes[a].kind \in Styles
                                   /\ OutermostStyle(i) = nodes[a].at
<1>1. /\ Path(0, d) \subseteq 0..d /\ Tags(d) = {a \in Path(0, d) : Kind(a) \in Opening}
      /\ Tags(d) \subseteq AllNodes /\ Enclosing(i) = AtOf(Tags(d))
  BY TextEnclosed
<1>2. \A a \in AllNodes : source[nodes[a].at] = Kind(a) /\ Kind(a) = nodes[a].kind
                          /\ nodes[a].at \in Nat /\ a \in Nat
  BY Positions
<1> DEFINE A == {a \in Path(0, d) : Kind(a) \in Styles}
<1>3. A \subseteq Tags(d)
  BY <1>1 DEF Opening
<1>4. StylesAround(i) = AtOf(A)
  <2>1. \A j \in StylesAround(i) : \E a \in A : j = nodes[a].at
    BY <1>1, <1>2 DEF StylesAround, AtOf
  <2>2. \A a \in A : nodes[a].at \in StylesAround(i)
    BY <1>1, <1>2, <1>3 DEF StylesAround, AtOf
  <2>3. QED
    BY <2>1, <2>2 DEF AtOf, StylesAround
<1>5. CASE A = {}
  BY <1>4, <1>5 DEF AtOf, Outermost
<1>6. CASE A # {}
  <2>1. A \subseteq Nat
    BY <1>1, <1>3, <1>2
  <2>2. PICK a \in A : \A b \in A : a <= b
    <3> HIDE DEF A
    <3>1. QED
      BY <1>6, <2>1, LeastElement
  <2>3. Outermost(0, d) = {a}
    <3>1. \A b \in A : b <= a => b = a
      BY <2>1, <2>2
    <3>2. QED
      BY <2>2, <3>1 DEF Outermost
  <2>4. \A b \in A : nodes[a].at <= nodes[b].at
    <3>1. \A b \in A : ~(b < a)
      BY <2>1, <2>2
    <3>2. \A b \in A : ~(nodes[b].at < nodes[a].at) /\ b \in AllNodes
      BY <1>1, <1>3, <2>2, <3>1, Positions
    <3>3. a \in AllNodes
      BY <1>1, <1>3, <2>2
    <3> HIDE DEF A
    <3>4. QED
      BY <1>2, <3>2, <3>3
  <2>5. nodes[a].at \in StylesAround(i) /\ \A k \in StylesAround(i) : nodes[a].at <= k
    BY <1>4, <2>2, <2>4 DEF AtOf
  <2>6. \A j \in StylesAround(i) : (\A k \in StylesAround(i) : j <= k) => j = nodes[a].at
    <3>1. \A j \in StylesAround(i) : j \in Nat
      BY <1>1, <1>2, <1>3, <1>4 DEF AtOf
    <3> HIDE DEF A
    <3>2. QED
      BY <2>5, <3>1
  <2>7. OutermostStyle(i) = nodes[a].at
    BY <2>5, <2>6 DEF OutermostStyle
  <2>8. a \in Tags(d) /\ nodes[a].kind \in Styles
    BY <1>1, <1>2, <1>3, <2>2
  <2>9. QED
    BY <2>3, <2>5, <2>7, <2>8
<1>7. QED
  BY <1>5, <1>6

\* The function that writes a text is the one its outermost style calls for.
LEMMA PageSame ==
    ASSUME TreeInv, Nested, NEW d \in AllNodes, Kind(d) = "text", NEW i, i = nodes[d].at
    PROVE  /\ InPage(i) <=> \A a \in Outermost(0, d) : Kind(a) = "cinline"
           /\ AtOf(Outermost(0, d)) =
                {j \in Enclosing(i) : j = OutermostStyle(i) /\ StylesAround(i) # {}}
<1>1. Tags(d) \subseteq AllNodes /\ Enclosing(i) = AtOf(Tags(d))
  BY TextEnclosed
<1>2. \A a \in AllNodes : source[nodes[a].at] = Kind(a)
  BY Positions
<1>3. CASE StylesAround(i) = {}
  BY <1>3, OutermostSame DEF InPage, AtOf
<1>4. CASE StylesAround(i) # {}
  <2>1. PICK a \in Tags(d) : /\ Outermost(0, d) = {a} /\ OutermostStyle(i) = nodes[a].at
    BY <1>4, OutermostSame
  <2>2. nodes[a].at \in Enclosing(i) /\ a \in AllNodes
    BY <1>1 DEF AtOf
  <2>3. AtOf(Outermost(0, d)) = {nodes[a].at}
    BY <2>1 DEF AtOf
  <2>4. QED
    BY <1>2, <1>4, <2>1, <2>2, <2>3 DEF InPage
<1>5. QED
  BY <1>3, <1>4

-----------------------------------------------------------------------------
(* The tags a text is written in, by counting and by the tree.             *)

\* A <celse> that counting puts in the condition of node a is the second branch of a.
LEMMA ElseOf ==
    ASSUME TreeInv, Nested, NEW k \in 1..Len(source), source[k] = "celse"
    PROVE  \E e \in AllNodes :
              /\ nodes[e].at = k /\ nodes[e].kind = "celse" /\ nodes[e].parent \in AllNodes
              /\ nodes[nodes[e].parent].kind = "cif" /\ nodes[e].parent < e
              /\ Enclosing(k) = Enclosing(nodes[nodes[e].parent].at) \cup {nodes[nodes[e].parent].at}
<1>1. PICK e \in AllNodes : nodes[e].at = k
  BY DEF Nested
<1>2. nodes[e].kind = "celse"
  BY <1>1, Positions
<1>3. PICK p \in AllNodes : p = nodes[e].parent /\ nodes[p].kind = "cif" /\ p < e
  <2>1. Tree /\ nodes[e].parent # 0 /\ nodes[nodes[e].parent].kind = "cif"
    BY <1>2 DEF TreeInv, Tree, Links
  <2>2. nodes[e].parent \in 0..(e - 1) /\ e \in 1..Len(nodes) /\ Len(nodes) \in Nat
    BY <2>1, TreeTypes DEF AllNodes
  <2>3. nodes[e].parent \in AllNodes /\ nodes[e].parent < e
    BY <2>1, <2>2 DEF AllNodes
  <2>4. QED
    BY <2>1, <2>3
<1>4. EncBefore(source, k) = EncIn(source, nodes, p)
  BY <1>1, <1>3 DEF Nested
<1>5. p # 0 /\ nodes[p].kind \in Opening
  BY <1>3 DEF Opening, AllNodes
<1>6. EncBefore(source, k) = EncBefore(source, nodes[p].at) \cup {nodes[p].at}
  BY <1>4, <1>5 DEF EncIn
<1>7. Enclosing(k) = Enclosing(nodes[p].at) \cup {nodes[p].at}
  BY <1>6, SameReading
<1>8. QED
  BY <1>1, <1>2, <1>3, <1>7

\* All that encloses a node comes before it.
LEMMA EnclosingBefore ==
    ASSUME TreeInv, NEW a \in AllNodes
    PROVE  \A j \in Enclosing(nodes[a].at) : j \in Nat /\ j < nodes[a].at
<1>1. nodes[a].at \in Nat
  BY Positions
<1>2. QED
  BY <1>1 DEF Enclosing

\* The text is in the second branch of a condition, by counting and by the tree.
LEMMA SecondSame ==
    ASSUME TreeInv, Nested, NEW d \in AllNodes, Kind(d) = "text", NEW i, i = nodes[d].at,
           NEW a \in Path(0, d), Kind(a) = "cif", NEW j, j = nodes[a].at
    PROVE  (\E k \in j..i : source[k] = "celse" /\ Enclosing(k) = Enclosing(j) \cup {j})
           <=> \E e \in Path(0, d) : Kind(e) = "celse" /\ nodes[e].parent = a
<1>1. /\ Path(0, d) \subseteq 0..d /\ \A b \in Path(0, d) : b # 0 => b \in AllNodes
  BY TextEnclosed
<1>2. /\ a \in AllNodes /\ i \in Nat /\ j \in Nat /\ i \in 1..Len(source) /\ j \in 1..Len(source)
      /\ Len(source) \in Nat
  BY <1>1, Positions DEF Kind
<1>3. Tree
  BY DEF TreeInv
<1>4. ASSUME NEW k \in j..i, source[k] = "celse", Enclosing(k) = Enclosing(j) \cup {j}
      PROVE  \E e \in Path(0, d) : Kind(e) = "celse" /\ nodes[e].parent = a
  <2>1. k \in 1..Len(source)
    BY <1>2
  <2>2. PICK e \in AllNodes, p \in AllNodes :
              /\ nodes[e].at = k /\ nodes[e].kind = "celse" /\ nodes[e].parent = p
              /\ Enclosing(k) = Enclosing(nodes[p].at) \cup {nodes[p].at}
    <3>1. PICK e \in AllNodes :
              /\ nodes[e].at = k /\ nodes[e].kind = "celse" /\ nodes[e].parent \in AllNodes
              /\ Enclosing(k) = Enclosing(nodes[nodes[e].parent].at) \cup {nodes[nodes[e].parent].at}
      BY <1>4, <2>1, ElseOf
    <3>2. QED
      BY <3>1
  <2>3. /\ \A x \in Enclosing(j) : x \in Nat /\ x < j
        /\ \A x \in Enclosing(nodes[p].at) : x \in Nat /\ x < nodes[p].at
    BY <1>2, EnclosingBefore
  <2>4. nodes[p].at = j
    <3>1. nodes[p].at \in Enclosing(j) \cup {j} /\ j \in Enclosing(nodes[p].at) \cup {nodes[p].at}
      BY <1>4, <2>2
    <3>2. nodes[p].at \in Nat
      BY Positions
    <3>3. QED
      BY <1>2, <2>3, <3>1, <3>2
  <2>5. p = a
    BY <1>2, <2>4, Positions
  <2>6. e <= d
    <3>1. ~(d < e)
      BY <1>2, <2>2, Positions
    <3>2. QED
      BY <3>1, Positions
  <2>7. d \in Sub(a)
    BY DEF Path
  <2>8. e \in Path(0, d)
    BY <1>3, <2>2, <2>5, <2>6, <2>7, InSecondBranch
  <2>9. QED
    BY <2>2, <2>5, <2>8, Positions
<1>5. ASSUME NEW e \in Path(0, d), Kind(e) = "celse", nodes[e].parent = a
      PROVE  \E k \in j..i : source[k] = "celse" /\ Enclosing(k) = Enclosing(j) \cup {j}
  <2>1. e \in AllNodes /\ e <= d /\ nodes[e].kind = "celse"
    BY <1>1, <1>5, Positions DEF Kind
  <2>2. PICK k : k = nodes[e].at
    OBVIOUS
  <2>3. k \in 1..Len(source) /\ source[k] = "celse"
    BY <2>1, <2>2, Positions
  <2>4. PICK f \in AllNodes : /\ nodes[f].at = k
                              /\ Enclosing(k) = Enclosing(nodes[nodes[f].parent].at)
                                                \cup {nodes[nodes[f].parent].at}
    BY <2>3, ElseOf
  <2>5. f = e
    BY <2>1, <2>2, <2>4, Positions
  <2>6. a < e
    BY <1>3, <1>5, <2>1 DEF Tree, Links
  <2>7. k \in j..i
    <3>1. j < k
      BY <1>2, <2>1, <2>2, <2>6, Positions
    <3>2. ~(i < k)
      <4>1. ~(d < e)
        BY <2>1, Positions
      <4>2. QED
        BY <2>1, <2>2, <4>1, Positions
    <3>3. QED
      BY <1>2, <2>3, <3>1, <3>2
  <2>8. QED
    BY <1>5, <2>3, <2>4, <2>5, <2>7
<1>6. QED
  BY <1>4, <1>5

\* The second branches around a text, by counting and by the tree.
LEMMA ElsesSame ==
    ASSUME TreeInv, Nested, NEW d \in AllNodes, Kind(d) = "text", NEW i, i = nodes[d].at
    PROVE  {k \in 1..(i - 1) : source[k] = "celse" /\ Enclosing(k) \subseteq Enclosing(i)}
           = AtOf({e \in Path(0, d) : Kind(e) = "celse"})
<1>1. /\ Path(0, d) \subseteq 0..d /\ \A b \in Path(0, d) : b # 0 => b \in AllNodes
      /\ Tags(d) = {a \in Path(0, d) : Kind(a) \in Opening}
      /\ Tags(d) \subseteq AllNodes /\ Enclosing(i) = AtOf(Tags(d))
  BY TextEnclosed
<1>2. i \in Nat /\ i \in 1..Len(source) /\ Len(source) \in Nat
  BY Positions
<1>3. Tree
  BY DEF TreeInv
<1>4. ASSUME NEW k \in 1..(i - 1), source[k] = "celse", Enclosing(k) \subseteq Enclosing(i)
      PROVE  k \in AtOf({e \in Path(0, d) : Kind(e) = "celse"})
  <2>1. k \in 1..Len(source) /\ k < i
    BY <1>2
  <2>2. PICK e \in AllNodes, p \in AllNodes :
              /\ nodes[e].at = k /\ nodes[e].kind = "celse" /\ nodes[e].parent = p
              /\ Enclosing(k) = Enclosing(nodes[p].at) \cup {nodes[p].at}
    BY <1>4, <2>1, ElseOf
  <2>3. nodes[p].at \in AtOf(Tags(d))
    BY <1>1, <1>4, <2>2
  <2>4. p \in Tags(d)
    BY <1>1, <2>3, Positions DEF AtOf
  <2>5. d \in Sub(p)
    BY <1>1, <2>4 DEF Path
  <2>6. e < d
    BY <2>1, <2>2, Positions
  <2>7. e <= d
    BY <2>6, Positions
  <2>8. e \in Path(0, d)
    BY <1>3, <2>2, <2>5, <2>7, InSecondBranch
  <2>9. QED
    BY <2>2, <2>8, Positions DEF AtOf
<1>5. ASSUME NEW e \in Path(0, d), Kind(e) = "celse"
      PROVE  /\ nodes[e].at \in 1..(i - 1) /\ source[nodes[e].at] = "celse"
             /\ Enclosing(nodes[e].at) \subseteq Enclosing(i)
  <2>1. e \in AllNodes /\ e <= d /\ e # d
    BY <1>1, <1>5 DEF Kind
  <2>2. e < d
    BY <2>1, Positions
  <2>3. nodes[e].at < i /\ nodes[e].at \in 1..Len(source) /\ source[nodes[e].at] = "celse"
    BY <1>5, <2>1, <2>2, Positions
  <2>4. Path(0, e) \subseteq Path(0, d)
    BY <1>3, PathFacts, TreeTypes DEF AllNodes
  <2>5. Tags(e) \subseteq Tags(d)
    BY <1>1, <2>4 DEF Tags
  <2>6. Enclosing(nodes[e].at) = AtOf(Tags(e))
    BY <2>1, SameReading, TagsEnclose
  <2>7. AtOf(Tags(e)) \subseteq AtOf(Tags(d))
    BY <2>5 DEF AtOf
  <2>8. QED
    BY <1>1, <1>2, <2>3, <2>6, <2>7
<1>6. QED
  BY <1>4, <1>5 DEF AtOf

\* A text is wrapped in the tags that counting finds around it.
LEMMA WrapsSame ==
    ASSUME TreeInv, Nested, NEW d \in AllNodes, Kind(d) = "text", NEW i, i = nodes[d].at
    PROVE  Wrapping(i) = AtOf(Wraps(0, d)) \cup (IF InPage(i) THEN AtOf(Outermost(0, d)) ELSE {})
<1>1. /\ Tags(d) = {a \in Path(0, d) : Kind(a) \in Opening}
      /\ Tags(d) \subseteq AllNodes /\ Enclosing(i) = AtOf(Tags(d))
      /\ \A b \in Path(0, d) : b # 0 => b \in AllNodes
  BY TextEnclosed
<1>2. \A a \in AllNodes : source[nodes[a].at] = Kind(a) /\ nodes[a].at \in Nat
  BY Positions
<1> DEFINE Second(j) == \E k \in j..i : source[k] = "celse" /\ Enclosing(k) = Enclosing(j) \cup {j}
           Tagged == {j \in Enclosing(i) : source[j] = "cloop" \/ (source[j] = "cif" /\ ~Second(j))}
           Inline == {j \in Enclosing(i) : source[j] = "cinline" /\ j = OutermostStyle(i)}
           Elses == {k \in 1..(i - 1) : source[k] = "celse" /\ Enclosing(k) \subseteq Enclosing(i)}
           Loops == {a \in Path(0, d) : \/ Kind(a) = "cloop"
                                        \/ /\ Kind(a) = "cif"
                                           /\ \A e \in Path(0, d) : ~(Kind(e) = "celse" /\ nodes[e].parent = a)}
           Branches == {a \in Path(0, d) : Kind(a) = "celse"}
<1>3. Wrapping(i) = Tagged \cup Inline \cup Elses
  BY DEF Wrapping
<1>4. Wraps(0, d) = Loops \cup Branches
  BY DEF Wraps, Kind
<1>5. AtOf(Wraps(0, d)) = AtOf(Loops) \cup AtOf(Branches)
  BY <1>4 DEF AtOf
<1>6. Elses = AtOf(Branches)
  BY ElsesSame
<1>7. Tagged = AtOf(Loops)
  <2>1. \A a \in Path(0, d) : Kind(a) = "cif" =>
            (Second(nodes[a].at) <=> \E e \in Path(0, d) : Kind(e) = "celse" /\ nodes[e].parent = a)
    BY SecondSame
  <2> HIDE DEF Second
  <2>2. \A a \in Tags(d) : a \in Loops <=> nodes[a].at \in Tagged
    <3> SUFFICES ASSUME NEW a \in Tags(d)
                 PROVE  a \in Loops <=> nodes[a].at \in Tagged
      OBVIOUS
    <3>1. a \in Path(0, d) /\ source[nodes[a].at] = Kind(a) /\ nodes[a].at \in Enclosing(i)
      BY <1>1, <1>2 DEF AtOf
    <3>2. QED
      BY <2>1, <3>1
  <2>3. Loops \subseteq Tags(d)
    BY <1>1 DEF Opening
  <2>4. \A j \in Tagged : \E a \in Tags(d) : j = nodes[a].at
    BY <1>1 DEF AtOf
  <2> HIDE DEF Loops, Tagged
  <2>5. QED
    <3>1. \A j \in Tagged : j \in AtOf(Loops)
      BY <2>2, <2>4 DEF AtOf
    <3>2. \A j \in AtOf(Loops) : j \in Tagged
      BY <2>2, <2>3 DEF AtOf
    <3>3. QED
      BY <3>1, <3>2
<1>8. Inline = IF InPage(i) THEN AtOf(Outermost(0, d)) ELSE {}
  <2>1. Inline = {j \in Enclosing(i) : source[j] = "cinline" /\ j = OutermostStyle(i) /\ StylesAround(i) # {}}
    BY DEF StylesAround, Styles
  <2>2. AtOf(Outermost(0, d)) = {j \in Enclosing(i) : j = OutermostStyle(i) /\ StylesAround(i) # {}}
    BY PageSame
  <2>3. QED
    BY <2>1, <2>2 DEF InPage
<1>9. QED
  BY <1>3, <1>5, <1>6, <1>7, <1>8

\* The outputs of the two functions go where the template writes them.
LEMMA NestedWritten ==
    ASSUME TreeInv, NestInv
    PROVE  NestingAsWritten
<1> SUFFICES ASSUME WellNested, NEW f \in {PageFunction, CssFunction}, NEW x \in DOMAIN f
             PROVE  /\ InPage(f[x].at) <=> f = PageFunction
                    /\ f[x].under = Wrapping(f[x].at)
  BY DEF NestingAsWritten
<1>1. Tree /\ Nested
  BY WellNestedReads DEF TreeInv, NestInv
<1>2. /\ {PageFunction[y] : y \in DOMAIN PageFunction} = PageOuts(0)
      /\ {CssFunction[y] : y \in DOMAIN CssFunction} = CssOuts(0, "page")
  BY <1>1, FunctionsList DEF Lists
<1>3. /\ PageTexts(0) \cup CssTexts(0, "page") = {d \in AllNodes : nodes[d].kind = "text"}
  BY <1>1, TextsDivided
<1>4. \A d \in AllNodes : nodes[d].kind = "text" => Kind(d) = "text"
  BY Positions
<1>5. \A d \in AllNodes : Kind(d) = "text" =>
          /\ InPage(nodes[d].at) <=> \A a \in Outermost(0, d) : Kind(a) = "cinline"
          /\ Wrapping(nodes[d].at)
             = AtOf(Wraps(0, d)) \cup (IF InPage(nodes[d].at) THEN AtOf(Outermost(0, d)) ELSE {})
  BY <1>1, PageSame, WrapsSame
<1>6. CASE f = PageFunction
  <2>1. PICK d \in PageTexts(0) : f[x] = PageOut(0, d)
    BY <1>2, <1>6 DEF PageOuts
  <2>2. d \in AllNodes /\ Kind(d) = "text" /\ \A a \in Outermost(0, d) : Kind(a) = "cinline"
    BY <1>3, <1>4 DEF PageTexts
  <2>3. f[x].at = nodes[d].at /\ f[x].under = AtOf(Wraps(0, d) \cup Outermost(0, d))
    BY <2>1 DEF PageOut, Out, AtOf
  <2>4. AtOf(Wraps(0, d) \cup Outermost(0, d)) = AtOf(Wraps(0, d)) \cup AtOf(Outermost(0, d))
    BY DEF AtOf
  <2>5. InPage(nodes[d].at) /\ Wrapping(nodes[d].at) = AtOf(Wraps(0, d)) \cup AtOf(Outermost(0, d))
    BY <1>5, <2>2
  <2>6. QED
    BY <1>6, <2>3, <2>4, <2>5
<1>7. CASE f # PageFunction
  <2>0. f = CssFunction
    BY <1>7
  <2>1. PICK d \in CssTexts(0, "page") : f[x] = CssOut(0, d)
    BY <1>2, <2>0 DEF CssOuts
  <2>2. d \in AllNodes /\ Kind(d) = "text" /\ \E a \in Outermost(0, d) : Kind(a) = "cstyle"
    BY <1>3, <1>4 DEF CssTexts
  <2>3. f[x].at = nodes[d].at /\ f[x].under = AtOf(Wraps(0, d))
    BY <2>1 DEF CssOut, Out, AtOf
  <2>4. ~InPage(nodes[d].at) /\ Wrapping(nodes[d].at) = AtOf(Wraps(0, d))
    BY <1>5, <2>2
  <2>5. QED
    BY <1>7, <2>3, <2>4
<1>8. QED
  BY <1>6, <1>7

\* A well-nested template is written as it is nested.
THEOREM NestingWritten == ParserSpec => []NestingAsWritten
<1>1. TreeInv /\ NestInv => NestingAsWritten
  BY NestedWritten
<1>2. QED
  BY <1>1, TreeInvariant, NestInvariant, PTL

-----------------------------------------------------------------------------
(* The lexer.                                                              *)

\* What Smallest chooses is the least element.
LEMMA SmallestWorks ==
    ASSUME NEW S, S \subseteq Nat, S # {}
    PROVE  Smallest(S) \in S /\ \A j \in S : Smallest(S) <= j
BY LeastElement DEF Smallest

Types == {"C_CODE", "TAG", "VARIABLE", "HTML", "EOF"}
Token == [type : Types, from : Nat, to : Nat]

LexerType ==
    /\ input \in Seq(Symbols)
    /\ position \in 0..Len(input)
    /\ tokens \in Seq(Token)

\* Where the last token ended, and why reading HTML ended there.
LastToken ==
    LET last == tokens[Len(tokens)] IN
    tokens # <<>> =>
        /\ last.to = position
        /\ last.type = "HTML" =>
              AtEnd(position) \/ StopsHtml(position) \/ position = last.from + MaxBuffer

LexerInv == LexerType /\ LastToken /\ LexerReadsAll

\* A reading loop stops between the place it starts from and the end of the input.
LEMMA StopAtInInput ==
    ASSUME NEW ends, input \in Seq(Symbols), NEW p \in 0..Len(input)
    PROVE  StopAt(p, ends) \in p..Len(input)
<1> DEFINE S == {q \in p..Len(input) : AtEnd(q) \/ q = p + MaxBuffer \/ Peek(q) \in ends}
<1>1. S \subseteq Nat /\ Len(input) \in S
  BY DEF AtEnd
<1>2. Smallest(S) \in S
  BY <1>1, SmallestWorks
<1>3. QED
  BY <1>2 DEF StopAt

\* So does the mark that ends a token.
LEMMA AfterInInput ==
    ASSUME NEW ends, input \in Seq(Symbols), NEW q \in 0..Len(input)
    PROVE  After(q, ends) \in q..Len(input)
BY DEF After, AtEnd

\* A run of HTML that starts where no other token does takes a symbol or more, and ends
\* for one of the three reasons.
LEMMA HtmlStops ==
    ASSUME input \in Seq(Symbols), NEW p \in 0..Len(input), ~AtEnd(p), ~StartsToken(p),
           NEW q, q = Smallest({r \in p..Len(input) :
                          AtEnd(r) \/ r = p + MaxBuffer \/ StopsHtml(r)})
    PROVE  /\ q \in p..Len(input) /\ q # p
           /\ AtEnd(q) \/ q = p + MaxBuffer \/ StopsHtml(q)
<1> DEFINE S == {r \in p..Len(input) : AtEnd(r) \/ r = p + MaxBuffer \/ StopsHtml(r)}
<1>1. S \subseteq Nat /\ Len(input) \in S
  BY DEF AtEnd
<1>2. q \in S
  BY <1>1, SmallestWorks
<1>3. ~StopsHtml(p)
  BY DEF StopsHtml, StartsToken
<1>4. p # p + MaxBuffer
  BY LexerAssumption
<1>5. QED
  BY <1>2, <1>3, <1>4

\* What every step does: it returns a token that starts at the position, an end of input
\* at the end only, HTML only where nothing else starts and up to where it has to stop.
ReturnsToken ==
    \E type \in Types, to \in position..Len(input) :
        /\ Take(type, to)
        /\ type = "EOF" => position = Len(input)
        /\ type = "HTML" => /\ ~AtEnd(position) /\ ~StartsToken(position)
                            /\ AtEnd(to) \/ to = position + MaxBuffer \/ StopsHtml(to)

\* And such a step keeps the invariant.
LEMMA ReturnsTokenKeepsInv == LexerInv /\ ReturnsToken => LexerInv'
<1> SUFFICES ASSUME LexerInv, NEW type \in Types, NEW to \in position..Len(input),
                    Take(type, to),
                    type = "EOF" => position = Len(input),
                    type = "HTML" => /\ ~AtEnd(position) /\ ~StartsToken(position)
                                     /\ \/ AtEnd(to)
                                        \/ to = position + MaxBuffer
                                        \/ StopsHtml(to)
             PROVE  LexerInv'
  BY DEF ReturnsToken
<1> USE DEF LexerInv
<1> DEFINE new == [type |-> type, from |-> position, to |-> to]
<1>1. new \in Token /\ tokens' = Append(tokens, new) /\ input' = input /\ position' = to
  BY DEF Take, LexerType, Token
<1>2. LexerType'
  BY <1>1 DEF LexerType
<1>3. /\ Len(tokens') = Len(tokens) + 1 /\ tokens'[Len(tokens')] = new /\ tokens' # <<>>
      /\ \A i \in 1..Len(tokens) : tokens'[i] = tokens[i]
      /\ DOMAIN tokens' = 1..(Len(tokens) + 1) /\ DOMAIN tokens = 1..Len(tokens)
  BY <1>1 DEF LexerType
<1>4. LastToken'
  <2>1. AtEnd(to) = AtEnd(to)' /\ StopsHtml(to) = StopsHtml(to)'
    BY <1>1 DEF AtEnd, StopsHtml, Peek, InsideStyle, LooksLikeVariable
  <2>2. type = "HTML" => AtEnd(position)' \/ StopsHtml(position)' \/ to = position + MaxBuffer
    BY <1>1, <2>1 DEF AtEnd, StopsHtml, Peek, InsideStyle, LooksLikeVariable
  <2>3. QED
    BY <1>1, <1>3, <2>2 DEF LastToken
<1>5. LexerReadsAll'
  <2>1. SUFFICES ASSUME NEW i \in 1..(Len(tokens) + 1)
        PROVE  /\ tokens'[i].type = "EOF" => tokens'[i].from = Len(input)
               /\ i > 1 /\ tokens'[i].type = "HTML" /\ tokens'[i - 1].type = "HTML"
                   => tokens'[i - 1].to = tokens'[i - 1].from + MaxBuffer
    BY <1>1, <1>3 DEF LexerReadsAll
  <2>2. CASE i \in 1..Len(tokens)
    <3>1. tokens'[i] = tokens[i] /\ (i > 1 => tokens'[i - 1] = tokens[i - 1])
      BY <1>3, <2>2 DEF LexerType
    <3>2. QED
      BY <1>3, <2>2, <3>1 DEF LexerReadsAll, LexerType
  <2>3. CASE i = Len(tokens) + 1
    <3>1. tokens'[i] = new
      BY <1>3, <2>3
    <3>2. ASSUME i > 1, type = "HTML", tokens'[i - 1].type = "HTML"
          PROVE  tokens'[i - 1].to = tokens'[i - 1].from + MaxBuffer
      <4>1. tokens # <<>> /\ tokens'[i - 1] = tokens[Len(tokens)]
        BY <1>3, <2>3, <3>2 DEF LexerType
      <4>2. ~StopsHtml(position)
        BY <3>2 DEF StopsHtml, StartsToken
      <4>3. QED
        BY <3>2, <4>1, <4>2 DEF LastToken
    <3>3. QED
      BY <3>1, <3>2
  <2>4. QED
    BY <2>2, <2>3 DEF LexerType
<1>6. QED
  BY <1>2, <1>4, <1>5

\* The lexer starts with the invariant.
LEMMA LexerInitInv == LexerInit => LexerInv
<1> SUFFICES ASSUME LexerInit
             PROVE  LexerInv
  OBVIOUS
<1>1. PICK n \in 0..MaxInput : input \in [1..n -> Symbols]
  BY DEF LexerInit
<1>2. n \in Nat
  BY LexerAssumption
<1>3. input \in Seq(Symbols)
  BY <1>1, <1>2
<1>4. QED
  BY <1>3 DEF LexerInit, LexerInv, LexerType, LastToken, LexerReadsAll

\* Each reader returns a token as ReturnsToken says.
LEMMA LexerNextInv == LexerInv /\ [LexerNext]_lexerVars => LexerInv'
<1> SUFFICES ASSUME LexerInv, [LexerNext]_lexerVars
             PROVE  LexerInv'
  OBVIOUS
<1>t. input \in Seq(Symbols) /\ position \in 0..Len(input)
  BY DEF LexerInv, LexerType
<1>1. CASE ReadCode
  <2> DEFINE q == StopAt(position + 1, {"%>"})
             to == IF q < position + 1 + MaxBuffer THEN After(q, {"%>"}) ELSE q
  <2>1. position + 1 \in 0..Len(input)
    BY <1>1, <1>t DEF ReadCode, CanRead, AtEnd
  <2>2. q \in (position + 1)..Len(input)
    BY <2>1, <1>t, StopAtInInput
  <2>3. After(q, {"%>"}) \in q..Len(input)
    BY <2>1, <2>2, <1>t, AfterInInput
  <2>4. to \in position..Len(input)
    BY <2>1, <2>2, <2>3, <1>t
  <2>5. Take("C_CODE", to)
    BY <1>1 DEF ReadCode
  <2> HIDE DEF q, to
  <2>6. ReturnsToken
    BY <2>4, <2>5 DEF ReturnsToken, Types
  <2>7. QED
    BY <2>6, ReturnsTokenKeepsInv
<1>2. CASE ReadControlTag
  <2> DEFINE q == StopAt(position, EndsTag)
             to == After(q, EndsTag)
  <2>1. q \in position..Len(input)
    BY <1>t, StopAtInInput
  <2>2. to \in q..Len(input)
    BY <1>t, <2>1, AfterInInput
  <2>3. to \in position..Len(input)
    BY <1>t, <2>1, <2>2
  <2>4. Take("TAG", to)
    BY <1>2 DEF ReadControlTag
  <2> HIDE DEF q, to
  <2>5. ReturnsToken
    BY <2>3, <2>4 DEF ReturnsToken, Types
  <2>6. QED
    BY <2>5, ReturnsTokenKeepsInv
<1>3. CASE ReadVariable
  <2> DEFINE ends == {"}"}
             q == StopAt(position + 1, ends)
             to == After(q, ends)
  <2>1. ~AtEnd(position)
    BY <1>3 DEF ReadVariable, CanRead
  <2>2. Take("VARIABLE", to)
    BY <1>3 DEF ReadVariable
  <2> HIDE DEF ends
  <2>3. position + 1 \in 0..Len(input)
    BY <2>1, <1>t DEF AtEnd
  <2>4. q \in (position + 1)..Len(input)
    BY <2>3, <1>t, StopAtInInput
  <2>5. to \in q..Len(input)
    BY <2>3, <2>4, <1>t, AfterInInput
  <2>6. to \in position..Len(input)
    BY <2>3, <2>4, <2>5, <1>t
  <2> HIDE DEF q, to
  <2>7. ReturnsToken
    BY <2>2, <2>6 DEF ReturnsToken, Types
  <2>8. QED
    BY <2>7, ReturnsTokenKeepsInv
<1>4. CASE ReadHtml
  <2> DEFINE q == Smallest({r \in position..Len(input) :
                      AtEnd(r) \/ r = position + MaxBuffer \/ StopsHtml(r)})
  <2>1. ~AtEnd(position) /\ ~StartsToken(position)
    BY <1>4 DEF ReadHtml, CanRead
  <2>2. Take(IF q = position THEN "EOF" ELSE "HTML", q)
    BY <1>4 DEF ReadHtml
  <2>3. /\ q \in position..Len(input) /\ q # position
        /\ AtEnd(q) \/ q = position + MaxBuffer \/ StopsHtml(q)
    <3> HIDE DEF q
    <3>1. \A z : z = q => /\ z \in position..Len(input) /\ z # position
                          /\ AtEnd(z) \/ z = position + MaxBuffer \/ StopsHtml(z)
      BY <1>t, <2>1, HtmlStops DEF q
    <3>2. QED
      BY <3>1
  <2> HIDE DEF q
  <2>4. Take("HTML", q)
    BY <2>2, <2>3
  <2>5. ReturnsToken
    BY <2>1, <2>3, <2>4 DEF ReturnsToken, Types
  <2>6. QED
    BY <2>5, ReturnsTokenKeepsInv
<1>5. CASE ReadEnd
  <2>1. position = Len(input) /\ Take("EOF", position)
    BY <1>5 DEF ReadEnd, AtEnd
  <2>2. position \in position..Len(input)
    BY <1>t, <2>1
  <2>3. ReturnsToken
    BY <2>1, <2>2 DEF ReturnsToken, Types
  <2>4. QED
    BY <2>3, ReturnsTokenKeepsInv
<1>6. CASE UNCHANGED lexerVars
  BY <1>6 DEF LexerInv, LexerType, LastToken, LexerReadsAll, lexerVars, AtEnd, StopsHtml,
              Peek, InsideStyle, LooksLikeVariable
<1>7. QED
  BY <1>1, <1>2, <1>3, <1>4, <1>5, <1>6 DEF LexerNext

\* Whatever the template and the size of the buffer, the lexer reports the end of input at
\* the end of the input only, and cuts a run of HTML in two only when its buffer is full:
\* the condition at which lexer_read_html stops and the one lexer_next_token tests agree.
THEOREM LexerReadsAllCorrect == LexerSpec => []LexerReadsAll
<1>1. LexerInv => LexerReadsAll
  BY DEF LexerInv
<1>2. QED
  BY <1>1, LexerInitInv, LexerNextInv, PTL DEF LexerSpec
=============================================================================

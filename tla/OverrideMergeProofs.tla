--------------------------- MODULE OverrideMergeProofs ---------------------------
(***************************************************************************)
(* Facts about documents and about merging them, used by the proofs about  *)
(* RenderReference and ConfigAdoption.                                     *)
(*                                                                         *)
(* What a function over the levels computes is proved level by level:      *)
(* Climb is induction over the numbers up to n, stated with a set so that  *)
(* no operator is a parameter, and Recursion says that such a function     *)
(* exists and where its values are.                                        *)
(***************************************************************************)
EXTENDS OverrideMerge, FiniteSetTheorems, TLAPS

\* A non-empty set of numbers up to n has a least one.
LEMMA FirstExists ==
  ASSUME NEW n \in Nat, NEW S \in SUBSET (1..n), S # {}
  PROVE  \E i \in S : \A j \in S : i <= j
<1> DEFINE T == {1..i : i \in S}
           R == StrictSubsetOrdering(1..n)
<1>1. IsWellFoundedOn(R, FiniteSubsetsOf(1..n))
  BY FS_StrictSubsetOrderingWellFounded
<1>2. T # {} /\ T \subseteq SUBSET (1..n)
  <2>1. PICK i \in S : TRUE
    OBVIOUS
  <2>2. 1..i \in T
    BY <2>1
  <2>3. \A k \in S : k \in Nat /\ k <= n
    OBVIOUS
  <2>4. \A k \in S : 1..k \subseteq 1..n
    BY <2>3
  <2> QED
    BY <2>2, <2>4
<1>3. T \subseteq FiniteSubsetsOf(1..n)
  BY <1>2, FS_Interval, FS_FiniteSubsetsOfFinite
<1>4. PICK t \in T : \A u \in T : ~(<<u, t>> \in R)
  <2> HIDE DEF T, R
  <2> QED
    BY <1>1, <1>2, <1>3, WFMin
<1>5. PICK i \in S : t = 1..i
  OBVIOUS
<1>6. ASSUME NEW j \in S, j < i PROVE FALSE
  <2>1. 1..j \in T /\ 1..j \subseteq 1..i /\ i \in 1..i /\ i \notin 1..j
    BY <1>6
  <2>2. <<1..j, t>> \in R
    BY <1>2, <1>5, <2>1 DEF StrictSubsetOrdering
  <2> QED
    BY <1>4, <2>1, <2>2
<1> QED
  BY <1>6

\* What holds at 0, and at i when it holds at i - 1, holds up to n.
LEMMA Climb ==
  ASSUME NEW n \in Nat, NEW S, 0 \in S, \A i \in 1..n : i - 1 \in S => i \in S
  PROVE  0..n \subseteq S
<1> DEFINE bad == (1..n) \ S
<1>1. CASE bad = {}
  BY <1>1
<1>2. CASE bad # {}
  <2>1. PICK i \in bad : \A j \in bad : i <= j
    BY <1>2, FirstExists
  <2>2. i - 1 \in S
    BY <2>1
  <2> QED
    BY <2>1, <2>2
<1> QED
  BY <1>1, <1>2

\* The functions with f[i] in V[i] on every level.
Within(n, V) == {f \in [0..n -> UNION {V[i] : i \in 0..n}] : \A i \in 0..n : f[i] \in V[i]}

\* Every level takes the values V[i - 1] to values V[i].
Steps(n, V, v0, step) == v0 \in V[0] /\ \A i \in 1..n : \A v \in V[i - 1] : step[i][v] \in V[i]

\* The function that starts with v0 and goes from level to level by step.
ByLevels(n, v0, step, f) == f = [i \in 0..n |-> IF i = 0 THEN v0 ELSE step[i][f[i - 1]]]

\* So there is such a function.
LEMMA Recursion ==
  ASSUME NEW n \in Nat, NEW V, NEW v0, NEW step, Steps(n, V, v0, step)
  PROVE  \E f : ByLevels(n, v0, step, f) /\ f \in Within(n, V)
<1> USE DEF Steps, ByLevels, Within
<1> DEFINE Upto(i, f) == /\ f = [j \in 0..i |-> IF j = 0 THEN v0 ELSE step[j][f[j - 1]]]
                         /\ \A j \in 0..i : f[j] \in V[j]
           S == {i \in 0..n : \E f : Upto(i, f)}
<1>1. 0 \in S
  <2>1. Upto(0, [j \in 0..0 |-> v0])
    OBVIOUS
  <2>2. 0 \in 0..n
    OBVIOUS
  <2> HIDE DEF Upto
  <2> QED
    BY <2>1, <2>2
<1>2. ASSUME NEW i \in 1..n, i - 1 \in S
      PROVE  i \in S
  <2>1. PICK f : Upto(i - 1, f)
    BY <1>2
  <2> DEFINE g == [j \in 0..i |-> IF j = i THEN step[i][f[i - 1]] ELSE f[j]]
  <2>2. f[i - 1] \in V[i - 1]
    BY <2>1
  <2>3. \A j \in 0..(i - 1) : f[j] = IF j = 0 THEN v0 ELSE step[j][f[j - 1]]
    BY <2>1
  <2>4. \A j \in 0..i : g[j] \in V[j]
    BY <2>1, <2>2
  <2>5. \A j \in 0..i : g[j] = IF j = 0 THEN v0 ELSE step[j][g[j - 1]]
    BY <2>3
  <2>6. g = [j \in 0..i |-> IF j = 0 THEN v0 ELSE step[j][g[j - 1]]]
    BY <2>5
  <2>7. Upto(i, g)
    BY <2>4, <2>6
  <2> HIDE DEF Upto
  <2> QED
    BY <2>7
<1>3. n \in S
  <2> HIDE DEF S
  <2> QED
    BY <1>1, <1>2, Climb
<1> QED
  BY <1>3
\* A document may have a node.
LEMMA DepthNat == Depth \in Nat \ {0}
  BY DocumentsAssumption DEF DocumentsAssumption

\* Documents, unfolded by one level.
LEMMA DocumentsDef ==
  ASSUME NEW tags, NEW flaws
  PROVE  \A d \in 0..Depth :
           Documents(tags, flaws)[d] =
             IF d = 0 THEN {} ELSE Nodes(tags, flaws, Documents(tags, flaws)[d - 1])
<1> DEFINE Upto(i, f) == f = [d \in 0..i |-> IF d = 0 THEN {} ELSE Nodes(tags, flaws, f[d - 1])]
           S == {i \in 0..Depth : \E f : Upto(i, f)}
<1>0. Depth \in Nat \ {0}
  BY DepthNat
<1>1. 0 \in S
  <2>1. Upto(0, [d \in 0..0 |-> {}])
    OBVIOUS
  <2>2. 0 \in 0..Depth
    BY <1>0
  <2> HIDE DEF Upto
  <2> QED
    BY <2>1, <2>2
<1>2. ASSUME NEW i \in 1..Depth, i - 1 \in S
      PROVE  i \in S
  <2>1. PICK f : Upto(i - 1, f)
    BY <1>2
  <2> DEFINE g == [d \in 0..i |-> IF d = i THEN Nodes(tags, flaws, f[i - 1]) ELSE f[d]]
  <2>2. \A d \in 0..(i - 1) : f[d] = IF d = 0 THEN {} ELSE Nodes(tags, flaws, f[d - 1])
    BY <2>1
  <2>3. \A d \in 0..i : g[d] = IF d = 0 THEN {} ELSE Nodes(tags, flaws, g[d - 1])
    BY <2>2
  <2>4. g = [d \in 0..i |-> IF d = 0 THEN {} ELSE Nodes(tags, flaws, g[d - 1])]
    BY <2>3
  <2>5. Upto(i, g)
    BY <2>4
  <2> HIDE DEF Upto
  <2> QED
    BY <2>5
<1>3. Depth \in S
  <2> HIDE DEF S
  <2> QED
    BY <1>0, <1>1, <1>2, Climb
<1>4. \E f : f = [d \in 0..Depth |-> IF d = 0 THEN {} ELSE Nodes(tags, flaws, f[d - 1])]
  BY <1>3
<1> DEFINE upto == CHOOSE f : f = [d \in 0..Depth |-> IF d = 0 THEN {} ELSE Nodes(tags, flaws, f[d - 1])]
<1>5. upto = [d \in 0..Depth |-> IF d = 0 THEN {} ELSE Nodes(tags, flaws, upto[d - 1])]
  BY <1>4
<1>6. Documents(tags, flaws) = [d \in 0..Depth |-> upto[d]]
  BY DEF Documents
<1> HIDE DEF upto
<1> QED
  BY <1>0, <1>5, <1>6

\* What a document is made of, by the level it is on.
LEMMA Shape ==
  ASSUME NEW tags, NEW flaws, NEW d \in 1..Depth, NEW n \in Documents(tags, flaws)[d]
  PROVE  /\ n.kind \in {"scalar", "list", "map"} /\ n.tag \in tags
         /\ IsScalar(n) => n = [kind |-> "scalar", tag |-> n.tag, value |-> n.value] /\ n.value \in Texts
         /\ IsList(n) => /\ n = [kind |-> "list", tag |-> n.tag, items |-> n.items]
                         /\ n.items \in Seq(Documents(tags, flaws)[d - 1])
         /\ IsMap(n) => /\ n = [kind |-> "map", tag |-> n.tag, at |-> n.at, flaw |-> n.flaw]
                        /\ n.at \in [Keys -> {Missing} \cup Documents(tags, flaws)[d - 1]]
                        /\ n.flaw \in flaws
<1>1. d \in 0..Depth /\ d # 0
  BY DepthNat
<1> DEFINE below == Documents(tags, flaws)[d - 1]
<1>2. n \in Nodes(tags, flaws, below)
  BY <1>1, DocumentsDef
<1> HIDE DEF below
<1>3. CASE n \in [kind : {"scalar"}, tag : tags, value : Texts]
  BY <1>3 DEF IsScalar, IsList, IsMap
<1>4. CASE n \in [kind : {"list"}, tag : tags, items : Seq(below)]
  BY <1>4 DEF IsScalar, IsList, IsMap, below
<1>5. CASE n \in [kind : {"map"}, tag : tags, at : [Keys -> {Missing} \cup below], flaw : flaws]
  BY <1>5 DEF IsScalar, IsList, IsMap, below
<1> QED
  BY <1>2, <1>3, <1>4, <1>5 DEF Nodes

\* And what makes one.
LEMMA Make ==
  ASSUME NEW tags, NEW flaws, NEW d \in 1..Depth, NEW t \in tags
  PROVE  /\ \A v \in Texts : [kind |-> "scalar", tag |-> t, value |-> v] \in Documents(tags, flaws)[d]
         /\ \A s \in Seq(Documents(tags, flaws)[d - 1]) :
              [kind |-> "list", tag |-> t, items |-> s] \in Documents(tags, flaws)[d]
         /\ \A at \in [Keys -> {Missing} \cup Documents(tags, flaws)[d - 1]], f \in flaws :
              [kind |-> "map", tag |-> t, at |-> at, flaw |-> f] \in Documents(tags, flaws)[d]
<1>1. d \in 0..Depth /\ d # 0
  BY DepthNat
<1> DEFINE below == Documents(tags, flaws)[d - 1]
<1>2. Documents(tags, flaws)[d] = Nodes(tags, flaws, below)
  BY <1>1, DocumentsDef
<1> HIDE DEF below
<1>3. \A v \in Texts : [kind |-> "scalar", tag |-> t, value |-> v] \in Nodes(tags, flaws, below)
  BY DEF Nodes
<1>4. \A s \in Seq(below) : [kind |-> "list", tag |-> t, items |-> s] \in Nodes(tags, flaws, below)
  BY DEF Nodes
<1>5. \A at \in [Keys -> {Missing} \cup below], f \in flaws :
        [kind |-> "map", tag |-> t, at |-> at, flaw |-> f] \in Nodes(tags, flaws, below)
  BY DEF Nodes
<1> QED
  BY <1>2, <1>3, <1>4, <1>5 DEF below

\* There is no document without a node, and none is an absence or an error.
LEMMA NoNode ==
  ASSUME NEW tags, NEW flaws
  PROVE  /\ Documents(tags, flaws)[0] = {}
         /\ \A d \in 0..Depth : \A n \in Documents(tags, flaws)[d] :
              IsNode(n) /\ n # Missing /\ n # Failed /\ n # Unparsable /\ n # Legacy
<1>1. Documents(tags, flaws)[0] = {}
  <2>1. 0 \in 0..Depth
    BY DepthNat
  <2> QED
    BY <2>1, DocumentsDef, Zenon
<1>2. ASSUME NEW d \in 0..Depth, NEW n \in Documents(tags, flaws)[d]
      PROVE  IsNode(n)
  <2>1. d \in 1..Depth
    BY <1>1, <1>2, DepthNat
  <2> QED
    BY <2>1, <1>2, Shape DEF IsNode
<1>3. ASSUME NEW n, IsNode(n)
      PROVE  n # Missing /\ n # Failed /\ n # Unparsable /\ n # Legacy
  BY <1>3 DEF IsNode, Missing, Failed, Unparsable, Legacy
<1> QED
  BY <1>1, <1>2, <1>3

\* With more tags and flaws there are more documents.
LEMMA MoreTags ==
  ASSUME NEW tags, NEW flaws, NEW tags2, NEW flaws2, tags \subseteq tags2, flaws \subseteq flaws2
  PROVE  \A d \in 0..Depth : Documents(tags, flaws)[d] \subseteq Documents(tags2, flaws2)[d]
<1> DEFINE S == {d \in 0..Depth : Documents(tags, flaws)[d] \subseteq Documents(tags2, flaws2)[d]}
<1>1. Depth \in Nat /\ 0 \in S
  BY NoNode, DepthNat
<1>2. ASSUME NEW d \in 1..Depth, d - 1 \in S
      PROVE  d \in S
  <2> DEFINE less == Documents(tags, flaws)[d - 1]
             more == Documents(tags2, flaws2)[d - 1]
  <2>1. less \subseteq more /\ d \in 0..Depth
    BY <1>2, DepthNat
  <2>2. /\ Documents(tags, flaws)[d] = Nodes(tags, flaws, less)
        /\ Documents(tags2, flaws2)[d] = Nodes(tags2, flaws2, more)
    BY <2>1, DocumentsDef
  <2> HIDE DEF less, more
  <2>3. Seq(less) \subseteq Seq(more)
    BY <2>1
  <2>4. [Keys -> {Missing} \cup less] \subseteq [Keys -> {Missing} \cup more]
    BY <2>1
  <2>5. Nodes(tags, flaws, less) \subseteq Nodes(tags2, flaws2, more)
    BY <2>3, <2>4 DEF Nodes
  <2> QED
    BY <2>1, <2>2, <2>5
<1>3. 0..Depth \subseteq S
  <2> HIDE DEF S
  <2> QED
    BY <1>1, <1>2, Climb
<1> QED
  BY <1>3

\* So there are with more levels.
LEMMA MoreLevels ==
  ASSUME NEW tags, NEW flaws, NEW d \in 0..Depth, NEW e \in d..Depth
  PROVE  Documents(tags, flaws)[d] \subseteq Documents(tags, flaws)[e]
<1> DEFINE S == {i \in 0..(Depth - 1) : Documents(tags, flaws)[i] \subseteq Documents(tags, flaws)[i + 1]}
           R == {i \in 0..(Depth - d) : Documents(tags, flaws)[d] \subseteq Documents(tags, flaws)[d + i]}
<1>0. Depth \in Nat \ {0}
  BY DepthNat
<1>1. 0 \in S
  BY <1>0, NoNode
<1>2. ASSUME NEW i \in 1..(Depth - 1), i - 1 \in S
      PROVE  i \in S
  <2> DEFINE less == Documents(tags, flaws)[i - 1]
             more == Documents(tags, flaws)[i]
  <2>1. less \subseteq more /\ i \in 0..Depth /\ i + 1 \in 0..Depth /\ i # 0 /\ (i + 1) - 1 = i /\ i + 1 # 0
    BY <1>0, <1>2
  <2>2. /\ Documents(tags, flaws)[i] = Nodes(tags, flaws, less)
        /\ Documents(tags, flaws)[i + 1] = Nodes(tags, flaws, more)
    BY <2>1, DocumentsDef
  <2> HIDE DEF less, more
  <2>3. Seq(less) \subseteq Seq(more)
    BY <2>1
  <2>4. [Keys -> {Missing} \cup less] \subseteq [Keys -> {Missing} \cup more]
    BY <2>1
  <2>5. Nodes(tags, flaws, less) \subseteq Nodes(tags, flaws, more)
    BY <2>3, <2>4 DEF Nodes
  <2> QED
    BY <2>1, <2>2, <2>5
<1>3. 0..(Depth - 1) \subseteq S
  <2> HIDE DEF S
  <2> QED
    BY <1>0, <1>1, <1>2, Climb
<1>4. 0 \in R
  BY <1>0
<1>5. ASSUME NEW i \in 1..(Depth - d), i - 1 \in R
      PROVE  i \in R
  <2>1. d + (i - 1) \in S /\ (d + (i - 1)) + 1 = d + i
    BY <1>0, <1>3
  <2> QED
    BY <1>5, <2>1
<1>6. 0..(Depth - d) \subseteq R
  <2> HIDE DEF R
  <2>1. Depth - d \in Nat
    BY <1>0
  <2> QED
    BY <2>1, <1>4, <1>5, Climb
<1>7. e - d \in R /\ d + (e - d) = e
  BY <1>0, <1>6
<1> QED
  BY <1>7

\* What a config is made of.
LEMMA ConfigShape ==
  ASSUME NEW d \in 1..Depth, NEW n \in Configs[d]
  PROVE  /\ n.kind \in {"scalar", "list", "map"} /\ n.tag = "plain"
         /\ IsScalar(n) => n = Scalar(n.value) /\ n.value \in Texts
         /\ IsList(n) => n = List(n.items) /\ n.items \in Seq(Configs[d - 1])
         /\ IsMap(n) => n = Map(n.at) /\ n.at \in [Keys -> {Missing} \cup Configs[d - 1]]
<1>1. n \in Documents({"plain"}, {"none"})[d]
  BY DEF Configs
<1>2. /\ n.kind \in {"scalar", "list", "map"} /\ n.tag \in {"plain"}
      /\ IsScalar(n) => n = [kind |-> "scalar", tag |-> n.tag, value |-> n.value] /\ n.value \in Texts
      /\ IsList(n) => /\ n = [kind |-> "list", tag |-> n.tag, items |-> n.items]
                      /\ n.items \in Seq(Documents({"plain"}, {"none"})[d - 1])
      /\ IsMap(n) => /\ n = [kind |-> "map", tag |-> n.tag, at |-> n.at, flaw |-> n.flaw]
                     /\ n.at \in [Keys -> {Missing} \cup Documents({"plain"}, {"none"})[d - 1]]
                     /\ n.flaw \in {"none"}
  BY <1>1, Shape
<1>3. n.tag = "plain" /\ (IsMap(n) => n.flaw = "none")
  BY <1>2
<1>4. IsScalar(n) => n = Scalar(n.value)
  BY <1>2, <1>3 DEF Scalar
<1>5. IsList(n) => n = List(n.items)
  BY <1>2, <1>3 DEF List
<1>6. IsMap(n) => n = Map(n.at)
  BY <1>2, <1>3 DEF Map
<1> QED
  BY <1>2, <1>3, <1>4, <1>5, <1>6 DEF Configs

\* And what makes one.
LEMMA ConfigMake ==
  ASSUME NEW d \in 1..Depth
  PROVE  /\ \A v \in Texts : Scalar(v) \in Configs[d]
         /\ \A s \in Seq(Configs[d - 1]) : List(s) \in Configs[d]
         /\ \A at \in [Keys -> {Missing} \cup Configs[d - 1]] : Map(at) \in Configs[d]
<1>1. "plain" \in {"plain"} /\ "none" \in {"none"}
  OBVIOUS
<1>2. /\ \A v \in Texts : [kind |-> "scalar", tag |-> "plain", value |-> v] \in Documents({"plain"}, {"none"})[d]
      /\ \A s \in Seq(Documents({"plain"}, {"none"})[d - 1]) :
           [kind |-> "list", tag |-> "plain", items |-> s] \in Documents({"plain"}, {"none"})[d]
      /\ \A at \in [Keys -> {Missing} \cup Documents({"plain"}, {"none"})[d - 1]], f \in {"none"} :
           [kind |-> "map", tag |-> "plain", at |-> at, flaw |-> f] \in Documents({"plain"}, {"none"})[d]
  BY <1>1, Make
<1> QED
  BY <1>1, <1>2 DEF Configs, Scalar, List, Map

\* Without a tag and without a repeated key, an override is what a config is.
LEMMA BothChecks ==
  \A d \in 0..Depth : Undirected[d] \cap Unambiguous[d] \subseteq Configs[d]
<1> DEFINE S == {d \in 0..Depth : Undirected[d] \cap Unambiguous[d] \subseteq Configs[d]}
<1>1. Depth \in Nat /\ 0 \in S
  BY NoNode, DepthNat DEF Undirected
<1>2. ASSUME NEW d \in 1..Depth, d - 1 \in S
      PROVE  d \in S
  <2>1. d \in 0..Depth /\ Undirected[d - 1] \cap Unambiguous[d - 1] \subseteq Configs[d - 1]
    BY <1>2, DepthNat
  <2>2. ASSUME NEW n \in Undirected[d] \cap Unambiguous[d]
        PROVE  n \in Configs[d]
    <3>1. n.kind \in {"scalar", "list", "map"} /\ n.tag \in {"plain"}
      BY Shape DEF Undirected
    <3>2. CASE IsScalar(n)
      <4>1. n = [kind |-> "scalar", tag |-> n.tag, value |-> n.value] /\ n.value \in Texts
        BY <3>2, Shape DEF Undirected
      <4>2. n = Scalar(n.value)
        BY <3>1, <4>1 DEF Scalar
      <4> QED
        BY <4>1, <4>2, ConfigMake
    <3>3. CASE IsList(n)
      <4>1. /\ n = [kind |-> "list", tag |-> n.tag, items |-> n.items]
            /\ n.items \in Seq(Undirected[d - 1])
        BY <3>3, Shape DEF Undirected
      <4>2. n.items \in Seq(Unambiguous[d - 1])
        BY <3>3, Shape DEF Unambiguous
      <4>3. n.items \in Seq(Configs[d - 1])
        BY <2>1, <4>1, <4>2
      <4>4. n = List(n.items)
        BY <3>1, <4>1 DEF List
      <4> QED
        BY <4>3, <4>4, ConfigMake
    <3>4. CASE IsMap(n)
      <4>1. /\ n = [kind |-> "map", tag |-> n.tag, at |-> n.at, flaw |-> n.flaw]
            /\ n.at \in [Keys -> {Missing} \cup Undirected[d - 1]]
            /\ n.flaw \in {"none", "duplicate"}
        BY <3>4, Shape DEF Undirected
      <4>2. n.at \in [Keys -> {Missing} \cup Unambiguous[d - 1]] /\ n.flaw \in {"none", "directive"}
        BY <3>4, Shape DEF Unambiguous
      <4>3. n.at \in [Keys -> {Missing} \cup Configs[d - 1]] /\ n.flaw = "none"
        BY <2>1, <4>1, <4>2
      <4>4. n = Map(n.at)
        BY <3>1, <4>1, <4>3 DEF Map
      <4> QED
        BY <4>3, <4>4, ConfigMake
    <3> QED
      BY <3>1, <3>2, <3>3, <3>4 DEF IsScalar, IsList, IsMap
  <2> QED
    BY <2>1, <2>2
<1>3. 0..Depth \subseteq S
  <2> HIDE DEF S
  <2> QED
    BY <1>1, <1>2, Climb
<1> QED
  BY <1>3

\* A config is one of the documents an override may be.
LEMMA ConfigsAreOverlays ==
  \A d \in 0..Depth : /\ Configs[d] \subseteq Overlays[d]
                      /\ Configs[d] \subseteq Undirected[d]
                      /\ Configs[d] \subseteq Unambiguous[d]
BY MoreTags DEF Configs, Overlays, Undirected, Unambiguous, Tags, Flaws

\* What an override is made of.
LEMMA OverlayShape ==
  ASSUME NEW d \in 1..Depth, NEW n \in Overlays[d]
  PROVE  /\ n.kind \in {"scalar", "list", "map"} /\ n.tag \in Tags
         /\ IsScalar(n) => n.value \in Texts
         /\ IsList(n) => n.items \in Seq(Overlays[d - 1])
         /\ IsMap(n) => n.at \in [Keys -> {Missing} \cup Overlays[d - 1]]
BY Shape DEF Overlays

\* One node without its directives, when its children are without theirs.
LEMMA StripType ==
  ASSUME NEW d \in 1..Depth, NEW n \in Overlays[d], NEW below,
         \A c \in Overlays[d - 1] : below[c] \in Configs[d - 1] \cup {Failed}
  PROVE  Strip(n, below) \in Configs[d] \cup {Failed}
<1>1. n.kind \in {"scalar", "list", "map"} /\ n.tag \in Tags
  BY OverlayShape
<1>2. CASE n.tag = "delete"
  BY <1>2 DEF Strip
<1>3. CASE n.tag # "delete" /\ IsScalar(n)
  <2>1. Strip(n, below) = Scalar(n.value)
    BY <1>3 DEF Strip, IsScalar, IsMap, IsList
  <2> QED
    BY <1>3, <2>1, OverlayShape, ConfigMake
<1>4. CASE n.tag # "delete" /\ IsList(n)
  <2> DEFINE items == [i \in DOMAIN n.items |-> below[n.items[i]]]
  <2>1. Strip(n, below) = IF \E i \in DOMAIN n.items : below[n.items[i]] = Failed THEN Failed ELSE List(items)
    BY <1>4 DEF Strip, IsScalar, IsMap, IsList
  <2>2. n.items \in Seq(Overlays[d - 1])
    BY <1>4, OverlayShape
  <2>3. \A i \in DOMAIN n.items : below[n.items[i]] \in Configs[d - 1] \cup {Failed}
    BY <2>2
  <2>4. CASE \A i \in DOMAIN n.items : below[n.items[i]] # Failed
    <3>1. items \in Seq(Configs[d - 1])
      BY <2>2, <2>3, <2>4
    <3> QED
      BY <2>1, <2>4, <3>1, ConfigMake
  <2> QED
    BY <2>1, <2>4
<1>5. CASE n.tag # "delete" /\ IsMap(n)
  <2> DEFINE Child(k) == IF n.at[k] = Missing THEN Missing ELSE below[n.at[k]]
             at == [k \in Keys |-> Child(k)]
  <2>1. Strip(n, below) = IF n.flaw = "directive" \/ \E k \in Keys : Child(k) = Failed
                          THEN Failed ELSE Map(at)
    BY <1>5 DEF Strip, IsScalar, IsMap, IsList
  <2>2. n.at \in [Keys -> {Missing} \cup Overlays[d - 1]]
    BY <1>5, OverlayShape
  <2>3. \A k \in Keys : Child(k) \in {Missing} \cup Configs[d - 1] \cup {Failed}
    BY <2>2
  <2>4. CASE \A k \in Keys : Child(k) # Failed
    <3>1. at \in [Keys -> {Missing} \cup Configs[d - 1]]
      BY <2>3, <2>4
    <3> QED
      BY <2>1, <2>4, <3>1, ConfigMake
  <2> QED
    BY <2>1, <2>4
<1> QED
  BY <1>1, <1>2, <1>3, <1>4, <1>5 DEF IsScalar, IsList, IsMap

\* Stripping a whole document.
LEMMA StrippedType ==
  /\ \A d \in 1..Depth : stripped[d] = [n \in Overlays[d] |-> Strip(n, stripped[d - 1])]
  /\ \A d \in 0..Depth : \A n \in Overlays[d] : Stripped(n) \in Configs[d] \cup {Failed}
<1> DEFINE V(e) == IF e = 0 THEN {<<>>}
                   ELSE {g \in [Overlays[e] -> Configs[e] \cup {Failed}] :
                           \A d \in 1..e : \A n \in Overlays[d] : g[n] \in Configs[d] \cup {Failed}}
           W == [e \in 0..Depth |-> V(e)]
           Level(e, v) == [n \in Overlays[e] |-> Strip(n, v)]
           step == [e \in 1..Depth |-> [v \in W[e - 1] |-> Level(e, v)]]
<1>0. Depth \in Nat \ {0}
  BY DepthNat
<1>1. ASSUME NEW e \in 1..Depth, NEW v \in W[e - 1]
      PROVE  step[e][v] = Level(e, v) /\ step[e][v] \in W[e]
  <2>1. step[e][v] = Level(e, v)
    OBVIOUS
  <2>2. e \in 0..Depth /\ e # 0 /\ e - 1 \in 0..Depth
    BY <1>0
  <2>3. \A d \in 1..e : Overlays[d] \subseteq Overlays[e] /\ d \in 1..Depth
    BY <1>0, MoreLevels DEF Overlays
  <2>4. ASSUME NEW d \in 1..e, NEW c \in Overlays[d - 1]
        PROVE  v[c] \in Configs[d - 1] \cup {Failed}
    <3>1. d - 1 # 0
      BY NoNode, <2>4 DEF Overlays
    <3>2. d - 1 \in 1..(e - 1)
      BY <3>1, <1>0
    <3>3. v \in V(e - 1) /\ e - 1 # 0
      BY <3>2, <2>2
    <3> QED
      BY <3>2, <3>3
  <2>5. \A d \in 1..e : \A n \in Overlays[d] : Strip(n, v) \in Configs[d] \cup {Failed}
    BY <2>3, <2>4, StripType
  <2>6. \A d \in 1..e : \A n \in Overlays[d] : Level(e, v)[n] \in Configs[d] \cup {Failed}
    BY <2>3, <2>5
  <2>7. Level(e, v) \in [Overlays[e] -> Configs[e] \cup {Failed}]
    BY <2>2, <2>5
  <2>8. Level(e, v) \in V(e)
    <3> HIDE DEF Level
    <3> QED
      BY <2>2, <2>6, <2>7
  <2> HIDE DEF Level, step, V
  <2> QED
    BY <2>1, <2>2, <2>8
<1>2. W[0] = {<<>>}
  BY <1>0
<1>3. PICK f : ByLevels(Depth, <<>>, step, f) /\ f \in Within(Depth, W)
  <2> HIDE DEF W, step
  <2>1. <<>> \in W[0]
    BY <1>2
  <2>2. \A e \in 1..Depth : \A v \in W[e - 1] : step[e][v] \in W[e]
    BY <1>1
  <2>3. Steps(Depth, W, <<>>, step)
    BY <2>1, <2>2 DEF Steps
  <2> QED
    BY <1>0, <2>3, Recursion
<1>4. f = [e \in 0..Depth |-> IF e = 0 THEN <<>> ELSE [n \in Overlays[e] |-> Strip(n, f[e - 1])]]
  <2>1. \A e \in 0..Depth : e # 0 => e \in 1..Depth /\ e - 1 \in 0..Depth
    BY <1>0
  <2>2. \A e \in 0..Depth : e # 0 => step[e][f[e - 1]] = [n \in Overlays[e] |-> Strip(n, f[e - 1])]
    <3> HIDE DEF W, step
    <3> QED
      BY <1>1, <1>3, <2>1 DEF Within
  <2> HIDE DEF W, step
  <2> QED
    BY <1>3, <2>2 DEF ByLevels
<1>5. stripped = [e \in 0..Depth |-> IF e = 0 THEN <<>> ELSE [n \in Overlays[e] |-> Strip(n, stripped[e - 1])]]
  BY <1>4, Zenon DEF stripped
<1>6. \A d \in 1..Depth : stripped[d] = [n \in Overlays[d] |-> Strip(n, stripped[d - 1])]
  <2>1. \A d \in 1..Depth : d \in 0..Depth /\ d # 0
    BY <1>0
  <2> QED
    BY <1>5, <2>1
<1>7. 0..Depth \subseteq {e \in 0..Depth : stripped[e] \in W[e]}
  <2>1. stripped[0] \in W[0]
    BY <1>0, <1>2, <1>5
  <2>2. ASSUME NEW e \in 1..Depth, stripped[e - 1] \in W[e - 1]
        PROVE  stripped[e] \in W[e]
    <3>1. stripped[e] = Level(e, stripped[e - 1])
      BY <1>6
    <3> HIDE DEF W, Level
    <3> QED
      BY <1>1, <2>2, <3>1
  <2> HIDE DEF W
  <2> DEFINE S == {e \in 0..Depth : stripped[e] \in W[e]}
  <2>3. 0 \in S
    BY <1>0, <2>1
  <2>4. \A e \in 1..Depth : e - 1 \in S => e \in S
    BY <1>0, <2>2
  <2> HIDE DEF S
  <2>5. Depth \in Nat
    BY <1>0
  <2>6. 0..Depth \subseteq S
    BY <2>3, <2>4, <2>5, Climb
  <2> QED
    BY <2>6 DEF S
<1>8. ASSUME NEW d \in 0..Depth, NEW n \in Overlays[d]
      PROVE  Stripped(n) \in Configs[d] \cup {Failed}
  <2>1. Depth \in 0..Depth /\ Depth # 0
    BY <1>0
  <2>3. stripped[Depth] \in W[Depth]
    BY <1>7, <2>1
  <2>4. stripped[Depth] \in V(Depth)
    <3> HIDE DEF V
    <3> QED
      BY <2>1, <2>3
  <2>2. d \in 1..Depth
    BY <1>0, NoNode, <1>8 DEF Overlays
  <2> QED
    BY <2>1, <2>2, <2>4 DEF Stripped
<1> QED
  BY <1>6, <1>8

\* A config has no directive to strip.
LEMMA StripPlain ==
  ASSUME NEW d \in 1..Depth, NEW c \in Configs[d], NEW below,
         \A x \in Configs[d - 1] : below[x] = x
  PROVE  Strip(c, below) = c
<1>0. d - 1 \in 0..Depth
  BY DepthNat
<1>1. c.kind \in {"scalar", "list", "map"} /\ c.tag = "plain"
  BY ConfigShape
<1>2. CASE IsScalar(c)
  <2>1. Strip(c, below) = Scalar(c.value)
    BY <1>1, <1>2 DEF Strip, IsScalar, IsMap, IsList
  <2> QED
    BY <1>2, <2>1, ConfigShape
<1>3. CASE IsList(c)
  <2> DEFINE items == [i \in DOMAIN c.items |-> below[c.items[i]]]
  <2>1. Strip(c, below) = IF \E i \in DOMAIN c.items : below[c.items[i]] = Failed THEN Failed ELSE List(items)
    BY <1>1, <1>3 DEF Strip, IsScalar, IsMap, IsList
  <2>2. c = List(c.items) /\ c.items \in Seq(Configs[d - 1])
    BY <1>3, ConfigShape
  <2>3. \A i \in DOMAIN c.items : below[c.items[i]] = c.items[i] /\ c.items[i] # Failed
    BY <1>0, <2>2, NoNode DEF Configs
  <2>4. items = c.items
    BY <2>2, <2>3
  <2> QED
    BY <2>1, <2>2, <2>3, <2>4
<1>4. CASE IsMap(c)
  <2> DEFINE Child(k) == IF c.at[k] = Missing THEN Missing ELSE below[c.at[k]]
             at == [k \in Keys |-> Child(k)]
  <2>1. c = Map(c.at) /\ c.at \in [Keys -> {Missing} \cup Configs[d - 1]]
    BY <1>4, ConfigShape
  <2>2. c.flaw # "directive"
    BY <2>1 DEF Map
  <2>3. Strip(c, below) = IF \E k \in Keys : Child(k) = Failed THEN Failed ELSE Map(at)
    BY <1>1, <1>4, <2>2 DEF Strip, IsScalar, IsMap, IsList
  <2>4. \A k \in Keys : Child(k) = c.at[k] /\ c.at[k] # Failed
    BY <1>0, <2>1, NoNode DEF Configs, Missing, Failed
  <2>5. at = c.at
    BY <2>1, <2>4
  <2> HIDE DEF at
  <2> QED
    BY <2>1, <2>3, <2>4, <2>5
<1> QED
  BY <1>1, <1>2, <1>3, <1>4 DEF IsScalar, IsList, IsMap

\* Nor has a whole one.
LEMMA StrippedPlain ==
  /\ \A d \in 0..Depth : \A e \in d..Depth : \A c \in Configs[d] : stripped[e][c] = c
  /\ \A d \in 0..Depth : \A c \in Configs[d] : Stripped(c) = c
<1> DEFINE S == {d \in 0..Depth : \A e \in d..Depth : \A c \in Configs[d] : stripped[e][c] = c}
<1>0. Depth \in Nat \ {0}
  BY DepthNat
<1>1. 0 \in S
  BY <1>0, NoNode DEF Configs
<1>2. ASSUME NEW d \in 1..Depth, d - 1 \in S
      PROVE  d \in S
  <2>1. ASSUME NEW e \in d..Depth, NEW c \in Configs[d]
        PROVE  stripped[e][c] = c
    <3>1. e \in 1..Depth /\ e - 1 \in (d - 1)..Depth /\ d \in 0..Depth
      BY <1>0
    <3>2. c \in Overlays[e]
      BY <3>1, MoreLevels, ConfigsAreOverlays DEF Overlays
    <3>3. stripped[e][c] = Strip(c, stripped[e - 1])
      BY <3>1, <3>2, StrippedType
    <3>4. \A x \in Configs[d - 1] : stripped[e - 1][x] = x
      BY <1>2, <3>1
    <3> QED
      BY <3>3, <3>4, StripPlain
  <2> QED
    BY <1>0, <2>1
<1>3. 0..Depth \subseteq S
  <2> HIDE DEF S
  <2> QED
    BY <1>0, <1>1, <1>2, Climb
<1>4. \A d \in 0..Depth : Depth \in d..Depth
  BY <1>0
<1> QED
  BY <1>3, <1>4 DEF Stripped

\* A list without some items has the others, and from the set it had.
LEMMA WithoutItems ==
  ASSUME NEW X, NEW s \in Seq(X), NEW gone
  PROVE  /\ Without(s, gone) \in Seq(X)
         /\ ItemsOf(Without(s, gone)) = ItemsOf(s) \ gone
<1> DEFINE n == Len(s)
           Add(i, t) == IF s[i] \in gone THEN t ELSE Append(t, s[i])
           V == [i \in 0..n |-> {t \in Seq(X) : ItemsOf(t) = {s[j] : j \in 1..i} \ gone}]
           step == [i \in 1..n |-> [t \in V[i - 1] |-> Add(i, t)]]
<1>0. n \in Nat /\ s \in [1..n -> X]
  OBVIOUS
<1>1. <<>> \in V[0]
  BY <1>0 DEF ItemsOf
<1>2. ASSUME NEW i \in 1..n, NEW t \in V[i - 1]
      PROVE  step[i][t] = Add(i, t) /\ Add(i, t) \in V[i]
  <2>1. t \in Seq(X) /\ ItemsOf(t) = {s[j] : j \in 1..(i - 1)} \ gone /\ s[i] \in X
    BY <1>0
  <2>2. {s[j] : j \in 1..i} = {s[j] : j \in 1..(i - 1)} \cup {s[i]}
    BY <1>0
  <2>3. ItemsOf(Append(t, s[i])) = ItemsOf(t) \cup {s[i]} /\ Append(t, s[i]) \in Seq(X)
    <3>1. /\ Append(t, s[i]) \in Seq(X) /\ Len(Append(t, s[i])) = Len(t) + 1
          /\ \A j \in 1..Len(t) : Append(t, s[i])[j] = t[j]
          /\ Append(t, s[i])[Len(t) + 1] = s[i]
      BY <2>1
    <3>2. DOMAIN t = 1..Len(t) /\ DOMAIN Append(t, s[i]) = 1..(Len(t) + 1) /\ Len(t) \in Nat
      BY <2>1, <3>1
    <3> QED
      BY <3>1, <3>2 DEF ItemsOf
  <2>4. Add(i, t) \in Seq(X) /\ ItemsOf(Add(i, t)) = {s[j] : j \in 1..i} \ gone
    BY <2>1, <2>2, <2>3
  <2>5. i \in 0..n
    BY <1>0
  <2> QED
    BY <2>4, <2>5
<1>3. \E f : ByLevels(n, <<>>, step, f) /\ f \in Within(n, V)
  <2> HIDE DEF V, n, step
  <2>1. \A i \in 1..n : \A t \in V[i - 1] : step[i][t] \in V[i]
    BY <1>2
  <2>2. Steps(n, V, <<>>, step)
    BY <1>1, <2>1 DEF Steps
  <2> QED
    BY <1>0, <2>2, Recursion
<1>4. \E f : f = [i \in 0..n |-> IF i = 0 THEN <<>> ELSE Add(i, f[i - 1])]
  <2>1. PICK f : ByLevels(n, <<>>, step, f) /\ f \in Within(n, V)
    BY <1>3
  <2>2. \A i \in 0..n : i # 0 => i \in 1..n /\ f[i - 1] \in V[i - 1]
    <3> HIDE DEF V, n
    <3>1. \A i \in 0..n : i # 0 => i \in 1..n /\ i - 1 \in 0..n
      BY <1>0
    <3>2. \A i \in 0..n : f[i] \in V[i]
      BY <2>1 DEF Within
    <3> QED
      BY <3>1, <3>2
  <2>3. \A i \in 0..n : i # 0 => step[i][f[i - 1]] = Add(i, f[i - 1])
    <3> HIDE DEF V, n, step, Add
    <3> QED
      BY <1>2, <2>2
  <2> HIDE DEF V, n, step, Add
  <2>4. f = [i \in 0..n |-> IF i = 0 THEN <<>> ELSE Add(i, f[i - 1])]
    BY <2>1, <2>3 DEF ByLevels
  <2> QED
    BY <2>4
<1> DEFINE left == CHOOSE f : f = [i \in 0..n |-> IF i = 0 THEN <<>> ELSE Add(i, f[i - 1])]
<1>5. left = [i \in 0..n |-> IF i = 0 THEN <<>> ELSE Add(i, left[i - 1])]
  BY <1>4, Zenon
<1>6. Without(s, gone) = left[n]
  BY DEF Without
<1>7. left[n] \in V[n]
  <2> HIDE DEF left, V, Add, n
  <2> DEFINE S == {i \in 0..n : left[i] \in V[i]}
  <2>1. 0 \in S
    BY <1>0, <1>1, <1>5
  <2>2. ASSUME NEW i \in 1..n, left[i - 1] \in V[i - 1]
        PROVE  left[i] \in V[i]
    <3>1. left[i] = Add(i, left[i - 1])
      BY <1>0, <1>5
    <3> QED
      BY <1>2, <2>2, <3>1
  <2>4. \A i \in 1..n : i - 1 \in S => i \in S
    BY <1>0, <2>2
  <2> HIDE DEF S
  <2>3. 0..n \subseteq S
    BY <1>0, <2>1, <2>4, Climb
  <2> QED
    BY <1>0, <2>3 DEF S
<1>8. left[n] \in Seq(X) /\ ItemsOf(left[n]) = {s[j] : j \in 1..n} \ gone
  <2> HIDE DEF left
  <2> QED
    BY <1>0, <1>7
<1> QED
  BY <1>0, <1>6, <1>8 DEF ItemsOf

\* The first place with a property.
LEMMA FirstOf ==
  ASSUME NEW n \in Nat, NEW P \in SUBSET (1..n), P # {}
  PROVE  \E i \in P : \A j \in 1..(i - 1) : j \notin P
<1>1. PICK i \in P : \A j \in P : i <= j
  BY FirstExists
<1>2. \A j \in 1..(i - 1) : j \notin P
  BY <1>1
<1> QED
  BY <1>1, <1>2

\* A part of a sequence.
LEMMA Part ==
  ASSUME NEW X, NEW s \in Seq(X), NEW m \in 1..(Len(s) + 1), NEW n \in (m - 1)..Len(s)
  PROVE  /\ SubSeq(s, m, n) \in Seq(X)
         /\ Len(SubSeq(s, m, n)) = n - m + 1
         /\ \A i \in 1..(n - m + 1) : SubSeq(s, m, n)[i] = s[m + i - 1]
<1>1. \A i \in m..n : s[i] \in X
  OBVIOUS
<1> QED
  BY <1>1

\* The named item is put where there is a place for it.
LEMMA ReplaceNamedType ==
  ASSUME NEW X, NEW list \in Seq(X), NEW name, NEW item \in X
  PROVE  ReplaceNamed(list, name, item) \in Seq(X)
<1> DEFINE P == {i \in 1..Len(list) : Named(list[i], name)}
<1>1. CASE ItemsNamed(list, name) = {}
  BY <1>1 DEF ReplaceNamed
<1>2. CASE ItemsNamed(list, name) # {}
  <2>1. P # {}
    BY <1>2 DEF ItemsNamed, ItemsOf
  <2>2. \E i \in DOMAIN list : Named(list[i], name) /\ \A j \in 1..(i - 1) : ~Named(list[j], name)
    <3>1. P \in SUBSET (1..Len(list)) /\ Len(list) \in Nat
      OBVIOUS
    <3>2. PICK i \in P : \A j \in 1..(i - 1) : j \notin P
      <4> HIDE DEF P
      <4> QED
        BY <2>1, <3>1, FirstOf
    <3>3. i \in DOMAIN list /\ \A j \in 1..(i - 1) : j \in 1..Len(list)
      BY <3>1, <3>2
    <3> QED
      BY <3>2, <3>3
  <2>3. PICK first : /\ first \in DOMAIN list
                     /\ first = CHOOSE i \in DOMAIN list :
                                  /\ Named(list[i], name)
                                  /\ \A j \in 1..(i - 1) : ~Named(list[j], name)
    BY <2>2, Zenon
  <2>4. ReplaceNamed(list, name, item) =
          SubSeq(list, 1, first - 1) \o <<item>>
            \o Without(SubSeq(list, first + 1, Len(list)), ItemsNamed(list, name))
    BY <1>2, <2>3, Zenon DEF ReplaceNamed
  <2>5. first \in 1..Len(list) /\ Len(list) \in Nat
    BY <2>3
  <2>6. SubSeq(list, 1, first - 1) \in Seq(X)
    <3>1. 1 \in 1..(Len(list) + 1) /\ first - 1 \in (1 - 1)..Len(list)
      BY <2>5
    <3> QED
      BY <3>1, Part
  <2>7. SubSeq(list, first + 1, Len(list)) \in Seq(X)
    <3>1. first + 1 \in 1..(Len(list) + 1) /\ Len(list) \in ((first + 1) - 1)..Len(list)
      BY <2>5
    <3> QED
      BY <3>1, Part
  <2>8. Without(SubSeq(list, first + 1, Len(list)), ItemsNamed(list, name)) \in Seq(X)
    BY <2>7, WithoutItems
  <2> QED
    BY <2>4, <2>6, <2>8
<1> QED
  BY <1>1, <1>2

\* The state of an array merge: items from X, names from T.
States(X, T) ==
    [list : Seq(X), deleted : SUBSET T, added : SUBSET T, more : Seq(X), ok : BOOLEAN]

AllTextsOf == Texts \cup {Missing.kind}

\* The name of an item, and a scalar's value, is a text.
LEMMA NameType ==
  ASSUME NEW e \in 0..Depth, NEW item \in Overlays[e]
  PROVE  /\ e \in 1..Depth
         /\ IsScalar(item) => item.value \in AllTextsOf
         /\ Name(item) \in AllTextsOf
<1>1. e \in 1..Depth
  BY NoNode, DepthNat DEF Overlays
<1>2. IsScalar(item) => item.value \in Texts
  BY <1>1, OverlayShape
<1>3. ASSUME HasName(item) PROVE Get(item, "name").value \in Texts
  <2>1. IsMap(item) /\ IsScalar(Get(item, "name"))
    BY <1>3 DEF HasName
  <2>2. item.at \in [Keys -> {Missing} \cup Overlays[e - 1]]
    BY <1>1, <2>1, OverlayShape
  <2>3. Get(item, "name") # Missing
    BY <2>1 DEF IsScalar, Missing
  <2>4. Get(item, "name") \in Overlays[e - 1]
    BY <2>1, <2>2, <2>3 DEF Get
  <2>5. e - 1 \in 1..Depth
    BY <1>1, <2>4, NoNode, DepthNat DEF Overlays
  <2> QED
    BY <2>1, <2>4, <2>5, OverlayShape
<1>4. Name(item) \in AllTextsOf
  BY <1>3 DEF Name, AllTextsOf
<1> QED
  BY <1>1, <1>2, <1>4 DEF AllTextsOf

\* One item of the overlay keeps the state of the merge one.
LEMMA IdentityItemType ==
  ASSUME NEW e \in 0..Depth, NEW acc \in States(Configs[e], AllTextsOf), NEW item \in Overlays[e]
  PROVE  IdentityItem(acc, item) \in States(Configs[e], AllTextsOf)
<1> DEFINE X == Configs[e]
<1>1. /\ acc.list \in Seq(X) /\ acc.deleted \in SUBSET AllTextsOf /\ acc.added \in SUBSET AllTextsOf
      /\ acc.more \in Seq(X) /\ acc.ok \in BOOLEAN
      /\ acc = [list |-> acc.list, deleted |-> acc.deleted, added |-> acc.added,
                more |-> acc.more, ok |-> acc.ok]
  BY DEF States
<1>2. Reject(acc) \in States(X, AllTextsOf)
  BY <1>1 DEF Reject, States
<1>3. CASE item.tag = "delete" /\ IsScalar(item)
  <2> DEFINE list == Without(acc.list, ItemsNamed(acc.list, item.value))
             new  == [acc EXCEPT !.list = list, !.deleted = @ \cup {item.value}]
  <2>1. IdentityItem(acc, item) \in {Reject(acc), new}
    BY <1>3 DEF IdentityItem
  <2>2. list \in Seq(X)
    BY <1>1, WithoutItems
  <2>3. item.value \in AllTextsOf
    BY <1>3, NameType
  <2>4. new \in States(X, AllTextsOf)
    <3> HIDE DEF list, X
    <3> QED
      BY <1>1, <2>2, <2>3 DEF States
  <2> QED
    BY <1>2, <2>1, <2>4
<1>4. CASE item.tag = "delete" /\ ~IsScalar(item)
  BY <1>2, <1>4 DEF IdentityItem
<1>5. CASE item.tag # "delete"
  <2> DEFINE list == ReplaceNamed(acc.list, Name(item), Stripped(item))
             new  == [acc EXCEPT !.list = list, !.added = @ \cup {Name(item)}]
  <2>1. IdentityItem(acc, item) = Reject(acc) \/ (IdentityItem(acc, item) = new /\ Stripped(item) # Failed)
    BY <1>5 DEF IdentityItem
  <2>2. Stripped(item) # Failed => list \in Seq(X)
    <3>1. Stripped(item) \in X \cup {Failed}
      BY StrippedType
    <3> QED
      BY <1>1, <3>1, ReplaceNamedType
  <2>3. Name(item) \in AllTextsOf
    BY NameType
  <2>4. list \in Seq(X) => new \in States(X, AllTextsOf)
    <3> HIDE DEF list, X
    <3> QED
      BY <1>1, <2>3 DEF States
  <2> QED
    BY <1>2, <2>1, <2>2, <2>4
<1> QED
  BY <1>3, <1>4, <1>5

\* So does one item of the overlay's rules.
LEMMA RuleItemType ==
  ASSUME NEW e \in 0..Depth, NEW acc \in States(Configs[e], AllTextsOf), NEW item \in Overlays[e]
  PROVE  RuleItem(acc, item) \in States(Configs[e], AllTextsOf)
<1> DEFINE X == Configs[e]
<1>1. /\ acc.list \in Seq(X) /\ acc.deleted \in SUBSET AllTextsOf /\ acc.added \in SUBSET AllTextsOf
      /\ acc.more \in Seq(X) /\ acc.ok \in BOOLEAN
      /\ acc = [list |-> acc.list, deleted |-> acc.deleted, added |-> acc.added,
                more |-> acc.more, ok |-> acc.ok]
  BY DEF States
<1>2. Reject(acc) \in States(X, AllTextsOf)
  BY <1>1 DEF Reject, States
<1>3. CASE item.tag = "delete" /\ IsScalar(item)
  <2> DEFINE list == Without(acc.list, RulesOf(acc.list, item.value))
             new  == [acc EXCEPT !.list = list, !.deleted = @ \cup {item.value}]
  <2>1. RuleItem(acc, item) \in {Reject(acc), new}
    BY <1>3 DEF RuleItem
  <2>2. list \in Seq(X)
    BY <1>1, WithoutItems
  <2>3. item.value \in AllTextsOf
    BY <1>3, NameType
  <2>4. new \in States(X, AllTextsOf)
    <3> HIDE DEF list, X
    <3> QED
      BY <1>1, <2>2, <2>3 DEF States
  <2> QED
    BY <1>2, <2>1, <2>4
<1>4. CASE item.tag = "delete" /\ ~IsScalar(item)
  BY <1>2, <1>4 DEF RuleItem
<1>5. CASE item.tag # "delete"
  <2> DEFINE names == IF IsScalar(item) THEN {item.value} ELSE {}
             new  == [acc EXCEPT !.more = Append(@, Stripped(item)), !.added = @ \cup names]
  <2>1. RuleItem(acc, item) = Reject(acc) \/ (RuleItem(acc, item) = new /\ Stripped(item) # Failed)
    BY <1>5 DEF RuleItem
  <2>2. Stripped(item) # Failed => Append(acc.more, Stripped(item)) \in Seq(X)
    <3>1. Stripped(item) \in X \cup {Failed}
      BY StrippedType
    <3> QED
      BY <1>1, <3>1
  <2>3. names \in SUBSET AllTextsOf
    BY NameType
  <2>4. Append(acc.more, Stripped(item)) \in Seq(X) => new \in States(X, AllTextsOf)
    <3> HIDE DEF names, X
    <3> QED
      BY <1>1, <2>3 DEF States
  <2> QED
    BY <1>2, <2>1, <2>2, <2>4
<1> QED
  BY <1>3, <1>4, <1>5

\* Where rules are inserted.
LEMMA InsertPlace ==
  ASSUME NEW X, NEW list \in Seq(X)
  PROVE  \E n \in 0..Len(list) : Fallback(list, n)
<1> DEFINE P == {i \in 1..Len(list) : IsTerminal(list[i])}
<1>1. Len(list) \in Nat /\ P \in SUBSET (1..Len(list))
  OBVIOUS
<1>2. CASE P = {}
  <2>1. \A i \in 1..Len(list) : ~IsTerminal(list[i])
    BY <1>2
  <2>2. Len(list) \in 0..Len(list) /\ ~(Len(list) < Len(list))
    BY <1>1
  <2>3. Fallback(list, Len(list))
    BY <2>1, <2>2 DEF Fallback
  <2> QED
    BY <2>2, <2>3
<1>3. CASE P # {}
  <2>1. PICK i \in P : \A j \in 1..(i - 1) : j \notin P
    <3> HIDE DEF P
    <3> QED
      BY <1>1, <1>3, FirstOf
  <2>2. /\ i - 1 \in 0..Len(list) /\ (i - 1) + 1 = i
        /\ \A j \in 1..(i - 1) : j \in 1..Len(list)
    BY <1>1
  <2>3. \A j \in 1..(i - 1) : ~IsTerminal(list[j])
    BY <2>1, <2>2
  <2>4. IsTerminal(list[(i - 1) + 1])
    BY <2>2
  <2>5. Fallback(list, i - 1)
    BY <2>3, <2>4 DEF Fallback
  <2> QED
    BY <2>2, <2>5
<1> QED
  BY <1>2, <1>3

\* What inserting them gives.
LEMMA InsertRulesIs ==
  ASSUME NEW X, NEW list \in Seq(X), NEW more \in Seq(X)
  PROVE  /\ InsertRules(list, more) \in Seq(X)
         /\ \E n \in 0..Len(list) :
              /\ Fallback(list, n)
              /\ InsertRules(list, more) = SubSeq(list, 1, n) \o more \o SubSeq(list, n + 1, Len(list))
<1>0. \E n \in 0..Len(list) : Fallback(list, n)
  BY InsertPlace
<1>1. PICK n \in 0..Len(list) : /\ n = CHOOSE m \in 0..Len(list) : Fallback(list, m)
                                /\ Fallback(list, n)
  BY <1>0, Zenon
<1>2. InsertRules(list, more) = SubSeq(list, 1, n) \o more \o SubSeq(list, n + 1, Len(list))
  BY <1>1, Zenon DEF InsertRules
<1>3. n \in 0..Len(list) /\ Len(list) \in Nat
  BY <1>1
<1>4. 1 \in 1..(Len(list) + 1) /\ n \in (1 - 1)..Len(list)
  BY <1>3
<1>5. n + 1 \in 1..(Len(list) + 1) /\ Len(list) \in ((n + 1) - 1)..Len(list)
  BY <1>3
<1>6. SubSeq(list, 1, n) \in Seq(X)
  BY <1>4, Part
<1>7. SubSeq(list, n + 1, Len(list)) \in Seq(X)
  BY <1>5, Part
<1>8. InsertRules(list, more) \in Seq(X)
  BY <1>2, <1>6, <1>7
<1> QED
  BY <1>1, <1>2, <1>8

\* The states of MergeIdentityArray, item by item.
LEMMA IdentityFold ==
  ASSUME NEW e \in 0..Depth, NEW b, b.items \in Seq(Configs[e]), NEW o, o.items \in Seq(Overlays[e])
  PROVE  \E acc \in [0..Len(o.items) -> States(Configs[e], AllTextsOf)] :
           /\ acc[0] = Start(b.items)
           /\ \A i \in 1..Len(o.items) :
                acc[i] = IF acc[i - 1].ok THEN IdentityItem(acc[i - 1], o.items[i]) ELSE acc[i - 1]
           /\ MergeIdentityArray(b, o) = IF acc[Len(o.items)].ok THEN List(acc[Len(o.items)].list) ELSE Failed
<1> DEFINE n == Len(o.items)
           St == States(Configs[e], AllTextsOf)
           Add(i, t) == IF t.ok THEN IdentityItem(t, o.items[i]) ELSE t
           V == [i \in 0..n |-> St]
           step == [i \in 1..n |-> [t \in V[i - 1] |-> Add(i, t)]]
           start == Start(b.items)
<1>0. n \in Nat /\ \A i \in 1..n : o.items[i] \in Overlays[e] /\ i - 1 \in 0..n /\ i \in 0..n /\ i # 0
  OBVIOUS
<1>1. start \in V[0]
  <2>1. <<>> \in Seq(Configs[e]) /\ {} \in SUBSET AllTextsOf /\ TRUE \in BOOLEAN
    OBVIOUS
  <2>2. start \in St
    BY <2>1 DEF Start, States
  <2>3. V[0] = St
    BY <1>0
  <2> QED
    BY <2>2, <2>3
<1>2. ASSUME NEW i \in 1..n, NEW t \in St
      PROVE  Add(i, t) \in St
  BY <1>0, IdentityItemType
<1>3. ASSUME NEW i \in 1..n, NEW t \in V[i - 1]
      PROVE  step[i][t] = Add(i, t) /\ Add(i, t) \in V[i]
  BY <1>0, <1>2
<1>4. PICK f : ByLevels(n, start, step, f) /\ f \in Within(n, V)
  <2> HIDE DEF V, n, step, start
  <2>1. \A i \in 1..n : \A t \in V[i - 1] : step[i][t] \in V[i]
    BY <1>3
  <2>2. Steps(n, V, start, step)
    BY <1>1, <2>1 DEF Steps
  <2> QED
    BY <1>0, <2>2, Recursion
<1>5. f = [i \in 0..n |-> IF i = 0 THEN start ELSE Add(i, f[i - 1])]
  <2> HIDE DEF V, n, step, start, Add
  <2>1. \A i \in 0..n : f[i] \in V[i]
    BY <1>4 DEF Within
  <2>2. \A i \in 0..n : i # 0 => i \in 1..n /\ i - 1 \in 0..n
    BY <1>0
  <2>3. \A i \in 0..n : i # 0 => step[i][f[i - 1]] = Add(i, f[i - 1])
    BY <1>3, <2>1, <2>2
  <2> QED
    BY <1>4, <2>3 DEF ByLevels
<1> DEFINE acc == CHOOSE g : g = [i \in 0..n |-> IF i = 0 THEN start ELSE Add(i, g[i - 1])]
<1>6. acc = [i \in 0..n |-> IF i = 0 THEN start ELSE Add(i, acc[i - 1])]
  BY <1>5, Zenon
<1>7. MergeIdentityArray(b, o) = IF acc[n].ok THEN List(acc[n].list) ELSE Failed
  BY DEF MergeIdentityArray
<1>8. acc[0] = start /\ \A i \in 1..n : acc[i] = Add(i, acc[i - 1])
  <2> HIDE DEF acc, Add, start, n
  <2>1. 0 \in 0..n
    BY <1>0
  <2>2. \A i \in 1..n : i \in 0..n /\ i # 0
    BY <1>0
  <2> QED
    BY <1>6, <2>1, <2>2
<1>9. \A i \in 0..n : acc[i] \in St
  <2> HIDE DEF acc, Add, start, n, St
  <2> DEFINE S == {i \in 0..n : acc[i] \in St}
  <2>1. start \in St
    BY <1>0, <1>1
  <2>2. 0 \in S
    BY <1>0, <1>8, <2>1
  <2>3. \A i \in 1..n : i - 1 \in S => i \in S
    BY <1>0, <1>2, <1>8
  <2> HIDE DEF S
  <2>4. 0..n \subseteq S
    BY <1>0, <2>2, <2>3, Climb
  <2> QED
    BY <2>4 DEF S
<1>10. acc \in [0..n -> St]
  <2> HIDE DEF acc, Add, start, n, St
  <2>1. acc = [i \in 0..n |-> acc[i]]
    BY <1>6
  <2> QED
    BY <1>9, <2>1
<1> HIDE DEF acc
<1> QED
  BY <1>7, <1>8, <1>10

\* The states of MergeRules, item by item.
LEMMA RuleFold ==
  ASSUME NEW e \in 0..Depth, NEW b, b.items \in Seq(Configs[e]), NEW o, o.items \in Seq(Overlays[e])
  PROVE  \E acc \in [0..Len(o.items) -> States(Configs[e], AllTextsOf)] :
           /\ acc[0] = Start(b.items)
           /\ \A i \in 1..Len(o.items) :
                acc[i] = IF acc[i - 1].ok THEN RuleItem(acc[i - 1], o.items[i]) ELSE acc[i - 1]
           /\ MergeRules(b, o) = IF acc[Len(o.items)].ok THEN List(InsertRules(acc[Len(o.items)].list, acc[Len(o.items)].more)) ELSE Failed
<1> DEFINE n == Len(o.items)
           St == States(Configs[e], AllTextsOf)
           Add(i, t) == IF t.ok THEN RuleItem(t, o.items[i]) ELSE t
           V == [i \in 0..n |-> St]
           step == [i \in 1..n |-> [t \in V[i - 1] |-> Add(i, t)]]
           start == Start(b.items)
<1>0. n \in Nat /\ \A i \in 1..n : o.items[i] \in Overlays[e] /\ i - 1 \in 0..n /\ i \in 0..n /\ i # 0
  OBVIOUS
<1>1. start \in V[0]
  <2>1. <<>> \in Seq(Configs[e]) /\ {} \in SUBSET AllTextsOf /\ TRUE \in BOOLEAN
    OBVIOUS
  <2>2. start \in St
    BY <2>1 DEF Start, States
  <2>3. V[0] = St
    BY <1>0
  <2> QED
    BY <2>2, <2>3
<1>2. ASSUME NEW i \in 1..n, NEW t \in St
      PROVE  Add(i, t) \in St
  BY <1>0, RuleItemType
<1>3. ASSUME NEW i \in 1..n, NEW t \in V[i - 1]
      PROVE  step[i][t] = Add(i, t) /\ Add(i, t) \in V[i]
  BY <1>0, <1>2
<1>4. PICK f : ByLevels(n, start, step, f) /\ f \in Within(n, V)
  <2> HIDE DEF V, n, step, start
  <2>1. \A i \in 1..n : \A t \in V[i - 1] : step[i][t] \in V[i]
    BY <1>3
  <2>2. Steps(n, V, start, step)
    BY <1>1, <2>1 DEF Steps
  <2> QED
    BY <1>0, <2>2, Recursion
<1>5. f = [i \in 0..n |-> IF i = 0 THEN start ELSE Add(i, f[i - 1])]
  <2> HIDE DEF V, n, step, start, Add
  <2>1. \A i \in 0..n : f[i] \in V[i]
    BY <1>4 DEF Within
  <2>2. \A i \in 0..n : i # 0 => i \in 1..n /\ i - 1 \in 0..n
    BY <1>0
  <2>3. \A i \in 0..n : i # 0 => step[i][f[i - 1]] = Add(i, f[i - 1])
    BY <1>3, <2>1, <2>2
  <2> QED
    BY <1>4, <2>3 DEF ByLevels
<1> DEFINE acc == CHOOSE g : g = [i \in 0..n |-> IF i = 0 THEN start ELSE Add(i, g[i - 1])]
<1>6. acc = [i \in 0..n |-> IF i = 0 THEN start ELSE Add(i, acc[i - 1])]
  BY <1>5, Zenon
<1>7. MergeRules(b, o) = IF acc[n].ok THEN List(InsertRules(acc[n].list, acc[n].more)) ELSE Failed
  BY DEF MergeRules
<1>8. acc[0] = start /\ \A i \in 1..n : acc[i] = Add(i, acc[i - 1])
  <2> HIDE DEF acc, Add, start, n
  <2>1. 0 \in 0..n
    BY <1>0
  <2>2. \A i \in 1..n : i \in 0..n /\ i # 0
    BY <1>0
  <2> QED
    BY <1>6, <2>1, <2>2
<1>9. \A i \in 0..n : acc[i] \in St
  <2> HIDE DEF acc, Add, start, n, St
  <2> DEFINE S == {i \in 0..n : acc[i] \in St}
  <2>1. start \in St
    BY <1>0, <1>1
  <2>2. 0 \in S
    BY <1>0, <1>8, <2>1
  <2>3. \A i \in 1..n : i - 1 \in S => i \in S
    BY <1>0, <1>2, <1>8
  <2> HIDE DEF S
  <2>4. 0..n \subseteq S
    BY <1>0, <2>2, <2>3, Climb
  <2> QED
    BY <2>4 DEF S
<1>10. acc \in [0..n -> St]
  <2> HIDE DEF acc, Add, start, n, St
  <2>1. acc = [i \in 0..n |-> acc[i]]
    BY <1>6
  <2> QED
    BY <1>9, <2>1
<1> HIDE DEF acc
<1> QED
  BY <1>7, <1>8, <1>10

\* So a merged array is an array.
LEMMA ArrayType ==
  ASSUME NEW d \in 1..Depth, NEW b, b.items \in Seq(Configs[d - 1]), NEW o, o.items \in Seq(Overlays[d - 1])
  PROVE  /\ MergeIdentityArray(b, o) \in Configs[d] \cup {Failed}
         /\ MergeRules(b, o) \in Configs[d] \cup {Failed}
<1>0. d - 1 \in 0..Depth /\ Len(o.items) \in Nat /\ Len(o.items) \in 0..Len(o.items)
  BY DepthNat
<1> DEFINE St == States(Configs[d - 1], AllTextsOf)
<1>1. ASSUME NEW t \in St
      PROVE  t.list \in Seq(Configs[d - 1]) /\ t.more \in Seq(Configs[d - 1])
  BY DEF States
<1>2. MergeIdentityArray(b, o) \in Configs[d] \cup {Failed}
  <2>1. PICK acc \in [0..Len(o.items) -> St] :
          MergeIdentityArray(b, o) = IF acc[Len(o.items)].ok THEN List(acc[Len(o.items)].list) ELSE Failed
    BY <1>0, IdentityFold
  <2>2. acc[Len(o.items)] \in St
    BY <1>0
  <2> HIDE DEF St
  <2> QED
    BY <1>1, <2>1, <2>2, ConfigMake
<1>3. MergeRules(b, o) \in Configs[d] \cup {Failed}
  <2>1. PICK acc \in [0..Len(o.items) -> St] :
          MergeRules(b, o) = IF acc[Len(o.items)].ok
                             THEN List(InsertRules(acc[Len(o.items)].list, acc[Len(o.items)].more)) ELSE Failed
    BY <1>0, RuleFold
  <2>2. acc[Len(o.items)] \in St
    BY <1>0
  <2> HIDE DEF St
  <2>3. InsertRules(acc[Len(o.items)].list, acc[Len(o.items)].more) \in Seq(Configs[d - 1])
    BY <1>1, <2>2, InsertRulesIs
  <2> QED
    BY <2>1, <2>3, ConfigMake
<1> QED
  BY <1>2, <1>3

\* The mapping and the list the code starts from when there is nothing to merge with.
LEMMA EmptyType ==
  ASSUME NEW d \in 1..Depth
  PROVE  /\ Mapping(<<>>) = Map([k \in Keys |-> Missing]) /\ Mapping(<<>>) \in Configs[d]
         /\ List(<<>>) \in Configs[d]
<1>1. Mapping(<<>>) = Map([k \in Keys |-> Missing])
  BY DEF Mapping
<1>2. [k \in Keys |-> Missing] \in [Keys -> {Missing} \cup Configs[d - 1]]
  OBVIOUS
<1>3. <<>> \in Seq(Configs[d - 1])
  OBVIOUS
<1> QED
  BY <1>1, <1>2, <1>3, ConfigMake

\* The merge of one node that replaces what was there.
LEMMA MergeReplaced ==
  ASSUME NEW b, NEW o, NEW place, NEW below, o.tag = "replace" \/ IsScalar(o)
  PROVE  Merge(b, o, place, below) = Stripped(o)
<1>1. CASE o.tag = "replace"
  BY <1>1 DEF Merge
<1>2. CASE o.tag # "replace" /\ IsScalar(o)
  BY <1>2 DEF Merge, IsMap, IsList, IsScalar
<1> QED
  BY <1>1, <1>2

\* The merge of one mapping.
LEMMA MergeOfMaps ==
  ASSUME NEW b, NEW o, NEW place, NEW below, o.tag # "replace", IsMap(o)
  PROVE  Merge(b, o, place, below) = MergeMapping(IF IsMap(b) THEN b ELSE Mapping(<<>>), o, place, below)
BY DEF Merge, IsMap, IsList, IsScalar

\* The merge of one list.
LEMMA MergeOfLists ==
  ASSUME NEW b, NEW o, NEW place, NEW below, o.tag # "replace", IsList(o)
  PROVE  Merge(b, o, place, below) = MergeList(IF IsList(b) THEN b ELSE List(<<>>), o, place)
BY DEF Merge, IsMap, IsList, IsScalar

\* An entry of a merged mapping that the overlay does not have.
LEMMA EntryUntouched ==
  ASSUME NEW b, NEW o, NEW k, NEW place, NEW below, o.at[k] = Missing
  PROVE  Entry(b, o, place, below, k) = Get(b, k)
<1>1. ~IsNode(o.at[k]) /\ ~IsDeletion(o.at[k])
  BY DEF IsDeletion, IsNode, Missing
<1> QED
  BY <1>1, Zenon DEF Entry

\* One it deletes.
LEMMA EntryDeleted ==
  ASSUME NEW b, NEW o, NEW k, NEW place, NEW below, o.at[k] # Missing, IsDeletion(o.at[k])
  PROVE  Entry(b, o, place, below, k) = IF IsNull(o.at[k]) /\ Get(b, k) # Missing THEN Missing ELSE Failed
BY Zenon DEF Entry

\* One of the providers.
LEMMA EntryOfProviders ==
  ASSUME NEW b, NEW o, NEW k, NEW place, NEW below,
         o.at[k] # Missing, IsNode(o.at[k]), ~IsDeletion(o.at[k]), place \in ProviderMaps
  PROVE  Entry(b, o, place, below, k) = Stripped(o.at[k])
BY Zenon DEF Entry

\* Children are at one of the places.
LEMMA BelowType ==
  ASSUME NEW place \in Places, NEW k \in Keys
  PROVE  Below(place, k) \in Places
BY DEF Below, Places

\* An entry of a mapping, when the children are merged to configs.
LEMMA EntryType ==
  ASSUME NEW d \in 1..Depth, NEW b \in Configs[d], IsMap(b), NEW o \in Overlays[d], IsMap(o),
         NEW place \in Places, NEW below, NEW k \in Keys,
         \A x \in Configs[d - 1] \cup {Missing}, c \in Overlays[d - 1], p \in Places :
            below[<<x, c, p>>] \in Configs[d - 1] \cup {Failed}
  PROVE  Entry(b, o, place, below, k) \in {Missing, Failed} \cup Configs[d - 1]
<1>0. d - 1 \in 0..Depth
  BY DepthNat
<1>1. o.at[k] \in {Missing} \cup Overlays[d - 1]
  BY OverlayShape
<1>2. Get(b, k) \in {Missing} \cup Configs[d - 1]
  BY ConfigShape DEF Get
<1>6. o.at[k] = Missing \/ IsNode(o.at[k])
  BY <1>0, <1>1, NoNode DEF Overlays
<1>3. CASE o.at[k] = Missing
  <2>1. Entry(b, o, place, below, k) = Get(b, k)
    BY <1>3, EntryUntouched
  <2> QED
    BY <1>2, <2>1
<1>4. CASE o.at[k] # Missing /\ o.at[k].tag = "delete"
  <2>1. Entry(b, o, place, below, k) = IF IsNull(o.at[k]) /\ Get(b, k) # Missing THEN Missing ELSE Failed
    <3>1. IsDeletion(o.at[k])
      BY <1>4, <1>6 DEF IsDeletion
    <3> QED
      BY <1>4, <3>1, EntryDeleted
  <2> QED
    BY <2>1
<1>5. CASE o.at[k] # Missing /\ o.at[k].tag # "delete"
  <2>1. Entry(b, o, place, below, k) \in {Stripped(o.at[k]), below[<<Get(b, k), o.at[k], Below(place, k)>>]}
    <3>1. o.at[k] # Missing /\ IsNode(o.at[k]) /\ ~IsDeletion(o.at[k])
      BY <1>5, <1>6 DEF IsDeletion
    <3>2. CASE place \in ProviderMaps
      <4>1. Entry(b, o, place, below, k) = Stripped(o.at[k])
        BY <3>1, <3>2, EntryOfProviders
      <4> QED
        BY <4>1
    <3>3. CASE place \notin ProviderMaps
      <4>1. Entry(b, o, place, below, k) = below[<<Get(b, k), o.at[k], Below(place, k)>>]
        BY <3>1, <3>3, Zenon DEF Entry
      <4> QED
        BY <4>1
    <3> QED
      BY <3>2, <3>3
  <2>2. Stripped(o.at[k]) \in Configs[d - 1] \cup {Failed}
    BY <1>0, <1>1, <1>5, StrippedType
  <2>3. below[<<Get(b, k), o.at[k], Below(place, k)>>] \in Configs[d - 1] \cup {Failed}
    BY <1>1, <1>2, <1>5, BelowType
  <2> QED
    BY <2>1, <2>2, <2>3
<1> QED
  BY <1>3, <1>4, <1>5

\* One node merged, when its children are.
LEMMA MergeType ==
  ASSUME NEW d \in 1..Depth, NEW b \in Configs[d] \cup {Missing}, NEW o \in Overlays[d],
         NEW place \in Places, NEW below,
         \A x \in Configs[d - 1] \cup {Missing}, c \in Overlays[d - 1], p \in Places :
            below[<<x, c, p>>] \in Configs[d - 1] \cup {Failed}
  PROVE  Merge(b, o, place, below) \in Configs[d] \cup {Failed}
<1>0. d \in 0..Depth /\ d - 1 \in 0..Depth
  BY DepthNat
<1>1. o.kind \in {"scalar", "list", "map"} /\ Stripped(o) \in Configs[d] \cup {Failed}
  BY <1>0, OverlayShape, StrippedType
<1>2. ASSUME NEW bm \in Configs[d], IsMap(bm), IsMap(o)
      PROVE  MergeMapping(bm, o, place, below) \in Configs[d] \cup {Failed}
  <2> DEFINE E(k) == Entry(bm, o, place, below, k)
             at == [k \in Keys |-> E(k)]
  <2>1. \A k \in Keys : E(k) \in {Missing, Failed} \cup Configs[d - 1]
    BY <1>2, EntryType
  <2>2. MergeMapping(bm, o, place, below) =
          IF o.flaw = "directive" \/ \E k \in Keys : E(k) = Failed THEN Failed ELSE Map(at)
    BY DEF MergeMapping
  <2> HIDE DEF E
  <2>3. CASE \A k \in Keys : E(k) # Failed
    <3>1. at \in [Keys -> {Missing} \cup Configs[d - 1]]
      BY <2>1, <2>3
    <3> QED
      BY <2>2, <2>3, <3>1, ConfigMake
  <2> QED
    BY <2>2, <2>3
<1>3. ASSUME NEW bl \in Configs[d], IsList(bl), IsList(o)
      PROVE  MergeList(bl, o, place) \in Configs[d] \cup {Failed}
  <2>1. bl.items \in Seq(Configs[d - 1]) /\ o.items \in Seq(Overlays[d - 1])
    BY <1>3, ConfigShape, OverlayShape
  <2> QED
    BY <1>1, <2>1, ArrayType DEF MergeList
<1>4. b \in Configs[d] \/ (b = Missing /\ ~IsMap(b) /\ ~IsList(b))
  BY DEF Missing, IsMap, IsList
<1>5. (IF IsMap(b) THEN b ELSE Mapping(<<>>)) \in Configs[d] /\ IsMap(IF IsMap(b) THEN b ELSE Mapping(<<>>))
  BY <1>4, EmptyType DEF IsMap, Map
<1>6. (IF IsList(b) THEN b ELSE List(<<>>)) \in Configs[d] /\ IsList(IF IsList(b) THEN b ELSE List(<<>>))
  BY <1>4, EmptyType DEF IsList, List
<1>7. CASE o.tag = "replace" \/ o.kind = "scalar"
  <2>1. Merge(b, o, place, below) = Stripped(o)
    BY <1>7, MergeReplaced DEF IsScalar
  <2> QED
    BY <1>1, <2>1
<1>8. CASE o.tag # "replace" /\ o.kind = "map"
  <2> DEFINE bm == IF IsMap(b) THEN b ELSE Mapping(<<>>)
  <2>1. Merge(b, o, place, below) = MergeMapping(bm, o, place, below)
    BY <1>8, MergeOfMaps DEF IsMap
  <2>2. bm \in Configs[d] /\ IsMap(bm) /\ IsMap(o)
    BY <1>5, <1>8 DEF IsMap
  <2> HIDE DEF bm
  <2>3. MergeMapping(bm, o, place, below) \in Configs[d] \cup {Failed}
    BY <1>2, <2>2
  <2> QED
    BY <2>1, <2>3
<1>9. CASE o.tag # "replace" /\ o.kind = "list"
  <2> DEFINE bl == IF IsList(b) THEN b ELSE List(<<>>)
  <2>1. Merge(b, o, place, below) = MergeList(bl, o, place)
    BY <1>9, MergeOfLists DEF IsList
  <2>2. bl \in Configs[d] /\ IsList(bl) /\ IsList(o)
    BY <1>6, <1>9 DEF IsList
  <2> HIDE DEF bl
  <2>3. MergeList(bl, o, place) \in Configs[d] \cup {Failed}
    BY <1>3, <2>2
  <2> QED
    BY <2>1, <2>3
<1> QED
  BY <1>1, <1>7, <1>8, <1>9

\* What may be merged on a level: what there is in the config, or nothing, with what
\* there is in the override, at a place.
Pairs(d) == (Configs[d] \cup {Missing}) \X Overlays[d] \X Places

\* One level of the merge.
Level(d, below) == [node \in Pairs(d) |-> Merge(node[1], node[2], node[3], below)]

\* What the levels of the merge are.
MergeValues(d) == IF d = 0 THEN {<<>>} ELSE [Pairs(d) -> Configs[d] \cup {Failed}]

\* A level of the merge, when the one below it is.
LEMMA LevelType ==
  ASSUME NEW d \in 1..Depth, NEW below \in MergeValues(d - 1)
  PROVE  Level(d, below) \in MergeValues(d)
<1>0. d # 0 /\ d \in 0..Depth /\ d - 1 \in 0..Depth
  BY DepthNat
<1>1. ASSUME NEW x \in Configs[d - 1] \cup {Missing}, NEW c \in Overlays[d - 1], NEW p \in Places
      PROVE  below[<<x, c, p>>] \in Configs[d - 1] \cup {Failed}
  <2>1. d - 1 # 0
    BY <1>0, <1>1, NoNode DEF Overlays
  <2>2. below \in [Pairs(d - 1) -> Configs[d - 1] \cup {Failed}]
    BY <2>1 DEF MergeValues
  <2>3. <<x, c, p>> \in Pairs(d - 1)
    BY DEF Pairs
  <2> QED
    BY <2>2, <2>3
<1>2. ASSUME NEW node \in Pairs(d)
      PROVE  Merge(node[1], node[2], node[3], below) \in Configs[d] \cup {Failed}
  <2>1. node[1] \in Configs[d] \cup {Missing} /\ node[2] \in Overlays[d] /\ node[3] \in Places
    BY DEF Pairs
  <2> QED
    BY <1>1, <2>1, MergeType
<1>3. Level(d, below) \in [Pairs(d) -> Configs[d] \cup {Failed}]
  BY <1>2 DEF Level
<1> QED
  BY <1>0, <1>3 DEF MergeValues

\* Merging whole documents.
LEMMA MergeLevels ==
  /\ \A d \in 1..Depth : merge[d] = Level(d, merge[d - 1])
  /\ \A d \in 0..Depth : merge[d] \in MergeValues(d)
<1> DEFINE W == [e \in 0..Depth |-> MergeValues(e)]
           step == [e \in 1..Depth |-> [v \in W[e - 1] |-> Level(e, v)]]
<1>0. Depth \in Nat \ {0}
  BY DepthNat
<1>1. ASSUME NEW e \in 1..Depth, NEW v \in W[e - 1]
      PROVE  step[e][v] = Level(e, v) /\ step[e][v] \in W[e]
  <2>1. step[e][v] = Level(e, v)
    OBVIOUS
  <2>2. e \in 0..Depth /\ e - 1 \in 0..Depth
    BY <1>0
  <2>3. v \in MergeValues(e - 1)
    BY <2>2
  <2>4. Level(e, v) \in MergeValues(e)
    BY <2>3, LevelType
  <2> QED
    BY <2>1, <2>2, <2>4
<1>2. W[0] = {<<>>}
  BY <1>0 DEF MergeValues
<1>3. PICK f : ByLevels(Depth, <<>>, step, f) /\ f \in Within(Depth, W)
  <2> HIDE DEF W, step
  <2>1. <<>> \in W[0]
    BY <1>2
  <2>2. \A e \in 1..Depth : \A v \in W[e - 1] : step[e][v] \in W[e]
    BY <1>1
  <2>3. Steps(Depth, W, <<>>, step)
    BY <2>1, <2>2 DEF Steps
  <2> QED
    BY <1>0, <2>3, Recursion
<1>4. f = [e \in 0..Depth |-> IF e = 0 THEN <<>> ELSE Level(e, f[e - 1])]
  <2>1. \A e \in 0..Depth : e # 0 => e \in 1..Depth /\ e - 1 \in 0..Depth
    BY <1>0
  <2>2. \A e \in 0..Depth : e # 0 => step[e][f[e - 1]] = Level(e, f[e - 1])
    <3> HIDE DEF W, step
    <3> QED
      BY <1>1, <1>3, <2>1 DEF Within
  <2> HIDE DEF W, step
  <2> QED
    BY <1>3, <2>2 DEF ByLevels
<1>5. merge = [e \in 0..Depth |-> IF e = 0 THEN <<>> ELSE Level(e, merge[e - 1])]
  BY <1>4, Zenon DEF merge, Level, Pairs
<1>6. \A d \in 1..Depth : merge[d] = Level(d, merge[d - 1])
  <2>1. \A d \in 1..Depth : d \in 0..Depth /\ d # 0
    BY <1>0
  <2> QED
    BY <1>5, <2>1
<1>7. 0..Depth \subseteq {e \in 0..Depth : merge[e] \in MergeValues(e)}
  <2>1. merge[0] \in MergeValues(0)
    BY <1>0, <1>5 DEF MergeValues
  <2>2. \A e \in 1..Depth : merge[e - 1] \in MergeValues(e - 1) => merge[e] \in MergeValues(e)
    BY <1>6, LevelType
  <2> DEFINE S == {e \in 0..Depth : merge[e] \in MergeValues(e)}
  <2>3. 0 \in S
    BY <1>0, <2>1
  <2>4. \A e \in 1..Depth : e - 1 \in S => e \in S
    BY <1>0, <2>2
  <2> HIDE DEF S
  <2>5. Depth \in Nat
    BY <1>0
  <2>6. 0..Depth \subseteq S
    BY <2>3, <2>4, <2>5, Climb
  <2> QED
    BY <2>6 DEF S
<1> QED
  BY <1>6, <1>7

\* So a merge of a config or nothing with an override is a config, or fails.
LEMMA MergeNodeType ==
  ASSUME NEW b \in Configs[Depth] \cup {Missing}, NEW o \in Overlays[Depth], NEW place \in Places
  PROVE  /\ MergeNode(b, o, place) = Merge(b, o, place, merge[Depth - 1])
         /\ MergeNode(b, o, place) \in Configs[Depth] \cup {Failed}
<1>1. Depth \in 1..Depth /\ Depth \in 0..Depth /\ Depth # 0
  BY DepthNat
<1>2. <<b, o, place>> \in Pairs(Depth)
  BY DEF Pairs
<1>3. merge[Depth] = Level(Depth, merge[Depth - 1])
  BY <1>1, MergeLevels
<1>4. merge[Depth] \in [Pairs(Depth) -> Configs[Depth] \cup {Failed}]
  BY <1>1, MergeLevels DEF MergeValues
<1>5. MergeNode(b, o, place) = Merge(b, o, place, merge[Depth - 1])
  BY <1>2, <1>3 DEF MergeNode, Level
<1> QED
  BY <1>2, <1>4, <1>5 DEF MergeNode

\* What may be rendered.
THEOREM MergeMakesConfigs ==
  ASSUME NEW b \in Configs[Depth] \cup {Missing, Unparsable},
         NEW o \in Overlays[Depth] \cup {Missing, Unparsable, Legacy}
  PROVE  MergeConfig(b, o) \in Configs[Depth] \cup {Missing, Unparsable, Legacy, Failed}
<1>0. Depth \in 0..Depth
  BY DepthNat
<1>1. CASE o = Missing
  BY <1>1 DEF MergeConfig
<1>2. CASE o = Legacy \/ o = Unparsable
  <2>1. ~IsNode(o) /\ o # Missing
    BY <1>2 DEF IsNode, Legacy, Unparsable, Missing
  <2> QED
    BY <1>2, <2>1 DEF MergeConfig
<1>3. CASE o \in Overlays[Depth]
  <2>1. IsNode(o) /\ o # Missing /\ o # Legacy
    BY <1>0, <1>3, NoNode DEF Overlays
  <2>2. CASE HasDuplicateKey(o) \/ o.tag # "plain" \/ b = Unparsable
    BY <2>1, <2>2 DEF MergeConfig
  <2>3. CASE ~HasDuplicateKey(o) /\ o.tag = "plain" /\ b # Unparsable
    <3>1. "document" \in Places
      BY DEF Places
    <3>2. b \in Configs[Depth] \cup {Missing}
      BY <2>3
    <3>3. MergeNode(b, o, "document") \in Configs[Depth] \cup {Failed}
      BY <1>3, <3>1, <3>2, MergeNodeType
    <3>4. MergeNode(Missing, o, "document") \in Configs[Depth] \cup {Failed}
      BY <1>3, <3>1, MergeNodeType
    <3>5. ~HasDirective(o) => o \in Configs[Depth]
      BY <1>0, <1>3, <2>3, BothChecks DEF HasDirective, HasDuplicateKey
    <3>6. MergeConfig(b, o) =
            IF IsMap(b) /\ IsMap(o) THEN MergeNode(b, o, "document")
            ELSE IF ~HasDirective(o) THEN o ELSE MergeNode(Missing, o, "document")
      BY <2>1, <2>3 DEF MergeConfig
    <3> QED
      BY <3>3, <3>4, <3>5, <3>6
  <2> QED
    BY <2>2, <2>3
<1> QED
  BY <1>1, <1>2, <1>3

\* A config has no directive.
LEMMA ConfigsHaveNoDirective ==
  ASSUME NEW n \in Configs[Depth]
  PROVE  ~HasDirective(n)
<1>1. Depth \in 0..Depth
  BY DepthNat
<1> QED
  BY <1>1, MoreTags DEF HasDirective, Configs, Undirected

\* Without, item by item.
LEMMA WithoutFold ==
  ASSUME NEW X, NEW s \in Seq(X), NEW gone
  PROVE  \E left : /\ left[0] = <<>>
                   /\ \A i \in 1..Len(s) :
                        left[i] = IF s[i] \in gone THEN left[i - 1] ELSE Append(left[i - 1], s[i])
                   /\ Without(s, gone) = left[Len(s)]
<1> DEFINE n == Len(s)
           Add(i, t) == IF s[i] \in gone THEN t ELSE Append(t, s[i])
           V == [i \in 0..n |-> Seq(X)]
           step == [i \in 1..n |-> [t \in V[i - 1] |-> Add(i, t)]]
<1>0. n \in Nat /\ s \in [1..n -> X] /\ \A i \in 1..n : i - 1 \in 0..n /\ i \in 0..n /\ i # 0
  OBVIOUS
<1>1. <<>> \in V[0]
  BY <1>0
<1>2. ASSUME NEW i \in 1..n, NEW t \in V[i - 1]
      PROVE  step[i][t] = Add(i, t) /\ Add(i, t) \in V[i]
  <2>1. t \in Seq(X) /\ s[i] \in X
    BY <1>0
  <2>2. Add(i, t) \in Seq(X)
    BY <2>1
  <2> QED
    BY <1>0, <2>2
<1>3. PICK f : ByLevels(n, <<>>, step, f) /\ f \in Within(n, V)
  <2> HIDE DEF V, n, step
  <2>1. \A i \in 1..n : \A t \in V[i - 1] : step[i][t] \in V[i]
    BY <1>2
  <2>2. Steps(n, V, <<>>, step)
    BY <1>1, <2>1 DEF Steps
  <2> QED
    BY <1>0, <2>2, Recursion
<1>4. f = [i \in 0..n |-> IF i = 0 THEN <<>> ELSE Add(i, f[i - 1])]
  <2> HIDE DEF V, n, step, Add
  <2>1. \A i \in 0..n : f[i] \in V[i]
    BY <1>3 DEF Within
  <2>2. \A i \in 0..n : i # 0 => i \in 1..n /\ i - 1 \in 0..n
    BY <1>0
  <2>3. \A i \in 0..n : i # 0 => step[i][f[i - 1]] = Add(i, f[i - 1])
    BY <1>2, <2>1, <2>2
  <2> QED
    BY <1>3, <2>3 DEF ByLevels
<1> DEFINE left == CHOOSE g : g = [i \in 0..n |-> IF i = 0 THEN <<>> ELSE Add(i, g[i - 1])]
<1>5. left = [i \in 0..n |-> IF i = 0 THEN <<>> ELSE Add(i, left[i - 1])]
  BY <1>4, Zenon
<1>6. Without(s, gone) = left[n]
  BY DEF Without
<1> HIDE DEF left
<1>7. left[0] = <<>> /\ \A i \in 1..n : left[i] = Add(i, left[i - 1])
  <2> HIDE DEF Add, n
  <2>1. 0 \in 0..n
    BY <1>0
  <2> QED
    BY <1>0, <1>5, <2>1
<1> QED
  BY <1>6, <1>7

\* The first i items of a sequence, and one item more.
LEMMA Prefix ==
  ASSUME NEW X, NEW s \in Seq(X)
  PROVE  /\ SubSeq(s, 1, 0) = <<>> /\ SubSeq(s, 1, Len(s)) = s
         /\ \A i \in 1..Len(s) : /\ SubSeq(s, 1, i - 1) \in Seq(X) /\ s[i] \in X
                                 /\ SubSeq(s, 1, i) = Append(SubSeq(s, 1, i - 1), s[i])
<1>0. Len(s) \in Nat /\ s \in [1..Len(s) -> X]
  OBVIOUS
<1>1. SubSeq(s, 1, 0) = <<>>
  OBVIOUS
<1>2. SubSeq(s, 1, Len(s)) = s
  OBVIOUS
<1>3. ASSUME NEW i \in 1..Len(s)
      PROVE  /\ SubSeq(s, 1, i - 1) \in Seq(X) /\ s[i] \in X
             /\ SubSeq(s, 1, i) = Append(SubSeq(s, 1, i - 1), s[i])
  <2> DEFINE p == SubSeq(s, 1, i - 1)
             q == SubSeq(s, 1, i)
             a == Append(p, s[i])
  <2>1. p \in Seq(X) /\ Len(p) = i - 1 /\ \A j \in 1..(i - 1) : p[j] = s[j]
    OBVIOUS
  <2>2. q \in Seq(X) /\ Len(q) = i /\ \A j \in 1..i : q[j] = s[j]
    OBVIOUS
  <2> HIDE DEF p, q
  <2>3. /\ a \in Seq(X) /\ Len(a) = i /\ a[i] = s[i]
        /\ \A j \in 1..(i - 1) : a[j] = s[j]
    BY <1>0, <2>1
  <2> HIDE DEF a
  <2>4. \A j \in 1..i : a[j] = q[j]
    BY <2>2, <2>3
  <2>5. a = [j \in 1..i |-> a[j]] /\ q = [j \in 1..i |-> q[j]]
    BY <2>2, <2>3
  <2>6. a = q
    BY <2>4, <2>5
  <2> QED
    BY <1>0, <2>1, <2>6 DEF p, q, a
<1> QED
  BY <1>1, <1>2, <1>3

\* Nothing is left of an empty list.
LEMMA WithoutEmpty ==
  ASSUME NEW gone
  PROVE  Without(<<>>, gone) = <<>>
<1>1. <<>> \in Seq({}) /\ Len(<<>>) = 0
  OBVIOUS
<1> DEFINE w == Without(<<>>, gone)
<1>2. w \in Seq({})
  BY <1>1, WithoutItems
<1> HIDE DEF w
<1>3. w = <<>>
  BY <1>2
<1> QED
  BY <1>3 DEF w

\* What is left of a list with one item more.
LEMMA WithoutAppend ==
  ASSUME NEW X, NEW s \in Seq(X), NEW x \in X, NEW gone
  PROVE  Without(Append(s, x), gone) = IF x \in gone THEN Without(s, gone) ELSE Append(Without(s, gone), x)
<1> DEFINE r == Append(s, x)
           n == Len(s)
<1>1. /\ n \in Nat /\ r \in Seq(X) /\ Len(r) = n + 1 /\ r[n + 1] = x
      /\ \A i \in 1..n : r[i] = s[i] /\ i \in 1..(n + 1)
  OBVIOUS
<1>2. PICK f : /\ f[0] = <<>>
               /\ \A i \in 1..n : f[i] = IF s[i] \in gone THEN f[i - 1] ELSE Append(f[i - 1], s[i])
               /\ Without(s, gone) = f[n]
  BY WithoutFold
<1> HIDE DEF r, n
<1>3. PICK g : /\ g[0] = <<>>
               /\ \A i \in 1..Len(r) : g[i] = IF r[i] \in gone THEN g[i - 1] ELSE Append(g[i - 1], r[i])
               /\ Without(r, gone) = g[Len(r)]
  BY <1>1, WithoutFold
<1> DEFINE S == {i \in 0..n : f[i] = g[i]}
<1>4. 0 \in S
  BY <1>1, <1>2, <1>3
<1>5. \A i \in 1..n : i - 1 \in S => i \in S
  <2>1. \A i \in 1..n : i \in 0..n
    OBVIOUS
  <2> QED
    BY <1>1, <1>2, <1>3, <2>1
<1> HIDE DEF S
<1>8. 0..n \subseteq S
  BY <1>1, <1>4, <1>5, Climb
<1>6. n \in S
  BY <1>1, <1>8
<1>7. g[n + 1] = IF x \in gone THEN g[n] ELSE Append(g[n], x)
  <2>1. n + 1 \in 1..Len(r) /\ (n + 1) - 1 = n
    BY <1>1
  <2> QED
    BY <1>1, <1>3, <2>1
<1> QED
  BY <1>1, <1>2, <1>3, <1>6, <1>7 DEF S, r

\* An item that is gone.
LEMMA WithoutGone ==
  ASSUME NEW X, NEW s \in Seq(X), NEW x \in X, NEW gone, x \in gone
  PROVE  Without(Append(s, x), gone) = Without(s, gone)
BY WithoutAppend

\* One that stays.
LEMMA WithoutLeft ==
  ASSUME NEW X, NEW s \in Seq(X), NEW x \in X, NEW gone, x \notin gone
  PROVE  Without(Append(s, x), gone) = Append(Without(s, gone), x)
BY WithoutAppend

\* What is left depends only on which of its items are gone.
LEMMA WithoutSame ==
  ASSUME NEW X, NEW s \in Seq(X), NEW A, NEW B, \A i \in 1..Len(s) : s[i] \in A <=> s[i] \in B
  PROVE  Without(s, A) = Without(s, B)
<1> DEFINE S == {i \in 0..Len(s) : Without(SubSeq(s, 1, i), A) = Without(SubSeq(s, 1, i), B)}
<1>1. 0 \in S
  <2>1. SubSeq(s, 1, 0) = <<>> /\ 0 \in 0..Len(s)
    OBVIOUS
  <2> QED
    BY <2>1, WithoutEmpty
<1>2. ASSUME NEW i \in 1..Len(s), i - 1 \in S
      PROVE  i \in S
  <2> DEFINE p == SubSeq(s, 1, i - 1)
             x == s[i]
  <2>1. SubSeq(s, 1, i) = Append(p, x) /\ i \in 0..Len(s)
    BY Prefix
  <2>8. p \in Seq(X)
    BY Prefix
  <2>9. x \in X
    BY Prefix
  <2>2. Without(p, A) = Without(p, B)
    BY <1>2
  <2> HIDE DEF p, x
  <2>3. Without(Append(p, x), A) = IF x \in A THEN Without(p, A) ELSE Append(Without(p, A), x)
    <3> HIDE DEF S
    <3> QED
      BY <2>8, <2>9, WithoutGone, WithoutLeft
  <2>4. Without(Append(p, x), B) = IF x \in B THEN Without(p, B) ELSE Append(Without(p, B), x)
    <3> HIDE DEF S
    <3> QED
      BY <2>8, <2>9, WithoutGone, WithoutLeft
  <2> QED
    BY <2>1, <2>2, <2>3, <2>4 DEF x
<1>3. 0..Len(s) \subseteq S
  <2> HIDE DEF S
  <2>1. Len(s) \in Nat
    OBVIOUS
  <2> QED
    BY <1>1, <1>2, <2>1, Climb
<1>4. Len(s) \in 0..Len(s)
  OBVIOUS
<1> QED
  BY <1>3, <1>4, Prefix

\* Items that go in two steps might as well go in one.
LEMMA WithoutBoth ==
  ASSUME NEW X, NEW s \in Seq(X), NEW A, NEW B, NEW C, C = A \cup B
  PROVE  Without(Without(s, A), B) = Without(s, C)
<1> DEFINE S == {i \in 0..Len(s) : Without(Without(SubSeq(s, 1, i), A), B) = Without(SubSeq(s, 1, i), A \cup B)}
<1>1. 0 \in S
  <2>1. SubSeq(s, 1, 0) = <<>> /\ 0 \in 0..Len(s)
    OBVIOUS
  <2> QED
    BY <2>1, WithoutEmpty
<1>2. ASSUME NEW i \in 1..Len(s), i - 1 \in S
      PROVE  i \in S
  <2> DEFINE p == SubSeq(s, 1, i - 1)
             x == s[i]
             w == Without(p, A)
  <2>1. SubSeq(s, 1, i) = Append(p, x) /\ i \in 0..Len(s)
    BY Prefix
  <2>8. p \in Seq(X)
    BY Prefix
  <2>9. x \in X
    BY Prefix
  <2>2. Without(w, B) = Without(p, A \cup B)
    BY <1>2
  <2> HIDE DEF p, x
  <2>3. w \in Seq(X)
    BY <2>8, WithoutItems
  <2>4. Without(Append(p, x), A) = IF x \in A THEN w ELSE Append(w, x)
    <3> HIDE DEF S
    <3> QED
      BY <2>8, <2>9, WithoutGone, WithoutLeft
  <2>7. Without(Append(p, x), A \cup B) =
          IF x \in A \cup B THEN Without(p, A \cup B) ELSE Append(Without(p, A \cup B), x)
    <3> DEFINE both == A \cup B
    <3> HIDE DEF S, both
    <3>1. Without(Append(p, x), both) = IF x \in both THEN Without(p, both) ELSE Append(Without(p, both), x)
      BY <2>8, <2>9, WithoutGone, WithoutLeft
    <3> QED
      BY <3>1 DEF both
  <2> HIDE DEF w
  <2>5. Without(Append(w, x), B) = IF x \in B THEN Without(w, B) ELSE Append(Without(w, B), x)
    <3> HIDE DEF S
    <3> QED
      BY <2>3, <2>9, WithoutGone, WithoutLeft
  <2>6. Without(Without(Append(p, x), A), B) = Without(Append(p, x), A \cup B)
    BY <2>2, <2>4, <2>5, <2>7
  <2> QED
    BY <2>1, <2>6
<1>3. 0..Len(s) \subseteq S
  <2> HIDE DEF S
  <2>1. Len(s) \in Nat
    OBVIOUS
  <2> QED
    BY <1>1, <1>2, <2>1, Climb
<1>4. Len(s) \in 0..Len(s)
  OBVIOUS
<1>5. Without(Without(s, A), B) = Without(s, A \cup B)
  BY <1>3, <1>4, Prefix
<1> QED
  BY <1>5

\* A list stays as it is when nothing of it is gone.
LEMMA WithoutNone ==
  ASSUME NEW X, NEW s \in Seq(X), NEW gone, \A i \in 1..Len(s) : s[i] \notin gone
  PROVE  Without(s, gone) = s
<1> DEFINE S == {i \in 0..Len(s) : Without(SubSeq(s, 1, i), gone) = SubSeq(s, 1, i)}
<1>1. 0 \in S
  <2>1. SubSeq(s, 1, 0) = <<>> /\ 0 \in 0..Len(s)
    OBVIOUS
  <2> QED
    BY <2>1, WithoutEmpty
<1>2. ASSUME NEW i \in 1..Len(s), i - 1 \in S
      PROVE  i \in S
  <2> DEFINE p == SubSeq(s, 1, i - 1)
             x == s[i]
  <2>1. SubSeq(s, 1, i) = Append(p, x) /\ i \in 0..Len(s) /\ x \notin gone
    BY Prefix
  <2>2. p \in Seq(X)
    BY Prefix
  <2>3. x \in X
    BY Prefix
  <2>4. Without(p, gone) = p
    BY <1>2
  <2>5. Without(Append(p, x), gone) = IF x \in gone THEN Without(p, gone) ELSE Append(Without(p, gone), x)
    <3> HIDE DEF p, x, S
    <3> QED
      BY <2>2, <2>3, WithoutGone, WithoutLeft
  <2> HIDE DEF p, x
  <2> QED
    BY <2>1, <2>4, <2>5
<1>3. 0..Len(s) \subseteq S
  <2> HIDE DEF S
  <2>1. Len(s) \in Nat
    OBVIOUS
  <2> QED
    BY <1>1, <1>2, <2>1, Climb
<1>4. Len(s) \in 0..Len(s)
  OBVIOUS
<1> QED
  BY <1>3, <1>4, Prefix

\* A mapping and an override that is one are merged key by key, when nothing fails.
LEMMA MergedMapping ==
  ASSUME NEW b \in Configs[Depth], IsMap(b), NEW o \in Overlays[Depth], IsMap(o), MergeConfig(b, o) # Failed
  PROVE  /\ o.tag = "plain" /\ o.flaw = "none"
         /\ \A k \in Keys : Entry(b, o, "document", merge[Depth - 1], k) # Failed
         /\ MergeConfig(b, o) = Map([k \in Keys |-> Entry(b, o, "document", merge[Depth - 1], k)])
<1>0. Depth \in 1..Depth /\ Depth \in 0..Depth /\ "document" \in Places
  BY DepthNat DEF Places
<1>1. IsNode(o) /\ o # Missing /\ o # Legacy /\ b # Unparsable
  BY <1>0, NoNode DEF Overlays, Configs
<1>2. ~HasDuplicateKey(o) /\ o.tag = "plain" /\ MergeConfig(b, o) = MergeNode(b, o, "document")
  BY <1>1 DEF MergeConfig
<1>3. MergeNode(b, o, "document") = Merge(b, o, "document", merge[Depth - 1])
  BY <1>0, MergeNodeType
<1>4. Merge(b, o, "document", merge[Depth - 1]) = MergeMapping(b, o, "document", merge[Depth - 1])
  <2>1. o.tag # "replace"
    BY <1>2
  <2> QED
    BY <2>1, MergeOfMaps
<1>5. o.flaw # "directive" /\ \A k \in Keys : Entry(b, o, "document", merge[Depth - 1], k) # Failed
  BY <1>2, <1>3, <1>4 DEF MergeMapping
<1>6. MergeConfig(b, o) = Map([k \in Keys |-> Entry(b, o, "document", merge[Depth - 1], k)])
  BY <1>2, <1>3, <1>4, <1>5 DEF MergeMapping
<1>7. o.flaw # "duplicate"
  <2>1. o \in Unambiguous[Depth]
    BY <1>2 DEF HasDuplicateKey
  <2>2. o \in Documents(Tags, {"none", "directive"})[Depth]
    BY <2>1 DEF Unambiguous
  <2>3. o.flaw \in {"none", "directive"}
    BY <1>0, <2>2, Shape
  <2> QED
    BY <2>3
<1>8. o.flaw \in Flaws
  BY <1>0, Shape DEF Overlays
<1> QED
  BY <1>2, <1>5, <1>6, <1>7, <1>8 DEF Flaws

\* What such a mapping has for a key: what the base has, nothing, or the two merged.
LEMMA MergedKey ==
  ASSUME NEW b \in Configs[Depth], IsMap(b), NEW o \in Overlays[Depth], IsMap(o), MergeConfig(b, o) # Failed,
         NEW k \in Keys
  PROVE  /\ IsMap(MergeConfig(b, o))
         /\ Get(MergeConfig(b, o), k) = Entry(b, o, "document", merge[Depth - 1], k)
         /\ Get(MergeConfig(b, o), k) # Failed
         /\ Get(o, k) = o.at[k]
<1>1. MergeConfig(b, o) = Map([x \in Keys |-> Entry(b, o, "document", merge[Depth - 1], x)])
  BY MergedMapping
<1>2. IsMap(MergeConfig(b, o)) /\ MergeConfig(b, o).at[k] = Entry(b, o, "document", merge[Depth - 1], k)
  BY <1>1 DEF IsMap, Map
<1>3. Get(MergeConfig(b, o), k) = Entry(b, o, "document", merge[Depth - 1], k)
  BY <1>2 DEF Get
<1>4. Entry(b, o, "document", merge[Depth - 1], k) # Failed
  BY MergedMapping
<1> QED
  BY <1>2, <1>3, <1>4 DEF Get

\* A field of the override that is neither absent nor a deletion is merged with the
\* base's, as the field it is.
LEMMA MergedField ==
  ASSUME NEW b \in Configs[Depth], IsMap(b), NEW o \in Overlays[Depth], IsMap(o), MergeConfig(b, o) # Failed,
         NEW k \in Keys, o.at[k] # Missing, ~IsDeletion(o.at[k])
  PROVE  /\ Depth - 1 \in 1..Depth
         /\ o.at[k] \in Overlays[Depth - 1] /\ Get(b, k) \in Configs[Depth - 1] \cup {Missing}
         /\ Get(MergeConfig(b, o), k) = Merge(Get(b, k), o.at[k], k, merge[(Depth - 1) - 1])
<1>0. Depth \in 1..Depth /\ Depth - 1 \in 0..Depth
  BY DepthNat
<1>1. o.at[k] \in Overlays[Depth - 1] /\ Get(b, k) \in Configs[Depth - 1] \cup {Missing}
  BY <1>0, OverlayShape, ConfigShape DEF Get
<1>2. Depth - 1 \in 1..Depth
  <2>1. Depth - 1 # 0
    BY <1>1, NoNode DEF Overlays
  <2> QED
    BY <2>1, DepthNat
<1>3. IsNode(o.at[k])
  BY <1>0, <1>1, NoNode DEF Overlays
<1>4. "document" \notin ProviderMaps /\ Below("document", k) = k
  BY DEF ProviderMaps, Below
<1>5. Entry(b, o, "document", merge[Depth - 1], k) = merge[Depth - 1][<<Get(b, k), o.at[k], k>>]
  <2>1. o.at[k] # Missing /\ ~IsDeletion(o.at[k]) /\ IsNode(o.at[k])
    BY <1>3
  <2>2. Entry(b, o, "document", merge[Depth - 1], k) =
          merge[Depth - 1][<<Get(b, k), o.at[k], Below("document", k)>>]
    BY <1>4, <2>1, Zenon DEF Entry
  <2> QED
    BY <1>4, <2>2
<1>6. <<Get(b, k), o.at[k], k>> \in Pairs(Depth - 1)
  BY <1>1 DEF Pairs, Places
<1>7. merge[Depth - 1] = Level(Depth - 1, merge[(Depth - 1) - 1])
  BY <1>2, MergeLevels
<1>8. merge[Depth - 1][<<Get(b, k), o.at[k], k>>] = Merge(Get(b, k), o.at[k], k, merge[(Depth - 1) - 1])
  BY <1>6, <1>7 DEF Level
<1>9. Get(MergeConfig(b, o), k) = Entry(b, o, "document", merge[Depth - 1], k)
  BY MergedKey
<1> QED
  BY <1>1, <1>2, <1>5, <1>8, <1>9

-------------------------------------------------------------------------------
\* Lists are the same when they are as long and have the same items.
LEMMA SameList ==
  ASSUME NEW X, NEW s \in Seq(X), NEW t \in Seq(X), Len(s) = Len(t), \A i \in 1..Len(s) : s[i] = t[i]
  PROVE  s = t
<1>1. s = [i \in 1..Len(s) |-> s[i]] /\ t = [i \in 1..Len(t) |-> t[i]]
  OBVIOUS
<1> QED
  BY <1>1

\* A list behind another.
LEMMA Concat ==
  ASSUME NEW X, NEW s \in Seq(X), NEW t \in Seq(X)
  PROVE  /\ s \o t \in Seq(X) /\ Len(s \o t) = Len(s) + Len(t)
         /\ \A i \in 1..Len(s) : (s \o t)[i] = s[i]
         /\ \A i \in 1..Len(t) : (s \o t)[Len(s) + i] = t[i]
         /\ \A i \in 1..(Len(s) + Len(t)) : i \in 1..Len(s) \/ i - Len(s) \in 1..Len(t)
<1>1. s \o t \in Seq(X) /\ Len(s \o t) = Len(s) + Len(t) /\ Len(s) \in Nat /\ Len(t) \in Nat
  OBVIOUS
<1>2. ASSUME NEW i \in 1..Len(s)
      PROVE  (s \o t)[i] = s[i]
  OBVIOUS
<1>3. ASSUME NEW i \in 1..Len(t)
      PROVE  (s \o t)[Len(s) + i] = t[i]
  <2> DEFINE j == Len(s) + i
  <2>1. j \in 1..(Len(s) + Len(t)) /\ ~(j <= Len(s)) /\ j - Len(s) = i
    BY <1>1
  <2> HIDE DEF j
  <2>2. (s \o t)[j] = t[j - Len(s)]
    BY <1>1, <2>1
  <2> QED
    BY <2>1, <2>2 DEF j
<1>4. \A i \in 1..(Len(s) + Len(t)) : i \in 1..Len(s) \/ i - Len(s) \in 1..Len(t)
  BY <1>1
<1> QED
  BY <1>1, <1>2, <1>3, <1>4

\* One item more at the end of a list that is put behind another.
LEMMA ConcatAppend ==
  ASSUME NEW X, NEW s \in Seq(X), NEW t \in Seq(X), NEW x \in X
  PROVE  s \o Append(t, x) = Append(s \o t, x)
<1> DEFINE u == Append(t, x)
           l == s \o t
           p == s \o u
           q == Append(l, x)
<1>1. /\ Len(s) \in Nat /\ Len(t) \in Nat
      /\ u \in Seq(X) /\ Len(u) = Len(t) + 1 /\ u[Len(t) + 1] = x /\ \A i \in 1..Len(t) : u[i] = t[i]
  OBVIOUS
<1>2. /\ l \in Seq(X) /\ Len(l) = Len(s) + Len(t)
      /\ \A i \in 1..Len(s) : l[i] = s[i]
      /\ \A i \in 1..Len(t) : l[Len(s) + i] = t[i]
  BY Concat
<1> HIDE DEF u, l
<1>3. /\ p \in Seq(X) /\ Len(p) = Len(s) + Len(u)
      /\ \A i \in 1..Len(s) : p[i] = s[i]
      /\ \A i \in 1..Len(u) : p[Len(s) + i] = u[i]
  <2>1. u \in Seq(X)
    BY <1>1
  <2> QED
    BY <2>1, Concat
<1>4. /\ q \in Seq(X) /\ Len(q) = Len(l) + 1 /\ q[Len(l) + 1] = x /\ \A i \in 1..Len(l) : q[i] = l[i]
  BY <1>2
<1> HIDE DEF p, q
<1>5. ASSUME NEW i \in 1..Len(p)
      PROVE  p[i] = q[i]
  <2>1. CASE i \in 1..Len(s)
    BY <1>1, <1>2, <1>3, <1>4, <2>1
  <2>2. CASE i - Len(s) \in 1..Len(t)
    <3> DEFINE j == i - Len(s)
    <3>1. j \in 1..Len(t) /\ i = Len(s) + j
      BY <1>1, <2>2
    <3> HIDE DEF j
    <3>2. p[i] = u[j] /\ u[j] = t[j]
      BY <1>1, <1>3, <3>1
    <3>3. q[i] = l[i] /\ l[i] = t[j]
      BY <1>1, <1>2, <1>4, <3>1
    <3> QED
      BY <3>2, <3>3
  <2>3. CASE i = Len(s) + (Len(t) + 1)
    <3>1. p[i] = u[Len(t) + 1]
      BY <1>1, <1>3, <2>3
    <3>2. i = Len(l) + 1
      BY <1>1, <1>2, <2>3
    <3> QED
      BY <1>1, <1>4, <3>1, <3>2
  <2>4. Len(p) = Len(s) + (Len(t) + 1)
    <3>1. Len(u) = Len(t) + 1
      BY <1>1
    <3> QED
      BY <1>3, <3>1
  <2>5. i \in Int /\ 1 <= i /\ i <= Len(s) + (Len(t) + 1)
    BY <2>4
  <2>6. Len(s) \in Nat /\ Len(t) \in Nat
    BY <1>1
  <2>7. i \in 1..Len(s) \/ i - Len(s) \in 1..Len(t) \/ i = Len(s) + (Len(t) + 1)
    BY <2>5, <2>6
  <2> QED
    BY <2>1, <2>2, <2>3, <2>7
<1>6. Len(p) = Len(q)
  <2>1. Len(s) \in Nat /\ Len(t) \in Nat
    OBVIOUS
  <2>2. Len(p) = Len(s) + (Len(t) + 1)
    <3>1. Len(p) = Len(s) + Len(u)
      BY <1>3
    <3>2. Len(u) = Len(t) + 1
      BY <1>1
    <3> QED
      BY <3>1, <3>2
  <2>3. Len(q) = (Len(s) + Len(t)) + 1
    <3>1. Len(q) = Len(l) + 1
      BY <1>4
    <3>2. Len(l) = Len(s) + Len(t)
      BY <1>2
    <3> QED
      BY <3>1, <3>2
  <2> QED
    BY <2>1, <2>2, <2>3
<1>7. p = q
  BY <1>3, <1>4, <1>5, <1>6, SameList
<1> QED
  BY <1>7 DEF p, q, u, l

\* Nothing after a list.
LEMMA ConcatNothing ==
  ASSUME NEW X, NEW s \in Seq(X)
  PROVE  s \o <<>> = s
OBVIOUS

\* What is left of two lists, one after the other.
LEMMA WithoutConcat ==
  ASSUME NEW X, NEW s \in Seq(X), NEW t \in Seq(X), NEW gone
  PROVE  Without(s \o t, gone) = Without(s, gone) \o Without(t, gone)
<1> DEFINE P(i) == SubSeq(t, 1, i)
           S == {i \in 0..Len(t) : Without(s \o P(i), gone) = Without(s, gone) \o Without(P(i), gone)}
<1>0. Len(t) \in Nat /\ Len(t) \in 0..Len(t) /\ 0 \in 0..Len(t)
  OBVIOUS
<1>1. Without(s, gone) \in Seq(X)
  BY WithoutItems
<1>2. 0 \in S
  <2>1. P(0) = <<>> /\ s \o <<>> = s
    OBVIOUS
  <2> DEFINE w == Without(s, gone)
  <2>2. w \o <<>> = w
    <3>1. w \in Seq(X)
      BY <1>1
    <3> HIDE DEF w
    <3> QED
      BY <3>1
  <2>3. Without(<<>>, gone) = <<>>
    BY WithoutEmpty
  <2> HIDE DEF P
  <2> QED
    BY <1>0, <2>1, <2>2, <2>3
<1>3. ASSUME NEW i \in 1..Len(t), i - 1 \in S
      PROVE  i \in S
  <2> DEFINE p == P(i - 1)
             x == t[i]
             w == Without(s, gone)
             v == Without(p, gone)
             l == s \o p
  <2>1. P(i) = Append(p, x) /\ i \in 0..Len(t)
    BY Prefix
  <2>2. p \in Seq(X)
    BY Prefix
  <2>3. x \in X
    BY Prefix
  <2>4. w \in Seq(X)
    BY <1>1
  <2>5. v \in Seq(X)
    <3> HIDE DEF p
    <3> QED
      BY <2>2, WithoutItems
  <2>6. l \in Seq(X)
    <3> HIDE DEF p
    <3> QED
      BY <2>2
  <2>7. Without(l, gone) = w \o v
    BY <1>3
  <2> HIDE DEF p, x, w, v, P
  <2>8. s \o Append(p, x) = Append(l, x)
    BY <2>2, <2>3, ConcatAppend
  <2> HIDE DEF l
  <2>9. Without(Append(l, x), gone) = IF x \in gone THEN Without(l, gone) ELSE Append(Without(l, gone), x)
    BY <2>3, <2>6, WithoutGone, WithoutLeft
  <2>10. Without(Append(p, x), gone) = IF x \in gone THEN Without(p, gone) ELSE Append(Without(p, gone), x)
    BY <2>2, <2>3, WithoutGone, WithoutLeft
  <2>11. w \o Append(v, x) = Append(w \o v, x)
    BY <2>3, <2>4, <2>5, ConcatAppend
  <2>12. Without(s \o P(i), gone) = w \o Without(P(i), gone)
    <3>1. CASE x \in gone
      BY <2>1, <2>7, <2>8, <2>9, <2>10, <3>1 DEF v
    <3>2. CASE x \notin gone
      BY <2>1, <2>7, <2>8, <2>9, <2>10, <2>11, <3>2 DEF v
    <3> QED
      BY <3>1, <3>2
  <2> QED
    BY <2>1, <2>12 DEF w
<1>4. 0..Len(t) \subseteq S
  <2> HIDE DEF S
  <2> QED
    BY <1>0, <1>2, <1>3, Climb
<1>5. P(Len(t)) = t
  BY Prefix
<1>6. Len(t) \in S
  <2> HIDE DEF S
  <2> QED
    BY <1>0, <1>4
<1> HIDE DEF P
<1> QED
  BY <1>5, <1>6

\* What is found for each item of a list.
Mapped(F, s) == [i \in DOMAIN s |-> F[s[i]]]

\* Something in Y is found for everything in X.
Finds(X, Y, F) == \A x \in X : F[x] \in Y

\* It is a list, too.
LEMMA MappedIs ==
  ASSUME NEW X, NEW Y, NEW F, Finds(X, Y, F), NEW s \in Seq(X)
  PROVE  /\ Mapped(F, s) \in Seq(Y) /\ Len(Mapped(F, s)) = Len(s)
         /\ \A i \in 1..Len(s) : Mapped(F, s)[i] = F[s[i]]
<1>1. DOMAIN s = 1..Len(s) /\ Len(s) \in Nat /\ \A i \in 1..Len(s) : s[i] \in X
  OBVIOUS
<1>2. Mapped(F, s) = [i \in 1..Len(s) |-> F[s[i]]]
  BY <1>1 DEF Mapped
<1>3. \A i \in 1..Len(s) : F[s[i]] \in Y
  BY <1>1 DEF Finds
<1> QED
  BY <1>1, <1>2, <1>3

\* One item more.
LEMMA MappedAppend ==
  ASSUME NEW X, NEW Y, NEW F, Finds(X, Y, F), NEW s \in Seq(X), NEW x \in X
  PROVE  Mapped(F, Append(s, x)) = Append(Mapped(F, s), F[x])
<1> DEFINE r == Append(s, x)
           m == Mapped(F, s)
           p == Mapped(F, r)
           q == Append(m, F[x])
<1>1. /\ Len(s) \in Nat /\ r \in Seq(X) /\ Len(r) = Len(s) + 1 /\ r[Len(s) + 1] = x
      /\ \A i \in 1..Len(s) : r[i] = s[i]
  OBVIOUS
<1>2. m \in Seq(Y) /\ Len(m) = Len(s) /\ \A i \in 1..Len(s) : m[i] = F[s[i]]
  BY MappedIs
<1> HIDE DEF r, m
<1>3. p \in Seq(Y) /\ Len(p) = Len(r) /\ \A i \in 1..Len(r) : p[i] = F[r[i]]
  <2>1. r \in Seq(X)
    BY <1>1
  <2> QED
    BY <2>1, MappedIs
<1>4. F[x] \in Y
  BY DEF Finds
<1>5. q \in Seq(Y) /\ Len(q) = Len(m) + 1 /\ q[Len(m) + 1] = F[x] /\ \A i \in 1..Len(m) : q[i] = m[i]
  BY <1>2, <1>4
<1> HIDE DEF p, q
<1>6. ASSUME NEW i \in 1..Len(p)
      PROVE  p[i] = q[i]
  <2>1. CASE i \in 1..Len(s)
    <3>1. i \in 1..Len(r) /\ r[i] = s[i]
      BY <1>1, <2>1
    <3>2. p[i] = F[s[i]]
      BY <1>3, <3>1
    <3>3. q[i] = m[i] /\ m[i] = F[s[i]]
      BY <1>2, <1>5, <2>1
    <3> QED
      BY <3>2, <3>3
  <2>2. CASE i = Len(s) + 1
    <3>1. i \in 1..Len(r) /\ r[i] = x
      BY <1>1, <2>2
    <3>2. p[i] = F[x]
      BY <1>3, <3>1
    <3>3. q[i] = F[x]
      BY <1>2, <1>5, <2>2
    <3> QED
      BY <3>2, <3>3
  <2> QED
    BY <1>1, <1>3, <2>1, <2>2
<1>7. p = q
  <2>1. Len(p) = Len(q)
    BY <1>1, <1>2, <1>3, <1>5
  <2> QED
    BY <1>3, <1>5, <1>6, <2>1, SameList
<1> QED
  BY <1>7 DEF p, q, r, m

\* One list behind another.
LEMMA MappedConcat ==
  ASSUME NEW X, NEW Y, NEW F, Finds(X, Y, F), NEW s \in Seq(X), NEW t \in Seq(X)
  PROVE  Mapped(F, s \o t) = Mapped(F, s) \o Mapped(F, t)
<1> DEFINE l == s \o t
           a == Mapped(F, s)
           b == Mapped(F, t)
           p == Mapped(F, l)
           q == a \o b
<1>1. /\ l \in Seq(X) /\ Len(l) = Len(s) + Len(t)
      /\ \A i \in 1..Len(s) : l[i] = s[i]
      /\ \A i \in 1..Len(t) : l[Len(s) + i] = t[i]
      /\ \A i \in 1..(Len(s) + Len(t)) : i \in 1..Len(s) \/ i - Len(s) \in 1..Len(t)
  BY Concat
<1>2. a \in Seq(Y) /\ Len(a) = Len(s) /\ \A i \in 1..Len(s) : a[i] = F[s[i]]
  BY MappedIs
<1>3. b \in Seq(Y) /\ Len(b) = Len(t) /\ \A i \in 1..Len(t) : b[i] = F[t[i]]
  BY MappedIs
<1> HIDE DEF l, a, b
<1>4. p \in Seq(Y) /\ Len(p) = Len(l) /\ \A i \in 1..Len(l) : p[i] = F[l[i]]
  <2>1. l \in Seq(X)
    BY <1>1
  <2> QED
    BY <2>1, MappedIs
<1>5. /\ q \in Seq(Y) /\ Len(q) = Len(a) + Len(b)
      /\ \A i \in 1..Len(a) : q[i] = a[i]
      /\ \A i \in 1..Len(b) : q[Len(a) + i] = b[i]
  <2>1. a \in Seq(Y) /\ b \in Seq(Y)
    BY <1>2, <1>3
  <2> QED
    BY <2>1, Concat
<1> HIDE DEF p, q
<1>6. ASSUME NEW i \in 1..Len(p)
      PROVE  p[i] = q[i]
  <2>0. Len(s) \in Nat /\ Len(t) \in Nat
    OBVIOUS
  <2>1. CASE i \in 1..Len(s)
    <3>1. i \in 1..Len(l)
      BY <1>4
    <3>2. p[i] = F[l[i]] /\ l[i] = s[i]
      BY <1>1, <1>4, <2>1, <3>1
    <3>3. q[i] = a[i] /\ a[i] = F[s[i]]
      BY <1>2, <1>5, <2>1
    <3> QED
      BY <3>2, <3>3
  <2>2. CASE i - Len(s) \in 1..Len(t)
    <3> DEFINE j == i - Len(s)
    <3>1. j \in 1..Len(t) /\ i = Len(s) + j /\ i \in 1..Len(l)
      BY <1>4, <2>0, <2>2
    <3> HIDE DEF j
    <3>2. p[i] = F[l[i]] /\ l[i] = t[j]
      BY <1>1, <1>4, <3>1
    <3>3. q[i] = b[j] /\ b[j] = F[t[j]]
      BY <1>2, <1>3, <1>5, <3>1
    <3> QED
      BY <3>2, <3>3
  <2> QED
    BY <1>1, <1>4, <2>1, <2>2
<1>7. p = q
  <2>1. Len(p) = Len(q)
    BY <1>1, <1>2, <1>3, <1>4, <1>5
  <2> QED
    BY <1>4, <1>5, <1>6, <2>1, SameList
<1> QED
  BY <1>7 DEF p, q, l, a, b

\* What is left out is what is left out when it is found.
GoneWith(X, F, left, gone) == \A x \in X : x \in left <=> F[x] \in gone

\* Leaving out what is found, or what it is found for.
LEMMA MappedWithout ==
  ASSUME NEW X, NEW Y, NEW F, Finds(X, Y, F), NEW s \in Seq(X), NEW gone, NEW left, GoneWith(X, F, left, gone)
  PROVE  Without(Mapped(F, s), gone) = Mapped(F, Without(s, left))
<1> DEFINE P(i) == SubSeq(s, 1, i)
           S == {i \in 0..Len(s) : Without(Mapped(F, P(i)), gone) = Mapped(F, Without(P(i), left))}
<1>0. Len(s) \in Nat /\ Len(s) \in 0..Len(s) /\ 0 \in 0..Len(s)
  OBVIOUS
<1>2. 0 \in S
  <2>1. P(0) = <<>>
    OBVIOUS
  <2>2. Mapped(F, <<>>) = <<>>
    BY DEF Mapped
  <2>3. Without(<<>>, gone) = <<>> /\ Without(<<>>, left) = <<>>
    BY WithoutEmpty
  <2> HIDE DEF P
  <2> QED
    BY <1>0, <2>1, <2>2, <2>3
<1>3. ASSUME NEW i \in 1..Len(s), i - 1 \in S
      PROVE  i \in S
  <2> DEFINE p == P(i - 1)
             x == s[i]
             m == Mapped(F, p)
             v == Without(p, left)
             y == F[x]
  <2>1. P(i) = Append(p, x) /\ i \in 0..Len(s)
    BY Prefix
  <2>2. p \in Seq(X)
    BY Prefix
  <2>3. x \in X
    BY Prefix
  <2> HIDE DEF p, x, P
  <2>4. m \in Seq(Y)
    BY <2>2, MappedIs
  <2>5. v \in Seq(X)
    BY <2>2, WithoutItems
  <2>6. y \in Y
    BY <2>3 DEF Finds
  <2>7. Mapped(F, Append(p, x)) = Append(m, y)
    BY <2>2, <2>3, MappedAppend
  <2>8. Without(m, gone) = Mapped(F, v)
    BY <1>3 DEF p
  <2> HIDE DEF m
  <2>9. x \in left <=> y \in gone
    BY <2>3 DEF GoneWith
  <2>10. Without(Append(p, x), left) = IF x \in left THEN Without(p, left) ELSE Append(Without(p, left), x)
    BY <2>2, <2>3, WithoutGone, WithoutLeft
  <2> HIDE DEF v, y
  <2>11. Without(Append(m, y), gone) = IF y \in gone THEN Without(m, gone) ELSE Append(Without(m, gone), y)
    BY <2>4, <2>6, WithoutGone, WithoutLeft
  <2>12. Mapped(F, Append(v, x)) = Append(Mapped(F, v), y)
    BY <2>3, <2>5, MappedAppend DEF y
  <2>13. Without(Mapped(F, P(i)), gone) = Mapped(F, Without(P(i), left))
    <3>1. CASE x \in left
      BY <2>1, <2>7, <2>8, <2>9, <2>10, <2>11, <3>1 DEF v
    <3>2. CASE x \notin left
      BY <2>1, <2>7, <2>8, <2>9, <2>10, <2>11, <2>12, <3>2 DEF v
    <3> QED
      BY <3>1, <3>2
  <2> QED
    BY <2>1, <2>13
<1>4. 0..Len(s) \subseteq S
  <2> HIDE DEF S
  <2> QED
    BY <1>0, <1>2, <1>3, Climb
<1>5. P(Len(s)) = s
  BY Prefix
<1>6. Len(s) \in S
  <2> HIDE DEF S
  <2> QED
    BY <1>0, <1>4
<1> HIDE DEF P
<1> QED
  BY <1>5, <1>6

\* Three lists behind one another.
LEMMA ConcatThree ==
  ASSUME NEW X, NEW s \in Seq(X), NEW t \in Seq(X), NEW u \in Seq(X)
  PROVE  (s \o t) \o u = s \o (t \o u)
<1> DEFINE P(i) == SubSeq(u, 1, i)
           S == {i \in 0..Len(u) : (s \o t) \o P(i) = s \o (t \o P(i))}
<1>0. Len(u) \in Nat /\ Len(u) \in 0..Len(u) /\ 0 \in 0..Len(u)
  OBVIOUS
<1>1. s \o t \in Seq(X)
  OBVIOUS
<1>2. 0 \in S
  <2>1. P(0) = <<>> /\ t \o <<>> = t
    OBVIOUS
  <2> DEFINE l == s \o t
  <2>2. l \o <<>> = l
    <3>1. l \in Seq(X)
      BY <1>1
    <3> HIDE DEF l
    <3> QED
      BY <3>1
  <2> HIDE DEF P
  <2> QED
    BY <1>0, <2>1, <2>2
<1>3. ASSUME NEW i \in 1..Len(u), i - 1 \in S
      PROVE  i \in S
  <2> DEFINE p == P(i - 1)
             x == u[i]
             l == s \o t
             r == t \o p
  <2>1. P(i) = Append(p, x) /\ i \in 0..Len(u)
    BY Prefix
  <2>2. p \in Seq(X)
    BY Prefix
  <2>3. x \in X
    BY Prefix
  <2>4. l \o p = s \o r
    BY <1>3
  <2> HIDE DEF p, x, P
  <2>5. l \in Seq(X)
    BY <1>1
  <2>6. r \in Seq(X)
    BY <2>2
  <2>7. t \o Append(p, x) = Append(r, x)
    BY <2>2, <2>3, ConcatAppend
  <2> HIDE DEF l, r
  <2>8. l \o Append(p, x) = Append(l \o p, x)
    BY <2>2, <2>3, <2>5, ConcatAppend
  <2>9. s \o Append(r, x) = Append(s \o r, x)
    BY <2>3, <2>6, ConcatAppend
  <2>10. l \o P(i) = s \o (t \o P(i))
    BY <2>1, <2>4, <2>7, <2>8, <2>9
  <2> QED
    BY <2>1, <2>10 DEF l
<1>4. 0..Len(u) \subseteq S
  <2> HIDE DEF S
  <2> QED
    BY <1>0, <1>2, <1>3, Climb
<1>5. P(Len(u)) = u
  BY Prefix
<1>6. Len(u) \in S
  <2> HIDE DEF S
  <2> QED
    BY <1>0, <1>4
<1> HIDE DEF P
<1> QED
  BY <1>5, <1>6

\* What is found for a list depends only on what is found for its items.
LEMMA MappedSame ==
  ASSUME NEW X, NEW F, NEW G, NEW s \in Seq(X), \A i \in 1..Len(s) : F[s[i]] = G[s[i]]
  PROVE  Mapped(F, s) = Mapped(G, s)
<1>1. DOMAIN s = 1..Len(s)
  OBVIOUS
<1> QED
  BY <1>1 DEF Mapped

\* One item.
LEMMA MappedOne ==
  ASSUME NEW F, NEW x
  PROVE  Mapped(F, <<x>>) = <<F[x]>>
<1>1. /\ DOMAIN <<x>> = 1..1 /\ <<x>>[1] = x
      /\ <<F[x]>> = [i \in 1..1 |-> <<F[x]>>[i]] /\ <<F[x]>>[1] = F[x]
  OBVIOUS
<1>2. Mapped(F, <<x>>) = [i \in 1..1 |-> F[<<x>>[i]]]
  BY <1>1 DEF Mapped
<1> QED
  BY <1>1, <1>2

\* The only item of a list, when it stays.
LEMMA WithoutOne ==
  ASSUME NEW x, NEW gone, x \notin gone
  PROVE  Without(<<x>>, gone) = <<x>>
<1>1. <<x>> \in Seq({x}) /\ Len(<<x>>) = 1 /\ <<x>>[1] = x
  OBVIOUS
<1> DEFINE s == <<x>>
<1>2. \A i \in 1..Len(s) : s[i] \notin gone
  BY <1>1
<1>3. s \in Seq({x})
  BY <1>1
<1> HIDE DEF s
<1>4. Without(s, gone) = s
  BY <1>2, <1>3, WithoutNone
<1> QED
  BY <1>4 DEF s

\* The places of a list, and the places up to one, it and those behind it.
Numbers(m)    == [i \in 1..m |-> i]
Behind(m, k)  == [i \in 1..(m - k) |-> k + i]

LEMMA NumbersSplit ==
  ASSUME NEW m \in Nat, NEW k \in 1..m
  PROVE  /\ Numbers(m) \in Seq(1..m) /\ Numbers(k - 1) \in Seq(1..m) /\ Behind(m, k) \in Seq(1..m)
         /\ Numbers(m) = (Numbers(k - 1) \o <<k>>) \o Behind(m, k)
<1> DEFINE X == 1..m
           u == Numbers(k - 1)
           t == Behind(m, k)
           o == <<k>>
           l == u \o o
           r == l \o t
           s == Numbers(m)
<1>1. /\ s \in Seq(X) /\ Len(s) = m /\ \A i \in 1..m : s[i] = i
  BY DEF Numbers
<1>2. /\ u \in Seq(X) /\ Len(u) = k - 1 /\ \A i \in 1..(k - 1) : u[i] = i
  BY DEF Numbers
<1>3. /\ t \in Seq(X) /\ Len(t) = m - k /\ \A i \in 1..(m - k) : t[i] = k + i
  BY DEF Behind
<1>4. o \in Seq(X) /\ Len(o) = 1 /\ o[1] = k
  OBVIOUS
<1> HIDE DEF s, u, t, o, X
<1>5. /\ l \in Seq(X) /\ Len(l) = Len(u) + Len(o)
      /\ \A i \in 1..Len(u) : l[i] = u[i]
      /\ \A i \in 1..Len(o) : l[Len(u) + i] = o[i]
  <2>1. u \in Seq(X) /\ o \in Seq(X)
    BY <1>2, <1>4
  <2> QED
    BY <2>1, Concat
<1> HIDE DEF l
<1>6. /\ r \in Seq(X) /\ Len(r) = Len(l) + Len(t)
      /\ \A i \in 1..Len(l) : r[i] = l[i]
      /\ \A i \in 1..Len(t) : r[Len(l) + i] = t[i]
  <2>1. l \in Seq(X) /\ t \in Seq(X)
    BY <1>3, <1>5
  <2> QED
    BY <2>1, Concat
<1> HIDE DEF r
<1>7. Len(r) = m /\ Len(l) = k
  BY <1>2, <1>3, <1>4, <1>5, <1>6
<1>8. ASSUME NEW i \in 1..m
      PROVE  r[i] = i
  <2>1. CASE i \in 1..(k - 1)
    <3>1. i \in 1..Len(u) /\ i \in 1..Len(l)
      BY <1>2, <1>7, <2>1
    <3>2. r[i] = l[i] /\ l[i] = u[i] /\ u[i] = i
      BY <1>2, <1>5, <1>6, <2>1, <3>1
    <3> QED
      BY <3>2
  <2>2. CASE i = k
    <3>1. l[(k - 1) + 1] = k
      BY <1>2, <1>4, <1>5
    <3>2. (k - 1) + 1 = k /\ k \in 1..k
      OBVIOUS
    <3> QED
      BY <1>6, <1>7, <2>2, <3>1, <3>2
  <2>3. CASE i \in (k + 1)..m
    <3> DEFINE j == i - k
    <3>1. j \in 1..(m - k) /\ i = k + j
      BY <2>3
    <3> HIDE DEF j
    <3> QED
      BY <1>3, <1>6, <1>7, <3>1
  <2> QED
    BY <2>1, <2>2, <2>3
<1>9. s = r
  <2>1. Len(s) = Len(r) /\ \A i \in 1..Len(s) : s[i] = r[i]
    BY <1>1, <1>7, <1>8
  <2> QED
    BY <1>1, <1>6, <2>1, SameList
<1> QED
  BY <1>1, <1>2, <1>3, <1>9 DEF s, u, t, o, X, r, l

\* The items of a list of lists.
LEMMA ConcatItems ==
  ASSUME NEW X, NEW s \in Seq(X), NEW t \in Seq(X)
  PROVE  ItemsOf(s \o t) = ItemsOf(s) \cup ItemsOf(t)
<1> DEFINE l == s \o t
<1>1. /\ l \in Seq(X) /\ Len(l) = Len(s) + Len(t)
      /\ \A i \in 1..Len(s) : l[i] = s[i]
      /\ \A i \in 1..Len(t) : l[Len(s) + i] = t[i]
      /\ \A i \in 1..(Len(s) + Len(t)) : i \in 1..Len(s) \/ i - Len(s) \in 1..Len(t)
  BY Concat
<1>2. Len(s) \in Nat /\ Len(t) \in Nat /\ DOMAIN s = 1..Len(s) /\ DOMAIN t = 1..Len(t)
  OBVIOUS
<1> HIDE DEF l
<1>3. DOMAIN l = 1..Len(l)
  BY <1>1
<1>4. ASSUME NEW i \in 1..Len(l)
      PROVE  l[i] \in ItemsOf(s) \cup ItemsOf(t)
  <2>1. CASE i \in 1..Len(s)
    BY <1>1, <1>2, <2>1 DEF ItemsOf
  <2>2. CASE i - Len(s) \in 1..Len(t)
    <3> DEFINE j == i - Len(s)
    <3>1. j \in 1..Len(t) /\ i = Len(s) + j
      BY <1>2, <2>2
    <3> HIDE DEF j
    <3> QED
      BY <1>1, <1>2, <3>1 DEF ItemsOf
  <2> QED
    BY <1>1, <2>1, <2>2
<1>5. ASSUME NEW i \in 1..Len(s)
      PROVE  s[i] \in ItemsOf(l)
  <2>1. i \in 1..Len(l) /\ l[i] = s[i]
    BY <1>1, <1>2
  <2> QED
    BY <1>3, <2>1 DEF ItemsOf
<1>6. ASSUME NEW i \in 1..Len(t)
      PROVE  t[i] \in ItemsOf(l)
  <2>1. Len(s) + i \in 1..Len(l) /\ l[Len(s) + i] = t[i]
    BY <1>1, <1>2
  <2> QED
    BY <1>3, <2>1 DEF ItemsOf
<1>7. ItemsOf(l) \subseteq ItemsOf(s) \cup ItemsOf(t)
  BY <1>3, <1>4 DEF ItemsOf
<1>8. ItemsOf(s) \subseteq ItemsOf(l) /\ ItemsOf(t) \subseteq ItemsOf(l)
  <2>1. ASSUME NEW x \in ItemsOf(s)
        PROVE  x \in ItemsOf(l)
    <3>1. PICK i \in 1..Len(s) : x = s[i]
      BY <1>2 DEF ItemsOf
    <3> QED
      BY <1>5, <3>1
  <2>2. ASSUME NEW x \in ItemsOf(t)
        PROVE  x \in ItemsOf(l)
    <3>1. PICK i \in 1..Len(t) : x = t[i]
      BY <1>2 DEF ItemsOf
    <3> QED
      BY <1>6, <3>1
  <2> QED
    BY <2>1, <2>2
<1> QED
  BY <1>7, <1>8 DEF l

\* The items of a name there may be, and those of a list left out.
NamedIn(Y, name) == {x \in Y : Named(x, name)}

LEMMA WithoutNamed ==
  ASSUME NEW Y, NEW s \in Seq(Y), NEW t, ItemsOf(s) \subseteq ItemsOf(t), NEW name
  PROVE  Without(s, ItemsNamed(t, name)) = Without(s, NamedIn(Y, name))
<1> DEFINE A == ItemsNamed(t, name)
           B == NamedIn(Y, name)
<1>1. \A i \in 1..Len(s) : s[i] \in Y /\ s[i] \in ItemsOf(t)
  <2>1. DOMAIN s = 1..Len(s) /\ \A i \in 1..Len(s) : s[i] \in Y
    OBVIOUS
  <2>2. \A i \in 1..Len(s) : s[i] \in ItemsOf(s)
    BY <2>1 DEF ItemsOf
  <2> QED
    BY <2>1, <2>2
<1>2. \A i \in 1..Len(s) : s[i] \in A <=> s[i] \in B
  BY <1>1 DEF ItemsNamed, NamedIn
<1> HIDE DEF A, B
<1>3. Without(s, A) = Without(s, B)
  BY <1>2, WithoutSame
<1> QED
  BY <1>3 DEF A, B

\* A list without the name.
NoneNamed(s, name) == \A i \in 1..Len(s) : ~Named(s[i], name)

\* An item between two lists.
Around(u, x, t) == (u \o <<x>>) \o t

\* An item is replaced at the first place its name has, and what else has the name
\* is dropped.
LEMMA ReplaceAt ==
  ASSUME NEW Y, NEW u \in Seq(Y), NEW x \in Y, NEW t \in Seq(Y), NEW name, NEW item \in Y,
         NoneNamed(u, name), Named(x, name)
  PROVE  ReplaceNamed(Around(u, x, t), name, item) = Around(u, item, Without(t, NamedIn(Y, name)))
<1> DEFINE o == <<x>>
           l == u \o o
           s == l \o t
           k == Len(u) + 1
           P(i) == Named(s[i], name) /\ \A j \in 1..(i - 1) : ~Named(s[j], name)
           first == CHOOSE i \in DOMAIN s : P(i)
           head == SubSeq(s, 1, first - 1)
           tail == SubSeq(s, first + 1, Len(s))
<1>1. o \in Seq(Y) /\ Len(o) = 1 /\ o[1] = x
  OBVIOUS
<1>2. Len(u) \in Nat /\ Len(t) \in Nat /\ k \in Nat
  OBVIOUS
<1> HIDE DEF o
<1>3. /\ l \in Seq(Y) /\ Len(l) = Len(u) + Len(o)
      /\ \A i \in 1..Len(u) : l[i] = u[i]
      /\ \A i \in 1..Len(o) : l[Len(u) + i] = o[i]
  <2>1. o \in Seq(Y)
    BY <1>1
  <2> QED
    BY <2>1, Concat
<1>4. Len(l) = k /\ l[k] = x /\ \A i \in 1..(k - 1) : l[i] = u[i]
  <2>1. 1 \in 1..Len(o) /\ 1..(k - 1) = 1..Len(u)
    BY <1>1, <1>2
  <2>2. l[Len(u) + 1] = x
    BY <1>1, <1>3, <2>1
  <2>3. Len(l) = k
    BY <1>1, <1>3
  <2>4. \A i \in 1..(k - 1) : l[i] = u[i]
    BY <1>3, <2>1
  <2> QED
    BY <2>2, <2>3, <2>4
<1> HIDE DEF l, k
<1>5. /\ s \in Seq(Y) /\ Len(s) = Len(l) + Len(t)
      /\ \A i \in 1..Len(l) : s[i] = l[i]
      /\ \A i \in 1..Len(t) : s[Len(l) + i] = t[i]
  <2>1. l \in Seq(Y)
    BY <1>3
  <2> QED
    BY <2>1, Concat
<1>6. s[k] = x /\ k \in 1..Len(s)
  <2>1. k \in 1..Len(l)
    BY <1>2, <1>4 DEF k
  <2> QED
    BY <1>2, <1>4, <1>5, <2>1
<1>7. ASSUME NEW i \in 1..(k - 1)
      PROVE  s[i] = u[i] /\ ~Named(s[i], name)
  <2>1. i \in 1..Len(l) /\ i \in 1..Len(u)
    BY <1>2, <1>4 DEF k
  <2>2. s[i] = u[i]
    BY <1>4, <1>5, <2>1
  <2> QED
    BY <2>1, <2>2 DEF NoneNamed
<1> HIDE DEF s
<1>8. DOMAIN s = 1..Len(s) /\ Len(s) \in Nat
  BY <1>5
<1>9. k \in DOMAIN s /\ P(k)
  BY <1>6, <1>7, <1>8
<1>10. first \in DOMAIN s /\ P(first)
  <2> HIDE DEF P
  <2> QED
    BY <1>9
<1>11. first = k
  <2>1. ~(first < k)
    <3>1. first < k => first \in 1..(k - 1)
      BY <1>2, <1>8, <1>10
    <3> HIDE DEF first
    <3> QED
      BY <1>7, <1>10, <3>1
  <2>2. ~(k < first)
    <3>1. k < first => k \in 1..(first - 1)
      BY <1>2, <1>6, <1>8, <1>10
    <3> HIDE DEF first
    <3> QED
      BY <1>6, <1>10, <3>1
  <2> HIDE DEF first
  <2> QED
    BY <1>2, <1>8, <1>10, <2>1, <2>2
<1>12. ItemsNamed(s, name) # {}
  BY <1>6, <1>8 DEF ItemsNamed, ItemsOf
<1>13. ReplaceNamed(s, name, item) = head \o <<item>> \o Without(tail, ItemsNamed(s, name))
  BY <1>12 DEF ReplaceNamed
<1> HIDE DEF first
<1>14. head = u
  <2>1. head \in Seq(Y) /\ Len(head) = k - 1 /\ \A i \in 1..(k - 1) : head[i] = s[i]
    <3>1. 1 \in 1..(Len(s) + 1) /\ k - 1 \in (1 - 1)..Len(s)
      BY <1>2, <1>6, <1>8
    <3>2. /\ SubSeq(s, 1, k - 1) \in Seq(Y) /\ Len(SubSeq(s, 1, k - 1)) = (k - 1) - 1 + 1
          /\ \A i \in 1..((k - 1) - 1 + 1) : SubSeq(s, 1, k - 1)[i] = s[1 + i - 1]
      BY <1>5, <3>1, Part
    <3>3. (k - 1) - 1 + 1 = k - 1 /\ \A i \in 1..(k - 1) : 1 + i - 1 = i
      BY <1>2
    <3> QED
      BY <1>11, <3>2, <3>3
  <2>2. Len(u) = k - 1
    BY <1>2 DEF k
  <2> HIDE DEF head
  <2>3. \A i \in 1..Len(head) : head[i] = u[i]
    BY <1>7, <2>1
  <2> QED
    BY <2>1, <2>2, <2>3, SameList
<1>15. tail = t
  <2>1. tail \in Seq(Y) /\ Len(tail) = Len(t) /\ \A i \in 1..Len(t) : tail[i] = s[k + i]
    <3> DEFINE f == k + 1
               e == Len(s)
    <3>1. f \in 1..(Len(s) + 1) /\ e \in (f - 1)..Len(s)
      BY <1>2, <1>6, <1>8
    <3>4. s \in Seq(Y)
      BY <1>5
    <3> HIDE DEF f, e
    <3>5. /\ SubSeq(s, f, e) \in Seq(Y) /\ Len(SubSeq(s, f, e)) = e - f + 1
          /\ \A i \in 1..(e - f + 1) : SubSeq(s, f, e)[i] = s[f + i - 1]
      BY <3>1, <3>4, Part
    <3>2. /\ SubSeq(s, k + 1, Len(s)) \in Seq(Y) /\ Len(SubSeq(s, k + 1, Len(s))) = Len(s) - (k + 1) + 1
          /\ \A i \in 1..(Len(s) - (k + 1) + 1) : SubSeq(s, k + 1, Len(s))[i] = s[(k + 1) + i - 1]
      BY <3>5 DEF f, e
    <3>3. Len(s) - (k + 1) + 1 = Len(t) /\ \A i \in 1..Len(t) : (k + 1) + i - 1 = k + i
      BY <1>2, <1>4, <1>5
    <3> QED
      BY <1>11, <3>2, <3>3
  <2> HIDE DEF tail
  <2>2. \A i \in 1..Len(tail) : tail[i] = t[i]
    BY <1>4, <1>5, <2>1
  <2> QED
    BY <2>1, <2>2, SameList
<1>16. Without(t, ItemsNamed(s, name)) = Without(t, NamedIn(Y, name))
  <2>1. ItemsOf(t) \subseteq ItemsOf(s)
    <3>1. l \in Seq(Y)
      BY <1>3
    <3>2. ItemsOf(l \o t) = ItemsOf(l) \cup ItemsOf(t)
      BY <3>1, ConcatItems
    <3> QED
      BY <3>2 DEF s
  <2> QED
    BY <2>1, WithoutNamed
<1> HIDE DEF head, tail
<1>17. ReplaceNamed(s, name, item) = (u \o <<item>>) \o Without(t, NamedIn(Y, name))
  BY <1>13, <1>14, <1>15, <1>16
<1> QED
  BY <1>17 DEF s, l, o, Around

\* The items at the places that are left, and a list behind them.
Listed(m, F, gone, b) == Mapped(F, Without(Numbers(m), gone)) \o b

\* The places of a name, and that one is the first of them.
PlacesNamed(m, F, name) == {i \in 1..m : Named(F[i], name)}
FirstNamed(k, F, name)  == Named(F[k], name) /\ \A i \in 1..(k - 1) : ~Named(F[i], name)

\* What stands at the places when an item is put at each of its name.
PutAt(m, F, name, item) == [i \in 1..m |-> IF Named(F[i], name) THEN item ELSE F[i]]

\* The subscription's items of a name dropped, those of a list behind them kept.
LEMMA DeleteStep ==
  ASSUME NEW m \in Nat, NEW Y, NEW F, Finds(1..m, Y, F), NEW gone, NEW name,
         NEW b \in Seq(Y), NoneNamed(b, name)
  PROVE  Without(Listed(m, F, gone, b), ItemsNamed(Listed(m, F, gone, b), name))
           = Listed(m, F, gone \cup PlacesNamed(m, F, name), b)
<1> DEFINE X == 1..m
           N == Numbers(m)
           w == Without(N, gone)
           a == Mapped(F, w)
           G == NamedIn(Y, name)
           mine == {i \in 1..m : Named(F[i], name)}
           list == Listed(m, F, gone, b)
<1>1. N \in Seq(X)
  BY DEF Numbers
<1> HIDE DEF N, X
<1>2. w \in Seq(X)
  BY <1>1, WithoutItems
<1>3. Finds(X, Y, F)
  BY DEF X
<1> HIDE DEF w
<1>4. a \in Seq(Y)
  BY <1>2, <1>3, MappedIs
<1>5. GoneWith(X, F, mine, G)
  BY <1>3 DEF GoneWith, NamedIn, Finds, X
<1> HIDE DEF a, mine
<1>6. list \in Seq(Y) /\ list = a \o b
  BY <1>4 DEF a, w, N, Listed
<1> HIDE DEF list
<1>7. Without(list, ItemsNamed(list, name)) = Without(list, G)
  <2>1. ItemsOf(list) \subseteq ItemsOf(list)
    OBVIOUS
  <2> QED
    BY <1>6, <2>1, WithoutNamed
<1>8. \A i \in 1..Len(b) : b[i] \notin G
  BY DEF NamedIn, NoneNamed
<1> HIDE DEF G
<1>9. Without(a \o b, G) = Without(a, G) \o Without(b, G)
  BY <1>4, WithoutConcat
<1>10. Without(b, G) = b
  BY <1>8, WithoutNone
<1>11. Without(a, G) = Mapped(F, Without(w, mine))
  <2>1. Without(Mapped(F, w), G) = Mapped(F, Without(w, mine))
    BY <1>2, <1>3, <1>5, MappedWithout
  <2> QED
    BY <2>1 DEF a
<1>12. Without(w, mine) = Without(N, gone \cup mine)
  <2> DEFINE both == gone \cup mine
  <2>1. both = gone \cup mine
    OBVIOUS
  <2> HIDE DEF both
  <2>2. Without(Without(N, gone), mine) = Without(N, both)
    BY <1>1, <2>1, WithoutBoth
  <2> QED
    BY <2>2 DEF both, w
<1> QED
  BY <1>6, <1>7, <1>9, <1>10, <1>11, <1>12 DEF N, Listed, list, mine, PlacesNamed

\* An item takes the first place of its name, and the name's other places are dropped.
LEMMA ReplaceStep ==
  ASSUME NEW m \in Nat, NEW Y, NEW F, Finds(1..m, Y, F), NEW gone, NEW name,
         NEW b \in Seq(Y), NoneNamed(b, name),
         NEW k \in 1..m, k \notin gone, FirstNamed(k, F, name), NEW item \in Y
  PROVE  ReplaceNamed(Listed(m, F, gone, b), name, item)
           = Listed(m, PutAt(m, F, name, item), gone \cup (PlacesNamed(m, F, name) \ {k}), b)
<1> DEFINE X == 1..m
           N == Numbers(m)
           U == Numbers(k - 1)
           T == Behind(m, k)
           O == <<k>>
           u == Without(U, gone)
           t == Without(T, gone)
           fu == Mapped(F, u)
           ft == Mapped(F, t)
           x == F[k]
           G == NamedIn(Y, name)
           mine == {i \in 1..m : Named(F[i], name)}
           others == {i \in 1..m : Named(F[i], name) /\ i # k}
           more == gone \cup others
           H == PutAt(m, F, name, item)
<1>0. /\ Named(F[k], name) /\ \A i \in 1..(k - 1) : ~Named(F[i], name)
      /\ \A i \in 1..m : H[i] = IF Named(F[i], name) THEN item ELSE F[i]
  BY DEF FirstNamed, PutAt
<1> HIDE DEF H
<1>1. N \in Seq(X) /\ U \in Seq(X) /\ T \in Seq(X) /\ N = (U \o O) \o T
  BY NumbersSplit
<1>2. /\ \A i \in 1..Len(U) : U[i] \in 1..(k - 1)
      /\ \A i \in 1..Len(T) : T[i] \in (k + 1)..m
  <2>1. Len(U) = k - 1 /\ \A i \in 1..(k - 1) : U[i] = i
    BY DEF Numbers
  <2>2. Len(T) = m - k /\ \A i \in 1..(m - k) : T[i] = k + i
    BY DEF Behind
  <2>3. \A i \in 1..(m - k) : k + i \in (k + 1)..m
    OBVIOUS
  <2> HIDE DEF U, T
  <2> QED
    BY <2>1, <2>2, <2>3
<1>3. O \in Seq(X) /\ Finds(X, Y, F) /\ k \in X /\ x \in Y
  BY DEF Finds
<1>4. k \notin more
  OBVIOUS
<1>5. ASSUME NEW g, k \notin g
      PROVE  Without(N, g) = (Without(U, g) \o O) \o Without(T, g)
  <2> DEFINE l == U \o O
  <2>1. l \in Seq(X)
    <3>1. U \in Seq(X)
      BY <1>1
    <3>2. O \in Seq(X)
      BY <1>3
    <3> HIDE DEF U, O, X
    <3> QED
      BY <3>1, <3>2
  <2> HIDE DEF N, U, O, X, T
  <2>2. Without(l, g) = Without(U, g) \o Without(O, g)
    <3>1. U \in Seq(X)
      BY <1>1
    <3>2. O \in Seq(X)
      BY <1>3
    <3>3. Without(U \o O, g) = Without(U, g) \o Without(O, g)
      BY <3>1, <3>2, WithoutConcat
    <3> QED
      BY <3>3 DEF l
  <2>3. Without(O, g) = O
    BY <1>5, WithoutOne DEF O
  <2>4. N = l \o T
    BY <1>1
  <2> HIDE DEF l
  <2>5. Without(l \o T, g) = Without(l, g) \o Without(T, g)
    <3>1. T \in Seq(X)
      BY <1>1
    <3> QED
      BY <2>1, <3>1, WithoutConcat
  <2> QED
    BY <2>2, <2>3, <2>4, <2>5
<1> HIDE DEF N, U, O, T
<1>6. u \in Seq(X) /\ t \in Seq(X)
  <2>1. u \in Seq(X)
    BY <1>1, WithoutItems
  <2>2. t \in Seq(X)
    BY <1>1, WithoutItems
  <2> QED
    BY <2>1, <2>2
<1>7. ASSUME NEW i \in 1..Len(u)
      PROVE  u[i] \in 1..(k - 1)
  <2>1. ItemsOf(u) = ItemsOf(U) \ gone
    BY <1>1, WithoutItems
  <2>2. u[i] \in ItemsOf(u)
    <3> HIDE DEF u, X
    <3> QED
      BY <1>6 DEF ItemsOf
  <2>3. DOMAIN U = 1..Len(U)
    BY <1>1
  <2> HIDE DEF u
  <2>4. u[i] \in ItemsOf(U)
    BY <2>1, <2>2
  <2>5. PICK j \in 1..Len(U) : u[i] = U[j]
    BY <2>3, <2>4 DEF ItemsOf
  <2> QED
    BY <1>2, <2>5
<1>8. ASSUME NEW i \in 1..Len(t)
      PROVE  t[i] \in (k + 1)..m
  <2>1. ItemsOf(t) = ItemsOf(T) \ gone
    BY <1>1, WithoutItems
  <2>2. t[i] \in ItemsOf(t)
    <3> HIDE DEF t, X
    <3> QED
      BY <1>6 DEF ItemsOf
  <2>3. DOMAIN T = 1..Len(T)
    BY <1>1
  <2> HIDE DEF t
  <2>4. t[i] \in ItemsOf(T)
    BY <2>1, <2>2
  <2>5. PICK j \in 1..Len(T) : t[i] = T[j]
    BY <2>3, <2>4 DEF ItemsOf
  <2> QED
    BY <1>2, <2>5
\* The list before.
<1>9. fu \in Seq(Y) /\ ft \in Seq(Y) /\ \A i \in 1..Len(fu) : ~Named(fu[i], name)
  <2> HIDE DEF u, t, X
  <2>1. fu \in Seq(Y) /\ Len(fu) = Len(u) /\ \A i \in 1..Len(u) : fu[i] = F[u[i]]
    BY <1>3, <1>6, MappedIs
  <2>2. ft \in Seq(Y)
    BY <1>3, <1>6, MappedIs
  <2> HIDE DEF fu, ft
  <2> QED
    BY <1>0, <1>7, <2>1, <2>2
<1>10. Mapped(F, Without(N, gone)) = (fu \o <<x>>) \o ft
  <2>1. Without(N, gone) = (u \o O) \o t
    BY <1>5
  <2> HIDE DEF u, t, X
  <2>2. u \o O \in Seq(X)
    BY <1>3, <1>6
  <2>3. Mapped(F, (u \o O) \o t) = Mapped(F, u \o O) \o ft
    <3> DEFINE l == u \o O
    <3>1. l \in Seq(X)
      BY <2>2
    <3>2. t \in Seq(X)
      BY <1>6
    <3>3. Finds(X, Y, F)
      BY <1>3
    <3> HIDE DEF l
    <3>4. Mapped(F, l \o t) = Mapped(F, l) \o Mapped(F, t)
      BY <3>1, <3>2, <3>3, MappedConcat
    <3> QED
      BY <3>4 DEF l
  <2>4. Mapped(F, u \o O) = fu \o Mapped(F, O)
    BY <1>3, <1>6, MappedConcat
  <2>5. Mapped(F, O) = <<x>>
    BY MappedOne DEF O
  <2> QED
    BY <2>1, <2>3, <2>4, <2>5
\* The list after.
<1>11. Without(N, more) = (u \o O) \o Without(t, mine)
  <2>1. Without(N, more) = (Without(U, more) \o O) \o Without(T, more)
    <3> HIDE DEF more
    <3> QED
      BY <1>4, <1>5
  <2>2. Without(U, more) = u
    <3>1. \A i \in 1..Len(U) : U[i] \in more <=> U[i] \in gone
      BY <1>0, <1>2
    <3> HIDE DEF more
    <3> QED
      BY <1>1, <3>1, WithoutSame
  <2>3. Without(T, more) = Without(T, gone \cup mine)
    <3>1. \A i \in 1..Len(T) : T[i] \in more <=> T[i] \in gone \cup mine
      BY <1>2
    <3> DEFINE both == gone \cup mine
    <3> HIDE DEF more, both
    <3>2. Without(T, more) = Without(T, both)
      <4>1. \A i \in 1..Len(T) : T[i] \in more <=> T[i] \in both
        BY <3>1 DEF both
      <4> QED
        BY <1>1, <4>1, WithoutSame
    <3> QED
      BY <3>2 DEF both
  <2>4. Without(t, mine) = Without(T, gone \cup mine)
    <3> DEFINE both == gone \cup mine
    <3>1. both = gone \cup mine
      OBVIOUS
    <3>3. T \in Seq(X)
      BY <1>1
    <3> HIDE DEF both, mine
    <3>2. Without(Without(T, gone), mine) = Without(T, both)
      BY <3>1, <3>3, WithoutBoth
    <3> QED
      BY <3>2 DEF both
  <2> QED
    BY <2>1, <2>2, <2>3, <2>4
<1>12. Mapped(H, Without(N, more)) = (fu \o <<item>>) \o Without(ft, G)
  <2> DEFINE v == Without(t, mine)
             l == u \o O
  <2>1. v \in Seq(X) /\ ItemsOf(v) = ItemsOf(t) \ mine
    <3> HIDE DEF t, mine, X
    <3> QED
      BY <1>6, WithoutItems
  <2>2. l \in Seq(X)
    <3> HIDE DEF u, X
    <3> QED
      BY <1>3, <1>6
  <2>3. Finds(X, Y, H)
    BY <1>0 DEF Finds
  <2>4. Mapped(H, u) = fu
    <3>1. \A i \in 1..Len(u) : H[u[i]] = F[u[i]]
      BY <1>0, <1>7
    <3> HIDE DEF u, X
    <3> QED
      BY <1>6, <3>1, MappedSame
  <2>5. Mapped(H, v) = Mapped(F, v)
    <3>1. ASSUME NEW i \in 1..Len(v)
          PROVE  H[v[i]] = F[v[i]]
      <4>1. v[i] \in ItemsOf(v) /\ v[i] \in X
        <5> HIDE DEF v, X
        <5> QED
          BY <2>1 DEF ItemsOf
      <4>2. v[i] \notin mine
        <5> HIDE DEF v, mine
        <5> QED
          BY <2>1, <4>1
      <4> HIDE DEF v
      <4> QED
        BY <1>0, <4>1, <4>2
    <3> HIDE DEF v, X
    <3> QED
      BY <2>1, <3>1, MappedSame
  <2>6. Mapped(F, v) = Without(ft, G)
    <3>1. GoneWith(X, F, mine, G)
      BY <1>3 DEF GoneWith, NamedIn, Finds
    <3> HIDE DEF t, mine, G, X
    <3> QED
      BY <1>3, <1>6, <3>1, MappedWithout
  <2>7. Mapped(H, O) = <<item>>
    <3>1. H[k] = item
      BY <1>0
    <3> QED
      BY <3>1, MappedOne DEF O
  <2> HIDE DEF X, u
  <2>8. Mapped(H, l) = Mapped(H, u) \o Mapped(H, O)
    <3>1. u \in Seq(X)
      BY <1>6
    <3>2. O \in Seq(X)
      BY <1>3
    <3> QED
      BY <2>3, <3>1, <3>2, MappedConcat
  <2> HIDE DEF l, v
  <2>9. Mapped(H, l \o v) = Mapped(H, l) \o Mapped(H, v)
    BY <2>1, <2>2, <2>3, MappedConcat
  <2>10. Without(N, more) = l \o v
    BY <1>11 DEF l, v
  <2> QED
    BY <2>4, <2>5, <2>6, <2>7, <2>8, <2>9, <2>10
\* The replacement.
<1> HIDE DEF fu, ft, x, G, X
<1> DEFINE c == ft \o b
           p == fu \o <<x>>
           q == fu \o <<item>>
           r == Without(ft, G)
<1>13. c \in Seq(Y) /\ p \in Seq(Y) /\ q \in Seq(Y)
  BY <1>3, <1>9
<1>14. r \in Seq(Y)
  BY <1>9, WithoutItems
<1>15. Named(x, name)
  BY <1>0 DEF x
<1>16. (p \o ft) \o b = p \o c
  <2>1. p \in Seq(Y)
    BY <1>13
  <2>2. ft \in Seq(Y)
    BY <1>9
  <2>3. b \in Seq(Y)
    OBVIOUS
  <2> HIDE DEF p, c
  <2>4. (p \o ft) \o b = p \o (ft \o b)
    BY <2>1, <2>2, <2>3, ConcatThree
  <2> QED
    BY <2>4 DEF c
<1>17. ReplaceNamed(p \o c, name, item) = q \o Without(c, G)
  <2>1. x \in Y
    BY <1>3
  <2>2. fu \in Seq(Y)
    BY <1>9
  <2>3. c \in Seq(Y)
    BY <1>13
  <2>4. NoneNamed(fu, name)
    BY <1>9 DEF NoneNamed
  <2> HIDE DEF c
  <2>5. ReplaceNamed(Around(fu, x, c), name, item) = Around(fu, item, Without(c, NamedIn(Y, name)))
    BY <1>15, <2>1, <2>2, <2>3, <2>4, ReplaceAt
  <2> QED
    BY <2>5 DEF Around, G
<1>18. Without(c, G) = r \o Without(b, G)
  BY <1>9, WithoutConcat
<1>19. Without(b, G) = b
  <2>1. \A i \in 1..Len(b) : b[i] \notin G
    BY DEF NamedIn, NoneNamed, G
  <2> QED
    BY <2>1, WithoutNone
<1>20. (q \o r) \o b = q \o (r \o b)
  <2>1. q \in Seq(Y)
    BY <1>13
  <2> HIDE DEF q, r
  <2> QED
    BY <1>14, <2>1, ConcatThree
<1>21. ReplaceNamed(Mapped(F, Without(N, gone)) \o b, name, item) = Mapped(H, Without(N, more)) \o b
  BY <1>10, <1>12, <1>16, <1>17, <1>18, <1>19, <1>20
<1>22. more = gone \cup (PlacesNamed(m, F, name) \ {k})
  BY DEF more, others, PlacesNamed
<1> QED
  BY <1>21, <1>22 DEF N, Listed, H

\* An item keeps its name when it loses its directives.
LEMMA StrippedName ==
  ASSUME NEW e \in 0..Depth, NEW item \in Overlays[e], HasName(item), Stripped(item) # Failed
  PROVE  HasName(Stripped(item)) /\ Name(Stripped(item)) = Name(item)
<1> DEFINE D == Depth
           n == item.at["name"]
           below == stripped[D - 1]
           Child(k) == IF item.at[k] = Missing THEN Missing ELSE below[item.at[k]]
<1>0. Depth \in 1..Depth /\ Depth \in e..Depth
  BY DepthNat
<1>1. item \in Overlays[Depth]
  <2>1. Overlays[e] \subseteq Overlays[Depth]
    BY <1>0, MoreLevels DEF Overlays
  <2> QED
    BY <2>1
<1>2. IsMap(item) /\ "name" \in Keys /\ IsScalar(n)
  BY DEF HasName, Get, IsScalar, Missing
<1>3. n \in Overlays[Depth - 1]
  <2>1. item.at \in [Keys -> {Missing} \cup Overlays[Depth - 1]]
    BY <1>0, <1>1, <1>2, OverlayShape
  <2>2. n # Missing
    BY <1>2 DEF IsScalar, Missing
  <2> QED
    BY <1>2, <2>1, <2>2
<1>4. Depth - 1 \in 1..Depth
  <2>1. Overlays[0] = {}
    BY NoNode DEF Overlays
  <2>2. Depth - 1 # 0
    BY <1>3, <2>1
  <2> QED
    BY <1>0, <2>2, DepthNat
<1>S. ASSUME NEW d \in 1..Depth, NEW v \in Overlays[d]
      PROVE  stripped[d][v] = Strip(v, stripped[d - 1])
  <2>1. stripped[d] = [w \in Overlays[d] |-> Strip(w, stripped[d - 1])]
    BY StrippedType
  <2> QED
    BY <2>1
<1>5. Stripped(item) = Strip(item, below)
  <2>1. Depth \in 1..Depth
    BY <1>0
  <2>2. stripped[Depth][item] = Strip(item, stripped[Depth - 1])
    BY <1>1, <2>1, <1>S
  <2> QED
    BY <2>2 DEF Stripped
<1>6. below[n] = Strip(n, stripped[(Depth - 1) - 1])
  <2> HIDE DEF n
  <2> QED
    BY <1>3, <1>4, <1>S
<1>7. below[n] = Failed \/ below[n] = Scalar(n.value)
  <2> DEFINE b == stripped[(Depth - 1) - 1]
  <2> HIDE DEF b
  <2>1. ~IsMap(n) /\ ~IsList(n)
    BY <1>2 DEF IsMap, IsList, IsScalar
  <2>2. Strip(n, b) = Failed \/ Strip(n, b) = Scalar(n.value)
    <3> HIDE DEF n
    <3>1. CASE n.tag = "delete"
      BY <2>1, <3>1, Zenon DEF Strip
    <3>2. CASE n.tag # "delete"
      BY <1>2, <2>1, <3>2, Zenon DEF Strip
    <3> QED
      BY <3>1, <3>2
  <2> QED
    BY <1>6, <2>2 DEF b
<1> HIDE DEF below
<1>8. item.tag # "delete" /\ ~(item.flaw = "directive" \/ \E k \in Keys : Child(k) = Failed)
      /\ Stripped(item) = Map([k \in Keys |-> Child(k)])
  <2>1. item.tag # "delete"
    <3>1. ASSUME item.tag = "delete"
          PROVE  Strip(item, below) = Failed
      BY <3>1, Zenon DEF Strip
    <3> QED
      BY <1>5, <3>1
  <2>2. Strip(item, below) = IF item.flaw = "directive" \/ \E k \in Keys : Child(k) = Failed
                             THEN Failed ELSE Map([k \in Keys |-> Child(k)])
    <3>1. ~IsList(item) /\ ~IsScalar(item)
      BY <1>2 DEF IsMap, IsList, IsScalar
    <3> QED
      BY <1>2, <2>1, <3>1, Zenon DEF Strip
  <2> QED
    BY <1>5, <2>1, <2>2
<1>9. Child("name") = Scalar(n.value)
  <2>1. Child("name") = below[n] /\ Child("name") # Failed
    BY <1>2, <1>8 DEF IsScalar, Missing
  <2> QED
    BY <1>7, <2>1
<1> DEFINE at == [k \in Keys |-> Child(k)]
<1>10. at["name"] = Scalar(n.value) /\ Stripped(item) = Map(at)
  BY <1>2, <1>8, <1>9
<1> HIDE DEF at
<1>11. Get(Stripped(item), "name") = Scalar(n.value) /\ IsMap(Stripped(item))
  BY <1>2, <1>10 DEF Map, Get, IsMap
<1>12. Get(item, "name") = n
  BY <1>2 DEF Get
<1> QED
  BY <1>2, <1>11, <1>12 DEF HasName, Name, Scalar, IsScalar

\* What is found for the items of a list.
LEMMA MappedItems ==
  ASSUME NEW X, NEW Y, NEW F, Finds(X, Y, F), NEW s \in Seq(X)
  PROVE  ItemsOf(Mapped(F, s)) = {F[x] : x \in ItemsOf(s)}
<1> DEFINE m == Mapped(F, s)
<1>1. m \in Seq(Y) /\ Len(m) = Len(s) /\ \A i \in 1..Len(s) : m[i] = F[s[i]]
  BY MappedIs
<1> HIDE DEF m
<1>2. DOMAIN m = 1..Len(s) /\ DOMAIN s = 1..Len(s)
  BY <1>1
<1> QED
  BY <1>1, <1>2 DEF ItemsOf, m

\* The places that are left of all.
LEMMA NumbersLeft ==
  ASSUME NEW m \in Nat, NEW gone
  PROVE  /\ Without(Numbers(m), gone) \in Seq(1..m)
         /\ ItemsOf(Without(Numbers(m), gone)) = (1..m) \ gone
<1> DEFINE N == Numbers(m)
<1>1. N \in Seq(1..m) /\ Len(N) = m /\ \A i \in 1..m : N[i] = i
  BY DEF Numbers
<1> HIDE DEF N
<1>2. ItemsOf(N) = 1..m
  BY <1>1 DEF ItemsOf
<1>3. Without(N, gone) \in Seq(1..m) /\ ItemsOf(Without(N, gone)) = ItemsOf(N) \ gone
  BY <1>1, WithoutItems
<1> QED
  BY <1>2, <1>3 DEF N
=============================================================================

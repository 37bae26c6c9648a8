---------------------------- MODULE TxGraphProofs -----------------------------
(***************************************************************************)
(* Proofs about TxGraph, for any finite tree of calls, any finite set of    *)
(* resources and any number of times that the modal window is shown: the    *)
(* types, that the page has the branches that were asked for (AskedShown),  *)
(* and what its pictures tell, whether or not branches share resources      *)
(* (PictureTrue, ParticipantsPlotted).                                      *)
(***************************************************************************)
EXTENDS TxGraph, FiniteSetTheorems, WellFoundedInduction, TLAPS

-----------------------------------------------------------------------------
(* The invariant of the tables and of the request.                          *)

\* The types of the tables.
TablesTyped ==
  /\ row \in [Branch -> {"none", "there", "gone"}]
  /\ subordinates \in [Branch -> SUBSET Branch]
  /\ participants \in [Branch -> [Resource -> Votes!Record]]

\* The types of the request.
RequestTyped ==
  /\ step \in {"idle", "info", "find", "top", "load", "shown", "missing", "rootless"}
  /\ asked \in Branch \cup {NoBranch}
  /\ crumbs \subseteq Branch
  /\ top \in Branch \cup {NoBranch}
  /\ pending \subseteq Branch
  /\ loaded \in [Branch -> Entity]

\* A link is a call between rows that are there, in the tables and in the page.
LinksTrue ==
  /\ \A a \in Branch : \A b \in subordinates[a] : Caller[b] = a /\ Rows!There(a) /\ Rows!There(b)
  /\ \A a \in Branch : \A b \in loaded[a].subordinates : Caller[b] = a

\* Nothing is loaded before the root has been found.
LoadedLater ==
  step \in {"idle", "info", "find", "top"} =>
    pending = {} /\ loaded = [b \in Branch |-> NotLoaded]

\* What AskedShown speaks of.
Wanted == (crumbs \cup {asked}) \ {NoBranch}

\* It was there when the page was begun.
WantedRows ==
  /\ step \in {"find", "top", "load", "shown"} => \A b \in Wanted : row[b] # "none"
  /\ step = "find" => asked \in Branch
  /\ step = "find" /\ Rows!There(asked) /\ ~ Rows!Linked(asked) => crumbs = {}

\* The branches that an entity of the page refers to.
Reached == {top} \cup UNION {loaded[a].subordinates : a \in Branch}

\* Every old row but the root has its caller among the old ones, which has it in
\* its entity, or whose collections will come with it.
Covered(old) ==
  /\ Wanted \subseteq old
  /\ \A x \in old : row[x] # "none"
  /\ \A x \in old : Rows!There(x) /\ x # top =>
       /\ Caller[x] \in old
       /\ x \in subordinates[Caller[x]]
       /\ \/ x \in loaded[Caller[x]].subordinates
          \/ Caller[x] \in pending
          \/ Caller[x] \notin Reached

\* Of what there was when the root was found, nothing is lost.
OldCovered ==
  step = "load" => top \in Branch /\ \E old \in SUBSET Branch : Covered(old)

\* All of it, which every step preserves.
RInv == TablesTyped /\ RequestTyped /\ LinksTrue /\ LoadedLater /\ WantedRows /\ OldCovered

-----------------------------------------------------------------------------
(* Trees and sequences.                                                     *)

\* How deep a branch is below the one that nobody called.
Depth ==
  CHOOSE depth \in [Branch -> 0 .. Cardinality(Branch)] :
    \A b \in Branch : Caller[b] # NoBranch => depth[b] = depth[Caller[b]] + 1

\* The depth of a branch is one more than that of its caller.
LEMMA DepthIs ==
  /\ Cardinality(Branch) \in Nat
  /\ Depth \in [Branch -> 0 .. Cardinality(Branch)]
  /\ \A b \in Branch : Caller[b] # NoBranch => Depth[b] = Depth[Caller[b]] + 1
<1>1. Cardinality(Branch) \in Nat
  BY FS_CardinalityType, TxGraphAssumption DEF TxGraphAssumption
<1> QED
  BY <1>1, CallsAssumption DEF Depth, CallsAssumption

\* Any set of naturals has a least element.
LEMMA LeastNat ==
  ASSUME NEW T \in SUBSET Nat, T # {}
  PROVE  \E n \in T : \A m \in T : n <= m
<1> DEFINE R == OpToRel(<, Nat)
<1>1. \A m, n \in Nat : <<m, n>> \in R <=> m < n
  BY DEF OpToRel
<1>2. IsWellFoundedOn(R, Nat)
  BY NatLessThanWellFounded
<1> HIDE DEF R
<1>3. PICK n \in T : \A m \in T : ~ (<<m, n>> \in R)
  BY <1>2, WFMin
<1> SUFFICES ASSUME NEW m \in T PROVE n <= m
  OBVIOUS
<1>4. m \in Nat /\ n \in Nat /\ ~ (m < n)
  BY <1>1, <1>3
<1> QED
  BY <1>4

\* Some branch of a set has no caller in it.
LEMMA Topmost ==
  ASSUME NEW S \in SUBSET Branch, S # {}
  PROVE  \E b \in S : Caller[b] \notin S
<1> DEFINE T == {Depth[b] : b \in S}
<1>1. T \in SUBSET Nat /\ T # {}
  BY DepthIs
<1>2. PICK n \in T : \A m \in T : n <= m
  <2> HIDE DEF T
  <2> QED
    BY <1>1, LeastNat
<1>3. PICK b \in S : n = Depth[b]
  BY <1>2
<1>4. Caller[b] \notin S
  <2> SUFFICES ASSUME Caller[b] \in S PROVE FALSE
    OBVIOUS
  <2>1. Caller[b] # NoBranch /\ Caller[b] \in Branch
    BY TxGraphAssumption DEF TxGraphAssumption
  <2>2. Depth[b] = Depth[Caller[b]] + 1 /\ Depth[Caller[b]] \in Nat
    BY <2>1, DepthIs
  <2>3. Depth[b] <= Depth[Caller[b]]
    BY <1>2, <1>3
  <2> QED
    BY <2>2, <2>3
<1> QED
  BY <1>4

\* Some branch of a set has called none in it.
LEMMA Deepest ==
  ASSUME NEW S \in SUBSET Branch, S # {}
  PROVE  \E b \in S : \A c \in S : Caller[c] # b
<1> DEFINE N == Cardinality(Branch)
           T == {N - Depth[b] : b \in S}
<1>1. T \in SUBSET Nat /\ T # {}
  BY DepthIs
<1>2. PICK n \in T : \A m \in T : n <= m
  <2> HIDE DEF T
  <2> QED
    BY <1>1, LeastNat
<1>3. PICK b \in S : n = N - Depth[b]
  BY <1>2
<1> SUFFICES ASSUME NEW c \in S, Caller[c] = b PROVE FALSE
  BY <1>3
<1>4. Depth[c] = Depth[b] + 1
  BY DepthIs, TxGraphAssumption DEF TxGraphAssumption
<1>5. N - Depth[b] <= N - Depth[c]
  BY <1>2, <1>3
<1>6. Depth[b] \in Nat /\ Depth[c] \in Nat /\ N \in Nat
  BY DepthIs
<1> QED
  BY <1>4, <1>5, <1>6

\* What a sequence of two parts has.
LEMMA ConcatRange ==
  ASSUME NEW S, NEW s \in Seq(S), NEW t \in Seq(S)
  PROVE  /\ s \o t \in Seq(S)
         /\ Range(s \o t) = Range(s) \cup Range(t)
<1> DEFINE q == s \o t
<1>1. /\ q \in Seq(S) /\ Len(q) = Len(s) + Len(t)
      /\ \A i \in 1 .. Len(s) : q[i] = s[i]
      /\ \A i \in 1 .. Len(t) : q[Len(s) + i] = t[i]
  OBVIOUS
<1>2. DOMAIN s = 1 .. Len(s) /\ DOMAIN t = 1 .. Len(t) /\ DOMAIN q = 1 .. Len(q)
  BY <1>1
<1>3. Len(s) \in Nat /\ Len(t) \in Nat
  OBVIOUS
<1> HIDE DEF q
<1>4. ASSUME NEW i \in DOMAIN q PROVE q[i] \in Range(s) \cup Range(t)
  <2>1. CASE i <= Len(s)
    BY <1>1, <1>2, <1>3, <2>1 DEF Range
  <2>2. CASE i > Len(s)
    <3>1. i - Len(s) \in 1 .. Len(t) /\ i = Len(s) + (i - Len(s))
      BY <1>1, <1>2, <1>3, <2>2
    <3>2. q[i] = t[i - Len(s)]
      BY <1>1, <3>1
    <3> QED
      BY <1>2, <3>1, <3>2 DEF Range
  <2> QED
    BY <1>2, <1>3, <1>1, <2>1, <2>2
<1>5. ASSUME NEW i \in DOMAIN s PROVE s[i] \in Range(q)
  <2>1. i \in DOMAIN q /\ q[i] = s[i]
    BY <1>1, <1>2, <1>3
  <2> QED
    BY <2>1 DEF Range
<1>6. ASSUME NEW i \in DOMAIN t PROVE t[i] \in Range(q)
  <2>1. Len(s) + i \in DOMAIN q /\ q[Len(s) + i] = t[i]
    BY <1>1, <1>2, <1>3
  <2> QED
    BY <2>1 DEF Range
<1>7. Range(q) = Range(s) \cup Range(t)
  BY <1>4, <1>5, <1>6 DEF Range
<1> QED
  BY <1>1, <1>7 DEF q

\* The concatenation of sequences over a set is one, and has what they have.
LEMMA FlattenSeqRange ==
  ASSUME NEW S, NEW s \in Seq(Seq(S))
  PROVE  /\ FlattenSeq(s) \in Seq(S)
         /\ Range(FlattenSeq(s)) = UNION {Range(s[k]) : k \in DOMAIN s}
<1> DEFINE D(n) == 1..n
           Upto(n) == UNION {Range(s[k]) : k \in D(n)}
           Right(f, i) == f[i] \in Seq(S) /\ Range(f[i]) = Upto(i)
           Rhs(f, n) == [i \in D(n) |-> IF i = 1 THEN s[i] ELSE f[i-1] \o s[i]]
           Good(n) == \E f : f = Rhs(f, n)
           Bad == {n \in 0..Len(s) : ~ Good(n)}
<1>0. Len(s) \in Nat /\ DOMAIN s = D(Len(s)) /\ \A k \in D(Len(s)) : s[k] \in Seq(S)
  OBVIOUS
<1>1. Good(0)
  <2>1. D(0) = {}
    OBVIOUS
  <2>2. Rhs(<<>>, 0) = <<>>
    BY <2>1
  <2> QED
    BY <2>1, <2>2
<1>2. ASSUME NEW n \in 0..Len(s), n # 0, Good(n-1)
      PROVE  Good(n)
  <2>1. PICK f : f = Rhs(f, n-1)
    BY <1>2
  <2> DEFINE v == IF n = 1 THEN s[n] ELSE f[n-1] \o s[n]
             g == [i \in D(n) |-> IF i = n THEN v ELSE f[i]]
  <2>3. \A i \in D(n) : i # n => i \in D(n-1) /\ (i # 1 => i-1 \in D(n-1))
    BY <1>2
  <2>5. \A i \in D(n) : g[i] = IF i = 1 THEN s[i] ELSE g[i-1] \o s[i]
    <3> SUFFICES ASSUME NEW i \in D(n) PROVE g[i] = IF i = 1 THEN s[i] ELSE g[i-1] \o s[i]
      OBVIOUS
    <3>1. i # 1 => i-1 \in D(n) /\ i-1 # n /\ g[i-1] = f[i-1]
      BY <1>2
    <3>2. CASE i = n
      BY <3>1, <3>2
    <3>3. CASE i # n
      <4>1. i \in D(n-1)
        BY <2>3, <3>3
      <4>2. f[i] = IF i = 1 THEN s[i] ELSE f[i-1] \o s[i]
        BY <2>1, <4>1
      <4> QED
        BY <3>1, <3>3, <4>2
    <3> QED
      BY <3>2, <3>3
  <2>6. g = Rhs(g, n)
    BY <2>5
  <2> QED
    BY <2>6
<1> HIDE DEF Good
<1>3. Bad = {}
  <2> SUFFICES ASSUME Bad # {} PROVE FALSE
    OBVIOUS
  <2>0. Bad \in SUBSET Nat
    OBVIOUS
  <2> HIDE DEF Bad
  <2>1. PICK n \in Bad : \A m \in Bad : n <= m
    BY <2>0, LeastNat
  <2> USE DEF Bad
  <2>2. n # 0 /\ n-1 \in 0..Len(s) /\ n-1 \notin Bad
    BY <1>1, <2>1
  <2> QED
    BY <1>2, <2>1, <2>2
<1>4. Good(Len(s))
  BY <1>0, <1>3
<1> DEFINE flat == CHOOSE f : f = Rhs(f, Len(s))
<1>5. flat = Rhs(flat, Len(s))
  BY <1>4 DEF Good
<1>6. \A i \in D(Len(s)) : Right(flat, i)
  <2> DEFINE B == {i \in D(Len(s)) : ~ Right(flat, i)}
  <2> SUFFICES ASSUME B # {} PROVE FALSE
    OBVIOUS
  <2> HIDE DEF flat
  <2>0. B \in SUBSET Nat
    OBVIOUS
  <2> HIDE DEF B
  <2>1. PICK i \in B : \A m \in B : i <= m
    BY <2>0, LeastNat
  <2> USE DEF B
  <2>2. flat[i] = IF i = 1 THEN s[i] ELSE flat[i-1] \o s[i]
    BY <1>5
  <2>3. CASE i = 1
    <3>1. D(1) = {1}
      OBVIOUS
    <3>2. Upto(1) = Range(s[1])
      BY <3>1
    <3> HIDE DEF Upto
    <3>3. Right(flat, 1)
      BY <1>0, <2>2, <2>3, <3>2
    <3> QED
      BY <2>3, <3>3
  <2>4. CASE i # 1
    <3>1. i-1 \in D(Len(s)) /\ Right(flat, i-1)
      <4>1. i-1 \in D(Len(s)) /\ i - 1 < i
        BY <2>4
      <4>2. i-1 \notin B
        <5> HIDE DEF B, D
        <5> QED
          BY <2>1, <4>1, <2>0
      <4> QED
        BY <4>1, <4>2
    <3>2. D(i) = D(i-1) \cup {i}
      BY <2>4
    <3>3. Upto(i) = Upto(i-1) \cup Range(s[i])
      BY <3>2
    <3>4. /\ flat[i] = flat[i-1] \o s[i] /\ flat[i-1] \in Seq(S) /\ s[i] \in Seq(S)
          /\ Range(flat[i-1]) = Upto(i-1)
      BY <1>0, <2>2, <2>4, <3>1
    <3> HIDE DEF Upto
    <3>5. flat[i] \in Seq(S) /\ Range(flat[i]) = Upto(i)
      BY <3>3, <3>4, ConcatRange
    <3> QED
      BY <3>5
  <2> QED
    BY <2>3, <2>4
<1>7. CASE Len(s) = 0
  <2>1. FlattenSeq(s) = s
    BY <1>7 DEF FlattenSeq
  <2>2. s = <<>> /\ DOMAIN s = {}
    BY <1>7
  <2> QED
    BY <2>1, <2>2 DEF Range
<1>8. CASE Len(s) # 0
  <2>1. FlattenSeq(s) = flat[Len(s)]
    BY <1>8 DEF FlattenSeq
  <2> HIDE DEF flat
  <2>2. Right(flat, Len(s))
    <3> HIDE DEF Right
    <3>1. Len(s) \in D(Len(s))
      BY <1>0, <1>8
    <3> QED
      BY <1>6, <3>1
  <2> HIDE DEF D
  <2> QED
    BY <1>0, <2>1, <2>2
<1> QED
  BY <1>7, <1>8

\* A finite set has an order, and SetToSeq() is one.
LEMMA SetToSeqRange ==
  ASSUME NEW S, IsFiniteSet(S)
  PROVE  SetToSeq(S) \in Seq(S) /\ Range(SetToSeq(S)) = S
<1>1. Cardinality(S) \in Nat /\ ExistsBijection(1..Cardinality(S), S)
  BY FS_CardinalityType
<1>2. \E f \in [1..Cardinality(S) -> S] : IsInjective(f)
  BY <1>1 DEF ExistsBijection, Bijection, Injection, IsInjective
<1>3. SetToSeq(S) \in [1..Cardinality(S) -> S] /\ IsInjective(SetToSeq(S))
  BY <1>2 DEF SetToSeq
<1>4. SetToSeq(S) \in Seq(S)
  BY <1>1, <1>3
<1>5. SetToSeq(S) \in Surjection(1..Cardinality(S), S)
  <2>1. SetToSeq(S) \in Injection(1..Cardinality(S), S)
    BY <1>3 DEF Injection, IsInjective
  <2>2. Cardinality(1..Cardinality(S)) = Cardinality(S)
    BY <1>1, FS_Interval
  <2> QED
    BY <2>1, <2>2, FS_Injection
<1>6. Range(SetToSeq(S)) = S
  <2> SUFFICES ASSUME NEW x \in S PROVE x \in Range(SetToSeq(S))
    BY <1>3 DEF Range
  <2>1. PICK i \in 1..Cardinality(S) : SetToSeq(S)[i] = x
    BY <1>5 DEF Surjection
  <2> QED
    BY <1>3, <2>1 DEF Range
<1> QED
  BY <1>4, <1>6

-----------------------------------------------------------------------------
(* populate(): the json of a page.                                          *)

\* What a node of the json has.
Datum == [isResource : BOOLEAN, vote : {"none", "UNKNOWN", "COMMIT", "ABORT"},
          xaException : BOOLEAN]

\* The nodes of the json.
Node == [id : Branch \cup Resource, up : Branch \cup {NoBranch}, data : Datum]

\* The parent of b in the page.
Above(b) ==
  IF b = top THEN NoBranch ELSE CHOOSE a \in Branch : b \in loaded[a].subordinates

\* populate() of b, given those of its subordinates.
Subtree(f, b) ==
  LET below == SetToSeq(loaded[b].subordinates)
  IN  <<TransactionNode(b, Above(b))>>
        \o SetToSeq({ParticipantNode(b, r) : r \in ParticipantsOf(b)})
        \o FlattenSeq([k \in DOMAIN below |-> f[below[k]]])

\* f is what populate() returns for each branch.
Populates(f) == f = [b \in Branch |-> Subtree(f, b)]

\* The entities of a page are finite, and their subordinates are called by them.
PageTyped ==
  /\ loaded \in [Branch -> Entity]
  /\ top \in Branch \cup {NoBranch}
  /\ \A a \in Branch : \A b \in loaded[a].subordinates : Caller[b] = a

\* The order of the subordinates of an entity.
LEMMA BelowSeq ==
  ASSUME PageTyped, NEW b \in Branch
  PROVE  /\ loaded[b].subordinates \subseteq Branch
         /\ SetToSeq(loaded[b].subordinates) \in Seq(loaded[b].subordinates)
         /\ Range(SetToSeq(loaded[b].subordinates)) = loaded[b].subordinates
<1>1. loaded[b].subordinates \in SUBSET Branch
  BY DEF PageTyped, Entity
<1>2. IsFiniteSet(loaded[b].subordinates)
  BY <1>1, FS_Subset, TxGraphAssumption DEF TxGraphAssumption
<1> QED
  BY <1>1, <1>2, SetToSeqRange

\* The json below b depends on that of its subordinates only.
LEMMA SubtreeOfBelow ==
  ASSUME PageTyped, NEW b \in Branch, NEW f, NEW g,
         \A c \in loaded[b].subordinates : f[c] = g[c]
  PROVE  Subtree(f, b) = Subtree(g, b)
<1> DEFINE below == SetToSeq(loaded[b].subordinates)
<1>1. \A k \in DOMAIN below : below[k] \in loaded[b].subordinates
  BY BelowSeq DEF Range
<1> HIDE DEF below
<1>2. [k \in DOMAIN below |-> f[below[k]]] = [k \in DOMAIN below |-> g[below[k]]]
  BY <1>1
<1> QED
  BY <1>2 DEF Subtree, below

\* populate() comes to an end: the calls make a tree.
LEMMA PopulateEnds ==
  ASSUME PageTyped
  PROVE  \E f : Populates(f)
<1> DEFINE N == Cardinality(Branch)
           D(n) == {b \in Branch : Depth[b] + n > N}
           Rhs(f, n) == [b \in D(n) |-> Subtree(f, b)]
           Good(n) == \E f : f = Rhs(f, n)
           Bad == {n \in 0 .. N + 1 : ~ Good(n)}
<1>0. /\ N \in Nat /\ \A b \in Branch : Depth[b] \in 0 .. N
      /\ \A b \in Branch : Caller[b] # NoBranch => Depth[b] = Depth[Caller[b]] + 1
  BY DepthIs
<1>1. Good(0)
  <2>1. D(0) = {}
    BY <1>0
  <2>2. Rhs(<<>>, 0) = <<>>
    BY <2>1
  <2> QED
    BY <2>2
<1>2. ASSUME NEW n \in 0 .. N + 1, n # 0, Good(n - 1) PROVE Good(n)
  <2>1. PICK f : f = Rhs(f, n - 1)
    BY <1>2
  <2> DEFINE g == [b \in D(n) |-> Subtree(f, b)]
  <2>2. \A b \in D(n - 1) : b \in D(n) /\ g[b] = f[b]
    <3> HIDE DEF N
    <3> SUFFICES ASSUME NEW b \in D(n - 1) PROVE b \in D(n) /\ g[b] = f[b]
      OBVIOUS
    <3>1. b \in D(n)
      BY <1>0, <1>2
    <3>2. f[b] = Subtree(f, b)
      BY <2>1
    <3> QED
      BY <3>1, <3>2
  <2>3. \A b \in D(n) : g[b] = Subtree(g, b)
    <3> SUFFICES ASSUME NEW b \in D(n) PROVE Subtree(f, b) = Subtree(g, b)
      OBVIOUS
    <3>1. \A c \in loaded[b].subordinates : c \in D(n - 1)
      <4> SUFFICES ASSUME NEW c \in loaded[b].subordinates PROVE c \in D(n - 1)
        OBVIOUS
      <4>1. c \in Branch /\ Caller[c] = b /\ b \in Branch /\ b # NoBranch
        BY BelowSeq, TxGraphAssumption DEF PageTyped, TxGraphAssumption
      <4>2. Depth[c] = Depth[b] + 1 /\ Depth[b] \in Nat
        BY <1>0, <4>1
      <4> HIDE DEF N
      <4> QED
        BY <1>0, <1>2, <4>1, <4>2
    <3>2. \A c \in loaded[b].subordinates : f[c] = g[c]
      BY <2>2, <3>1
    <3>3. b \in Branch
      OBVIOUS
    <3> HIDE DEF g, D
    <3> QED
      BY <3>2, <3>3, SubtreeOfBelow
  <2>4. g = Rhs(g, n)
    BY <2>3
  <2> QED
    BY <2>4
<1> HIDE DEF Good
<1>3. Bad = {}
  <2> SUFFICES ASSUME Bad # {} PROVE FALSE
    OBVIOUS
  <2>0. Bad \in SUBSET Nat
    OBVIOUS
  <2> HIDE DEF Bad
  <2>1. PICK n \in Bad : \A m \in Bad : n <= m
    BY <2>0, LeastNat
  <2> HIDE DEF N
  <2> USE DEF Bad
  <2>2. n # 0 /\ n \in 0 .. N + 1 /\ n - 1 \in 0 .. N + 1
    BY <1>0, <1>1
  <2>3. n - 1 \notin Bad
    BY <2>0, <2>1, <2>2
  <2> QED
    BY <1>2, <2>2, <2>3
<1>4. Good(N + 1)
  BY <1>0, <1>3
<1>5. D(N + 1) = Branch
  BY <1>0
<1>6. \E f : f = Rhs(f, N + 1)
  BY <1>4 DEF Good
<1> QED
  BY <1>5, <1>6 DEF Populates

\* The json is what populate() makes of the root.
LEMMA JsonPopulated ==
  ASSUME PageTyped
  PROVE  \E f : Populates(f) /\ JsonGraph = f[top]
<1> DEFINE populate == CHOOSE f : Populates(f)
<1>1. Populates(populate)
  BY PopulateEnds
<1>2. JsonGraph = populate[top]
  BY DEF JsonGraph, Populates, Subtree, Above
<1> QED
  BY <1>1, <1>2

\* What a sequence has after its first element.
Rest(q) == {q[i] : i \in 2 .. Len(q)}

\* A sequence of a first element and two parts.
Joined(x, s, t) == <<x>> \o s \o t

\* What it has.
LEMMA FirstAndRest ==
  ASSUME NEW S, NEW x \in S, NEW s \in Seq(S), NEW t \in Seq(S)
  PROVE  /\ Joined(x, s, t) \in Seq(S)
         /\ Len(Joined(x, s, t)) \in Nat /\ Len(Joined(x, s, t)) >= 1
         /\ Joined(x, s, t)[1] = x
         /\ Rest(Joined(x, s, t)) = Range(s) \cup Range(t)
<1> DEFINE r == s \o t
           q == Joined(x, s, t)
<1>1. r \in Seq(S) /\ Range(r) = Range(s) \cup Range(t)
  BY ConcatRange
<1>2. /\ q \in Seq(S) /\ Len(q) \in Nat /\ Len(q) = Len(r) + 1 /\ q[1] = x /\ Len(r) \in Nat
      /\ \A i \in 1 .. Len(r) : q[i + 1] = r[i]
  BY DEF Joined
<1>3. DOMAIN r = 1 .. Len(r)
  BY <1>1
<1> HIDE DEF q, r
<1>4. Rest(q) = Range(r)
  <2>1. ASSUME NEW i \in 2 .. Len(q) PROVE q[i] \in Range(r)
    <3>1. i - 1 \in 1 .. Len(r) /\ i = (i - 1) + 1
      BY <1>2
    <3>2. q[i] = r[i - 1]
      BY <1>2, <3>1
    <3> QED
      BY <1>3, <3>1, <3>2 DEF Range
  <2>2. ASSUME NEW i \in 1 .. Len(r) PROVE r[i] \in Rest(q)
    <3>1. i + 1 \in 2 .. Len(q)
      BY <1>2
    <3> QED
      BY <1>2, <3>1 DEF Rest
  <2> QED
    BY <1>3, <2>1, <2>2 DEF Range, Rest
<1>5. Len(q) >= 1
  BY <1>2
<1> QED
  BY <1>1, <1>2, <1>4, <1>5 DEF q

\* A page has nodes of its types.
LEMMA NodesTyped ==
  ASSUME PageTyped, NEW b \in Branch, b \in Reached
  PROVE  /\ TransactionNode(b, Above(b)) \in Node
         /\ \A r \in Resource : ParticipantNode(b, r) \in Node
<1>1. Above(b) \in Branch \cup {NoBranch}
  <2>1. CASE b = top
    BY <2>1 DEF Above
  <2>2. CASE b # top
    <3>1. \E a \in Branch : b \in loaded[a].subordinates
      BY <2>2 DEF Reached
    <3> QED
      BY <2>2, <3>1 DEF Above
  <2> QED
    BY <2>1, <2>2
<1>2. TransactionNode(b, Above(b)) \in Node
  BY <1>1 DEF TransactionNode, Node, Datum
<1>3. ASSUME NEW r \in Resource PROVE ParticipantNode(b, r) \in Node
  <2>1. loaded[b].participants[r] \in Votes!Record
    BY DEF PageTyped, Entity
  <2> QED
    BY <2>1 DEF ParticipantNode, Node, Datum, Votes!Record
<1> QED
  BY <1>2, <1>3

\* The json below b: its transaction, its participants, and what is below them.
LEMMA SubtreeShape ==
  ASSUME PageTyped, NEW b \in Branch, b \in Reached,
         NEW f, \A c \in loaded[b].subordinates : f[c] \in Seq(Node)
  PROVE  LET q == Subtree(f, b)
         IN  /\ q \in Seq(Node) /\ Len(q) \in Nat /\ Len(q) >= 1
             /\ q[1] = TransactionNode(b, Above(b))
             /\ Rest(q) =
                  {ParticipantNode(b, r) : r \in ParticipantsOf(b)}
                  \cup UNION {Range(f[c]) : c \in loaded[b].subordinates}
<1> DEFINE x == TransactionNode(b, Above(b))
           P == {ParticipantNode(b, r) : r \in ParticipantsOf(b)}
           s == SetToSeq(P)
           below == SetToSeq(loaded[b].subordinates)
           parts == [k \in DOMAIN below |-> f[below[k]]]
           t == FlattenSeq(parts)
           q == Subtree(f, b)
<1>1. x \in Node /\ P \subseteq Node
  BY NodesTyped DEF ParticipantsOf
<1>2. s \in Seq(Node) /\ Range(s) = P
  <2>1. IsFiniteSet(ParticipantsOf(b))
    BY FS_Subset, TxGraphAssumption DEF TxGraphAssumption, ParticipantsOf
  <2>2. IsFiniteSet(P)
    <3> HIDE DEF P
    <3>1. \E g \in Surjection(ParticipantsOf(b), P) : TRUE
      <4> DEFINE g == [r \in ParticipantsOf(b) |-> ParticipantNode(b, r)]
      <4>1. g \in [ParticipantsOf(b) -> P] /\ \A y \in P : \E r \in ParticipantsOf(b) : g[r] = y
        BY DEF P
      <4> QED
        BY <4>1 DEF Surjection
    <3> QED
      BY <2>1, <3>1, FS_Surjection
  <2>3. s \in Seq(P) /\ Range(s) = P
    <3> HIDE DEF P
    <3> QED
      BY <2>2, SetToSeqRange
  <2> QED
    BY <1>1, <2>3
<1>3. t \in Seq(Node) /\ Range(t) = UNION {Range(f[c]) : c \in loaded[b].subordinates}
  <2>1. below \in Seq(loaded[b].subordinates) /\ Range(below) = loaded[b].subordinates
    BY BelowSeq
  <2> HIDE DEF below
  <2>2. \A k \in DOMAIN below : below[k] \in loaded[b].subordinates
    BY <2>1
  <2>3. parts \in Seq(Seq(Node)) /\ DOMAIN parts = DOMAIN below
    BY <2>1, <2>2
  <2>4. t \in Seq(Node) /\ Range(t) = UNION {Range(parts[k]) : k \in DOMAIN parts}
    <3> HIDE DEF parts
    <3> QED
      BY <2>3, FlattenSeqRange
  <2>5. \A k \in DOMAIN parts : parts[k] = f[below[k]]
    BY <2>3
  <2>6. \A c \in loaded[b].subordinates : \E k \in DOMAIN below : c = below[k]
    BY <2>1 DEF Range
  <2> HIDE DEF parts
  <2>7. {Range(parts[k]) : k \in DOMAIN parts}
          = {Range(f[c]) : c \in loaded[b].subordinates}
    <3>1. \A k \in DOMAIN parts : \E c \in loaded[b].subordinates : parts[k] = f[c]
      BY <2>2, <2>3, <2>5
    <3>2. \A c \in loaded[b].subordinates : \E k \in DOMAIN parts : parts[k] = f[c]
      BY <2>3, <2>5, <2>6
    <3> QED
      BY <3>1, <3>2
  <2> QED
    BY <2>4, <2>7
<1>4. q = Joined(x, s, t)
  BY DEF Subtree, Joined
<1> HIDE DEF x, P, s, t, q
<1>5. /\ q \in Seq(Node) /\ Len(q) \in Nat /\ Len(q) >= 1 /\ q[1] = x
      /\ Rest(q) = Range(s) \cup Range(t)
  <2>0. x \in Node /\ s \in Seq(Node) /\ t \in Seq(Node)
    BY <1>1, <1>2, <1>3
  <2>1. q \in Seq(Node)
    BY <1>4, <2>0, FirstAndRest
  <2>2. Len(q) \in Nat /\ Len(q) >= 1
    BY <1>4, <2>0, FirstAndRest
  <2>3. q[1] = x
    BY <1>4, <2>0, FirstAndRest
  <2>4. Rest(q) = Range(s) \cup Range(t)
    BY <1>4, <2>0, FirstAndRest
  <2> QED
    BY <2>1, <2>2, <2>3, <2>4
<1> QED
  BY <1>2, <1>3, <1>5 DEF q, x, P

\* populate() of every branch that the page refers to has nodes.
LEMMA PopulateTyped ==
  ASSUME PageTyped, NEW f, Populates(f)
  PROVE  \A b \in Branch \cap Reached : f[b] \in Seq(Node)
<1> DEFINE B == {b \in Branch \cap Reached : f[b] \notin Seq(Node)}
<1> SUFFICES ASSUME B # {} PROVE FALSE
  OBVIOUS
<1>1. PICK b \in B : \A c \in B : Caller[c] # b
  <2>1. B \in SUBSET Branch
    OBVIOUS
  <2> HIDE DEF B
  <2> QED
    BY <2>1, Deepest
<1>2. \A c \in loaded[b].subordinates : c \in Branch \cap Reached /\ Caller[c] = b
  BY BelowSeq DEF Reached, PageTyped
<1>3. \A c \in loaded[b].subordinates : f[c] \in Seq(Node)
  BY <1>1, <1>2
<1>4. f[b] = Subtree(f, b)
  BY DEF Populates
<1>5. b \in Branch /\ b \in Reached
  OBVIOUS
<1>6. f[b] \in Seq(Node)
  <2> HIDE DEF B
  <2> QED
    BY <1>3, <1>4, <1>5, SubtreeShape
<1> QED
  BY <1>6

\* A sequence with a first element has it and the rest.
LEMMA RangeIsFirstAndRest ==
  ASSUME NEW S, NEW q \in Seq(S), Len(q) >= 1
  PROVE  Range(q) = {q[1]} \cup Rest(q)
<1>1. DOMAIN q = 1 .. Len(q) /\ Len(q) \in Nat
  OBVIOUS
<1>2. DOMAIN q = {1} \cup (2 .. Len(q))
  BY <1>1
<1> QED
  BY <1>2 DEF Range, Rest

\* The nodes of the json below b, with what they stand for.
StandsFor(f, b, n, a) ==
  /\ a \in Branch \cap Reached
  /\ Depth[a] >= Depth[b]
  /\ Range(f[a]) \subseteq Range(f[b])
  /\ \/ \E r \in ParticipantsOf(a) : n = ParticipantNode(a, r)
     \/ \E c \in loaded[a].subordinates : n = TransactionNode(c, Above(c))

\* populate() puts the json of a subordinate into that of its parent.
LEMMA PopulateStep ==
  ASSUME PageTyped, NEW f, Populates(f), NEW b \in Branch \cap Reached
  PROVE  /\ f[b] \in Seq(Node) /\ Len(f[b]) \in Nat /\ Len(f[b]) >= 1
         /\ f[b][1] = TransactionNode(b, Above(b))
         /\ Rest(f[b]) =
              {ParticipantNode(b, r) : r \in ParticipantsOf(b)}
              \cup UNION {Range(f[c]) : c \in loaded[b].subordinates}
         /\ Range(f[b]) = {f[b][1]} \cup Rest(f[b])
         /\ \A c \in loaded[b].subordinates :
              /\ c \in Branch \cap Reached /\ Caller[c] = b /\ Depth[c] = Depth[b] + 1
              /\ Range(f[c]) \subseteq Rest(f[b])
<1>1. \A c \in loaded[b].subordinates : c \in Branch \cap Reached /\ Caller[c] = b
  BY BelowSeq DEF Reached, PageTyped
<1>2. \A c \in loaded[b].subordinates : f[c] \in Seq(Node)
  BY <1>1, PopulateTyped
<1>3. f[b] = Subtree(f, b)
  BY DEF Populates
<1>4. /\ f[b] \in Seq(Node) /\ Len(f[b]) \in Nat /\ Len(f[b]) >= 1
      /\ f[b][1] = TransactionNode(b, Above(b))
      /\ Rest(f[b]) = {ParticipantNode(b, r) : r \in ParticipantsOf(b)}
                      \cup UNION {Range(f[c]) : c \in loaded[b].subordinates}
  BY <1>2, <1>3, SubtreeShape
<1>5. Range(f[b]) = {f[b][1]} \cup Rest(f[b])
  BY <1>4, RangeIsFirstAndRest
<1>6. \A c \in loaded[b].subordinates : Depth[c] = Depth[b] + 1
  BY <1>1, DepthIs, TxGraphAssumption DEF TxGraphAssumption
<1>7. \A c \in loaded[b].subordinates : Range(f[c]) \subseteq Rest(f[b])
  BY <1>4
<1> QED
  BY <1>1, <1>4, <1>5, <1>6, <1>7

\* Every node after the first stands for a participant or a subordinate of a
\* branch whose own json is there too.
LEMMA RestStands ==
  ASSUME PageTyped, NEW f, Populates(f)
  PROVE  \A b \in Branch \cap Reached : \A n \in Rest(f[b]) : \E a : StandsFor(f, b, n, a)
<1> DEFINE B == {b \in Branch \cap Reached : \E n \in Rest(f[b]) : \A a : ~ StandsFor(f, b, n, a)}
<1> SUFFICES ASSUME B # {} PROVE FALSE
  OBVIOUS
<1>0. B \in SUBSET Branch
  OBVIOUS
<1>1. PICK b \in B : \A c \in B : Caller[c] # b
  <2> HIDE DEF B
  <2> QED
    BY <1>0, Deepest
<1>2. PICK n \in Rest(f[b]) : \A a : ~ StandsFor(f, b, n, a)
  OBVIOUS
<1>3. b \in Branch \cap Reached /\ Depth[b] \in Nat
  BY DepthIs
<1>4. n \in {ParticipantNode(b, r) : r \in ParticipantsOf(b)}
           \cup UNION {Range(f[c]) : c \in loaded[b].subordinates}
  BY <1>3, PopulateStep
<1>5. CASE n \in {ParticipantNode(b, r) : r \in ParticipantsOf(b)}
  <2>1. StandsFor(f, b, n, b)
    BY <1>3, <1>5 DEF StandsFor
  <2> QED
    BY <1>2, <2>1
<1>6. CASE n \in UNION {Range(f[c]) : c \in loaded[b].subordinates}
  <2>1. PICK c \in loaded[b].subordinates : n \in Range(f[c])
    BY <1>6
  <2>2. /\ c \in Branch \cap Reached /\ Caller[c] = b /\ Depth[c] = Depth[b] + 1
        /\ Range(f[c]) \subseteq Rest(f[b])
        /\ Range(f[b]) = {f[b][1]} \cup Rest(f[b])
    BY <1>3, PopulateStep
  <2>3. f[c][1] = TransactionNode(c, Above(c)) /\ Range(f[c]) = {f[c][1]} \cup Rest(f[c])
    BY <2>2, PopulateStep
  <2>4. CASE n = f[c][1]
    <3>1. StandsFor(f, b, n, b)
      BY <1>3, <2>3, <2>4 DEF StandsFor
    <3> QED
      BY <1>2, <3>1
  <2>5. CASE n \in Rest(f[c])
    <3>1. c \notin B
      BY <1>1, <2>2
    <3>2. PICK a : StandsFor(f, c, n, a)
      BY <2>2, <2>5, <3>1
    <3>3. a \in Branch \cap Reached /\ Depth[a] \in Nat
      BY <3>2, DepthIs DEF StandsFor
    <3>4. Depth[a] >= Depth[b]
      BY <1>3, <2>2, <3>2, <3>3 DEF StandsFor
    <3>5. Range(f[a]) \subseteq Range(f[b])
      BY <2>2, <3>2 DEF StandsFor
    <3>6. StandsFor(f, b, n, a)
      BY <3>2, <3>3, <3>4, <3>5 DEF StandsFor
    <3> QED
      BY <1>2, <3>6
  <2> QED
    BY <2>1, <2>3, <2>4, <2>5
<1> QED
  BY <1>4, <1>5, <1>6

\* The json of a page: the root, and for every branch that is in it a node for
\* each of its participants and subordinates, and nothing else.
PageTree(j) ==
  /\ j \in Seq(Node) /\ Len(j) \in Nat /\ Len(j) >= 1
  /\ top \in Branch /\ j[1] = TransactionNode(top, NoBranch)
  /\ \A n \in Rest(j) : \E a \in Branch \cap Ids(j) :
       \/ \E r \in ParticipantsOf(a) : n = ParticipantNode(a, r)
       \/ \E c \in loaded[a].subordinates : n = TransactionNode(c, a)
  /\ \A a \in Branch \cap Ids(j) :
       /\ Depth[a] >= Depth[top]
       /\ \A r \in ParticipantsOf(a) : ParticipantNode(a, r) \in Rest(j)
       /\ \A c \in loaded[a].subordinates : TransactionNode(c, a) \in Rest(j)

\* getJsonGraph() makes such a tree.
LEMMA JsonTree ==
  ASSUME PageTyped, top \in Branch
  PROVE  PageTree(JsonGraph)
<1>1. PICK f : Populates(f) /\ JsonGraph = f[top]
  BY JsonPopulated
<1> DEFINE j == f[top]
<1>2. top \in Branch \cap Reached
  BY DEF Reached
<1>3. /\ j \in Seq(Node) /\ Len(j) \in Nat /\ Len(j) >= 1
      /\ j[1] = TransactionNode(top, NoBranch)
      /\ Range(j) = {j[1]} \cup Rest(j)
  BY <1>1, <1>2, PopulateStep DEF Above
<1>4. ASSUME NEW a \in Branch \cap Reached, NEW c \in loaded[a].subordinates,
             Depth[a] >= Depth[top]
      PROVE  Above(c) = a /\ c # top
  <2>1. Depth[c] = Depth[a] + 1 /\ Depth[a] \in Nat /\ Depth[top] \in Nat
    BY <1>1, PopulateStep, DepthIs
  <2>2. c # top
    BY <1>4, <2>1
  <2>3. Caller[c] = a /\ a \in Branch
    BY <1>1, PopulateStep
  <2>4. \A x \in Branch : c \in loaded[x].subordinates => x = a
    BY <2>3 DEF PageTyped
  <2> QED
    BY <2>2, <2>3, <2>4 DEF Above
<1>5. \A n \in Rest(j) : \E a : StandsFor(f, top, n, a)
  BY <1>1, <1>2, RestStands
<1>6. \A n \in Range(j) : n.id \in Branch =>
        Range(f[n.id]) \subseteq Range(j) /\ n.id \in Reached /\ Depth[n.id] >= Depth[top]
  <2> SUFFICES ASSUME NEW n \in Range(j), n.id \in Branch
               PROVE  /\ Range(f[n.id]) \subseteq Range(j)
                      /\ n.id \in Reached /\ Depth[n.id] >= Depth[top]
    OBVIOUS
  <2>1. CASE n = j[1]
    <3>1. n.id = top
      BY <1>3, <2>1 DEF TransactionNode
    <3> QED
      BY <1>2, <3>1, DepthIs
  <2>2. CASE n \in Rest(j)
    <3>1. PICK a : StandsFor(f, top, n, a)
      BY <1>5, <2>2
    <3>2. PICK c \in loaded[a].subordinates : n = TransactionNode(c, Above(c))
      <4>1. ASSUME NEW r \in ParticipantsOf(a), n = ParticipantNode(a, r) PROVE FALSE
        <5>1. n.id = r /\ r \in Resource
          BY <4>1 DEF ParticipantNode, ParticipantsOf
        <5> QED
          BY <5>1, TxGraphAssumption DEF TxGraphAssumption
      <4> QED
        BY <3>1, <4>1 DEF StandsFor
    <3>3. n.id = c
      BY <3>2 DEF TransactionNode
    <3>4. /\ a \in Branch \cap Reached /\ Range(f[a]) \subseteq Range(j)
          /\ Depth[a] >= Depth[top] /\ Depth[a] \in Nat /\ Depth[top] \in Nat
      BY <3>1, DepthIs DEF StandsFor
    <3>5. Range(f[c]) \subseteq Rest(f[a]) /\ c \in Reached /\ Depth[c] = Depth[a] + 1
      BY <1>1, <3>4, PopulateStep
    <3>6. Range(f[a]) = {f[a][1]} \cup Rest(f[a])
      BY <1>1, <3>4, PopulateStep
    <3> QED
      BY <3>3, <3>4, <3>5, <3>6
  <2> QED
    BY <1>3, <2>1, <2>2
<1>7. \A a \in Branch : a \in Ids(j) <=> \E n \in Range(j) : a = n.id
  BY DEF Ids, Range
<1>8. \A a \in Branch \cap Ids(j) :
        Range(f[a]) \subseteq Range(j) /\ a \in Reached /\ Depth[a] >= Depth[top]
  BY <1>6, <1>7
<1>9. ASSUME NEW n \in Rest(j)
      PROVE  \E a \in Branch \cap Ids(j) :
               \/ \E r \in ParticipantsOf(a) : n = ParticipantNode(a, r)
               \/ \E c \in loaded[a].subordinates : n = TransactionNode(c, a)
  <2>1. PICK a : StandsFor(f, top, n, a)
    BY <1>5
  <2>2. f[a][1] \in Range(j) /\ f[a][1].id = a
    <3>1. a \in Branch \cap Reached /\ Range(f[a]) \subseteq Range(j)
      BY <2>1 DEF StandsFor
    <3>2. f[a][1] = TransactionNode(a, Above(a))
      BY <1>1, <3>1, PopulateStep
    <3>3. Range(f[a]) = {f[a][1]} \cup Rest(f[a])
      BY <1>1, <3>1, PopulateStep
    <3>4. f[a][1].id = a
      BY <3>2 DEF TransactionNode
    <3> QED
      BY <3>1, <3>3, <3>4
  <2>3. a \in Branch \cap Ids(j)
    BY <1>7, <2>1, <2>2 DEF StandsFor
  <2>4. \A c \in loaded[a].subordinates : Above(c) = a
    BY <1>4, <2>1 DEF StandsFor
  <2> QED
    BY <2>1, <2>3, <2>4 DEF StandsFor
<1>10. ASSUME NEW a \in Branch \cap Ids(j)
       PROVE  /\ \A r \in ParticipantsOf(a) : ParticipantNode(a, r) \in Rest(j)
              /\ \A c \in loaded[a].subordinates : TransactionNode(c, a) \in Rest(j)
  <2>0. a \in Branch \cap Reached /\ Range(f[a]) \subseteq Range(j) /\ Depth[a] >= Depth[top]
    BY <1>8
  <2>1. /\ Range(f[a]) = {f[a][1]} \cup Rest(f[a])
        /\ Rest(f[a]) = {ParticipantNode(a, r) : r \in ParticipantsOf(a)}
                        \cup UNION {Range(f[c]) : c \in loaded[a].subordinates}
    BY <1>1, <2>0, PopulateStep
  <2>2. ASSUME NEW r \in ParticipantsOf(a) PROVE ParticipantNode(a, r) \in Rest(j)
    <3>1. ParticipantNode(a, r) \in Range(j)
      BY <2>0, <2>1
    <3>2. ParticipantNode(a, r).id = r /\ j[1].id = top /\ r \in Resource
      BY <1>3 DEF ParticipantNode, TransactionNode, ParticipantsOf
    <3>3. ParticipantNode(a, r) # j[1]
      BY <3>2, TxGraphAssumption DEF TxGraphAssumption
    <3> QED
      BY <1>3, <3>1, <3>3
  <2>3. ASSUME NEW c \in loaded[a].subordinates PROVE TransactionNode(c, a) \in Rest(j)
    <3>1. Above(c) = a /\ c # top
      BY <1>4, <2>0
    <3>2. c \in Branch \cap Reached /\ Range(f[c]) \subseteq Rest(f[a])
      BY <1>1, <2>0, PopulateStep
    <3>3. f[c][1] = TransactionNode(c, a) /\ f[c][1] \in Range(f[c])
      <4>1. f[c][1] = TransactionNode(c, Above(c))
        BY <1>1, <3>2, PopulateStep
      <4>2. Range(f[c]) = {f[c][1]} \cup Rest(f[c])
        BY <1>1, <3>2, PopulateStep
      <4> QED
        BY <3>1, <4>1, <4>2
    <3>4. TransactionNode(c, a) \in Range(j)
      BY <2>0, <2>1, <3>2, <3>3
    <3>5. TransactionNode(c, a) # j[1]
      BY <1>3, <3>1 DEF TransactionNode
    <3> QED
      BY <1>3, <3>4, <3>5
  <2> QED
    BY <2>2, <2>3
<1> HIDE DEF j
<1>11. PageTree(j)
  BY <1>3, <1>8, <1>9, <1>10 DEF PageTree
<1> QED
  BY <1>1, <1>11 DEF j

-----------------------------------------------------------------------------
(* getReverseHierarchy(): the walk to the root.                             *)

\* The walk from b, one parent after the other.
Walk(up, b) ==
  up = [k \in 0 .. Cardinality(Branch) |->
          IF k = 0 THEN b ELSE LET below == up[k - 1]
                               IN  IF below = NoBranch THEN NoBranch
                                   ELSE Parent(below)]

\* It is defined, and passes the ancestors.
LEMMA WalkEnds ==
  ASSUME NEW b
  PROVE  \E up : /\ Walk(up, b)
                 /\ Ancestors(b) = {up[k] : k \in 1 .. Cardinality(Branch)} \ {NoBranch}
<1> DEFINE N == Cardinality(Branch)
           Next1(below) == IF below = NoBranch THEN NoBranch ELSE Parent(below)
           Rhs(f, n) == [k \in 0 .. n |-> IF k = 0 THEN b ELSE Next1(f[k - 1])]
           Good(n) == \E f : f = Rhs(f, n)
           Bad == {n \in 0 .. N : ~ Good(n)}
<1>0. N \in Nat
  BY DepthIs
<1> HIDE DEF N, Next1
<1>1. Good(0)
  <2> DEFINE g == [k \in 0 .. 0 |-> b]
  <2>1. g = Rhs(g, 0)
    OBVIOUS
  <2> QED
    BY <2>1
<1>2. ASSUME NEW n \in 0 .. N, n # 0, Good(n - 1) PROVE Good(n)
  <2>1. PICK f : f = Rhs(f, n - 1)
    BY <1>2
  <2> DEFINE g == [k \in 0 .. n |-> IF k = n THEN Next1(f[n - 1]) ELSE f[k]]
  <2>2. \A k \in 0 .. n : g[k] = IF k = 0 THEN b ELSE Next1(g[k - 1])
    <3> SUFFICES ASSUME NEW k \in 0 .. n PROVE g[k] = IF k = 0 THEN b ELSE Next1(g[k - 1])
      OBVIOUS
    <3>1. k # 0 => k - 1 \in 0 .. n /\ k - 1 # n /\ g[k - 1] = f[k - 1]
      BY <1>0, <1>2
    <3>2. CASE k = n
      BY <1>2, <3>1, <3>2
    <3>3. CASE k # n
      <4>1. k \in 0 .. n - 1
        BY <1>0, <1>2, <3>3
      <4>2. f[k] = IF k = 0 THEN b ELSE Next1(f[k - 1])
        BY <2>1, <4>1
      <4> QED
        BY <3>1, <3>3, <4>2
    <3> QED
      BY <3>2, <3>3
  <2>3. g = Rhs(g, n)
    BY <2>2
  <2> QED
    BY <2>3
<1> HIDE DEF Good
<1>3. Bad = {}
  <2> SUFFICES ASSUME Bad # {} PROVE FALSE
    OBVIOUS
  <2>0. Bad \in SUBSET Nat
    BY <1>0
  <2> HIDE DEF Bad
  <2>1. PICK n \in Bad : \A m \in Bad : n <= m
    BY <2>0, LeastNat
  <2>2. n \in Nat
    BY <2>0
  <2>3. n - 1 \notin Bad
    BY <2>0, <2>1, <2>2
  <2> USE DEF Bad
  <2>4. n # 0 /\ n \in 0 .. N /\ n - 1 \in 0 .. N
    BY <1>0, <1>1
  <2> QED
    BY <1>2, <2>3, <2>4
<1>4. Good(N)
  BY <1>0, <1>3
<1> DEFINE up == CHOOSE f : f = Rhs(f, N)
<1>5. up = Rhs(up, N)
  BY <1>4 DEF Good
<1>6. Walk(up, b)
  <2> HIDE DEF up
  <2> QED
    BY <1>5 DEF Walk, N, Next1
<1>7. Ancestors(b) = {up[k] : k \in 1 .. N} \ {NoBranch}
  BY DEF Ancestors, N, Next1
<1> QED
  BY <1>6, <1>7 DEF N

\* The parent of a linked row is the row that has it as a subordinate.
LEMMA ParentIs ==
  ASSUME TablesTyped, LinksTrue, NEW b \in Branch
  PROVE  /\ Rows!Linked(b) => /\ Parent(b) \in Branch /\ Parent(b) = Caller[b]
                         /\ b \in subordinates[Parent(b)]
                         /\ Rows!There(b) /\ Rows!There(Parent(b))
         /\ ~ Rows!Linked(b) => Parent(b) = NoBranch
<1>1. CASE Rows!Linked(b)
  <2>1. Parent(b) \in Branch /\ b \in subordinates[Parent(b)]
    BY <1>1 DEF Parent, Rows!Linked
  <2> QED
    BY <1>1, <2>1 DEF LinksTrue
<1>2. CASE ~ Rows!Linked(b)
  BY <1>2 DEF Parent
<1> QED
  BY <1>1, <1>2

\* The ancestors of a row are there, and they are closed under parents.
LEMMA AncestorsAre ==
  ASSUME TablesTyped, LinksTrue, NEW b \in Branch
  PROVE  /\ Ancestors(b) \subseteq Branch
         /\ \A a \in Ancestors(b) : Rows!There(a)
         /\ ~ Rows!Linked(b) => Ancestors(b) = {}
         /\ \A a \in Ancestors(b) \cup {b} : Rows!Linked(a) => Caller[a] \in Ancestors(b)
<1> DEFINE N == Cardinality(Branch)
<1>0. N \in Nat
  BY DepthIs
<1>1. PICK up : Walk(up, b) /\ Ancestors(b) = {up[k] : k \in 1 .. N} \ {NoBranch}
  BY WalkEnds
<1>2. /\ up[0] = b
      /\ \A k \in 1 .. N : up[k] = IF up[k - 1] = NoBranch THEN NoBranch ELSE Parent(up[k - 1])
  BY <1>0, <1>1 DEF Walk
<1> HIDE DEF N
<1> DEFINE Right(k) ==
             \/ up[k] = NoBranch
             \/ /\ up[k] \in Branch /\ Depth[up[k]] + k = Depth[b]
                /\ k # 0 => Rows!There(up[k]) /\ Rows!Linked(b)
           B == {k \in 0 .. N : ~ Right(k)}
<1>3. B = {}
  <2> SUFFICES ASSUME B # {} PROVE FALSE
    OBVIOUS
  <2>0. B \in SUBSET Nat
    BY <1>0
  <2> HIDE DEF B
  <2>1. PICK k \in B : \A m \in B : k <= m
    BY <2>0, LeastNat
  <2>2. k \in Nat /\ k - 1 \notin B
    BY <2>0, <2>1
  <2>3. k \in 0 .. N /\ ~ Right(k)
    BY DEF B
  <2>4. CASE k = 0
    <3>1. Right(0)
      BY <1>2, DepthIs
    <3> QED
      BY <2>3, <2>4, <3>1
  <2>5. CASE k # 0
    <3>1. k - 1 \in 0 .. N /\ k \in 1 .. N /\ Right(k - 1)
      <4>1. k - 1 \in 0 .. N /\ k \in 1 .. N
        BY <1>0, <2>2, <2>3, <2>5
      <4> HIDE DEF Right
      <4> QED
        BY <2>2, <4>1 DEF B
    <3>2. CASE up[k - 1] = NoBranch
      BY <1>2, <2>3, <3>1, <3>2
    <3>3. CASE up[k - 1] # NoBranch
      <4>1. up[k - 1] \in Branch /\ Depth[up[k - 1]] + (k - 1) = Depth[b]
        BY <3>1, <3>3
      <4>2. up[k] = Parent(up[k - 1])
        BY <1>2, <3>1, <3>3
      <4>3. Rows!Linked(up[k - 1])
        BY <2>3, <4>1, <4>2, ParentIs
      <4>4. up[k] \in Branch /\ up[k] = Caller[up[k - 1]] /\ Rows!There(up[k])
        BY <4>1, <4>2, <4>3, ParentIs
      <4>5. Depth[up[k - 1]] = Depth[up[k]] + 1 /\ Depth[up[k]] \in Nat /\ Depth[b] \in Nat
        BY <4>1, <4>4, DepthIs, TxGraphAssumption DEF TxGraphAssumption
      <4>6. Depth[up[k]] + k = Depth[b]
        BY <2>2, <4>1, <4>5
      <4>7. Rows!Linked(b)
        BY <1>2, <2>5, <3>1, <3>3, <4>3
      <4> QED
        BY <2>3, <4>4, <4>6, <4>7
    <3> QED
      BY <3>2, <3>3
  <2> QED
    BY <2>4, <2>5
<1>4. \A k \in 0 .. N : Right(k)
  <2> HIDE DEF Right
  <2> QED
    BY <1>3
<1>5. \A a \in Ancestors(b) : \E k \in 1 .. N : a = up[k] /\ a # NoBranch /\ Right(k)
  <2> HIDE DEF Right
  <2>1. \A k \in 1 .. N : k \in 0 .. N
    BY <1>0
  <2> QED
    BY <1>1, <1>4, <2>1 DEF N
<1>6. ASSUME NEW a \in Ancestors(b) \cup {b}, Rows!Linked(a) PROVE Caller[a] \in Ancestors(b)
  <2>1. PICK k \in 0 .. N : a = up[k] /\ a \in Branch /\ Depth[a] + k = Depth[b]
    <3>1. CASE a \in Ancestors(b)
      BY <1>0, <1>5, <3>1
    <3>2. CASE a = b
      BY <1>0, <1>2, <3>2, DepthIs
    <3> QED
      BY <3>1, <3>2
  <2>2. Parent(a) = Caller[a] /\ Parent(a) \in Branch
    BY <1>6, <2>1, ParentIs
  <2>3. Depth[a] = Depth[Caller[a]] + 1 /\ Depth[Caller[a]] \in Nat /\ Depth[b] \in 0 .. N
    BY <2>1, <2>2, DepthIs, TxGraphAssumption DEF TxGraphAssumption, N
  <2>4. k + 1 \in 1 .. N
    BY <1>0, <2>1, <2>3
  <2>5. up[k + 1] = Caller[a]
    <3>1. (k + 1) - 1 = k /\ a # NoBranch
      BY <2>1, TxGraphAssumption DEF TxGraphAssumption
    <3> QED
      BY <1>2, <2>1, <2>2, <2>4, <3>1
  <2>6. Caller[a] # NoBranch
    BY <2>2, TxGraphAssumption DEF TxGraphAssumption
  <2> QED
    BY <1>1, <2>4, <2>5, <2>6 DEF N
<1>7. ASSUME NEW a \in Ancestors(b) PROVE a \in Branch /\ Rows!There(a) /\ Rows!Linked(b)
  <2>1. PICK k \in 1 .. N : a = up[k] /\ a # NoBranch /\ Right(k)
    BY <1>5
  <2>2. k # 0
    BY <1>0
  <2> QED
    BY <2>1, <2>2
<1> QED
  BY <1>6, <1>7

-----------------------------------------------------------------------------
(* The page has what was asked for.                                         *)

\* Nothing is there, and nothing was asked for.
LEMMA RInit ==
  ASSUME Init
  PROVE  RInv
<1>1. TablesTyped
  BY DEF Init, TablesTyped, Votes!Record, Votes!Absent
<1>2. RequestTyped
  BY DEF Init, RequestTyped, Entity, NotLoaded, Votes!Record, Votes!Absent
<1>3. LinksTrue
  BY DEF Init, LinksTrue, NotLoaded
<1>4. LoadedLater /\ WantedRows /\ OldCovered
  BY DEF Init, LoadedLater, WantedRows, OldCovered
<1> QED
  BY <1>1, <1>2, <1>3, <1>4 DEF RInv

\* The invariant is about the tables and the request only.
LEMMA RSame ==
  ASSUME RInv, UNCHANGED <<row, subordinates, requestVars>>, TablesTyped'
  PROVE  RInv'
BY DEF RInv, requestVars, RequestTyped, LinksTrue, Rows!There, LoadedLater, WantedRows, Wanted,
       Rows!Linked, OldCovered, Covered, Reached

\* A monitor writes the record of one participant at a time, and takes no
\* exception back.
LEMMA MonitorWrites ==
  ASSUME TablesTyped, NEW b \in Branch, Monitor(b)
  PROVE  \/ /\ UNCHANGED participants
            /\ Rows!Begin(b) \/ Rows!Miss({b}) \/ Rows!Link(b) \/ Rows!Cleanup(b)
         \/ /\ UNCHANGED <<row, subordinates>>
            /\ \E r \in Resource, v \in Votes!Record :
                 /\ participants' = [participants EXCEPT ![b][r] = v]
                 /\ v # Votes!Absent
                 /\ participants[b][r].xaException => v.xaException
                 /\ participants[b][r] # Votes!Absent \/ (Rows!There(b) /\ r \in Names[b])
<1>1. ASSUME NEW r \in Names[b], Votes!Enlist(b, r), Rows!Enlist(b)
      PROVE  /\ UNCHANGED <<row, subordinates>>
             /\ \E s \in Resource, v \in Votes!Record :
                  /\ participants' = [participants EXCEPT ![b][s] = v]
                  /\ v # Votes!Absent
                  /\ participants[b][s].xaException => v.xaException
                  /\ participants[b][s] # Votes!Absent \/ (Rows!There(b) /\ s \in Names[b])
  <2>1. /\ UNCHANGED <<row, subordinates>> /\ Rows!There(b) /\ r \in Resource
        /\ participants' = [participants EXCEPT ![b][r] = Votes!New]
        /\ participants[b][r] = Votes!Absent
    BY <1>1, TxGraphAssumption DEF Votes!Enlist, Votes!Becomes, Rows!Enlist, TxGraphAssumption
  <2>2. Votes!New \in Votes!Record /\ Votes!New # Votes!Absent /\ ~ Votes!Absent.xaException
    BY DEF Votes!New, Votes!Record, Votes!Absent
  <2> QED
    BY <1>1, <2>1, <2>2
<1>2. ASSUME NEW r \in Resource, Votes!Answer(b, r)
      PROVE  \E v \in Votes!Record :
               /\ participants' = [participants EXCEPT ![b][r] = v]
               /\ v # Votes!Absent
               /\ participants[b][r].xaException => v.xaException
               /\ participants[b][r] # Votes!Absent
  <2>1. participants[b][r] \in Votes!Record
    BY DEF TablesTyped
  <2>2. ASSUME NEW v \in {"COMMIT", "ABORT"}, participants[b][r].vote = "UNKNOWN",
               participants' = [participants EXCEPT ![b][r] =
                                  [participants[b][r] EXCEPT !.vote = v]]
        PROVE  \E w \in Votes!Record :
                 /\ participants' = [participants EXCEPT ![b][r] = w]
                 /\ w # Votes!Absent
                 /\ participants[b][r].xaException => w.xaException
                 /\ participants[b][r] # Votes!Absent
    <3> DEFINE w == [participants[b][r] EXCEPT !.vote = v]
    <3>1. w \in Votes!Record /\ w # Votes!Absent /\ w.xaException = participants[b][r].xaException
      BY <2>1 DEF Votes!Record, Votes!Absent
    <3>2. participants[b][r] # Votes!Absent
      BY <2>2 DEF Votes!Absent
    <3>3. participants' = [participants EXCEPT ![b][r] = w]
      BY <2>2
    <3> HIDE DEF w
    <3> QED
      BY <3>1, <3>2, <3>3
  <2>3. CASE Votes!VoteFor(b, r)
    <3>1. /\ participants[b][r] = Votes!New
          /\ participants' = [participants EXCEPT ![b][r] = [Votes!New EXCEPT !.vote = "COMMIT"]]
      BY <2>3 DEF Votes!VoteFor, Votes!Becomes
    <3>2. participants' = [participants EXCEPT ![b][r] =
                             [participants[b][r] EXCEPT !.vote = "COMMIT"]]
      BY <3>1, Zenon
    <3>3. participants[b][r].vote = "UNKNOWN"
      BY <3>1 DEF Votes!New
    <3> QED
      BY <2>2, <3>2, <3>3
  <2>4. CASE Votes!VoteAgainst(b, r)
    BY <2>2, <2>4 DEF Votes!VoteAgainst, Votes!Becomes
  <2>5. CASE Votes!Throw(b, r)
    <3>1. PICK v \in {"ABORT", participants[b][r].vote} :
            participants' = [participants EXCEPT ![b][r] = [vote |-> v, xaException |-> TRUE]]
      BY <2>5 DEF Votes!Throw, Votes!Becomes
    <3> DEFINE w == [vote |-> v, xaException |-> TRUE]
    <3>2. w \in Votes!Record /\ w # Votes!Absent /\ w.xaException
      BY <2>1 DEF Votes!Record, Votes!Absent
    <3>3. participants' = [participants EXCEPT ![b][r] = w]
      BY <3>1
    <3>4. participants[b][r] # Votes!Absent
      BY <2>5 DEF Votes!Throw
    <3> HIDE DEF w
    <3> QED
      BY <3>2, <3>3, <3>4
  <2> QED
    BY <1>2, <2>3, <2>4, <2>5 DEF Votes!Answer
<1>3. CASE (\E r \in Names[b] : Votes!Enlist(b, r)) /\ Rows!Enlist(b)
  BY <1>1, <1>3
<1>4. CASE (\E r \in Resource : Votes!Answer(b, r)) /\ UNCHANGED <<row, subordinates>>
  BY <1>2, <1>4
<1> QED
  BY <1>3, <1>4 DEF Monitor

\* What the monitors record keeps the links of rows that are there.
LEMMA MonitorRows ==
  ASSUME RInv, NEW b \in Branch, Monitor(b)
  PROVE  /\ TablesTyped' /\ UNCHANGED <<requestVars, pageVars>>
         /\ \A a \in Branch : \A c \in subordinates'[a] :
              Caller[c] = a /\ Rows!There(a)' /\ Rows!There(c)'
         /\ \A a \in Branch : row[a] # "none" =>
              row'[a] # "none" /\ (Rows!There(a)' => Rows!There(a))
         /\ \A a \in Branch : \A c \in subordinates[a] : Rows!There(c)' => c \in subordinates'[a]
<1> USE DEF RInv, Rows!There
<1>0. /\ UNCHANGED <<requestVars, pageVars>>
      /\ row \in [Branch -> {"none", "there", "gone"}]
      /\ subordinates \in [Branch -> SUBSET Branch]
      /\ participants \in [Branch -> [Resource -> Votes!Record]]
      /\ \A a \in Branch : \A c \in subordinates[a] :
           Caller[c] = a /\ Rows!There(a) /\ Rows!There(c)
  BY DEF TablesTyped, LinksTrue, Monitor
<1>1. CASE /\ UNCHANGED participants
           /\ Rows!Begin(b) \/ Rows!Miss({b})
  <2>1. /\ row[b] = "none" /\ row' \in [Branch -> {"none", "there", "gone"}]
        /\ \A a \in Branch : a # b => row'[a] = row[a]
        /\ row'[b] # "none" /\ UNCHANGED <<subordinates, participants>>
    BY <1>0, <1>1 DEF Rows!Begin, Rows!Miss, Rows!ToCome
  <2> QED
    BY <1>0, <2>1 DEF TablesTyped
<1>2. CASE UNCHANGED participants /\ Rows!Link(b)
  <2>1. /\ Rows!There(b) /\ Caller[b] \in Branch /\ Rows!There(Caller[b])
        /\ UNCHANGED <<row, participants>>
        /\ subordinates' = [subordinates EXCEPT ![Caller[b]] = @ \cup {b}]
    BY <1>2, TxGraphAssumption DEF Rows!Link, TxGraphAssumption
  <2>2. /\ subordinates' \in [Branch -> SUBSET Branch]
        /\ subordinates'[Caller[b]] = subordinates[Caller[b]] \cup {b}
        /\ \A a \in Branch : a # Caller[b] => subordinates'[a] = subordinates[a]
    BY <1>0, <2>1
  <2>3. TablesTyped'
    BY <1>0, <2>1, <2>2 DEF TablesTyped
  <2>4. \A a \in Branch : \A c \in subordinates'[a] :
          Caller[c] = a /\ row'[a] = "there" /\ row'[c] = "there"
    BY <1>0, <2>1, <2>2
  <2>5. \A a \in Branch : \A c \in subordinates[a] : c \in subordinates'[a]
    BY <1>0, <2>2
  <2> QED
    BY <1>0, <2>1, <2>3, <2>4, <2>5
<1>3. CASE UNCHANGED participants /\ Rows!Cleanup(b)
  <2>1. /\ Rows!There(b) /\ subordinates[b] = {} /\ UNCHANGED participants
        /\ row' = [row EXCEPT ![b] = "gone"]
        /\ subordinates' = [a \in Branch |-> subordinates[a] \ {b}]
    BY <1>3 DEF Rows!Cleanup
  <2>2. /\ row' \in [Branch -> {"none", "there", "gone"}]
        /\ row'[b] = "gone" /\ \A a \in Branch : a # b => row'[a] = row[a]
    BY <1>0, <2>1
  <2>3. /\ subordinates' \in [Branch -> SUBSET Branch]
        /\ \A a \in Branch : subordinates'[a] = subordinates[a] \ {b}
    BY <1>0, <2>1
  <2>4. TablesTyped'
    BY <1>0, <2>1, <2>2, <2>3 DEF TablesTyped
  <2>5. \A a \in Branch : \A c \in subordinates'[a] :
          Caller[c] = a /\ row'[a] = "there" /\ row'[c] = "there"
    <3> SUFFICES ASSUME NEW a \in Branch, NEW c \in subordinates'[a]
                 PROVE  Caller[c] = a /\ row'[a] = "there" /\ row'[c] = "there"
      OBVIOUS
    <3>1. c \in subordinates[a] /\ c # b /\ c \in Branch
      BY <1>0, <2>3
    <3>2. a # b
      BY <2>1, <3>1
    <3> QED
      BY <1>0, <2>2, <3>1, <3>2
  <2>6. \A a \in Branch : \A c \in subordinates[a] : row'[c] = "there" => c \in subordinates'[a]
    BY <2>2, <2>3
  <2> QED
    BY <1>0, <2>1, <2>2, <2>4, <2>5, <2>6
<1>4. CASE /\ UNCHANGED <<row, subordinates>>
           /\ \E r \in Resource, v \in Votes!Record :
                participants' = [participants EXCEPT ![b][r] = v]
  BY <1>0, <1>4 DEF TablesTyped
<1>5. \/ /\ UNCHANGED participants
         /\ Rows!Begin(b) \/ Rows!Miss({b}) \/ Rows!Link(b) \/ Rows!Cleanup(b)
      \/ /\ UNCHANGED <<row, subordinates>>
         /\ \E r \in Resource, v \in Votes!Record :
              participants' = [participants EXCEPT ![b][r] = v]
  <2>1. TablesTyped
    OBVIOUS
  <2> QED
    BY <2>1, MonitorWrites
<1>6. UNCHANGED <<requestVars, pageVars>>
  BY <1>0
<1> QED
  BY <1>1, <1>2, <1>3, <1>4, <1>5, <1>6

\* The monitors keep the invariant.
LEMMA MonitorR ==
  ASSUME RInv, NEW b \in Branch, Monitor(b)
  PROVE  RInv'
<1>1. /\ TablesTyped' /\ UNCHANGED <<requestVars, pageVars>>
      /\ \A a \in Branch : \A c \in subordinates'[a] :
           Caller[c] = a /\ Rows!There(a)' /\ Rows!There(c)'
      /\ \A a \in Branch : row[a] # "none" => row'[a] # "none" /\ (Rows!There(a)' => Rows!There(a))
      /\ \A a \in Branch : \A c \in subordinates[a] : Rows!There(c)' => c \in subordinates'[a]
  BY MonitorRows
<1>2. UNCHANGED <<step, asked, crumbs, top, pending, loaded>>
  BY <1>1 DEF requestVars
<1>3. RequestTyped' /\ LinksTrue' /\ LoadedLater'
  BY <1>1, <1>2 DEF RInv, RequestTyped, LinksTrue, LoadedLater
<1>4. Wanted' = Wanted /\ Wanted \subseteq Branch /\ Reached' = Reached
  BY <1>2 DEF Wanted, Reached, RInv, RequestTyped
<1>5. WantedRows'
  <2>1. step' \in {"find", "top", "load", "shown"} => \A x \in Wanted' : row'[x] # "none"
    BY <1>1, <1>2, <1>4 DEF RInv, WantedRows
  <2>2. ASSUME step' = "find", Rows!There(asked)', ~ Rows!Linked(asked)'
        PROVE  crumbs' = {}
    <3>1. asked \in Branch /\ asked \in Wanted /\ row[asked] # "none"
      BY <1>2, <2>2, TxGraphAssumption DEF RInv, WantedRows, Wanted, TxGraphAssumption
    <3>2. Rows!There(asked)
      BY <1>1, <1>2, <2>2, <3>1 DEF Rows!There
    <3>3. ~ Rows!Linked(asked)
      BY <1>1, <1>2, <2>2 DEF Rows!Linked, Rows!There
    <3> QED
      BY <1>2, <2>2, <3>2, <3>3 DEF RInv, WantedRows
  <2>3. step' = "find" => asked' \in Branch
    BY <1>2 DEF RInv, WantedRows
  <2> QED
    BY <2>1, <2>2, <2>3 DEF WantedRows
<1>6. OldCovered'
  <2> SUFFICES ASSUME step' = "load"
               PROVE  top' \in Branch /\ \E old \in SUBSET Branch : Covered(old)'
    BY DEF OldCovered
  <2>1. PICK old \in SUBSET Branch : Covered(old)
    BY <1>2 DEF RInv, OldCovered
  <2>2. Wanted' \subseteq old /\ \A x \in old : row'[x] # "none"
    BY <1>1, <1>4, <2>1 DEF Covered
  <2>3. ASSUME NEW x \in old, Rows!There(x)', x # top'
        PROVE  /\ Caller[x] \in old
               /\ x \in subordinates'[Caller[x]]
               /\ \/ x \in loaded'[Caller[x]].subordinates
                  \/ Caller[x] \in pending'
                  \/ Caller[x] \notin Reached'
    <3>1. Rows!There(x) /\ x # top
      BY <1>1, <1>2, <2>1, <2>3 DEF Covered
    <3>2. /\ Caller[x] \in old /\ x \in subordinates[Caller[x]]
          /\ \/ x \in loaded[Caller[x]].subordinates
             \/ Caller[x] \in pending
             \/ Caller[x] \notin Reached
      BY <2>1, <3>1 DEF Covered
    <3>3. x \in subordinates'[Caller[x]]
      BY <1>1, <2>3, <3>2
    <3> QED
      BY <1>2, <1>4, <3>2, <3>3
  <2>4. Covered(old)'
    BY <2>2, <2>3 DEF Covered
  <2> QED
    BY <1>2, <2>4 DEF RInv, OldCovered
<1> QED
  BY <1>1, <1>3, <1>5, <1>6 DEF RInv

\* findTopLevelTransaction() takes the only row without a parent.
LEMMA TopLevelIs ==
  ASSUME TopLevel # NoBranch
  PROVE  /\ TopLevel \in Branch /\ Rows!There(TopLevel) /\ ~ Rows!Linked(TopLevel)
         /\ \A b \in Branch : Rows!There(b) /\ ~ Rows!Linked(b) => b = TopLevel
<1> DEFINE S == {b \in Branch : Rows!There(b) /\ ~ Rows!Linked(b)}
<1>1. Cardinality(S) = 1 /\ TopLevel = CHOOSE b \in Branch : Rows!There(b) /\ ~ Rows!Linked(b)
  BY DEF TopLevel
<1>2. IsFiniteSet(S)
  BY FS_Subset, TxGraphAssumption DEF TxGraphAssumption
<1>3. PICK b : S = {b}
  <2> HIDE DEF S
  <2> QED
    BY <1>1, <1>2, FS_Singleton
<1>4. b \in Branch /\ Rows!There(b) /\ ~ Rows!Linked(b)
  BY <1>3
<1>5. \A x \in Branch : Rows!There(x) /\ ~ Rows!Linked(x) => x = b
  BY <1>3
<1>6. TopLevel \in Branch /\ Rows!There(TopLevel) /\ ~ Rows!Linked(TopLevel)
  BY <1>1, <1>4
<1> QED
  BY <1>5, <1>6

\* The request keeps the invariant until there is a root.
LEMMA AskR ==
  ASSUME RInv, NEW b \in Branch \cup {NoBranch}, Ask(b)
  PROVE  RInv'
BY DEF Ask, dbVars, pageVars, RInv, TablesTyped, RequestTyped, LinksTrue, Rows!There, LoadedLater,
       WantedRows, OldCovered

\* The branch that is asked for is there, and so are its ancestors.
LEMMA InitInfoR ==
  ASSUME RInv, InitInfo
  PROVE  RInv'
<1>1. /\ step = "info" /\ UNCHANGED <<asked, top, pending, loaded, dbVars, pageVars>>
      /\ UNCHANGED <<row, subordinates, participants>>
  BY DEF InitInfo, dbVars
<1>2. TablesTyped /\ LinksTrue /\ RequestTyped
  BY DEF RInv
<1> DEFINE tx == IF asked = NoBranch THEN TopLevel
                 ELSE IF Rows!There(asked) THEN asked ELSE NoBranch
<1>3. CASE tx = NoBranch
  <2>1. step' = "missing" /\ UNCHANGED crumbs
    BY <1>3 DEF InitInfo
  <2> QED
    BY <1>1, <2>1
    DEF RInv, TablesTyped, RequestTyped, LinksTrue, Rows!There, LoadedLater, WantedRows, OldCovered
<1>4. CASE tx # NoBranch
  <2>1. step' = (IF asked = NoBranch THEN "top" ELSE "find") /\ crumbs' = Ancestors(tx)
    BY <1>4 DEF InitInfo
  <2>2. tx \in Branch /\ Rows!There(tx)
    BY <1>2, <1>4, TopLevelIs DEF RequestTyped
  <2>3. asked # NoBranch => asked = tx /\ asked \in Branch
    BY <1>2, <1>4 DEF RequestTyped
  <2> HIDE DEF tx
  <2>4. /\ crumbs' \subseteq Branch /\ \A a \in crumbs' : Rows!There(a)
        /\ ~ Rows!Linked(tx) => crumbs' = {}
    BY <1>2, <2>1, <2>2, AncestorsAre
  <2>5. TablesTyped' /\ LinksTrue' /\ OldCovered'
    BY <1>1, <1>2, <2>1 DEF TablesTyped, LinksTrue, Rows!There, OldCovered
  <2>6. RequestTyped'
    BY <1>1, <1>2, <2>1, <2>4 DEF RequestTyped
  <2>7. LoadedLater'
    BY <1>1, <2>1 DEF RInv, LoadedLater
  <2>8. \A a \in Wanted' : row'[a] # "none"
    BY <1>1, <2>2, <2>3, <2>4 DEF Wanted, Rows!There
  <2>9. step' = "find" => asked' \in Branch
    BY <1>1, <2>1, <2>3
  <2>10. step' = "find" /\ ~ Rows!Linked(asked)' => crumbs' = {}
    BY <1>1, <2>1, <2>3, <2>4 DEF Rows!Linked
  <2>11. WantedRows'
    BY <2>8, <2>9, <2>10 DEF WantedRows
  <2> QED
    BY <2>5, <2>6, <2>7, <2>11 DEF RInv
<1> QED
  BY <1>3, <1>4

\* Once there is a root, the old rows are those that were there.
LEMMA FindR ==
  ASSUME RInv, FindAsked \/ FindTop
  PROVE  RInv'
<1>1. /\ step \in {"find", "top"}
      /\ UNCHANGED <<asked, crumbs, loaded, row, subordinates, participants>>
  BY DEF FindAsked, FindTop, dbVars
<1>2. TablesTyped /\ LinksTrue /\ RequestTyped /\ WantedRows
  BY DEF RInv
<1>3. pending = {} /\ loaded = [b \in Branch |-> NotLoaded]
  BY <1>1 DEF RInv, LoadedLater
<1>4. TablesTyped' /\ LinksTrue'
  BY <1>1, <1>2 DEF TablesTyped, LinksTrue, Rows!There
<1>5. Wanted' = Wanted /\ Wanted \subseteq Branch /\ \A a \in Wanted : row[a] # "none"
  BY <1>1, <1>2 DEF Wanted, RequestTyped, WantedRows
<1>6. CASE step' # "load"
  <2>1. step' \in {"top", "missing", "rootless"} /\ UNCHANGED <<top, pending>>
    BY <1>6 DEF FindAsked, FindTop, Enter
  <2> QED
    BY <1>1, <1>2, <1>3, <1>4, <1>5, <2>1
    DEF RInv, RequestTyped, LoadedLater, WantedRows, OldCovered
<1>7. ASSUME NEW t \in Branch, Enter(t), NEW old \in SUBSET Branch, t \in old,
             Wanted \subseteq old, \A x \in old : row[x] # "none",
             \A x \in old : Rows!There(x) /\ x # t =>
               Caller[x] \in old /\ x \in subordinates[Caller[x]]
      PROVE  RInv'
  <2>1. top' = t /\ pending' = {t} /\ step' = "load"
    BY <1>7 DEF Enter
  <2>2. RequestTyped' /\ LoadedLater' /\ WantedRows'
    BY <1>1, <1>2, <1>5, <2>1 DEF RequestTyped, LoadedLater, WantedRows
  <2>3. Reached' = {t}
    BY <1>1, <1>3, <2>1 DEF Reached, NotLoaded
  <2>4. Covered(old)'
    BY <1>1, <1>5, <1>7, <2>1, <2>3 DEF Covered, Rows!There
  <2>5. OldCovered'
    BY <2>1, <2>4 DEF OldCovered
  <2> QED
    BY <1>4, <2>2, <2>5 DEF RInv
<1>8. CASE FindAsked /\ step' = "load"
  <2>1. Rows!There(asked) /\ ~ Rows!Linked(asked) /\ step = "find"
    BY <1>8 DEF FindAsked
  <2>2. Enter(asked)
    BY <1>8, <2>1 DEF FindAsked
  <2>3. asked \in Branch /\ crumbs = {}
    BY <1>2, <2>1 DEF WantedRows
  <2>4. Wanted = {asked} /\ row[asked] # "none"
    BY <2>1, <2>3, TxGraphAssumption DEF Wanted, Rows!There, TxGraphAssumption
  <2>5. {asked} \in SUBSET Branch /\ asked \in {asked} /\ \A x \in {asked} : x = asked
    BY <2>3
  <2> QED
    BY <1>7, <2>2, <2>3, <2>4, <2>5
<1>9. CASE FindTop /\ step' = "load"
  <2>1. TopLevel # NoBranch
    BY <1>9 DEF FindTop
  <2>2. Enter(TopLevel)
    BY <1>9, <2>1 DEF FindTop
  <2> DEFINE old == {x \in Branch : row[x] # "none"}
  <2>3. /\ TopLevel \in Branch /\ Rows!There(TopLevel)
        /\ \A x \in Branch : Rows!There(x) /\ ~ Rows!Linked(x) => x = TopLevel
    BY <2>1, TopLevelIs
  <2>4. old \in SUBSET Branch /\ TopLevel \in old /\ \A x \in old : row[x] # "none"
    BY <2>3 DEF Rows!There
  <2>5. Wanted \subseteq old
    BY <1>5
  <2>6. \A x \in old : Rows!There(x) /\ x # TopLevel =>
          Caller[x] \in old /\ x \in subordinates[Caller[x]]
    <3> SUFFICES ASSUME NEW x \in old, Rows!There(x), x # TopLevel
                 PROVE  Caller[x] \in old /\ x \in subordinates[Caller[x]]
      OBVIOUS
    <3>1. PICK a \in Branch : x \in subordinates[a]
      BY <2>3 DEF Rows!Linked
    <3> QED
      BY <1>2, <3>1 DEF LinksTrue, Rows!There
  <2> HIDE DEF old
  <2> QED
    BY <1>7, <2>2, <2>3, <2>4, <2>5, <2>6
<1> QED
  BY <1>6, <1>8, <1>9

\* What is loaded of one row brings its subordinates.
LEMMA LoadR ==
  ASSUME RInv, NEW b \in Branch, Load(b)
  PROVE  RInv'
<1>1. /\ step = "load" /\ b \in pending /\ pending' = (pending \ {b}) \cup subordinates[b]
      /\ UNCHANGED <<step, asked, crumbs, top, row, subordinates, participants>>
      /\ loaded' = [loaded EXCEPT ![b] = [subordinates |-> subordinates[b],
                                          participants |-> participants[b]]]
  BY DEF Load, dbVars
<1>2. TablesTyped /\ LinksTrue /\ RequestTyped /\ WantedRows
  BY DEF RInv
<1>3. /\ loaded' \in [Branch -> Entity]
      /\ loaded'[b].subordinates = subordinates[b]
      /\ \A a \in Branch : a # b => loaded'[a] = loaded[a]
  <2>1. [subordinates |-> subordinates[b], participants |-> participants[b]] \in Entity
    BY <1>2 DEF TablesTyped, Entity
  <2> QED
    BY <1>1, <1>2, <2>1 DEF RequestTyped
<1>4. TablesTyped' /\ RequestTyped' /\ LoadedLater' /\ WantedRows'
  BY <1>1, <1>2, <1>3 DEF TablesTyped, RequestTyped, LoadedLater, WantedRows, Wanted
<1>5. LinksTrue'
  BY <1>1, <1>2, <1>3 DEF LinksTrue, Rows!There
<1>6. Wanted' = Wanted
  BY <1>1 DEF Wanted
<1>7. Reached' \subseteq Reached \cup subordinates[b]
  BY <1>1, <1>3 DEF Reached
<1>8. PICK old \in SUBSET Branch : Covered(old)
  BY <1>1 DEF RInv, OldCovered
<1>9. ASSUME NEW x \in old, Rows!There(x)', x # top'
      PROVE  /\ Caller[x] \in old
             /\ x \in subordinates'[Caller[x]]
             /\ \/ x \in loaded'[Caller[x]].subordinates
                \/ Caller[x] \in pending'
                \/ Caller[x] \notin Reached'
  <2>1. /\ Caller[x] \in old /\ x \in subordinates[Caller[x]]
        /\ \/ x \in loaded[Caller[x]].subordinates
           \/ Caller[x] \in pending
           \/ Caller[x] \notin Reached
    BY <1>1, <1>8, <1>9 DEF Covered, Rows!There
  <2>2. CASE Caller[x] = b
    BY <1>1, <1>3, <2>1, <2>2
  <2>3. CASE Caller[x] # b
    BY <1>1, <1>3, <1>7, <2>1, <2>3
  <2> QED
    BY <2>2, <2>3
<1>10. Covered(old)'
  BY <1>1, <1>6, <1>8, <1>9 DEF Covered
<1>11. OldCovered'
  BY <1>1, <1>10 DEF RInv, OldCovered
<1> QED
  BY <1>4, <1>5, <1>11 DEF RInv

\* Every step keeps the invariant of the tables and of the request.
LEMMA RStep ==
  ASSUME RInv, [Next]_vars
  PROVE  RInv'
<1>0. TablesTyped
  BY DEF RInv
<1>1. ASSUME NEW b \in Branch, Monitor(b) PROVE RInv'
  BY <1>1, MonitorR
<1>2. ASSUME NEW b \in Branch \cup {NoBranch}, Ask(b) PROVE RInv'
  BY <1>2, AskR
<1>3. CASE Respond
  <2>1. CASE InitInfo
    BY <2>1, InitInfoR
  <2>2. CASE FindAsked \/ FindTop
    BY <2>2, FindR
  <2>3. ASSUME NEW b \in Branch, Load(b) PROVE RInv'
    BY <2>3, LoadR
  <2>4. CASE OpenPage
    <3>1. /\ step' = "shown" /\ step = "load"
          /\ UNCHANGED <<asked, crumbs, top, pending, loaded, row, subordinates, participants>>
      BY <2>4 DEF OpenPage, dbVars
    <3> QED
      BY <3>1 DEF RInv, TablesTyped, RequestTyped, LinksTrue, Rows!There, LoadedLater, WantedRows,
                  Wanted, OldCovered
  <2> QED
    BY <1>3, <2>1, <2>2, <2>3, <2>4 DEF Respond
<1>4. CASE UNCHANGED <<dbVars, requestVars>>
  <2>1. UNCHANGED <<row, subordinates, requestVars>> /\ TablesTyped'
    BY <1>0, <1>4 DEF dbVars, TablesTyped
  <2> QED
    BY <2>1, RSame
<1>5. CASE ShowModal \/ Animate \/ (\E i \in DOMAIN plots : Expand(i))
  <2>1. UNCHANGED <<dbVars, requestVars>>
    BY <1>5 DEF ShowModal, Animate, Contract, Move, Finish, Expand
  <2> QED
    BY <1>4, <2>1
<1>6. CASE UNCHANGED vars
  BY <1>4, <1>6 DEF vars
<1> QED
  BY <1>1, <1>2, <1>3, <1>5, <1>6 DEF Next

\* The branches of the page are the branches among the ids of its json.
LEMMA PlottedIs == PlottedBranches = Branch \cap Ids(json)
  BY DEF PlottedBranches, Ids

\* When nothing is left to load, every old row is in the page.
LEMMA OldShown ==
  ASSUME RInv, step = "load", pending = {}, NEW j, PageTree(j),
         NEW b \in Wanted, Rows!There(b)
  PROVE  b \in Branch \cap Ids(j)
<1>1. PICK old \in SUBSET Branch : Covered(old)
  BY DEF RInv, OldCovered
<1> DEFINE S == {x \in old : Rows!There(x) /\ ~ (x \in Ids(j) /\ x \in Reached)}
<1>2. S = {}
  <2> SUFFICES ASSUME S # {} PROVE FALSE
    OBVIOUS
  <2>0. S \in SUBSET Branch
    OBVIOUS
  <2> HIDE DEF S
  <2>1. PICK x \in S : Caller[x] \notin S
    BY <2>0, Topmost
  <2> USE DEF S
  <2>2. CASE x = top
    <3>1. j[1].id = top /\ 1 \in DOMAIN j
      BY DEF PageTree, TransactionNode
    <3> QED
      BY <2>2, <3>1 DEF Ids, Reached
  <2>3. CASE x # top
    <3> DEFINE a == Caller[x]
    <3>1. /\ a \in old /\ x \in subordinates[a]
          /\ \/ x \in loaded[a].subordinates
             \/ a \notin Reached
      BY <1>1, <2>3 DEF Covered
    <3>2. Rows!There(a) /\ a \in Branch
      BY <3>1 DEF RInv, LinksTrue
    <3>3. a \in Ids(j) /\ a \in Reached
      BY <2>1, <3>1, <3>2
    <3>4. x \in loaded[a].subordinates
      BY <3>1, <3>3
    <3>5. TransactionNode(x, a) \in Rest(j)
      BY <3>2, <3>3, <3>4 DEF PageTree
    <3>6. x \in Ids(j)
      <4>1. PICK i \in 2 .. Len(j) : j[i] = TransactionNode(x, a)
        BY <3>5 DEF Rest
      <4>2. i \in DOMAIN j /\ j[i].id = x
        BY <4>1 DEF PageTree, TransactionNode
      <4> QED
        BY <4>2 DEF Ids
    <3>7. x \in Reached
      BY <3>2, <3>4 DEF Reached
    <3> QED
      BY <3>6, <3>7
  <2> QED
    BY <2>2, <2>3
<1>3. b \in old /\ b \in Branch
  BY <1>1 DEF Covered
<1> QED
  BY <1>2, <1>3

\* What init() has made of the json in the page.
Plot ==
  LET G == GraphOf(json)
  IN  [graph : {G}, stage : {"contract", "move", "expand", "done"}, sized : BOOLEAN,
       canvas : {Blank, Picture(G, {G.root}), Picture(G, Drawn(G))}]

\* The plots and the labels, and that a finished plot shows all that is to be drawn.
PlotsTyped ==
  /\ plots \in Seq(Plot) /\ Len(plots) <= 1 + MaxShown
  /\ \A i \in DOMAIN plots :
       plots[i].stage = "done" =>
         plots[i].canvas = Picture(GraphOf(json), Drawn(GraphOf(json)))
  /\ labels \in [Branch \cup Resource -> {"absent", "hidden", "shown"}]

\* There is no page before it is shown, and then it has the tree.
Page ==
  /\ step # "shown" => json = <<>> /\ plots = <<>>
  /\ step = "shown" => PageTree(json)

\* With the tables and the request, what the page shows.
PInv == RInv /\ Page /\ PlotsTyped /\ AskedShown

\* The page is opened when everything is loaded.
LEMMA OpenPageP ==
  ASSUME PInv, OpenPage
  PROVE  Page' /\ PlotsTyped' /\ AskedShown'
<1>1. /\ step = "load" /\ pending = {} /\ step' = "shown" /\ json' = JsonGraph
      /\ plots' = <<NewPlot(json', FALSE)>>
      /\ UNCHANGED <<asked, crumbs, top, loaded, labels, row>>
  BY DEF OpenPage, dbVars
<1>2. PageTyped /\ top \in Branch
  BY <1>1 DEF PInv, RInv, RequestTyped, LinksTrue, PageTyped, OldCovered
<1>3. PageTree(json')
  BY <1>1, <1>2, JsonTree
<1>4. Page'
  <2>1. PageTree(json)'
    BY <1>1, <1>3
    DEF PageTree, ParticipantNode, TransactionNode, ParticipantsOf, Rest, Ids
  <2> QED
    BY <1>1, <2>1 DEF Page
<1>5. PlotsTyped'
  <2> DEFINE P == Plot'
             n == NewPlot(json', FALSE)
  <2>1. n \in P /\ n.stage = "contract" /\ plots' = <<n>>
    BY <1>1 DEF NewPlot, Plot
  <2> HIDE DEF P, n
  <2>2. plots' \in Seq(P) /\ Len(plots') = 1 /\ plots'[1] = n
    BY <2>1
  <2>3. \A i \in DOMAIN plots' : plots'[i].stage # "done"
    BY <2>1, <2>2
  <2>4. Len(plots') <= 1 + MaxShown
    BY <2>2, TxGraphAssumption DEF TxGraphAssumption
  <2> QED
    BY <1>1, <2>2, <2>3, <2>4 DEF PlotsTyped, PInv, P
<1>6. AskedShown'
  <2> SUFFICES ASSUME NEW b \in Wanted, Rows!There(b) PROVE b \in PlottedBranches'
    BY <1>1 DEF AskedShown, Wanted, Rows!There
  <2>1. b \in Branch \cap Ids(json')
    BY <1>1, <1>3, OldShown DEF PInv
  <2> QED
    BY <2>1 DEF PlottedBranches, Ids
<1> QED
  BY <1>4, <1>5, <1>6

\* The stages follow each other.
LEMMA StageAfter ==
  /\ Stages[Rank("contract") + 1] = "move"
  /\ Stages[Rank("move") + 1] = "expand"
  /\ Stages[Rank("expand") + 1] = "done"
<1>1. DOMAIN Stages = 1 .. 4
  BY DEF Stages
<1>2. Rank("contract") = 1 /\ Rank("move") = 2 /\ Rank("expand") = 3
  BY <1>1 DEF Rank, Stages
<1> QED
  BY <1>2 DEF Stages

\* A stage that ends has painted the tree of the page.
LEMMA EndStageP ==
  ASSUME PlotsTyped, NEW i \in DOMAIN plots, NEW picture, EndStage(i, picture),
         \/ plots[i].stage \in {"contract", "move"}
            /\ picture \in {Blank, Picture(GraphOf(json), {GraphOf(json).root})}
         \/ plots[i].stage = "expand" /\ picture = Picture(GraphOf(json), Drawn(GraphOf(json))),
         UNCHANGED json, labels' \in [Branch \cup Resource -> {"absent", "hidden", "shown"}]
  PROVE  PlotsTyped'
<1> DEFINE p == [plots[i] EXCEPT !.stage = Stages[Rank(plots[i].stage) + 1], !.canvas = picture]
<1>1. plots' = [plots EXCEPT ![i] = p]
  BY DEF EndStage
<1>2. plots[i] \in Plot
  BY DEF PlotsTyped
<1>3. Stages[Rank(plots[i].stage) + 1] \in {"move", "expand", "done"}
      /\ (Stages[Rank(plots[i].stage) + 1] = "done" => plots[i].stage = "expand")
  <2>1. plots[i].stage \in {"contract", "move", "expand"}
    OBVIOUS
  <2> QED
    BY <2>1, StageAfter
<1>4. /\ p \in Plot
      /\ p.stage = "done" => p.canvas = Picture(GraphOf(json), Drawn(GraphOf(json)))
  BY <1>2, <1>3 DEF Plot
<1>5. Plot' = Plot
  BY DEF Plot
<1> HIDE DEF p
<1>6. plots' \in Seq(Plot) /\ Len(plots') = Len(plots) /\ DOMAIN plots' = DOMAIN plots
  BY <1>1, <1>4 DEF PlotsTyped
<1>7. \A k \in DOMAIN plots : plots'[k] = IF k = i THEN p ELSE plots[k]
  BY <1>1 DEF PlotsTyped
<1> QED
  BY <1>4, <1>5, <1>6, <1>7 DEF PlotsTyped

\* The browser keeps the plots those of the tree of the page.
LEMMA BrowserP ==
  ASSUME PlotsTyped, ShowModal \/ Animate \/ (\E i \in DOMAIN plots : Expand(i))
  PROVE  PlotsTyped'
<1> DEFINE L == [Branch \cup Resource -> {"absent", "hidden", "shown"}]
<1>0. labels \in L /\ UNCHANGED json /\ Plot' = Plot
  BY DEF ShowModal, Animate, Contract, Move, Finish, Expand, PlotsTyped, Plot
<1>1. CASE ShowModal
  <2> DEFINE n == NewPlot(json, TRUE)
  <2>1. n \in Plot /\ n.stage = "contract"
    BY DEF NewPlot, Plot
  <2>2. plots' = Append(plots, n) /\ Len(plots) <= MaxShown /\ labels' = labels
    BY <1>1 DEF ShowModal
  <2> HIDE DEF n
  <2>3. /\ plots' \in Seq(Plot) /\ Len(plots') = Len(plots) + 1 /\ Len(plots) \in Nat
        /\ DOMAIN plots' = 1 .. Len(plots) + 1
        /\ \A i \in 1 .. Len(plots) : plots'[i] = plots[i]
        /\ plots'[Len(plots) + 1] = n
    BY <2>1, <2>2 DEF PlotsTyped
  <2>4. \A i \in DOMAIN plots' : i \in DOMAIN plots \/ i = Len(plots) + 1
    BY <2>3 DEF PlotsTyped
  <2>5. Len(plots') <= 1 + MaxShown
    BY <2>2, <2>3, TxGraphAssumption DEF TxGraphAssumption
  <2>6. \A i \in DOMAIN plots : plots'[i] = plots[i]
    BY <2>3 DEF PlotsTyped
  <2>7. \A i \in DOMAIN plots' :
          plots'[i].stage = "done" =>
            plots'[i].canvas = Picture(GraphOf(json), Drawn(GraphOf(json)))
    BY <2>1, <2>3, <2>4, <2>6 DEF PlotsTyped
  <2> QED
    BY <1>0, <2>2, <2>3, <2>5, <2>7 DEF PlotsTyped
<1>2. \A i \in DOMAIN plots : plots[i] \in Plot /\ plots[i].graph = GraphOf(json)
  <2>1. \A i \in DOMAIN plots : plots[i] \in Plot
    BY DEF PlotsTyped
  <2>2. \A p \in Plot : p.graph = GraphOf(json)
    BY DEF Plot
  <2> QED
    BY <2>1, <2>2
<1>3. ASSUME NEW i \in DOMAIN plots, Contract(i) PROVE PlotsTyped'
  BY <1>0, <1>3, EndStageP DEF Contract
<1>4. ASSUME NEW i \in DOMAIN plots, NEW drawn, PlaceLabels(i, drawn) PROVE labels' \in L
  BY <1>0, <1>4 DEF PlaceLabels
<1>5. ASSUME NEW i \in DOMAIN plots, Move(i) PROVE PlotsTyped'
  <2>1. labels' \in L
    BY <1>4, <1>5 DEF Move
  <2>2. EndStage(i, Picture(GraphOf(json), {GraphOf(json).root})) /\ plots[i].stage = "move"
    BY <1>2, <1>5 DEF Move
  <2> QED
    BY <1>0, <2>1, <2>2, EndStageP
<1>6. ASSUME NEW i \in DOMAIN plots, Finish(i) PROVE PlotsTyped'
  <2>1. labels' \in L
    BY <1>4, <1>6 DEF Finish
  <2>2. EndStage(i, Picture(GraphOf(json), Drawn(GraphOf(json)))) /\ plots[i].stage = "expand"
    BY <1>2, <1>6 DEF Finish
  <2> QED
    BY <1>0, <2>1, <2>2, EndStageP
<1>7. ASSUME NEW i \in DOMAIN plots, Expand(i) PROVE PlotsTyped'
  <2>1. labels' \in L
    BY <1>0, <1>7 DEF Expand
  <2> DEFINE p == [plots[i] EXCEPT !.canvas = Picture(GraphOf(json), Drawn(GraphOf(json)))]
  <2>2. plots' = [plots EXCEPT ![i] = p]
    BY <1>2, <1>7 DEF Expand
  <2>3. p \in Plot /\ p.canvas = Picture(GraphOf(json), Drawn(GraphOf(json)))
    BY <1>2 DEF Plot
  <2> HIDE DEF p
  <2>4. /\ plots' \in Seq(Plot) /\ Len(plots') = Len(plots) /\ DOMAIN plots' = DOMAIN plots
        /\ \A k \in DOMAIN plots : plots'[k] = IF k = i THEN p ELSE plots[k]
    BY <2>2, <2>3 DEF PlotsTyped
  <2> QED
    BY <1>0, <2>1, <2>3, <2>4 DEF PlotsTyped
<1> QED
  BY <1>1, <1>3, <1>5, <1>6, <1>7 DEF Animate

\* Once the page is there, nothing changes what it was made of.
LEMMA PageStep ==
  ASSUME PInv, [Next]_vars, ~ OpenPage
  PROVE  Page' /\ PlotsTyped' /\ AskedShown'
<1>1. CASE UNCHANGED pageVars
  <2>1. Plot' = Plot /\ PlotsTyped' /\ UNCHANGED <<json, plots, labels>>
    BY <1>1 DEF PInv, PlotsTyped, pageVars, Plot
  <2>2. CASE step = "shown"
    <3>1. UNCHANGED requestVars
      BY <2>2 DEF Next, Monitor, Ask, Respond, InitInfo, FindAsked, FindTop, Load, OpenPage,
                  ShowModal, Animate, Contract, Move, Finish, Expand, vars
    <3>2. UNCHANGED <<step, asked, crumbs, top, loaded>>
      BY <3>1 DEF requestVars
    <3>3. Page'
      BY <2>1, <3>2 DEF PInv, Page, PageTree, ParticipantNode, TransactionNode, ParticipantsOf
    <3>4. \A b \in Wanted : Rows!There(b)' => Rows!There(b)
      <4>1. CASE \E b \in Branch : Monitor(b)
        <5>1. \A b \in Wanted : b \in Branch /\ row[b] # "none"
          BY <2>2 DEF PInv, RInv, WantedRows, RequestTyped, Wanted
        <5> QED
          BY <4>1, <5>1, MonitorRows DEF PInv
      <4>2. CASE ~ \E b \in Branch : Monitor(b)
        <5>1. UNCHANGED row
          BY <4>2 DEF Next, Ask, Respond, InitInfo, FindAsked, FindTop, Load, OpenPage,
                      ShowModal, Animate, Contract, Move, Finish, Expand, vars, dbVars
        <5> QED
          BY <5>1 DEF Rows!There
      <4> QED
        BY <4>1, <4>2
    <3>5. AskedShown'
      BY <2>1, <2>2, <3>2, <3>4 DEF PInv, AskedShown, Wanted, PlottedBranches
    <3> QED
      BY <2>1, <3>3, <3>5
  <2>3. CASE step # "shown"
    <3>1. step' # "shown"
      BY <2>3 DEF Next, Monitor, Ask, Respond, InitInfo, FindAsked, FindTop, Enter, Load,
                  ShowModal, Animate, Contract, Move, Finish, Expand, vars, requestVars
    <3> QED
      BY <2>1, <2>3, <3>1 DEF PInv, Page, AskedShown
  <2> QED
    BY <2>1, <2>2, <2>3
<1>2. CASE ShowModal \/ Animate \/ (\E i \in DOMAIN plots : Expand(i))
  <2>1. PlotsTyped'
    BY <1>2, BrowserP DEF PInv
  <2>2. /\ UNCHANGED <<json, row, step, asked, crumbs, top, loaded>>
        /\ step # "shown" => plots = <<>>
    BY <1>2 DEF ShowModal, Animate, Contract, Move, Finish, Expand, dbVars, requestVars,
                PInv, Page
  <2>3. step = "shown"
    <3> SUFFICES ASSUME step # "shown" PROVE FALSE
      OBVIOUS
    <3>1. DOMAIN plots = {}
      BY <2>2
    <3> QED
      BY <1>2, <3>1 DEF ShowModal, Animate
  <2>4. Page' /\ AskedShown'
    BY <2>2, <2>3 DEF PInv, Page, PageTree, ParticipantNode, TransactionNode, ParticipantsOf,
                      AskedShown, PlottedBranches, Rows!There
  <2> QED
    BY <2>1, <2>4
<1> QED
  BY <1>1, <1>2 DEF Next, Monitor, Ask, Respond, InitInfo, FindAsked, FindTop, Load, vars

\* The invariant of the page is inductive.
LEMMA PInvariant == Spec => []PInv
<1>1. Init => PInv
  <2> SUFFICES ASSUME Init PROVE PInv
    OBVIOUS
  <2>1. RInv
    BY RInit
  <2>2. Page /\ AskedShown
    BY DEF Init, Page, AskedShown
  <2>3. PlotsTyped
    BY TxGraphAssumption DEF Init, PlotsTyped, TxGraphAssumption
  <2> QED
    BY <2>1, <2>2, <2>3 DEF PInv
<1>2. PInv /\ [Next]_vars => PInv'
  <2> SUFFICES ASSUME PInv, [Next]_vars PROVE PInv'
    OBVIOUS
  <2>1. RInv'
    BY RStep DEF PInv
  <2>2. Page' /\ PlotsTyped' /\ AskedShown'
    BY OpenPageP, PageStep
  <2> QED
    BY <2>1, <2>2 DEF PInv
<1> QED
  BY <1>1, <1>2, PTL DEF Spec

\* The two beans of a page look at the database one after the other, and the
\* second one reads it row by row: in any tree of calls, whatever is linked in
\* between, the page has the branch that was asked for, unless it is gone, and
\* the branches above it (GraphPlotterBean:67-76, TransactionInfoBean:62-79).
THEOREM AskedShownCorrect == Spec => []AskedShown
<1>1. PInv => AskedShown
  BY DEF PInv
<1> QED
  BY <1>1, PInvariant, PTL

\* A picture has colours of the scripts only.
LEMMA PictureColours ==
  ASSUME NEW p \in Plot
  PROVE  Range(p.canvas.colour) \subseteq Colour
<1> DEFINE G == GraphOf(json)
<1>1. \A data : BeforePlotNode(data) \in Colour
  BY DEF BeforePlotNode, Colour
<1>2. ASSUME NEW drawn PROVE Range(Picture(G, drawn).colour) \subseteq Colour
  <2>1. Picture(G, drawn).colour = [x \in drawn |-> BeforePlotNode(G.data[x])]
    BY DEF Picture
  <2> QED
    BY <1>1, <2>1 DEF Range
<1>3. Range(Blank.colour) \subseteq Colour
  BY DEF Blank, Range
<1>4. p.canvas \in {Blank, Picture(G, {G.root}), Picture(G, Drawn(G))}
  BY DEF Plot
<1> HIDE DEF G
<1> QED
  BY <1>2, <1>3, <1>4

\* The tables, the request, the json and what the browser shows keep their
\* types, with the colours and stages that the scripts know.
THEOREM TypeCorrect == Spec => []TypeOK
<1>1. PInv => TypeOK
  <2> SUFFICES ASSUME PInv PROVE TypeOK
    OBVIOUS
  <2>1. \A i \in DOMAIN json : json[i].id \in Branch \cup Resource
    <3>1. json = <<>> \/ json \in Seq(Node)
      BY DEF PInv, Page, PageTree
    <3>2. \A n \in Node : n.id \in Branch \cup Resource
      BY DEF Node
    <3>3. json = <<>> => DOMAIN json = {}
      OBVIOUS
    <3>4. json \in Seq(Node) => \A i \in DOMAIN json : json[i] \in Node
      OBVIOUS
    <3> QED
      BY <3>1, <3>2, <3>3, <3>4
  <2>2. ASSUME NEW i \in DOMAIN plots
        PROVE  /\ plots[i].stage \in Range(Stages)
               /\ Range(plots[i].canvas.colour) \subseteq Colour
    <3>1. plots[i] \in Plot
      BY DEF PInv, PlotsTyped
    <3>2. Range(Stages) = {"contract", "move", "expand", "done"}
      <4>1. DOMAIN Stages = {1, 2, 3, 4}
        BY DEF Stages
      <4> QED
        BY <4>1 DEF Range, Stages
    <3>3. plots[i].stage \in {"contract", "move", "expand", "done"}
      BY <3>1 DEF Plot
    <3> QED
      BY <3>1, <3>2, <3>3, PictureColours
  <2> QED
    BY <2>1, <2>2 DEF PInv, RInv, TablesTyped, RequestTyped, PlotsTyped, TypeOK
<1> QED
  BY <1>1, PInvariant, PTL

-----------------------------------------------------------------------------
(* What a page was told stays true.                                         *)

\* A participant is recorded in a row that is there, and what a page has of the
\* participants and of the links of a row is not taken back.
Kept ==
  /\ \A b \in Branch : \A r \in Resource :
       participants[b][r] # Votes!Absent => Rows!There(b) /\ r \in Names[b]
  /\ \A b \in Branch : \A r \in ParticipantsOf(b) :
       /\ participants[b][r] # Votes!Absent
       /\ loaded[b].participants[r].xaException => participants[b][r].xaException
  /\ \A a \in Branch : \A c \in loaded[a].subordinates :
       row[c] # "none" /\ (Rows!There(c) => c \in subordinates[a])

\* Nothing is recorded of a participant that has no record, and an exception
\* that is recorded stays.
LEMMA MonitorParticipants ==
  ASSUME RInv, Kept, NEW b \in Branch, Monitor(b)
  PROVE  /\ \A a \in Branch : \A r \in Resource :
              /\ participants'[a][r] # Votes!Absent => Rows!There(a)' /\ r \in Names[a]
              /\ participants[a][r] # Votes!Absent => participants'[a][r] # Votes!Absent
              /\ participants[a][r].xaException => participants'[a][r].xaException
<1>0. /\ participants \in [Branch -> [Resource -> Votes!Record]]
      /\ row \in [Branch -> {"none", "there", "gone"}]
      /\ \A a \in Branch : \A r \in Resource :
           participants[a][r] # Votes!Absent => Rows!There(a) /\ r \in Names[a]
  BY DEF RInv, TablesTyped, Kept
<1>1. CASE /\ UNCHANGED participants
           /\ Rows!Begin(b) \/ Rows!Miss({b}) \/ Rows!Link(b)
  <2>1. \A a \in Branch : Rows!There(a) => Rows!There(a)'
    BY <1>0, <1>1 DEF Rows!Begin, Rows!Miss, Rows!ToCome, Rows!Link, Rows!There
  <2> QED
    BY <1>0, <1>1, <2>1
<1>2. CASE UNCHANGED participants /\ Rows!Cleanup(b)
  <2>1. /\ UNCHANGED participants /\ \A r \in Resource : participants[b][r] = Votes!Absent
        /\ \A a \in Branch : a # b => row'[a] = row[a]
    BY <1>0, <1>2 DEF Rows!Cleanup, Enlisted
  <2> QED
    BY <1>0, <2>1 DEF Rows!There
<1>3. ASSUME NEW r \in Resource, NEW v \in Votes!Record, UNCHANGED row,
             participants' = [participants EXCEPT ![b][r] = v],
             v # Votes!Absent, Rows!There(b), r \in Names[b],
             participants[b][r].xaException => v.xaException
      PROVE  \A a \in Branch : \A q \in Resource :
               /\ participants'[a][q] # Votes!Absent => Rows!There(a)' /\ q \in Names[a]
               /\ participants[a][q] # Votes!Absent => participants'[a][q] # Votes!Absent
               /\ participants[a][q].xaException => participants'[a][q].xaException
  <2> SUFFICES ASSUME NEW a \in Branch, NEW q \in Resource
               PROVE  /\ participants'[a][q] # Votes!Absent => Rows!There(a)' /\ q \in Names[a]
                      /\ participants[a][q] # Votes!Absent => participants'[a][q] # Votes!Absent
                      /\ participants[a][q].xaException => participants'[a][q].xaException
    OBVIOUS
  <2>1. participants'[a][q] = IF a = b /\ q = r THEN v ELSE participants[a][q]
    BY <1>0, <1>3
  <2>2. Rows!There(a) => Rows!There(a)'
    BY <1>3 DEF Rows!There
  <2> QED
    BY <1>0, <1>3, <2>1, <2>2
<1>4. CASE /\ UNCHANGED <<row, subordinates>>
           /\ \E r \in Resource, v \in Votes!Record :
                /\ participants' = [participants EXCEPT ![b][r] = v]
                /\ v # Votes!Absent
                /\ participants[b][r].xaException => v.xaException
                /\ participants[b][r] # Votes!Absent \/ (Rows!There(b) /\ r \in Names[b])
  BY <1>0, <1>3, <1>4
<1>5. TablesTyped
  BY DEF RInv
<1> QED
  BY <1>1, <1>2, <1>4, <1>5, MonitorWrites

\* No step takes back what a page was told.
LEMMA KeptStep ==
  ASSUME RInv, Kept, [Next]_vars
  PROVE  Kept'
<1>1. CASE \E b \in Branch : Monitor(b)
  <2>1. PICK b \in Branch : Monitor(b)
    BY <1>1
  <2>2. /\ \A a \in Branch : row[a] # "none" =>
             row'[a] # "none" /\ (Rows!There(a)' => Rows!There(a))
        /\ \A a \in Branch : \A c \in subordinates[a] : Rows!There(c)' => c \in subordinates'[a]
        /\ UNCHANGED <<requestVars, pageVars>>
    BY <2>1, MonitorRows
  <2>3. UNCHANGED loaded /\ loaded \in [Branch -> Entity]
    BY <2>2 DEF requestVars, RInv, RequestTyped
  <2>4. \A a \in Branch : \A r \in Resource :
          /\ participants'[a][r] # Votes!Absent => Rows!There(a)' /\ r \in Names[a]
          /\ participants[a][r] # Votes!Absent => participants'[a][r] # Votes!Absent
          /\ participants[a][r].xaException => participants'[a][r].xaException
    BY <2>1, MonitorParticipants
  <2>5. \A a \in Branch :
          ParticipantsOf(a)' = ParticipantsOf(a) /\ ParticipantsOf(a) \subseteq Resource
    BY <2>3 DEF ParticipantsOf
  <2>6. \A a \in Branch : \A r \in ParticipantsOf(a)' :
          /\ participants'[a][r] # Votes!Absent
          /\ loaded'[a].participants[r].xaException => participants'[a][r].xaException
    BY <2>3, <2>4, <2>5 DEF Kept
  <2>7. \A a \in Branch : \A c \in loaded'[a].subordinates : c \in Branch
    BY <2>3 DEF Entity
  <2>8. \A a \in Branch : \A c \in loaded'[a].subordinates :
          row'[c] # "none" /\ (Rows!There(c)' => c \in subordinates'[a])
    BY <2>2, <2>3, <2>7 DEF Kept
  <2> QED
    BY <2>4, <2>6, <2>8 DEF Kept
<1>2. CASE \E b \in Branch : Load(b)
  <2>1. PICK b \in Branch : Load(b)
    BY <1>2
  <2>2. /\ UNCHANGED <<row, subordinates, participants>>
        /\ loaded' = [loaded EXCEPT ![b] = [subordinates |-> subordinates[b],
                                            participants |-> participants[b]]]
    BY <2>1 DEF Load, dbVars
  <2>3. /\ loaded'[b].subordinates = subordinates[b]
        /\ loaded'[b].participants = participants[b]
        /\ \A a \in Branch : a # b => loaded'[a] = loaded[a]
    BY <2>2 DEF RInv, RequestTyped
  <2>4. \A c \in subordinates[b] : row[c] # "none"
    BY DEF RInv, LinksTrue, Rows!There
  <2>5. ASSUME NEW a \in Branch
        PROVE  /\ \A r \in ParticipantsOf(a)' :
                    /\ participants'[a][r] # Votes!Absent
                    /\ loaded'[a].participants[r].xaException => participants'[a][r].xaException
               /\ \A c \in loaded'[a].subordinates :
                    row'[c] # "none" /\ (Rows!There(c)' => c \in subordinates'[a])
    <3>1. CASE a = b
      BY <2>2, <2>3, <2>4, <3>1 DEF ParticipantsOf
    <3>2. CASE a # b
      BY <2>2, <2>3, <3>2 DEF ParticipantsOf, Kept, Rows!There
    <3> QED
      BY <3>1, <3>2
  <2> QED
    BY <2>2, <2>5 DEF Kept, Rows!There
<1>3. CASE UNCHANGED <<row, subordinates, participants, loaded>>
  BY <1>3 DEF Kept, ParticipantsOf, Rows!There
<1>4. CASE ~ (\E b \in Branch : Monitor(b) \/ Load(b))
  <2>1. UNCHANGED <<row, subordinates, participants, loaded>>
    BY <1>4 DEF Next, Ask, Respond, InitInfo, FindAsked, FindTop, OpenPage, ShowModal, Animate,
                Contract, Move, Finish, Expand, vars, dbVars, requestVars
  <2> QED
    BY <1>3, <2>1
<1> QED
  BY <1>1, <1>2, <1>4

\* It is an invariant.
LEMMA KeptInvariant == Spec => [](PInv /\ Kept)
<1>1. Init => Kept
  BY DEF Init, Kept, ParticipantsOf, NotLoaded
<1>2. PInv /\ Kept /\ [Next]_vars => Kept'
  BY KeptStep DEF PInv
<1> QED
  BY <1>1, <1>2, PInvariant, PTL DEF Spec

-----------------------------------------------------------------------------
(* computeLevels(): every node has a level, no greater than the length of a *)
(* path to the root, and a neighbour on the level above.                     *)

\* d is how long some path from each node to the root is.
PathLengths(tree, d) ==
  /\ Len(tree) \in Nat /\ Len(tree) >= 1 /\ DOMAIN tree = 1 .. Len(tree)
  /\ d \in [Ids(tree) -> Nat] /\ d[RootOf(tree)] = 0
  /\ \A x \in Ids(tree) \ {RootOf(tree)} :
       \E y \in Ids(tree) : Adjacent(tree, y, x) /\ d[x] = d[y] + 1

\* The nodes at most k steps from the root, and one step further.
Spread(tree, near) ==
  near \cup {y \in Ids(tree) : \E x \in near : Adjacent(tree, x, y)}

\* No path that shortens by one step at a time has more steps than the tree nodes.
LEMMA PathBound ==
  ASSUME NEW tree, NEW d, PathLengths(tree, d), NEW x \in Ids(tree)
  PROVE  d[x] + 1 <= Len(tree)
<1> DEFINE N == Len(tree)
           D == {d[y] : y \in Ids(tree)}
           f == [i \in 1 .. N |-> d[tree[i].id]]
<1>0. /\ N \in Nat /\ \A y \in Ids(tree) : d[y] \in Nat
      /\ \A i \in 1 .. N : tree[i].id \in Ids(tree)
  BY DEF PathLengths, Ids
<1>1. f \in Surjection(1 .. N, D)
  <2>1. f \in [1 .. N -> D]
    BY <1>0
  <2>2. \A v \in D : \E i \in 1 .. N : f[i] = v
    BY DEF Ids, PathLengths
  <2> HIDE DEF f, D
  <2> QED
    BY <2>1, <2>2 DEF Surjection
<1>2. IsFiniteSet(1 .. N) /\ Cardinality(1 .. N) = N
  <2> HIDE DEF N
  <2>1. 1 \in Int /\ N \in Int /\ N >= 0
    BY <1>0
  <2>2. IsFiniteSet(1 .. N) /\ Cardinality(1 .. N) = IF 1 > N THEN 0 ELSE N - 1 + 1
    BY <2>1, FS_Interval
  <2> QED
    BY <1>0, <2>2
<1>3. IsFiniteSet(D) /\ Cardinality(D) <= N
  <2> HIDE DEF f, D, N
  <2> QED
    BY <1>1, <1>2, FS_Surjection
<1> HIDE DEF N
<1>4. \A n \in 0 .. d[x] : d[x] - n \in D
  <2> DEFINE B == {n \in 0 .. d[x] : d[x] - n \notin D}
  <2> SUFFICES ASSUME B # {} PROVE FALSE
    OBVIOUS
  <2>0. B \in SUBSET Nat
    BY <1>0
  <2> HIDE DEF B
  <2>1. PICK n \in B : \A m \in B : n <= m
    BY <2>0, LeastNat
  <2>2. n \in Nat /\ n - 1 \notin B
    BY <2>0, <2>1
  <2>3. n \in 0 .. d[x] /\ d[x] - n \notin D
    BY DEF B
  <2>4. n # 0
    BY <1>0, <2>3
  <2>5. n - 1 \in 0 .. d[x]
    BY <1>0, <2>2, <2>3, <2>4
  <2>6. d[x] - (n - 1) \in D
    BY <2>2, <2>5 DEF B
  <2>7. PICK y \in Ids(tree) : d[y] = d[x] - (n - 1)
    BY <2>6
  <2>8. d[y] # 0
    BY <1>0, <2>3, <2>7
  <2>9. y \in Ids(tree) \ {RootOf(tree)}
    BY <2>8 DEF PathLengths
  <2>10. PICK z \in Ids(tree) : d[y] = d[z] + 1
    BY <2>9 DEF PathLengths
  <2>11. d[z] = d[x] - n
    BY <1>0, <2>2, <2>7, <2>10
  <2> QED
    BY <2>3, <2>11
<1>5. 0 .. d[x] \in SUBSET D
  <2> SUFFICES ASSUME NEW m \in 0 .. d[x] PROVE m \in D
    OBVIOUS
  <2>1. d[x] - m \in 0 .. d[x] /\ d[x] - (d[x] - m) = m
    BY <1>0
  <2> HIDE DEF D
  <2> QED
    BY <1>4, <2>1
<1>6. Cardinality(0 .. d[x]) = d[x] + 1
  BY <1>0, FS_Interval
<1>7. Cardinality(0 .. d[x]) <= Cardinality(D)
  <2> HIDE DEF D
  <2> QED
    BY <1>3, <1>5, FS_Subset
<1>8. Cardinality(D) \in Nat
  <2> HIDE DEF D
  <2> QED
    BY <1>3, FS_CardinalityType
<1> QED
  BY <1>0, <1>3, <1>6, <1>7, <1>8 DEF N

\* The nodes at most k steps from the root, for every k.
Within(tree, f) ==
  f = [k \in 0 .. Len(tree) |->
         IF k = 0 THEN {RootOf(tree)} ELSE Spread(tree, f[k - 1])]

\* Levels() finds such a sequence.
LEMMA WithinEnds ==
  ASSUME NEW tree, Len(tree) \in Nat
  PROVE  \E f : Within(tree, f)
<1> DEFINE N == Len(tree)
           Rhs(f, n) == [k \in 0 .. n |->
                           IF k = 0 THEN {RootOf(tree)} ELSE Spread(tree, f[k - 1])]
           Good(n) == \E f : f = Rhs(f, n)
           Bad == {n \in 0 .. N : ~ Good(n)}
<1>0. N \in Nat
  OBVIOUS
<1> HIDE DEF N
<1>1. Good(0)
  <2> DEFINE g == [k \in 0 .. 0 |-> {RootOf(tree)}]
  <2>1. g = Rhs(g, 0)
    OBVIOUS
  <2> QED
    BY <2>1
<1>2. ASSUME NEW n \in 0 .. N, n # 0, Good(n - 1) PROVE Good(n)
  <2>1. PICK f : f = Rhs(f, n - 1)
    BY <1>2
  <2> DEFINE g == [k \in 0 .. n |-> IF k = n THEN Spread(tree, f[n - 1]) ELSE f[k]]
  <2>2. \A k \in 0 .. n : g[k] = IF k = 0 THEN {RootOf(tree)} ELSE Spread(tree, g[k - 1])
    <3> SUFFICES ASSUME NEW k \in 0 .. n
                 PROVE  g[k] = IF k = 0 THEN {RootOf(tree)} ELSE Spread(tree, g[k - 1])
      OBVIOUS
    <3>1. k # 0 => k - 1 \in 0 .. n /\ k - 1 # n /\ g[k - 1] = f[k - 1]
      BY <1>0, <1>2
    <3>2. CASE k = n
      BY <1>2, <3>1, <3>2
    <3>3. CASE k # n
      <4>1. k \in 0 .. n - 1
        BY <1>0, <1>2, <3>3
      <4>2. f[k] = IF k = 0 THEN {RootOf(tree)} ELSE Spread(tree, f[k - 1])
        BY <2>1, <4>1
      <4> QED
        BY <3>1, <3>3, <4>2
    <3> QED
      BY <3>2, <3>3
  <2>3. g = Rhs(g, n)
    BY <2>2
  <2> QED
    BY <2>3
<1> HIDE DEF Good
<1>3. Bad = {}
  <2> SUFFICES ASSUME Bad # {} PROVE FALSE
    OBVIOUS
  <2>0. Bad \in SUBSET Nat
    BY <1>0
  <2> HIDE DEF Bad
  <2>1. PICK n \in Bad : \A m \in Bad : n <= m
    BY <2>0, LeastNat
  <2>2. n \in Nat
    BY <2>0
  <2>3. n - 1 \notin Bad
    BY <2>0, <2>1, <2>2
  <2> USE DEF Bad
  <2>4. n # 0 /\ n \in 0 .. N /\ n - 1 \in 0 .. N
    BY <1>0, <1>1
  <2> QED
    BY <1>2, <2>3, <2>4
<1>4. Good(N)
  BY <1>0, <1>3
<1> QED
  BY <1>4 DEF Good, N, Within

\* Where paths lead from all nodes to the root, a node is within k steps if its
\* level is k or less.
LEMMA LevelsWithin ==
  ASSUME NEW tree, NEW d, PathLengths(tree, d)
  PROVE  \E f : /\ Within(tree, f)
                /\ Levels(tree) \in [Ids(tree) -> 0 .. Len(tree)]
                /\ \A x \in Ids(tree) : \A k \in 0 .. Len(tree) :
                     x \in f[k] <=> Levels(tree)[x] <= k
                /\ \A x \in Ids(tree) : Levels(tree)[x] <= d[x]
<1> DEFINE N == Len(tree)
           within == CHOOSE f : Within(tree, f)
           level(x) == CHOOSE k \in DOMAIN within :
                         x \in within[k] /\ (k > 0 => x \notin within[k - 1])
<1>0. N \in Nat /\ RootOf(tree) \in Ids(tree) /\ \A x \in Ids(tree) : d[x] \in 0 .. N
  <2>1. N \in Nat /\ N >= 1 /\ RootOf(tree) \in Ids(tree) /\ \A x \in Ids(tree) : d[x] \in Nat
    BY DEF PathLengths, RootOf, Ids
  <2>2. \A x \in Ids(tree) : d[x] + 1 <= N
    BY PathBound
  <2> QED
    BY <2>1, <2>2
<1>1. Within(tree, within)
  BY <1>0, WithinEnds
<1>2. Levels(tree) = [x \in Ids(tree) |-> level(x)]
  BY DEF Levels, Within, Spread
<1> HIDE DEF within
<1>3. /\ DOMAIN within = 0 .. N
      /\ \A k \in 0 .. N :
           within[k] = IF k = 0 THEN {RootOf(tree)} ELSE Spread(tree, within[k - 1])
  BY <1>1 DEF Within
<1> HIDE DEF N
<1>4. \A k \in 1 .. N : k - 1 \in 0 .. N /\ within[k - 1] \subseteq within[k]
  BY <1>0, <1>3 DEF Spread
\* A path of k steps reaches a node within k steps.
<1>5. \A x \in Ids(tree) : x \in within[d[x]]
  <2> DEFINE B == {k \in 0 .. N : \E x \in Ids(tree) : d[x] = k /\ x \notin within[k]}
  <2>1. B = {}
    <3> SUFFICES ASSUME B # {} PROVE FALSE
      OBVIOUS
    <3>0. B \in SUBSET Nat
      BY <1>0
    <3> HIDE DEF B
    <3>1. PICK k \in B : \A m \in B : k <= m
      BY <3>0, LeastNat
    <3> USE DEF B
    <3>2. PICK x \in Ids(tree) : d[x] = k /\ x \notin within[k]
      OBVIOUS
    <3>3. k \in 0 .. N
      OBVIOUS
    <3>4. CASE x = RootOf(tree)
      <4>1. k = 0
        BY <3>2, <3>4 DEF PathLengths
      <4> QED
        BY <1>3, <3>2, <3>3, <3>4, <4>1
    <3>5. CASE x # RootOf(tree)
      <4>1. PICK y \in Ids(tree) : Adjacent(tree, y, x) /\ d[x] = d[y] + 1
        BY <3>2, <3>5 DEF PathLengths
      <4>2. k # 0 /\ k - 1 \in 0 .. N /\ d[y] = k - 1 /\ k - 1 < k
        BY <1>0, <3>2, <3>3, <4>1
      <4>3. k - 1 \notin B
        <5> HIDE DEF B
        <5> QED
          BY <3>0, <3>1, <4>2
      <4>4. y \in within[k - 1]
        BY <4>2, <4>3
      <4>5. x \in Spread(tree, within[k - 1])
        BY <3>2, <4>1, <4>4 DEF Spread
      <4> QED
        BY <1>3, <3>2, <3>3, <4>2, <4>5
    <3> QED
      BY <3>4, <3>5
  <2> QED
    BY <1>0, <2>1
\* A node that is within k steps is within more.
<1>6. ASSUME NEW x \in Ids(tree)
      PROVE  /\ level(x) \in 0 .. N /\ level(x) <= d[x]
             /\ \A k \in 0 .. N : x \in within[k] <=> level(x) <= k
  <2> DEFINE T == {k \in 0 .. N : x \in within[k]}
  <2>0. T \in SUBSET Nat /\ T # {} /\ d[x] \in T
    BY <1>0, <1>5
  <2> HIDE DEF T
  <2>1. PICK l \in T : \A m \in T : l <= m
    BY <2>0, LeastNat
  <2>2. ASSUME NEW k \in 0 .. N, l <= k PROVE x \in within[k]
    <3> DEFINE B == {m \in 0 .. N : l <= m /\ x \notin within[m]}
    <3>1. B = {}
      <4> SUFFICES ASSUME B # {} PROVE FALSE
        OBVIOUS
      <4>0. B \in SUBSET Nat
        BY <1>0
      <4> HIDE DEF B
      <4>1. PICK m \in B : \A q \in B : m <= q
        BY <4>0, LeastNat
      <4>2. m \in 0 .. N /\ l <= m /\ x \notin within[m] /\ l \in 0 .. N /\ x \in within[l]
        BY DEF B, T
      <4>3. m # l
        BY <4>2
      <4>4. m \in 1 .. N /\ m - 1 \in 0 .. N /\ l <= m - 1 /\ m - 1 < m
        BY <1>0, <4>2, <4>3
      <4>5. m - 1 \notin B
        BY <4>0, <4>1, <4>4
      <4>6. x \in within[m - 1]
        BY <4>4, <4>5 DEF B
      <4> QED
        BY <1>4, <4>2, <4>4, <4>6
    <3> QED
      BY <2>2, <3>1
  <2>3. l \in 0 .. N /\ x \in within[l]
    BY DEF T
  <2>4. \A k \in 0 .. N : x \in within[k] <=> l <= k
    BY <2>1, <2>2 DEF T
  <2>5. \A k \in 0 .. N : x \in within[k] /\ (k > 0 => x \notin within[k - 1]) <=> k = l
    <3> TAKE k \in 0 .. N
    <3>1. k > 0 => k - 1 \in 0 .. N
      BY <1>0
    <3> QED
      BY <1>0, <2>3, <2>4, <3>1
  <2>6. level(x) = l
    BY <1>3, <2>3, <2>5
  <2> HIDE DEF level
  <2> QED
    BY <2>0, <2>1, <2>3, <2>4, <2>6
<1>7. Levels(tree) \in [Ids(tree) -> 0 .. N] /\ \A x \in Ids(tree) : Levels(tree)[x] = level(x)
  <2> HIDE DEF level
  <2> QED
    BY <1>2, <1>6
<1> HIDE DEF level
<1>8. /\ \A x \in Ids(tree) : \A k \in 0 .. N : x \in within[k] <=> Levels(tree)[x] <= k
      /\ \A x \in Ids(tree) : Levels(tree)[x] <= d[x]
  BY <1>6, <1>7
<1> QED
  BY <1>1, <1>7, <1>8 DEF N

\* No level is greater than the length of a path, a node has a neighbour on the
\* level above, and neighbours are at most one level apart.
LEMMA LevelsAre ==
  ASSUME NEW tree, NEW d, PathLengths(tree, d)
  PROVE  /\ Levels(tree) \in [Ids(tree) -> Nat]
         /\ \A x \in Ids(tree) : Levels(tree)[x] <= d[x]
         /\ \A x \in Ids(tree) \ {RootOf(tree)} :
              \E y \in Ids(tree) : Adjacent(tree, y, x) /\ Levels(tree)[y] < Levels(tree)[x]
         /\ \A x, y \in Ids(tree) :
              Adjacent(tree, x, y) => Levels(tree)[y] <= Levels(tree)[x] + 1
<1> DEFINE N == Len(tree)
           L == Levels(tree)
<1>0. N \in Nat /\ RootOf(tree) \in Ids(tree)
  BY DEF PathLengths, RootOf, Ids
<1>1. PICK f : /\ Within(tree, f)
               /\ L \in [Ids(tree) -> 0 .. N]
               /\ \A x \in Ids(tree) : \A k \in 0 .. N : x \in f[k] <=> L[x] <= k
               /\ \A x \in Ids(tree) : L[x] <= d[x]
  BY LevelsWithin
<1> HIDE DEF L
<1>2. \A k \in 0 .. N : f[k] = IF k = 0 THEN {RootOf(tree)} ELSE Spread(tree, f[k - 1])
  BY <1>1 DEF Within
<1> HIDE DEF N
<1>3. \A x \in Ids(tree) : L[x] \in 0 .. N /\ L[x] \in Nat
  BY <1>0, <1>1
<1>4. ASSUME NEW x \in Ids(tree), x # RootOf(tree)
      PROVE  \E y \in Ids(tree) : Adjacent(tree, y, x) /\ L[y] < L[x]
  <2> DEFINE k == L[x]
  <2>1. k \in 0 .. N /\ x \in f[k]
    BY <1>1, <1>3
  <2>2. k # 0
    BY <1>2, <1>4, <2>1
  <2>3. k - 1 \in 0 .. N /\ ~ (k <= k - 1)
    BY <1>0, <2>1, <2>2
  <2>4. x \notin f[k - 1]
    BY <1>1, <2>3
  <2>5. x \in Spread(tree, f[k - 1])
    BY <1>2, <2>1, <2>2
  <2>6. PICK y \in f[k - 1] : Adjacent(tree, y, x)
    BY <2>4, <2>5 DEF Spread
  <2>7. y \in Ids(tree)
    <3>1. f[k - 1] \subseteq Ids(tree)
      <4> DEFINE B == {m \in 0 .. N : ~ (f[m] \subseteq Ids(tree))}
      <4>1. B = {}
        <5> SUFFICES ASSUME B # {} PROVE FALSE
          OBVIOUS
        <5>0. B \in SUBSET Nat
          BY <1>0
        <5> HIDE DEF B
        <5>1. PICK m \in B : \A q \in B : m <= q
          BY <5>0, LeastNat
        <5>2. m \in 0 .. N /\ ~ (f[m] \subseteq Ids(tree))
          BY DEF B
        <5>3. m # 0
          BY <1>0, <1>2, <5>2
        <5>4. m - 1 \in 0 .. N /\ m - 1 < m
          BY <1>0, <5>2, <5>3
        <5>5. m - 1 \notin B
          BY <5>0, <5>1, <5>4
        <5>6. f[m - 1] \subseteq Ids(tree)
          BY <5>4, <5>5 DEF B
        <5>7. f[m] = Spread(tree, f[m - 1])
          BY <1>2, <5>2, <5>3
        <5> QED
          BY <5>2, <5>6, <5>7 DEF Spread
      <4> QED
        BY <2>3, <4>1
    <3> QED
      BY <2>6, <3>1
  <2>8. L[y] <= k - 1
    BY <1>1, <2>3, <2>6, <2>7
  <2>9. L[y] < k
    BY <1>3, <2>1, <2>7, <2>8
  <2> QED
    BY <2>6, <2>7, <2>9
<1>5. ASSUME NEW x \in Ids(tree), NEW y \in Ids(tree), Adjacent(tree, x, y)
      PROVE  L[y] <= L[x] + 1
  <2>1. CASE L[x] = N
    BY <1>0, <1>3, <2>1
  <2>2. CASE L[x] # N
    <3> DEFINE k == L[x] + 1
    <3>1. k \in 0 .. N /\ k # 0 /\ k - 1 = L[x]
      BY <1>0, <1>3, <2>2
    <3>2. x \in f[L[x]]
      BY <1>1, <1>3
    <3>3. y \in Spread(tree, f[k - 1])
      BY <1>5, <3>1, <3>2 DEF Spread
    <3>4. y \in f[k]
      BY <1>2, <3>1, <3>3
    <3> HIDE DEF k
    <3>5. L[y] <= k
      BY <1>1, <3>1, <3>4
    <3> QED
      BY <3>5 DEF k
  <2> QED
    BY <2>1, <2>2
<1>6. L \in [Ids(tree) -> Nat]
  BY <1>0, <1>1
<1> QED
  BY <1>1, <1>4, <1>5, <1>6 DEF L

-----------------------------------------------------------------------------
(* What the pictures tell, whether or not branches share resources.          *)

\* A branch of the page with a participant of the name r.
Owner(r) == CHOOSE a \in Branch \cap Ids(json) : r \in ParticipantsOf(a)

\* How many steps a path in the json takes from each node to the root.
Height ==
  [x \in Ids(json) |->
     IF x \in Branch THEN Depth[x] - Depth[top] ELSE (Depth[Owner(x)] - Depth[top]) + 1]

\* The nodes of a page, each with its parent.
LEMMA NodeOfPage ==
  ASSUME PInv, Kept, step = "shown", NEW i \in 2 .. Len(json)
  PROVE  \E a \in Branch \cap Ids(json) :
           /\ json[i].up = a /\ json[i].id \in Ids(json) /\ json[i] \in Rest(json)
           /\ \/ \E r \in ParticipantsOf(a) :
                   /\ json[i] = ParticipantNode(a, r) /\ json[i].id = r
                   /\ r \in Resource /\ r \notin Branch
              \/ /\ json[i].id \in loaded[a].subordinates /\ json[i].id \in Branch
                 /\ Caller[json[i].id] = a
                 /\ json[i] = TransactionNode(json[i].id, a)
<1>1. PageTree(json)
  BY DEF PInv, Page
<1>2. json[i] \in Rest(json) /\ i \in DOMAIN json
  BY <1>1 DEF Rest, PageTree
<1>3. json[i].id \in Ids(json)
  BY <1>2 DEF Ids
<1>4. PICK a \in Branch \cap Ids(json) :
        \/ \E r \in ParticipantsOf(a) : json[i] = ParticipantNode(a, r)
        \/ \E c \in loaded[a].subordinates : json[i] = TransactionNode(c, a)
  BY <1>1, <1>2 DEF PageTree
<1>5. ASSUME NEW r \in ParticipantsOf(a), json[i] = ParticipantNode(a, r)
      PROVE  /\ json[i].up = a /\ json[i].id = r
             /\ r \in Resource /\ r \notin Branch
  BY <1>5, TxGraphAssumption DEF TxGraphAssumption, ParticipantsOf, ParticipantNode
<1>6. ASSUME NEW c \in loaded[a].subordinates, json[i] = TransactionNode(c, a)
      PROVE  json[i].up = a /\ json[i].id = c /\ c \in Branch /\ Caller[c] = a
  BY <1>6 DEF TransactionNode, PInv, RInv, RequestTyped, LinksTrue, Entity
<1>7. CASE \E r \in ParticipantsOf(a) : json[i] = ParticipantNode(a, r)
  <2>1. PICK r \in ParticipantsOf(a) : json[i] = ParticipantNode(a, r)
    BY <1>7
  <2>2. /\ json[i].up = a /\ json[i].id = r
        /\ r \in Resource /\ r \notin Branch
    BY <1>5, <2>1
  <2> QED
    BY <1>2, <1>3, <2>1, <2>2
<1>8. CASE \E c \in loaded[a].subordinates : json[i] = TransactionNode(c, a)
  <2>1. PICK c \in loaded[a].subordinates : json[i] = TransactionNode(c, a)
    BY <1>8
  <2>2. json[i].up = a /\ json[i].id = c /\ c \in Branch /\ Caller[c] = a
    BY <1>6, <2>1
  <2> QED
    BY <1>2, <1>3, <2>1, <2>2
<1> QED
  BY <1>4, <1>7, <1>8

\* Its first node is the root.
LEMMA FirstOfPage ==
  ASSUME PInv, step = "shown"
  PROVE  /\ json[1] = TransactionNode(top, NoBranch) /\ RootOf(json) = top
         /\ top \in Branch \cap Ids(json)
         /\ DOMAIN json = 1 .. Len(json) /\ Len(json) \in Nat /\ Len(json) >= 1
         /\ \A i \in DOMAIN json : i = 1 \/ i \in 2 .. Len(json)
<1>1. /\ json[1] = TransactionNode(top, NoBranch) /\ top \in Branch
      /\ json \in Seq(Node) /\ Len(json) \in Nat /\ Len(json) >= 1
  BY DEF PInv, Page, PageTree
<1>2. DOMAIN json = 1 .. Len(json)
  BY <1>1
<1>3. json[1].id = top
  BY <1>1 DEF TransactionNode
<1>4. top \in Ids(json)
  BY <1>1, <1>2, <1>3 DEF Ids
<1> QED
  BY <1>1, <1>2, <1>3, <1>4 DEF RootOf

\* The nodes of the participants of a branch of the page.
LEMMA ParticipantOfPage ==
  ASSUME PInv, step = "shown", NEW b \in Branch \cap Ids(json), NEW r \in ParticipantsOf(b)
  PROVE  /\ r \in Ids(json) /\ r \in Resource /\ r \notin Branch /\ r # RootOf(json)
         /\ Adjacent(json, b, r)
<1>1. ParticipantNode(b, r) \in Rest(json)
  BY DEF PInv, Page, PageTree
<1>2. PICK k \in 2 .. Len(json) : json[k] = ParticipantNode(b, r)
  BY <1>1 DEF Rest
<1>3. k \in DOMAIN json /\ k > 1 /\ RootOf(json) \in Branch
  BY FirstOfPage
<1>4. json[k].up = b /\ json[k].id = r
  BY <1>2 DEF ParticipantNode
<1>5. r \in Resource /\ r \notin Branch
  BY TxGraphAssumption DEF TxGraphAssumption, ParticipantsOf
<1> QED
  BY <1>3, <1>4, <1>5 DEF Ids, Adjacent

\* Every node of a page has a path to its root.
LEMMA JsonPaths ==
  ASSUME PInv, Kept, step = "shown"
  PROVE  PathLengths(json, Height)
<1>1. /\ json[1] = TransactionNode(top, NoBranch) /\ RootOf(json) = top
      /\ top \in Branch \cap Ids(json)
      /\ DOMAIN json = 1 .. Len(json) /\ Len(json) \in Nat /\ Len(json) >= 1
      /\ \A i \in DOMAIN json : i = 1 \/ i \in 2 .. Len(json)
  BY FirstOfPage
<1>2. \A b \in Branch : Depth[b] \in Nat
  BY DepthIs
<1>3. \A b \in Branch \cap Ids(json) : Depth[b] >= Depth[top]
  BY DEF PInv, Page, PageTree
<1>4. \A b \in Branch \cap Ids(json) :
        Height[b] \in Nat /\ Height[b] = Depth[b] - Depth[top]
  BY <1>1, <1>2, <1>3 DEF Height
<1>5. ASSUME NEW x \in Ids(json), x # RootOf(json)
      PROVE  /\ \E y \in Ids(json) : Adjacent(json, y, x) /\ Height[x] = Height[y] + 1
             /\ Height[x] \in Nat
  <2>1. PICK i \in DOMAIN json : x = json[i].id
    BY DEF Ids
  <2>2. i \in 2 .. Len(json)
    BY <1>1, <1>5, <2>1 DEF RootOf
  <2>3. PICK a \in Branch \cap Ids(json) :
          /\ json[i].up = a
          /\ \/ x \in ParticipantsOf(a) /\ x \notin Branch
             \/ x \in Branch /\ Caller[x] = a
    BY <2>1, <2>2, NodeOfPage
  <2>4. CASE x \in ParticipantsOf(a) /\ x \notin Branch
    <3>1. Owner(x) \in Branch \cap Ids(json) /\ x \in ParticipantsOf(Owner(x))
      BY <2>4 DEF Owner
    <3>2. Adjacent(json, Owner(x), x)
      BY <3>1, ParticipantOfPage
    <3>3. Height[x] = (Depth[Owner(x)] - Depth[top]) + 1
      BY <2>4 DEF Height
    <3>4. Height[x] = Height[Owner(x)] + 1 /\ Height[Owner(x)] \in Nat
      BY <1>4, <3>1, <3>3
    <3> HIDE DEF Owner
    <3> QED
      BY <3>1, <3>2, <3>4
  <2>5. CASE x \in Branch /\ Caller[x] = a
    <3>1. Adjacent(json, a, x)
      BY <1>1, <2>1, <2>2, <2>3 DEF Adjacent
    <3>2. Depth[x] = Depth[a] + 1
      BY <2>3, <2>5, DepthIs, TxGraphAssumption DEF TxGraphAssumption
    <3>3. /\ Depth[a] \in Nat /\ Depth[top] \in Nat
          /\ Height[a] = Depth[a] - Depth[top]
          /\ Height[x] = Depth[x] - Depth[top] /\ Height[x] \in Nat
      BY <1>1, <1>2, <1>4, <2>3, <2>5
    <3>4. Height[x] = Height[a] + 1
      BY <3>2, <3>3
    <3> QED
      BY <2>3, <3>1, <3>3, <3>4
  <2> QED
    BY <2>3, <2>4, <2>5
<1>6. Height[top] = 0
  BY <1>1, <1>2, <1>4
<1>7. Height \in [Ids(json) -> Nat]
  <2>1. \A x \in Ids(json) : Height[x] \in Nat
    BY <1>1, <1>4, <1>5
  <2> QED
    BY <2>1 DEF Height
<1> QED
  BY <1>1, <1>5, <1>6, <1>7 DEF PathLengths

\* What is below a node of the graph are its neighbours of a greater level.
LEMMA BelowAre ==
  ASSUME NEW x \in Ids(json), NEW y
  PROVE  y \in GraphOf(json).below[x] <=>
           y \in Ids(json) /\ Adjacent(json, x, y) /\ Levels(json)[y] > Levels(json)[x]
<1>1. GraphOf(json).below[x] =
        {z \in Ids(json) : Adjacent(json, x, z) /\ Levels(json)[z] > Levels(json)[x]}
  BY DEF GraphOf
<1> QED
  BY <1>1

\* Neighbours are a branch and what the page has under it.
LEMMA NeighboursAre ==
  ASSUME PInv, Kept, step = "shown", NEW x, NEW y, Adjacent(json, x, y)
  PROVE  \E a \in Branch \cap Ids(json) : \E z :
           /\ {x, y} = {a, z}
           /\ z \in ParticipantsOf(a) \/ (z \in Branch /\ Caller[z] = a)
<1>1. PICK i \in DOMAIN json : i > 1 /\ {json[i].id, json[i].up} = {x, y}
  BY DEF Adjacent
<1>2. i \in 2 .. Len(json)
  BY <1>1, FirstOfPage
<1>3. PICK a \in Branch \cap Ids(json) :
        /\ json[i].up = a
        /\ \/ \E r \in ParticipantsOf(a) : json[i].id = r
           \/ json[i].id \in Branch /\ Caller[json[i].id] = a
  BY <1>2, NodeOfPage
<1> QED
  BY <1>1, <1>3

\* The data of a node of the graph are those of a node of its id.
LEMMA DataOfNode ==
  ASSUME PInv, step = "shown", NEW x \in Ids(json)
  PROVE  \E i \in DOMAIN json : json[i].id = x /\ GraphOf(json).data[x] = json[i].data
<1> DEFINE T == {i \in DOMAIN json : json[i].id = x}
<1>1. T \in SUBSET Nat /\ T # {}
  BY FirstOfPage DEF Ids
<1>2. \E i \in T : \A k \in T : i <= k
  <2> HIDE DEF T
  <2> QED
    BY <1>1, LeastNat
<1> DEFINE first == CHOOSE i \in DOMAIN json :
                      /\ json[i].id = x
                      /\ \A k \in DOMAIN json : json[k].id = x => i <= k
<1>3. first \in DOMAIN json /\ json[first].id = x
  BY <1>2
<1>4. GraphOf(json).data[x] = json[first].data
  BY DEF GraphOf, DataOf
<1> HIDE DEF first
<1> QED
  BY <1>3, <1>4

\* The data of a resource are those of some participant of its name.
LEMMA DataIs ==
  ASSUME PInv, Kept, step = "shown", NEW r \in Ids(json), r \notin Branch
  PROVE  \E a \in Branch \cap Ids(json) :
           r \in ParticipantsOf(a) /\ GraphOf(json).data[r] = ParticipantNode(a, r).data
<1>1. PICK i \in DOMAIN json : json[i].id = r /\ GraphOf(json).data[r] = json[i].data
  BY DataOfNode
<1>2. i # 1
  <2>1. json[1].id = top /\ top \in Branch
    BY FirstOfPage DEF TransactionNode
  <2> QED
    BY <1>1, <2>1
<1>3. i \in 2 .. Len(json)
  BY <1>2, FirstOfPage
<1>4. PICK a \in Branch \cap Ids(json) :
        \/ \E q \in ParticipantsOf(a) : json[i] = ParticipantNode(a, q) /\ json[i].id = q
        \/ json[i].id \in Branch
  BY <1>3, NodeOfPage
<1> QED
  BY <1>1, <1>4

\* The lines of a picture join drawn neighbours of different levels.
LEMMA LinesAre ==
  ASSUME NEW S \in SUBSET Ids(json)
  PROVE  /\ \A l \in Picture(GraphOf(json), S).lines : Adjacent(json, l.from, l.to)
         /\ \A x, y \in S :
              Adjacent(json, x, y) /\ Levels(json)[y] > Levels(json)[x] =>
                \E l \in Picture(GraphOf(json), S).lines : l.from = x /\ l.to = y
<1> DEFINE G == GraphOf(json)
           line(x, y) == [from |-> x, to |-> y, style |-> BeforePlotLine(G, x, y)]
           lines == UNION {{line(x, y) : y \in G.below[x] \cap S} : x \in S}
<1>1. Picture(G, S).lines = lines
  BY DEF Picture
<1>2. \A x \in Ids(json) : \A y :
        y \in G.below[x] <=>
          y \in Ids(json) /\ Adjacent(json, x, y) /\ Levels(json)[y] > Levels(json)[x]
  BY BelowAre
<1> HIDE DEF G
<1>3. ASSUME NEW l \in lines PROVE Adjacent(json, l.from, l.to)
  <2>1. PICK x \in S : \E y \in G.below[x] \cap S : l = line(x, y)
    BY <1>3
  <2>2. PICK y \in G.below[x] \cap S : l = line(x, y)
    BY <2>1
  <2>3. l.from = x /\ l.to = y
    BY <2>2
  <2> QED
    BY <1>2, <2>1, <2>2, <2>3
<1>4. ASSUME NEW x \in S, NEW y \in S, Adjacent(json, x, y), Levels(json)[y] > Levels(json)[x]
      PROVE  \E l \in lines : l.from = x /\ l.to = y
  <2>1. y \in G.below[x]
    BY <1>2, <1>4
  <2>2. line(x, y) \in lines
    BY <1>4, <2>1
  <2>3. line(x, y).from = x /\ line(x, y).to = y
    OBVIOUS
  <2> HIDE DEF line, lines
  <2> QED
    BY <2>2, <2>3
<1> HIDE DEF lines
<1> QED
  BY <1>1, <1>3, <1>4 DEF G

\* Drawn nodes are nodes of the page, up to a level.
LEMMA DrawnOfPage ==
  ASSUME PInv, Kept, step = "shown"
  PROVE  /\ Drawn(GraphOf(json)) = {x \in Ids(json) : Levels(json)[x] <= LevelsToShow}
         /\ {GraphOf(json).root} \in SUBSET Ids(json)
<1>1. GraphOf(json).level = Levels(json)
  BY DEF GraphOf
<1>2. DOMAIN Levels(json) = Ids(json)
  BY JsonPaths, LevelsAre
<1>3. GraphOf(json).root = top /\ top \in Ids(json)
  BY FirstOfPage DEF GraphOf
<1> QED
  BY <1>1, <1>2, <1>3 DEF Drawn

\* A picture of nodes of the page is true.
LEMMA PictureOfPage ==
  ASSUME PInv, Kept, step = "shown", NEW S \in SUBSET Ids(json)
  PROVE  LET picture == Picture(GraphOf(json), S)
         IN  /\ \A l \in picture.lines : TrueLine(l.from, l.to) \/ TrueLine(l.to, l.from)
             /\ \A r \in DOMAIN picture.colour :
                  picture.colour[r] = "red" =>
                    \E b \in Branch : /\ participants[b][r] # Votes!Absent
                                      /\ participants[b][r].xaException
<1> DEFINE picture == Picture(GraphOf(json), S)
<1>1. ASSUME NEW l \in picture.lines
      PROVE  TrueLine(l.from, l.to) \/ TrueLine(l.to, l.from)
  <2>1. Adjacent(json, l.from, l.to)
    BY LinesAre
  <2>2. PICK a, z :
          /\ a \in Branch \cap Ids(json)
          /\ {l.from, l.to} = {a, z}
          /\ z \in ParticipantsOf(a) \/ (z \in Branch /\ Caller[z] = a)
    BY <2>1, NeighboursAre
  <2>3. TrueLine(a, z)
    BY <2>2 DEF TrueLine, Kept, ParticipantsOf
  <2>4. (l.from = a /\ l.to = z) \/ (l.from = z /\ l.to = a)
    BY <2>2
  <2> QED
    BY <2>3, <2>4
<1>2. ASSUME NEW r \in DOMAIN picture.colour, picture.colour[r] = "red"
      PROVE  \E b \in Branch : participants[b][r] # Votes!Absent /\ participants[b][r].xaException
  <2>1. picture.colour = [x \in S |-> BeforePlotNode(GraphOf(json).data[x])]
    BY DEF Picture
  <2>2. r \in S /\ BeforePlotNode(GraphOf(json).data[r]) = "red"
    BY <1>2, <2>1
  <2>3. GraphOf(json).data[r].xaException
    BY <2>2 DEF BeforePlotNode
  <2>4. CASE r \notin Branch
    <3>1. PICK a \in Branch \cap Ids(json) :
            r \in ParticipantsOf(a) /\ GraphOf(json).data[r] = ParticipantNode(a, r).data
      BY <2>2, <2>4, DataIs
    <3>2. loaded[a].participants[r].xaException
      BY <2>3, <3>1 DEF ParticipantNode
    <3> QED
      BY <3>1, <3>2 DEF Kept
  <2>5. CASE r \in Branch
    <3>1. PICK i \in DOMAIN json : json[i].id = r /\ GraphOf(json).data[r] = json[i].data
      BY <2>2, DataOfNode
    <3>2. \E up : json[i] = TransactionNode(r, up)
      <4>1. CASE i = 1
        BY <3>1, <4>1, FirstOfPage DEF TransactionNode
      <4>2. CASE i # 1
        <5>1. i \in 2 .. Len(json)
          BY <4>2, FirstOfPage
        <5> QED
          BY <2>5, <3>1, <5>1, NodeOfPage
      <4> QED
        BY <4>1, <4>2
    <3> QED
      BY <2>3, <3>1, <3>2 DEF TransactionNode
  <2> QED
    BY <2>4, <2>5
<1> HIDE DEF picture
<1> QED
  BY <1>1, <1>2 DEF picture

\* Whatever branches share resources, what is painted was true when it was read
\* and is not taken back: the ends of a line are a branch and what it called or
\* enlisted, a red resource has refused in some branch
\* (GraphPlotterBean:106-135, infoviz-graph.js:84-98).
THEOREM PictureTrueCorrect == Spec => []PictureTrue
<1>1. PInv /\ Kept => PictureTrue
  <2> SUFFICES ASSUME PInv, Kept, NEW i \in DOMAIN plots
               PROVE  LET picture == plots[i].canvas
                      IN  /\ \A l \in picture.lines :
                               TrueLine(l.from, l.to) \/ TrueLine(l.to, l.from)
                          /\ \A r \in DOMAIN picture.colour :
                               picture.colour[r] = "red" =>
                                 \E b \in Branch : /\ participants[b][r] # Votes!Absent
                                                   /\ participants[b][r].xaException
    BY DEF PictureTrue
  <2>1. step = "shown"
    <3> SUFFICES ASSUME step # "shown" PROVE FALSE
      OBVIOUS
    <3>1. plots = <<>>
      BY DEF PInv, Page
    <3> QED
      BY <3>1
  <2> DEFINE G == GraphOf(json)
             picture == plots[i].canvas
  <2>2. picture \in {Blank, Picture(G, {G.root}), Picture(G, Drawn(G))}
    <3>1. plots[i] \in Plot
      BY DEF PInv, PlotsTyped
    <3> QED
      BY <3>1 DEF Plot
  <2> HIDE DEF picture, G
  <2>3. CASE picture = Blank
    <3>1. picture.lines = {} /\ DOMAIN picture.colour = {}
      BY <2>3 DEF Blank
    <3> QED
      BY <3>1 DEF picture
  <2>4. ASSUME NEW S \in SUBSET Ids(json), picture = Picture(G, S)
        PROVE  /\ \A l \in picture.lines :
                    TrueLine(l.from, l.to) \/ TrueLine(l.to, l.from)
               /\ \A r \in DOMAIN picture.colour :
                    picture.colour[r] = "red" =>
                      \E b \in Branch : /\ participants[b][r] # Votes!Absent
                                        /\ participants[b][r].xaException
    BY <2>1, <2>4, PictureOfPage DEF G
  <2>5. {G.root} \in SUBSET Ids(json) /\ Drawn(G) \in SUBSET Ids(json)
    BY <2>1, DrawnOfPage DEF G
  <2> QED
    BY <2>2, <2>3, <2>4, <2>5 DEF picture
<1> QED
  BY <1>1, KeptInvariant, PTL

\* A branch that is there is as many steps below the root of its page as there
\* are callers in its breadcrumbs, or fewer.
LEMMA HeightBound ==
  ASSUME PInv, Kept, step = "shown", NEW b \in Branch \cap Ids(json), Rows!There(b)
  PROVE  Depth[b] - Depth[top] <= Cardinality(Ancestors(b))
<1>0. /\ TablesTyped /\ LinksTrue
      /\ top \in Branch
      /\ \A a \in Branch \cap Ids(json) : Depth[a] >= Depth[top]
  BY FirstOfPage DEF PInv, RInv, Page, PageTree
<1>1. \A a \in Branch : Depth[a] \in Nat
  BY DepthIs
<1>2. /\ Ancestors(b) \subseteq Branch
      /\ \A a \in Ancestors(b) : Rows!There(a)
      /\ \A a \in Ancestors(b) \cup {b} : Rows!Linked(a) => Caller[a] \in Ancestors(b)
  BY <1>0, AncestorsAre
<1> DEFINE n == Depth[b] - Depth[top]
           Crumb(a) == a \in (Ancestors(b) \cup {b}) \cap Ids(json) /\ Rows!There(a)
<1>3. n \in Nat
  BY <1>0, <1>1
<1>4. ASSUME NEW a, Crumb(a), a # top
      PROVE  Crumb(Caller[a]) /\ Caller[a] \in Ancestors(b) /\ Depth[a] = Depth[Caller[a]] + 1
  <2>1. PICK i \in DOMAIN json : json[i].id = a
    BY <1>4 DEF Ids
  <2>2. i # 1
    BY <1>4, <2>1, FirstOfPage DEF TransactionNode
  <2>3. i \in 2 .. Len(json) /\ a \in Branch
    BY <1>2, <1>4, <2>2, FirstOfPage
  <2>4. PICK c \in Branch \cap Ids(json) :
          \/ \E r \in ParticipantsOf(c) : json[i].id = r /\ r \notin Branch
          \/ json[i].id \in loaded[c].subordinates /\ Caller[json[i].id] = c
    BY <2>3, NodeOfPage
  <2>5. a \in loaded[c].subordinates /\ Caller[a] = c
    BY <2>1, <2>3, <2>4
  <2>6. a \in subordinates[c]
    BY <1>4, <2>5 DEF Kept
  <2>7. Rows!Linked(a)
    BY <2>6 DEF Rows!Linked
  <2>8. c \in Ancestors(b) /\ Rows!There(c)
    BY <1>2, <1>4, <2>5, <2>7
  <2>9. Depth[a] = Depth[c] + 1
    BY <2>3, <2>5, DepthIs, TxGraphAssumption DEF TxGraphAssumption
  <2> QED
    BY <2>5, <2>8, <2>9
<1> DEFINE Climbs(k) == \E a \in Branch : Crumb(a) /\ Depth[a] = Depth[b] - k
           T == {k \in 0 .. n : ~ Climbs(k)}
<1>5. \A k \in 0 .. n : Climbs(k)
  <2> SUFFICES ASSUME T # {} PROVE FALSE
    OBVIOUS
  <2>0. T \in SUBSET Nat
    BY <1>3
  <2> HIDE DEF T
  <2>1. PICK k \in T : \A m \in T : k <= m
    BY <2>0, LeastNat
  <2>2. k \in 0 .. n /\ ~ Climbs(k) /\ k - 1 \notin T
    BY <2>0, <2>1 DEF T
  <2>3. CASE k = 0
    <3>1. Climbs(0)
      BY <1>1
    <3> QED
      BY <2>2, <2>3, <3>1
  <2>4. CASE k # 0
    <3>1. k - 1 \in 0 .. n
      BY <1>3, <2>2, <2>4
    <3>2. Climbs(k - 1)
      <4> HIDE DEF Climbs
      <4> QED
        BY <2>2, <3>1 DEF T
    <3>3. PICK a \in Branch : Crumb(a) /\ Depth[a] = Depth[b] - (k - 1)
      BY <3>2
    <3>4. a # top
      <4>1. Depth[top] # Depth[b] - (k - 1)
        BY <1>0, <1>1, <1>3, <2>2
      <4> QED
        BY <3>3, <4>1
    <3>5. Crumb(Caller[a]) /\ Caller[a] \in Branch /\ Depth[a] = Depth[Caller[a]] + 1
      <4> HIDE DEF Crumb
      <4> QED
        BY <1>2, <1>4, <3>3, <3>4
    <3>6. Depth[Caller[a]] = Depth[b] - k
      BY <1>1, <1>3, <2>2, <3>3, <3>5
    <3> HIDE DEF Crumb
    <3> QED
      BY <2>2, <3>5, <3>6
  <2> QED
    BY <2>3, <2>4
<1>6. \A m \in Depth[top] .. Depth[b] - 1 : \E a \in Ancestors(b) : Depth[a] = m
  <2> SUFFICES ASSUME NEW m \in Depth[top] .. Depth[b] - 1
               PROVE  \E a \in Ancestors(b) : Depth[a] = m
    OBVIOUS
  <2>1. Depth[b] - m \in 0 .. n /\ Depth[b] - (Depth[b] - m) = m /\ m < Depth[b]
    BY <1>0, <1>1
  <2>2. PICK a \in Branch : Crumb(a) /\ Depth[a] = m
    <3>1. Climbs(Depth[b] - m)
      <4> HIDE DEF Climbs, n
      <4> QED
        BY <1>5, <2>1
    <3> HIDE DEF Crumb
    <3> QED
      BY <2>1, <3>1
  <2>3. a # b
    BY <1>1, <2>1, <2>2
  <2> QED
    BY <2>2, <2>3
<1> DEFINE A == {a \in Ancestors(b) : Depth[a] \in Depth[top] .. Depth[b] - 1}
           I == Depth[top] .. Depth[b] - 1
           f == [a \in A |-> Depth[a]]
<1>7. IsFiniteSet(Ancestors(b))
  BY <1>2, FS_Subset, TxGraphAssumption DEF TxGraphAssumption
<1>8. IsFiniteSet(A) /\ Cardinality(A) <= Cardinality(Ancestors(b))
  BY <1>7, FS_Subset
<1>9. f \in Surjection(A, I)
  BY <1>6 DEF Surjection
<1>10. Cardinality(I) <= Cardinality(A)
  <2> HIDE DEF A, I, f
  <2> QED
    BY <1>8, <1>9, FS_Surjection
<1>11. Cardinality(I) = n
  <2>1. Depth[top] \in Int /\ Depth[b] - 1 \in Int
    BY <1>0, <1>1
  <2>2. Cardinality(I) = IF Depth[top] > Depth[b] - 1 THEN 0 ELSE (Depth[b] - 1) - Depth[top] + 1
    BY <2>1, FS_Interval
  <2> QED
    BY <1>0, <1>1, <2>2
<1>12. Cardinality(A) \in Nat /\ Cardinality(Ancestors(b)) \in Nat
  BY <1>7, <1>8, FS_CardinalityType
<1> HIDE DEF A, I, f
<1> QED
  BY <1>3, <1>8, <1>10, <1>11, <1>12

\* Whatever branches share resources, a finished picture has a node for every
\* participant the page knows of, as far as LevelsToShow reaches, on a line from
\* a branch with a participant of its name, in the colour of the record of such
\* a branch (GraphPlotterBean:120-130, infoviz-graph.js:84-98).
THEOREM ParticipantsPlottedCorrect == Spec => []ParticipantsPlotted
<1>1. PInv /\ Kept => ParticipantsPlotted
  <2> SUFFICES ASSUME PInv, Kept, NEW i \in DOMAIN plots, NEW b \in PlottedBranches,
                      plots[i].stage = "done", NEW r \in InReach(b)
               PROVE  LET picture == plots[i].canvas
                      IN  /\ \E l \in picture.lines : l.from \in PlottedWith(r) /\ l.to = r
                          /\ \E a \in PlottedWith(r) : ColouredBy(picture, r, a)
    BY DEF ParticipantsPlotted, Shown
  <2> DEFINE G == GraphOf(json)
             S == Drawn(G)
             L == Levels(json)
  <2>1. step = "shown"
    <3> SUFFICES ASSUME step # "shown" PROVE FALSE
      OBVIOUS
    <3>1. plots = <<>>
      BY DEF PInv, Page
    <3> QED
      BY <3>1
  <2>2. plots[i].canvas = Picture(G, S)
    BY DEF PInv, PlotsTyped
  <2>3. /\ b \in Branch \cap Ids(json) /\ r \in ParticipantsOf(b)
        /\ Cardinality(Ancestors(b)) + 1 <= LevelsToShow
    BY PlottedIs DEF InReach
  <2>4. /\ r \in Ids(json) /\ r \in Resource /\ r \notin Branch /\ r # RootOf(json)
        /\ Adjacent(json, b, r)
    BY <2>1, <2>3, ParticipantOfPage
  <2>5. Rows!There(b)
    BY <2>3, <2>4 DEF Kept
  <2>6. /\ \A x \in Ids(json) : L[x] \in Nat
        /\ L[b] <= Height[b] /\ L[r] <= L[b] + 1
        /\ \E y \in Ids(json) : Adjacent(json, y, r) /\ L[y] < L[r]
    <3>1. PathLengths(json, Height)
      BY <2>1, JsonPaths
    <3> QED
      BY <2>3, <2>4, <3>1, LevelsAre
  <2>7. L[r] <= LevelsToShow
    <3>1. Depth[b] - Depth[top] <= Cardinality(Ancestors(b))
      BY <2>1, <2>3, <2>5, HeightBound
    <3>2. Height[b] = Depth[b] - Depth[top]
      BY <2>3 DEF Height
    <3>3. /\ Depth[b] \in Nat /\ Depth[top] \in Nat /\ LevelsToShow \in Nat
          /\ Cardinality(Ancestors(b)) \in Nat
      <4>1. top \in Branch
        BY <2>1, FirstOfPage
      <4>2. Ancestors(b) \subseteq Branch
        BY <2>3, AncestorsAre DEF PInv, RInv
      <4>3. IsFiniteSet(Ancestors(b))
        BY <4>2, FS_Subset, TxGraphAssumption DEF TxGraphAssumption
      <4> QED
        BY <2>3, <4>1, <4>3, DepthIs, FS_CardinalityType, SpacetreeAssumption
           DEF SpacetreeAssumption
    <3> HIDE DEF L
    <3> QED
      BY <2>3, <2>4, <2>6, <3>1, <3>2, <3>3
  <2>8. PICK y \in Ids(json) : Adjacent(json, y, r) /\ L[y] < L[r]
    BY <2>6
  <2>9. y \in PlottedWith(r)
    <3>1. PICK a, z :
            /\ a \in Branch \cap Ids(json)
            /\ {y, r} = {a, z}
            /\ z \in ParticipantsOf(a) \/ (z \in Branch /\ Caller[z] = a)
      BY <2>1, <2>8, NeighboursAre
    <3>2. y = a /\ z = r
      BY <2>4, <3>1
    <3> QED
      BY <2>4, <3>1, <3>2, PlottedIs DEF PlottedWith
  <2>10. y \in S /\ r \in S /\ S \in SUBSET Ids(json)
    <3>1. S = {x \in Ids(json) : L[x] <= LevelsToShow}
      BY <2>1, DrawnOfPage
    <3>2. L[y] <= LevelsToShow
      <4> HIDE DEF L
      <4>1. LevelsToShow \in Nat
        BY SpacetreeAssumption DEF SpacetreeAssumption
      <4> QED
        BY <2>4, <2>6, <2>7, <2>8, <4>1
    <3> HIDE DEF S, L
    <3> QED
      BY <2>4, <2>7, <3>1, <3>2
  <2>11. \E l \in Picture(G, S).lines : l.from = y /\ l.to = r
    <3>1. L[r] > L[y]
      <4> HIDE DEF L
      <4> QED
        BY <2>4, <2>6, <2>8
    <3> HIDE DEF S
    <3> QED
      BY <2>8, <2>10, <3>1, LinesAre
  <2>12. PICK a \in Branch \cap Ids(json) :
           r \in ParticipantsOf(a) /\ G.data[r] = ParticipantNode(a, r).data
    BY <2>1, <2>4, DataIs
  <2>13. a \in PlottedWith(r)
    BY <2>12, PlottedIs DEF PlottedWith
  <2>14. Picture(G, S).colour[r] =
           IF loaded[a].participants[r].xaException THEN "red"
           ELSE IF loaded[a].participants[r].vote = "COMMIT" THEN "green" ELSE "blue"
    <3>1. Picture(G, S).colour[r] = BeforePlotNode(ParticipantNode(a, r).data)
      <4> HIDE DEF S, G
      <4> QED
        BY <2>10, <2>12 DEF Picture
    <3> QED
      BY <3>1 DEF BeforePlotNode, ParticipantNode
  <2> HIDE DEF S, G
  <2>15. ColouredBy(Picture(G, S), r, a)
    BY <2>14 DEF ColouredBy
  <2> QED
    BY <2>2, <2>9, <2>11, <2>13, <2>15
<1> QED
  BY <1>1, KeptInvariant, PTL

=============================================================================

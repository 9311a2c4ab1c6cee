----------------------------- MODULE FlowProofs -----------------------------
(***************************************************************************)
(* The invariant Inv of module Flow is inductive, for every set of groups  *)
(* and any number of nodes, edges, messages and forwards.  The first part  *)
(* counts the places of a message in sequences and in families of them;    *)
(* then one lemma per action shows that Inv is kept, and the theorems say  *)
(* what follows.                                                           *)
(*                                                                         *)
(* The last part is about the queues that connect the nodes: module Queue  *)
(* implements module Channel.                                              *)
(***************************************************************************)
EXTENDS Flow, Queue, FiniteSetTheorems, SequenceTheorems, TLAPS

-----------------------------------------------------------------------------
(* Counting places *)

\* The image of a finite set under an injection has as many elements.
LEMMA ImageFacts ==
  ASSUME NEW S, IsFiniteSet(S), NEW f, f = [x \in S |-> f[x]]
  PROVE  /\ IsFiniteSet({f[x] : x \in S})
         /\ (\A x, y \in S : f[x] = f[y] => x = y)
              => Cardinality({f[x] : x \in S}) = Cardinality(S)
  <1> DEFINE T == {f[x] : x \in S}
  <1>1. f \in Surjection(S, T)
    BY DEF Surjection
  <1>2. (\A x, y \in S : f[x] = f[y] => x = y) => f \in Injection(S, T)
    BY <1>1 DEF Injection, IsInjective, Surjection
  <1> QED BY <1>1, <1>2, FS_Surjection

LEMMA DisjointUnion ==
  ASSUME NEW S, NEW T, IsFiniteSet(S), IsFiniteSet(T), S \cap T = {}
  PROVE  /\ IsFiniteSet(S \cup T)
         /\ Cardinality(S \cup T) = Cardinality(S) + Cardinality(T)
  <1>1. /\ IsFiniteSet(S \cup T)
        /\ Cardinality(S \cup T) = Cardinality(S) + Cardinality(T) - Cardinality(S \cap T)
    BY FS_Union
  <1>2. Cardinality(S \cap T) = 0
    BY FS_EmptySet
  <1>3. Cardinality(S) \in Nat /\ Cardinality(T) \in Nat
    BY FS_CardinalityType
  <1> QED BY <1>1, <1>2, <1>3

LEMMA AtFinite ==
  ASSUME NEW S, NEW s \in Seq(S), NEW m
  PROVE  /\ IsFiniteSet(At(s, m)) /\ Cardinality(At(s, m)) \in Nat
         /\ Cardinality(At(s, m)) = 0 <=> At(s, m) = {}
         /\ At(s, m) \subseteq 1 .. Len(s)
  <1>1. At(s, m) \in SUBSET (1 .. Len(s)) /\ Len(s) \in Nat
    BY DEF At
  <1>2. IsFiniteSet(1 .. Len(s))
    BY <1>1, FS_Interval
  <1>3. IsFiniteSet(At(s, m))
    BY <1>1, <1>2, FS_Subset
  <1> QED BY <1>1, <1>3, FS_CardinalityType, FS_EmptySet

LEMMA AtEmpty ==
  ASSUME NEW m
  PROVE  At(<<>>, m) = {} /\ Cardinality(At(<<>>, m)) = 0
  <1>1. At(<<>>, m) = {}
    BY DEF At
  <1> QED BY <1>1, FS_EmptySet

LEMMA AtConcat ==
  ASSUME NEW S, NEW s \in Seq(S), NEW t \in Seq(S), NEW m
  PROVE  Cardinality(At(s \o t, m)) = Cardinality(At(s, m)) + Cardinality(At(t, m))
  <1> DEFINE f == [i \in At(t, m) |-> i + Len(s)]
             R == {f[i] : i \in At(t, m)}
  <1>1. /\ IsFiniteSet(At(s, m)) /\ IsFiniteSet(At(t, m))
        /\ At(s, m) \subseteq 1 .. Len(s) /\ At(t, m) \subseteq 1 .. Len(t)
        /\ Len(s) \in Nat /\ Len(t) \in Nat
    BY AtFinite
  <1>2. IsFiniteSet(R) /\ Cardinality(R) = Cardinality(At(t, m))
    <2>1. f = [i \in At(t, m) |-> f[i]]
      OBVIOUS
    <2>2. \A i, j \in At(t, m) : f[i] = f[j] => i = j
      BY <1>1
    <2> HIDE DEF f
    <2> QED BY <1>1, <2>1, <2>2, ImageFacts
  <1>3. At(s \o t, m) = At(s, m) \cup R
    <2>1. /\ s \o t \in Seq(S) /\ Len(s \o t) = Len(s) + Len(t)
          /\ \A i \in 1 .. Len(s) + Len(t) :
               (s \o t)[i] = IF i <= Len(s) THEN s[i] ELSE t[i - Len(s)]
      OBVIOUS
    <2>2. DOMAIN (s \o t) = 1 .. Len(s) + Len(t)
      BY <1>1, <2>1
    <2>3. ASSUME NEW i \in At(s \o t, m)
          PROVE  i \in At(s, m) \cup R
      <3>1. i \in 1 .. Len(s) + Len(t) /\ (s \o t)[i] = m
        BY <2>2 DEF At
      <3>2. CASE i <= Len(s)
        <4>1. i \in 1 .. Len(s) /\ s[i] = m
          BY <1>1, <2>1, <3>1, <3>2
        <4> QED BY <4>1 DEF At
      <3>3. CASE ~ (i <= Len(s))
        <4>1. i - Len(s) \in 1 .. Len(t) /\ t[i - Len(s)] = m
          BY <1>1, <2>1, <3>1, <3>3
        <4>2. i - Len(s) \in At(t, m)
          BY <4>1 DEF At
        <4>3. f[i - Len(s)] = i
          BY <1>1, <3>1, <4>2
        <4> QED BY <4>2, <4>3
      <3> QED BY <3>2, <3>3
    <2>4. ASSUME NEW i \in At(s, m)
          PROVE  i \in At(s \o t, m)
      <3>1. i \in 1 .. Len(s) /\ s[i] = m
        BY DEF At
      <3>2. i \in 1 .. Len(s) + Len(t) /\ (s \o t)[i] = m
        BY <1>1, <2>1, <3>1
      <3> QED BY <2>2, <3>2 DEF At
    <2>5. ASSUME NEW i \in At(t, m)
          PROVE  i + Len(s) \in At(s \o t, m)
      <3>1. i \in 1 .. Len(t) /\ t[i] = m
        BY DEF At
      <3>2. i + Len(s) \in 1 .. Len(s) + Len(t) /\ ~ (i + Len(s) <= Len(s)) /\ i + Len(s) - Len(s) = i
        BY <1>1, <3>1
      <3>3. (s \o t)[i + Len(s)] = m
        BY <2>1, <3>1, <3>2
      <3> QED BY <2>2, <3>2, <3>3 DEF At
    <2> QED BY <2>3, <2>4, <2>5
  <1>4. At(s, m) \cap R = {}
    BY <1>1
  <1> HIDE DEF R
  <1>5. Cardinality(At(s, m) \cup R) = Cardinality(At(s, m)) + Cardinality(R)
    BY <1>1, <1>2, <1>4, DisjointUnion
  <1> QED BY <1>2, <1>3, <1>5

LEMMA AtAppend ==
  ASSUME NEW S, NEW s \in Seq(S), NEW x \in S, NEW m
  PROVE  /\ At(Append(s, x), m) = IF x = m THEN At(s, m) \cup {Len(s) + 1} ELSE At(s, m)
         /\ Cardinality(At(Append(s, x), m)) = Cardinality(At(s, m)) + (IF x = m THEN 1 ELSE 0)
  <1>1. /\ IsFiniteSet(At(s, m)) /\ Cardinality(At(s, m)) \in Nat
        /\ At(s, m) \subseteq 1 .. Len(s) /\ Len(s) \in Nat
    BY AtFinite
  <1>2. At(Append(s, x), m) = IF x = m THEN At(s, m) \cup {Len(s) + 1} ELSE At(s, m)
    BY DEF At
  <1>3. Len(s) + 1 \notin At(s, m)
    BY <1>1
  <1>4. Cardinality(At(s, m) \cup {Len(s) + 1}) = Cardinality(At(s, m)) + 1
    BY <1>1, <1>3, FS_AddElement
  <1> QED BY <1>1, <1>2, <1>4

LEMMA AtTail ==
  ASSUME NEW S, NEW s \in Seq(S), s # <<>>, NEW m
  PROVE  Cardinality(At(s, m)) = Cardinality(At(Tail(s), m)) + (IF Head(s) = m THEN 1 ELSE 0)
  <1>1. PICK a, t, o, e : a = Head(s) /\ t = Tail(s) /\ o = <<a>> /\ e = <<>>
    OBVIOUS
  <1>2. a \in S /\ t \in Seq(S) /\ o \in Seq(S) /\ e \in Seq(S) /\ o = Append(e, a) /\ s = o \o t
    BY <1>1
  <1>3. Cardinality(At(s, m)) = Cardinality(At(o, m)) + Cardinality(At(t, m))
    BY <1>2, AtConcat
  <1>4. Cardinality(At(o, m)) = Cardinality(At(e, m)) + (IF a = m THEN 1 ELSE 0)
    BY <1>2, AtAppend
  <1>5. Cardinality(At(e, m)) = 0 /\ Cardinality(At(t, m)) \in Nat
    BY <1>1, <1>2, AtEmpty, AtFinite
  <1> QED BY <1>1, <1>3, <1>4, <1>5


\* The places of a message in one sequence of a family.
LEMMA SliceFacts ==
  ASSUME NEW A, IsFiniteSet(A), NEW x
  PROVE  /\ IsFiniteSet({<<x, i>> : i \in A})
         /\ Cardinality({<<x, i>> : i \in A}) = Cardinality(A)
  <1> DEFINE f == [i \in A |-> <<x, i>>]
  <1>1. f = [i \in A |-> f[i]] /\ {f[i] : i \in A} = {<<x, i>> : i \in A}
    OBVIOUS
  <1>2. \A i, j \in A : f[i] = f[j] => i = j
    OBVIOUS
  <1> HIDE DEF f
  <1> QED BY <1>1, <1>2, ImageFacts

LEMMA PlacesIn ==
  ASSUME NEW f, NEW m, NEW x, NEW i
  PROVE  <<x, i>> \in Places(f, m) <=> x \in DOMAIN f /\ i \in At(f[x], m)
  BY DEF Places

LEMMA PlacesFinite ==
  ASSUME NEW S, NEW f, IsFiniteSet(DOMAIN f), \A x \in DOMAIN f : f[x] \in Seq(S), NEW m
  PROVE  /\ IsFiniteSet(Places(f, m)) /\ Cardinality(Places(f, m)) \in Nat
         /\ Cardinality(Places(f, m)) = 0 <=> \A x \in DOMAIN f : At(f[x], m) = {}
  <1> DEFINE D == DOMAIN f
             h == [x \in D |-> {<<x, i>> : i \in At(f[x], m)}]
             F == {h[x] : x \in D}
  <1>1. h = [x \in D |-> h[x]]
    OBVIOUS
  <1>2. ASSUME NEW x \in D PROVE IsFiniteSet(h[x])
    <2>1. IsFiniteSet(At(f[x], m))
      BY AtFinite
    <2>2. IsFiniteSet({<<x, i>> : i \in At(f[x], m)})
      BY <2>1, SliceFacts
    <2> QED BY <2>2
  <1>3. Places(f, m) = UNION F
    BY DEF Places
  <1>4. IsFiniteSet(F)
    <2> HIDE DEF h
    <2> QED BY <1>1, ImageFacts
  <1>5. IsFiniteSet(UNION F)
    <2>1. \A T \in F : IsFiniteSet(T)
      BY <1>2
    <2> HIDE DEF F
    <2> QED BY <1>4, <2>1, FS_UNION
  <1>6. Places(f, m) = {} <=> \A x \in DOMAIN f : At(f[x], m) = {}
    <2>1. Places(f, m) = {} => \A x \in DOMAIN f : At(f[x], m) = {}
      BY PlacesIn
    <2>2. (\A x \in DOMAIN f : At(f[x], m) = {}) => Places(f, m) = {}
      BY DEF Places
    <2> QED BY <2>1, <2>2
  <1> QED BY <1>3, <1>5, <1>6, FS_CardinalityType, FS_EmptySet

\* One sequence of a family is replaced.
Replaces(S, D, f, x, s, g) ==
  IsFiniteSet(D) /\ f \in [D -> Seq(S)] /\ x \in D /\ s \in Seq(S) /\ g = [f EXCEPT ![x] = s]

LEMMA PlacesReplaced ==
  ASSUME NEW S, NEW D, NEW f, NEW x, NEW s, NEW g, Replaces(S, D, f, x, s, g), NEW m
  PROVE  Cardinality(Places(g, m)) + Cardinality(At(f[x], m))
           = Cardinality(Places(f, m)) + Cardinality(At(s, m))
  <1>0. /\ DOMAIN f = D /\ DOMAIN g = D /\ g[x] = s
        /\ \A y \in D : f[y] \in Seq(S)
        /\ \A y \in D \ {x} : g[y] = f[y]
        /\ IsFiniteSet(D) /\ x \in D /\ s \in Seq(S)
    BY DEF Replaces
  <1> DEFINE sf == {<<x, i>> : i \in At(f[x], m)}
             sg == {<<x, i>> : i \in At(s, m)}
             R == Places(f, m) \ sf
  <1>1. /\ IsFiniteSet(sf) /\ Cardinality(sf) = Cardinality(At(f[x], m))
        /\ IsFiniteSet(sg) /\ Cardinality(sg) = Cardinality(At(s, m))
        /\ Cardinality(sf) \in Nat /\ Cardinality(sg) \in Nat
    <2>1. /\ IsFiniteSet(At(f[x], m)) /\ Cardinality(At(f[x], m)) \in Nat
          /\ IsFiniteSet(At(s, m)) /\ Cardinality(At(s, m)) \in Nat
      BY <1>0, AtFinite
    <2> QED BY <2>1, SliceFacts
  <1>2. IsFiniteSet(R) /\ Cardinality(R) \in Nat
    <2>1. IsFiniteSet(Places(f, m))
      BY <1>0, PlacesFinite
    <2> QED BY <2>1, FS_Difference, FS_CardinalityType
  <1>3. R = {p \in Places(f, m) : p[1] # x}
    <2>1. \A p \in Places(f, m) : \E y \in D : \E i \in At(f[y], m) : p = <<y, i>>
      BY <1>0 DEF Places
    <2>2. \A p \in Places(f, m) : p \in sf <=> p[1] = x
      <3> SUFFICES ASSUME NEW p \in Places(f, m) PROVE p \in sf <=> p[1] = x
        OBVIOUS
      <3>1. PICK y \in D : \E i \in At(f[y], m) : p = <<y, i>>
        BY <2>1
      <3>2. PICK i \in At(f[y], m) : p = <<y, i>>
        BY <3>1
      <3> QED BY <3>2
    <2> QED BY <2>2
  <1>4. Places(f, m) = R \cup sf /\ R \cap sf = {}
    <2>1. sf \subseteq Places(f, m)
      BY <1>0, PlacesIn
    <2> QED BY <2>1
  <1>5. Places(g, m) = R \cup sg /\ R \cap sg = {}
    <2>1. ASSUME NEW p \in Places(g, m)
          PROVE  p \in R \cup sg
      <3>1. PICK y \in D : \E i \in At(g[y], m) : p = <<y, i>>
        BY <1>0 DEF Places
      <3>2. PICK i \in At(g[y], m) : p = <<y, i>>
        BY <3>1
      <3>3. CASE y = x
        BY <1>0, <3>2, <3>3
      <3>4. CASE y # x
        <4>1. i \in At(f[y], m)
          BY <1>0, <3>2, <3>4
        <4>2. <<y, i>> \in Places(f, m)
          BY <1>0, <4>1, PlacesIn
        <4>3. p \in Places(f, m) /\ p[1] # x
          BY <3>2, <3>4, <4>2
        <4> HIDE DEF R
        <4> QED BY <1>3, <4>3
      <3> QED BY <3>3, <3>4
    <2>2. ASSUME NEW p \in R
          PROVE  p \in Places(g, m) /\ p \notin sg
      <3>1. p \in Places(f, m) /\ p[1] # x
        BY <1>3
      <3>2. PICK y \in D : \E i \in At(f[y], m) : p = <<y, i>>
        BY <1>0, <3>1 DEF Places
      <3>3. PICK i \in At(f[y], m) : p = <<y, i>>
        BY <3>2
      <3>4. y # x /\ i \in At(g[y], m)
        BY <1>0, <3>1, <3>3
      <3>5. <<y, i>> \in Places(g, m)
        BY <1>0, <3>4, PlacesIn
      <3> QED BY <3>1, <3>3, <3>5
    <2>3. sg \subseteq Places(g, m)
      <3> SUFFICES ASSUME NEW i \in At(s, m) PROVE <<x, i>> \in Places(g, m)
        OBVIOUS
      <3>1. x \in DOMAIN g /\ i \in At(g[x], m)
        BY <1>0
      <3> QED BY <3>1, PlacesIn
    <2> HIDE DEF R, sg
    <2> QED BY <2>1, <2>2, <2>3
  <1> HIDE DEF sf, sg, R
  <1>6. Cardinality(Places(f, m)) = Cardinality(R) + Cardinality(sf)
    BY <1>1, <1>2, <1>4, DisjointUnion
  <1>7. Cardinality(Places(g, m)) = Cardinality(R) + Cardinality(sg)
    BY <1>1, <1>2, <1>5, DisjointUnion
  <1> QED BY <1>1, <1>2, <1>6, <1>7

\* A message is put at the end of some of the sequences.
Pushes(S, D, f, T, a, g) ==
  /\ IsFiniteSet(D) /\ f \in [D -> Seq(S)] /\ T \in SUBSET D /\ a \in S
  /\ g = [y \in D |-> IF y \in T THEN Append(f[y], a) ELSE f[y]]

LEMMA PlacesPushed ==
  ASSUME NEW S, NEW D, NEW f, NEW T, NEW a, NEW g, Pushes(S, D, f, T, a, g), NEW m
  PROVE  Cardinality(Places(g, m)) = Cardinality(Places(f, m)) + (IF a = m THEN Cardinality(T) ELSE 0)
  <1> DEFINE h == [y \in T |-> <<y, Len(f[y]) + 1>>]
             N == {h[y] : y \in T}
  <1>0. /\ IsFiniteSet(D) /\ DOMAIN f = D /\ T \in SUBSET D /\ a \in S
        /\ \A y \in D : f[y] \in Seq(S)
    BY DEF Pushes
  <1>1. IsFiniteSet(T) /\ Cardinality(T) \in Nat
    BY <1>0, FS_Subset, FS_CardinalityType
  <1>2. IsFiniteSet(N) /\ Cardinality(N) = Cardinality(T)
    <2>1. h = [y \in T |-> h[y]]
      OBVIOUS
    <2>2. \A y, z \in T : h[y] = h[z] => y = z
      OBVIOUS
    <2> HIDE DEF h
    <2>3. IsFiniteSet(N) /\ ((\A y, z \in T : h[y] = h[z] => y = z) => Cardinality(N) = Cardinality(T))
      BY <1>1, <2>1, ImageFacts, Zenon
    <2> QED BY <2>2, <2>3, Zenon
  <1>3. IsFiniteSet(Places(f, m)) /\ Cardinality(Places(f, m)) \in Nat
    BY <1>0, PlacesFinite
  <1>4. DOMAIN g = D /\ \A y \in D : g[y] = IF y \in T THEN Append(f[y], a) ELSE f[y]
    BY DEF Pushes
  <1>5. ASSUME NEW y \in T
        PROVE  At(Append(f[y], a), m) = IF a = m THEN At(f[y], m) \cup {Len(f[y]) + 1} ELSE At(f[y], m)
    <2>1. PICK s \in Seq(S) : s = f[y]
      BY <1>0
    <2>2. At(Append(s, a), m) = IF a = m THEN At(s, m) \cup {Len(s) + 1} ELSE At(s, m)
      BY <1>0, AtAppend
    <2> QED BY <2>1, <2>2
  <1>6. CASE a = m
    <2>1. Places(f, m) \cap N = {}
      <3> SUFFICES ASSUME NEW y \in T, <<y, Len(f[y]) + 1>> \in Places(f, m) PROVE FALSE
        OBVIOUS
      <3>1. Len(f[y]) + 1 \in At(f[y], m)
        BY <1>0, PlacesIn
      <3>2. Len(f[y]) + 1 \in 1 .. Len(f[y]) /\ Len(f[y]) \in Nat
        BY <1>0, <3>1, AtFinite
      <3> QED BY <3>2
    <2>2. ASSUME NEW p \in Places(g, m)
          PROVE  p \in Places(f, m) \cup N
      <3>1. PICK y \in D : \E i \in At(g[y], m) : p = <<y, i>>
        BY <1>4 DEF Places
      <3>2. PICK i \in At(g[y], m) : p = <<y, i>>
        BY <3>1
      <3>3. CASE i \in At(f[y], m)
        BY <1>0, <3>2, <3>3, PlacesIn
      <3>4. CASE i \notin At(f[y], m)
        <4>1. y \in T /\ i = Len(f[y]) + 1
          BY <1>4, <1>5, <1>6, <3>2, <3>4
        <4> QED BY <3>2, <4>1
      <3> QED BY <3>3, <3>4
    <2>3. ASSUME NEW p \in Places(f, m)
          PROVE  p \in Places(g, m)
      <3>1. PICK y \in D : \E i \in At(f[y], m) : p = <<y, i>>
        BY <1>0 DEF Places
      <3>2. PICK i \in At(f[y], m) : p = <<y, i>>
        BY <3>1
      <3>3. i \in At(g[y], m)
        BY <1>0, <1>4, <1>5, <3>2
      <3> QED BY <1>4, <3>2, <3>3, PlacesIn
    <2>4. ASSUME NEW y \in T
          PROVE  <<y, Len(f[y]) + 1>> \in Places(g, m)
      <3>1. Len(f[y]) + 1 \in At(g[y], m)
        BY <1>0, <1>4, <1>5, <1>6
      <3> QED BY <1>0, <1>4, <3>1, PlacesIn
    <2>5. Places(g, m) = Places(f, m) \cup N
      BY <2>2, <2>3, <2>4
    <2> HIDE DEF N
    <2>6. Cardinality(Places(f, m) \cup N) = Cardinality(Places(f, m)) + Cardinality(N)
      BY <1>2, <1>3, <2>1, DisjointUnion
    <2> QED BY <1>2, <1>6, <2>5, <2>6
  <1>7. CASE a # m
    <2>1. \A y \in D : At(g[y], m) = At(f[y], m)
      BY <1>4, <1>5, <1>7
    <2>2. Places(g, m) = Places(f, m)
      BY <1>0, <1>4, <2>1 DEF Places
    <2> QED BY <1>3, <1>7, <2>2
  <1> QED BY <1>6, <1>7

\* A family gets one more, empty, sequence.
LEMMA PlacesGrown ==
  ASSUME NEW S, NEW f \in Seq(Seq(S)), NEW e, e = <<>>, NEW m
  PROVE  Places(Append(f, e), m) = Places(f, m)
  <1> DEFINE g == Append(f, e)
  <1>1. /\ DOMAIN f = 1 .. Len(f) /\ DOMAIN g = 1 .. Len(f) + 1 /\ Len(f) \in Nat
        /\ \A y \in 1 .. Len(f) : g[y] = f[y]
        /\ g[Len(f) + 1] = e
    OBVIOUS
  <1> HIDE DEF g
  <1>2. At(g[Len(f) + 1], m) = {}
    BY <1>1, AtEmpty
  <1>3. ASSUME NEW p \in Places(g, m)
        PROVE  p \in Places(f, m)
    <2>1. PICK y \in DOMAIN g : \E i \in At(g[y], m) : p = <<y, i>>
      BY DEF Places
    <2>2. PICK i \in At(g[y], m) : p = <<y, i>>
      BY <2>1
    <2>3. y \in DOMAIN f /\ g[y] = f[y]
      BY <1>1, <1>2, <2>2
    <2> QED BY <2>2, <2>3, PlacesIn
  <1>4. ASSUME NEW p \in Places(f, m)
        PROVE  p \in Places(g, m)
    <2>1. PICK y \in DOMAIN f : \E i \in At(f[y], m) : p = <<y, i>>
      BY DEF Places
    <2>2. PICK i \in At(f[y], m) : p = <<y, i>>
      BY <2>1
    <2>3. y \in DOMAIN g /\ g[y] = f[y]
      BY <1>1
    <2> QED BY <2>2, <2>3, PlacesIn
  <1>5. Places(g, m) = Places(f, m)
    BY <1>3, <1>4
  <1> QED BY <1>5 DEF g


-----------------------------------------------------------------------------
(* What TypeOK says of the parts of the state, and which variables the     *)
(* parts of the invariant are about.                                       *)

LEMMA Widened ==
  ASSUME NEW S, NEW T, S \subseteq T, NEW s \in Seq(S)
  PROVE  s \in Seq(T) /\ \A i \in DOMAIN s : s[i] \in S
  OBVIOUS

LEMMA TailFacts ==
  ASSUME NEW S, NEW s \in Seq(S), s # <<>>
  PROVE  /\ Head(s) \in S /\ Tail(s) \in Seq(S)
         /\ Tail(s) # <<>> => Tail(s)[Len(Tail(s))] = s[Len(s)]
  OBVIOUS

LEMMA AsSequence ==
  ASSUME NEW S, NEW n \in Nat, NEW f \in [1 .. n -> S]
  PROVE  f \in Seq(S) /\ Len(f) = n
  OBVIOUS

LEMMA ExceptFacts ==
  ASSUME NEW S, NEW f \in Seq(S), NEW x \in DOMAIN f, NEW v \in S, NEW g, g = [f EXCEPT ![x] = v]
  PROVE  /\ g \in Seq(S) /\ Len(g) = Len(f) /\ DOMAIN g = DOMAIN f
         /\ g[x] = v /\ \A y \in DOMAIN f \ {x} : g[y] = f[y]
  OBVIOUS

LEMMA Domains ==
  ASSUME TypeOK
  PROVE  /\ Nodes = 1 .. Len(group) /\ Edges = 1 .. Len(edges)
         /\ Len(group) \in Nat /\ Len(edges) \in Nat
         /\ IsFiniteSet(Nodes) /\ IsFiniteSet(Edges) /\ IsFiniteSet(Groups) /\ Main \in Groups
         /\ DOMAIN sources = Nodes /\ DOMAIN consumer = Nodes /\ DOMAIN queue = Nodes
         /\ DOMAIN out = Edges /\ DOMAIN logOut = Groups /\ DOMAIN thread = Groups
         /\ MaxMessages \in Nat
  <1>1. /\ Nodes = 1 .. Len(group) /\ Edges = 1 .. Len(edges)
        /\ Len(group) \in Nat /\ Len(edges) \in Nat
        /\ DOMAIN sources = Nodes /\ DOMAIN consumer = Nodes /\ DOMAIN queue = Nodes
        /\ DOMAIN out = Edges /\ DOMAIN logOut = Groups /\ DOMAIN thread = Groups
    BY DEF TypeOK, Nodes, Edges
  <1>2. IsFiniteSet(Nodes) /\ IsFiniteSet(Edges)
    BY <1>1, FS_Interval
  <1> QED BY <1>1, <1>2, FlowAssumption

LEMMA Elements ==
  ASSUME TypeOK
  PROVE  /\ \A n \in Nodes : /\ group[n] \in Groups /\ sources[n] \in Int
                             /\ queue[n] \in Seq(0 .. MaxMessages)
                             /\ consumer[n] \in {"idle", "open", "closed"}
         /\ \A e \in Edges : /\ edges[e].from \in Nodes /\ edges[e].to \in Nodes
                             /\ edges[e] \in [from : Nodes, to : Nodes]
                             /\ out[e] \in Seq(0 .. MaxMessages)
         /\ \A g \in Groups : /\ logOut[g] \in Seq(0 .. MaxMessages) /\ logOut[g] \in Seq(Messages)
                              /\ At(logOut[g], SignOff) = {}
  <1>1. \A n \in Nodes : group[n] \in Groups /\ sources[n] \in Int
    BY DEF TypeOK, Nodes
  <1>2. \A n \in Nodes : queue[n] \in Seq(0 .. MaxMessages)
    <2>1. PICK T : T = Seq(0 .. MaxMessages)
      OBVIOUS
    <2>2. queue \in Seq(T) /\ DOMAIN queue = Nodes
      BY <2>1, Domains DEF TypeOK
    <2> QED BY <2>1, <2>2
  <1>3. \A n \in Nodes : consumer[n] \in {"idle", "open", "closed"}
    BY Domains DEF TypeOK
  <1>4. ASSUME NEW e \in Edges
        PROVE  /\ edges[e].from \in Nodes /\ edges[e].to \in Nodes
               /\ edges[e] \in [from : Nodes, to : Nodes]
    <2>1. PICK T : T = [from : Nodes, to : Nodes]
      OBVIOUS
    <2>2. edges \in Seq(T) /\ e \in DOMAIN edges
      BY <2>1 DEF TypeOK, Edges
    <2>3. edges[e] \in T
      BY <2>2
    <2>4. edges[e] \in [from : Nodes, to : Nodes]
      BY <2>1, <2>3
    <2> QED BY <2>4
  <1>5. \A e \in Edges : out[e] \in Seq(0 .. MaxMessages)
    <2>1. PICK T : T = Seq(0 .. MaxMessages)
      OBVIOUS
    <2>2. out \in Seq(T) /\ DOMAIN out = Edges
      BY <2>1, Domains DEF TypeOK
    <2> QED BY <2>1, <2>2
  <1>6. ASSUME NEW g \in Groups
        PROVE  /\ logOut[g] \in Seq(0 .. MaxMessages) /\ logOut[g] \in Seq(Messages)
               /\ At(logOut[g], SignOff) = {}
    <2>1. logOut[g] \in Seq(1 .. MaxMessages)
      BY DEF TypeOK, Messages
    <2>2. PICK s, S, T : s = logOut[g] /\ S = 1 .. MaxMessages /\ T = 0 .. MaxMessages
      OBVIOUS
    <2>3. s \in Seq(S)
      BY <2>1, <2>2, Zenon
    <2>4. S \subseteq T /\ 0 \notin S
      BY <2>2, FlowAssumption
    <2>5. s \in Seq(T) /\ \A i \in DOMAIN s : s[i] \in S
      BY <2>3, <2>4, Widened
    <2> QED BY <2>1, <2>2, <2>4, <2>5 DEF Messages, At, SignOff
  <1> QED BY <1>1, <1>2, <1>3, <1>4, <1>5, <1>6

\* The four numbers that InQueues adds.
LEMMA CountTypes ==
  ASSUME TypeOK, NEW m
  PROVE  /\ Cardinality(At(logQueue, m)) \in Nat /\ Cardinality(Places(out, m)) \in Nat
         /\ Cardinality(Places(queue, m)) \in Nat /\ Cardinality(Places(logOut, m)) \in Nat
  <1>1. Cardinality(At(logQueue, m)) \in Nat
    BY AtFinite DEF TypeOK
  <1>2. Cardinality(Places(out, m)) \in Nat
    BY Domains, Elements, PlacesFinite
  <1>3. Cardinality(Places(queue, m)) \in Nat
    BY Domains, Elements, PlacesFinite
  <1>4. Cardinality(Places(logOut, m)) \in Nat
    BY Domains, Elements, PlacesFinite
  <1> QED BY <1>1, <1>2, <1>3, <1>4

LEMMA OwingFinite ==
  ASSUME TypeOK, NEW n
  PROVE  /\ IsFiniteSet(Owing(n)) /\ Cardinality(Owing(n)) \in Nat
         /\ Cardinality(Owing(n)) = 0 <=> Owing(n) = {}
         /\ QueuesFrom(n) \in SUBSET Edges /\ Owing(n) \in SUBSET Edges
  <1>1. QueuesFrom(n) \in SUBSET Edges /\ Owing(n) \in SUBSET Edges
    BY DEF QueuesFrom, Owing, QueuesTo
  <1>2. IsFiniteSet(Owing(n))
    BY <1>1, Domains, FS_Subset
  <1> QED BY <1>1, <1>2, FS_CardinalityType, FS_EmptySet

LEMMA LogOwingFinite ==
  /\ IsFiniteSet(LogOwing) /\ Cardinality(LogOwing) \in Nat
  /\ Cardinality(LogOwing) = 0 <=> LogOwing = {}
  <1>1. LogOwing \in SUBSET Groups
    BY DEF LogOwing
  <1>2. IsFiniteSet(LogOwing)
    BY <1>1, FlowAssumption, FS_Subset
  <1> QED BY <1>2, FS_CardinalityType, FS_EmptySet

LEMMA FedKept ==
  ASSUME Fed, UNCHANGED <<group, edges, sources, exited, out, queue>>
  PROVE  Fed'
  BY ZenonT(60) DEF Fed, Owing, QueuesTo, Direct, EndsInSignOff, At, Nodes, Edges

LEMMA SignedKept ==
  ASSUME Signed, UNCHANGED <<group, edges, exited, out>>
  PROVE  Signed'
  BY DEF Signed, Direct, EndsInSignOff, At, Edges

LEMMA LogFedKept ==
  ASSUME LogFed, UNCHANGED <<group, logSources, logQueue>>, LogOwing' = LogOwing
  PROVE  LogFed'
  BY DEF LogFed, EndsInSignOff, At

LEMMA LogOwingKept ==
  ASSUME UNCHANGED <<group, thread>>
  PROVE  LogOwing' = LogOwing
  BY DEF LogOwing, Members, Nodes

LEMMA ConsumingKept ==
  ASSUME Consuming, UNCHANGED <<group, consumer, thread, sources>>
  PROVE  Consuming'
  BY DEF Consuming, Nodes

LEMMA LogConsumingKept ==
  ASSUME LogConsuming, UNCHANGED <<phase, logs, logSources>>
  PROVE  LogConsuming'
  BY DEF LogConsuming

LEMMA InPhaseKept ==
  ASSUME InPhase, UNCHANGED <<phase, thread, group, logs, consumer>>
  PROVE  InPhase'
  BY DEF InPhase, Members, Nodes

LEMMA SharingKept ==
  ASSUME Sharing, UNCHANGED <<out, queue, logOut, ref>>,
         \A m \in Messages : Cardinality(At(logQueue', m)) = Cardinality(At(logQueue, m))
  PROVE  Sharing'
  <1> SUFFICES ASSUME NEW m \in Messages
               PROVE  InQueues(m)' = IF ref'[m] = -1 THEN 0 ELSE ref'[m]
    BY DEF Sharing
  <1>1. InQueues(m)' = InQueues(m)
    BY DEF InQueues, Places, At
  <1> QED BY <1>1 DEF Sharing


-----------------------------------------------------------------------------
(* The threads *)

\* What StartNodes does, of the nodes of a thread that was not in its loop.
LEMMA StartNodesStep ==
  ASSUME Inv, NEW g \in Groups, thread[g] \notin {"loop", "over", "returned"}, StartNodes(g),
         UNCHANGED <<group, edges, sources, out, logOut, exited>>,
         thread' \in [Groups -> {"none", "created", "loop", "over", "returned"}],
         Members(g) # {} => thread'[g] = "loop",
         \A h \in Groups \ {g} : /\ thread[h] = "loop" => thread'[h] = "loop"
                                 /\ thread[h] \in {"over", "returned"} => thread'[h] = thread[h]
                                 /\ thread'[h] \in {"loop", "over", "returned"} => thread'[h] = thread[h]
  PROVE  /\ Consuming' /\ InLoops'
         /\ consumer' \in Seq({"idle", "open", "closed"}) /\ Len(consumer') = Len(group)
         /\ started' \subseteq Nodes /\ timer' \subseteq Nodes
         /\ \A n \in Nodes : consumer'[n] = IF n \in Members(g) /\ sources[n] > 0 THEN "open" ELSE consumer[n]
  <1>1. TypeOK /\ Fed /\ Signed /\ Consuming /\ InLoops
    BY DEF Inv
  <1>2. /\ Members(g) \subseteq Nodes /\ Nodes' = Nodes /\ Edges' = Edges
        /\ \A n \in Nodes : n \in Members(g) <=> group[n] = g
        /\ started' = started \cup Members(g)
        /\ timer' \subseteq timer \cup Members(g)
    BY DEF StartNodes, Members, Nodes, Edges
  <1>3. started' \subseteq Nodes /\ timer' \subseteq Nodes
    BY <1>1, <1>2 DEF TypeOK
  <1>4. /\ Nodes = 1 .. Len(group) /\ Len(group) \in Nat /\ DOMAIN consumer' = Nodes
        /\ \A n \in Nodes : consumer'[n] = IF n \in Members(g) /\ sources[n] > 0 THEN "open" ELSE consumer[n]
    BY <1>1, Domains DEF StartNodes
  <1>5. consumer' \in Seq({"idle", "open", "closed"}) /\ Len(consumer') = Len(group)
    <2>1. \A n \in Nodes : consumer'[n] \in {"idle", "open", "closed"}
      BY <1>1, <1>4, Elements
    <2>2. consumer' = [n \in 1 .. Len(group) |-> consumer'[n]]
      BY <1>4 DEF StartNodes
    <2> QED BY <1>4, <2>1, <2>2
  <1>6. Consuming'
    <2> SUFFICES ASSUME NEW n \in Nodes
                 PROVE  /\ consumer'[n] = "open" => thread'[group[n]] = "loop"
                        /\ consumer'[n] = "closed" => sources[n] = 0
                        /\ consumer'[n] = "idle" /\ thread'[group[n]] \in {"loop", "over", "returned"}
                             => sources[n] = 0
      BY <1>2 DEF Consuming
    <2>1. /\ sources[n] \in Nat /\ group[n] \in Groups
          /\ consumer[n] = "open" => thread[group[n]] = "loop"
          /\ consumer[n] = "closed" => sources[n] = 0
          /\ consumer[n] = "idle" /\ thread[group[n]] \in {"loop", "over", "returned"} => sources[n] = 0
      <3>1. sources[n] = Cardinality(Owing(n)) + Cardinality(At(queue[n], SignOff))
        BY <1>1 DEF Fed
      <3>2. Cardinality(Owing(n)) \in Nat /\ Cardinality(At(queue[n], SignOff)) \in Nat
        BY <1>1, OwingFinite, Elements, AtFinite
      <3> QED BY <1>1, <3>1, <3>2, Elements DEF Consuming
    <2>2. CASE n \in Members(g)
      BY <1>2, <1>4, <2>1, <2>2
    <2>3. CASE n \notin Members(g)
      BY <1>2, <1>4, <2>1, <2>3
    <2> QED BY <2>2, <2>3
  <1>7. InLoops'
    <2>1. \A e \in Edges : out[e] # <<>> => thread'[group[edges[e].from]] = "loop"
      BY <1>1, Elements DEF InLoops
    <2>2. \A h \in Groups : logOut[h] # <<>> => h # Main /\ thread'[h] = "loop"
      BY <1>1 DEF InLoops
    <2>3. \A n \in started' \cup timer' : thread'[group[n]] = "loop"
      BY <1>1, <1>2, <1>3, Elements DEF InLoops
    <2>4. \A n \in exited : n \notin timer' /\ thread'[group[n]] \in {"loop", "over", "returned"}
      <3> SUFFICES ASSUME NEW n \in exited
                   PROVE  n \notin timer' /\ thread'[group[n]] \in {"loop", "over", "returned"}
        OBVIOUS
      <3>1. n \in Nodes /\ n \notin timer /\ thread[group[n]] \in {"loop", "over", "returned"}
        BY <1>1 DEF InLoops, TypeOK
      <3>2. group[n] \in Groups \ {g} /\ n \notin Members(g)
        BY <1>1, <1>2, <3>1, Elements
      <3> QED BY <1>2, <3>1, <3>2
    <2> QED BY <1>2, <2>1, <2>2, <2>3, <2>4 DEF InLoops
  <1> QED BY <1>3, <1>4, <1>5, <1>6, <1>7

\* flow_start(): the nodes of the main thread begin, the other threads are
\* created.
LEMMA StartStep ==
  ASSUME Inv, Start
  PROVE  Inv'
  <1>1. /\ TypeOK /\ Fed /\ Signed /\ LogFed /\ LogConsuming /\ InPhase /\ Sharing
        /\ phase = "build" /\ phase' = "run" /\ StartNodes(Main)
        /\ UNCHANGED <<group, edges, sources, logSources, out, logOut, queue, logQueue, ref, exited,
                       forwards>>
        /\ logs' = IF logSources > 0 THEN "open" ELSE "idle"
        /\ thread = [g \in Groups |-> "none"] /\ Main \in Groups
        /\ thread' = [g \in Groups |-> IF Members(g) = {} THEN "none"
                                       ELSE IF g = Main THEN "loop" ELSE "created"]
    BY FlowAssumption DEF Inv, InPhase, Start, graph
  <1>2. /\ thread' \in [Groups -> {"none", "created", "loop", "over", "returned"}]
        /\ thread[Main] = "none"
        /\ Members(Main) # {} => thread'[Main] = "loop"
        /\ \A h \in Groups \ {Main} : thread[h] = "none" /\ thread'[h] \in {"none", "created"}
    BY <1>1
  <1>3. /\ Consuming' /\ InLoops'
        /\ consumer' \in Seq({"idle", "open", "closed"}) /\ Len(consumer') = Len(group)
        /\ started' \subseteq Nodes /\ timer' \subseteq Nodes
    BY <1>1, <1>2, StartNodesStep
  <1>4. TypeOK'
    BY <1>1, <1>2, <1>3 DEF TypeOK, Nodes
  <1>5. LogOwing' = LogOwing
    BY <1>1, <1>2 DEF LogOwing, Members, Nodes
  <1>6. Fed' /\ Signed' /\ LogFed' /\ Sharing'
    BY <1>1, <1>5, FedKept, SignedKept, LogFedKept, SharingKept
  <1>7. LogConsuming'
    <2>1. logSources \in Nat
      <3>1. Cardinality(LogOwing) \in Nat /\ Cardinality(At(logQueue, SignOff)) \in Nat
        BY <1>1, LogOwingFinite, AtFinite DEF TypeOK
      <3> QED BY <1>1, <3>1 DEF LogFed
    <2> QED BY <1>1, <2>1 DEF LogConsuming
  <1>8. InPhase'
    BY <1>1, <1>2 DEF InPhase, Members, Nodes
  <1> QED BY <1>3, <1>4, <1>6, <1>7, <1>8 DEF Inv

\* flow_group_async(): a thread begins with its nodes.
LEMMA GroupBeginsStep ==
  ASSUME Inv, NEW g \in Groups, GroupBegins(g)
  PROVE  Inv'
  <1>1. /\ TypeOK /\ Fed /\ Signed /\ LogFed /\ LogConsuming /\ InPhase /\ Sharing
        /\ StartNodes(g) /\ thread[g] = "created" /\ thread' = [thread EXCEPT ![g] = "loop"]
        /\ UNCHANGED <<phase, group, edges, sources, out, queue, ref, exited, forwards, logSources,
                       logs, logOut, logQueue>>
    BY DEF Inv, GroupBegins, graph, logVars
  <1>2. /\ thread' \in [Groups -> {"none", "created", "loop", "over", "returned"}]
        /\ thread'[g] = "loop" /\ \A h \in Groups \ {g} : thread'[h] = thread[h]
    BY <1>1 DEF TypeOK
  <1>3. /\ Consuming' /\ InLoops'
        /\ consumer' \in Seq({"idle", "open", "closed"}) /\ Len(consumer') = Len(group)
        /\ started' \subseteq Nodes /\ timer' \subseteq Nodes
    BY <1>1, <1>2, StartNodesStep
  <1>4. TypeOK'
    BY <1>1, <1>2, <1>3 DEF TypeOK, Nodes
  <1>5. LogOwing' = LogOwing
    BY <1>1, <1>2 DEF LogOwing, Members, Nodes
  <1>6. Fed' /\ Signed' /\ LogFed' /\ Sharing' /\ LogConsuming'
    BY <1>1, <1>5, FedKept, SignedKept, LogFedKept, SharingKept, LogConsumingKept
  <1>7. phase = "run"
    BY <1>1, FlowAssumption DEF InPhase, TypeOK
  <1>8. InPhase'
    BY <1>1, <1>2, <1>7, FlowAssumption DEF InPhase, Members, Nodes
  <1> QED BY <1>3, <1>4, <1>6, <1>8 DEF Inv


\* flow_group_main(): behind the loop the thread signs off from the log.
LEMMA GroupEndsStep ==
  ASSUME Inv, NEW g \in Groups, GroupEnds(g)
  PROVE  Inv'
  <1>1. /\ TypeOK /\ Fed /\ Signed /\ LogFed /\ Consuming /\ LogConsuming /\ InLoops /\ InPhase
        /\ Sharing
        /\ g # Main /\ thread[g] = "loop" /\ Idle(g) /\ thread' = [thread EXCEPT ![g] = "over"]
        /\ started' = started \ Members(g) /\ logQueue' = Append(logQueue, SignOff)
        /\ UNCHANGED <<phase, group, edges, sources, timer, consumer, out, queue, ref, exited,
                       forwards, logSources, logs, logOut>>
    BY DEF Inv, GroupEnds, graph
  <1>2. /\ thread' \in [Groups -> {"none", "created", "loop", "over", "returned"}]
        /\ thread'[g] = "over" /\ \A h \in Groups \ {g} : thread'[h] = thread[h]
        /\ logQueue \in Seq(0 .. MaxMessages) /\ SignOff \in 0 .. MaxMessages
        /\ Nodes' = Nodes /\ Edges' = Edges /\ \A h : Members(h)' = Members(h)
    BY <1>1, Domains, SMTT(60) DEF TypeOK, SignOff, Nodes, Edges, Members
  <1>3. PICK T : T = 0 .. MaxMessages
    OBVIOUS
  <1>4. logQueue \in Seq(T) /\ SignOff \in T
    BY <1>2, <1>3
  <1>5. logQueue' \in Seq(T) /\ EndsInSignOff(logQueue') /\ logQueue' # <<>>
    BY <1>1, <1>4 DEF EndsInSignOff
  <1>6. TypeOK'
    <2>1. logQueue' \in Seq(0 .. MaxMessages)
      BY <1>3, <1>5
    <2> QED BY <1>1, <1>2, <2>1 DEF TypeOK
  <1>7. phase = "run" /\ Members(g) # {}
    <2>1. phase = "run"
      BY <1>1 DEF InPhase, TypeOK
    <2> QED BY <1>1, <2>1 DEF InPhase
  <1>8. LogFed'
    <2>1. LogOwing' = LogOwing \ {g} /\ g \in LogOwing
      BY <1>1, <1>2, <1>7 DEF LogOwing
    <2>2. Cardinality(LogOwing') = Cardinality(LogOwing) - 1
      BY <2>1, LogOwingFinite, FS_RemoveElement
    <2>3. Cardinality(At(logQueue', SignOff)) = Cardinality(At(logQueue, SignOff)) + 1
      BY <1>1, <1>4, AtAppend
    <2>4. Cardinality(LogOwing) \in Nat /\ Cardinality(At(logQueue, SignOff)) \in Nat
      BY <1>4, LogOwingFinite, AtFinite
    <2>5. EndsInSignOff(logQueue)'
      BY <1>5 DEF EndsInSignOff
    <2>6. (logSources = Cardinality(LogOwing) + Cardinality(At(logQueue, SignOff)))'
      <3>1. logSources = Cardinality(LogOwing) + Cardinality(At(logQueue, SignOff))
        BY <1>1 DEF LogFed
      <3> QED BY <1>1, <2>2, <2>3, <2>4, <3>1
    <2> QED BY <2>5, <2>6 DEF LogFed
  <1>9. Sharing'
    <2>1. ASSUME NEW m \in Messages
          PROVE  Cardinality(At(logQueue', m)) = Cardinality(At(logQueue, m))
      <3>1. SignOff # m
        BY FlowAssumption DEF Messages, SignOff
      <3>2. At(logQueue', m) = At(logQueue, m)
        BY <1>1, <1>4, <3>1, AtAppend
      <3> QED BY <3>2
    <2> QED BY <1>1, <2>1, SharingKept
  <1>10. Fed' /\ Signed' /\ LogConsuming'
    BY <1>1, FedKept, SignedKept, LogConsumingKept
  <1>11. Consuming'
    <2> SUFFICES ASSUME NEW n \in Nodes
                 PROVE  /\ consumer[n] = "open" => thread'[group[n]] = "loop"
                        /\ consumer[n] = "closed" => sources[n] = 0
                        /\ consumer[n] = "idle" /\ thread'[group[n]] \in {"loop", "over", "returned"}
                             => sources[n] = 0
      BY <1>1, <1>2 DEF Consuming
    <2>1. group[n] \in Groups /\ (group[n] = g => consumer[n] # "open")
      BY <1>1, Elements DEF Idle, Members
    <2> QED BY <1>1, <1>2, <2>1 DEF Consuming
  <1>12. InLoops'
    <2>1. ASSUME NEW e \in Edges, out[e] # <<>>
          PROVE  thread'[group[edges[e].from]] = "loop"
      <3>1. /\ edges[e].from \in Nodes /\ group[edges[e].from] \in Groups
            /\ thread[group[edges[e].from]] = "loop" /\ ~ Direct(e)
        BY <1>1, <2>1, Elements DEF InLoops, Signed
      <3>2. group[edges[e].from] # g
        BY <1>1, <2>1, <3>1 DEF Idle, Members, QueuesFrom
      <3> QED BY <1>2, <3>1, <3>2
    <2>2. \A h \in Groups : logOut[h] # <<>> => h # Main /\ thread'[h] = "loop"
      BY <1>1, <1>2 DEF InLoops, Idle
    <2>3. \A n \in started' \cup timer : thread'[group[n]] = "loop"
      <3>1. \A n \in started' \cup timer : n \in Nodes /\ group[n] \in Groups /\ group[n] # g
        BY <1>1, Elements DEF Idle, Members, TypeOK
      <3> QED BY <1>1, <1>2, <3>1 DEF InLoops
    <2>4. \A n \in exited : n \notin timer /\ thread'[group[n]] \in {"loop", "over", "returned"}
      BY <1>1, <1>2, Elements DEF InLoops, TypeOK
    <2> QED BY <1>1, <1>2, <2>1, <2>2, <2>3, <2>4 DEF InLoops
  <1>13. InPhase'
    BY <1>1, <1>2, <1>7 DEF InPhase
  <1> QED BY <1>6, <1>8, <1>9, <1>10, <1>11, <1>12, <1>13 DEF Inv

\* flow_group_async(): the main loop learns of it.
LEMMA GroupReturnsStep ==
  ASSUME Inv, NEW g \in Groups, GroupReturns(g)
  PROVE  Inv'
  <1>1. /\ TypeOK /\ Fed /\ Signed /\ LogFed /\ Consuming /\ LogConsuming /\ InLoops /\ InPhase
        /\ Sharing
        /\ thread[g] = "over" /\ thread' = [thread EXCEPT ![g] = "returned"]
        /\ UNCHANGED <<phase, group, edges, sources, started, timer, consumer, out, queue, ref, exited,
                       forwards, logSources, logs, logOut, logQueue>>
    BY DEF Inv, GroupReturns, graph, logVars
  <1>2. /\ thread' \in [Groups -> {"none", "created", "loop", "over", "returned"}]
        /\ thread'[g] = "returned" /\ \A h \in Groups \ {g} : thread'[h] = thread[h]
        /\ Nodes' = Nodes /\ Edges' = Edges /\ \A h : Members(h)' = Members(h)
    BY <1>1 DEF TypeOK, Nodes, Edges, Members
  <1>3. TypeOK'
    BY <1>1, <1>2 DEF TypeOK
  <1>4. LogOwing' = LogOwing
    BY <1>1, <1>2 DEF LogOwing
  <1>5. Fed' /\ Signed' /\ LogFed' /\ LogConsuming' /\ Sharing'
    BY <1>1, <1>4, FedKept, SignedKept, LogFedKept, LogConsumingKept, SharingKept
  <1>6. Consuming'
    BY <1>1, <1>2, Elements DEF Consuming
  <1>7. InLoops'
    <2>1. \A e \in Edges : out[e] # <<>> => thread'[group[edges[e].from]] = "loop"
      BY <1>1, <1>2, Elements DEF InLoops
    <2>2. \A h \in Groups : logOut[h] # <<>> => h # Main /\ thread'[h] = "loop"
      BY <1>1, <1>2 DEF InLoops
    <2>3. \A n \in started \cup timer : thread'[group[n]] = "loop"
      BY <1>1, <1>2, Elements, SMTT(60) DEF InLoops, TypeOK
    <2>4. \A n \in exited : n \notin timer /\ thread'[group[n]] \in {"loop", "over", "returned"}
      BY <1>1, <1>2, Elements DEF InLoops, TypeOK
    <2> QED BY <1>1, <1>2, <2>1, <2>2, <2>3, <2>4 DEF InLoops
  <1>8. phase = "run"
    BY <1>1, FlowAssumption DEF InPhase, TypeOK
  <1>9. InPhase'
    BY <1>1, <1>2, <1>8, FlowAssumption DEF InPhase
  <1> QED BY <1>3, <1>5, <1>6, <1>7, <1>9 DEF Inv

\* flow_stop(): the main loop has returned.
LEMMA FinishStep ==
  ASSUME Inv, Finish
  PROVE  Inv'
  <1>1. /\ TypeOK /\ Fed /\ Signed /\ LogFed /\ Consuming /\ LogConsuming /\ InLoops /\ InPhase
        /\ Sharing
        /\ phase = "run" /\ phase' = "ended" /\ Idle(Main) /\ logs # "open"
        /\ \A g \in Groups : thread[g] \notin {"created", "loop", "over"} \/ g = Main
        /\ started' = started \ Members(Main) /\ thread' = [thread EXCEPT ![Main] = "returned"]
        /\ UNCHANGED <<group, edges, sources, timer, consumer, out, queue, ref, exited,
                       forwards, logSources, logs, logOut, logQueue>>
    BY DEF Inv, Finish, graph, logVars
  <1>2. /\ thread' \in [Groups -> {"none", "created", "loop", "over", "returned"}]
        /\ thread'[Main] = "returned" /\ \A h \in Groups \ {Main} : thread'[h] = thread[h]
        /\ Nodes' = Nodes /\ Edges' = Edges /\ \A h : Members(h)' = Members(h)
    BY <1>1, FlowAssumption DEF TypeOK, Nodes, Edges, Members
  <1>3. TypeOK'
    BY <1>1, <1>2 DEF TypeOK
  <1>4. LogOwing' = LogOwing
    BY <1>1, <1>2 DEF LogOwing
  <1>5. Fed' /\ Signed' /\ LogFed' /\ Sharing'
    BY <1>1, <1>4, FedKept, SignedKept, LogFedKept, SharingKept
  <1>6. LogConsuming'
    BY <1>1 DEF LogConsuming
  <1>7. \A n \in Nodes : group[n] = Main => consumer[n] # "open" /\ thread[Main] \in {"loop", "over", "returned"}
    <2> SUFFICES ASSUME NEW n \in Nodes, group[n] = Main
                 PROVE  consumer[n] # "open" /\ thread[Main] \in {"loop", "over", "returned"}
      OBVIOUS
    <2>1. n \in Members(Main) /\ Main \in Groups
      BY FlowAssumption DEF Members
    <2>2. thread[Main] \notin {"none", "created"}
      BY <1>1, <2>1 DEF InPhase
    <2> QED BY <1>1, <2>1, <2>2 DEF Idle, TypeOK
  <1>8. Consuming'
    <2> SUFFICES ASSUME NEW n \in Nodes
                 PROVE  /\ consumer[n] = "open" => thread'[group[n]] = "loop"
                        /\ consumer[n] = "closed" => sources[n] = 0
                        /\ consumer[n] = "idle" /\ thread'[group[n]] \in {"loop", "over", "returned"}
                             => sources[n] = 0
      BY <1>1, <1>2 DEF Consuming
    <2>1. group[n] \in Groups
      BY <1>1, Elements
    <2>2. CASE group[n] = Main
      BY <1>1, <1>7, <2>2 DEF Consuming
    <2>3. CASE group[n] # Main
      BY <1>1, <1>2, <2>1, <2>3 DEF Consuming
    <2> QED BY <2>2, <2>3
  <1>9. InLoops'
    <2>1. ASSUME NEW e \in Edges, out[e] # <<>>
          PROVE  thread'[group[edges[e].from]] = "loop"
      <3>1. /\ edges[e].from \in Nodes /\ group[edges[e].from] \in Groups
            /\ thread[group[edges[e].from]] = "loop" /\ ~ Direct(e)
        BY <1>1, <2>1, Elements DEF InLoops, Signed
      <3>2. group[edges[e].from] # Main
        BY <1>1, <2>1, <3>1 DEF Idle, Members, QueuesFrom
      <3> QED BY <1>2, <3>1, <3>2
    <2>2. \A h \in Groups : logOut[h] # <<>> => h # Main /\ thread'[h] = "loop"
      BY <1>1, <1>2 DEF InLoops
    <2>3. \A n \in started' \cup timer : thread'[group[n]] = "loop"
      <3>1. \A n \in started' \cup timer : n \in Nodes /\ group[n] \in Groups /\ group[n] # Main
        BY <1>1, Elements DEF Idle, Members, TypeOK
      <3> QED BY <1>1, <1>2, <3>1 DEF InLoops
    <2>4. \A n \in exited : n \notin timer /\ thread'[group[n]] \in {"loop", "over", "returned"}
      BY <1>1, <1>2, Elements DEF InLoops, TypeOK
    <2> QED BY <1>1, <1>2, <2>1, <2>2, <2>3, <2>4 DEF InLoops
  <1>10. InPhase'
    <2>1. \A h \in Groups \ {Main} : IF Members(h) = {} THEN thread'[h] = "none" ELSE thread'[h] = "returned"
      <3> SUFFICES ASSUME NEW h \in Groups \ {Main}
                   PROVE  IF Members(h) = {} THEN thread'[h] = "none" ELSE thread'[h] = "returned"
        OBVIOUS
      <3>1. thread[h] \in {"none", "returned"} /\ (thread[h] = "none" <=> Members(h) = {})
        BY <1>1 DEF InPhase, TypeOK
      <3> QED BY <1>2, <3>1
    <2> QED BY <1>1, <1>2, <2>1 DEF InPhase
  <1> QED BY <1>3, <1>5, <1>6, <1>8, <1>9, <1>10 DEF Inv


\* value_release() of a message that has a place.
LEMMA Released ==
  ASSUME NEW k \in Int, NEW c \in Nat, NEW h \in Nat, c >= 1,
         c = IF k = -1 THEN 0 ELSE k
  PROVE  Less(k + h) = c + h - 1 /\ k = c
  BY DEF Less

\* flow_log_queue(): the consumer of the logs takes a message.
LEMMA LogReceiveStep ==
  ASSUME Inv, LogReceive
  PROVE  Inv'
  <1>1. /\ TypeOK /\ Fed /\ Signed /\ LogFed /\ Consuming /\ LogConsuming /\ InLoops /\ InPhase
        /\ Sharing
        /\ logs = "open" /\ logQueue # <<>> /\ Head(logQueue) # SignOff
        /\ logQueue' = Tail(logQueue) /\ ref' = [ref EXCEPT ![Head(logQueue)] = Less(@)]
        /\ UNCHANGED <<phase, group, edges, sources, thread, started, timer, consumer, out, queue,
                       exited, forwards, logSources, logs, logOut>>
    BY DEF Inv, LogReceive, graph
  <1>2. PICK T, a : T = 0 .. MaxMessages /\ a = Head(logQueue)
    OBVIOUS
  <1>3. logQueue \in Seq(T) /\ a \in T /\ logQueue' \in Seq(T)
    <2>1. logQueue \in Seq(T)
      BY <1>1, <1>2 DEF TypeOK
    <2>2. Head(logQueue) \in T /\ Tail(logQueue) \in Seq(T)
      BY <1>1, <2>1, TailFacts
    <2> QED BY <1>1, <1>2, <2>1, <2>2, Zenon
  <1>4. a \in Messages /\ a # SignOff
    BY <1>1, <1>2, <1>3, FlowAssumption DEF Messages, SignOff
  <1>5. \A m : Cardinality(At(logQueue, m)) = Cardinality(At(logQueue', m)) + (IF a = m THEN 1 ELSE 0)
    BY <1>1, <1>2, <1>3, AtTail
  <1>6. ref \in [Messages -> Int] /\ ref' = [ref EXCEPT ![a] = Less(ref[a])]
    BY <1>1, <1>2 DEF TypeOK
  <1>7. ASSUME NEW m \in Messages
        PROVE  InQueues(m)' = (IF ref'[m] = -1 THEN 0 ELSE ref'[m]) /\ ref'[m] \in Int
    <2>1. PICK la, oa, qa, ga, lb : /\ la = Cardinality(At(logQueue, m)) /\ oa = Cardinality(Places(out, m))
                                    /\ qa = Cardinality(Places(queue, m)) /\ ga = Cardinality(Places(logOut, m))
                                    /\ lb = Cardinality(At(logQueue', m))
      OBVIOUS
    <2>2. la \in Nat /\ oa \in Nat /\ qa \in Nat /\ ga \in Nat /\ lb \in Nat
      BY <1>1, <1>3, <2>1, CountTypes, AtFinite
    <2>3. la = lb + (IF a = m THEN 1 ELSE 0)
      BY <1>5, <2>1
    <2>4. InQueues(m) = la + oa + qa + ga /\ InQueues(m)' = lb + oa + qa + ga
      BY <1>1, <2>1 DEF InQueues
    <2>5. la + oa + qa + ga = IF ref[m] = -1 THEN 0 ELSE ref[m]
      BY <1>1, <2>4 DEF Sharing
    <2>6. CASE a = m
      <3>1. PICK k, c : k = ref[m] /\ c = la + oa + qa + ga
        OBVIOUS
      <3>2. k \in Int /\ c \in Nat /\ c >= 1 /\ c = IF k = -1 THEN 0 ELSE k
        BY <1>6, <2>2, <2>3, <2>5, <2>6, <3>1
      <3>3. Less(k) = c - 1
        BY <3>2 DEF Less
      <3>4. ref'[m] = c - 1
        BY <1>4, <1>6, <2>6, <3>1, <3>3
      <3> QED BY <2>2, <2>3, <2>4, <2>6, <3>1, <3>2, <3>4
    <2>7. CASE a # m
      <3>1. ref'[m] = ref[m] /\ ref[m] \in Int
        BY <1>6, <2>7
      <3> QED BY <2>2, <2>3, <2>4, <2>5, <2>7, <3>1
    <2> QED BY <2>6, <2>7
  <1>8. Sharing'
    BY <1>7 DEF Sharing
  <1>9. TypeOK'
    <2>1. logQueue' \in Seq(0 .. MaxMessages)
      BY <1>2, <1>3
    <2>2. ref' \in [Messages -> Int]
      BY <1>6, <1>7
    <2> QED BY <1>1, <2>1, <2>2 DEF TypeOK, Nodes
  <1>10. LogOwing' = LogOwing
    BY <1>1, LogOwingKept
  <1>11. LogFed'
    <2>1. Cardinality(At(logQueue', SignOff)) = Cardinality(At(logQueue, SignOff))
      <3>1. Cardinality(At(logQueue', SignOff)) \in Nat
        BY <1>3, AtFinite
      <3> QED BY <1>4, <1>5, <3>1
    <2>2. logQueue' # <<>> => EndsInSignOff(logQueue') \/ LogOwing # {}
      <3>1. logQueue' # <<>> => logQueue'[Len(logQueue')] = logQueue[Len(logQueue)]
        BY <1>1, <1>3
      <3> QED BY <1>1, <3>1 DEF LogFed, EndsInSignOff
    <2> QED BY <1>1, <1>10, <2>1, <2>2 DEF LogFed
  <1>12. Fed' /\ Signed' /\ Consuming' /\ LogConsuming' /\ InPhase'
    BY <1>1, FedKept, SignedKept, ConsumingKept, LogConsumingKept, InPhaseKept
  <1>13. InLoops'
    BY <1>1 DEF InLoops, Edges
  <1> QED BY <1>8, <1>9, <1>11, <1>12, <1>13 DEF Inv

\* flow_log_queue(): the consumer of the logs takes a sign-off.
LEMMA LogSignOffStep ==
  ASSUME Inv, LogSignOff
  PROVE  Inv'
  <1>1. /\ TypeOK /\ Fed /\ Signed /\ LogFed /\ Consuming /\ LogConsuming /\ InLoops /\ InPhase
        /\ Sharing
        /\ logs = "open" /\ logQueue # <<>> /\ Head(logQueue) = SignOff
        /\ logQueue' = Tail(logQueue) /\ logSources' = logSources - 1
        /\ logs' = IF logSources' = 0 THEN "closed" ELSE logs
        /\ UNCHANGED <<phase, group, edges, sources, thread, started, timer, consumer, out, queue,
                       ref, exited, forwards, logOut>>
    BY DEF Inv, LogSignOff, graph
  <1>2. PICK T : T = 0 .. MaxMessages
    OBVIOUS
  <1>3. logQueue \in Seq(T) /\ logQueue' \in Seq(T)
    <2>1. logQueue \in Seq(T)
      BY <1>1, <1>2 DEF TypeOK
    <2> QED BY <1>1, <2>1
  <1>4. \A m : Cardinality(At(logQueue, m)) = Cardinality(At(logQueue', m)) + (IF SignOff = m THEN 1 ELSE 0)
    BY <1>1, <1>3, AtTail
  <1>5. \A m : Cardinality(At(logQueue', m)) \in Nat
    BY <1>3, AtFinite
  <1>6. TypeOK'
    <2>1. logQueue' \in Seq(0 .. MaxMessages)
      BY <1>2, <1>3
    <2> QED BY <1>1, <2>1, SMTT(60) DEF TypeOK, Nodes
  <1>7. LogOwing' = LogOwing
    BY <1>1, LogOwingKept
  <1>8. LogFed'
    <2>1. Cardinality(LogOwing) \in Nat
      BY LogOwingFinite
    <2>2. logSources = Cardinality(LogOwing) + Cardinality(At(logQueue, SignOff))
      BY <1>1 DEF LogFed
    <2>3. logSources' = Cardinality(LogOwing) + Cardinality(At(logQueue', SignOff))
      BY <1>1, <1>4, <1>5, <2>1, <2>2
    <2>4. logQueue' # <<>> => EndsInSignOff(logQueue') \/ LogOwing # {}
      <3>1. logQueue' # <<>> => logQueue'[Len(logQueue')] = logQueue[Len(logQueue)]
        BY <1>1, <1>3
      <3> QED BY <1>1, <3>1 DEF LogFed, EndsInSignOff
    <2> QED BY <1>7, <2>3, <2>4 DEF LogFed
  <1>9. Sharing'
    <2>1. ASSUME NEW m \in Messages
          PROVE  Cardinality(At(logQueue', m)) = Cardinality(At(logQueue, m))
      <3>1. SignOff # m
        BY FlowAssumption DEF Messages, SignOff
      <3> QED BY <1>4, <1>5, <3>1
    <2> QED BY <1>1, <2>1, SharingKept
  <1>10. LogConsuming' /\ InPhase'
    BY <1>1 DEF LogConsuming, InPhase, Members, Nodes
  <1>11. Fed' /\ Signed' /\ Consuming'
    BY <1>1, FedKept, SignedKept, ConsumingKept
  <1>12. InLoops'
    BY <1>1 DEF InLoops, Edges
  <1> QED BY <1>6, <1>8, <1>9, <1>10, <1>11, <1>12 DEF Inv

\* The kernel writes what a thread logged.
LEMMA LogWrittenStep ==
  ASSUME Inv, NEW g \in Groups, LogWritten(g)
  PROVE  Inv'
  <1>1. /\ TypeOK /\ Fed /\ Signed /\ LogFed /\ Consuming /\ LogConsuming /\ InLoops /\ InPhase
        /\ Sharing
        /\ logOut[g] # <<>> /\ thread[g] = "loop"
        /\ logQueue' = logQueue \o logOut[g] /\ logOut' = [logOut EXCEPT ![g] = <<>>]
        /\ UNCHANGED <<phase, group, edges, sources, thread, started, timer, consumer, out, queue,
                       ref, exited, forwards, logSources, logs>>
    BY DEF Inv, LogWritten, graph
  <1>2. PICK T, M, e, s : T = 0 .. MaxMessages /\ M = Messages /\ e = <<>> /\ s = logOut[g]
    OBVIOUS
  <1>3. /\ logQueue \in Seq(T) /\ s \in Seq(T) /\ At(s, SignOff) = {}
        /\ logOut \in [Groups -> Seq(M)] /\ \A h \in Groups : logOut[h] \in Seq(T)
        /\ e \in Seq(T) /\ e \in Seq(M)
    BY <1>1, <1>2, Elements DEF TypeOK
  <1>4. /\ logOut' \in [Groups -> Seq(M)] /\ logOut'[g] = e
        /\ \A h \in Groups \ {g} : logOut'[h] = logOut[h]
        /\ \A h \in Groups : logOut'[h] \in Seq(T)
        /\ DOMAIN logOut' = Groups /\ DOMAIN logOut = Groups
    BY <1>1, <1>2, <1>3
  <1>5. logQueue' \in Seq(T) /\ logQueue' = logQueue \o s
    BY <1>1, <1>2, <1>3
  <1>6. TypeOK'
    <2>1. logQueue' \in Seq(0 .. MaxMessages) /\ logOut' \in [Groups -> Seq(Messages)]
      BY <1>2, <1>4, <1>5
    <2> QED BY <1>1, <2>1 DEF TypeOK, Nodes
  <1>7. LogOwing' = LogOwing /\ LogOwing # {}
    <2>1. phase = "run" /\ g # Main
      BY <1>1 DEF InPhase, InLoops, TypeOK
    <2>2. Members(g) # {}
      BY <1>1, <2>1 DEF InPhase
    <2>3. g \in LogOwing
      BY <1>1, <2>1, <2>2 DEF LogOwing
    <2> QED BY <1>1, <2>3, LogOwingKept
  <1>8. \A m : Cardinality(At(logQueue', m)) = Cardinality(At(logQueue, m)) + Cardinality(At(s, m))
    BY <1>3, <1>5, AtConcat
  <1>9. LogFed'
    <2>1. Cardinality(At(s, SignOff)) = 0 /\ Cardinality(At(logQueue, SignOff)) \in Nat
      BY <1>3, AtFinite, FS_EmptySet
    <2>2. Cardinality(At(logQueue', SignOff)) = Cardinality(At(logQueue, SignOff))
      BY <1>8, <2>1
    <2> QED BY <1>1, <1>7, <2>2 DEF LogFed
  <1>10. Sharing'
    <2> SUFFICES ASSUME NEW m \in Messages
                 PROVE  InQueues(m)' = IF ref'[m] = -1 THEN 0 ELSE ref'[m]
      BY DEF Sharing
    <2>1. PICK la, oa, qa, ga, lb, gb, sa :
            /\ la = Cardinality(At(logQueue, m)) /\ oa = Cardinality(Places(out, m))
            /\ qa = Cardinality(Places(queue, m)) /\ ga = Cardinality(Places(logOut, m))
            /\ lb = Cardinality(At(logQueue', m)) /\ gb = Cardinality(Places(logOut', m))
            /\ sa = Cardinality(At(s, m))
      OBVIOUS
    <2>2. la \in Nat /\ oa \in Nat /\ qa \in Nat /\ ga \in Nat /\ gb \in Nat /\ sa \in Nat
      <3>1. gb \in Nat
        BY <1>4, <2>1, FlowAssumption, PlacesFinite
      <3> QED BY <1>1, <1>3, <2>1, <3>1, CountTypes, AtFinite
    <2>3. lb = la + sa
      BY <1>8, <2>1
    <2>4. gb + sa = ga + 0
      <3>1. Replaces(T, Groups, logOut, g, e, logOut')
        BY <1>1, <1>2, <1>3, FlowAssumption DEF Replaces
      <3>2. Cardinality(Places(logOut', m)) + Cardinality(At(logOut[g], m))
              = Cardinality(Places(logOut, m)) + Cardinality(At(e, m))
        BY <3>1, PlacesReplaced
      <3>3. Cardinality(At(e, m)) = 0
        BY <1>2, AtEmpty
      <3> QED BY <1>2, <2>1, <3>2, <3>3
    <2>5. InQueues(m) = la + oa + qa + ga /\ InQueues(m)' = lb + oa + qa + gb
      BY <1>1, <2>1 DEF InQueues
    <2>6. InQueues(m)' = InQueues(m)
      BY <2>2, <2>3, <2>4, <2>5
    <2> QED BY <1>1, <2>6 DEF Sharing
  <1>11. Fed' /\ Signed' /\ Consuming' /\ LogConsuming' /\ InPhase'
    BY <1>1, FedKept, SignedKept, ConsumingKept, LogConsumingKept, InPhaseKept
  <1>12. InLoops'
    <2>1. \A h \in Groups : logOut'[h] # <<>> => h # Main /\ thread[h] = "loop"
      BY <1>1, <1>2, <1>4 DEF InLoops
    <2> QED BY <1>1, <2>1 DEF InLoops, Edges
  <1> QED BY <1>6, <1>9, <1>10, <1>11, <1>12 DEF Inv


-----------------------------------------------------------------------------
(* The callbacks of nodes *)

\* What flow_node_send() does to the producers of a node.
LEMMA PushedFacts ==
  ASSUME TypeOK, NEW n, NEW a \in 0 .. MaxMessages, out' = Pushed(n, a)
  PROVE  /\ out' \in Seq(Seq(0 .. MaxMessages)) /\ Len(out') = Len(edges) /\ DOMAIN out' = Edges
         /\ \A e \in Edges : out'[e] = IF e \in QueuesFrom(n) THEN Append(out[e], a) ELSE out[e]
         /\ \A m : Cardinality(Places(out', m))
                     = Cardinality(Places(out, m)) + (IF a = m THEN Held(n) ELSE 0)
         /\ Held(n) \in Nat
  <1>1. PICK T, S : T = 0 .. MaxMessages /\ S = Seq(T)
    OBVIOUS
  <1>2. /\ DOMAIN out = Edges /\ \A e \in Edges : out[e] \in S
        /\ a \in T /\ Edges = 1 .. Len(edges) /\ Len(edges) \in Nat /\ IsFiniteSet(Edges)
    BY <1>1, Domains, Elements
  <1>3. /\ out' = [e \in Edges |-> IF e \in QueuesFrom(n) THEN Append(out[e], a) ELSE out[e]]
        /\ DOMAIN out' = Edges
        /\ \A e \in Edges : out'[e] = IF e \in QueuesFrom(n) THEN Append(out[e], a) ELSE out[e]
    BY DEF Pushed
  <1>4. \A e \in Edges : out'[e] \in S
    <2> SUFFICES ASSUME NEW e \in Edges PROVE out'[e] \in S
      OBVIOUS
    <2>1. PICK s \in Seq(T) : s = out[e]
      BY <1>1, <1>2
    <2>2. Append(s, a) \in Seq(T)
      BY <1>2
    <2> QED BY <1>1, <1>3, <2>1, <2>2
  <1>5. out' \in Seq(S) /\ Len(out') = Len(edges)
    <2>1. out' = [e \in 1 .. Len(edges) |-> out'[e]]
      BY <1>2, <1>3
    <2> QED BY <1>2, <1>4, <2>1
  <1>6. QueuesFrom(n) \in SUBSET Edges /\ IsFiniteSet(QueuesFrom(n)) /\ Held(n) \in Nat
    <2>1. QueuesFrom(n) \in SUBSET Edges
      BY DEF QueuesFrom
    <2>2. IsFiniteSet(QueuesFrom(n))
      BY <1>2, <2>1, FS_Subset
    <2> QED BY <2>1, <2>2, FS_CardinalityType DEF Held
  <1>7. Pushes(T, Edges, out, QueuesFrom(n), a, out')
    <2>1. out \in [Edges -> Seq(T)]
      <3>1. out = [e \in Edges |-> out[e]]
        BY <1>2 DEF TypeOK
      <3> QED BY <1>1, <1>2, <3>1
    <2> QED BY <1>2, <1>3, <1>6, <2>1 DEF Pushes
  <1>8. \A m : Cardinality(Places(out', m))
                 = Cardinality(Places(out, m)) + (IF a = m THEN Held(n) ELSE 0)
    BY <1>7, PlacesPushed DEF Held
  <1> QED BY <1>1, <1>3, <1>5, <1>6, <1>8

\* A node that has not exited sends: what it owes is still owed.
LEMMA SendKeeps ==
  ASSUME Inv, NEW n \in Nodes, n \notin exited, thread[group[n]] = "loop",
         NEW a \in Messages, out' = Pushed(n, a), UNCHANGED <<group, edges, exited>>
  PROVE  /\ Signed' /\ \A t : Owing(t)' = Owing(t)
         /\ \A e \in Edges : out'[e] # <<>> => thread[group[edges[e].from]] = "loop"
  <1>1. TypeOK /\ Signed /\ InLoops
    BY DEF Inv
  <1>2. a \in 0 .. MaxMessages /\ a # SignOff
    BY FlowAssumption DEF Messages, SignOff
  <1>3. /\ Nodes' = Nodes /\ Edges' = Edges /\ \A e : Direct(e)' = Direct(e)
        /\ \A t : QueuesTo(t)' = QueuesTo(t)
    BY DEF Nodes, Edges, Direct, QueuesTo
  <1>4. \A e \in Edges : out'[e] = IF e \in QueuesFrom(n) THEN Append(out[e], a) ELSE out[e]
    BY <1>1, <1>2, PushedFacts
  <1>5. \A e \in QueuesFrom(n) : e \in Edges /\ edges[e].from = n /\ ~ Direct(e)
    BY DEF QueuesFrom
  <1>6. \A t : Owing(t)' = Owing(t)
    <2> SUFFICES ASSUME NEW t PROVE Owing(t)' = Owing(t)
      OBVIOUS
    <2>1. \A e \in QueuesTo(t) : e \in Edges
      BY DEF QueuesTo
    <2> QED BY <1>3, <1>4, <1>5, <2>1 DEF Owing
  <1>7. Signed'
    <2> SUFFICES ASSUME NEW e \in Edges
                 PROVE  /\ Direct(e) => out'[e] = <<>>
                        /\ IF edges[e].from \in exited /\ out'[e] # <<>>
                           THEN EndsInSignOff(out'[e]) /\ Cardinality(At(out'[e], SignOff)) = 1
                           ELSE At(out'[e], SignOff) = {}
      BY <1>3 DEF Signed
    <2>1. CASE e \notin QueuesFrom(n)
      BY <1>1, <1>4, <2>1 DEF Signed
    <2>2. CASE e \in QueuesFrom(n)
      <3>1. edges[e].from \notin exited /\ ~ Direct(e)
        BY <1>5, <2>2
      <3>2. PICK T, s : T = 0 .. MaxMessages /\ s = out[e]
        OBVIOUS
      <3>3. s \in Seq(T) /\ a \in T
        BY <1>1, <1>2, <3>2, Elements
      <3>4. At(Append(s, a), SignOff) = At(s, SignOff)
        BY <1>2, <3>3, AtAppend
      <3>5. At(s, SignOff) = {}
        BY <1>1, <3>1, <3>2 DEF Signed
      <3>6. At(out'[e], SignOff) = {}
        BY <1>4, <2>2, <3>2, <3>4, <3>5
      <3> QED BY <3>1, <3>6
    <2> QED BY <2>1, <2>2
  <1>8. \A e \in Edges : out'[e] # <<>> => thread[group[edges[e].from]] = "loop"
    BY <1>1, <1>4, <1>5 DEF InLoops
  <1> QED BY <1>6, <1>7, <1>8

\* flow_send_and_release() of a message just created.
LEMMA SendStep ==
  ASSUME Inv, NEW n \in Nodes, NEW a \in Messages, Send(n, a)
  PROVE  Inv'
  <1>1. /\ TypeOK /\ Fed /\ Signed /\ LogFed /\ Consuming /\ LogConsuming /\ InLoops /\ InPhase
        /\ Sharing
        /\ n \in timer /\ ref[a] = -1 /\ out' = Pushed(n, a) /\ ref' = [ref EXCEPT ![a] = Held(n)]
        /\ UNCHANGED <<phase, group, edges, sources, thread, started, timer, consumer, queue, exited,
                       forwards, logSources, logs, logOut, logQueue>>
    BY DEF Inv, Send, Create, graph, logVars
  <1>2. n \notin exited /\ thread[group[n]] = "loop"
    BY <1>1 DEF InLoops
  <1>3. /\ Signed' /\ \A t : Owing(t)' = Owing(t)
        /\ \A e \in Edges : out'[e] # <<>> => thread[group[edges[e].from]] = "loop"
    BY <1>1, <1>2, SendKeeps
  <1>4. a \in 0 .. MaxMessages
    BY FlowAssumption DEF Messages
  <1>5. /\ out' \in Seq(Seq(0 .. MaxMessages)) /\ Len(out') = Len(edges)
        /\ \A m : Cardinality(Places(out', m))
                     = Cardinality(Places(out, m)) + (IF a = m THEN Held(n) ELSE 0)
        /\ Held(n) \in Nat
    BY <1>1, <1>4, PushedFacts
  <1>6. ref \in [Messages -> Int] /\ ref' \in [Messages -> Int]
    BY <1>1, <1>5 DEF TypeOK
  <1>7. TypeOK'
    BY <1>1, <1>5, <1>6 DEF TypeOK, Nodes
  <1>8. Fed'
    BY <1>1, <1>3 DEF Fed, Nodes
  <1>9. Sharing'
    <2> SUFFICES ASSUME NEW m \in Messages
                 PROVE  InQueues(m)' = IF ref'[m] = -1 THEN 0 ELSE ref'[m]
      BY DEF Sharing
    <2>1. PICK la, oa, qa, ga, ob, hn :
            /\ la = Cardinality(At(logQueue, m)) /\ oa = Cardinality(Places(out, m))
            /\ qa = Cardinality(Places(queue, m)) /\ ga = Cardinality(Places(logOut, m))
            /\ ob = Cardinality(Places(out', m)) /\ hn = Held(n)
      OBVIOUS
    <2>2. la \in Nat /\ oa \in Nat /\ qa \in Nat /\ ga \in Nat /\ hn \in Nat
      BY <1>1, <1>5, <2>1, CountTypes
    <2>3. ob = oa + (IF a = m THEN hn ELSE 0)
      BY <1>5, <2>1
    <2>4. InQueues(m) = la + oa + qa + ga /\ InQueues(m)' = la + ob + qa + ga
      BY <1>1, <2>1 DEF InQueues
    <2>5. la + oa + qa + ga = IF ref[m] = -1 THEN 0 ELSE ref[m]
      BY <1>1, <2>4 DEF Sharing
    <2>6. CASE a = m
      <3>1. ref'[m] = hn /\ ref[m] = -1
        BY <1>1, <1>6, <2>1, <2>6
      <3> QED BY <2>2, <2>3, <2>4, <2>5, <2>6, <3>1
    <2>7. CASE a # m
      <3>1. ref'[m] = ref[m]
        BY <1>1, <1>6, <2>7
      <3> QED BY <2>2, <2>3, <2>4, <2>5, <2>7, <3>1
    <2> QED BY <2>6, <2>7
  <1>10. LogOwing' = LogOwing
    BY <1>1, LogOwingKept
  <1>11. LogFed' /\ Consuming' /\ LogConsuming' /\ InPhase'
    BY <1>1, <1>10, LogFedKept, ConsumingKept, LogConsumingKept, InPhaseKept
  <1>12. InLoops'
    BY <1>1, <1>3 DEF InLoops, Edges
  <1> QED BY <1>3, <1>7, <1>8, <1>9, <1>11, <1>12 DEF Inv

\* flow_exit(): what was owed is now on its way, with the sign-off behind it.
LEMMA ExitStep ==
  ASSUME Inv, NEW n \in Nodes, Exit(n)
  PROVE  Inv'
  <1>1. /\ TypeOK /\ Fed /\ Signed /\ LogFed /\ Consuming /\ LogConsuming /\ InLoops /\ InPhase
        /\ Sharing
        /\ thread[group[n]] = "loop" /\ n \notin exited
        /\ exited' = exited \cup {n} /\ out' = Pushed(n, SignOff)
        /\ started' = started \ {n} /\ timer' = timer \ {n}
        /\ UNCHANGED <<phase, group, edges, sources, thread, consumer, queue, ref, forwards,
                       logSources, logs, logOut, logQueue>>
    BY DEF Inv, Exit, Called, graph, logVars
  <1>2. SignOff \in 0 .. MaxMessages
    BY FlowAssumption DEF SignOff
  <1>3. /\ out' \in Seq(Seq(0 .. MaxMessages)) /\ Len(out') = Len(edges)
        /\ \A e \in Edges : out'[e] = IF e \in QueuesFrom(n) THEN Append(out[e], SignOff) ELSE out[e]
        /\ \A m : Cardinality(Places(out', m))
                     = Cardinality(Places(out, m)) + (IF SignOff = m THEN Held(n) ELSE 0)
    BY <1>1, <1>2, PushedFacts
  <1>4. /\ Nodes' = Nodes /\ Edges' = Edges /\ \A e : Direct(e)' = Direct(e)
        /\ \A t : QueuesTo(t)' = QueuesTo(t)
    BY <1>1 DEF Nodes, Edges, Direct, QueuesTo
  <1>5. TypeOK'
    BY <1>1, <1>3, <1>4 DEF TypeOK
  <1>6. \A e \in Edges : e \in QueuesFrom(n) <=> edges[e].from = n /\ ~ Direct(e)
    BY DEF QueuesFrom
  <1>7. ASSUME NEW e \in QueuesFrom(n)
        PROVE  /\ e \in Edges /\ out'[e] # <<>> /\ EndsInSignOff(out'[e])
               /\ Cardinality(At(out'[e], SignOff)) = 1
    <2>1. PICK T, s : T = 0 .. MaxMessages /\ s = out[e]
      OBVIOUS
    <2>2. e \in Edges /\ edges[e].from = n
      BY DEF QueuesFrom
    <2>3. s \in Seq(T) /\ SignOff \in T
      BY <1>1, <1>2, <2>1, <2>2, Elements
    <2>4. Cardinality(At(Append(s, SignOff), SignOff)) = Cardinality(At(s, SignOff)) + 1
      BY <2>3, AtAppend
    <2>5. Cardinality(At(s, SignOff)) = 0
      <3>1. At(s, SignOff) = {}
        BY <1>1, <2>1, <2>2 DEF Signed
      <3> QED BY <3>1, FS_EmptySet
    <2>6. Append(s, SignOff) # <<>> /\ EndsInSignOff(Append(s, SignOff))
      BY <2>3 DEF EndsInSignOff
    <2>7. out'[e] = Append(s, SignOff)
      BY <1>3, <2>1, <2>2
    <2> QED BY <2>2, <2>4, <2>5, <2>6, <2>7
  <1>8. \A t : Owing(t)' = Owing(t)
    <2> SUFFICES ASSUME NEW t PROVE Owing(t)' = Owing(t)
      OBVIOUS
    <2>1. ASSUME NEW e \in QueuesTo(t)
          PROVE  (edges[e].from \notin exited' \/ out'[e] # <<>>) <=> (edges[e].from \notin exited \/ out[e] # <<>>)
      <3>1. e \in Edges /\ ~ Direct(e)
        BY DEF QueuesTo
      <3>2. CASE edges[e].from = n
        BY <1>1, <1>6, <1>7, <3>1, <3>2
      <3>3. CASE edges[e].from # n
        BY <1>1, <1>3, <1>6, <3>1, <3>3
      <3> QED BY <3>2, <3>3
    <2> QED BY <1>1, <1>4, <2>1 DEF Owing
  <1>9. Fed'
    BY <1>1, <1>8 DEF Fed, Nodes
  <1>10. Signed'
    <2> SUFFICES ASSUME NEW e \in Edges
                 PROVE  /\ Direct(e) => out'[e] = <<>>
                        /\ IF edges[e].from \in exited' /\ out'[e] # <<>>
                           THEN EndsInSignOff(out'[e]) /\ Cardinality(At(out'[e], SignOff)) = 1
                           ELSE At(out'[e], SignOff) = {}
      BY <1>1, <1>4 DEF Signed
    <2>1. CASE e \in QueuesFrom(n)
      BY <1>1, <1>6, <1>7, <2>1
    <2>2. CASE e \notin QueuesFrom(n) /\ edges[e].from = n
      <3>1. Direct(e) /\ out[e] = <<>> /\ out'[e] = out[e]
        BY <1>1, <1>3, <1>6, <2>2 DEF Signed
      <3>2. At(out'[e], SignOff) = {}
        BY <3>1, AtEmpty
      <3> QED BY <3>1, <3>2
    <2>3. CASE e \notin QueuesFrom(n) /\ edges[e].from # n
      BY <1>1, <1>3, <2>3 DEF Signed
    <2> QED BY <2>1, <2>2, <2>3
  <1>11. Sharing'
    <2> SUFFICES ASSUME NEW m \in Messages
                 PROVE  InQueues(m)' = IF ref'[m] = -1 THEN 0 ELSE ref'[m]
      BY DEF Sharing
    <2>1. SignOff # m
      BY FlowAssumption DEF Messages, SignOff
    <2>2. Cardinality(Places(out', m)) = Cardinality(Places(out, m))
      <3>1. Cardinality(Places(out, m)) \in Nat
        BY <1>1, CountTypes
      <3> QED BY <1>3, <2>1, <3>1
    <2>3. InQueues(m)' = InQueues(m)
      BY <1>1, <2>2 DEF InQueues
    <2> QED BY <1>1, <2>3 DEF Sharing
  <1>12. LogOwing' = LogOwing
    BY <1>1, LogOwingKept
  <1>13. LogFed' /\ Consuming' /\ LogConsuming' /\ InPhase'
    BY <1>1, <1>12, LogFedKept, ConsumingKept, LogConsumingKept, InPhaseKept
  <1>14. InLoops'
    <2>1. \A e \in Edges : out'[e] # <<>> => thread[group[edges[e].from]] = "loop"
      BY <1>1, <1>3, <1>6 DEF InLoops
    <2>2. \A t \in exited' : t \notin timer' /\ thread[group[t]] \in {"loop", "over", "returned"}
      BY <1>1 DEF InLoops
    <2> QED BY <1>1, <1>4, <2>1, <2>2 DEF InLoops
  <1> QED BY <1>5, <1>9, <1>10, <1>11, <1>13, <1>14 DEF Inv


\* What flow_log() does to the producer of a thread.
LEMMA LoggedFacts ==
  ASSUME TypeOK, NEW g \in Groups, NEW a \in Messages,
         logOut' = [logOut EXCEPT ![g] = Append(@, a)]
  PROVE  /\ logOut' \in [Groups -> Seq(Messages)]
         /\ \A h \in Groups \ {g} : logOut'[h] = logOut[h]
         /\ \A m : Cardinality(Places(logOut', m))
                     = Cardinality(Places(logOut, m)) + (IF a = m THEN 1 ELSE 0)
  <1>1. PICK M, s, t : M = Messages /\ s = logOut[g] /\ t = Append(s, a)
    OBVIOUS
  <1>2. logOut \in [Groups -> Seq(M)] /\ a \in M
    BY <1>1 DEF TypeOK
  <1>3. s \in Seq(M)
    BY <1>1, <1>2
  <1>4. t \in Seq(M) /\ logOut' = [logOut EXCEPT ![g] = t]
    BY <1>1, <1>2, <1>3
  <1>5. logOut' \in [Groups -> Seq(M)] /\ \A h \in Groups \ {g} : logOut'[h] = logOut[h]
    BY <1>2, <1>4
  <1>6. Replaces(M, Groups, logOut, g, t, logOut')
    BY <1>2, <1>4, FlowAssumption DEF Replaces
  <1>7. ASSUME NEW m
        PROVE  Cardinality(Places(logOut', m)) = Cardinality(Places(logOut, m)) + (IF a = m THEN 1 ELSE 0)
    <2>1. Cardinality(Places(logOut', m)) + Cardinality(At(logOut[g], m))
            = Cardinality(Places(logOut, m)) + Cardinality(At(t, m))
      BY <1>6, PlacesReplaced
    <2>2. Cardinality(At(Append(s, a), m)) = Cardinality(At(s, m)) + (IF a = m THEN 1 ELSE 0)
      BY <1>2, <1>3, AtAppend
    <2>3. Cardinality(Places(logOut', m)) \in Nat
      <3>1. DOMAIN logOut' = Groups /\ IsFiniteSet(Groups) /\ \A h \in Groups : logOut'[h] \in Seq(M)
        BY <1>5, FlowAssumption
      <3> QED BY <3>1, PlacesFinite
    <2>4. PICK gb, ga, sa, d : /\ gb = Cardinality(Places(logOut', m)) /\ ga = Cardinality(Places(logOut, m))
                               /\ sa = Cardinality(At(s, m)) /\ d = IF a = m THEN 1 ELSE 0
      OBVIOUS
    <2>5. gb \in Nat /\ ga \in Nat /\ sa \in Nat /\ d \in Nat
      BY <1>3, <2>3, <2>4, CountTypes, AtFinite
    <2>6. gb + sa = ga + (sa + d)
      BY <1>1, <2>1, <2>2, <2>4
    <2>7. gb = ga + d
      BY <2>5, <2>6
    <2> QED BY <2>4, <2>7
  <1> QED BY <1>1, <1>5, <1>7

\* flow_log() of a message just created.
LEMMA LogStep ==
  ASSUME Inv, NEW n \in Nodes, NEW a \in Messages, Log(n, a)
  PROVE  Inv'
  <1>1. /\ TypeOK /\ Fed /\ Signed /\ LogFed /\ Consuming /\ LogConsuming /\ InLoops /\ InPhase
        /\ Sharing
        /\ thread[group[n]] = "loop" /\ ref[a] = -1
        /\ logOut' = IF group[n] = Main THEN logOut ELSE [logOut EXCEPT ![group[n]] = Append(@, a)]
        /\ ref' = [ref EXCEPT ![a] = IF group[n] = Main THEN 0 ELSE 1]
        /\ UNCHANGED <<phase, group, edges, sources, thread, started, timer, consumer, out, queue,
                       exited, forwards, logSources, logs, logQueue>>
    BY DEF Inv, Log, Called, Create, graph
  <1>2. group[n] \in Groups
    BY <1>1, Elements
  <1>3. PICK d : d = IF group[n] = Main THEN 0 ELSE 1
    OBVIOUS
  <1>4. /\ logOut' \in [Groups -> Seq(Messages)]
        /\ \A h \in Groups : logOut'[h] # <<>> => h # Main /\ thread[h] = "loop"
        /\ \A m : Cardinality(Places(logOut', m)) = Cardinality(Places(logOut, m)) + (IF a = m THEN d ELSE 0)
    <2>1. CASE group[n] = Main
      <3>1. logOut' = logOut /\ d = 0
        BY <1>1, <1>3, <2>1
      <3>2. \A m : Cardinality(Places(logOut, m)) \in Nat
        BY <1>1, CountTypes
      <3>3. \A m : Cardinality(Places(logOut', m)) = Cardinality(Places(logOut, m)) + (IF a = m THEN d ELSE 0)
        BY <3>1, <3>2
      <3> QED BY <1>1, <3>1, <3>3 DEF TypeOK, InLoops
    <2>2. CASE group[n] # Main
      <3>1. logOut' = [logOut EXCEPT ![group[n]] = Append(@, a)] /\ d = 1
        BY <1>1, <1>3, <2>2
      <3>2. /\ logOut' \in [Groups -> Seq(Messages)]
            /\ \A h \in Groups \ {group[n]} : logOut'[h] = logOut[h]
            /\ \A m : Cardinality(Places(logOut', m)) = Cardinality(Places(logOut, m)) + (IF a = m THEN 1 ELSE 0)
        BY <1>1, <1>2, <3>1, LoggedFacts
      <3> QED BY <1>1, <2>2, <3>1, <3>2 DEF InLoops
    <2> QED BY <2>1, <2>2
  <1>5. ref \in [Messages -> Int] /\ ref' \in [Messages -> Int] /\ ref' = [ref EXCEPT ![a] = d] /\ d \in Nat
    BY <1>1, <1>3 DEF TypeOK
  <1>6. TypeOK'
    BY <1>1, <1>4, <1>5 DEF TypeOK, Nodes
  <1>7. Sharing'
    <2> SUFFICES ASSUME NEW m \in Messages
                 PROVE  InQueues(m)' = IF ref'[m] = -1 THEN 0 ELSE ref'[m]
      BY DEF Sharing
    <2>1. PICK la, oa, qa, ga, gb :
            /\ la = Cardinality(At(logQueue, m)) /\ oa = Cardinality(Places(out, m))
            /\ qa = Cardinality(Places(queue, m)) /\ ga = Cardinality(Places(logOut, m))
            /\ gb = Cardinality(Places(logOut', m))
      OBVIOUS
    <2>2. la \in Nat /\ oa \in Nat /\ qa \in Nat /\ ga \in Nat
      BY <1>1, <2>1, CountTypes
    <2>3. gb = ga + (IF a = m THEN d ELSE 0)
      BY <1>4, <2>1
    <2>4. InQueues(m) = la + oa + qa + ga /\ InQueues(m)' = la + oa + qa + gb
      BY <1>1, <2>1 DEF InQueues
    <2>5. la + oa + qa + ga = IF ref[m] = -1 THEN 0 ELSE ref[m]
      BY <1>1, <2>4 DEF Sharing
    <2>6. CASE a = m
      <3>1. ref'[m] = d /\ ref[m] = -1
        BY <1>1, <1>5, <2>6
      <3> QED BY <1>5, <2>2, <2>3, <2>4, <2>5, <2>6, <3>1
    <2>7. CASE a # m
      <3>1. ref'[m] = ref[m]
        BY <1>5, <2>7
      <3> QED BY <2>2, <2>3, <2>4, <2>5, <2>7, <3>1
    <2> QED BY <2>6, <2>7
  <1>8. LogOwing' = LogOwing
    BY <1>1, LogOwingKept
  <1>9. Fed' /\ Signed' /\ LogFed' /\ Consuming' /\ LogConsuming' /\ InPhase'
    BY <1>1, <1>8, FedKept, SignedKept, LogFedKept, ConsumingKept, LogConsumingKept, InPhaseKept
  <1>10. InLoops'
    BY <1>1, <1>4 DEF InLoops, Edges
  <1> QED BY <1>6, <1>7, <1>9, <1>10 DEF Inv

\* A consumer takes the first element of its queue.
Taken(n, a) ==
  /\ queue' \in Seq(Seq(0 .. MaxMessages)) /\ Len(queue') = Len(group)
  /\ a \in 0 .. MaxMessages
  /\ \A t \in Nodes \ {n} : queue'[t] = queue[t]
  /\ queue'[n] # <<>> => queue'[n][Len(queue'[n])] = queue[n][Len(queue[n])]
  /\ \A m : /\ Cardinality(At(queue[n], m)) = Cardinality(At(queue'[n], m)) + (IF a = m THEN 1 ELSE 0)
            /\ Cardinality(At(queue'[n], m)) \in Nat
            /\ Cardinality(Places(queue, m)) = Cardinality(Places(queue', m)) + (IF a = m THEN 1 ELSE 0)
            /\ Cardinality(Places(queue', m)) \in Nat

LEMMA TakenFacts ==
  ASSUME TypeOK, NEW n \in Nodes, queue[n] # <<>>, queue' = [queue EXCEPT ![n] = Tail(@)], NEW a,
         a = Head(queue[n])
  PROVE  Taken(n, a)
  <1>1. PICK T, S, s, t : T = 0 .. MaxMessages /\ S = Seq(T) /\ s = queue[n] /\ t = Tail(s)
    OBVIOUS
  <1>2. /\ DOMAIN queue = Nodes /\ \A k \in Nodes : queue[k] \in Seq(T)
        /\ Nodes = 1 .. Len(group) /\ Len(group) \in Nat /\ IsFiniteSet(Nodes)
    BY <1>1, Domains, Elements
  <1>3. s \in Seq(T) /\ s # <<>> /\ a = Head(s)
    BY <1>1, <1>2
  <1>4. a \in T /\ t \in Seq(T) /\ (t # <<>> => t[Len(t)] = s[Len(s)])
    <2>1. a \in T /\ Tail(s) \in Seq(T) /\ (Tail(s) # <<>> => Tail(s)[Len(Tail(s))] = s[Len(s)])
      BY <1>3, TailFacts
    <2> QED BY <1>1, <2>1
  <1>5. queue \in [Nodes -> Seq(T)] /\ queue' = [queue EXCEPT ![n] = t]
    <2>1. queue = [k \in Nodes |-> queue[k]]
      BY <1>2 DEF TypeOK
    <2> QED BY <1>1, <1>2, <2>1
  <1>6. /\ queue' \in [Nodes -> Seq(T)] /\ queue'[n] = t /\ \A k \in Nodes \ {n} : queue'[k] = queue[k]
    BY <1>4, <1>5
  <1>7. queue' \in Seq(S) /\ Len(queue') = Len(group)
    <2>1. queue' \in [1 .. Len(group) -> S]
      BY <1>1, <1>2, <1>6
    <2>2. Len(group) \in Nat
      BY <1>2
    <2> QED BY <2>1, <2>2, AsSequence, ZenonT(60)
  <1>8. Replaces(T, Nodes, queue, n, t, queue')
    BY <1>2, <1>4, <1>5 DEF Replaces
  <1>9. ASSUME NEW m
        PROVE  /\ Cardinality(At(queue[n], m)) = Cardinality(At(queue'[n], m)) + (IF a = m THEN 1 ELSE 0)
               /\ Cardinality(At(queue'[n], m)) \in Nat
               /\ Cardinality(Places(queue, m)) = Cardinality(Places(queue', m)) + (IF a = m THEN 1 ELSE 0)
               /\ Cardinality(Places(queue', m)) \in Nat
    <2>1. Cardinality(Places(queue', m)) + Cardinality(At(queue[n], m))
            = Cardinality(Places(queue, m)) + Cardinality(At(t, m))
      BY <1>8, PlacesReplaced
    <2>2. Cardinality(At(s, m)) = Cardinality(At(Tail(s), m)) + (IF a = m THEN 1 ELSE 0)
      BY <1>3, AtTail
    <2>3. Cardinality(Places(queue', m)) \in Nat
      <3>1. DOMAIN queue' = Nodes /\ \A k \in Nodes : queue'[k] \in Seq(T)
        BY <1>6
      <3> QED BY <1>2, <3>1, PlacesFinite
    <2>4. PICK qb, qa, sa, ta, d : /\ qb = Cardinality(Places(queue', m)) /\ qa = Cardinality(Places(queue, m))
                                   /\ sa = Cardinality(At(s, m)) /\ ta = Cardinality(At(t, m))
                                   /\ d = IF a = m THEN 1 ELSE 0
      OBVIOUS
    <2>5. qb \in Nat /\ qa \in Nat /\ sa \in Nat /\ ta \in Nat /\ d \in Nat
      BY <1>3, <1>4, <2>3, <2>4, CountTypes, AtFinite
    <2>6. qb + sa = qa + ta /\ sa = ta + d
      BY <1>1, <2>1, <2>2, <2>4
    <2>7. qa = qb + d
      BY <2>5, <2>6
    <2> QED BY <1>1, <1>6, <2>4, <2>5, <2>6, <2>7
  <1>10. queue' \in Seq(Seq(0 .. MaxMessages)) /\ a \in 0 .. MaxMessages
    BY <1>1, <1>4, <1>7
  <1> QED BY <1>1, <1>4, <1>6, <1>7, <1>9, <1>10 DEF Taken


\* What receive sends on or logs, and how many references it holds for that.
Sent(a, ho) ==
  /\ out' \in Seq(Seq(0 .. MaxMessages)) /\ Len(out') = Len(edges)
  /\ Signed' /\ \A t : Owing(t)' = Owing(t)
  /\ \A e \in Edges : out'[e] # <<>> => thread[group[edges[e].from]] = "loop"
  /\ \A m : Cardinality(Places(out', m)) = Cardinality(Places(out, m)) + (IF a = m THEN ho ELSE 0)

Logged(a, hg) ==
  /\ logOut' \in [Groups -> Seq(Messages)]
  /\ \A h \in Groups : logOut'[h] # <<>> => h # Main /\ thread[h] = "loop"
  /\ \A m : Cardinality(Places(logOut', m)) = Cardinality(Places(logOut, m)) + (IF a = m THEN hg ELSE 0)

LEMMA ForwardFacts ==
  ASSUME Inv, NEW n \in Nodes, NEW use \in {"drop", "send", "log"}, Receive(n, use), NEW a,
         a = Head(queue[n]), a \in Messages
  PROVE  \E ho \in Nat, hg \in Nat : Sent(a, ho) /\ Logged(a, hg)
             /\ ref' = [ref EXCEPT ![a] = Less(ref[a] + (ho + hg))]
  <1> DEFINE logged == use = "log" /\ group[n] # Main
             holds == IF use = "send" THEN Held(n) ELSE IF logged THEN 1 ELSE 0
  <1>1. /\ thread[group[n]] = "loop" /\ UNCHANGED <<group, edges, exited, thread>>
        /\ use # "drop" => n \notin exited
        /\ out' = IF use = "send" THEN Pushed(n, a) ELSE out
        /\ logOut' = IF logged THEN [logOut EXCEPT ![group[n]] = Append(@, a)] ELSE logOut
        /\ ref' = [ref EXCEPT ![a] = Less(ref[a] + holds)]
    BY DEF Receive, graph
  <1>2. TypeOK /\ Signed /\ InLoops
    BY DEF Inv
  <1>3. group[n] \in Groups /\ a \in 0 .. MaxMessages
    <2>1. a \in 0 .. MaxMessages
      BY FlowAssumption DEF Messages
    <2> QED BY <1>2, <2>1, Elements
  <1>4. \A m : Cardinality(Places(out, m)) \in Nat /\ Cardinality(Places(logOut, m)) \in Nat
    BY <1>2, CountTypes
  <1>5. ASSUME out' = out, NEW z, z = 0 PROVE Sent(a, z)
    <2>1. out' \in Seq(Seq(0 .. MaxMessages)) /\ Len(out') = Len(edges)
      BY <1>2, <1>5 DEF TypeOK
    <2>2. Signed'
      BY <1>1, <1>2, <1>5, SignedKept
    <2>3. \A t : Owing(t)' = Owing(t)
      BY <1>1, <1>5 DEF Owing, QueuesTo, Direct, Edges
    <2>4. \A e \in Edges : out'[e] # <<>> => thread[group[edges[e].from]] = "loop"
      BY <1>2, <1>5 DEF InLoops
    <2>5. \A m : Cardinality(Places(out', m)) = Cardinality(Places(out, m)) + (IF a = m THEN z ELSE 0)
      BY <1>4, <1>5
    <2> QED BY <2>1, <2>2, <2>3, <2>4, <2>5 DEF Sent
  <1>6. ASSUME logOut' = logOut, NEW z, z = 0 PROVE Logged(a, z)
    <2>1. logOut' \in [Groups -> Seq(Messages)]
      BY <1>2, <1>6 DEF TypeOK
    <2>2. \A h \in Groups : logOut'[h] # <<>> => h # Main /\ thread[h] = "loop"
      BY <1>2, <1>6 DEF InLoops
    <2>3. \A m : Cardinality(Places(logOut', m)) = Cardinality(Places(logOut, m)) + (IF a = m THEN z ELSE 0)
      BY <1>4, <1>6
    <2> QED BY <2>1, <2>2, <2>3 DEF Logged
  <1>7. CASE use = "send"
    <2>1. n \notin exited /\ out' = Pushed(n, a) /\ logOut' = logOut /\ holds = Held(n)
      BY <1>1, <1>7
    <2>2. /\ Signed' /\ \A t : Owing(t)' = Owing(t)
          /\ \A e \in Edges : out'[e] # <<>> => thread[group[edges[e].from]] = "loop"
      BY <1>1, <2>1, SendKeeps
    <2>3. /\ out' \in Seq(Seq(0 .. MaxMessages)) /\ Len(out') = Len(edges) /\ Held(n) \in Nat
          /\ \A m : Cardinality(Places(out', m)) = Cardinality(Places(out, m)) + (IF a = m THEN Held(n) ELSE 0)
      BY <1>2, <1>3, <2>1, PushedFacts
    <2>4. PICK ho \in Nat, hg \in Nat : ho = Held(n) /\ hg = 0
      BY <2>3
    <2>5. ref' = [ref EXCEPT ![a] = Less(ref[a] + (ho + hg))]
      <3>1. ho + hg = holds
        BY <2>1, <2>4
      <3> QED BY <1>1, <3>1
    <2>6. Sent(a, ho)
      BY <2>2, <2>3, <2>4 DEF Sent
    <2>7. Logged(a, hg)
      BY <1>6, <2>1, <2>4
    <2> QED BY <2>5, <2>6, <2>7
  <1>8. CASE logged
    <2>1. logOut' = [logOut EXCEPT ![group[n]] = Append(@, a)] /\ out' = out /\ holds = 1 /\ group[n] # Main
      BY <1>1, <1>8
    <2>2. /\ logOut' \in [Groups -> Seq(Messages)]
          /\ \A h \in Groups \ {group[n]} : logOut'[h] = logOut[h]
          /\ \A m : Cardinality(Places(logOut', m)) = Cardinality(Places(logOut, m)) + (IF a = m THEN 1 ELSE 0)
      BY <1>2, <1>3, <2>1, LoggedFacts
    <2>3. \A h \in Groups : logOut'[h] # <<>> => h # Main /\ thread[h] = "loop"
      BY <1>1, <1>2, <2>1, <2>2 DEF InLoops
    <2>4. PICK ho \in Nat, hg \in Nat : ho = 0 /\ hg = 1
      OBVIOUS
    <2>5. ref' = [ref EXCEPT ![a] = Less(ref[a] + (ho + hg))]
      <3>1. ho + hg = holds
        BY <2>1, <2>4
      <3> QED BY <1>1, <3>1
    <2>6. Sent(a, ho)
      BY <1>5, <2>1, <2>4
    <2>7. Logged(a, hg)
      BY <2>2, <2>3, <2>4 DEF Logged
    <2> QED BY <2>5, <2>6, <2>7
  <1>9. CASE use # "send" /\ ~ logged
    <2>1. logOut' = logOut /\ out' = out /\ holds = 0
      BY <1>1, <1>9
    <2>2. PICK ho \in Nat, hg \in Nat : ho = 0 /\ hg = 0
      OBVIOUS
    <2>3. ref' = [ref EXCEPT ![a] = Less(ref[a] + (ho + hg))]
      <3>1. ho + hg = holds
        BY <2>1, <2>2
      <3> QED BY <1>1, <3>1
    <2>4. Sent(a, ho) /\ Logged(a, hg)
      BY <1>5, <1>6, <2>1, <2>2
    <2> QED BY <2>3, <2>4
  <1> QED BY <1>7, <1>8, <1>9

\* flow_node_consumer(): a node receives a message.
LEMMA ReceiveStep ==
  ASSUME Inv, NEW n \in Nodes, NEW use \in {"drop", "send", "log"}, Receive(n, use)
  PROVE  Inv'
  <1>1. PICK a : a = Head(queue[n])
    OBVIOUS
  <1>2. /\ TypeOK /\ Fed /\ Signed /\ LogFed /\ Consuming /\ LogConsuming /\ InLoops /\ InPhase
        /\ Sharing
        /\ queue[n] # <<>> /\ a # SignOff
        /\ queue' = [queue EXCEPT ![n] = Tail(@)]
        /\ forwards' = IF use # "drop" THEN forwards + 1 ELSE forwards
        /\ UNCHANGED <<phase, group, edges, sources, thread, started, timer, consumer, exited,
                       logSources, logs, logQueue>>
    BY <1>1 DEF Inv, Receive, graph
  <1>3. Taken(n, a)
    <2>1. TypeOK /\ queue[n] # <<>> /\ queue' = [queue EXCEPT ![n] = Tail(@)]
      BY <1>2
    <2> QED BY <1>1, <2>1, TakenFacts
  <1>4. a \in Messages
    <2>1. a \in 0 .. MaxMessages
      BY <1>3 DEF Taken
    <2> QED BY <1>2, <2>1, FlowAssumption DEF Messages, SignOff
  <1>5. PICK ho \in Nat, hg \in Nat : Sent(a, ho) /\ Logged(a, hg)
             /\ ref' = [ref EXCEPT ![a] = Less(ref[a] + (ho + hg))]
    BY <1>1, <1>4, ForwardFacts
  <1>6. ref \in [Messages -> Int]
    BY <1>2 DEF TypeOK
  <1>7. ASSUME NEW m \in Messages
        PROVE  InQueues(m)' = (IF ref'[m] = -1 THEN 0 ELSE ref'[m]) /\ ref'[m] \in Int
    <2>1. PICK la, oa, qa, ga, ob, qb, gb :
            /\ la = Cardinality(At(logQueue, m)) /\ oa = Cardinality(Places(out, m))
            /\ qa = Cardinality(Places(queue, m)) /\ ga = Cardinality(Places(logOut, m))
            /\ ob = Cardinality(Places(out', m)) /\ qb = Cardinality(Places(queue', m))
            /\ gb = Cardinality(Places(logOut', m))
      OBVIOUS
    <2>2. la \in Nat /\ oa \in Nat /\ qa \in Nat /\ ga \in Nat /\ qb \in Nat
      BY <1>2, <1>3, <2>1, CountTypes DEF Taken
    <2>3. /\ ob = oa + (IF a = m THEN ho ELSE 0) /\ gb = ga + (IF a = m THEN hg ELSE 0)
          /\ qa = qb + (IF a = m THEN 1 ELSE 0)
      BY <1>3, <1>5, <2>1 DEF Taken, Sent, Logged
    <2>4. InQueues(m) = la + oa + qa + ga /\ InQueues(m)' = la + ob + qb + gb
      BY <1>2, <2>1 DEF InQueues
    <2>5. la + oa + qa + ga = IF ref[m] = -1 THEN 0 ELSE ref[m]
      BY <1>2, <2>4 DEF Sharing
    <2>6. CASE a = m
      <3>1. PICK k, c, h : k = ref[m] /\ c = la + oa + qa + ga /\ h = ho + hg
        OBVIOUS
      <3>2. k \in Int /\ c \in Nat /\ c >= 1 /\ h \in Nat /\ c = IF k = -1 THEN 0 ELSE k
        BY <1>6, <2>2, <2>3, <2>5, <2>6, <3>1
      <3>3. Less(k + h) = c + h - 1
        BY <3>2, Released
      <3>4. ref'[m] = Less(k + h)
        BY <1>4, <1>5, <1>6, <2>6, <3>1
      <3>5. la + ob + qb + gb = c + h - 1 /\ c + h - 1 \in Nat
        BY <2>2, <2>3, <2>6, <3>1, <3>2
      <3> QED BY <2>4, <3>3, <3>4, <3>5
    <2>7. CASE a # m
      <3>1. ref'[m] = ref[m] /\ ref[m] \in Int
        BY <1>5, <1>6, <2>7
      <3> QED BY <2>2, <2>3, <2>4, <2>5, <2>7, <3>1
    <2> QED BY <2>6, <2>7
  <1>8. Sharing'
    BY <1>7 DEF Sharing
  <1>9. TypeOK'
    <2>1. ref' \in [Messages -> Int]
      BY <1>5, <1>6, <1>7
    <2>2. /\ queue' \in Seq(Seq(0 .. MaxMessages)) /\ Len(queue') = Len(group)
          /\ out' \in Seq(Seq(0 .. MaxMessages)) /\ Len(out') = Len(edges)
          /\ logOut' \in [Groups -> Seq(Messages)]
      BY <1>3, <1>5 DEF Taken, Sent, Logged
    <2>3. forwards' \in Nat
      BY <1>2 DEF TypeOK
    <2> QED BY <1>2, <2>1, <2>2, <2>3 DEF TypeOK, Nodes
  <1>10. Fed'
    <2> SUFFICES ASSUME NEW t \in Nodes
                 PROVE  /\ sources[t] = Cardinality(Owing(t)) + Cardinality(At(queue'[t], SignOff))
                        /\ queue'[t] # <<>> => EndsInSignOff(queue'[t]) \/ Owing(t) # {}
      BY <1>2, <1>5 DEF Fed, Nodes, Sent
    <2>1. /\ sources[t] = Cardinality(Owing(t)) + Cardinality(At(queue[t], SignOff))
          /\ queue[t] # <<>> => EndsInSignOff(queue[t]) \/ Owing(t) # {}
      BY <1>2 DEF Fed
    <2>2. CASE t # n
      BY <1>3, <2>1, <2>2 DEF Taken
    <2>3. CASE t = n
      <3>1. Cardinality(At(queue[n], SignOff)) = Cardinality(At(queue'[n], SignOff))
        BY <1>2, <1>3 DEF Taken
      <3>2. queue'[n] # <<>> => EndsInSignOff(queue'[n]) \/ Owing(n) # {}
        BY <1>2, <1>3, <2>1, <2>3 DEF EndsInSignOff, Taken
      <3> QED BY <2>1, <2>3, <3>1, <3>2
    <2> QED BY <2>2, <2>3
  <1>11. LogOwing' = LogOwing
    BY <1>2, LogOwingKept
  <1>12. LogFed' /\ Consuming' /\ LogConsuming' /\ InPhase'
    BY <1>2, <1>11, LogFedKept, ConsumingKept, LogConsumingKept, InPhaseKept
  <1>13. InLoops'
    BY <1>2, <1>5 DEF InLoops, Edges, Sent, Logged
  <1> QED BY <1>5, <1>8, <1>9, <1>10, <1>12, <1>13 DEF Inv, Sent


\* flow_node_consumer(): a node receives a sign-off.
LEMMA ReceiveSignOffStep ==
  ASSUME Inv, NEW n \in Nodes, ReceiveSignOff(n)
  PROVE  Inv'
  <1>1. /\ TypeOK /\ Fed /\ Signed /\ LogFed /\ Consuming /\ LogConsuming /\ InLoops /\ InPhase
        /\ Sharing
        /\ thread[group[n]] = "loop" /\ consumer[n] = "open"
        /\ queue[n] # <<>> /\ Head(queue[n]) = SignOff
        /\ queue' = [queue EXCEPT ![n] = Tail(@)]
        /\ sources' = [sources EXCEPT ![n] = @ - 1]
        /\ consumer' = IF sources'[n] = 0 THEN [consumer EXCEPT ![n] = "closed"] ELSE consumer
        /\ UNCHANGED <<phase, group, edges, thread, started, timer, out, ref, exited, forwards,
                       logSources, logs, logOut, logQueue>>
    BY DEF Inv, ReceiveSignOff, graph, logVars
  <1>2. PICK a : a = SignOff
    OBVIOUS
  <1>3. Taken(n, a)
    <2>1. TypeOK /\ queue[n] # <<>> /\ queue' = [queue EXCEPT ![n] = Tail(@)] /\ a = Head(queue[n])
      BY <1>1, <1>2
    <2> QED BY <2>1, TakenFacts
  <1>4. /\ Nodes' = Nodes /\ Edges' = Edges /\ \A t : Owing(t)' = Owing(t)
        /\ \A g : Members(g)' = Members(g)
    BY <1>1 DEF Nodes, Edges, Owing, QueuesTo, Direct, Members
  <1>5. /\ sources' \in Seq(Int) /\ Len(sources') = Len(group)
        /\ sources'[n] = sources[n] - 1 /\ \A t \in Nodes \ {n} : sources'[t] = sources[t]
    <2>1. PICK v : v = sources[n] - 1
      OBVIOUS
    <2>2. sources[n] \in Int
      BY <1>1, Elements
    <2>3. sources \in Seq(Int) /\ n \in DOMAIN sources /\ v \in Int /\ sources' = [sources EXCEPT ![n] = v]
      BY <1>1, <2>1, <2>2, Domains DEF TypeOK
    <2>4. /\ sources' \in Seq(Int) /\ Len(sources') = Len(sources)
          /\ sources'[n] = v /\ \A t \in DOMAIN sources \ {n} : sources'[t] = sources[t]
      BY <2>3, ExceptFacts
    <2> QED BY <1>1, <2>1, <2>4, Domains DEF TypeOK
  <1>6. /\ consumer' \in Seq({"idle", "open", "closed"}) /\ Len(consumer') = Len(group)
        /\ consumer'[n] = (IF sources'[n] = 0 THEN "closed" ELSE "open")
        /\ \A t \in Nodes \ {n} : consumer'[t] = consumer[t]
    <2>1. PICK C, v : C = {"idle", "open", "closed"} /\ v = IF sources'[n] = 0 THEN "closed" ELSE "open"
      OBVIOUS
    <2>2. consumer \in Seq(C) /\ DOMAIN consumer = Nodes /\ Len(consumer) = Len(group) /\ v \in C
      BY <1>1, <2>1, Domains DEF TypeOK
    <2>3. consumer' = [consumer EXCEPT ![n] = v]
      <3>1. CASE sources'[n] = 0
        BY <1>1, <2>1, <3>1
      <3>2. CASE sources'[n] # 0
        <4>1. consumer' = consumer /\ v = "open" /\ consumer[n] = "open"
          BY <1>1, <2>1, <3>2
        <4>2. consumer = [k \in Nodes |-> consumer[k]]
          BY <2>2
        <4> QED BY <4>1, <4>2
      <3> QED BY <3>1, <3>2
    <2>4. /\ consumer' \in Seq(C) /\ Len(consumer') = Len(consumer)
          /\ consumer'[n] = v /\ \A t \in DOMAIN consumer \ {n} : consumer'[t] = consumer[t]
      BY <2>2, <2>3, ExceptFacts
    <2> QED BY <2>1, <2>2, <2>4
  <1>7. TypeOK'
    <2>1. queue' \in Seq(Seq(0 .. MaxMessages)) /\ Len(queue') = Len(group)
      BY <1>3 DEF Taken
    <2> QED BY <1>1, <1>4, <1>5, <1>6, <2>1 DEF TypeOK
  <1>8. Fed'
    <2> SUFFICES ASSUME NEW t \in Nodes
                 PROVE  /\ sources'[t] = Cardinality(Owing(t)) + Cardinality(At(queue'[t], SignOff))
                        /\ queue'[t] # <<>> => EndsInSignOff(queue'[t]) \/ Owing(t) # {}
      BY <1>4 DEF Fed
    <2>1. /\ sources[t] = Cardinality(Owing(t)) + Cardinality(At(queue[t], SignOff))
          /\ queue[t] # <<>> => EndsInSignOff(queue[t]) \/ Owing(t) # {}
      BY <1>1 DEF Fed
    <2>2. CASE t # n
      BY <1>3, <1>5, <2>1, <2>2 DEF Taken
    <2>3. CASE t = n
      <3>1. PICK o, x, y : /\ o = Cardinality(Owing(n)) /\ x = Cardinality(At(queue[n], SignOff))
                           /\ y = Cardinality(At(queue'[n], SignOff))
        OBVIOUS
      <3>2. x = y + 1 /\ y \in Nat /\ o \in Nat
        BY <1>1, <1>2, <1>3, <3>1, OwingFinite DEF Taken
      <3>3. sources'[n] = o + y
        BY <1>5, <2>1, <2>3, <3>1, <3>2
      <3>4. queue'[n] # <<>> => EndsInSignOff(queue'[n]) \/ Owing(n) # {}
        BY <1>1, <1>3, <2>1, <2>3 DEF EndsInSignOff, Taken
      <3> QED BY <2>3, <3>1, <3>3, <3>4
    <2> QED BY <2>2, <2>3
  <1>9. Consuming'
    <2> SUFFICES ASSUME NEW t \in Nodes
                 PROVE  /\ consumer'[t] = "open" => thread[group[t]] = "loop"
                        /\ consumer'[t] = "closed" => sources'[t] = 0
                        /\ consumer'[t] = "idle" /\ thread[group[t]] \in {"loop", "over", "returned"}
                             => sources'[t] = 0
      BY <1>1, <1>4 DEF Consuming
    <2>1. CASE t = n
      BY <1>1, <1>6, <2>1
    <2>2. CASE t # n
      BY <1>1, <1>5, <1>6, <2>2 DEF Consuming
    <2> QED BY <2>1, <2>2
  <1>10. Sharing'
    <2> SUFFICES ASSUME NEW m \in Messages
                 PROVE  InQueues(m)' = IF ref'[m] = -1 THEN 0 ELSE ref'[m]
      BY DEF Sharing
    <2>1. a # m
      BY <1>2, FlowAssumption DEF Messages, SignOff
    <2>2. Cardinality(Places(queue', m)) = Cardinality(Places(queue, m))
      BY <1>3, <2>1 DEF Taken
    <2>3. InQueues(m)' = InQueues(m)
      BY <1>1, <2>2 DEF InQueues
    <2> QED BY <1>1, <2>3 DEF Sharing
  <1>11. LogOwing' = LogOwing
    BY <1>1, LogOwingKept
  <1>12. Signed' /\ LogFed' /\ LogConsuming'
    BY <1>1, <1>11, SignedKept, LogFedKept, LogConsumingKept
  <1>13. InLoops'
    BY <1>1, <1>4 DEF InLoops
  <1>14. phase # "build"
    BY <1>1 DEF InPhase
  <1>15. InPhase'
    BY <1>1, <1>4, <1>14 DEF InPhase
  <1> QED BY <1>7, <1>8, <1>9, <1>10, <1>12, <1>13, <1>15 DEF Inv

\* The kernel writes what a producer has: with the sign-off goes the debt.
LEMMA WrittenStep ==
  ASSUME Inv, NEW d \in Edges, Written(d)
  PROVE  Inv'
  <1>1. /\ TypeOK /\ Fed /\ Signed /\ LogFed /\ Consuming /\ LogConsuming /\ InLoops /\ InPhase
        /\ Sharing
        /\ out[d] # <<>>
        /\ queue' = [queue EXCEPT ![edges[d].to] = @ \o out[d]]
        /\ out' = [out EXCEPT ![d] = <<>>]
        /\ UNCHANGED <<phase, group, edges, sources, thread, started, timer, consumer, ref, exited,
                       forwards, logSources, logs, logOut, logQueue>>
    BY DEF Inv, Written, graph, logVars
  <1>2. PICK T, S, n, s, w, q, e :
          /\ T = 0 .. MaxMessages /\ S = Seq(T) /\ n = edges[d].to /\ s = out[d] /\ w = queue[n]
          /\ q = w \o s /\ e = <<>>
    OBVIOUS
  <1>3. /\ DOMAIN queue = Nodes /\ \A k \in Nodes : queue[k] \in Seq(T)
        /\ DOMAIN out = Edges /\ \A k \in Edges : out[k] \in Seq(T)
        /\ Nodes = 1 .. Len(group) /\ Len(group) \in Nat /\ IsFiniteSet(Nodes)
        /\ Edges = 1 .. Len(edges) /\ Len(edges) \in Nat /\ IsFiniteSet(Edges)
        /\ n \in Nodes
    BY <1>1, <1>2, Domains, Elements, Zenon
  <1>4. s \in Seq(T) /\ w \in Seq(T) /\ e \in Seq(T) /\ s # <<>>
    BY <1>1, <1>2, <1>3
  <1>5. q \in Seq(T) /\ q # <<>> /\ q[Len(q)] = s[Len(s)]
    <2>1. w \o s \in Seq(T) /\ w \o s # <<>> /\ (w \o s)[Len(w \o s)] = s[Len(s)]
      BY <1>4
    <2> QED BY <1>2, <2>1
  <1>6. queue \in [Nodes -> Seq(T)] /\ queue' = [queue EXCEPT ![n] = q]
    <2>1. queue = [k \in Nodes |-> queue[k]]
      BY <1>1, <1>3 DEF TypeOK
    <2>2. queue' = [queue EXCEPT ![n] = q]
      BY <1>1, <1>2
    <2> QED BY <1>3, <2>1, <2>2
  <1>7. out \in [Edges -> Seq(T)] /\ out' = [out EXCEPT ![d] = e]
    <2>1. out = [k \in Edges |-> out[k]]
      BY <1>1, <1>3 DEF TypeOK
    <2> QED BY <1>1, <1>2, <1>3, <2>1
  <1>8. /\ queue' \in [Nodes -> Seq(T)] /\ queue'[n] = q /\ \A k \in Nodes \ {n} : queue'[k] = queue[k]
    BY <1>3, <1>5, <1>6
  <1>9. /\ out' \in [Edges -> Seq(T)] /\ out'[d] = e /\ \A k \in Edges \ {d} : out'[k] = out[k]
    BY <1>4, <1>7
  <1>10. /\ queue' \in Seq(Seq(0 .. MaxMessages)) /\ Len(queue') = Len(group)
         /\ out' \in Seq(Seq(0 .. MaxMessages)) /\ Len(out') = Len(edges)
    <2>1. queue' \in [1 .. Len(group) -> S] /\ out' \in [1 .. Len(edges) -> S]
      BY <1>2, <1>3, <1>8, <1>9
    <2>2. Len(group) \in Nat /\ Len(edges) \in Nat
      BY <1>3
    <2>3. queue' \in Seq(S) /\ Len(queue') = Len(group)
      BY <2>1, <2>2, AsSequence, Zenon
    <2>4. out' \in Seq(S) /\ Len(out') = Len(edges)
      BY <2>1, <2>2, AsSequence, Zenon
    <2> QED BY <1>2, <2>3, <2>4
  <1>11. /\ Nodes' = Nodes /\ Edges' = Edges /\ \A k : Direct(k)' = Direct(k)
         /\ \A t : QueuesTo(t)' = QueuesTo(t)
    BY <1>1 DEF Nodes, Edges, Direct, QueuesTo
  <1>12. TypeOK'
    BY <1>1, <1>10, <1>11 DEF TypeOK
  <1>13. ASSUME NEW m
         PROVE  /\ Cardinality(At(q, m)) = Cardinality(At(w, m)) + Cardinality(At(s, m))
                /\ Cardinality(Places(queue', m)) = Cardinality(Places(queue, m)) + Cardinality(At(s, m))
                /\ Cardinality(Places(out', m)) + Cardinality(At(s, m)) = Cardinality(Places(out, m))
                /\ Cardinality(At(s, m)) \in Nat /\ Cardinality(At(w, m)) \in Nat
                /\ Cardinality(Places(queue', m)) \in Nat /\ Cardinality(Places(out', m)) \in Nat
    <2>1. Replaces(T, Nodes, queue, n, q, queue')
      BY <1>3, <1>5, <1>6 DEF Replaces
    <2>2. Replaces(T, Edges, out, d, e, out')
      BY <1>3, <1>4, <1>7 DEF Replaces
    <2>3. Cardinality(Places(queue', m)) + Cardinality(At(queue[n], m))
            = Cardinality(Places(queue, m)) + Cardinality(At(q, m))
      BY <2>1, PlacesReplaced
    <2>4. Cardinality(Places(out', m)) + Cardinality(At(out[d], m))
            = Cardinality(Places(out, m)) + Cardinality(At(e, m))
      BY <2>2, PlacesReplaced
    <2>5. Cardinality(At(e, m)) = 0
      BY <1>2, AtEmpty
    <2>6. Cardinality(At(w \o s, m)) = Cardinality(At(w, m)) + Cardinality(At(s, m))
      BY <1>4, AtConcat
    <2>7. Cardinality(Places(queue', m)) \in Nat /\ Cardinality(Places(out', m)) \in Nat
      <3>1. DOMAIN queue' = Nodes /\ \A k \in Nodes : queue'[k] \in Seq(T)
        BY <1>8
      <3>2. DOMAIN out' = Edges /\ \A k \in Edges : out'[k] \in Seq(T)
        BY <1>9
      <3>3. IsFiniteSet(Nodes) /\ IsFiniteSet(Edges)
        BY <1>3
      <3> QED BY <3>1, <3>2, <3>3, PlacesFinite
    <2>8. PICK qa, qb, oa, ob, wa, sa, ra :
            /\ qa = Cardinality(Places(queue, m)) /\ qb = Cardinality(Places(queue', m))
            /\ oa = Cardinality(Places(out, m)) /\ ob = Cardinality(Places(out', m))
            /\ wa = Cardinality(At(w, m)) /\ sa = Cardinality(At(s, m)) /\ ra = Cardinality(At(q, m))
      OBVIOUS
    <2>9. qa \in Nat /\ qb \in Nat /\ oa \in Nat /\ ob \in Nat /\ wa \in Nat /\ sa \in Nat
      BY <1>1, <1>4, <2>7, <2>8, CountTypes, AtFinite
    <2>10. qb + wa = qa + ra /\ ob + sa = oa + 0 /\ ra = wa + sa
      BY <1>2, <2>3, <2>4, <2>5, <2>6, <2>8
    <2>11. qb = qa + sa /\ ob + sa = oa
      BY <2>9, <2>10
    <2> QED BY <2>8, <2>9, <2>10, <2>11
  <1>14. d \in QueuesTo(n) /\ d \in Owing(n)
    <2>1. ~ Direct(d)
      BY <1>1 DEF Signed
    <2> QED BY <1>1, <1>2, <2>1 DEF QueuesTo, Owing
  <1>15. ASSUME NEW t
         PROVE  Owing(t)' = IF t = n /\ edges[d].from \in exited THEN Owing(t) \ {d} ELSE Owing(t)
    <2>1. \A k \in QueuesTo(t) : k \in Edges /\ edges[k].to = t
      BY DEF QueuesTo
    <2>2. Owing(t)' = {k \in QueuesTo(t) : edges[k].from \notin exited \/ out'[k] # <<>>}
      BY <1>1, <1>11 DEF Owing
    <2>3. CASE edges[d].from \in exited
      BY <1>1, <1>2, <1>9, <2>1, <2>2, <2>3 DEF Owing
    <2>4. CASE edges[d].from \notin exited
      BY <1>1, <1>2, <1>9, <2>1, <2>2, <2>4 DEF Owing
    <2> QED BY <2>3, <2>4
  <1>16. Fed'
    <2> SUFFICES ASSUME NEW t \in Nodes
                 PROVE  /\ sources[t] = Cardinality(Owing(t)') + Cardinality(At(queue'[t], SignOff))
                        /\ queue'[t] # <<>> => EndsInSignOff(queue'[t]) \/ Owing(t)' # {}
      BY <1>1, <1>11 DEF Fed
    <2>1. /\ sources[t] = Cardinality(Owing(t)) + Cardinality(At(queue[t], SignOff))
          /\ queue[t] # <<>> => EndsInSignOff(queue[t]) \/ Owing(t) # {}
      BY <1>1 DEF Fed
    <2>2. CASE t # n
      <3>1. Owing(t)' = Owing(t) /\ queue'[t] = queue[t]
        BY <1>8, <1>15, <2>2
      <3> QED BY <2>1, <3>1
    <2>3. CASE t = n /\ edges[d].from \in exited
      <3>1. EndsInSignOff(s) /\ Cardinality(At(s, SignOff)) = 1
        BY <1>1, <1>2, <2>3 DEF Signed
      <3>2. Owing(n)' = Owing(n) \ {d}
        BY <1>15, <2>3
      <3>3. Cardinality(Owing(n)') = Cardinality(Owing(n)) - 1 /\ Cardinality(Owing(n)) \in Nat
        <4>1. IsFiniteSet(Owing(n)) /\ Cardinality(Owing(n)) \in Nat
          BY <1>1, OwingFinite
        <4>2. Cardinality(Owing(n) \ {d}) = Cardinality(Owing(n)) - 1
          BY <1>14, <4>1, FS_RemoveElement
        <4> QED BY <3>2, <4>1, <4>2
      <3>4. EndsInSignOff(q)
        BY <1>5, <3>1 DEF EndsInSignOff
      <3>5. PICK o, ob, x, y : /\ o = Cardinality(Owing(n)) /\ ob = Cardinality(Owing(n)')
                               /\ x = Cardinality(At(w, SignOff)) /\ y = Cardinality(At(q, SignOff))
        OBVIOUS
      <3>6. o \in Nat /\ ob = o - 1 /\ x \in Nat /\ y = x + 1
        BY <1>13, <3>1, <3>3, <3>5
      <3>7. o + x = ob + y
        BY <3>6
      <3> QED BY <1>2, <1>8, <2>1, <2>3, <3>4, <3>5, <3>7, Zenon
    <2>4. CASE t = n /\ edges[d].from \notin exited
      <3>1. At(s, SignOff) = {}
        BY <1>1, <1>2, <2>4 DEF Signed
      <3>2. Owing(n)' = Owing(n) /\ Owing(n) # {}
        BY <1>14, <1>15, <2>4
      <3>3. Cardinality(At(q, SignOff)) = Cardinality(At(w, SignOff))
        <4>1. Cardinality(At(s, SignOff)) = 0
          BY <3>1, FS_EmptySet
        <4> QED BY <1>13, <4>1
      <3> QED BY <1>2, <1>8, <2>1, <2>4, <3>2, <3>3, Zenon
    <2> QED BY <2>2, <2>3, <2>4
  <1>17. Signed'
    <2> SUFFICES ASSUME NEW k \in Edges
                 PROVE  /\ Direct(k) => out'[k] = <<>>
                        /\ IF edges[k].from \in exited /\ out'[k] # <<>>
                           THEN EndsInSignOff(out'[k]) /\ Cardinality(At(out'[k], SignOff)) = 1
                           ELSE At(out'[k], SignOff) = {}
      BY <1>1, <1>11 DEF Signed
    <2>1. CASE k = d
      <3>1. At(e, SignOff) = {}
        BY <1>2, AtEmpty
      <3> QED BY <1>2, <1>9, <2>1, <3>1
    <2>2. CASE k # d
      BY <1>1, <1>9, <2>2 DEF Signed
    <2> QED BY <2>1, <2>2
  <1>18. Sharing'
    <2> SUFFICES ASSUME NEW m \in Messages
                 PROVE  InQueues(m)' = IF ref'[m] = -1 THEN 0 ELSE ref'[m]
      BY DEF Sharing
    <2>1. PICK la, oa, qa, ga, ob, qb, sa :
            /\ la = Cardinality(At(logQueue, m)) /\ oa = Cardinality(Places(out, m))
            /\ qa = Cardinality(Places(queue, m)) /\ ga = Cardinality(Places(logOut, m))
            /\ ob = Cardinality(Places(out', m)) /\ qb = Cardinality(Places(queue', m))
            /\ sa = Cardinality(At(s, m))
      OBVIOUS
    <2>2. /\ la \in Nat /\ oa \in Nat /\ qa \in Nat /\ ga \in Nat /\ ob \in Nat /\ sa \in Nat
          /\ qb = qa + sa /\ ob + sa = oa
      BY <1>1, <1>13, <2>1, CountTypes
    <2>3. InQueues(m) = la + oa + qa + ga /\ InQueues(m)' = la + ob + qb + ga
      BY <1>1, <2>1 DEF InQueues
    <2>4. InQueues(m)' = InQueues(m)
      BY <2>2, <2>3
    <2> QED BY <1>1, <2>4 DEF Sharing
  <1>19. LogOwing' = LogOwing
    BY <1>1, LogOwingKept
  <1>20. LogFed' /\ Consuming' /\ LogConsuming' /\ InPhase'
    BY <1>1, <1>19, LogFedKept, ConsumingKept, LogConsumingKept, InPhaseKept
  <1>21. InLoops'
    <2>1. \A k \in Edges : out'[k] # <<>> => thread[group[edges[k].from]] = "loop"
      BY <1>1, <1>2, <1>9 DEF InLoops
    <2> QED BY <1>1, <1>11, <2>1 DEF InLoops
  <1> QED BY <1>12, <1>16, <1>17, <1>18, <1>20, <1>21 DEF Inv


-----------------------------------------------------------------------------
(* Building the flow *)

\* While the flow is built nothing is written, and nobody has exited.
LEMMA Building ==
  ASSUME Inv, phase = "build"
  PROVE  /\ \A g \in Groups : thread[g] = "none"
         /\ exited = {} /\ started = {} /\ timer = {} /\ \A n \in Nodes : consumer[n] = "idle"
         /\ logs = "idle"
  <1>1. TypeOK /\ InLoops /\ InPhase
    BY DEF Inv
  <1>2. \A g \in Groups : thread[g] = "none"
    BY <1>1 DEF InPhase
  <1>3. \A n \in exited \cup started \cup timer : n \in Nodes /\ group[n] \in Groups
    BY <1>1, Elements DEF TypeOK
  <1>4. exited = {} /\ started = {} /\ timer = {}
    BY <1>1, <1>2, <1>3 DEF InLoops
  <1> QED BY <1>1, <1>2, <1>4 DEF InPhase

\* flow_node(): nothing leads to a new node, and its thread counts once.
LEMMA NodeStep ==
  ASSUME Inv, NEW g \in Groups, Node(g)
  PROVE  Inv'
  <1>1. /\ TypeOK /\ Fed /\ Signed /\ LogFed /\ Consuming /\ LogConsuming /\ InLoops /\ InPhase
        /\ Sharing
        /\ phase = "build" /\ group' = Append(group, g)
        /\ logSources' = (IF g # Main /\ Members(g) = {} THEN logSources + 1 ELSE logSources)
        /\ sources' = Append(sources, 0) /\ consumer' = Append(consumer, "idle")
        /\ queue' = Append(queue, <<>>)
        /\ UNCHANGED <<phase, edges, thread, started, timer, logs, out, logOut, logQueue, ref,
                       exited, forwards>>
    BY DEF Inv, Node
  <1>2. PICK T, S, e, z, C, i : /\ T = 0 .. MaxMessages /\ S = Seq(T) /\ e = <<>> /\ z = 0
                                /\ C = {"idle", "open", "closed"} /\ i = "idle"
    OBVIOUS
  <1>3. PICK new : new = Len(group) + 1
    OBVIOUS
  <1>4. /\ Nodes = 1 .. Len(group) /\ Len(group) \in Nat /\ group \in Seq(Groups)
        /\ Len(sources) = Len(group) /\ Len(consumer) = Len(group) /\ Len(queue) = Len(group)
        /\ sources \in Seq(Int) /\ consumer \in Seq(C) /\ queue \in Seq(S)
        /\ e \in S /\ z \in Int /\ i \in C
    BY <1>1, <1>2, Domains DEF TypeOK
  <1>5. /\ group' \in Seq(Groups) /\ Len(group') = new /\ group'[new] = g
        /\ \A k \in Nodes : group'[k] = group[k]
    BY <1>1, <1>3, <1>4
  <1>6. /\ sources' \in Seq(Int) /\ Len(sources') = new /\ sources'[new] = 0
        /\ \A k \in Nodes : sources'[k] = sources[k]
    BY <1>1, <1>3, <1>4
  <1>7. /\ consumer' \in Seq(C) /\ Len(consumer') = new /\ consumer'[new] = "idle"
        /\ \A k \in Nodes : consumer'[k] = consumer[k]
    BY <1>1, <1>2, <1>3, <1>4
  <1>8. /\ queue' \in Seq(S) /\ Len(queue') = new /\ queue'[new] = e /\ queue' = Append(queue, e)
        /\ \A k \in Nodes : queue'[k] = queue[k]
    <2>1. queue' = Append(queue, e)
      BY <1>1, <1>2
    <2> QED BY <1>3, <1>4, <2>1
  <1>9. Nodes' = Nodes \cup {new} /\ new \notin Nodes /\ Edges' = Edges
    BY <1>1, <1>3, <1>4, <1>5 DEF Nodes, Edges
  <1>10. \A k \in Edges : edges[k].from \in Nodes /\ edges[k].to \in Nodes
    BY <1>1, Elements
  <1>11. TypeOK'
    <2>1. edges' \in Seq([from : Nodes', to : Nodes'])
      <3>1. PICK F, G : F = [from : Nodes, to : Nodes] /\ G = [from : Nodes', to : Nodes']
        OBVIOUS
      <3>2. F \subseteq G
        BY <1>9, <3>1
      <3>3. edges \in Seq(F)
        BY <1>1, <3>1 DEF TypeOK
      <3>4. edges \in Seq(G)
        BY <3>2, <3>3, Widened
      <3> QED BY <1>1, <3>1, <3>4
    <2>2. logSources' \in Int
      BY <1>1 DEF TypeOK
    <2>3. queue' \in Seq(Seq(0 .. MaxMessages)) /\ consumer' \in Seq({"idle", "open", "closed"})
      BY <1>2, <1>7, <1>8
    <2>4. started' \subseteq Nodes' /\ timer' \subseteq Nodes' /\ exited' \subseteq Nodes'
      BY <1>1, <1>9 DEF TypeOK
    <2> QED BY <1>1, <1>5, <1>6, <1>7, <1>8, <2>1, <2>2, <2>3, <2>4 DEF TypeOK
  <1>12. /\ \A k \in Edges : Direct(k)' = Direct(k)
         /\ \A t \in Nodes : QueuesTo(t)' = QueuesTo(t) /\ Owing(t)' = Owing(t)
         /\ QueuesTo(new)' = {} /\ Owing(new)' = {}
    <2>1. \A k \in Edges : Direct(k)' = Direct(k)
      BY <1>1, <1>5, <1>10 DEF Direct
    <2>2. \A t \in Nodes : QueuesTo(t)' = QueuesTo(t)
      BY <1>1, <1>9, <2>1 DEF QueuesTo
    <2>3. \A t \in Nodes : Owing(t)' = Owing(t)
      BY <1>1, <2>2 DEF Owing
    <2>4. QueuesTo(new)' = {}
      BY <1>1, <1>9, <1>10 DEF QueuesTo
    <2>5. Owing(new)' = {}
      BY <2>4 DEF Owing
    <2> QED BY <2>1, <2>2, <2>3, <2>4, <2>5
  <1>13. Fed'
    <2>1. ASSUME NEW t \in Nodes'
          PROVE  /\ sources'[t] = Cardinality(Owing(t)') + Cardinality(At(queue'[t], SignOff))
                 /\ queue'[t] # <<>> => EndsInSignOff(queue'[t]) \/ Owing(t)' # {}
      <3>1. CASE t \in Nodes
        BY <1>1, <1>6, <1>8, <1>12, <3>1 DEF Fed
      <3>2. CASE t = new
        <4>1. Cardinality(At(e, SignOff)) = 0 /\ Cardinality(Owing(new)') = 0
          BY <1>2, <1>12, AtEmpty, FS_EmptySet
        <4> QED BY <1>2, <1>6, <1>8, <3>2, <4>1
      <3> QED BY <1>9, <3>1, <3>2
    <2> QED BY <2>1 DEF Fed
  <1>14. Signed'
    BY <1>1, <1>9, <1>12 DEF Signed
  <1>15. \A h \in Groups : thread[h] = "none"
    BY <1>1, Building
  <1>16. \A h : Members(h)' = IF h = g THEN Members(h) \cup {new} ELSE Members(h)
    BY <1>5, <1>9 DEF Members
  <1>17. LogFed'
    <2>1. IsFiniteSet(LogOwing) /\ Cardinality(LogOwing) \in Nat
      BY LogOwingFinite
    <2>2. Cardinality(At(logQueue, SignOff)) \in Nat
      BY <1>1, AtFinite DEF TypeOK
    <2>3. logSources = Cardinality(LogOwing) + Cardinality(At(logQueue, SignOff))
      BY <1>1 DEF LogFed
    <2>4. CASE g # Main /\ Members(g) = {}
      <3>1. LogOwing' = LogOwing \cup {g} /\ g \notin LogOwing
        BY <1>1, <1>15, <1>16, <2>4 DEF LogOwing
      <3>2. Cardinality(LogOwing') = Cardinality(LogOwing) + 1
        BY <2>1, <3>1, FS_AddElement
      <3>3. logSources' = Cardinality(LogOwing') + Cardinality(At(logQueue, SignOff))
        BY <1>1, <2>1, <2>2, <2>3, <2>4, <3>2
      <3> QED BY <1>1, <3>1, <3>3 DEF LogFed
    <2>5. CASE ~ (g # Main /\ Members(g) = {})
      <3>1. LogOwing' = LogOwing
        BY <1>1, <1>15, <1>16, <2>5 DEF LogOwing
      <3> QED BY <1>1, <2>5, <3>1 DEF LogFed
    <2> QED BY <2>4, <2>5
  <1>18. Consuming'
    <2>1. ASSUME NEW t \in Nodes'
          PROVE  /\ consumer'[t] = "idle" /\ group'[t] \in Groups /\ thread'[group'[t]] = "none"
      <3>1. CASE t \in Nodes
        <4>1. consumer[t] = "idle" /\ group[t] \in Groups
          BY <1>1, <3>1, Elements, Building
        <4> QED BY <1>1, <1>5, <1>7, <1>15, <3>1, <4>1
      <3>2. CASE t = new
        BY <1>1, <1>5, <1>7, <1>15, <3>2
      <3> QED BY <1>9, <3>1, <3>2
    <2> QED BY <2>1 DEF Consuming
  <1>19. LogConsuming'
    <2>1. logs = "idle"
      BY <1>1 DEF InPhase
    <2> QED BY <1>1, <2>1 DEF LogConsuming
  <1>20. InLoops'
    <2>1. exited' = {} /\ started' = {} /\ timer' = {}
      BY <1>1, Building
    <2>2. \A k \in Edges : out[k] = <<>>
      <3>1. \A k \in Edges : group[edges[k].from] \in Groups
        BY <1>1, Elements
      <3> QED BY <1>1, <1>15, <3>1 DEF InLoops
    <2> QED BY <1>1, <1>9, <2>1, <2>2 DEF InLoops
  <1>21. InPhase'
    <2>1. \A t \in Nodes' : consumer'[t] = "idle"
      BY <1>1, <1>7, <1>9 DEF InPhase
    <2> QED BY <1>1, <2>1 DEF InPhase
  <1>22. Sharing'
    <2> SUFFICES ASSUME NEW m \in Messages
                 PROVE  InQueues(m)' = IF ref'[m] = -1 THEN 0 ELSE ref'[m]
      BY DEF Sharing
    <2>1. Places(queue', m) = Places(queue, m)
      <3>1. queue \in Seq(Seq(T))
        BY <1>2, <1>4
      <3>2. Places(Append(queue, e), m) = Places(queue, m)
        BY <1>2, <3>1, PlacesGrown
      <3> QED BY <1>8, <3>2
    <2>2. InQueues(m)' = InQueues(m)
      BY <1>1, <2>1 DEF InQueues
    <2> QED BY <1>1, <2>2 DEF Sharing
  <1> QED BY <1>11, <1>13, <1>14, <1>17, <1>18, <1>19, <1>20, <1>21, <1>22 DEF Inv


\* flow_connect(): an edge between two threads is owed from the start.
LEMMA ConnectStep ==
  ASSUME Inv, NEW n \in Nodes, NEW t \in Nodes, Connect(n, t)
  PROVE  Inv'
  <1>1. /\ TypeOK /\ Fed /\ Signed /\ LogFed /\ Consuming /\ LogConsuming /\ InLoops /\ InPhase
        /\ Sharing
        /\ phase = "build" /\ edges' = Append(edges, [from |-> n, to |-> t])
        /\ out' = Append(out, <<>>)
        /\ sources' = (IF group[n] # group[t] THEN [sources EXCEPT ![t] = @ + 1] ELSE sources)
        /\ UNCHANGED <<phase, group, logSources, thread, started, timer, consumer, logs, logOut,
                       queue, logQueue, ref, exited, forwards>>
    BY DEF Inv, Connect, SourcesAfter
  <1>2. PICK T, S, F, e, r, new :
          /\ T = 0 .. MaxMessages /\ S = Seq(T) /\ F = [from : Nodes, to : Nodes] /\ e = <<>>
          /\ r = [from |-> n, to |-> t] /\ new = Len(edges) + 1
    OBVIOUS
  <1>3. /\ edges \in Seq(F) /\ out \in Seq(S) /\ Len(out) = Len(edges) /\ e \in S
        /\ Edges = 1 .. Len(edges) /\ Len(edges) \in Nat /\ IsFiniteSet(Edges)
    BY <1>1, <1>2, Domains DEF TypeOK
  <1>4. r \in F /\ r.from = n /\ r.to = t
    BY <1>2
  <1>5. /\ edges' \in Seq(F) /\ Len(edges') = new /\ edges'[new] = r
        /\ \A k \in Edges : edges'[k] = edges[k]
    <2>1. edges' = Append(edges, r)
      BY <1>1, <1>2
    <2>2. new = Len(edges) + 1
      BY <1>2
    <2> QED BY <1>3, <1>4, <2>1, <2>2
  <1>6. /\ out' \in Seq(S) /\ Len(out') = new /\ out'[new] = e /\ out' = Append(out, e)
        /\ \A k \in Edges : out'[k] = out[k]
    <2>1. out' = Append(out, e)
      BY <1>1, <1>2
    <2>2. new = Len(edges) + 1
      BY <1>2
    <2> QED BY <1>3, <2>1, <2>2
  <1>7. Nodes' = Nodes /\ Edges' = Edges \cup {new} /\ new \notin Edges
    <2>1. DOMAIN edges' = 1 .. new /\ new = Len(edges) + 1
      BY <1>2, <1>5
    <2> QED BY <1>1, <1>3, <2>1 DEF Nodes, Edges
  <1>8. /\ sources' \in Seq(Int) /\ Len(sources') = Len(group)
        /\ sources'[t] = (IF group[n] # group[t] THEN sources[t] + 1 ELSE sources[t])
        /\ \A k \in Nodes \ {t} : sources'[k] = sources[k]
    <2>1. sources \in Seq(Int) /\ DOMAIN sources = Nodes /\ Len(sources) = Len(group) /\ sources[t] \in Int
      BY <1>1, Domains, Elements DEF TypeOK
    <2>2. CASE group[n] # group[t]
      <3>1. PICK v \in Int : v = sources[t] + 1
        BY <2>1
      <3>2. sources' = [sources EXCEPT ![t] = v]
        BY <1>1, <2>2, <3>1
      <3>3. /\ sources' \in Seq(Int) /\ Len(sources') = Len(sources)
            /\ sources'[t] = v /\ \A y \in DOMAIN sources \ {t} : sources'[y] = sources[y]
        BY <2>1, <3>2, ExceptFacts
      <3> QED BY <2>1, <2>2, <3>1, <3>3
    <2>3. CASE group[n] = group[t]
      BY <1>1, <2>1, <2>3
    <2> QED BY <2>2, <2>3
  <1>9. TypeOK'
    <2>1. edges' \in Seq([from : Nodes', to : Nodes']) /\ out' \in Seq(Seq(0 .. MaxMessages))
      BY <1>2, <1>5, <1>6, <1>7
    <2> QED BY <1>1, <1>5, <1>6, <1>7, <1>8, <2>1 DEF TypeOK
  <1>10. exited = {} /\ exited' = {}
    BY <1>1, Building
  <1>11. /\ \A k \in Edges : Direct(k)' <=> Direct(k)
         /\ Direct(new)' <=> group[n] = group[t]
    BY <1>1, <1>4, <1>5 DEF Direct
  <1>12. \A k : QueuesTo(k)' = IF k = t /\ group[n] # group[t] THEN QueuesTo(k) \cup {new} ELSE QueuesTo(k)
    <2> SUFFICES ASSUME NEW k
                 PROVE  QueuesTo(k)' = IF k = t /\ group[n] # group[t] THEN QueuesTo(k) \cup {new} ELSE QueuesTo(k)
      OBVIOUS
    <2>1. QueuesTo(k)' = {d \in Edges' : edges'[d].to = k /\ ~ Direct(d)'}
      BY DEF QueuesTo
    <2> QED BY <1>4, <1>5, <1>7, <1>11, <2>1 DEF QueuesTo
  <1>13. \A k : Owing(k)' = QueuesTo(k)' /\ Owing(k) = QueuesTo(k)
    BY <1>10 DEF Owing, QueuesTo
  <1>14. Fed'
    <2> SUFFICES ASSUME NEW k \in Nodes
                 PROVE  /\ sources'[k] = Cardinality(Owing(k)') + Cardinality(At(queue[k], SignOff))
                        /\ queue[k] # <<>> => EndsInSignOff(queue[k]) \/ Owing(k)' # {}
      BY <1>1, <1>7 DEF Fed
    <2>1. /\ sources[k] = Cardinality(Owing(k)) + Cardinality(At(queue[k], SignOff))
          /\ queue[k] # <<>> => EndsInSignOff(queue[k]) \/ Owing(k) # {}
      BY <1>1 DEF Fed
    <2>2. CASE k = t /\ group[n] # group[t]
      <3>1. Owing(t)' = Owing(t) \cup {new} /\ new \notin Owing(t)
        BY <1>7, <1>12, <1>13, <2>2 DEF QueuesTo
      <3>2. IsFiniteSet(Owing(t)) /\ Cardinality(Owing(t)) \in Nat
        BY <1>1, OwingFinite
      <3>3. Cardinality(Owing(t)') = Cardinality(Owing(t)) + 1
        BY <3>1, <3>2, FS_AddElement
      <3>4. Cardinality(At(queue[t], SignOff)) \in Nat
        BY <1>1, Elements, AtFinite
      <3>5. sources'[t] = sources[t] + 1
        BY <1>8, <2>2
      <3>6. sources'[t] = Cardinality(Owing(t)') + Cardinality(At(queue[t], SignOff))
        BY <2>1, <2>2, <3>2, <3>3, <3>4, <3>5
      <3> QED BY <2>2, <3>1, <3>6
    <2>3. CASE ~ (k = t /\ group[n] # group[t])
      <3>1. Owing(k)' = Owing(k) /\ sources'[k] = sources[k]
        BY <1>8, <1>12, <1>13, <2>3
      <3> QED BY <2>1, <3>1
    <2> QED BY <2>2, <2>3
  <1>15. Signed'
    <2>1. ASSUME NEW k \in Edges'
          PROVE  /\ Direct(k)' => out'[k] = <<>>
                 /\ At(out'[k], SignOff) = {}
      <3>1. CASE k \in Edges
        BY <1>1, <1>6, <1>10, <1>11, <3>1 DEF Signed
      <3>2. CASE k = new
        <4>1. At(e, SignOff) = {}
          BY <1>2, AtEmpty
        <4> QED BY <1>2, <1>6, <3>2, <4>1
      <3> QED BY <1>7, <3>1, <3>2
    <2> QED BY <1>10, <2>1 DEF Signed
  <1>16. LogOwing' = LogOwing
    BY <1>1, LogOwingKept
  <1>17. LogFed' /\ LogConsuming' /\ InPhase'
    BY <1>1, <1>16, LogFedKept, LogConsumingKept, InPhaseKept
  <1>18. Consuming'
    <2>1. \A k \in Nodes : consumer[k] = "idle" /\ thread[group[k]] = "none"
      BY <1>1, Building, Elements
    <2> QED BY <1>1, <1>7, <2>1 DEF Consuming
  <1>19. InLoops'
    <2>1. ASSUME NEW k \in Edges' PROVE out'[k] = <<>>
      <3>1. CASE k \in Edges
        <4>1. group[edges[k].from] \in Groups
          BY <1>1, <3>1, Elements
        <4>2. thread[group[edges[k].from]] = "none"
          BY <1>1, <4>1, Building
        <4> QED BY <1>1, <1>6, <3>1, <4>2 DEF InLoops
      <3>2. CASE k = new
        BY <1>2, <1>6, <3>2
      <3> QED BY <1>7, <3>1, <3>2
    <2> QED BY <1>1, <2>1 DEF InLoops
  <1>20. Sharing'
    <2> SUFFICES ASSUME NEW m \in Messages
                 PROVE  InQueues(m)' = IF ref'[m] = -1 THEN 0 ELSE ref'[m]
      BY DEF Sharing
    <2>1. Places(out', m) = Places(out, m)
      <3>1. out \in Seq(Seq(T))
        BY <1>2, <1>3
      <3>2. Places(Append(out, e), m) = Places(out, m)
        BY <1>2, <3>1, PlacesGrown
      <3> QED BY <1>6, <3>2
    <2>2. InQueues(m)' = InQueues(m)
      BY <1>1, <2>1 DEF InQueues
    <2> QED BY <1>1, <2>2 DEF Sharing
  <1> QED BY <1>9, <1>14, <1>15, <1>17, <1>18, <1>19, <1>20 DEF Inv

-----------------------------------------------------------------------------
(* The theorems *)

LEMMA InitInv ==
  ASSUME Init
  PROVE  Inv
  <1>1. Nodes = {} /\ Edges = {}
    BY DEF Init, Nodes, Edges
  <1>2. TypeOK
    BY FlowAssumption DEF Init, TypeOK
  <1>3. Fed /\ Signed /\ Consuming
    BY <1>1 DEF Fed, Signed, Consuming
  <1>4. LogFed
    <2>1. LogOwing = {} /\ logSources = 0 /\ logQueue = <<>>
      BY <1>1 DEF Init, LogOwing, Members
    <2>2. Cardinality(LogOwing) = 0 /\ Cardinality(At(logQueue, SignOff)) = 0
      BY <2>1, AtEmpty, FS_EmptySet
    <2> QED BY <2>1, <2>2 DEF LogFed
  <1>5. LogConsuming /\ InPhase
    BY <1>1 DEF Init, LogConsuming, InPhase
  <1>6. InLoops
    BY <1>1 DEF Init, InLoops
  <1>7. Sharing
    <2> SUFFICES ASSUME NEW m \in Messages
                 PROVE  InQueues(m) = IF ref[m] = -1 THEN 0 ELSE ref[m]
      BY DEF Sharing
    <2>1. /\ logQueue = <<>> /\ out = <<>> /\ queue = <<>> /\ logOut = [g \in Groups |-> <<>>]
          /\ ref[m] = -1
      BY DEF Init
    <2>2. \A g \in DOMAIN logOut : At(logOut[g], m) = {}
      BY <2>1 DEF At
    <2>3. Places(out, m) = {} /\ Places(queue, m) = {} /\ Places(logOut, m) = {}
      BY <2>1, <2>2 DEF Places
    <2>4. Cardinality(At(logQueue, m)) = 0
      BY <2>1, AtEmpty
    <2>5. InQueues(m) = 0
      BY <2>3, <2>4, FS_EmptySet DEF InQueues
    <2> QED BY <2>1, <2>5
  <1> QED BY <1>2, <1>3, <1>4, <1>5, <1>6, <1>7 DEF Inv

LEMMA NextInv ==
  ASSUME Inv, [Next]_vars
  PROVE  Inv'
  <1>1. CASE Client
    <2>1. CASE \E g \in Groups : Node(g)
      BY <2>1, NodeStep
    <2>2. CASE \E n, t \in Nodes : Connect(n, t)
      BY <2>2, ConnectStep
    <2>3. CASE Start
      BY <2>3, StartStep
    <2>4. CASE \E n \in Nodes, m \in Messages : Send(n, m) \/ Log(n, m)
      BY <2>4, SendStep, LogStep
    <2>5. CASE \E n \in Nodes : Exit(n)
      BY <2>5, ExitStep
    <2> QED BY <1>1, <2>1, <2>2, <2>3, <2>4, <2>5 DEF Client
  <1>2. CASE Threads
    <2>1. CASE \E g \in Groups : GroupBegins(g) \/ GroupEnds(g) \/ GroupReturns(g) \/ LogWritten(g)
      BY <2>1, GroupBeginsStep, GroupEndsStep, GroupReturnsStep, LogWrittenStep
    <2>2. CASE \E n \in Nodes : ReceiveSignOff(n) \/ \E use \in {"drop", "send", "log"} : Receive(n, use)
      BY <2>2, ReceiveSignOffStep, ReceiveStep
    <2>3. CASE \E e \in Edges : Written(e)
      BY <2>3, WrittenStep
    <2>4. CASE LogReceive \/ LogSignOff \/ Finish
      BY <2>4, LogReceiveStep, LogSignOffStep, FinishStep
    <2> QED BY <1>2, <2>1, <2>2, <2>3, <2>4 DEF Threads
  <1>3. CASE UNCHANGED vars
    <2>1. /\ TypeOK /\ Fed /\ Signed /\ LogFed /\ Consuming /\ LogConsuming /\ InLoops /\ InPhase
          /\ Sharing
      BY DEF Inv
    <2>2. TypeOK' /\ InLoops'
      BY <1>3, <2>1 DEF vars, TypeOK, InLoops, Nodes, Edges
    <2>3. LogOwing' = LogOwing
      BY <1>3, LogOwingKept DEF vars
    <2>4. /\ Fed' /\ Signed' /\ LogFed' /\ Consuming' /\ LogConsuming' /\ InPhase' /\ Sharing'
      BY <1>3, <2>1, <2>3, FedKept, SignedKept, LogFedKept, ConsumingKept, LogConsumingKept,
         InPhaseKept, SharingKept DEF vars
    <2> QED BY <2>2, <2>4 DEF Inv
  <1> QED BY <1>1, <1>2, <1>3 DEF Next

\* Every flow that flow_node() and flow_connect() can build is, in every state
\* of its life, as Inv says: who still owes a sign-off, what is in the queues,
\* which threads run and how many references each message has.
THEOREM Invariance == Spec => []Inv
  <1>1. Init => Inv
    BY InitInv
  <1>2. Inv /\ [Next]_vars => Inv'
    BY NextInv
  <1> QED BY <1>1, <1>2, PTL DEF Spec

\* A queue whose sources have all signed off is empty.
LEMMA Drained ==
  ASSUME Inv, NEW n \in Nodes, sources[n] = 0
  PROVE  queue[n] = <<>> /\ Owing(n) = {}
  <1>1. TypeOK /\ Fed
    BY DEF Inv
  <1>2. PICK o, x : o = Cardinality(Owing(n)) /\ x = Cardinality(At(queue[n], SignOff))
    OBVIOUS
  <1>3. PICK T : T = 0 .. MaxMessages
    OBVIOUS
  <1>4. queue[n] \in Seq(T)
    BY <1>1, <1>3, Elements
  <1>5. o \in Nat /\ x \in Nat /\ (o = 0 <=> Owing(n) = {}) /\ (x = 0 <=> At(queue[n], SignOff) = {})
    BY <1>1, <1>2, <1>4, OwingFinite, AtFinite
  <1>6. o + x = 0
    BY <1>1, <1>2 DEF Fed
  <1>7. Owing(n) = {} /\ At(queue[n], SignOff) = {}
    BY <1>5, <1>6
  <1>8. queue[n] # <<>> => ~ EndsInSignOff(queue[n])
    <2>1. queue[n] # <<>> => Len(queue[n]) \in DOMAIN queue[n]
      BY <1>4
    <2> QED BY <1>7, <2>1 DEF EndsInSignOff, At
  <1> QED BY <1>1, <1>7, <1>8 DEF Fed

LEMMA LogDrained ==
  ASSUME Inv, logSources = 0
  PROVE  logQueue = <<>> /\ LogOwing = {}
  <1>1. TypeOK /\ LogFed
    BY DEF Inv
  <1>2. PICK T, o, x : T = 0 .. MaxMessages /\ o = Cardinality(LogOwing) /\ x = Cardinality(At(logQueue, SignOff))
    OBVIOUS
  <1>3. logQueue \in Seq(T)
    BY <1>1, <1>2 DEF TypeOK
  <1>4. o \in Nat /\ x \in Nat /\ (o = 0 <=> LogOwing = {}) /\ (x = 0 <=> At(logQueue, SignOff) = {})
    BY <1>2, <1>3, LogOwingFinite, AtFinite
  <1>5. o + x = 0
    BY <1>1, <1>2 DEF LogFed
  <1>6. LogOwing = {} /\ At(logQueue, SignOff) = {}
    BY <1>4, <1>5
  <1>7. logQueue # <<>> => ~ EndsInSignOff(logQueue)
    <2>1. logQueue # <<>> => Len(logQueue) \in DOMAIN logQueue
      BY <1>3
    <2> QED BY <1>6, <2>1 DEF EndsInSignOff, At
  <1> QED BY <1>1, <1>6, <1>7 DEF LogFed

\* Every reference that value_hold() took for flow_node_send() or flow_log() is
\* in one queue, in every flow and for any number of threads that share it.
THEOREM References == Spec => []Counted
  <1>1. Inv => Counted
    BY DEF Inv, Sharing, Counted
  <1> QED BY <1>1, Invariance, PTL

\* flow_node_consumer() and flow_log_queue() close a consumer behind the last
\* message of all that feed it, in every flow.
THEOREM ClosedBehind == Spec => []ClosesLast
  <1>1. ASSUME Inv PROVE ClosesLast
    <2>1. TypeOK /\ Consuming /\ LogConsuming /\ InLoops /\ InPhase
      BY <1>1 DEF Inv
    <2>2. ASSUME NEW n \in Nodes, consumer[n] = "closed"
          PROVE  queue[n] = <<>> /\ \A e \in QueuesTo(n) : out[e] = <<>> /\ edges[e].from \in exited
      <3>1. queue[n] = <<>> /\ Owing(n) = {}
        BY <1>1, <2>1, <2>2, Drained DEF Consuming
      <3> QED BY <3>1 DEF Owing
    <2>3. ASSUME logs = "closed", NEW g \in Groups \ {Main}
          PROVE  thread[g] \in {"none", "over", "returned"} /\ logOut[g] = <<>>
      <3>1. LogOwing = {}
        BY <1>1, <2>1, <2>3, LogDrained DEF LogConsuming
      <3>2. thread[g] \in {"over", "returned"} \/ Members(g) = {}
        BY <3>1 DEF LogOwing
      <3>3. Members(g) = {} => thread[g] = "none"
        BY <2>1, <2>3 DEF InPhase, TypeOK
      <3> QED BY <2>1, <3>2, <3>3 DEF InLoops
    <2>4. logs = "closed" => logQueue = <<>>
      BY <1>1, <2>1, LogDrained DEF LogConsuming
    <2> QED BY <2>2, <2>3, <2>4 DEF ClosesLast
  <1> QED BY <1>1, Invariance, PTL

\* When flow_stop() is reached no thread runs, no node is started and no
\* message is left, in every flow.
THEOREM StopsClean == Spec => []EndsClean
  <1>1. ASSUME Inv, phase = "ended"
        PROVE  /\ \A g \in Groups : thread[g] \in {"none", "returned"}
               /\ started = {}
               /\ \A m \in Messages : ref[m] \in {-1, 0}
    <2>1. TypeOK /\ Consuming /\ LogConsuming /\ InLoops /\ InPhase /\ Sharing
      BY <1>1 DEF Inv
    <2>2. \A g \in Groups : thread[g] \in {"none", "returned"}
      BY <1>1, <2>1 DEF InPhase
    <2>3. \A n \in Nodes : group[n] \in Groups /\ thread[group[n]] = "returned"
      <3> SUFFICES ASSUME NEW n \in Nodes PROVE group[n] \in Groups /\ thread[group[n]] = "returned"
        OBVIOUS
      <3>1. group[n] \in Groups /\ Members(group[n]) # {}
        BY <2>1, Elements DEF Members
      <3> QED BY <1>1, <2>1, <3>1 DEF InPhase
    <2>4. started = {}
      BY <2>1, <2>3 DEF InLoops, TypeOK
    <2>5. \A n \in Nodes : queue[n] = <<>>
      <3> SUFFICES ASSUME NEW n \in Nodes PROVE queue[n] = <<>>
        OBVIOUS
      <3>1. consumer[n] \in {"idle", "open", "closed"}
        BY <2>1, Elements
      <3>2. sources[n] = 0
        BY <2>1, <2>3, <3>1 DEF Consuming
      <3> QED BY <1>1, <3>2, Drained
    <2>6. \A e \in Edges : out[e] = <<>>
      <3>1. \A e \in Edges : edges[e].from \in Nodes
        BY <2>1, Elements
      <3> QED BY <2>1, <2>3, <3>1 DEF InLoops
    <2>7. \A g \in Groups : logOut[g] = <<>>
      BY <2>1, <2>2 DEF InLoops
    <2>8. logQueue = <<>>
      <3>1. logs \in {"idle", "closed"}
        BY <1>1, <2>1 DEF InPhase, TypeOK
      <3>2. logSources = 0
        BY <1>1, <2>1, <3>1 DEF LogConsuming
      <3> QED BY <1>1, <3>2, LogDrained
    <2>9. ASSUME NEW m \in Messages
          PROVE  ref[m] \in {-1, 0}
      <3>1. Cardinality(At(logQueue, m)) = 0
        BY <2>8, AtEmpty
      <3>2. Places(out, m) = {} /\ Places(queue, m) = {} /\ Places(logOut, m) = {}
        <4>1. DOMAIN out = Edges /\ DOMAIN queue = Nodes /\ DOMAIN logOut = Groups
          BY <2>1, Domains
        <4>2. /\ \A e \in Edges : At(out[e], m) = {}
              /\ \A n \in Nodes : At(queue[n], m) = {}
              /\ \A g \in Groups : At(logOut[g], m) = {}
          BY <2>5, <2>6, <2>7, AtEmpty
        <4> QED BY <4>1, <4>2 DEF Places
      <3>3. InQueues(m) = 0
        BY <3>1, <3>2, FS_EmptySet DEF InQueues
      <3> QED BY <2>1, <3>3 DEF Sharing
    <2> QED BY <2>2, <2>4, <2>9
  <1>2. Inv => EndsClean
    BY <1>1 DEF EndsClean
  <1> QED BY <1>2, Invariance, PTL

-----------------------------------------------------------------------------
(* The queues between the nodes, which module Flow has as module Channel   *)
(* specifies them: module Queue implements that specification, for every   *)
(* size of elements, writes, batches and the pipe, and any number of       *)
(* producers and consumers.  The assumptions are those of module Queue.    *)

\* As many whole elements as fit into m bytes.
LEMMA WholeElements ==
  ASSUME NEW n \in Nat \ {0}, NEW k \in Nat, NEW m \in Nat, m <= k * n
  PROVE  m \div n \in 0 .. k
  <1> DEFINE d == m \div n
             r == m % n
  <1>1. d \in Int /\ r \in 0 .. n - 1 /\ m = n * d + r
    OBVIOUS
  <1> HIDE DEF d, r
  <1>2. d >= 0
    <2> SUFFICES ASSUME d < 0
                 PROVE  FALSE
      BY <1>1
    <2>1. n * d <= n * (-1)
      BY <1>1
    <2> QED BY <1>1, <2>1
  <1>3. d <= k
    <2> SUFFICES ASSUME d > k
                 PROVE  FALSE
      BY <1>1
    <2>1. n * d >= n * (k + 1)
      BY <1>1
    <2>2. n * (k + 1) = k * n + n
      OBVIOUS
    <2> QED BY <1>1, <2>1, <2>2
  <1> QED BY <1>1, <1>2, <1>3 DEF d

\* Two sequences of the same length with the same elements.
LEMMA SameSeq ==
  ASSUME NEW S, NEW s \in Seq(S), NEW t \in Seq(S), Len(s) = Len(t),
         \A i \in 1 .. Len(s) : s[i] = t[i]
  PROVE  s = t
  BY SeqEqual

\* The end of a sequence, after k elements, and its beginning.
LEMMA RestFacts ==
  ASSUME NEW S, NEW s \in Seq(S), NEW k \in 0 .. Len(s)
  PROVE  /\ Rest(s, k) \in Seq(S)
         /\ Len(Rest(s, k)) = Len(s) - k
         /\ \A i \in 1 .. Len(s) - k : Rest(s, k)[i] = s[k + i]
  BY DEF Rest

LEMMA FirstFacts ==
  ASSUME NEW S, NEW s \in Seq(S), NEW k \in 0 .. Len(s)
  PROVE  /\ First(s, k) \in Seq(S)
         /\ Len(First(s, k)) = k
         /\ \A i \in 1 .. k : First(s, k)[i] = s[i]
  BY DEF First

LEMMA ConcatFacts ==
  ASSUME NEW S, NEW s \in Seq(S), NEW t \in Seq(S)
  PROVE  /\ s \o t \in Seq(S)
         /\ Len(s \o t) = Len(s) + Len(t)
         /\ \A i \in 1 .. Len(s) : (s \o t)[i] = s[i]
         /\ \A i \in 1 .. Len(t) : (s \o t)[Len(s) + i] = t[i]
  OBVIOUS

\* The whole, and nothing.
LEMMA RestAll ==
  ASSUME NEW S, NEW s \in Seq(S)
  PROVE  Rest(s, 0) = s /\ Rest(s, Len(s)) = <<>> /\ First(s, 0) = <<>>
  <1>1. Rest(s, 0) = s
    <2>1. /\ Rest(s, 0) \in Seq(S)
          /\ Len(Rest(s, 0)) = Len(s) - 0
          /\ \A i \in 1 .. Len(s) - 0 : Rest(s, 0)[i] = s[0 + i]
      BY RestFacts
    <2>2. \A i \in 1 .. Len(s) : Rest(s, 0)[i] = s[i]
      BY <2>1
    <2> QED BY <2>1, <2>2, SameSeq
  <1>2. Rest(s, Len(s)) = <<>>
    <2>1. Rest(s, Len(s)) \in Seq(S) /\ Len(Rest(s, Len(s))) = 0
      BY RestFacts
    <2> QED BY <2>1, EmptySeq
  <1>3. First(s, 0) = <<>>
    <2>1. First(s, 0) \in Seq(S) /\ Len(First(s, 0)) = 0
      BY FirstFacts
    <2> QED BY <2>1, EmptySeq
  <1> QED BY <1>1, <1>2, <1>3

\* What is taken from the front of the buffers comes from the first of them.
LEMMA RestJoined ==
  ASSUME NEW S, NEW s \in Seq(S), NEW t \in Seq(S),
         NEW a \in Nat, NEW k \in Nat, a + k <= Len(s)
  PROVE  /\ Rest(Rest(s, a) \o t, k) = Rest(s, a + k) \o t
         /\ First(Rest(s, a) \o t, k) = First(Rest(s, a), k)
  <1> DEFINE r == Rest(s, a)
             u == Rest(s, a + k)
             j == r \o t
             x == Rest(j, k)
             y == First(j, k)
             z == First(r, k)
             v == u \o t
  <1>1. /\ r \in Seq(S) /\ Len(r) = Len(s) - a
        /\ \A i \in 1 .. Len(s) - a : r[i] = s[a + i]
    BY RestFacts, SMTT(60)
  <1>2. /\ u \in Seq(S) /\ Len(u) = Len(s) - (a + k)
        /\ \A i \in 1 .. Len(s) - (a + k) : u[i] = s[(a + k) + i]
    <2>1. a + k \in 0 .. Len(s)
      OBVIOUS
    <2> QED BY <2>1, RestFacts
  <1> HIDE DEF r, u
  <1>3. /\ j \in Seq(S) /\ Len(j) = Len(r) + Len(t)
        /\ \A i \in 1 .. Len(r) : j[i] = r[i]
        /\ \A i \in 1 .. Len(t) : j[Len(r) + i] = t[i]
    <2>1. r \in Seq(S)
      BY <1>1
    <2> QED BY <2>1, ConcatFacts
  <1>4. /\ v \in Seq(S) /\ Len(v) = Len(u) + Len(t)
        /\ \A i \in 1 .. Len(u) : v[i] = u[i]
        /\ \A i \in 1 .. Len(t) : v[Len(u) + i] = t[i]
    <2>1. u \in Seq(S)
      BY <1>2
    <2> QED BY <2>1, ConcatFacts
  <1>5. k \in 0 .. Len(r) /\ k \in 0 .. Len(j) /\ Len(t) \in Nat
    BY <1>1, <1>3
  <1> HIDE DEF j, v
  <1>6. /\ x \in Seq(S) /\ Len(x) = Len(j) - k
        /\ \A i \in 1 .. Len(j) - k : x[i] = j[k + i]
    BY <1>3, <1>5, RestFacts, ZenonT(60)
  <1>7. y \in Seq(S) /\ Len(y) = k /\ \A i \in 1 .. k : y[i] = j[i]
    BY <1>3, <1>5, FirstFacts
  <1>8. z \in Seq(S) /\ Len(z) = k /\ \A i \in 1 .. k : z[i] = r[i]
    BY <1>1, <1>5, FirstFacts
  <1> HIDE DEF x, y, z
  <1>9. Len(x) = Len(v)
    BY <1>1, <1>2, <1>3, <1>4, <1>6
  <1>10. ASSUME NEW i \in 1 .. Len(x)
         PROVE  x[i] = v[i]
    <2>1. i \in Nat /\ x[i] = j[k + i]
      BY <1>3, <1>5, <1>6
    <2>2. CASE i <= Len(u)
      <3>1. k + i \in 1 .. Len(s) - a /\ i \in 1 .. Len(u) /\ a + (k + i) = (a + k) + i
        BY <1>2, <2>1, <2>2
      <3>2. j[k + i] = r[k + i] /\ r[k + i] = s[a + (k + i)]
        BY <1>1, <1>3, <3>1
      <3>3. v[i] = s[(a + k) + i]
        BY <1>2, <1>4, <3>1
      <3> QED BY <2>1, <3>1, <3>2, <3>3
    <2>3. CASE i > Len(u)
      <3> DEFINE l == i - Len(u)
      <3>1. l \in 1 .. Len(t) /\ k + i = Len(r) + l /\ i = Len(u) + l
        BY <1>1, <1>2, <1>4, <1>9, <2>1, <2>3
      <3> HIDE DEF l
      <3> QED BY <1>3, <1>4, <2>1, <3>1
    <2> QED BY <1>2, <2>1, <2>2, <2>3
  <1>11. x = v
    BY <1>4, <1>6, <1>9, <1>10, SameSeq
  <1>12. y = z
    <2>1. ASSUME NEW i \in 1 .. k
          PROVE  y[i] = z[i]
      <3>1. i \in 1 .. Len(r)
        BY <1>1, <1>5
      <3> QED BY <1>3, <1>7, <1>8, <3>1
    <2> QED BY <1>7, <1>8, <2>1, SameSeq
  <1> QED BY <1>11, <1>12 DEF x, v, y, z, r, u, j

\* Appending to the second buffer appends to both.
LEMMA AppendJoined ==
  ASSUME NEW S, NEW s \in Seq(S), NEW t \in Seq(S), NEW e \in S
  PROVE  s \o Append(t, e) = Append(s \o t, e)
  OBVIOUS

\* Two sequences in a row: the first element, and what follows it.
LEMMA JoinedHead ==
  ASSUME NEW S, NEW s \in Seq(S), NEW t \in Seq(S), s # <<>>
  PROVE  s \o t # <<>> /\ Head(s \o t) = Head(s) /\ Tail(s \o t) = Tail(s) \o t
  <1> DEFINE u == s \o t
             v == Tail(s)
             w == v \o t
  <1>1. /\ u \in Seq(S) /\ Len(u) = Len(s) + Len(t)
        /\ \A i \in 1 .. Len(s) : u[i] = s[i]
        /\ \A i \in 1 .. Len(t) : u[Len(s) + i] = t[i]
    BY ConcatFacts
  <1>2. /\ v \in Seq(S) /\ Len(v) = Len(s) - 1 /\ Len(s) \in Nat /\ Len(s) > 0 /\ Len(t) \in Nat
        /\ \A i \in 1 .. Len(s) - 1 : v[i] = s[i + 1]
    OBVIOUS
  <1> HIDE DEF u, v
  <1>3. /\ w \in Seq(S) /\ Len(w) = Len(v) + Len(t)
        /\ \A i \in 1 .. Len(v) : w[i] = v[i]
        /\ \A i \in 1 .. Len(t) : w[Len(v) + i] = t[i]
    <2>1. v \in Seq(S)
      BY <1>2
    <2> QED BY <2>1, ConcatFacts
  <1>4. u # <<>> /\ Head(u) = Head(s)
    BY <1>1, <1>2
  <1> HIDE DEF w
  <1>5. /\ Tail(u) \in Seq(S) /\ Len(Tail(u)) = Len(w)
        /\ \A i \in 1 .. Len(w) : Tail(u)[i] = u[i + 1]
    BY <1>1, <1>2, <1>3, <1>4
  <1>6. ASSUME NEW i \in 1 .. Len(w)
        PROVE  Tail(u)[i] = w[i]
    <2>1. CASE i <= Len(v)
      <3>1. i \in 1 .. Len(v) /\ i + 1 \in 1 .. Len(s) /\ i \in 1 .. Len(s) - 1
        BY <1>2, <1>3, <2>1
      <3> QED BY <1>1, <1>2, <1>3, <1>5, <3>1
    <2>2. CASE i > Len(v)
      <3> DEFINE l == i - Len(v)
      <3>1. l \in 1 .. Len(t) /\ i = Len(v) + l /\ i + 1 = Len(s) + l
        BY <1>2, <1>3, <2>2
      <3> HIDE DEF l
      <3>2. u[Len(s) + l] = t[l] /\ w[Len(v) + l] = t[l]
        BY <1>1, <1>3, <3>1
      <3>3. Tail(u)[i] = u[i + 1]
        BY <1>5
      <3> QED BY <3>1, <3>2, <3>3
    <2>3. i <= Len(v) \/ i > Len(v)
      BY <1>2, <1>3
    <2> QED BY <2>1, <2>2, <2>3, Zenon
  <1>7. Tail(u) = w
    BY <1>3, <1>5, <1>6, SameSeq
  <1> QED BY <1>4, <1>7 DEF u, v, w

\* The part of a sequence after the first a elements, up to the b-th.
LEMMA PartFacts ==
  ASSUME NEW S, NEW s \in Seq(S), NEW a \in Nat, NEW b \in Nat, a <= b, b <= Len(s)
  PROVE  /\ SubSeq(s, a + 1, b) \in Seq(S)
         /\ Len(SubSeq(s, a + 1, b)) = b - a
         /\ \A i \in 1 .. b - a : SubSeq(s, a + 1, b)[i] = s[a + i]
  OBVIOUS

LEMMA PartHead ==
  ASSUME NEW S, NEW s \in Seq(S), NEW a \in Nat, NEW b \in Nat, a < b, b <= Len(s)
  PROVE  /\ SubSeq(s, a + 1, b) # <<>>
         /\ Head(SubSeq(s, a + 1, b)) = s[a + 1]
         /\ Tail(SubSeq(s, a + 1, b)) = SubSeq(s, (a + 1) + 1, b)
         /\ s[a + 1] \in S
  <1> DEFINE r == SubSeq(s, a + 1, b)
             u == SubSeq(s, (a + 1) + 1, b)
  <1>1. /\ r \in Seq(S) /\ Len(r) = b - a
        /\ \A i \in 1 .. b - a : r[i] = s[a + i]
    BY PartFacts
  <1>2. /\ u \in Seq(S) /\ Len(u) = b - (a + 1)
        /\ \A i \in 1 .. b - (a + 1) : u[i] = s[(a + 1) + i]
    <2>1. a + 1 \in Nat /\ a + 1 <= b
      OBVIOUS
    <2> QED BY <2>1, PartFacts
  <1> HIDE DEF r, u
  <1>3. r # <<>> /\ Head(r) = s[a + 1]
    BY <1>1
  <1>4. /\ Tail(r) \in Seq(S) /\ Len(Tail(r)) = Len(u)
        /\ \A i \in 1 .. Len(u) : Tail(r)[i] = r[i + 1]
    BY <1>1, <1>2, <1>3
  <1>5. ASSUME NEW i \in 1 .. Len(u)
        PROVE  Tail(r)[i] = u[i]
    <2>1. i + 1 \in 1 .. b - a /\ a + (i + 1) = (a + 1) + i
      BY <1>2
    <2> QED BY <1>1, <1>2, <1>4, <2>1
  <1>6. Tail(r) = u
    BY <1>2, <1>4, <1>5, SameSeq
  <1> QED BY <1>3, <1>6 DEF r, u

\* What module Queue assumes of its constants.
LEMMA LimitsFacts ==
         /\ ElementSize \in Nat \ {0} /\ WriteMax \in Nat \ {0} /\ BatchSize \in Nat \ {0}
         /\ Producers \cap Consumers = {}
         /\ MaxPush \in Nat
  BY QueueSizesAssumption, QueueEndsAssumption, QueueBoundsAssumption

ProducerState ==
  [open : BOOLEAN, output : Seq(QueueElements), offset : Nat, queued : Seq(QueueElements),
   write : Operation]

ConsumerState ==
  [open : BOOLEAN, input : Seq(QueueElements), count : Nat, at : Nat, abort : BOOLEAN,
   read : Operation]

\* An operation that is not there, and one in flight.
LEMMA OperationFacts ==
  ASSUME NEW n \in Nat
  PROVE  /\ NoOperation \in Operation
         /\ NoOperation.state = "idle"
         /\ Flying(n) \in Operation
         /\ Flying(n).state = "flying" /\ Flying(n).size = n
  <1>1. NoOperation \in Operation /\ NoOperation.state = "idle"
    BY DEF NoOperation, Operation
  <1>2. Flying(n) = [NoOperation EXCEPT !.state = "flying", !.size = n]
    BY DEF Flying
  <1> QED BY <1>1, <1>2 DEF Operation

\* The fields of the records.
LEMMA ProducerFields ==
  ASSUME NEW q \in ProducerState
  PROVE  /\ q.open \in BOOLEAN
         /\ q.output \in Seq(QueueElements) /\ q.queued \in Seq(QueueElements)
         /\ q.offset \in Nat /\ Len(q.output) \in Nat
         /\ q.write \in Operation
         /\ q.write.state \in {"idle", "flying", "ended"}
         /\ q.write.size \in Nat
         /\ q.write.result \in Nat \cup {EINTR}
  BY DEF ProducerState, Operation

LEMMA ConsumerFields ==
  ASSUME NEW q \in ConsumerState
  PROVE  /\ q.open \in BOOLEAN /\ q.abort \in BOOLEAN
         /\ q.input \in Seq(QueueElements)
         /\ q.at \in Nat /\ q.count \in Nat /\ Len(q.input) \in Nat
         /\ q.read \in Operation
         /\ q.read.state \in {"idle", "flying", "ended"}
         /\ q.read.result \in Nat \cup {EINTR}
  BY DEF ConsumerState, Operation

\* What an ended write took is within the output.
LEMMA SentFacts ==
  ASSUME NEW q \in ProducerState, ProducerOK(q)
  PROVE  /\ SentOf(q) \in Nat
         /\ q.offset + SentOf(q) <= Len(q.output)
         /\ q.write.state # "ended" => SentOf(q) = 0
         /\ Unsent(q) \in Seq(QueueElements)
  <1>1. SentOf(q) \in Nat
    <2>1. CASE q.write.state = "ended" /\ q.write.result # EINTR
      <3>1. q.write.result \in Nat
        BY <2>1, ProducerFields
      <3> DEFINE m == q.write.result
      <3>2. m <= m * ElementSize
        <4> HIDE DEF m
        <4> QED BY <3>1, LimitsFacts DEF m
      <3>3. m \div ElementSize \in 0 .. m
        BY <3>1, <3>2, WholeElements, LimitsFacts
      <3> QED BY <2>1, <3>1, <3>3 DEF SentOf
    <2>2. CASE ~ (q.write.state = "ended" /\ q.write.result # EINTR)
      BY <2>2 DEF SentOf
    <2> QED BY <2>1, <2>2
  <1>2. q.offset + SentOf(q) <= Len(q.output)
    BY DEF ProducerOK
  <1>3. q.write.state # "ended" => SentOf(q) = 0
    BY DEF SentOf
  <1>4. q.offset + SentOf(q) \in 0 .. Len(q.output)
    BY <1>1, <1>2, ProducerFields
  <1>5. Rest(q.output, q.offset + SentOf(q)) \in Seq(QueueElements)
    BY <1>4, ProducerFields, RestFacts
  <1>6. Unsent(q) \in Seq(QueueElements)
    BY <1>5, ProducerFields, ConcatFacts DEF Unsent
  <1> QED BY <1>1, <1>2, <1>3, <1>6

\* queue_producer_update() moves what the buffers hold, at most.
LEMMA UpdateFacts ==
  ASSUME NEW q \in ProducerState, ProducerOK(q), q.open
  PROVE  LET r == ProducerUpdate(q)
         IN  /\ r \in ProducerState
             /\ ProducerOK(r)
             /\ r.open
             /\ Unsent(r) = Unsent(q)
  <1>1. CASE q.write.state # "idle"
    BY <1>1 DEF ProducerUpdate
  <1>2. CASE q.write.state = "idle"
    <2> DEFINE s == Swapped(q)
               r == Submitted(s, WriteMax * ElementSize)
    <2>1. SentOf(q) = 0 /\ q.offset <= Len(q.output)
      BY <1>2, SentFacts, ProducerFields
    <2>2. /\ s \in ProducerState /\ s.open /\ s.write = q.write
          /\ s.offset <= Len(s.output)
          /\ Rest(s.output, s.offset) \o s.queued = Rest(q.output, q.offset) \o q.queued
      <3>1. CASE q.offset = Len(q.output)
        <4>1. s = [q EXCEPT !.output = q.queued, !.queued = <<>>, !.offset = 0]
          BY <3>1 DEF Swapped
        <4> HIDE DEF s
        <4>0. <<>> \in Seq(QueueElements)
          OBVIOUS
        <4>2. /\ s \in ProducerState /\ s.open /\ s.write = q.write
              /\ s.output = q.queued /\ s.queued = <<>> /\ s.offset = 0
          BY <4>0, <4>1 DEF ProducerState
        <4>3. Rest(s.output, s.offset) = q.queued
          BY <4>2, ProducerFields, RestAll
        <4>4. Rest(q.output, q.offset) = <<>>
          BY <3>1, ProducerFields, RestAll
        <4>5. q.queued \o <<>> = q.queued /\ <<>> \o q.queued = q.queued
          BY ProducerFields
        <4>6. s.offset <= Len(s.output)
          BY <4>2, ProducerFields
        <4> QED BY <4>2, <4>3, <4>4, <4>5, <4>6
      <3>2. CASE q.offset # Len(q.output)
        BY <2>1, <3>2 DEF Swapped
      <3> QED BY <3>1, <3>2
    <2>3. r = ProducerUpdate(q)
      BY <1>2 DEF ProducerUpdate
    <2> HIDE DEF s
    <2>4. SentOf(s) = 0
      BY <1>2, <2>2 DEF SentOf
    <2>5. Unsent(q) = Rest(q.output, q.offset) \o q.queued
      <3>1. q.offset + 0 = q.offset
        BY ProducerFields
      <3> QED BY <2>1, <3>1 DEF Unsent
    <2>6. CASE s.output = <<>>
      <3>1. r = s
        BY <2>6 DEF Submitted
      <3>2. s.offset + 0 = s.offset
        BY <2>2, ProducerFields
      <3>3. ProducerOK(s)
        BY <1>2, <2>2, <2>4, <3>2 DEF ProducerOK
      <3>4. Unsent(s) = Unsent(q)
        BY <2>2, <2>4, <2>5, <3>2 DEF Unsent
      <3> QED BY <2>2, <2>3, <3>1, <3>3, <3>4
    <2>7. CASE s.output # <<>>
      <3> DEFINE left == (Len(s.output) - s.offset) * ElementSize
                 size == Least(left, WriteMax * ElementSize)
      <3>1. size \in Nat /\ size <= left
        <4>1. left \in Nat /\ WriteMax * ElementSize \in Nat
          <5>1. Len(s.output) - s.offset \in Nat
            BY <2>2, ProducerFields
          <5> QED BY <5>1, LimitsFacts
        <4> HIDE DEF left
        <4> QED BY <4>1 DEF Least
      <3>2. r = [s EXCEPT !.write = Flying(size)]
        BY <2>7 DEF Submitted
      <3> HIDE DEF size, r
      <3>3. /\ Flying(size) \in Operation
            /\ Flying(size).state = "flying" /\ Flying(size).size = size
        BY <3>1, OperationFacts
      <3>4. /\ r \in ProducerState /\ r.open
            /\ r.output = s.output /\ r.queued = s.queued /\ r.offset = s.offset
            /\ r.write.state = "flying" /\ r.write.size = size
        BY <2>2, <3>2, <3>3 DEF ProducerState
      <3>5. SentOf(r) = 0 /\ s.offset + 0 = s.offset
        BY <2>2, <3>4, ProducerFields DEF SentOf
      <3>6. ProducerOK(r)
        BY <2>2, <3>1, <3>4, <3>5 DEF ProducerOK
      <3>7. Unsent(r) = Unsent(q)
        BY <2>2, <2>5, <3>4, <3>5 DEF Unsent
      <3> QED BY <2>3, <3>4, <3>6, <3>7
    <2> QED BY <2>6, <2>7
  <1> QED BY <1>1, <1>2

\* The variables of module Channel.
Open == {p \in Producers : producers[p].open} \cup {c \in Consumers : consumers[c].open}

Backlogs == [p \in Producers |-> Backlog(p)]

Hands == [c \in Consumers |-> Hand(consumers[c])]

Eagers == {c \in Consumers : Eager(consumers[c])}

\* The steps of module Channel, in terms of these.
LEMMA PushIs ==
  ASSUME NEW p \in Producers, NEW e \in QueueElements, p \in Open, UNCHANGED <<Open, Hands, Eagers, got>>,
         \/ UNCHANGED pipe /\ Backlogs' = [Backlogs EXCEPT ![p] = Append(@, e)]
         \/ UNCHANGED Backlogs /\ pipe' = Append(pipe, e)
  PROVE  Promise!Next
  <1>1. Promise!Push(p, e) \/ Promise!PushSync(p, e)
    BY DEF Promise!Push, Promise!PushSync, Open, Backlogs, Hands, Eagers
  <1> QED BY <1>1 DEF Promise!Next

LEMMA SendIs ==
  ASSUME NEW p \in Producers, NEW k \in 0 .. Len(Backlogs[p]), UNCHANGED <<Open, Hands, Eagers, got>>,
         pipe' = pipe \o First(Backlogs[p], k),
         \/ Backlogs' = [Backlogs EXCEPT ![p] = Rest(@, k)]
         \/ p \notin Open /\ Backlogs' = [Backlogs EXCEPT ![p] = <<>>]
  PROVE  Promise!Next
  <1>1. Promise!Send(p, k) \/ Promise!SendLast(p, k)
    BY DEF Promise!Send, Promise!SendLast, Promise!Prefix, Promise!Suffix,
           First, Rest, Open, Backlogs, Hands, Eagers
  <1> QED BY <1>1 DEF Promise!Next, Backlogs

LEMMA DropIs ==
  ASSUME NEW p \in Producers, NEW k \in 0 .. Len(Backlogs[p]), UNCHANGED <<Hands, Eagers, pipe, got>>,
         Open' = Open \ {p}, Backlogs' = [Backlogs EXCEPT ![p] = First(@, k)]
  PROVE  Promise!Next
  <1>1. Promise!Drop(p, k)
    BY DEF Promise!Drop, Promise!Prefix, First, Open, Backlogs, Hands, Eagers
  <1> QED BY <1>1 DEF Promise!Next, Backlogs

LEMMA TakeIs ==
  ASSUME NEW c \in Consumers, NEW k \in 0 .. Len(pipe), UNCHANGED <<Open, Backlogs, Eagers, got>>,
         pipe' = Rest(pipe, k),
         \/ c \in Open /\ Hands' = [Hands EXCEPT ![c] = @ \o First(pipe, k)]
         \/ c \notin Open /\ UNCHANGED Hands
  PROVE  Promise!Next
  <1>1. Promise!Take(c, k) \/ Promise!Lose(c, k)
    BY DEF Promise!Take, Promise!Lose, Promise!Prefix, Promise!Suffix,
           First, Rest, Open, Backlogs, Hands, Eagers
  <1> QED BY <1>1 DEF Promise!Next

LEMMA DeliverIs ==
  ASSUME NEW c \in Consumers, c \in Open, UNCHANGED <<Open, Backlogs, Eagers>>,
         \/ /\ Hands[c] = <<>> /\ pipe # <<>> /\ UNCHANGED Hands
            /\ got' = [got EXCEPT ![c] = Append(@, Head(pipe))] /\ pipe' = Tail(pipe)
         \/ /\ Hands[c] # <<>> /\ UNCHANGED pipe
            /\ got' = [got EXCEPT ![c] = Append(@, Head(Hands[c]))]
            /\ Hands' = [Hands EXCEPT ![c] = Tail(@)]
  PROVE  Promise!Next
  <1>1. Promise!TakeSync(c) \/ Promise!Deliver(c)
    BY DEF Promise!TakeSync, Promise!Deliver, Open, Backlogs, Hands, Eagers
  <1> QED BY <1>1 DEF Promise!Next

LEMMA CloseIs ==
  ASSUME NEW c \in Consumers, UNCHANGED <<Backlogs, pipe, got>>,
         Open' = Open \ {c}, Hands' = [Hands EXCEPT ![c] = <<>>],
         Eagers' = Eagers \ {c}
  PROVE  Promise!Next
  <1>1. Promise!Close(c)
    BY DEF Promise!Close, Open, Backlogs, Hands, Eagers
  <1> QED BY <1>1 DEF Promise!Next

LEMMA EagerIs ==
  ASSUME NEW c \in Consumers, UNCHANGED <<Open, Backlogs, pipe, Hands, got>>,
         Eagers' = Eagers \cup {c} \/ Eagers' = Eagers \ {c}
  PROVE  Promise!Next
  <1>1. Promise!Ask(c) \/ Promise!Calm(c)
    BY DEF Promise!Ask, Promise!Calm, Open, Backlogs, Hands, Eagers
  <1> QED BY <1>1 DEF Promise!Next

LEMMA OverwriteIs ==
  ASSUME NEW c \in Consumers, NEW k \in 0 .. Len(pipe),
         NEW rest \in [DOMAIN Hands[c] -> QueueElements],
         UNCHANGED <<Open, Backlogs, got>>, c \in Open, c \in Eagers,
         pipe' = Rest(pipe, k),
         \A i \in DOMAIN rest : rest[i] = Hands[c][i] \/ \E j \in 1 .. k : rest[i] = pipe[j],
         Hands' = [Hands EXCEPT ![c] = rest \o First(pipe, k)], Eagers' = Eagers \ {c}
  PROVE  Promise!Next
  <1>1. Promise!Overwrite(c, k, rest)
    BY DEF Promise!Overwrite, Promise!Prefix, Promise!Suffix,
           First, Rest, Open, Backlogs, Hands, Eagers
  <1> QED BY <1>1 DEF Promise!Next, Hands

LEMMA StutterIs ==
  ASSUME UNCHANGED <<Open, Backlogs, pipe, Hands, Eagers, got>>
  PROVE  UNCHANGED Promise!vars
  BY DEF Promise!vars, Open, Backlogs, Hands, Eagers

\* What the invariant says, with the sets of records named.
LEMMA QueueTypes ==
  ASSUME QueueInv
  PROVE  /\ producers \in [Producers -> ProducerState]
         /\ consumers \in [Consumers -> ConsumerState]
         /\ pipe \in Seq(QueueElements)
         /\ pushed \in 0 .. MaxPush
         /\ got \in [Consumers -> Seq(QueueElements)]
  BY DEF QueueInv, QueueTypeOK, ProducerState, ConsumerState

LEMMA QueueInvIs ==
  ASSUME /\ producers \in [Producers -> ProducerState]
         /\ consumers \in [Consumers -> ConsumerState]
         /\ pipe \in Seq(QueueElements)
         /\ pushed \in 0 .. MaxPush
         /\ got \in [Consumers -> Seq(QueueElements)]
         /\ \A p \in Producers : ProducerOK(producers[p])
         /\ \A c \in Consumers : ConsumerOK(consumers[c])
         /\ OrphansOK
  PROVE  QueueInv
  BY DEF QueueInv, QueueTypeOK, ProducerState, ConsumerState

LEMMA QueueInvIsNext ==
  ASSUME /\ producers' \in [Producers -> ProducerState]
         /\ consumers' \in [Consumers -> ConsumerState]
         /\ pipe' \in Seq(QueueElements)
         /\ pushed' \in 0 .. MaxPush
         /\ got' \in [Consumers -> Seq(QueueElements)]
         /\ \A p \in Producers : ProducerOK(producers'[p])
         /\ \A c \in Consumers : ConsumerOK(consumers'[c])
         /\ OrphansOK'
  PROVE  QueueInv'
  BY DEF QueueInv, QueueTypeOK, ProducerState, ConsumerState

\* A step of one producer that leaves it open changes its backlog only.
LEMMA ProducerChanges ==
  ASSUME QueueInv, NEW p \in Producers, NEW r \in ProducerState,
         ProducerOK(r), r.open, producers[p].open,
         producers' = [producers EXCEPT ![p] = r], UNCHANGED <<consumers, orphans>>
  PROVE  /\ producers' \in [Producers -> ProducerState]
         /\ \A x \in Producers : ProducerOK(producers'[x])
         /\ OrphansOK'
         /\ UNCHANGED <<Open, Hands, Eagers>>
         /\ p \in Open
         /\ Backlogs[p] = Unsent(producers[p])
         /\ Backlogs' = [Backlogs EXCEPT ![p] = Unsent(r)]
  <1>1. producers \in [Producers -> ProducerState]
    BY QueueTypes
  <1>2. producers'[p] = r /\ \A x \in Producers \ {p} : producers'[x] = producers[x]
    BY <1>1
  <1>3. producers' \in [Producers -> ProducerState]
    BY <1>1
  <1>4. \A x \in Producers : producers'[x].open = producers[x].open
    BY <1>1, <1>2, ProducerFields
  <1>5. \A x \in Producers : ProducerOK(producers'[x])
    BY <1>2 DEF QueueInv
  <1>6. OrphansOK'
    BY <1>4 DEF QueueInv, OrphansOK
  <1>7. UNCHANGED Open
    BY <1>4 DEF Open
  <1>8. UNCHANGED <<Hands, Eagers>>
    BY DEF Hands, Eagers
  <1>9. Backlog(p)' = Unsent(r)
    BY <1>2 DEF Backlog
  <1>10. \A x \in Producers \ {p} : Backlog(x)' = Backlog(x)
    BY <1>2 DEF Backlog
  <1>11. Backlogs' = [Backlogs EXCEPT ![p] = Unsent(r)]
    BY <1>9, <1>10 DEF Backlogs
  <1>12. p \in Open /\ Backlogs[p] = Unsent(producers[p])
    BY DEF Open, Backlogs, Backlog
  <1> QED BY <1>3, <1>5, <1>6, <1>7, <1>8, <1>11, <1>12

\* A step of one consumer that leaves it open, or closed, changes what is in
\* its hand only.
LEMMA ConsumerChanges ==
  ASSUME QueueInv, NEW c \in Consumers, NEW r \in ConsumerState,
         ConsumerOK(r), r.open = consumers[c].open,
         consumers' = [consumers EXCEPT ![c] = r], UNCHANGED <<producers, orphans>>
  PROVE  /\ consumers' \in [Consumers -> ConsumerState]
         /\ \A x \in Consumers : ConsumerOK(consumers'[x])
         /\ OrphansOK'
         /\ UNCHANGED <<Open, Backlogs>>
         /\ consumers[c].open => c \in Open
         /\ Hands[c] = Hand(consumers[c])
         /\ Hands' = [Hands EXCEPT ![c] = Hand(r)]
         /\ Eagers' = Eagers \cup {c} \/ Eagers' = Eagers \ {c}
         /\ ~ Eager(r) => Eagers' = Eagers \ {c}
         /\ (Eager(r) <=> Eager(consumers[c])) => UNCHANGED Eagers
         /\ Eager(consumers[c]) <=> c \in Eagers
  <1>1. consumers \in [Consumers -> ConsumerState]
    BY QueueTypes
  <1>2. consumers'[c] = r /\ \A x \in Consumers \ {c} : consumers'[x] = consumers[x]
    BY <1>1
  <1>3. consumers' \in [Consumers -> ConsumerState]
    BY <1>1
  <1>4. \A x \in Consumers : consumers'[x].open = consumers[x].open
    BY <1>1, <1>2
  <1>5. \A x \in Consumers : ConsumerOK(consumers'[x])
    BY <1>2 DEF QueueInv
  <1>6. OrphansOK'
    BY <1>4 DEF QueueInv, OrphansOK
  <1>7. UNCHANGED Open
    BY <1>4 DEF Open
  <1>8. UNCHANGED Backlogs
    BY DEF Backlogs, Backlog
  <1>9. Hands' = [Hands EXCEPT ![c] = Hand(r)]
    <2>1. Hands' = [x \in Consumers |-> Hand(consumers'[x])]
      BY DEF Hands
    <2>2. \A x \in Consumers \ {c} : Hand(consumers'[x]) = Hand(consumers[x])
      BY <1>2
    <2>3. Hand(consumers'[c]) = Hand(r)
      BY <1>2
    <2> QED BY <2>1, <2>2, <2>3 DEF Hands
  <1>10. (consumers[c].open => c \in Open) /\ Hands[c] = Hand(consumers[c])
    BY DEF Open, Hands
  <1>11. /\ Eagers' = Eagers \cup {c} \/ Eagers' = Eagers \ {c}
         /\ ~ Eager(r) => Eagers' = Eagers \ {c}
         /\ (Eager(r) <=> Eager(consumers[c])) => UNCHANGED Eagers
         /\ Eager(consumers[c]) <=> c \in Eagers
    <2>1. \A x \in Consumers : x \in Eagers' <=> Eager(consumers'[x])
      BY DEF Eagers
    <2>2. \A x \in Consumers : x \in Eagers <=> Eager(consumers[x])
      BY DEF Eagers
    <2>3. Eagers \subseteq Consumers /\ Eagers' \subseteq Consumers
      BY DEF Eagers
    <2>4. c \in Eagers' <=> Eager(r)
      BY <1>2, <2>1
    <2>5. \A x \in Consumers \ {c} : x \in Eagers' <=> x \in Eagers
      BY <1>2, <2>1, <2>2
    <2> HIDE DEF Eagers
    <2> QED BY <2>2, <2>3, <2>4, <2>5
  <1> QED BY <1>3, <1>5, <1>6, <1>7, <1>8, <1>9, <1>10, <1>11

\* One lemma per action: it keeps the invariant and is a step of module
\* Channel, or leaves its variables alone.
LEMMA ProducerPushStep ==
  ASSUME QueueInv, NEW p \in Producers, ProducerPush(p)
  PROVE  QueueInv' /\ Promise!Next
  <1> DEFINE q == producers[p]
             e == Element(p, FALSE)
             s == [q EXCEPT !.queued = Append(@, e)]
             r == ProducerUpdate(s)
  <1>1. q \in ProducerState /\ ProducerOK(q) /\ q.open
    BY QueueTypes DEF QueueInv, ProducerPush
  <1>2. /\ producers' = [producers EXCEPT ![p] = r]
        /\ UNCHANGED <<consumers, pipe, orphans, interrupts, got>>
        /\ pushed < MaxPush /\ pushed' = pushed + 1
    BY DEF ProducerPush
  <1>3. e \in QueueElements
    BY <1>2, QueueTypes, LimitsFacts DEF Element, QueueElements
  <1> HIDE DEF q, e
  <1>4. Append(q.queued, e) \in Seq(QueueElements)
    BY <1>1, <1>3, ProducerFields
  <1>5. /\ s \in ProducerState /\ s.open
        /\ s.output = q.output /\ s.offset = q.offset /\ s.write = q.write
        /\ s.queued = Append(q.queued, e)
    BY <1>1, <1>4 DEF ProducerState
  <1> HIDE DEF s
  <1>6. SentOf(s) = SentOf(q)
    BY <1>5 DEF SentOf
  <1>7. ProducerOK(s)
    BY <1>1, <1>5, <1>6 DEF ProducerOK
  <1>8. Unsent(s) = Append(Unsent(q), e)
    <2>1. q.offset + SentOf(q) \in 0 .. Len(q.output)
      BY <1>1, SentFacts, ProducerFields
    <2>2. Rest(q.output, q.offset + SentOf(q)) \in Seq(QueueElements)
      BY <1>1, <2>1, RestFacts, ProducerFields
    <2>3. q.queued \in Seq(QueueElements)
      BY <1>1, ProducerFields
    <2> DEFINE x == Rest(q.output, q.offset + SentOf(q))
    <2>4. Unsent(s) = x \o Append(q.queued, e) /\ Unsent(q) = x \o q.queued
      BY <1>5, <1>6 DEF Unsent
    <2>5. x \in Seq(QueueElements)
      BY <2>2
    <2> HIDE DEF x
    <2> QED BY <1>3, <2>3, <2>4, <2>5, AppendJoined, SMTT(60)
  <1>9. r \in ProducerState /\ ProducerOK(r) /\ r.open /\ Unsent(r) = Append(Unsent(q), e)
    BY <1>5, <1>7, <1>8, UpdateFacts
  <1> HIDE DEF r
  <1>10. /\ producers' \in [Producers -> ProducerState]
         /\ \A x \in Producers : ProducerOK(producers'[x])
         /\ OrphansOK'
         /\ UNCHANGED <<Open, Hands, Eagers>>
         /\ p \in Open
         /\ Backlogs[p] = Unsent(producers[p])
         /\ Backlogs' = [Backlogs EXCEPT ![p] = Unsent(r)]
    BY <1>1, <1>2, <1>9, ProducerChanges DEF q
  <1>11. QueueInv'
    <2>1. pushed' \in 0 .. MaxPush
      BY <1>2, QueueTypes, LimitsFacts
    <2> QED BY <1>2, <1>10, <2>1, QueueTypes, QueueInvIsNext DEF QueueInv
  <1>12. Backlogs' = [Backlogs EXCEPT ![p] = Append(@, e)]
    BY <1>9, <1>10 DEF q
  <1> QED BY <1>2, <1>3, <1>10, <1>11, <1>12, PushIs

LEMMA ProducerPushSyncStep ==
  ASSUME QueueInv, NEW p \in Producers, ProducerPushSync(p)
  PROVE  QueueInv' /\ Promise!Next
  <1> DEFINE e == Element(p, TRUE)
  <1>1. /\ producers[p].open /\ pushed < MaxPush /\ pushed' = pushed + 1
        /\ pipe' = Append(pipe, e)
        /\ UNCHANGED <<producers, consumers, orphans, interrupts, got>>
    BY DEF ProducerPushSync
  <1>2. e \in QueueElements
    BY <1>1, QueueTypes, LimitsFacts DEF Element, QueueElements
  <1> HIDE DEF e
  <1>3. pushed' \in 0 .. MaxPush /\ pipe' \in Seq(QueueElements)
    BY <1>1, <1>2, QueueTypes, LimitsFacts
  <1>4. OrphansOK'
    BY <1>1 DEF QueueInv, OrphansOK
  <1>5. QueueInv'
    BY <1>1, <1>3, <1>4, QueueTypes, QueueInvIsNext DEF QueueInv
  <1>6. UNCHANGED <<Open, Backlogs, Hands, Eagers>> /\ p \in Open
    BY <1>1 DEF Open, Backlogs, Hands, Eagers, Backlog
  <1> QED BY <1>1, <1>2, <1>5, <1>6, PushIs

LEMMA ProducerWriteStep ==
  ASSUME QueueInv, NEW p \in Producers, ProducerWrite(p)
  PROVE  QueueInv' /\ UNCHANGED Promise!vars
  <1> DEFINE q == producers[p]
             m == IF q.write.result = EINTR THEN q.offset
                  ELSE q.offset + q.write.result \div ElementSize
             s == [q EXCEPT !.write = NoOperation, !.offset = m]
             r == ProducerUpdate(s)
  <1>1. q \in ProducerState /\ ProducerOK(q) /\ q.open /\ q.write.state = "ended"
    BY QueueTypes DEF QueueInv, ProducerWrite
  <1>2. /\ producers' = [producers EXCEPT ![p] = r]
        /\ UNCHANGED <<consumers, pipe, orphans, pushed, interrupts, got>>
    BY <1>1 DEF ProducerWrite, ProducerState
  <1> HIDE DEF q
  <1>3. m = q.offset + SentOf(q) /\ m \in Nat /\ m <= Len(q.output)
    <2>1. /\ SentOf(q) \in Nat /\ q.offset \in Nat /\ Len(q.output) \in Nat
          /\ q.offset + SentOf(q) <= Len(q.output)
      BY <1>1, SentFacts, ProducerFields
    <2>2. m = q.offset + SentOf(q)
      <3>1. CASE q.write.result = EINTR
        BY <1>1, <2>1, <3>1 DEF SentOf
      <3>2. CASE q.write.result # EINTR
        BY <1>1, <3>2 DEF SentOf
      <3> QED BY <3>1, <3>2
    <2> HIDE DEF m
    <2> QED BY <2>1, <2>2
  <1> HIDE DEF m
  <1>4. /\ s \in ProducerState /\ s.open
        /\ s.output = q.output /\ s.offset = m /\ s.write = NoOperation
        /\ s.queued = q.queued
    BY <1>1, <1>3, OperationFacts DEF ProducerState
  <1> HIDE DEF s
  <1>5. s.write.state = "idle"
    BY <1>4, OperationFacts
  <1>6. SentOf(s) = 0 /\ m + 0 = m
    BY <1>3, <1>5 DEF SentOf
  <1>7. ProducerOK(s)
    BY <1>3, <1>4, <1>5, <1>6 DEF ProducerOK
  <1>8. Unsent(s) = Unsent(q)
    BY <1>3, <1>4, <1>6 DEF Unsent
  <1>9. r \in ProducerState /\ ProducerOK(r) /\ r.open /\ Unsent(r) = Unsent(q)
    BY <1>4, <1>7, <1>8, UpdateFacts
  <1> HIDE DEF r
  <1>10. /\ producers' \in [Producers -> ProducerState]
         /\ \A x \in Producers : ProducerOK(producers'[x])
         /\ OrphansOK'
         /\ UNCHANGED <<Open, Hands, Eagers>>
         /\ Backlogs[p] = Unsent(producers[p])
         /\ Backlogs' = [Backlogs EXCEPT ![p] = Unsent(r)]
    BY ZenonT(60), <1>1, <1>2, <1>9, ProducerChanges DEF q
  <1>11. QueueInv'
    BY <1>2, <1>10, QueueTypes, QueueInvIsNext DEF QueueInv
  <1>12. UNCHANGED Backlogs
    BY <1>9, <1>10 DEF q, Backlogs
  <1> QED BY <1>2, <1>10, <1>11, <1>12, StutterIs

\* A write ends: an operation that changes its state and its result only.
LEMMA WriteEnds ==
  ASSUME QueueInv, NEW p \in Producers, NEW m \in Nat \cup {EINTR},
         producers[p].write.state = "flying",
         m # EINTR => m <= producers[p].write.size,
         producers' = [producers EXCEPT ![p].write.state = "ended", ![p].write.result = m],
         UNCHANGED <<consumers, orphans>>
  PROVE  LET q == producers[p]
             k == IF m = EINTR THEN 0 ELSE m \div ElementSize
             new == Rest(q.output, q.offset + k) \o q.queued
         IN  /\ producers' \in [Producers -> ProducerState]
             /\ \A x \in Producers : ProducerOK(producers'[x])
             /\ OrphansOK'
             /\ UNCHANGED <<Open, Hands, Eagers>>
             /\ k \in Nat /\ q.offset + k <= Len(q.output)
             /\ Backlogs[p] = Rest(q.output, q.offset) \o q.queued
             /\ Backlogs' = [Backlogs EXCEPT ![p] = new]
  <1> DEFINE q == producers[p]
             k == IF m = EINTR THEN 0 ELSE m \div ElementSize
             w == [q.write EXCEPT !.state = "ended", !.result = m]
             r == [q EXCEPT !.write = w]
  <1>1. q \in ProducerState /\ ProducerOK(q) /\ q.open
    BY QueueTypes DEF QueueInv, ProducerOK
  <1>2. producers' = [producers EXCEPT ![p] = r]
    BY <1>1, QueueTypes DEF ProducerState, Operation
  <1>3. q.write.state = "flying" /\ (m # EINTR => m <= q.write.size)
    OBVIOUS
  <1> HIDE DEF q
  <1>4. w \in Operation /\ w.state = "ended" /\ w.result = m
    BY <1>1, ProducerFields DEF Operation
  <1> HIDE DEF w
  <1>5. /\ r \in ProducerState /\ r.open
        /\ r.output = q.output /\ r.offset = q.offset /\ r.write = w /\ r.queued = q.queued
    BY <1>1, <1>4 DEF ProducerState
  <1> HIDE DEF r
  <1>6. SentOf(r) = k
    BY <1>4, <1>5 DEF SentOf
  <1>7. k \in Nat /\ q.offset + k <= Len(q.output)
    <2>1. /\ q.offset \in Nat /\ Len(q.output) \in Nat /\ q.write.size \in Nat
          /\ q.offset <= Len(q.output)
      BY <1>1, <1>3, SentFacts, ProducerFields
    <2>2. CASE m = EINTR
      BY <2>1, <2>2
    <2>3. CASE m # EINTR
      <3> DEFINE l == Len(q.output) - q.offset
      <3>1. l \in Nat
        BY <2>1
      <3>2. m \in Nat /\ m <= l * ElementSize
        <4>1. q.write.size <= l * ElementSize
          BY <1>1, <1>3 DEF ProducerOK
        <4>2. l * ElementSize \in Nat
          BY <3>1, LimitsFacts
        <4> HIDE DEF l
        <4> QED BY <1>3, <2>1, <2>3, <4>1, <4>2
      <3> HIDE DEF l
      <3>3. m \div ElementSize \in 0 .. l
        BY <3>1, <3>2, WholeElements, LimitsFacts
      <3>4. k \in 0 .. l
        BY <2>3, <3>3
      <3> HIDE DEF k
      <3> QED BY <2>1, <3>1, <3>4 DEF l
    <2> QED BY <2>2, <2>3
  <1> HIDE DEF k
  <1>8. ProducerOK(r)
    BY <1>4, <1>5, <1>6, <1>7 DEF ProducerOK
  <1>9. /\ producers' \in [Producers -> ProducerState]
        /\ \A x \in Producers : ProducerOK(producers'[x])
        /\ OrphansOK'
        /\ UNCHANGED <<Open, Hands, Eagers>>
        /\ Backlogs[p] = Unsent(q)
        /\ Backlogs' = [Backlogs EXCEPT ![p] = Unsent(r)]
    BY <1>1, <1>2, <1>5, <1>8, ProducerChanges DEF q
  <1>10. Unsent(r) = Rest(q.output, q.offset + k) \o q.queued
    BY <1>5, <1>6 DEF Unsent
  <1>11. Unsent(q) = Rest(q.output, q.offset) \o q.queued
    <2>1. SentOf(q) = 0 /\ q.offset + 0 = q.offset
      BY <1>1, <1>3, SentFacts, ProducerFields
    <2> QED BY <2>1 DEF Unsent
  <1> QED BY <1>7, <1>9, <1>10, <1>11 DEF q, k

LEMMA PipeWriteStep ==
  ASSUME QueueInv, NEW p \in Producers, PipeWrite(p)
  PROVE  QueueInv' /\ Promise!Next
  <1> DEFINE q == producers[p]
  <1>1. /\ q.write.state = "flying"
        /\ UNCHANGED <<consumers, orphans, pushed, interrupts, got>>
    BY DEF PipeWrite
  <1>2. PICK m \in WriteResults(q.write.size) :
          /\ pipe' = pipe \o First(Rest(q.output, q.offset), m \div ElementSize)
          /\ producers' = [producers EXCEPT ![p].write.state = "ended", ![p].write.result = m]
    BY DEF PipeWrite
  <1>3. m \in Nat /\ m # EINTR /\ m <= q.write.size
    <2>1. m \in 1 .. q.write.size /\ q.write.size \in Nat
      BY QueueTypes, ProducerFields DEF WriteResults
    <2> QED BY <2>1 DEF EINTR
  <1> DEFINE k == m \div ElementSize
  <1>4. /\ producers' \in [Producers -> ProducerState]
        /\ \A x \in Producers : ProducerOK(producers'[x])
        /\ OrphansOK'
        /\ UNCHANGED <<Open, Hands, Eagers>>
        /\ k \in Nat /\ q.offset + k <= Len(q.output)
        /\ Backlogs[p] = Rest(q.output, q.offset) \o q.queued
        /\ Backlogs' = [Backlogs EXCEPT ![p] = Rest(q.output, q.offset + k) \o q.queued]
    BY <1>1, <1>2, <1>3, WriteEnds, Zenon
  <1>5. pipe' = pipe \o First(Rest(q.output, q.offset), k)
    BY <1>2
  <1>6. q \in ProducerState
    BY QueueTypes
  <1> HIDE DEF q, k
  <1>7. /\ q.output \in Seq(QueueElements) /\ q.queued \in Seq(QueueElements)
        /\ q.offset \in Nat /\ Len(q.output) \in Nat
    BY <1>6, ProducerFields
  <1>8. /\ Rest(Backlogs[p], k) = Rest(q.output, q.offset + k) \o q.queued
        /\ First(Backlogs[p], k) = First(Rest(q.output, q.offset), k)
    <2>1. /\ Rest(Rest(q.output, q.offset) \o q.queued, k)
             = Rest(q.output, q.offset + k) \o q.queued
          /\ First(Rest(q.output, q.offset) \o q.queued, k)
             = First(Rest(q.output, q.offset), k)
      <3>1. k \in Nat /\ q.offset + k <= Len(q.output)
        BY <1>4
      <3> DEFINE u == q.output
                 t == q.queued
                 a == q.offset
      <3>2. u \in Seq(QueueElements) /\ t \in Seq(QueueElements) /\ a \in Nat
        BY <1>7
      <3>3. a + k <= Len(u)
        BY <3>1
      <3> HIDE DEF u, t, a
      <3>4. /\ Rest(Rest(u, a) \o t, k) = Rest(u, a + k) \o t
            /\ First(Rest(u, a) \o t, k) = First(Rest(u, a), k)
        BY <3>1, <3>2, <3>3, RestJoined
      <3> QED BY <3>4 DEF u, t, a
    <2>2. Backlogs[p] = Rest(q.output, q.offset) \o q.queued
      BY <1>4
    <2> QED BY <2>1, <2>2
  <1>9. /\ Rest(q.output, q.offset) \in Seq(QueueElements)
        /\ Len(Rest(q.output, q.offset)) = Len(q.output) - q.offset
    <2>1. q.offset \in 0 .. Len(q.output)
      BY <1>4, <1>7
    <2> QED BY <1>7, <2>1, RestFacts
  <1>10. k \in 0 .. Len(Backlogs[p]) /\ k \in 0 .. Len(Rest(q.output, q.offset))
    <2>1. Len(Backlogs[p]) = Len(Rest(q.output, q.offset)) + Len(q.queued) /\ Len(q.queued) \in Nat
      <3> DEFINE x == Rest(q.output, q.offset)
      <3>1. Backlogs[p] = x \o q.queued
        BY <1>4
      <3>2. x \in Seq(QueueElements)
        BY <1>9
      <3> HIDE DEF x
      <3>3. Len(x \o q.queued) = Len(x) + Len(q.queued)
        BY <1>7, <3>2, ConcatFacts
      <3>4. Len(q.queued) \in Nat
        BY <1>7
      <3> QED BY <3>1, <3>3, <3>4 DEF x
    <2>2. k \in Nat /\ q.offset + k <= Len(q.output)
      BY <1>4
    <2> QED BY <1>7, <1>9, <2>1, <2>2
  <1>11. First(Rest(q.output, q.offset), k) \in Seq(QueueElements)
    BY <1>9, <1>10, FirstFacts
  <1>12. pipe' \in Seq(QueueElements)
    BY <1>5, <1>11, QueueTypes, ConcatFacts
  <1>13. QueueInv'
    BY <1>1, <1>4, <1>12, QueueTypes, QueueInvIsNext DEF QueueInv
  <1>14. Promise!Next
    <2>1. Backlogs' = [Backlogs EXCEPT ![p] = Rest(@, k)]
      BY <1>4, <1>8
    <2> QED BY <1>1, <1>4, <1>5, <1>8, <1>10, <2>1, SendIs
  <1> QED BY <1>13, <1>14

LEMMA WriteInterruptedStep ==
  ASSUME QueueInv, NEW p \in Producers, WriteInterrupted(p)
  PROVE  QueueInv' /\ UNCHANGED Promise!vars
  <1> DEFINE q == producers[p]
  <1>1. /\ q.write.state = "flying"
        /\ producers' = [producers EXCEPT ![p].write.state = "ended", ![p].write.result = EINTR]
        /\ UNCHANGED <<consumers, pipe, orphans, pushed, got>>
    BY DEF WriteInterrupted
  <1>2. /\ producers' \in [Producers -> ProducerState]
        /\ \A x \in Producers : ProducerOK(producers'[x])
        /\ OrphansOK'
        /\ UNCHANGED <<Open, Hands, Eagers>>
        /\ Backlogs[p] = Rest(q.output, q.offset) \o q.queued
        /\ Backlogs' = [Backlogs EXCEPT ![p] = Rest(q.output, q.offset + 0) \o q.queued]
    BY <1>1, WriteEnds, Zenon
  <1>3. q.offset + 0 = q.offset
    BY QueueTypes, ProducerFields
  <1>4. UNCHANGED Backlogs
    BY <1>2, <1>3 DEF Backlogs
  <1>5. QueueInv'
    BY <1>1, <1>2, QueueTypes, QueueInvIsNext DEF QueueInv
  <1> QED BY <1>1, <1>2, <1>4, <1>5, StutterIs

\* What is left of the batch that a consumer is passed.
LEMMA LeftFacts ==
  ASSUME NEW q \in ConsumerState, ConsumerOK(q)
  PROVE  /\ Left(q) \in Seq(QueueElements)
         /\ q.at = 0 => Left(q) = <<>>
         /\ q.at = q.count => Left(q) = <<>>
         /\ q.at > 0 => /\ Len(Left(q)) = q.count - q.at
                        /\ \A i \in 1 .. q.count - q.at : Left(q)[i] = q.input[q.at + i]
  <1>1. /\ q.at \in Nat /\ q.count \in Nat /\ q.input \in Seq(QueueElements)
        /\ Len(q.input) \in Nat
    BY ConsumerFields
  <1>2. CASE q.at = 0
    <2>1. Left(q) = <<>>
      BY <1>2 DEF Left
    <2> QED BY <1>2, <2>1
  <1>3. CASE q.at > 0
    <2> DEFINE s == q.input
               a == q.at
               b == q.count
               l == SubSeq(s, a + 1, b)
    <2>1. a <= b /\ b <= Len(s) /\ Left(q) = l
      BY <1>3 DEF ConsumerOK, Left
    <2>2. s \in Seq(QueueElements) /\ a \in Nat /\ b \in Nat
      BY <1>1
    <2> HIDE DEF s, a, b
    <2>3. l \in Seq(QueueElements) /\ Len(l) = b - a /\ \A i \in 1 .. b - a : l[i] = s[a + i]
      BY <2>1, <2>2, PartFacts
    <2> HIDE DEF l
    <2>4. a = b => l = <<>>
      BY <2>2, <2>3, EmptySeq
    <2> QED BY <1>3, <2>1, <2>2, <2>3, <2>4 DEF s, a, b
  <1> QED BY <1>1, <1>2, <1>3

\* What a read has brought.
LEMMA FetchedFacts ==
  ASSUME NEW q \in ConsumerState, ConsumerOK(q)
  PROVE  /\ Fetched(q) \in Seq(QueueElements)
         /\ q.read.state # "ended" \/ q.read.result = EINTR => Fetched(q) = <<>>
         /\ q.read.state = "ended" /\ q.read.result # EINTR =>
              Fetched(q) = First(q.input, q.read.result)
  <1>1. CASE q.read.state = "ended" /\ q.read.result # EINTR
    <2>1. q.read.result \in 0 .. Len(q.input) /\ q.input \in Seq(QueueElements)
      BY <1>1, ConsumerFields DEF ConsumerOK
    <2> QED BY <1>1, <2>1, FirstFacts DEF Fetched
  <1>2. CASE ~ (q.read.state = "ended" /\ q.read.result # EINTR)
    BY <1>2 DEF Fetched
  <1> QED BY <1>1, <1>2

\* What is in a consumer's hand, by where its loop is.
LEMMA HandFacts ==
  ASSUME NEW q \in ConsumerState, ConsumerOK(q)
  PROVE  /\ Hand(q) \in Seq(QueueElements)
         /\ ~ q.open => Hand(q) = <<>>
         /\ q.open => Hand(q) = Left(q) \o Fetched(q)
         /\ q.open /\ Left(q) = <<>> => Hand(q) = Fetched(q)
         /\ q.open /\ Fetched(q) = <<>> => Hand(q) = Left(q)
  <1>1. Left(q) \in Seq(QueueElements) /\ Fetched(q) \in Seq(QueueElements)
    BY LeftFacts, FetchedFacts
  <1>2. q.open \in BOOLEAN /\ Hand(q) = IF q.open THEN Left(q) \o Fetched(q) ELSE <<>>
    BY ConsumerFields DEF Hand
  <1> QED BY <1>1, <1>2

\* Consumers whose loop, batch and read agree hold the same.
LEMMA SameHand ==
  ASSUME NEW q, NEW r,
         r.open = q.open, r.input = q.input, r.count = q.count, r.at = q.at, Fetched(r) = Fetched(q)
  PROVE  Hand(r) = Hand(q)
  <1>1. Left(r) = Left(q)
    BY DEF Left
  <1> QED BY <1>1 DEF Hand

\* queue_consumer_update() leaves what was read alone.
LEMMA ConsumerUpdateFacts ==
  ASSUME NEW q \in ConsumerState, ConsumerOK(q), q.open
  PROVE  LET r == ConsumerUpdate(q)
         IN  /\ r \in ConsumerState
             /\ ConsumerOK(r)
             /\ r.open
             /\ r.at = q.at
             /\ Hand(r) = Hand(q)
  <1>1. CASE q.read.state # "idle"
    BY <1>1 DEF ConsumerUpdate
  <1>2. CASE q.read.state = "idle"
    <2> DEFINE f == Flying(BatchSize)
               r == [q EXCEPT !.read = f]
    <2>1. r = ConsumerUpdate(q)
      BY <1>2 DEF ConsumerUpdate
    <2>2. f \in Operation /\ f.state = "flying"
      BY OperationFacts, LimitsFacts
    <2> HIDE DEF f
    <2>3. /\ r \in ConsumerState /\ r.open = q.open /\ r.input = q.input /\ r.count = q.count
          /\ r.at = q.at /\ r.abort = q.abort /\ r.read = f
      BY <2>2 DEF ConsumerState
    <2> HIDE DEF r
    <2>4. ConsumerOK(r)
      BY <2>2, <2>3 DEF ConsumerOK
    <2>5. Fetched(r) = <<>> /\ Fetched(q) = <<>>
      BY <1>2, <2>2, <2>3, <2>4, FetchedFacts
    <2>6. Hand(r) = Hand(q)
      BY <2>3, <2>5, SameHand
    <2> QED BY <2>1, <2>3, <2>4, <2>6
  <1> QED BY <1>1, <1>2

LEMMA ConsumerPopStep ==
  ASSUME QueueInv, NEW c \in Consumers, ConsumerPop(c)
  PROVE  QueueInv' /\ Promise!Next
  <1> DEFINE q == consumers[c]
             r == ConsumerUpdate(q)
  <1>1. q \in ConsumerState /\ ConsumerOK(q) /\ q.open
    BY QueueTypes DEF QueueInv, ConsumerPop
  <1>2. /\ consumers' = [consumers EXCEPT ![c] = r]
        /\ UNCHANGED <<producers, pipe, orphans, pushed, interrupts, got>>
    BY DEF ConsumerPop
  <1>3. r \in ConsumerState /\ ConsumerOK(r) /\ r.open /\ Hand(r) = Hand(q)
    BY <1>1, ConsumerUpdateFacts
  <1>4. r.open = q.open
    BY <1>1, <1>3, ConsumerFields
  <1> HIDE DEF r
  <1>5. /\ consumers' \in [Consumers -> ConsumerState]
        /\ \A x \in Consumers : ConsumerOK(consumers'[x])
        /\ OrphansOK'
        /\ UNCHANGED <<Open, Backlogs>>
        /\ Hands' = [Hands EXCEPT ![c] = Hand(r)]
        /\ Hands[c] = Hand(q)
        /\ Eagers' = Eagers \cup {c} \/ Eagers' = Eagers \ {c}
    BY <1>2, <1>3, <1>4, ConsumerChanges
  <1>6. QueueInv'
    BY <1>2, <1>5, QueueTypes, QueueInvIsNext DEF QueueInv
  <1>7. UNCHANGED Hands
    BY <1>3, <1>5 DEF Hands
  <1> QED BY <1>2, <1>5, <1>6, <1>7, EagerIs

LEMMA ConsumerPopSyncStep ==
  ASSUME QueueInv, NEW c \in Consumers, ConsumerPopSync(c)
  PROVE  QueueInv' /\ Promise!Next
  <1> DEFINE q == consumers[c]
  <1>1. /\ q.open /\ q.read.state = "idle" /\ q.at = 0
        /\ pipe # <<>> /\ pipe' = Tail(pipe)
        /\ got' = [got EXCEPT ![c] = Append(@, Head(pipe))]
        /\ UNCHANGED <<producers, consumers, orphans, pushed, interrupts>>
    BY DEF ConsumerPopSync
  <1>2. q \in ConsumerState /\ ConsumerOK(q)
    BY QueueTypes DEF QueueInv
  <1>3. Hand(q) = <<>>
    <2>1. Left(q) = <<>> /\ Fetched(q) = <<>>
      BY <1>1, <1>2, LeftFacts, FetchedFacts
    <2> QED BY <1>1, <1>2, <2>1, HandFacts
  <1>4. pipe' \in Seq(QueueElements) /\ got' \in [Consumers -> Seq(QueueElements)]
    <2>1. Head(pipe) \in QueueElements /\ Tail(pipe) \in Seq(QueueElements)
      BY <1>1, QueueTypes
    <2>2. Append(got[c], Head(pipe)) \in Seq(QueueElements)
      BY <2>1, QueueTypes
    <2> QED BY <1>1, <2>1, <2>2, QueueTypes
  <1>5. OrphansOK'
    BY <1>1 DEF QueueInv, OrphansOK
  <1>6. QueueInv'
    BY <1>1, <1>4, <1>5, QueueTypes, QueueInvIsNext DEF QueueInv
  <1>7. UNCHANGED <<Open, Backlogs, Hands, Eagers>> /\ c \in Open /\ Hands[c] = <<>>
    BY <1>1, <1>3 DEF Open, Backlogs, Hands, Eagers, Backlog
  <1> QED BY <1>1, <1>6, <1>7, DeliverIs

\* queue_consumer_read() when the read was interrupted, and when it was not.
LEMMA ConsumerReadStep ==
  ASSUME QueueInv, NEW c \in Consumers, ConsumerRead(c)
  PROVE  QueueInv' /\ Promise!Next
  <1> DEFINE q == consumers[c]
             s == [q EXCEPT !.read = NoOperation]
  <1>1. q \in ConsumerState /\ ConsumerOK(q) /\ q.open /\ q.read.state = "ended" /\ q.at = 0
    BY QueueTypes DEF QueueInv, ConsumerRead
  <1>2. UNCHANGED <<producers, pipe, orphans, pushed, interrupts>>
    BY DEF ConsumerRead
  <1>3. Hand(q) = Fetched(q) /\ Left(q) = <<>>
    BY <1>1, HandFacts, LeftFacts
  <1>4. /\ s \in ConsumerState /\ s.open = q.open /\ s.input = q.input /\ s.count = q.count
        /\ s.at = 0 /\ s.abort = q.abort /\ s.read = NoOperation
    BY <1>1, OperationFacts DEF ConsumerState
  <1>5. CASE q.read.result = EINTR
    <2> DEFINE r == ConsumerUpdate(s)
    <2>1. consumers' = [consumers EXCEPT ![c] = r] /\ UNCHANGED got
      BY <1>5 DEF ConsumerRead
    <2> HIDE DEF s
    <2>2. ConsumerOK(s) /\ s.read.state = "idle"
      BY <1>1, <1>4, OperationFacts DEF ConsumerOK
    <2>3. Hand(s) = <<>> /\ Hand(q) = <<>>
      <3>1. Left(s) = <<>> /\ Fetched(s) = <<>>
        BY <1>4, <2>2, LeftFacts, FetchedFacts
      <3>2. Fetched(q) = <<>>
        BY <1>1, <1>5, FetchedFacts
      <3> QED BY <1>1, <1>3, <1>4, <2>2, <3>1, <3>2, HandFacts
    <2>4. r \in ConsumerState /\ ConsumerOK(r) /\ r.open /\ Hand(r) = Hand(q)
      BY <1>1, <1>4, <2>2, <2>3, ConsumerUpdateFacts
    <2>5. r.open = q.open
      BY <1>1, <2>4, ConsumerFields
    <2> HIDE DEF r
    <2>6. /\ consumers' \in [Consumers -> ConsumerState]
          /\ \A x \in Consumers : ConsumerOK(consumers'[x])
          /\ OrphansOK'
          /\ UNCHANGED <<Open, Backlogs>>
          /\ Hands' = [Hands EXCEPT ![c] = Hand(r)]
          /\ Hands[c] = Hand(q)
          /\ Eagers' = Eagers \cup {c} \/ Eagers' = Eagers \ {c}
      BY <1>2, <2>1, <2>4, <2>5, ConsumerChanges
    <2>7. QueueInv'
      BY <1>2, <2>1, <2>6, QueueTypes, QueueInvIsNext DEF QueueInv
    <2>8. UNCHANGED Hands
      BY <2>4, <2>6 DEF Hands
    <2> QED BY <1>2, <2>1, <2>6, <2>7, <2>8, EagerIs
  <1>6. CASE q.read.result # EINTR
    <2> DEFINE k == q.read.result
               d == q.input
               v == [s EXCEPT !.count = k]
               r == [v EXCEPT !.at = 1]
    <2>1. /\ consumers' = [consumers EXCEPT ![c] = r]
          /\ got' = [got EXCEPT ![c] = Append(@, d[1])]
      BY <1>4, <1>6 DEF ConsumerRead, Call
    <2>2. k \in 1 .. Len(d) /\ d \in Seq(QueueElements) /\ Len(d) \in Nat
      BY <1>1, <1>6, ConsumerFields DEF ConsumerOK
    <2>3. Fetched(q) = First(d, k)
      BY <1>1, <1>6, FetchedFacts
    <2> HIDE DEF k, s
    <2>4. /\ r \in ConsumerState /\ r.open = q.open /\ r.input = d /\ r.count = k /\ r.at = 1
          /\ r.abort = q.abort /\ r.read = NoOperation
      <3>1. k \in Nat
        BY <2>2
      <3>2. /\ v \in ConsumerState /\ v.open = q.open /\ v.input = d /\ v.count = k
            /\ v.abort = q.abort /\ v.read = NoOperation
        BY <1>4, <3>1 DEF ConsumerState
      <3> HIDE DEF v, q, d
      <3> QED BY <3>2 DEF ConsumerState
    <2> HIDE DEF r, q, d
    <2>5. r.read.state = "idle"
      BY <2>4, OperationFacts
    <2>6. ConsumerOK(r)
      BY <1>1, <2>2, <2>4, <2>5 DEF ConsumerOK
    <2>7. Hand(r) = SubSeq(d, 1 + 1, k)
      <3>1. Fetched(r) = <<>>
        BY <2>4, <2>5, <2>6, FetchedFacts
      <3>2. Left(r) = SubSeq(d, 1 + 1, k)
        BY <2>4 DEF Left
      <3> QED BY <1>1, <2>4, <2>6, <3>1, <3>2, HandFacts
    <2>8. /\ SubSeq(d, 0 + 1, k) # <<>>
          /\ Head(SubSeq(d, 0 + 1, k)) = d[0 + 1]
          /\ Tail(SubSeq(d, 0 + 1, k)) = SubSeq(d, (0 + 1) + 1, k)
          /\ d[0 + 1] \in QueueElements
      <3>1. k \in Nat /\ 0 < k /\ k <= Len(d) /\ 0 \in Nat
        BY <2>2
      <3> QED BY <2>2, <3>1, PartHead
    <2>9. /\ Fetched(q) # <<>> /\ Head(Fetched(q)) = d[1] /\ Tail(Fetched(q)) = Hand(r)
          /\ d[1] \in QueueElements
      <3>1. 0 + 1 = 1 /\ (0 + 1) + 1 = 1 + 1
        OBVIOUS
      <3> QED BY <2>3, <2>7, <2>8, <3>1, Zenon DEF First
    <2>10. /\ consumers' \in [Consumers -> ConsumerState]
           /\ \A x \in Consumers : ConsumerOK(consumers'[x])
           /\ OrphansOK'
           /\ UNCHANGED <<Open, Backlogs>>
           /\ c \in Open
           /\ Hands' = [Hands EXCEPT ![c] = Hand(r)]
           /\ Hands[c] = Hand(q)
           /\ (Eager(r) <=> Eager(q)) => UNCHANGED Eagers
      BY <1>1, <1>2, <2>1, <2>4, <2>6, ConsumerChanges DEF q
    <2>11. UNCHANGED Eagers
      BY <1>1, <2>5, <2>10 DEF Eager
    <2>12. got' \in [Consumers -> Seq(QueueElements)]
      <3>1. Append(got[c], d[1]) \in Seq(QueueElements)
        BY <2>9, QueueTypes
      <3> QED BY <2>1, <3>1, QueueTypes
    <2>13. QueueInv'
      BY <1>2, <2>10, <2>12, QueueTypes, QueueInvIsNext DEF QueueInv
    <2>14. Promise!Next
      <3>1. got' = [got EXCEPT ![c] = Append(@, Head(Hands[c]))]
        BY <1>3, <2>1, <2>9, <2>10
      <3>2. Hands' = [Hands EXCEPT ![c] = Tail(@)]
        BY <1>3, <2>9, <2>10
      <3>3. Hands[c] # <<>>
        BY <1>3, <2>9, <2>10
      <3> QED BY <1>2, <2>10, <2>11, <3>1, <3>2, <3>3, DeliverIs
    <2> QED BY <2>13, <2>14
  <1> QED BY <1>5, <1>6

\* The callback returns: the next element of the batch, with what a read has
\* brought meanwhile behind it, or the end of the loop.
LEMMA ConsumerReturnStep ==
  ASSUME QueueInv, NEW c \in Consumers, ConsumerReturn(c)
  PROVE  QueueInv' /\ Promise!Next
  <1> DEFINE q == consumers[c]
  <1>1. q \in ConsumerState /\ ConsumerOK(q) /\ q.at > 0
    BY QueueTypes DEF QueueInv, ConsumerReturn
  <1>2. UNCHANGED <<producers, pipe, orphans, pushed, interrupts>>
    BY DEF ConsumerReturn
  <1>3. /\ q.at \in Nat /\ q.count \in Nat /\ q.input \in Seq(QueueElements)
        /\ Len(q.input) \in Nat /\ q.at <= q.count /\ q.count <= Len(q.input)
        /\ q.open \in BOOLEAN /\ q.abort \in BOOLEAN /\ (q.abort <=> ~ q.open)
    BY <1>1, ConsumerFields DEF ConsumerOK
  <1>4. CASE ~ q.abort /\ q.at < q.count
    <2> DEFINE a == q.at
               b == q.count
               d == q.input
               r == [q EXCEPT !.at = a + 1]
    <2>1. /\ consumers' = [consumers EXCEPT ![c] = r]
          /\ got' = [got EXCEPT ![c] = Append(@, d[a + 1])]
      BY <1>4 DEF ConsumerReturn, Call
    <2>2. /\ r \in ConsumerState /\ r.open = q.open /\ r.input = d /\ r.count = b
          /\ r.at = a + 1 /\ r.abort = q.abort /\ r.read = q.read
      BY <1>1, <1>3 DEF ConsumerState
    <2>3. /\ a \in Nat /\ b \in Nat /\ d \in Seq(QueueElements) /\ Len(d) \in Nat
          /\ a > 0 /\ a < b /\ b <= Len(d)
      BY <1>1, <1>3, <1>4
    <2>4. Left(q) = SubSeq(d, a + 1, b)
      BY <1>1 DEF Left
    <2> HIDE DEF r
    <2>5. Left(r) = SubSeq(d, (a + 1) + 1, b)
      <3> HIDE DEF q, a, b, d
      <3>1. r.at > 0
        BY <2>2, <2>3
      <3> QED BY <2>2, <3>1 DEF Left
    <2> HIDE DEF q, a, b, d
    <2>6. ConsumerOK(r)
      BY <1>1, <1>3, <1>4, <2>2, <2>3 DEF ConsumerOK, a, b, d
    <2>7. Fetched(r) = Fetched(q) /\ Fetched(q) \in Seq(QueueElements)
      <3>1. Fetched(r) = Fetched(q)
        BY <2>2 DEF Fetched, d
      <3> QED BY <1>1, <3>1, FetchedFacts
    <2>8. /\ Left(q) # <<>> /\ Head(Left(q)) = d[a + 1] /\ Tail(Left(q)) = Left(r)
          /\ d[a + 1] \in QueueElements /\ Left(q) \in Seq(QueueElements)
      <3>1. /\ SubSeq(d, a + 1, b) # <<>>
            /\ Head(SubSeq(d, a + 1, b)) = d[a + 1]
            /\ Tail(SubSeq(d, a + 1, b)) = SubSeq(d, (a + 1) + 1, b)
            /\ d[a + 1] \in QueueElements
        BY <2>3, PartHead
      <3> QED BY <1>1, <2>4, <2>5, <3>1, LeftFacts
    <2>9. Hand(q) # <<>> /\ Head(Hand(q)) = d[a + 1] /\ Tail(Hand(q)) = Hand(r)
      <3> DEFINE x == Left(q)
                 y == Fetched(q)
      <3>1. Hand(q) = x \o y /\ Hand(r) = Tail(x) \o y
        BY <1>1, <1>3, <1>4, <2>2, <2>6, <2>7, <2>8, HandFacts
      <3>2. x \in Seq(QueueElements) /\ y \in Seq(QueueElements) /\ x # <<>> /\ Head(x) = d[a + 1]
        BY <2>7, <2>8
      <3> HIDE DEF x, y
      <3> QED BY <3>1, <3>2, JoinedHead
    <2>10. /\ consumers' \in [Consumers -> ConsumerState]
           /\ \A x \in Consumers : ConsumerOK(consumers'[x])
           /\ OrphansOK'
           /\ UNCHANGED <<Open, Backlogs>>
           /\ c \in Open
           /\ Hands' = [Hands EXCEPT ![c] = Hand(r)]
           /\ Hands[c] = Hand(q)
           /\ (Eager(r) <=> Eager(q)) => UNCHANGED Eagers
      BY <1>1, <1>2, <1>3, <1>4, <2>1, <2>2, <2>6, ConsumerChanges DEF q
    <2>11. UNCHANGED Eagers
      <3>1. q.at > 0 /\ r.at > 0
        BY <1>1, <2>2, <2>3
      <3> QED BY <2>2, <2>10, <3>1 DEF Eager
    <2>12. got' \in [Consumers -> Seq(QueueElements)]
      <3>1. Append(got[c], d[a + 1]) \in Seq(QueueElements)
        BY <2>8, QueueTypes
      <3> QED BY <2>1, <3>1, QueueTypes
    <2>13. QueueInv'
      BY <1>2, <2>10, <2>12, QueueTypes, QueueInvIsNext DEF QueueInv
    <2>14. Promise!Next
      <3>1. got' = [got EXCEPT ![c] = Append(@, Head(Hands[c]))]
        BY <2>1, <2>9, <2>10
      <3>2. Hands' = [Hands EXCEPT ![c] = Tail(@)]
        BY <2>9, <2>10
      <3>3. Hands[c] # <<>>
        BY <2>9, <2>10
      <3> QED BY <1>2, <2>10, <2>11, <3>1, <3>2, <3>3, DeliverIs
    <2> QED BY <2>13, <2>14
  <1>5. CASE ~ (~ q.abort /\ q.at < q.count)
    <2> DEFINE s == [q EXCEPT !.at = 0]
               r == IF q.abort THEN s ELSE ConsumerUpdate(s)
    <2>1. consumers' = [consumers EXCEPT ![c] = r] /\ UNCHANGED got
      BY <1>5 DEF ConsumerReturn
    <2> HIDE DEF q
    <2>2. /\ s \in ConsumerState /\ s.open = q.open /\ s.input = q.input /\ s.count = q.count
          /\ s.at = 0 /\ s.abort = q.abort /\ s.read = q.read
      BY <1>1 DEF ConsumerState
    <2> HIDE DEF s
    <2>3. ConsumerOK(s)
      BY <1>1, <1>3, <2>2 DEF ConsumerOK
    <2>4. Hand(q) = Hand(s)
      <3>1. CASE ~ q.open
        BY <1>1, <2>2, <2>3, <3>1, HandFacts
      <3>2. CASE q.open
        <4>1. q.at = q.count
          BY <1>3, <1>5, <3>2
        <4>2. Left(q) = <<>> /\ Left(s) = <<>>
          BY <1>1, <2>2, <2>3, <4>1, LeftFacts
        <4>3. Fetched(s) = Fetched(q)
          BY <2>2 DEF Fetched
        <4> QED BY <1>1, <2>2, <2>3, <3>2, <4>2, <4>3, HandFacts
      <3> QED BY <3>1, <3>2
    <2>5. /\ r \in ConsumerState /\ ConsumerOK(r) /\ r.open = q.open
          /\ Hand(r) = Hand(q)
      <3>1. CASE q.abort
        BY <2>2, <2>3, <2>4, <3>1
      <3>2. CASE ~ q.abort
        <4>1. r = ConsumerUpdate(s)
          BY <3>2
        <4>2. s.open /\ q.open = TRUE
          BY <1>3, <2>2, <3>2
        <4> HIDE DEF r
        <4>3. r \in ConsumerState /\ ConsumerOK(r) /\ r.open /\ Hand(r) = Hand(s)
          BY <2>2, <2>3, <4>1, <4>2, ConsumerUpdateFacts
        <4>4. r.open = TRUE
          BY <4>3, ConsumerFields
        <4> QED BY <2>4, <4>2, <4>3, <4>4
      <3> QED BY <1>3, <3>1, <3>2
    <2> HIDE DEF r
    <2>6. /\ consumers' \in [Consumers -> ConsumerState]
          /\ \A x \in Consumers : ConsumerOK(consumers'[x])
          /\ OrphansOK'
          /\ UNCHANGED <<Open, Backlogs>>
          /\ Hands' = [Hands EXCEPT ![c] = Hand(r)]
          /\ Hands[c] = Hand(q)
          /\ Eagers' = Eagers \cup {c} \/ Eagers' = Eagers \ {c}
      BY <1>2, <2>1, <2>5, ConsumerChanges DEF q
    <2>7. QueueInv'
      BY <1>2, <2>1, <2>6, QueueTypes, QueueInvIsNext DEF QueueInv
    <2>8. UNCHANGED Hands
      BY <2>5, <2>6 DEF Hands
    <2> QED BY <1>2, <2>1, <2>6, <2>7, <2>8, EagerIs
  <1> QED BY <1>4, <1>5

\* A read ends into an empty hand, or over some of what is left in it.
LEMMA PipeReadStep ==
  ASSUME QueueInv, NEW c \in Consumers, PipeRead(c)
  PROVE  QueueInv' /\ Promise!Next
  <1> DEFINE q == consumers[c]
             k == Least(BatchSize, Len(pipe))
             f == First(pipe, k)
             t == IF q.at > 0 THEN Rest(q.input, k) ELSE <<>>
             d == f \o t
             w == [[q.read EXCEPT !.state = "ended"] EXCEPT !.result = k]
             r == [[q EXCEPT !.read = w] EXCEPT !.input = d]
  <1>1. /\ q.read.state = "flying" /\ pipe # <<>> /\ pipe' = Rest(pipe, k)
        /\ UNCHANGED <<producers, orphans, pushed, interrupts, got>>
    BY DEF PipeRead
  <1>2. q \in ConsumerState /\ ConsumerOK(q) /\ q.open
    BY <1>1, QueueTypes DEF QueueInv, ConsumerOK
  <1>3. consumers' = [consumers EXCEPT ![c] = r]
    BY <1>2 DEF PipeRead, ConsumerState, Operation
  <1>4. k \in 0 .. Len(pipe) /\ k > 0 /\ k \in Nat /\ pipe \in Seq(QueueElements)
    <2>1. pipe \in Seq(QueueElements) /\ Len(pipe) \in Nat /\ Len(pipe) > 0
      BY <1>1, QueueTypes
    <2>2. BatchSize \in Nat \ {0}
      BY LimitsFacts
    <2> QED BY <2>1, <2>2 DEF Least
  <1> HIDE DEF k
  <1>5. f \in Seq(QueueElements) /\ Len(f) = k /\ \A j \in 1 .. k : f[j] = pipe[j]
    BY <1>4, FirstFacts
  <1>6. /\ q.input \in Seq(QueueElements) /\ Len(q.input) \in Nat
        /\ q.at \in Nat /\ q.count \in Nat /\ q.read \in Operation
    BY <1>2, ConsumerFields
  <1>7. /\ t \in Seq(QueueElements)
        /\ q.at = 0 => t = <<>>
        /\ q.at > 0 => /\ k <= Len(q.input) => Len(t) = Len(q.input) - k
                       /\ \A i \in 1 .. Len(q.input) - k : t[i] = q.input[k + i]
    <2>1. CASE q.at = 0
      BY <1>6, <2>1
    <2>2. CASE q.at > 0 /\ k <= Len(q.input)
      <3>1. k \in 0 .. Len(q.input)
        BY <1>4, <1>6, <2>2
      <3>2. /\ Rest(q.input, k) \in Seq(QueueElements) /\ Len(Rest(q.input, k)) = Len(q.input) - k
            /\ \A i \in 1 .. Len(q.input) - k : Rest(q.input, k)[i] = q.input[k + i]
        BY <1>6, <3>1, RestFacts
      <3>3. t = Rest(q.input, k)
        BY <2>2
      <3> HIDE DEF t
      <3> QED BY <2>2, <3>2, <3>3
    <2>3. CASE q.at > 0 /\ k > Len(q.input)
      <3>1. Rest(q.input, k) = <<>>
        BY <1>4, <1>6, <2>3 DEF Rest
      <3> QED BY <1>4, <1>6, <2>3, <3>1
    <2> QED BY <1>4, <1>6, <2>1, <2>2, <2>3
  <1> HIDE DEF f, t
  <1>8. /\ d \in Seq(QueueElements) /\ Len(d) = k + Len(t) /\ Len(t) \in Nat
        /\ \A j \in 1 .. k : d[j] = pipe[j]
        /\ \A i \in 1 .. Len(t) : d[k + i] = t[i]
    <2>1. /\ f \o t \in Seq(QueueElements) /\ Len(f \o t) = Len(f) + Len(t)
          /\ \A i \in 1 .. Len(f) : (f \o t)[i] = f[i]
          /\ \A i \in 1 .. Len(t) : (f \o t)[Len(f) + i] = t[i]
      <3>1. f \in Seq(QueueElements) /\ t \in Seq(QueueElements)
        BY <1>5, <1>7
      <3> QED BY <3>1, ConcatFacts
    <2>2. Len(t) \in Nat
      BY <1>7
    <2> QED BY <1>5, <2>1, <2>2
  <1>9. q.at = 0 => d = f
    BY <1>5, <1>7
  <1> HIDE DEF q, d
  <1>10. w \in Operation /\ w.state = "ended" /\ w.result = k
    BY <1>4, <1>6 DEF Operation
  <1> HIDE DEF w
  <1>11. /\ r \in ConsumerState /\ r.open = q.open /\ r.input = d /\ r.count = q.count
         /\ r.at = q.at /\ r.abort = q.abort /\ r.read = w
    BY <1>2, <1>8, <1>10 DEF ConsumerState
  <1> HIDE DEF r
  <1>12. q.at > 0 => q.at <= q.count /\ q.count <= Len(q.input)
    BY <1>2 DEF ConsumerOK
  <1>13. ConsumerOK(r)
    <2>1. q.at > 0 => q.count <= Len(d)
      BY <1>4, <1>6, <1>7, <1>8, <1>12
    <2>2. k \in 1 .. Len(d)
      BY <1>4, <1>8
    <2> QED BY <1>2, <1>10, <1>11, <2>1, <2>2 DEF ConsumerOK
  <1>14. Fetched(r) = f
    <2>1. k # EINTR
      BY <1>4 DEF EINTR
    <2>2. Fetched(r) = First(d, k)
      BY <1>10, <1>11, <1>13, <2>1, FetchedFacts
    <2>3. First(d, k) \in Seq(QueueElements) /\ Len(First(d, k)) = k /\ \A i \in 1 .. k : First(d, k)[i] = d[i]
      <3>1. k \in 0 .. Len(d)
        BY <1>4, <1>8
      <3> QED BY <1>8, <3>1, FirstFacts
    <2> DEFINE z == First(d, k)
    <2>4. z = f
      <3>1. z \in Seq(QueueElements) /\ Len(z) = Len(f) /\ \A i \in 1 .. Len(z) : z[i] = f[i]
        BY <1>5, <1>8, <2>3
      <3> HIDE DEF z
      <3> QED BY <1>5, <3>1, SameSeq
    <2> QED BY <2>2, <2>4
  <1>15. Fetched(q) = <<>>
    BY <1>1, <1>2, FetchedFacts DEF q
  <1>16. /\ consumers' \in [Consumers -> ConsumerState]
         /\ \A x \in Consumers : ConsumerOK(consumers'[x])
         /\ OrphansOK'
         /\ UNCHANGED <<Open, Backlogs>>
         /\ c \in Open
         /\ Hands' = [Hands EXCEPT ![c] = Hand(r)]
         /\ Hands[c] = Hand(q)
         /\ ~ Eager(r) => Eagers' = Eagers \ {c}
         /\ (Eager(r) <=> Eager(q)) => UNCHANGED Eagers
         /\ Eager(q) <=> c \in Eagers
    BY <1>1, <1>2, <1>3, <1>11, <1>13, ConsumerChanges DEF q
  <1>17. ~ Eager(r)
    BY <1>10, <1>11 DEF Eager
  <1>18. pipe' \in Seq(QueueElements)
    BY <1>1, <1>4, RestFacts
  <1>19. QueueInv'
    BY <1>1, <1>16, <1>18, QueueTypes, QueueInvIsNext DEF QueueInv
  <1>20. Hand(q) = Left(q) /\ Hand(r) = Left(r) \o f
    BY <1>2, <1>11, <1>13, <1>14, <1>15, HandFacts
  <1>21. CASE q.at = 0
    <2>1. Left(q) = <<>> /\ Left(r) = <<>>
      BY <1>2, <1>11, <1>13, <1>21, LeftFacts
    <2>2. Hand(q) \o f = f /\ Hand(r) = f
      BY <1>5, <1>20, <2>1
    <2>3. Hands' = [Hands EXCEPT ![c] = @ \o f]
      BY <1>16, <2>2
    <2>4. UNCHANGED Eagers
      BY <1>16, <1>17, <1>21 DEF Eager
    <2>5. Promise!Next
      BY <1>1, <1>4, <1>16, <2>3, <2>4, TakeIs DEF f
    <2> QED BY <1>19, <2>5
  <1>22. CASE q.at > 0
    <2> DEFINE rest == Left(r)
               n == q.count - q.at
    <2>1. /\ Left(q) \in Seq(QueueElements) /\ Len(Left(q)) = n
          /\ \A i \in 1 .. n : Left(q)[i] = q.input[q.at + i]
      BY <1>2, <1>22, LeftFacts
    <2>2. /\ rest \in Seq(QueueElements) /\ Len(rest) = n
          /\ \A i \in 1 .. n : rest[i] = d[q.at + i]
      BY <1>11, <1>13, <1>22, LeftFacts
    <2>3. n \in Nat /\ n = q.count - q.at
      BY <1>6, <1>12, <1>22
    <2> HIDE DEF rest, n
    <2>4. DOMAIN rest = 1 .. n /\ rest \in [1 .. n -> QueueElements] /\ DOMAIN Left(q) = 1 .. n
      BY <2>1, <2>2
    <2>5. ASSUME NEW i \in 1 .. n
          PROVE  rest[i] = Left(q)[i] \/ \E j \in 1 .. k : rest[i] = pipe[j]
      <3> DEFINE l == q.at + i
      <3>1. l \in Nat /\ l > 0 /\ l <= q.count /\ rest[i] = d[l] /\ Left(q)[i] = q.input[l]
        BY <1>6, <2>1, <2>2, <2>3
      <3> HIDE DEF l
      <3>2. CASE l <= k
        <4>1. l \in 1 .. k
          BY <1>4, <3>1, <3>2
        <4> QED BY <1>8, <3>1, <4>1
      <3>3. CASE l > k
        <4> DEFINE h == l - k
        <4>1. h \in 1 .. Len(q.input) - k /\ l = k + h /\ k <= Len(q.input)
          BY <1>4, <1>6, <1>12, <1>22, <3>1, <3>3
        <4> HIDE DEF h
        <4>2. d[k + h] = t[h] /\ t[h] = q.input[k + h]
          BY <1>7, <1>8, <1>22, <4>1
        <4> QED BY <3>1, <4>1, <4>2
      <3> QED BY <1>4, <3>1, <3>2, <3>3
    <2>6. Hands[c] = Left(q) /\ Hands' = [Hands EXCEPT ![c] = rest \o f]
      BY <1>16, <1>20 DEF rest
    <2>7. c \in Eagers
      BY <1>1, <1>16, <1>22 DEF Eager, q
    <2>8. rest \in [DOMAIN Hands[c] -> QueueElements]
      BY <2>4, <2>6
    <2>9. \A i \in DOMAIN rest : rest[i] = Hands[c][i] \/ \E j \in 1 .. k : rest[i] = pipe[j]
      BY <2>4, <2>5, <2>6
    <2>10. Promise!Next
      <3>1. Eagers' = Eagers \ {c} /\ UNCHANGED <<Open, Backlogs, got>> /\ c \in Open
        BY <1>1, <1>16, <1>17
      <3>2. Hands' = [Hands EXCEPT ![c] = rest \o First(pipe, k)] /\ pipe' = Rest(pipe, k)
        BY <1>1, <2>6 DEF f
      <3> QED BY <1>4, <2>7, <2>8, <2>9, <3>1, <3>2, OverwriteIs
    <2> QED BY <1>19, <2>10
  <1> QED BY <1>6, <1>21, <1>22

LEMMA ReadInterruptedStep ==
  ASSUME QueueInv, NEW c \in Consumers, ReadInterrupted(c)
  PROVE  QueueInv' /\ Promise!Next
  <1> DEFINE q == consumers[c]
             w == [q.read EXCEPT !.state = "ended", !.result = EINTR]
             r == [q EXCEPT !.read = w]
  <1>1. /\ q.read.state = "flying"
        /\ consumers' = [consumers EXCEPT ![c].read.state = "ended", ![c].read.result = EINTR]
        /\ UNCHANGED <<producers, pipe, orphans, pushed, got>>
    BY DEF ReadInterrupted
  <1>2. q \in ConsumerState /\ ConsumerOK(q) /\ q.open
    BY <1>1, QueueTypes DEF QueueInv, ConsumerOK
  <1>3. consumers' = [consumers EXCEPT ![c] = r]
    BY <1>1, <1>2, QueueTypes DEF ConsumerState, Operation
  <1> HIDE DEF q
  <1>4. w \in Operation /\ w.state = "ended" /\ w.result = EINTR
    BY <1>2, ConsumerFields DEF Operation
  <1> HIDE DEF w
  <1>5. /\ r \in ConsumerState /\ r.open = q.open /\ r.input = q.input /\ r.count = q.count
        /\ r.at = q.at /\ r.abort = q.abort /\ r.read = w
    BY <1>2, <1>4 DEF ConsumerState
  <1> HIDE DEF r
  <1>6. ConsumerOK(r)
    BY <1>2, <1>4, <1>5 DEF ConsumerOK
  <1>7. Hand(r) = Hand(q)
    <2>1. Fetched(q) = <<>> /\ Fetched(r) = <<>>
      BY <1>1, <1>2, <1>4, <1>5, <1>6, FetchedFacts DEF q
    <2> QED BY <1>5, <2>1, SameHand
  <1>8. /\ consumers' \in [Consumers -> ConsumerState]
        /\ \A x \in Consumers : ConsumerOK(consumers'[x])
        /\ OrphansOK'
        /\ UNCHANGED <<Open, Backlogs>>
        /\ Hands[c] = Hand(q)
        /\ Hands' = [Hands EXCEPT ![c] = Hand(r)]
        /\ Eagers' = Eagers \cup {c} \/ Eagers' = Eagers \ {c}
    BY <1>1, <1>3, <1>5, <1>6, ConsumerChanges DEF q
  <1>9. QueueInv'
    BY <1>1, <1>8, QueueTypes, QueueInvIsNext DEF QueueInv
  <1>10. UNCHANGED Hands
    BY <1>7, <1>8 DEF Hands
  <1> QED BY <1>1, <1>8, <1>9, <1>10, EagerIs

\* The backlog of a producer, as a function of its record and of its cancelled
\* writes.
Owed(q, os) ==
  IF q.open THEN Unsent(q)
  ELSE IF os = {} THEN <<>>
  ELSE (CHOOSE o \in os : TRUE).data

LEMMA BacklogIs ==
  ASSUME NEW p \in Producers
  PROVE  /\ Backlog(p) = Owed(producers[p], {o \in orphans : o.of = p})
         /\ Backlog(p)' = Owed(producers'[p], {o \in orphans' : o.of = p})
  BY DEF Backlog, Owed

LEMMA OwedFacts ==
  ASSUME NEW q, ~ q.open
  PROVE  Owed(q, {}) = <<>> /\ \A o : Owed(q, {o}) = o.data
  <1>1. Owed(q, {}) = <<>>
    BY DEF Owed
  <1>2. ASSUME NEW o
        PROVE  Owed(q, {o}) = o.data
    <2>1. {o} # {} /\ (CHOOSE x \in {o} : TRUE) = o
      OBVIOUS
    <2> QED BY <2>1 DEF Owed
  <1> QED BY <1>1, <1>2

\* Nothing was cancelled for an end that is open.
LEMMA NoOrphan ==
  ASSUME QueueInv, NEW x, NEW o \in orphans, o.of = x
  PROVE  /\ x \in Producers => ~ producers[x].open /\ o.data \in Seq(QueueElements)
         /\ x \in Consumers => ~ consumers[x].open
  BY LimitsFacts DEF QueueInv, OrphansOK

LEMMA ConsumerCloseStep ==
  ASSUME QueueInv, NEW c \in Consumers, ConsumerClose(c)
  PROVE  QueueInv' /\ Promise!Next
  <1> DEFINE q == consumers[c]
             b == q.at > 0
             r == [q EXCEPT !.open = FALSE, !.abort = b, !.read = NoOperation]
             new == [of |-> c, data |-> <<>>]
  <1>1. q \in ConsumerState /\ ConsumerOK(q) /\ q.open
    BY QueueTypes DEF QueueInv, ConsumerClose
  <1>2. /\ consumers' = [consumers EXCEPT ![c] = r]
        /\ orphans' = orphans \/ orphans' = orphans \cup {new}
        /\ UNCHANGED <<producers, pipe, pushed, interrupts, got>>
    BY DEF ConsumerClose
  <1>3. b \in BOOLEAN /\ (b <=> q.at > 0)
    OBVIOUS
  <1> HIDE DEF q, b
  <1>4. /\ r \in ConsumerState /\ r.open = FALSE /\ r.input = q.input /\ r.count = q.count
        /\ r.at = q.at /\ r.abort = b /\ r.read = NoOperation
    BY <1>1, <1>3, OperationFacts DEF ConsumerState
  <1> HIDE DEF r
  <1>5. r.read.state = "idle"
    BY <1>4, OperationFacts
  <1>6. ConsumerOK(r) /\ Hand(r) = <<>>
    <2>1. ConsumerOK(r)
      BY <1>1, <1>3, <1>4, <1>5 DEF ConsumerOK
    <2> QED BY <1>4, <2>1, HandFacts
  <1>7. /\ consumers \in [Consumers -> ConsumerState] /\ consumers' \in [Consumers -> ConsumerState]
        /\ consumers'[c] = r /\ \A x \in Consumers \ {c} : consumers'[x] = consumers[x]
    BY <1>2, <1>4, QueueTypes
  <1>8. \A x \in Consumers : ConsumerOK(consumers'[x])
    BY <1>6, <1>7 DEF QueueInv
  <1>9. c \notin Producers
    BY LimitsFacts
  <1>10. new.of = c
    OBVIOUS
  <1>11. \A o \in orphans : o.of # c
    BY <1>1, NoOrphan DEF q
  <1> HIDE DEF new
  <1>12. OrphansOK'
    <2>1. \A o \in orphans' : o \in orphans \/ o = new
      BY <1>2
    <2>2. ASSUME NEW o \in orphans'
          PROVE  \/ o.of \in Producers /\ ~ producers'[o.of].open /\ o.data \in Seq(QueueElements)
                 \/ o.of \in Consumers /\ ~ consumers'[o.of].open
      <3>1. CASE o \in orphans
        <4>1. o.of # c
          BY <1>11, <3>1
        <4> QED BY <1>2, <1>7, <3>1, <4>1 DEF QueueInv, OrphansOK
      <3>2. CASE o = new
        BY <1>4, <1>7, <1>10, <3>2
      <3> QED BY <2>1, <3>1, <3>2
    <2>3. ASSUME NEW o1 \in orphans', NEW o2 \in orphans', o1.of = o2.of
          PROVE  o1 = o2
      BY <1>10, <1>11, <2>1, <2>3 DEF QueueInv, OrphansOK
    <2> QED BY <2>2, <2>3 DEF OrphansOK
  <1>13. QueueInv'
    BY <1>2, <1>7, <1>8, <1>12, QueueTypes, QueueInvIsNext DEF QueueInv
  <1>14. UNCHANGED Backlogs
    <2>1. ASSUME NEW p \in Producers
          PROVE  {o \in orphans' : o.of = p} = {o \in orphans : o.of = p}
      BY <1>2, <1>9, <1>10
    <2>2. ASSUME NEW p \in Producers
          PROVE  Backlog(p)' = Backlog(p)
      <3> DEFINE old == {o \in orphans : o.of = p}
                 now == {o \in orphans' : o.of = p}
      <3>1. Backlog(p) = Owed(producers[p], old) /\ Backlog(p)' = Owed(producers'[p], now)
        BY BacklogIs
      <3>2. now = old /\ producers' = producers
        BY <1>2, <2>1
      <3> HIDE DEF now, old
      <3> QED BY <3>1, <3>2
    <2> QED BY <2>2 DEF Backlogs
  <1>15. Open' = Open \ {c}
    <2>1. Open' = {p \in Producers : producers[p].open} \cup {x \in Consumers : consumers'[x].open}
      BY <1>2 DEF Open
    <2>2. {x \in Consumers : consumers'[x].open} = {x \in Consumers : consumers[x].open} \ {c}
      BY <1>4, <1>7
    <2> QED BY <1>9, <2>1, <2>2 DEF Open
  <1>16. Hands' = [Hands EXCEPT ![c] = <<>>]
    <2>1. Hands' = [x \in Consumers |-> Hand(consumers'[x])]
      BY DEF Hands
    <2>2. \A x \in Consumers \ {c} : Hand(consumers'[x]) = Hand(consumers[x])
      BY <1>7
    <2>3. Hand(consumers'[c]) = <<>>
      BY <1>6, <1>7
    <2> QED BY <2>1, <2>2, <2>3 DEF Hands
  <1>17. Eagers' = Eagers \ {c}
    <2>1. \A x \in Consumers \ {c} : Eager(consumers'[x]) <=> Eager(consumers[x])
      BY <1>7
    <2>2. ~ Eager(consumers'[c])
      BY <1>5, <1>7 DEF Eager
    <2> QED BY <2>1, <2>2 DEF Eagers
  <1> QED BY <1>2, <1>13, <1>14, <1>15, <1>16, <1>17, CloseIs

\* Elements of a write in flight, which closing leaves to the kernel.
LEMMA FlyingFacts ==
  ASSUME NEW q \in ProducerState, ProducerOK(q), q.write.state = "flying"
  PROVE  LET k == q.write.size \div ElementSize
         IN  /\ k \in Nat /\ q.offset + k <= Len(q.output)
             /\ k \in 0 .. Len(Unsent(q))
             /\ First(Unsent(q), k) = First(Rest(q.output, q.offset), k)
             /\ First(Unsent(q), k) \in Seq(QueueElements)
  <1> DEFINE k == q.write.size \div ElementSize
             u == q.output
             t == q.queued
             a == q.offset
             l == Len(u) - a
  <1>1. /\ u \in Seq(QueueElements) /\ t \in Seq(QueueElements) /\ a \in Nat
        /\ Len(u) \in Nat /\ q.write.size \in Nat /\ a <= Len(u) /\ SentOf(q) = 0
    BY ProducerFields, SentFacts
  <1>2. l \in Nat
    BY <1>1
  <1>3. q.write.size <= l * ElementSize
    BY DEF ProducerOK
  <1>4. Unsent(q) = Rest(u, a) \o t
    <2>1. a + 0 = a
      BY <1>1
    <2> QED BY <1>1, <2>1 DEF Unsent
  <1> HIDE DEF u, t, a
  <1>5. k \in 0 .. l
    <2> HIDE DEF l
    <2> QED BY <1>1, <1>2, <1>3, WholeElements, LimitsFacts
  <1> HIDE DEF k
  <1>6. k \in Nat /\ a + k <= Len(u)
    BY <1>1, <1>5
  <1>7. First(Rest(u, a) \o t, k) = First(Rest(u, a), k)
    BY <1>1, <1>6, RestJoined
  <1> DEFINE x == Rest(u, a)
  <1>8. x \in Seq(QueueElements) /\ Len(x) = Len(u) - a
    <2>1. a \in 0 .. Len(u)
      BY <1>1
    <2> QED BY <1>1, <2>1, RestFacts
  <1> HIDE DEF x
  <1>9. x \o t \in Seq(QueueElements) /\ Len(x \o t) = Len(x) + Len(t) /\ Len(t) \in Nat
    <2>1. x \in Seq(QueueElements) /\ t \in Seq(QueueElements)
      BY <1>1, <1>8
    <2>2. x \o t \in Seq(QueueElements) /\ Len(x \o t) = Len(x) + Len(t)
      BY <2>1, ConcatFacts
    <2>3. Len(t) \in Nat
      BY <2>1
    <2> QED BY <2>2, <2>3
  <1>10. k \in 0 .. Len(x \o t)
    BY <1>1, <1>6, <1>8, <1>9
  <1>11. First(x \o t, k) \in Seq(QueueElements)
    <2> DEFINE j == x \o t
    <2>1. j \in Seq(QueueElements) /\ k \in 0 .. Len(j)
      BY <1>9, <1>10
    <2> HIDE DEF j
    <2>2. First(j, k) \in Seq(QueueElements)
      BY <2>1, FirstFacts
    <2> QED BY <2>2 DEF j
  <1> QED BY <1>4, <1>6, <1>7, <1>10, <1>11 DEF x, k, u, a, t

LEMMA ProducerCloseStep ==
  ASSUME QueueInv, NEW p \in Producers, ProducerClose(p)
  PROVE  QueueInv' /\ Promise!Next
  <1> DEFINE q == producers[p]
             r == [open |-> FALSE, output |-> <<>>, offset |-> 0, queued |-> <<>>, write |-> NoOperation]
             fly == q.write.state = "flying"
             k == IF fly THEN q.write.size \div ElementSize ELSE 0
             d == First(Rest(q.output, q.offset), q.write.size \div ElementSize)
             new == [of |-> p, data |-> d]
  <1>1. q \in ProducerState /\ ProducerOK(q) /\ q.open
    BY QueueTypes DEF QueueInv, ProducerClose
  <1>2. /\ producers' = [producers EXCEPT ![p] = r]
        /\ fly => orphans' = orphans \cup {new}
        /\ ~ fly => orphans' = orphans
        /\ UNCHANGED <<consumers, pipe, pushed, interrupts, got>>
    BY DEF ProducerClose
  <1>3. /\ k \in 0 .. Len(Unsent(q))
        /\ fly => d = First(Unsent(q), k) /\ d \in Seq(QueueElements)
        /\ ~ fly => First(Unsent(q), k) = <<>>
    <2>1. CASE fly
      BY <1>1, <2>1, FlyingFacts
    <2>2. CASE ~ fly
      <3>1. Unsent(q) \in Seq(QueueElements)
        BY <1>1, SentFacts
      <3>2. k = 0
        BY <2>2
      <3>3. First(Unsent(q), 0) = <<>> /\ 0 \in 0 .. Len(Unsent(q))
        BY <3>1, RestAll
      <3> QED BY <2>2, <3>2, <3>3
    <2> QED BY <2>1, <2>2
  <1>4. new.of = p /\ new.data = d
    OBVIOUS
  <1> HIDE DEF fly, k, d, new
  <1>5. r \in ProducerState /\ ~ r.open /\ r.output = <<>> /\ r.offset = 0 /\ r.write = NoOperation
    <2>1. <<>> \in Seq(QueueElements)
      OBVIOUS
    <2> QED BY <2>1, OperationFacts DEF ProducerState
  <1> HIDE DEF r
  <1>6. ProducerOK(r)
    <2>1. r.write.state = "idle"
      BY <1>5, OperationFacts
    <2>2. SentOf(r) = 0
      BY <2>1 DEF SentOf
    <2> QED BY <1>5, <2>1, <2>2 DEF ProducerOK
  <1>7. /\ producers' \in [Producers -> ProducerState]
        /\ producers'[p] = r /\ \A x \in Producers \ {p} : producers'[x] = producers[x]
    BY <1>2, <1>5, QueueTypes
  <1>8. \A x \in Producers : ProducerOK(producers'[x])
    BY <1>6, <1>7 DEF QueueInv
  <1>9. p \notin Consumers
    BY LimitsFacts
  <1>10. \A o \in orphans : o.of # p
    BY <1>1, NoOrphan
  <1>11. \A o \in orphans' : o \in orphans \/ (fly /\ o = new)
    BY <1>2
  <1>12. OrphansOK'
    <2>1. ASSUME NEW o \in orphans'
          PROVE  \/ o.of \in Producers /\ ~ producers'[o.of].open /\ o.data \in Seq(QueueElements)
                 \/ o.of \in Consumers /\ ~ consumers'[o.of].open
      <3>1. CASE o \in orphans
        <4>1. o.of # p
          BY <1>10, <3>1
        <4> QED BY <1>2, <1>7, <3>1, <4>1 DEF QueueInv, OrphansOK
      <3>2. CASE fly /\ o = new
        BY <1>3, <1>4, <1>5, <1>7, <3>2
      <3> QED BY <1>11, <3>1, <3>2
    <2>2. ASSUME NEW o1 \in orphans', NEW o2 \in orphans', o1.of = o2.of
          PROVE  o1 = o2
      BY <1>4, <1>10, <1>11, <2>2 DEF QueueInv, OrphansOK
    <2> QED BY <2>1, <2>2 DEF OrphansOK
  <1>13. QueueInv'
    BY <1>2, <1>7, <1>8, <1>12, QueueTypes, QueueInvIsNext DEF QueueInv
  <1>14. Backlogs[p] = Unsent(q)
    BY <1>1 DEF Backlogs, Backlog
  <1>15. Backlog(p)' = First(Unsent(q), k)
    <2> DEFINE now == {o \in orphans' : o.of = p}
    <2>1. Backlog(p)' = Owed(r, now)
      BY <1>7, BacklogIs
    <2>2. CASE fly
      <3>1. now = {new}
        BY <1>2, <1>4, <1>10, <2>2
      <3> HIDE DEF now
      <3>2. Owed(r, {new}) = new.data
        BY <1>5, OwedFacts
      <3> QED BY <1>3, <1>4, <2>1, <2>2, <3>1, <3>2
    <2>3. CASE ~ fly
      <3>1. now = {}
        BY <1>2, <1>10, <2>3
      <3> HIDE DEF now
      <3>2. Owed(r, {}) = <<>>
        BY <1>5, OwedFacts
      <3> QED BY <1>3, <2>1, <2>3, <3>1, <3>2
    <2> QED BY <2>2, <2>3
  <1>16. ASSUME NEW x \in Producers \ {p}
         PROVE  Backlog(x)' = Backlog(x)
    <2> DEFINE old == {o \in orphans : o.of = x}
               now == {o \in orphans' : o.of = x}
    <2>1. Backlog(x) = Owed(producers[x], old) /\ Backlog(x)' = Owed(producers'[x], now)
      BY BacklogIs
    <2>2. now = old
      BY <1>2, <1>4
    <2>3. producers'[x] = producers[x]
      BY <1>7
    <2> HIDE DEF now, old
    <2> QED BY <2>1, <2>2, <2>3
  <1>17. Backlogs' = [Backlogs EXCEPT ![p] = First(@, k)]
    <2>1. Backlogs' = [x \in Producers |-> Backlog(x)']
      BY DEF Backlogs
    <2>2. \A x \in Producers \ {p} : Backlog(x)' = Backlog(x)
      BY <1>16
    <2> QED BY <1>14, <1>15, <2>1, <2>2 DEF Backlogs
  <1>18. Open' = Open \ {p}
    <2>1. Open' = {x \in Producers : producers'[x].open} \cup {x \in Consumers : consumers[x].open}
      BY <1>2 DEF Open
    <2>2. {x \in Producers : producers'[x].open} = {x \in Producers : producers[x].open} \ {p}
      BY <1>5, <1>7
    <2> QED BY <1>9, <2>1, <2>2 DEF Open
  <1>19. UNCHANGED <<Hands, Eagers>>
    BY <1>2 DEF Hands, Eagers
  <1>20. k \in 0 .. Len(Backlogs[p])
    BY <1>3, <1>14
  <1> QED BY <1>2, <1>13, <1>17, <1>18, <1>19, <1>20, DropIs

\* A cancelled write is forgotten or carried out, a cancelled read is forgotten
\* or takes what nobody gets.
LEMMA OrphanEndsStep ==
  ASSUME QueueInv, NEW o \in orphans, OrphanEnds(o)
  PROVE  QueueInv' /\ (Promise!Next \/ UNCHANGED Promise!vars)
  <1>1. /\ orphans' = orphans \ {o}
        /\ UNCHANGED <<producers, consumers, pushed, interrupts, got>>
    BY DEF OrphanEnds
  <1>2. \/ UNCHANGED pipe
        \/ /\ o.of \in Producers
           /\ \E m \in WriteResults(Len(o.data) * ElementSize) :
                pipe' = pipe \o First(o.data, m \div ElementSize)
        \/ /\ o.of \in Consumers
           /\ pipe # <<>>
           /\ pipe' = Rest(pipe, Least(BatchSize, Len(pipe)))
    BY DEF OrphanEnds
  <1>3. UNCHANGED <<Open, Hands, Eagers>>
    BY <1>1 DEF Open, Hands, Eagers
  <1>4. OrphansOK'
    BY <1>1 DEF QueueInv, OrphansOK
  <1>5. pipe' \in Seq(QueueElements) => QueueInv'
    BY <1>1, <1>4, QueueTypes, QueueInvIsNext DEF QueueInv
  <1>6. o.of \in Producers \/ o.of \in Consumers
    BY DEF QueueInv, OrphansOK
  <1>7. ASSUME NEW x \in Producers, x # o.of
        PROVE  Backlog(x)' = Backlog(x)
    <2> DEFINE old == {y \in orphans : y.of = x}
               now == {y \in orphans' : y.of = x}
    <2>1. Backlog(x) = Owed(producers[x], old) /\ Backlog(x)' = Owed(producers'[x], now)
      BY BacklogIs
    <2>2. now = old
      BY <1>1, <1>7
    <2>3. producers' = producers
      BY <1>1
    <2> HIDE DEF now, old
    <2> QED BY <2>1, <2>2, <2>3
  <1>8. CASE o.of \in Producers
    <2> DEFINE p == o.of
               d == o.data
    <2>1. /\ p \in Producers /\ p \notin Consumers /\ ~ producers[p].open
          /\ d \in Seq(QueueElements)
      BY <1>8, NoOrphan, LimitsFacts
    <2>2. p \notin Open
      BY <2>1 DEF Open
    <2>3. Backlog(p) = d /\ Backlog(p)' = <<>>
      <3> DEFINE old == {y \in orphans : y.of = p}
                 now == {y \in orphans' : y.of = p}
      <3>1. Backlog(p) = Owed(producers[p], old) /\ Backlog(p)' = Owed(producers'[p], now)
        BY <2>1, BacklogIs
      <3>2. old = {o} /\ now = {}
        BY <1>1 DEF QueueInv, OrphansOK
      <3>3. producers' = producers
        BY <1>1
      <3> HIDE DEF now, old
      <3>4. Owed(producers[p], {}) = <<>> /\ Owed(producers[p], {o}) = o.data
        BY <2>1, OwedFacts
      <3> QED BY <3>1, <3>2, <3>3, <3>4
    <2> HIDE DEF d
    <2>4. Backlogs[p] = d
      BY <2>1, <2>3 DEF Backlogs
    <2>5. Backlogs' = [Backlogs EXCEPT ![p] = <<>>]
      <3>1. Backlogs' = [x \in Producers |-> Backlog(x)']
        BY DEF Backlogs
      <3> QED BY <1>7, <2>1, <2>3, <3>1 DEF Backlogs
    <2>6. CASE UNCHANGED pipe
      <3>1. First(d, 0) = <<>> /\ 0 \in 0 .. Len(d)
        BY <2>1, RestAll
      <3>2. Backlogs' = [Backlogs EXCEPT ![p] = First(@, 0)] /\ 0 \in 0 .. Len(Backlogs[p])
        BY <2>4, <2>5, <3>1
      <3>3. Open' = Open \ {p}
        BY <1>3, <2>2
      <3>4. Promise!Next
        BY <1>1, <1>3, <2>1, <2>6, <3>2, <3>3, DropIs
      <3> QED BY <1>5, <2>6, <3>4, QueueTypes
    <2>7. CASE \E m \in WriteResults(Len(d) * ElementSize) :
                 pipe' = pipe \o First(d, m \div ElementSize)
      <3>1. PICK m \in WriteResults(Len(d) * ElementSize) :
              pipe' = pipe \o First(d, m \div ElementSize)
        BY <2>7
      <3> DEFINE k == m \div ElementSize
                 n == Len(d)
      <3>2. n \in Nat
        BY <2>1
      <3> HIDE DEF n
      <3>3. m \in Nat /\ m <= n * ElementSize
        <4>1. n * ElementSize \in Nat
          BY <3>2, LimitsFacts
        <4>2. m \in 1 .. n * ElementSize
          BY <3>1 DEF WriteResults, n
        <4> QED BY <4>1, <4>2
      <3>4. k \in 0 .. n
        BY <3>2, <3>3, WholeElements, LimitsFacts
      <3>5. pipe' = pipe \o First(d, k)
        BY <3>1
      <3> HIDE DEF k
      <3>6. First(d, k) \in Seq(QueueElements)
        BY <2>1, <3>4, FirstFacts DEF n
      <3>7. pipe' \in Seq(QueueElements)
        BY <3>5, <3>6, QueueTypes, ConcatFacts
      <3>8. Promise!Next
        BY <1>1, <1>3, <2>1, <2>2, <2>4, <2>5, <3>4, <3>5, SendIs DEF n
      <3> QED BY <1>5, <3>7, <3>8
    <2> QED BY <1>2, <2>1, <2>6, <2>7 DEF d
  <1>9. CASE o.of \in Consumers
    <2> DEFINE c == o.of
    <2>1. c \in Consumers /\ c \notin Producers /\ ~ consumers[c].open
      BY <1>9, NoOrphan, LimitsFacts
    <2>2. c \notin Open
      BY <2>1 DEF Open
    <2>3. UNCHANGED Backlogs
      <3>1. \A x \in Producers : Backlog(x)' = Backlog(x)
        BY <1>7, <2>1
      <3> QED BY <3>1 DEF Backlogs
    <2>4. CASE UNCHANGED pipe
      BY <1>1, <1>3, <1>5, <2>3, <2>4, QueueTypes, StutterIs
    <2>5. CASE pipe # <<>> /\ pipe' = Rest(pipe, Least(BatchSize, Len(pipe)))
      <3> DEFINE k == Least(BatchSize, Len(pipe))
      <3>1. k \in 0 .. Len(pipe) /\ pipe \in Seq(QueueElements)
        <4>1. pipe \in Seq(QueueElements) /\ Len(pipe) \in Nat
          BY QueueTypes
        <4>2. BatchSize \in Nat
          BY LimitsFacts
        <4> QED BY <4>1, <4>2 DEF Least
      <3>2. pipe' = Rest(pipe, k)
        BY <2>5
      <3> HIDE DEF k
      <3>3. pipe' \in Seq(QueueElements)
        BY <3>1, <3>2, RestFacts
      <3>4. Promise!Next
        BY <1>1, <1>3, <2>1, <2>2, <2>3, <3>1, <3>2, TakeIs
      <3> QED BY <1>5, <3>3, <3>4
    <2> QED BY <1>2, <2>1, <2>4, <2>5
  <1> QED BY <1>6, <1>8, <1>9

LEMMA QueueStarts ==
  ASSUME QueueInit
  PROVE  QueueInv /\ Promise!Init
  <1> DEFINE q == [open |-> TRUE, output |-> <<>>, offset |-> 0, queued |-> <<>>, write |-> NoOperation]
             r == [open |-> TRUE, input |-> <<>>, count |-> 0, at |-> 0, abort |-> FALSE,
                   read |-> NoOperation]
  <1>1. /\ producers = [p \in Producers |-> q]
        /\ consumers = [c \in Consumers |-> r]
        /\ pipe = <<>> /\ orphans = {} /\ pushed = 0 /\ got = [c \in Consumers |-> <<>>]
    BY DEF QueueInit
  <1>2. <<>> \in Seq(QueueElements)
    OBVIOUS
  <1>3. /\ q \in ProducerState /\ q.open /\ q.output = <<>> /\ q.offset = 0 /\ q.queued = <<>>
        /\ q.write.state = "idle"
    BY <1>2, OperationFacts DEF ProducerState
  <1>4. /\ r \in ConsumerState /\ r.open /\ r.input = <<>> /\ r.count = 0 /\ r.at = 0
        /\ r.abort = FALSE /\ r.read.state = "idle"
    BY <1>2, OperationFacts DEF ConsumerState
  <1> HIDE DEF q, r
  <1>5. SentOf(q) = 0
    BY <1>3 DEF SentOf
  <1>6. ProducerOK(q)
    BY <1>3, <1>5 DEF ProducerOK
  <1>7. ConsumerOK(r)
    BY <1>4 DEF ConsumerOK
  <1>8. Unsent(q) = <<>>
    <2>1. Rest(<<>>, 0) = <<>>
      BY <1>2, RestAll
    <2>2. Unsent(q) = Rest(<<>>, 0) \o <<>>
      BY <1>3, <1>5 DEF Unsent
    <2> QED BY <2>1, <2>2
  <1>9. Hand(r) = <<>>
    <2>1. Left(r) = <<>> /\ Fetched(r) = <<>>
      BY <1>4, <1>7, LeftFacts, FetchedFacts
    <2> QED BY <1>4, <1>7, <2>1, HandFacts
  <1>10. QueueInv
    <2>1. OrphansOK
      BY <1>1 DEF OrphansOK
    <2>2. \A p \in Producers : ProducerOK(producers[p])
      BY <1>1, <1>6
    <2>3. \A c \in Consumers : ConsumerOK(consumers[c])
      BY <1>1, <1>7
    <2>4. pushed \in 0 .. MaxPush
      BY <1>1, LimitsFacts
    <2>5. /\ producers \in [Producers -> ProducerState] /\ consumers \in [Consumers -> ConsumerState]
          /\ pipe \in Seq(QueueElements) /\ got \in [Consumers -> Seq(QueueElements)]
      BY <1>1, <1>2, <1>3, <1>4
    <2> QED BY <2>1, <2>2, <2>3, <2>4, <2>5, QueueInvIs
  <1>11. Promise!Init
    <2>1. Open = Producers \cup Consumers
      BY <1>1, <1>3, <1>4 DEF Open
    <2>2. Backlogs = [p \in Producers |-> <<>>]
      <3>1. ASSUME NEW p \in Producers
            PROVE  Backlog(p) = <<>>
        <4>1. producers[p] = q
          BY <1>1
        <4> QED BY <1>3, <1>8, <4>1 DEF Backlog
      <3> QED BY <3>1 DEF Backlogs
    <2>3. Hands = [c \in Consumers |-> <<>>]
      <3>1. ASSUME NEW c \in Consumers
            PROVE  Hand(consumers[c]) = <<>>
        BY <1>1, <1>9
      <3> QED BY <3>1 DEF Hands
    <2>4. Eagers = {}
      <3>1. ASSUME NEW c \in Consumers
            PROVE  ~ Eager(consumers[c])
        BY <1>1, <1>4 DEF Eager
      <3> QED BY <3>1 DEF Eagers
    <2> QED BY <1>1, <2>1, <2>2, <2>3, <2>4 DEF Promise!Init, Open, Backlogs, Hands, Eagers
  <1> QED BY <1>10, <1>11

LEMMA QueueSteps ==
  ASSUME QueueInv, [QueueNext]_(queueVars)
  PROVE  QueueInv' /\ [Promise!Next]_(Promise!vars)
  <1>1. CASE \E p \in Producers : Produce(p) \/ ProducerWrite(p)
    BY <1>1, ProducerPushStep, ProducerPushSyncStep, ProducerCloseStep, ProducerWriteStep DEF Produce
  <1>2. CASE \E c \in Consumers : Consume(c) \/ ConsumerRead(c) \/ ConsumerReturn(c)
    BY <1>2, ConsumerPopStep, ConsumerPopSyncStep, ConsumerCloseStep, ConsumerReadStep, ConsumerReturnStep
       DEF Consume
  <1>3. CASE PipeStep
    BY <1>3, PipeWriteStep, WriteInterruptedStep, PipeReadStep, ReadInterruptedStep, OrphanEndsStep
       DEF PipeStep
  <1>4. CASE UNCHANGED queueVars
    <2>1. UNCHANGED <<producers, consumers, pipe, orphans, pushed, got>>
      BY <1>4 DEF queueVars
    <2>2. UNCHANGED <<Open, Backlogs, Hands, Eagers>>
      BY <2>1 DEF Open, Backlogs, Hands, Eagers, Backlog
    <2>3. OrphansOK'
      BY <2>1 DEF QueueInv, OrphansOK
    <2>4. QueueInv'
      BY <2>1, <2>3, QueueTypes, QueueInvIsNext DEF QueueInv
    <2> QED BY <2>1, <2>2, <2>4, StutterIs
  <1> QED BY <1>1, <1>2, <1>3, <1>4 DEF QueueNext

\* The invariant of queue.c: the write in flight and what an ended write took
\* are within the output buffer, the batch that a consumer is passed and what a
\* read has brought are within its input buffer, even where the one is written
\* over the other, and what queue_cancel() keeps belongs to the closed.
THEOREM QueueInvariance == QueueSpec => []QueueInv
  <1>1. QueueInit => QueueInv
    BY QueueStarts
  <1>2. QueueInv /\ [QueueNext]_(queueVars) => QueueInv'
    BY QueueSteps
  <1> QED BY <1>1, <1>2, PTL DEF QueueSpec

\* queue.c implements the channel of module Channel: elements enter the pipe in
\* the order of the pushes, each leaves it for one consumer, in order, and none
\* is lost, duplicated or reordered in the buffers, by the swap, by a partial or
\* interrupted write, or by a cancelled operation that is carried out late.
\* Only what a consumer is being passed while a read that its callback asked
\* for is in flight may be written over, by what that read takes.
THEOREM ChannelIsKept == QueueSpec => KeepsChannel
  <1>1. QueueSpec => []QueueInv
    BY QueueInvariance
  <1>2. QueueInit => Promise!Init
    BY QueueStarts
  <1>3. QueueInv /\ [QueueNext]_(queueVars) => [Promise!Next]_(Promise!vars)
    BY QueueSteps
  <1> QED BY <1>1, <1>2, <1>3, PTL DEF QueueSpec, KeepsChannel, Promise!Spec
=============================================================================

--------------------------- MODULE ReactorProofs ----------------------------
(***************************************************************************)
(* The invariant Inv of module Reactor is inductive, for every chunk size, *)
(* every ring size and any number of operations.  One lemma per action     *)
(* shows that it is kept; the theorems after it say what follows.  The     *)
(* second part shows that the reactor keeps the promise of module          *)
(* Operations, the third that its rings are the queues that module Reactor *)
(* has in their place.                                                     *)
(***************************************************************************)
EXTENDS Reactor, Ring, FiniteSetTheorems, SequenceTheorems, TLAPS

-----------------------------------------------------------------------------
(* pool.c: pool_malloc() and pool_free() keep PoolInv, for every chunk size *)
(* and every number of objects.                                            *)

\* Append and Tail, with the domains spelled out.
LEMMA AppendFacts ==
  ASSUME NEW S, NEW s \in Seq(S), NEW e \in S
  PROVE  /\ Append(s, e) \in Seq(S)
         /\ Len(s) \in Nat
         /\ Len(Append(s, e)) = Len(s) + 1
         /\ DOMAIN s = 1 .. Len(s)
         /\ DOMAIN Append(s, e) = 1 .. Len(s) + 1
         /\ \A i \in 1 .. Len(s) : Append(s, e)[i] = s[i]
         /\ Append(s, e)[Len(s) + 1] = e
  BY AppendProperties, LenProperties

\* What Tail leaves of a sequence that is not empty.
LEMMA TailFacts ==
  ASSUME NEW S, NEW s \in Seq(S), s # <<>>
  PROVE  /\ Tail(s) \in Seq(S)
         /\ Len(s) \in Nat \ {0}
         /\ Len(Tail(s)) = Len(s) - 1
         /\ DOMAIN s = 1 .. Len(s)
         /\ DOMAIN Tail(s) = 1 .. Len(s) - 1
         /\ \A i \in 1 .. Len(s) - 1 : Tail(s)[i] = s[i + 1]
         /\ Head(s) = s[1]
         /\ 1 \in DOMAIN s
  BY HeadTailProperties, LenProperties, EmptySeq

\* The same, as a distinction of cases on the elements of the result.
LEMMA AppendCases ==
  ASSUME NEW S, NEW s \in Seq(S), NEW e \in S
  PROVE  LET t == Append(s, e)
             n == Len(s) + 1
         IN  /\ t \in Seq(S)
             /\ Len(t) = n
             /\ n \in DOMAIN t /\ t[n] = e /\ n \in Nat /\ n \notin DOMAIN s
             /\ \A i \in DOMAIN s : i \in DOMAIN t /\ t[i] = s[i] /\ i < n /\ i \in Nat
             /\ \A i \in DOMAIN t : i = n \/ i \in DOMAIN s
  <1> DEFINE t == Append(s, e)
             n == Len(s) + 1
  <1>1. /\ t \in Seq(S)
        /\ Len(s) \in Nat
        /\ Len(t) = n
        /\ DOMAIN s = 1 .. Len(s)
        /\ DOMAIN t = 1 .. Len(s) + 1
        /\ \A i \in 1 .. Len(s) : t[i] = s[i]
        /\ t[n] = e
    BY AppendFacts
  <1> HIDE DEF t
  <1>2. n \in DOMAIN t /\ n \in Nat /\ n \notin DOMAIN s
    BY <1>1
  <1>3. \A i \in DOMAIN s : i \in DOMAIN t /\ t[i] = s[i] /\ i < n /\ i \in Nat
    BY <1>1
  <1>4. \A i \in DOMAIN t : i = n \/ i \in DOMAIN s
    BY <1>1
  <1> QED BY <1>1, <1>2, <1>3, <1>4 DEF t

\* Every element of the tail is the next one of the sequence, and conversely.
LEMMA TailCases ==
  ASSUME NEW S, NEW s \in Seq(S), s # <<>>
  PROVE  LET t == Tail(s)
         IN  /\ t \in Seq(S)
             /\ Len(t) = Len(s) - 1
             /\ Len(s) \in Nat
             /\ 1 \in DOMAIN s /\ Head(s) = s[1] /\ s[1] \in S
             /\ \A i \in DOMAIN t :
                  i \in Nat /\ i + 1 \in DOMAIN s /\ t[i] = s[i + 1] /\ 1 < i + 1
             /\ \A i \in DOMAIN s : i \in Nat /\ (i = 1 \/ (i - 1 \in DOMAIN t /\ t[i - 1] = s[i]))
  <1> DEFINE t == Tail(s)
  <1>1. /\ t \in Seq(S)
        /\ Len(s) \in Nat \ {0}
        /\ Len(t) = Len(s) - 1
        /\ DOMAIN s = 1 .. Len(s)
        /\ DOMAIN t = 1 .. Len(s) - 1
        /\ \A i \in 1 .. Len(s) - 1 : t[i] = s[i + 1]
        /\ Head(s) = s[1]
        /\ 1 \in DOMAIN s
    BY TailFacts
  <1> HIDE DEF t
  <1>2. s[1] \in S
    BY <1>1, ElementOfSeq
  <1>3. \A i \in DOMAIN t :
          i \in Nat /\ i + 1 \in DOMAIN s /\ t[i] = s[i + 1] /\ 1 < i + 1
    BY <1>1
  <1>4. ASSUME NEW i \in DOMAIN s, i # 1
        PROVE  i - 1 \in DOMAIN t /\ t[i - 1] = s[i]
    <2>1. i - 1 \in 1 .. Len(s) - 1 /\ (i - 1) + 1 = i
      BY <1>1, <1>4
    <2> QED BY <1>1, <2>1
  <1>5. \A i \in DOMAIN s : i \in Nat
    BY <1>1
  <1> QED BY <1>1, <1>2, <1>3, <1>4, <1>5 DEF t

\* Popping and pushing a sequence of distinct elements.
LEMMA PopFacts ==
  ASSUME NEW S, NEW s \in Seq(S), Len(s) > 0,
         \A i, j \in DOMAIN s : s[i] = s[j] => i = j
  PROVE  LET t == SubSeq(s, 1, Len(s) - 1)
         IN  /\ t \in Seq(S)
             /\ \A i, j \in DOMAIN t : t[i] = t[j] => i = j
             /\ \A i \in DOMAIN t : i \in DOMAIN s /\ t[i] = s[i] /\ t[i] # s[Len(s)]
             /\ \A i \in DOMAIN s : s[i] # s[Len(s)] => i \in DOMAIN t
             /\ Len(s) \in DOMAIN s
  <1> DEFINE n == Len(s)
             t == SubSeq(s, 1, n - 1)
  <1>1. n \in Nat \ {0} /\ DOMAIN s = 1 .. n /\ \A i \in 1 .. n : s[i] \in S
    BY LenProperties, ElementOfSeq
  <1> HIDE DEF n
  <1>2. /\ t \in Seq(S)
        /\ Len(t) = IF 1 <= n - 1 THEN n - 1 - 1 + 1 ELSE 0
        /\ \A i \in 1 .. n - 1 - 1 + 1 : t[i] = s[1 + i - 1]
    BY <1>1, SubSeqProperties
  <1> HIDE DEF t
  <1>3. Len(t) = n - 1
    BY <1>1, <1>2
  <1>4. DOMAIN t = 1 .. n - 1
    BY <1>2, <1>3, LenProperties
  <1>5. \A i \in DOMAIN t : i \in DOMAIN s /\ t[i] = s[i] /\ i # n
    <2> TAKE i \in DOMAIN t
    <2>1. i \in 1 .. n - 1 - 1 + 1 /\ 1 + i - 1 = i
      BY <1>1, <1>4
    <2> QED BY <1>1, <1>2, <1>4, <2>1
  <1>6. \A i \in DOMAIN s : i # n => i \in DOMAIN t
    BY <1>1, <1>4
  <1>7. n \in DOMAIN s
    BY <1>1
  <1> QED BY <1>2, <1>5, <1>6, <1>7 DEF n, t

\* Appending an element that is not there keeps the elements distinct.
LEMMA PushFacts ==
  ASSUME NEW S, NEW s \in Seq(S), NEW e \in S,
         \A i, j \in DOMAIN s : s[i] = s[j] => i = j,
         \A i \in DOMAIN s : s[i] # e
  PROVE  LET t == Append(s, e)
         IN  /\ t \in Seq(S)
             /\ \A i, j \in DOMAIN t : t[i] = t[j] => i = j
             /\ \A i \in DOMAIN t : t[i] = e \/ (i \in DOMAIN s /\ t[i] = s[i])
             /\ \A i \in DOMAIN s : i \in DOMAIN t /\ t[i] = s[i]
             /\ \E i \in DOMAIN t : t[i] = e
  <1> DEFINE n == Len(s)
             t == Append(s, e)
  <1>1. /\ t \in Seq(S)
        /\ n \in Nat
        /\ DOMAIN s = 1 .. n
        /\ DOMAIN t = 1 .. n + 1
        /\ \A i \in 1 .. n : t[i] = s[i]
        /\ t[n + 1] = e
    BY AppendFacts
  <1> HIDE DEF n, t
  <1>2. \A i \in DOMAIN t : i = n + 1 \/ i \in DOMAIN s
    BY <1>1
  <1>3. n + 1 \in DOMAIN t
    BY <1>1
  <1>4. \A i \in DOMAIN s : i \in DOMAIN t
    BY <1>1
  <1>5. \A i \in DOMAIN s : t[i] = s[i]
    BY <1>1
  <1> QED BY <1>1, <1>2, <1>3, <1>4, <1>5 DEF t

\* A new p has handed out nothing.
LEMMA PoolConstructInv == PoolInv(PoolConstruct, {})
  BY FS_EmptySet DEF PoolInv, PoolConstruct, PoolType

\* The stack pool_malloc() pops from is never empty and holds exactly the
\* unused objects of the p it leaves behind, each once.
LEMMA PoolStackInv ==
  ASSUME NEW p, NEW used, PoolInv(p, used)
  PROVE  LET stack == PoolStack(p)
             size == PoolMalloc(p).size
         IN  /\ stack \in Seq(Nat \ {0})
             /\ Len(stack) > 0
             /\ size \in Nat
             /\ p.size <= size
             /\ \A i \in DOMAIN stack : stack[i] \in (1 .. size) \ used
             /\ \A i, j \in DOMAIN stack : stack[i] = stack[j] => i = j
             /\ \A o \in (1 .. size) \ used : \E i \in DOMAIN stack : stack[i] = o
  <1>1. CASE p.free = <<>>
    <2> DEFINE stack == [i \in 1 .. ChunkSize |-> p.size + i]
    <2>1. PoolStack(p) = stack /\ PoolMalloc(p).size = p.size + ChunkSize
      BY <1>1 DEF PoolStack, PoolMalloc
    <2>2. p.size \in Nat /\ ChunkSize \in Nat \ {0}
      BY ChunkSizeAssumption DEF PoolInv, PoolType
    <2>3. stack \in Seq(Nat \ {0}) /\ Len(stack) = ChunkSize /\ DOMAIN stack = 1 .. ChunkSize
      BY <2>2
    <2>4. used = 1 .. p.size
      <3>1. DOMAIN p.free = {}
        BY <1>1
      <3> QED BY <3>1 DEF PoolInv
    <2>5. \A o \in (1 .. p.size + ChunkSize) \ used : \E i \in DOMAIN stack : stack[i] = o
      <3> TAKE o \in (1 .. p.size + ChunkSize) \ used
      <3>1. o - p.size \in 1 .. ChunkSize /\ stack[o - p.size] = o
        BY <2>2, <2>4
      <3> QED BY <3>1, <2>3
    <2>6. \A i \in DOMAIN stack : stack[i] \in (1 .. p.size + ChunkSize) \ used
      BY <2>2, <2>3, <2>4
    <2>7. \A i, j \in DOMAIN stack : stack[i] = stack[j] => i = j
      BY <2>2, <2>3
    <2> HIDE DEF stack
    <2> QED BY <2>1, <2>2, <2>3, <2>5, <2>6, <2>7
  <1>2. CASE p.free # <<>>
    <2>1. PoolStack(p) = p.free /\ PoolMalloc(p).size = p.size
      BY <1>2 DEF PoolStack, PoolMalloc
    <2> QED BY <1>2, <2>1 DEF PoolInv, PoolType
  <1> QED BY <1>1, <1>2

\* pool_malloc() returns an object that is not in use, and counts it.
LEMMA PoolMallocInv ==
  ASSUME NEW p, NEW used, PoolInv(p, used)
  PROVE  /\ PoolObject(p) \in Nat \ {0}
         /\ PoolObject(p) \notin used
         /\ PoolMalloc(p).size \in Nat
         /\ p.size <= PoolMalloc(p).size
         /\ PoolInv(PoolMalloc(p), used \cup {PoolObject(p)})
  <1> DEFINE stack == PoolStack(p)
             size  == PoolMalloc(p).size
             o     == PoolObject(p)
             front == SubSeq(stack, 1, Len(stack) - 1)
  <1>1. /\ stack \in Seq(Nat \ {0})
        /\ Len(stack) > 0
        /\ size \in Nat
        /\ p.size <= size
        /\ \A i \in DOMAIN stack : stack[i] \in (1 .. size) \ used
        /\ \A i, j \in DOMAIN stack : stack[i] = stack[j] => i = j
        /\ \A x \in (1 .. size) \ used : \E i \in DOMAIN stack : stack[i] = x
    BY PoolStackInv
  <1>2. o = stack[Len(stack)]
    BY DEF PoolObject
  <1>3. PoolMalloc(p) = [allocated |-> p.allocated + 1, free |-> front, size |-> size]
    BY DEF PoolMalloc
  <1>4. used \subseteq 1 .. p.size /\ p.size \in Nat /\ p.allocated \in Nat
        /\ p.allocated = Cardinality(used)
    BY DEF PoolInv, PoolType
  <1> HIDE DEF stack, size, o
  <1>5. /\ front \in Seq(Nat \ {0})
        /\ \A i, j \in DOMAIN front : front[i] = front[j] => i = j
        /\ \A i \in DOMAIN front : i \in DOMAIN stack /\ front[i] = stack[i] /\ front[i] # o
        /\ \A i \in DOMAIN stack : stack[i] # o => i \in DOMAIN front
        /\ Len(stack) \in DOMAIN stack
    BY <1>1, <1>2, PopFacts
  <1> HIDE DEF front
  <1>6. o \in (1 .. size) \ used
    BY <1>1, <1>2, <1>5
  <1>7. IsFiniteSet(used) /\ Cardinality(used \cup {o}) = Cardinality(used) + 1
    <2>1. IsFiniteSet(1 .. p.size)
      BY <1>4, FS_Interval, SMTT(60)
    <2>2. IsFiniteSet(used)
      BY <2>1, <1>4, FS_Subset
    <2> QED BY <2>2, <1>6, FS_AddElement
  <1>8. \A i \in DOMAIN front : front[i] \in (1 .. size) \ (used \cup {o})
    BY <1>1, <1>5
  <1>9. \A x \in (1 .. size) \ (used \cup {o}) : \E i \in DOMAIN front : front[i] = x
    <2> TAKE x \in (1 .. size) \ (used \cup {o})
    <2>1. PICK i \in DOMAIN stack : stack[i] = x
      BY <1>1
    <2> QED BY <2>1, <1>5
  <1>10. used \cup {o} \subseteq 1 .. size
    BY <1>1, <1>4, <1>6
  <1>11. PoolInv(PoolMalloc(p), used \cup {o})
    BY <1>1, <1>3, <1>4, <1>5, <1>7, <1>8, <1>9, <1>10 DEF PoolInv, PoolType
  <1> QED BY <1>1, <1>6, <1>11 DEF size, o

\* pool_free() of an object in use takes it back, once.
LEMMA PoolFreeInv ==
  ASSUME NEW p, NEW used, PoolInv(p, used), NEW o \in used
  PROVE  /\ PoolFree(p, o).size = p.size
         /\ PoolInv(PoolFree(p, o), used \ {o})
  <1> DEFINE free == Append(p.free, o)
  <1>1. /\ p \in PoolType
        /\ o \in 1 .. p.size
        /\ used \subseteq 1 .. p.size
        /\ p.size \in Nat
        /\ p.allocated = Cardinality(used)
    BY DEF PoolInv, PoolType
  <1>2. PoolFree(p, o) =
          [allocated |-> p.allocated - 1, free |-> free, size |-> p.size]
    BY DEF PoolFree
  <1>3. /\ free \in Seq(Nat \ {0})
        /\ \A i, j \in DOMAIN free : free[i] = free[j] => i = j
        /\ \A i \in DOMAIN free :
             free[i] = o \/ (i \in DOMAIN p.free /\ free[i] = p.free[i])
        /\ \A i \in DOMAIN p.free : i \in DOMAIN free /\ free[i] = p.free[i]
        /\ \E i \in DOMAIN free : free[i] = o
    <2>1. /\ p.free \in Seq(Nat \ {0})
          /\ o \in Nat \ {0}
          /\ \A i, j \in DOMAIN p.free : p.free[i] = p.free[j] => i = j
          /\ \A i \in DOMAIN p.free : p.free[i] # o
      BY <1>1 DEF PoolInv, PoolType
    <2> QED BY <2>1, PushFacts
  <1> HIDE DEF free
  <1>4. IsFiniteSet(used) /\ Cardinality(used \ {o}) = Cardinality(used) - 1
    <2>1. IsFiniteSet(1 .. p.size)
      BY <1>1, FS_Interval
    <2>2. IsFiniteSet(used)
      BY <2>1, <1>1, FS_Subset
    <2> QED BY <2>2, FS_RemoveElement
  <1>5. Cardinality(used) - 1 \in Nat
    <2>1. IsFiniteSet(used \ {o})
      BY <1>4, FS_Subset
    <2> QED BY <2>1, <1>4, FS_CardinalityType
  <1>6. \A i \in DOMAIN free : free[i] \in (1 .. p.size) \ (used \ {o})
    BY <1>1, <1>3 DEF PoolInv
  <1>7. \A x \in (1 .. p.size) \ (used \ {o}) : \E i \in DOMAIN free : free[i] = x
    <2> TAKE x \in (1 .. p.size) \ (used \ {o})
    <2>1. CASE x = o
      BY <2>1, <1>3
    <2>2. CASE x # o
      <3>1. PICK i \in DOMAIN p.free : p.free[i] = x
        BY <2>2 DEF PoolInv
      <3> QED BY <3>1, <1>3
    <2> QED BY <2>1, <2>2
  <1>8. PoolInv(PoolFree(p, o), used \ {o})
    <2> DEFINE q == PoolFree(p, o)
    <2>1. q.free = free /\ q.size = p.size /\ q.allocated = p.allocated - 1
      BY <1>2
    <2>2. q \in PoolType
      BY <1>1, <1>2, <1>3, <1>5 DEF PoolType
    <2>3. used \ {o} \subseteq 1 .. p.size
      BY <1>1
    <2>4. q.allocated = Cardinality(used \ {o})
      BY <2>1, <1>1, <1>4
    <2> HIDE DEF q
    <2>5. PoolInv(q, used \ {o})
      BY <2>1, <2>2, <2>3, <2>4, <1>3, <1>6, <1>7 DEF PoolInv
    <2> QED BY <2>5 DEF q
  <1> QED BY <1>2, <1>8

-----------------------------------------------------------------------------
(* reactor.c *)

\* An operation moves to another place: nothing else of the history changes.
LEMMA MovedFacts ==
  ASSUME TypeOK, NEW g \in DOMAIN ops,
         NEW place \in {"pend", "sq", "kernel", "cq", "call", "next", "free"},
         ops' = [ops EXCEPT ![g].at = place]
  PROVE  /\ ops' \in Seq(OperationType)
         /\ DOMAIN ops' = DOMAIN ops
         /\ Len(ops') = Len(ops)
         /\ \A n \in DOMAIN ops :
              /\ ops'[n].user = ops[n].user
              /\ ops'[n].kind = ops[n].kind
              /\ ops'[n].status = ops[n].status
              /\ ops'[n].calls = ops[n].calls
              /\ ops'[n].cancelCalls = ops[n].cancelCalls
              /\ ops'[n].at = IF n = g THEN place ELSE ops[n].at
  <1>1. ops \in Seq(OperationType) /\ DOMAIN ops = 1 .. Len(ops) /\ Len(ops) \in Nat
    BY DEF TypeOK
  <1>2. ops \in [1 .. Len(ops) -> OperationType]
    BY <1>1
  <1>3. ops' \in [1 .. Len(ops) -> OperationType]
    BY ZenonT(60), <1>1, <1>2 DEF OperationType
  <1>4. ops' \in Seq(OperationType) /\ Len(ops') = Len(ops)
    BY <1>1, <1>3
  <1> QED BY SMTT(60), <1>1, <1>2, <1>3, <1>4 DEF OperationType

\* It stays in use, so the pool stays exact.
LEMMA MovedPool ==
  ASSUME TypeOK, PoolExact, NEW g \in Open,
         NEW place \in {"pend", "sq", "kernel", "cq", "call", "next"},
         ops' = [ops EXCEPT ![g].at = place], pool' = pool
  PROVE  PoolExact' /\ Open' = Open
  <1>1. /\ DOMAIN ops' = DOMAIN ops
        /\ \A n \in DOMAIN ops :
              /\ ops'[n].user = ops[n].user
              /\ ops'[n].at = IF n = g THEN place ELSE ops[n].at
    BY MovedFacts DEF Open
  <1>2. Open' = Open
    BY <1>1 DEF Open
  <1>3. {ops'[n].user : n \in Open'} = {ops[n].user : n \in Open}
    BY <1>1, <1>2 DEF Open
  <1>4. \A m, n \in Open' : ops'[m].user = ops'[n].user => m = n
    BY <1>1, <1>2 DEF PoolExact, Open
  <1>5. PoolInv(pool', {ops'[n].user : n \in Open'})
    BY <1>3 DEF PoolExact
  <1> QED BY <1>2, <1>4, <1>5 DEF PoolExact

\* There is one entry that waits for reactor_ring_flush(), if any.
LEMMA PendFacts ==
  ASSUME TypeOK, pend # <<>>
  PROVE  /\ Len(pend) = 1
         /\ DOMAIN pend = {1}
         /\ pend[1] \in SqeType
  <1>1. pend \in Seq(SqeType) /\ Len(pend) <= 1
    BY DEF TypeOK
  <1>2. Len(pend) \in Nat \ {0} /\ DOMAIN pend = 1 .. Len(pend)
    BY <1>1, EmptySeq, LenProperties
  <1>3. Len(pend) = 1
    BY <1>1, <1>2
  <1>4. DOMAIN pend = {1}
    BY <1>2, <1>3
  <1> QED BY <1>1, <1>3, <1>4

\* reactor_ring_flush() returns: the waiting entry is written.
LEMMA FlushReturnInv ==
  ASSUME Inv, FlushReturn
  PROVE  Inv'
  <1> DEFINE e == pend[1]
  <1>1. /\ pend \in Seq(SqeType)
        /\ Len(pend) = 1
        /\ DOMAIN pend = {1}
        /\ e \in SqeType
        /\ DOMAIN sq = {}
    BY PendFacts DEF Inv, TypeOK, FlushReturn
  <1>2. e.gen \in Open
    BY <1>1 DEF Inv, Places, PendPlaces, Owns, Open
  <1>3. /\ ops' \in Seq(OperationType)
        /\ DOMAIN ops' = DOMAIN ops
        /\ Len(ops') = Len(ops)
        /\ \A n \in DOMAIN ops :
              /\ ops'[n].user = ops[n].user
              /\ ops'[n].kind = ops[n].kind
              /\ ops'[n].status = ops[n].status
              /\ ops'[n].at = IF n = e.gen THEN "sq" ELSE ops[n].at
    <2>1. ops' = [ops EXCEPT ![e.gen].at = "sq"] /\ e.gen \in DOMAIN ops /\ TypeOK
      BY <1>2 DEF Inv, FlushReturn, Open
    <2> QED BY ZenonT(60), <2>1, MovedFacts
  <1>4. PoolExact' /\ Open' = Open
    BY <1>2, MovedPool DEF Inv, FlushReturn
  <1>5. TypeOK'
    <2>1. sq' \in Seq(SqeType) /\ Len(sq') <= RingSize /\ pend' \in Seq(SqeType) /\ Len(pend') <= 1
      BY <1>1, RingSizeAssumption DEF FlushReturn
    <2> QED BY <1>3, <2>1 DEF Inv, TypeOK, FlushReturn
  <1>6. Places'
    <2> USE <1>1, <1>2, <1>3 DEF Inv, Places, Owns, FlushReturn
    <2>1. SqPlaces'
      BY DEF SqPlaces, PendPlaces
    <2>2. PendPlaces'
      BY DEF PendPlaces
    <2>3. KernelPlaces'
      BY DEF KernelPlaces, PendPlaces
    <2>4. CqPlaces'
      BY SMTT(60) DEF CqPlaces, PendPlaces
    <2>5. NextPlaces'
      BY DEF NextPlaces, PendPlaces
    <2>6. CurPlaces'
      BY DEF CurPlaces, PendPlaces
    <2> QED BY <2>1, <2>2, <2>3, <2>4, <2>5, <2>6
  <1>7. Unique'
    BY <1>1 DEF Inv, Unique, FlushReturn
  <1>8. NextInOrder' /\ Phase' /\ CallbackBelongs'
    BY DEF Inv, NextInOrder, Phase, CallbackBelongs, FlushReturn
  <1>9. Stored'
    BY <1>3, <1>4 DEF Inv, Stored, FlushReturn, Open
  <1>10. Ended'
    BY <1>1, <1>3, <1>2 DEF Inv, Ended, Places, SqPlaces, PendPlaces, KernelPlaces, CqPlaces, CurPlaces, Owns, FlushReturn
  <1>11. Aimed'
    BY <1>1 DEF Inv, Aimed, Means, FlushReturn
  <1> QED BY <1>4, <1>5, <1>6, <1>7, <1>8, <1>9, <1>10, <1>11 DEF Inv

\* KernelTake, when the entry is a cancellation.
LEMMA KernelTakeCancelInv ==
  ASSUME Inv, KernelTake, Head(sq).op \in {"cancel", "remove"}
  PROVE  Inv'
  <1> DEFINE e == Head(sq)
             c == Completion(e, FALSE, FALSE)
             n == Len(cq) + 1
  <1> USE DEF Inv
  <1>1. /\ sq' \in Seq(SqeType) /\ e = sq[1] /\ 1 \in DOMAIN sq /\ e \in SqeType
        /\ Len(sq') <= RingSize
        /\ \A i \in DOMAIN sq' :
             i \in Nat /\ i + 1 \in DOMAIN sq /\ sq'[i] = sq[i + 1] /\ 1 < i + 1
    <2>1. sq \in Seq(SqeType) /\ sq # <<>> /\ sq' = Tail(sq) /\ Len(sq) <= RingSize
      BY DEF TypeOK, KernelTake
    <2> QED BY <2>1, TailCases, RingSizeAssumption
  <1>2. c \in CqeType /\ c.gen = e.gen /\ c.user = e.user /\ ~ c.more /\ ~ c.notif
    BY <1>1 DEF Completion, CqeType, SqeType
  <1>3. /\ cq' \in Seq(CqeType) /\ n \in DOMAIN cq' /\ cq'[n] = c
        /\ \A i \in DOMAIN cq : i \in DOMAIN cq' /\ cq'[i] = cq[i] /\ i < n /\ i \in Nat
        /\ \A i \in DOMAIN cq' : i = n \/ i \in DOMAIN cq
        /\ n \in Nat
    <2>1. cq \in Seq(CqeType) /\ cq' = Append(cq, c)
      BY DEF TypeOK, KernelTake
    <2> HIDE DEF c
    <2> QED BY <1>2, <2>1, AppendCases
  <1>4. /\ ops' = [ops EXCEPT ![e.gen].at = "cq"]
        /\ kernel' = {[k EXCEPT !.stop = @ \/ (e.op = "cancel" /\ k.user = e.addr)] : k \in kernel}
        /\ UNCHANGED <<pool, user, pend, next, current, pc, index, cur, shots>>
    BY DEF KernelTake
  <1>5. /\ kernel' \subseteq RequestType
        /\ \A l \in kernel' : \E k \in kernel : k.gen = l.gen /\ k.user = l.user /\ k.op = l.op
        /\ \A k, l \in kernel' : k.gen = l.gen => k = l
    <2>1. kernel \subseteq RequestType
      BY DEF TypeOK
    <2>2. ASSUME NEW l \in kernel'
          PROVE  /\ l \in RequestType
                 /\ \E k \in kernel :
                      /\ k.gen = l.gen /\ k.user = l.user /\ k.op = l.op
                      /\ l = [k EXCEPT !.stop = @ \/ (e.op = "cancel" /\ k.user = e.addr)]
      BY <1>4, <2>1 DEF RequestType
    <2>3. \A k, l \in kernel : k.gen = l.gen => k = l
      BY DEF Unique
    <2> QED BY <2>2, <2>3
  <1> HIDE DEF e, c, n
  <1>6. e.gen \in Open /\ e.gen \in DOMAIN ops /\ ops[e.gen].at = "sq" /\ ops[e.gen].user = e.user
    BY <1>1 DEF Places, SqPlaces, Owns, Open
  <1>7. /\ ops' \in Seq(OperationType)
        /\ DOMAIN ops' = DOMAIN ops
        /\ \A m \in DOMAIN ops :
              /\ ops'[m].user = ops[m].user
              /\ ops'[m].kind = ops[m].kind
              /\ ops'[m].status = ops[m].status
              /\ ops'[m].at = IF m = e.gen THEN "cq" ELSE ops[m].at
    BY ZenonT(60), <1>4, <1>6, MovedFacts
  <1>8. PoolExact' /\ Open' = Open
    BY <1>4, <1>6, MovedPool
  <1>9. TypeOK'
    BY <1>1, <1>3, <1>4, <1>5, <1>7 DEF TypeOK
  <1>10. SqPlaces'
    <2>1. ASSUME NEW i \in DOMAIN sq'
          PROVE  Owns(sq[i + 1], {"sq"}) /\ sq[i + 1].gen # e.gen
      BY <1>1 DEF Places, SqPlaces, Unique
    <2> QED BY SMTT(60), <1>1, <1>7, <2>1 DEF SqPlaces, Owns
  <1>11. PendPlaces' /\ KernelPlaces'
    <2>1. PendPlaces /\ KernelPlaces
      BY DEF Places
    <2>2. PendPlaces'
      BY <1>4, <1>6, <1>7, <2>1 DEF PendPlaces, Owns
    <2>3. KernelPlaces'
      BY <1>5, <1>6, <1>7, <2>1 DEF KernelPlaces, Owns
    <2> QED BY <2>2, <2>3
  <1>12. CqPlaces'
    BY SMTT(60), <1>2, <1>3, <1>6, <1>7 DEF Places, CqPlaces, Owns
  <1>13. NextPlaces'
    BY <1>4, <1>6, <1>7 DEF Places, NextPlaces, Owns
  <1>14. CurPlaces'
    BY <1>4, <1>6, <1>7 DEF Places, CurPlaces, Owns
  <1>15. Unique'
    <2>1. \A i, j \in DOMAIN sq' : sq'[i].gen = sq'[j].gen => i = j
      BY <1>1 DEF Unique
    <2>2. \A i \in DOMAIN cq : cq[i].gen # e.gen
      BY <1>6 DEF Places, CqPlaces, Owns
    <2>3. \A i, j \in DOMAIN cq' : i < j /\ cq'[i].gen = cq'[j].gen => cq'[i].more
      BY <1>2, <1>3, <2>2 DEF Unique
    <2> QED BY <1>5, <2>1, <2>3 DEF Unique
  <1>16. NextInOrder' /\ Phase' /\ CallbackBelongs'
    BY <1>4 DEF NextInOrder, Phase, CallbackBelongs
  <1>17. Stored'
    BY <1>4, <1>7, <1>8 DEF Stored, Open
  <1>18. Ended'
    <2>1. \A k \in kernel' :
            k.op = "notif" /\ ops'[k.gen].status \in {"pending", "cancelled"} =>
              \E i \in DOMAIN cq' : cq'[i].gen = k.gen /\ ~ cq'[i].notif
      <3> TAKE k \in kernel'
      <3> HAVE k.op = "notif" /\ ops'[k.gen].status \in {"pending", "cancelled"}
      <3>1. PICK l \in kernel : l.gen = k.gen /\ l.op = k.op
        BY <1>5
      <3>2. ops[l.gen].status \in {"pending", "cancelled"}
        BY <1>7, <3>1 DEF Places, KernelPlaces, Owns
      <3>3. PICK i \in DOMAIN cq : cq[i].gen = l.gen /\ ~ cq[i].notif
        BY <3>1, <3>2 DEF Ended
      <3> QED BY <1>3, <3>1, <3>3
    <2>2. \A j \in DOMAIN cq' :
            cq'[j].notif /\ ops'[cq'[j].gen].status \in {"pending", "cancelled"} =>
              \E i \in DOMAIN cq' : i < j /\ cq'[i].gen = cq'[j].gen /\ ~ cq'[i].notif
      <3> TAKE j \in DOMAIN cq'
      <3> HAVE cq'[j].notif /\ ops'[cq'[j].gen].status \in {"pending", "cancelled"}
      <3>1. j \in DOMAIN cq /\ cq'[j] = cq[j]
        BY <1>2, <1>3
      <3>2. cq[j].gen \in DOMAIN ops
        BY <3>1 DEF Places, CqPlaces, Owns
      <3>3. PICK i \in DOMAIN cq : i < j /\ cq[i].gen = cq[j].gen /\ ~ cq[i].notif
        BY <1>7, <3>1, <3>2 DEF Ended
      <3> QED BY <1>3, <3>1, <3>3
    <2>3. \A k \in kernel' : k.op \in {"zc", "notif"} <=> ops'[k.gen].kind = "zc"
      BY <1>5, <1>7 DEF Ended, Places, KernelPlaces, Owns
    <2>4. \A i \in DOMAIN sq' : sq'[i].op = ops'[sq'[i].gen].kind /\ sq'[i].op # "next"
      <3>1. ASSUME NEW i \in DOMAIN sq'
            PROVE  /\ sq[i + 1].op = ops[sq[i + 1].gen].kind /\ sq[i + 1].op # "next"
                   /\ sq[i + 1].gen \in DOMAIN ops
        BY <1>1 DEF Ended, Places, SqPlaces, Owns
      <3> QED BY <1>1, <1>7, <3>1
    <2>5. \A i \in DOMAIN pend' : pend'[i].op = ops'[pend'[i].gen].kind /\ pend'[i].op # "next"
      BY <1>4, <1>7 DEF Ended, Places, PendPlaces, Owns
    <2>6. \A i \in DOMAIN cq' : cq'[i].notif => ~ cq'[i].more /\ ops'[cq'[i].gen].kind = "zc"
      BY <1>2, <1>3, <1>7, SMTT(60) DEF Ended, Places, CqPlaces, Owns
    <2>7. \A m \in DOMAIN ops' :
            ops'[m].at \in {"call", "free"} => ops'[m].status \in {"done", "closed"}
      BY <1>7 DEF Ended
    <2>8. pc' = "nextcall" => ops'[cur'.gen].status \in {"done", "closed"}
      BY <1>4, <1>7 DEF Ended, Places, CurPlaces, Owns
    <2> QED BY <2>1, <2>2, <2>3, <2>4, <2>5, <2>6, <2>7, <2>8 DEF Ended
  <1>19. Aimed'
    <2>1. \A i \in DOMAIN sq' : \A k \in kernel' : Means(sq'[i], k)
      BY <1>1, <1>5, SMTT(60) DEF Aimed, Means
    <2>2. \A i, j \in DOMAIN sq' : j < i => Means(sq'[i], sq'[j])
      BY <1>1 DEF Aimed, Means
    <2>3. \A i \in DOMAIN pend' :
             /\ \A k \in kernel' : Means(pend'[i], k)
             /\ \A j \in DOMAIN sq' : Means(pend'[i], sq'[j])
      <3>1. ASSUME NEW i \in DOMAIN pend
            PROVE  \A k \in kernel' : Means(pend[i], k)
        BY <1>5 DEF Aimed, Means
      <3>2. ASSUME NEW i \in DOMAIN pend, NEW j \in DOMAIN sq'
            PROVE  Means(pend[i], sq'[j])
        BY <1>1 DEF Aimed
      <3> QED BY <1>4, <3>1, <3>2
    <2> QED BY <2>1, <2>2, <2>3 DEF Aimed
  <1> QED BY <1>8, <1>9, <1>10, <1>11, <1>12, <1>13, <1>14, <1>15, <1>16, <1>17, <1>18, <1>19
       DEF Places

\* KernelTake, when the entry is a request that goes in flight.
LEMMA KernelTakeRequestInv ==
  ASSUME Inv, KernelTake, Head(sq).op \notin {"cancel", "remove"}
  PROVE  Inv'
  <1> DEFINE e == Head(sq)
             r == [op |-> e.op, gen |-> e.gen, user |-> e.user, stop |-> FALSE]
  <1> USE DEF Inv
  <1>1. /\ sq' \in Seq(SqeType) /\ e = sq[1] /\ 1 \in DOMAIN sq /\ e \in SqeType
        /\ Len(sq') <= RingSize
        /\ \A i \in DOMAIN sq' :
             i \in Nat /\ i + 1 \in DOMAIN sq /\ sq'[i] = sq[i + 1] /\ 1 < i + 1
    <2>1. sq \in Seq(SqeType) /\ sq # <<>> /\ sq' = Tail(sq) /\ Len(sq) <= RingSize
      BY DEF TypeOK, KernelTake
    <2> QED BY <2>1, TailCases, RingSizeAssumption
  <1>2. /\ ops' = [ops EXCEPT ![e.gen].at = "kernel"]
        /\ kernel' = kernel \cup {r}
        /\ UNCHANGED <<pool, user, pend, cq, next, current, pc, index, cur, shots>>
    BY DEF KernelTake
  <1>3. /\ e.gen \in Open /\ e.gen \in DOMAIN ops
        /\ ops[e.gen].at = "sq" /\ ops[e.gen].user = e.user
        /\ ops[e.gen].kind = e.op /\ e.op # "next"
    BY <1>1 DEF Places, SqPlaces, Owns, Open, Ended
  <1>4. r \in RequestType /\ r.gen = e.gen /\ r.user = e.user /\ r.op = e.op /\ r.op # "notif"
    BY <1>1, <1>3, RequestsAssumption DEF RequestType, SqeType, Kinds
  <1> HIDE DEF e, r
  <1>5. /\ ops' \in Seq(OperationType)
        /\ DOMAIN ops' = DOMAIN ops
        /\ \A m \in DOMAIN ops :
              /\ ops'[m].user = ops[m].user
              /\ ops'[m].kind = ops[m].kind
              /\ ops'[m].status = ops[m].status
              /\ ops'[m].at = IF m = e.gen THEN "kernel" ELSE ops[m].at
    BY <1>2, <1>3, MovedFacts, ZenonT(60)
  <1>6. PoolExact' /\ Open' = Open
    BY <1>2, <1>3, MovedPool
  <1>7. TypeOK'
    BY <1>1, <1>2, <1>4, <1>5 DEF TypeOK
  <1>8. SqPlaces'
    <2>1. ASSUME NEW i \in DOMAIN sq'
          PROVE  Owns(sq[i + 1], {"sq"}) /\ sq[i + 1].gen # e.gen
      BY <1>1 DEF Places, SqPlaces, Unique
    <2>2. ASSUME NEW i \in DOMAIN sq'
          PROVE  /\ sq'[i].gen \in DOMAIN ops'
                 /\ ops'[sq'[i].gen].user = sq'[i].user
                 /\ ops'[sq'[i].gen].at = "sq"
      <3> DEFINE g == sq[i + 1].gen
      <3>1. sq'[i] = sq[i + 1] /\ g \in DOMAIN ops /\ g # e.gen /\ ops[g].at = "sq"
            /\ ops[g].user = sq[i + 1].user
        BY <1>1, <2>1 DEF Owns
      <3>2. g \in DOMAIN ops' /\ ops'[g].user = ops[g].user /\ ops'[g].at = ops[g].at
        BY <1>5, <3>1
      <3> QED BY <3>1, <3>2
    <2> QED BY <2>2 DEF SqPlaces, Owns
  <1>9. PendPlaces' /\ KernelPlaces' /\ CqPlaces'
    BY <1>2, <1>3, <1>4, <1>5 DEF Places, PendPlaces, KernelPlaces, CqPlaces, Owns
  <1>10. NextPlaces'
    BY <1>2, <1>3, <1>5 DEF Places, NextPlaces, Owns
  <1>11. CurPlaces'
    BY <1>2, <1>3, <1>5 DEF Places, CurPlaces, Owns
  <1>12. Unique'
    <2>1. \A i, j \in DOMAIN sq' : sq'[i].gen = sq'[j].gen => i = j
      BY <1>1 DEF Unique
    <2>2. \A k \in kernel : k.gen # e.gen
      BY <1>3 DEF Places, KernelPlaces, Owns
    <2> QED BY <1>2, <1>4, <2>1, <2>2 DEF Unique
  <1>13. NextInOrder' /\ Phase' /\ CallbackBelongs'
    BY <1>2 DEF NextInOrder, Phase, CallbackBelongs
  <1>14. Stored'
    BY <1>2, <1>5, <1>6 DEF Stored, Open
  <1>15. Ended'
    <2>1. \A k \in kernel' :
            k.op = "notif" /\ ops'[k.gen].status \in {"pending", "cancelled"} =>
              \E i \in DOMAIN cq' : cq'[i].gen = k.gen /\ ~ cq'[i].notif
      BY <1>2, <1>4, <1>5 DEF Ended, Places, KernelPlaces, Owns
    <2>2. \A j \in DOMAIN cq' :
            cq'[j].notif /\ ops'[cq'[j].gen].status \in {"pending", "cancelled"} =>
              \E i \in DOMAIN cq' : i < j /\ cq'[i].gen = cq'[j].gen /\ ~ cq'[i].notif
      BY <1>2, <1>5 DEF Ended, Places, CqPlaces, Owns
    <2>3. \A k \in kernel' : k.op \in {"zc", "notif"} <=> ops'[k.gen].kind = "zc"
      BY <1>2, <1>3, <1>4, <1>5 DEF Ended, Places, KernelPlaces, Owns
    <2>4. \A i \in DOMAIN sq' : sq'[i].op = ops'[sq'[i].gen].kind /\ sq'[i].op # "next"
      <3>1. ASSUME NEW i \in DOMAIN sq'
            PROVE  /\ sq[i + 1].op = ops[sq[i + 1].gen].kind /\ sq[i + 1].op # "next"
                   /\ sq[i + 1].gen \in DOMAIN ops
        BY <1>1 DEF Ended, Places, SqPlaces, Owns
      <3> QED BY <1>1, <1>5, <3>1
    <2>5. \A i \in DOMAIN pend' : pend'[i].op = ops'[pend'[i].gen].kind /\ pend'[i].op # "next"
      BY <1>2, <1>5 DEF Ended, Places, PendPlaces, Owns
    <2>6. \A i \in DOMAIN cq' : cq'[i].notif => ~ cq'[i].more /\ ops'[cq'[i].gen].kind = "zc"
      BY <1>2, <1>5 DEF Ended, Places, CqPlaces, Owns
    <2>7. \A m \in DOMAIN ops' :
            ops'[m].at \in {"call", "free"} => ops'[m].status \in {"done", "closed"}
      BY <1>5 DEF Ended
    <2>8. pc' = "nextcall" => ops'[cur'.gen].status \in {"done", "closed"}
      BY <1>2, <1>5 DEF Ended, Places, CurPlaces, Owns
    <2> QED BY <2>1, <2>2, <2>3, <2>4, <2>5, <2>6, <2>7, <2>8 DEF Ended
  <1>16. Aimed'
    <2>1. ASSUME NEW i \in DOMAIN sq'
          PROVE  Means(sq[i + 1], r) /\ \A k \in kernel : Means(sq[i + 1], k)
      BY <1>1, <1>4 DEF Aimed, Means
    <2>2. \A i \in DOMAIN sq' : \A k \in kernel' : Means(sq'[i], k)
      BY <1>1, <1>2, <2>1
    <2>3. \A i, j \in DOMAIN sq' : j < i => Means(sq'[i], sq'[j])
      BY <1>1 DEF Aimed, Means
    <2>4. \A i \in DOMAIN pend' : \A k \in kernel' : Means(pend'[i], k)
      BY <1>1, <1>2, <1>4 DEF Aimed, Means
    <2>5. ASSUME NEW i \in DOMAIN pend, NEW j \in DOMAIN sq'
          PROVE  Means(pend[i], sq'[j])
      BY <1>1 DEF Aimed
    <2> QED BY <1>2, <2>2, <2>3, <2>4, <2>5 DEF Aimed
  <1> QED BY <1>6, <1>7, <1>8, <1>9, <1>10, <1>11, <1>12, <1>13, <1>14, <1>15, <1>16
       DEF Places

\* The last completion of a request is posted.
LEMMA KernelCompleteInv ==
  ASSUME Inv, NEW k \in kernel, KernelComplete(k)
  PROVE  Inv'
  <1> DEFINE c == Completion(k, FALSE, k.op = "notif")
             n == Len(cq) + 1
  <1> USE DEF Inv
  <1>1. k \in RequestType
    BY DEF TypeOK
  <1>2. c \in CqeType /\ c.gen = k.gen /\ c.user = k.user /\ ~ c.more /\ (c.notif <=> k.op = "notif")
    BY <1>1 DEF Completion, CqeType, RequestType
  <1>3. /\ cq' \in Seq(CqeType) /\ n \in DOMAIN cq' /\ cq'[n] = c
        /\ \A i \in DOMAIN cq : i \in DOMAIN cq' /\ cq'[i] = cq[i] /\ i < n /\ i \in Nat
        /\ \A i \in DOMAIN cq' : i = n \/ i \in DOMAIN cq
        /\ n \in Nat
    <2>1. cq \in Seq(CqeType) /\ cq' = Append(cq, c)
      BY DEF TypeOK, KernelComplete
    <2> HIDE DEF c
    <2> QED BY <1>2, <2>1, AppendCases
  <1>4. /\ ops' = [ops EXCEPT ![k.gen].at = "cq"]
        /\ kernel' = kernel \ {k}
        /\ UNCHANGED <<pool, user, sq, pend, next, current, pc, index, cur, shots>>
    BY DEF KernelComplete
  <1>5. \A l \in kernel' : l \in kernel /\ l.gen # k.gen
    BY <1>4 DEF Unique
  <1> HIDE DEF c, n
  <1>6. k.gen \in Open /\ k.gen \in DOMAIN ops /\ ops[k.gen].at = "kernel" /\ ops[k.gen].user = k.user
    BY DEF Places, KernelPlaces, Owns, Open
  <1>7. /\ ops' \in Seq(OperationType)
        /\ DOMAIN ops' = DOMAIN ops
        /\ \A m \in DOMAIN ops :
              /\ ops'[m].user = ops[m].user
              /\ ops'[m].kind = ops[m].kind
              /\ ops'[m].status = ops[m].status
              /\ ops'[m].at = IF m = k.gen THEN "cq" ELSE ops[m].at
    BY ZenonT(60), <1>4, <1>6, MovedFacts
  <1>8. PoolExact' /\ Open' = Open
    BY <1>4, <1>6, MovedPool
  <1>9. TypeOK'
    BY <1>3, <1>4, <1>7 DEF TypeOK
  <1>10. SqPlaces' /\ PendPlaces'
    BY <1>4, <1>6, <1>7 DEF Places, SqPlaces, PendPlaces, Owns
  <1>11. KernelPlaces'
    BY <1>5, <1>7 DEF Places, KernelPlaces, Owns
  <1>12. CqPlaces'
    BY <1>2, <1>3, <1>6, <1>7 DEF Places, CqPlaces, Owns
  <1>13. NextPlaces'
    BY <1>4, <1>6, <1>7 DEF Places, NextPlaces, Owns
  <1>14. CurPlaces'
    BY <1>4, <1>6, <1>7 DEF Places, CurPlaces, Owns
  <1>15. Unique'
    <2>1. \A i \in DOMAIN cq : cq[i].gen = k.gen => cq[i].more
      BY <1>6 DEF Places, CqPlaces, Owns
    <2>2. \A i, j \in DOMAIN cq' : i < j /\ cq'[i].gen = cq'[j].gen => cq'[i].more
      BY <1>2, <1>3, <2>1 DEF Unique
    <2> QED BY <1>4, <1>5, <2>2 DEF Unique
  <1>16. NextInOrder' /\ Phase' /\ CallbackBelongs'
    BY <1>4 DEF NextInOrder, Phase, CallbackBelongs
  <1>17. Stored'
    BY <1>4, <1>7, <1>8 DEF Stored, Open
  <1>18. Ended'
    <2>1. \A l \in kernel' :
            l.op = "notif" /\ ops'[l.gen].status \in {"pending", "cancelled"} =>
              \E i \in DOMAIN cq' : cq'[i].gen = l.gen /\ ~ cq'[i].notif
      BY <1>3, <1>5, <1>7, SMTT(60) DEF Ended, Places, KernelPlaces, Owns
    <2>2. \A j \in DOMAIN cq' :
            cq'[j].notif /\ ops'[cq'[j].gen].status \in {"pending", "cancelled"} =>
              \E i \in DOMAIN cq' : i < j /\ cq'[i].gen = cq'[j].gen /\ ~ cq'[i].notif
      <3> TAKE j \in DOMAIN cq'
      <3> HAVE cq'[j].notif /\ ops'[cq'[j].gen].status \in {"pending", "cancelled"}
      <3>1. CASE j \in DOMAIN cq
        <4>1. cq'[j] = cq[j] /\ cq[j].gen \in DOMAIN ops
          BY <1>3, <3>1 DEF Places, CqPlaces, Owns
        <4>2. PICK i \in DOMAIN cq : i < j /\ cq[i].gen = cq[j].gen /\ ~ cq[i].notif
          BY <1>7, <3>1, <4>1 DEF Ended
        <4> QED BY <1>3, <4>1, <4>2
      <3>2. CASE j = n
        <4>1. k.op = "notif" /\ ops[k.gen].status \in {"pending", "cancelled"}
          BY <1>2, <1>3, <1>6, <1>7, <3>2
        <4>2. PICK i \in DOMAIN cq : cq[i].gen = k.gen /\ ~ cq[i].notif
          BY <4>1 DEF Ended
        <4> QED BY <1>2, <1>3, <3>2, <4>2
      <3> QED BY <1>3, <3>1, <3>2
    <2>3. \A l \in kernel' : l.op \in {"zc", "notif"} <=> ops'[l.gen].kind = "zc"
      BY <1>5, <1>7 DEF Ended, Places, KernelPlaces, Owns
    <2>4. \A i \in DOMAIN sq' : sq'[i].op = ops'[sq'[i].gen].kind /\ sq'[i].op # "next"
      BY <1>4, <1>7 DEF Ended, Places, SqPlaces, Owns
    <2>5. \A i \in DOMAIN pend' : pend'[i].op = ops'[pend'[i].gen].kind /\ pend'[i].op # "next"
      BY <1>4, <1>7 DEF Ended, Places, PendPlaces, Owns
    <2>6. \A i \in DOMAIN cq' : cq'[i].notif => ~ cq'[i].more /\ ops'[cq'[i].gen].kind = "zc"
      <3> TAKE i \in DOMAIN cq'
      <3> HAVE cq'[i].notif
      <3>1. CASE i \in DOMAIN cq
        BY <1>3, <1>7, <3>1 DEF Ended, Places, CqPlaces, Owns
      <3>2. CASE i = n
        <4>1. k.op = "notif" /\ ops[k.gen].kind = "zc"
          BY <1>2, <1>3, <3>2 DEF Ended
        <4> QED BY <1>2, <1>3, <1>6, <1>7, <3>2, <4>1
      <3> QED BY <1>3, <3>1, <3>2
    <2>7. \A m \in DOMAIN ops' :
            ops'[m].at \in {"call", "free"} => ops'[m].status \in {"done", "closed"}
      BY <1>7 DEF Ended
    <2>8. pc' = "nextcall" => ops'[cur'.gen].status \in {"done", "closed"}
      BY <1>4, <1>7 DEF Ended, Places, CurPlaces, Owns
    <2> QED BY <2>1, <2>2, <2>3, <2>4, <2>5, <2>6, <2>7, <2>8 DEF Ended
  <1>19. Aimed'
    BY <1>4, <1>5 DEF Aimed
  <1> QED BY <1>8, <1>9, <1>10, <1>11, <1>12, <1>13, <1>14, <1>15, <1>16, <1>17, <1>18, <1>19
       DEF Places

\* A completion is posted that others will follow.
LEMMA KernelMoreInv ==
  ASSUME Inv, NEW k \in kernel, KernelMore(k)
  PROVE  Inv'
  <1> DEFINE c == Completion(k, TRUE, FALSE)
             n == Len(cq) + 1
  <1> USE DEF Inv
  <1>1. k \in RequestType /\ k.op \in {"multi", "zc"}
    BY DEF TypeOK, KernelMore
  <1>2. c \in CqeType /\ c.gen = k.gen /\ c.user = k.user /\ c.more /\ ~ c.notif
    BY <1>1 DEF Completion, CqeType, RequestType
  <1>3. /\ cq' \in Seq(CqeType) /\ n \in DOMAIN cq' /\ cq'[n] = c
        /\ \A i \in DOMAIN cq : i \in DOMAIN cq' /\ cq'[i] = cq[i] /\ i < n /\ i \in Nat
        /\ \A i \in DOMAIN cq' : i = n \/ i \in DOMAIN cq
        /\ n \in Nat
    <2>1. cq \in Seq(CqeType) /\ cq' = Append(cq, c)
      BY DEF TypeOK, KernelMore
    <2> HIDE DEF c
    <2> QED BY <1>2, <2>1, AppendCases
  <1>4. UNCHANGED <<pool, user, sq, pend, next, current, pc, index, cur, ops>>
    BY DEF KernelMore
  <1>5. shots' \in Nat
    BY DEF KernelMore, TypeOK
  <1>6. /\ kernel' \subseteq RequestType
        /\ \A l \in kernel' : l \in kernel \/ (k.op = "zc" /\ l = [k EXCEPT !.op = "notif"])
        /\ k.op = "zc" => k \notin kernel'
    <2>1. k.op = "zc" => /\ [k EXCEPT !.op = "notif"] \in RequestType
                         /\ [k EXCEPT !.op = "notif"] # k
      BY <1>1 DEF RequestType
    <2> QED BY <2>1 DEF KernelMore, TypeOK
  <1>7. \A l \in kernel' :
          \/ l \in kernel /\ (k.op = "zc" => l # k)
          \/ k.op = "zc" /\ l.gen = k.gen /\ l.user = k.user /\ l.op = "notif"
              /\ l = [k EXCEPT !.op = "notif"]
    BY <1>1, <1>6 DEF RequestType
  <1> HIDE DEF c, n
  <1>8. k.gen \in DOMAIN ops /\ ops[k.gen].at = "kernel" /\ ops[k.gen].user = k.user
    BY DEF Places, KernelPlaces, Owns
  <1>9. TypeOK'
    BY <1>3, <1>4, <1>5, <1>6 DEF TypeOK
  <1>10. PoolExact' /\ Phase' /\ NextInOrder' /\ CallbackBelongs' /\ Stored'
    BY <1>4 DEF PoolExact, Open, Phase, NextInOrder, CallbackBelongs, Stored
  <1>11. SqPlaces' /\ PendPlaces' /\ NextPlaces' /\ CurPlaces'
    BY <1>4 DEF Places, SqPlaces, PendPlaces, NextPlaces, CurPlaces, Owns
  <1>12. KernelPlaces'
    BY <1>4, <1>7, <1>8 DEF Places, KernelPlaces, Owns
  <1>13. CqPlaces'
    BY <1>2, <1>3, <1>4, <1>8 DEF Places, CqPlaces, Owns
  <1>14. Unique'
    <2>1. \A i \in DOMAIN cq : cq[i].gen = k.gen => cq[i].more
      BY <1>8 DEF Places, CqPlaces, Owns
    <2>2. \A i, j \in DOMAIN cq' : i < j /\ cq'[i].gen = cq'[j].gen => cq'[i].more
      BY <1>2, <1>3, <2>1 DEF Unique
    <2> QED BY <1>4, <1>7, <2>2 DEF Unique
  <1>15. Ended'
    <2>1. \A l \in kernel' :
            l.op = "notif" /\ ops'[l.gen].status \in {"pending", "cancelled"} =>
              \E i \in DOMAIN cq' : cq'[i].gen = l.gen /\ ~ cq'[i].notif
      BY <1>2, <1>3, <1>4, <1>7 DEF Ended
    <2>2. \A j \in DOMAIN cq' :
            cq'[j].notif /\ ops'[cq'[j].gen].status \in {"pending", "cancelled"} =>
              \E i \in DOMAIN cq' : i < j /\ cq'[i].gen = cq'[j].gen /\ ~ cq'[i].notif
      <3> TAKE j \in DOMAIN cq'
      <3> HAVE cq'[j].notif /\ ops'[cq'[j].gen].status \in {"pending", "cancelled"}
      <3>1. j \in DOMAIN cq /\ cq'[j] = cq[j]
        BY <1>2, <1>3
      <3>2. PICK i \in DOMAIN cq : i < j /\ cq[i].gen = cq[j].gen /\ ~ cq[i].notif
        BY <1>4, <3>1 DEF Ended
      <3> QED BY <1>3, <3>1, <3>2
    <2>3. \A l \in kernel' : l.op \in {"zc", "notif"} <=> ops'[l.gen].kind = "zc"
      BY <1>4, <1>7 DEF Ended
    <2>4. \A i \in DOMAIN cq' : cq'[i].notif => ~ cq'[i].more /\ ops'[cq'[i].gen].kind = "zc"
      BY <1>2, <1>3, <1>4 DEF Ended
    <2> QED BY <1>4, <2>1, <2>2, <2>3, <2>4 DEF Ended
  <1>16. Aimed'
    BY <1>4, <1>7 DEF Aimed, Means
  <1> QED BY <1>9, <1>10, <1>11, <1>12, <1>13, <1>14, <1>15, <1>16 DEF Places

-----------------------------------------------------------------------------
(* The steps of the loop *)

\* Steps that only move the loop, outside callbacks and scheduled calls.
LEMMA MoveInv ==
  ASSUME Inv,
         UNCHANGED <<pool, user, sq, pend, kernel, cq, next, current, index, cur, shots, ops>>,
         pc \notin {"next", "nextcall"}, pend = <<>>,
         pc' \in {"out", "top", "wait", "enter", "cqe"}
  PROVE  Inv'
  <1>1. TypeOK'
    BY DEF Inv, TypeOK
  <1>2. PoolExact' /\ Unique' /\ NextInOrder' /\ Phase' /\ Stored'
    BY DEF Inv, PoolExact, Open, Unique, NextInOrder, Phase, Stored
  <1>3. Places'
    BY DEF Inv, Places, SqPlaces, PendPlaces, KernelPlaces, CqPlaces, NextPlaces, CurPlaces, Owns
  <1>4. Ended' /\ Aimed' /\ CallbackBelongs'
    BY DEF Inv, Ended, Aimed, Means, CallbackBelongs
  <1> QED BY <1>1, <1>2, <1>3, <1>4 DEF Inv

\* The loop turns to the other vector of scheduled calls.
LEMMA LoopNextInv ==
  ASSUME Inv, LoopNext
  PROVE  Inv'
  <1> USE DEF Inv
  <1>1. /\ current \in {0, 1} /\ current' \in {0, 1} /\ current' = 1 - current
        /\ 1 - current' = current
        /\ next[1 - current] = <<>> /\ index' = 1 /\ pc' = "next" /\ pend = <<>>
        /\ UNCHANGED <<pool, user, sq, pend, kernel, cq, next, cur, shots, ops>>
    BY DEF LoopNext, TypeOK, Phase
  <1>2. TypeOK'
    BY <1>1 DEF TypeOK
  <1>3. PoolExact' /\ Unique' /\ Phase' /\ Stored' /\ Ended' /\ Aimed' /\ CallbackBelongs'
    BY <1>1 DEF PoolExact, Open, Unique, Phase, Stored, Ended, Aimed, Means, CallbackBelongs
  <1>4. NextInOrder'
    BY <1>1 DEF NextInOrder
  <1>5. SqPlaces' /\ PendPlaces' /\ KernelPlaces' /\ CqPlaces' /\ CurPlaces'
    BY <1>1 DEF Places, SqPlaces, PendPlaces, KernelPlaces, CqPlaces, CurPlaces, Owns
  <1>6. NextPlaces'
    BY <1>1 DEF Places, NextPlaces, Owns
  <1> QED BY <1>2, <1>3, <1>4, <1>5, <1>6 DEF Places

\* vector_clear() of the scheduled calls that were made.
LEMMA NextClearInv ==
  ASSUME Inv, NextClear
  PROVE  Inv'
  <1> USE DEF Inv
  <1>1. /\ current \in {0, 1} /\ next' = [next EXCEPT ![1 - current] = <<>>]
        /\ index' = 0 /\ pc = "next" /\ pc' = "wait" /\ pend = <<>>
        /\ next \in [{0, 1} -> Seq([gen : Nat, user : Nat])]
        /\ UNCHANGED <<pool, user, sq, pend, kernel, cq, current, cur, shots, ops>>
    BY DEF NextClear, TypeOK, Phase
  <1>2. /\ next'[1 - current] = <<>> /\ next'[current] = next[current]
        /\ DOMAIN next'[1 - current] = {}
        /\ next' \in [{0, 1} -> Seq([gen : Nat, user : Nat])]
        /\ \A v \in {0, 1} : v = current \/ v = 1 - current
    BY <1>1
  <1>3. TypeOK'
    BY <1>1, <1>2 DEF TypeOK
  <1>4. PoolExact' /\ Unique' /\ Phase' /\ Stored' /\ Ended' /\ Aimed' /\ CallbackBelongs'
    BY <1>1, <1>2 DEF PoolExact, Open, Unique, Phase, Stored, Ended, Aimed, Means, CallbackBelongs
  <1>5. NextInOrder'
    BY <1>1, <1>2, ZenonT(60) DEF NextInOrder
  <1>6. SqPlaces' /\ PendPlaces' /\ KernelPlaces' /\ CqPlaces' /\ CurPlaces'
    BY <1>1 DEF Places, SqPlaces, PendPlaces, KernelPlaces, CqPlaces, CurPlaces, Owns
  <1>7. NextPlaces'
    BY <1>1, <1>2 DEF Places, NextPlaces, Owns
  <1> QED BY <1>3, <1>4, <1>5, <1>6, <1>7 DEF Places

\* What calling a callback does to the history.
LEMMA AnsweredFacts ==
  ASSUME NEW op \in OperationType, NEW how \in {"issue", "cancel"}, NEW last \in BOOLEAN
  PROVE  LET rec == Answered(op, how, last)
         IN  /\ rec \in OperationType
             /\ rec.user = op.user /\ rec.kind = op.kind /\ rec.at = op.at
             /\ rec.status = IF ~ last THEN op.status
                             ELSE IF how = "issue" THEN "done" ELSE "closed"
             /\ rec.calls = IF how = "issue" THEN op.calls + 1 ELSE op.calls
             /\ rec.cancelCalls = IF how = "cancel" THEN op.cancelCalls + 1 ELSE op.cancelCalls
  <1> DEFINE calls == IF how = "issue" THEN op.calls + 1 ELSE op.calls
             cancelCalls == IF how = "cancel" THEN op.cancelCalls + 1 ELSE op.cancelCalls
             status == IF ~ last THEN op.status ELSE IF how = "issue" THEN "done" ELSE "closed"
  <1>1. /\ calls \in Nat /\ cancelCalls \in Nat
        /\ status \in {"pending", "done", "cancelled", "closed"}
    BY DEF OperationType
  <1>2. Answered(op, how, last) =
          [op EXCEPT !.calls = calls, !.cancelCalls = cancelCalls, !.status = status]
    BY DEF Answered, OperationType
  <1> HIDE DEF calls, cancelCalls, status
  <1>3. LET rec == [op EXCEPT !.calls = calls, !.cancelCalls = cancelCalls, !.status = status]
        IN  /\ rec \in OperationType
            /\ rec.user = op.user /\ rec.kind = op.kind /\ rec.at = op.at
            /\ rec.status = status /\ rec.calls = calls /\ rec.cancelCalls = cancelCalls
    BY <1>1 DEF OperationType
  <1> QED BY <1>2, <1>3 DEF calls, cancelCalls, status

\* The history after a callback of operation g was called.
LEMMA InvokeFacts ==
  ASSUME TypeOK, NEW g \in DOMAIN ops, NEW how \in {"issue", "cancel"}, NEW last \in BOOLEAN
  PROVE  LET told == Invoke(Callback(g, how), last)
         IN  /\ told \in Seq(OperationType)
             /\ DOMAIN told = DOMAIN ops
             /\ \A n \in DOMAIN ops :
                  /\ told[n].user = ops[n].user
                  /\ told[n].kind = ops[n].kind
                  /\ told[n].at = ops[n].at
                  /\ n # g => told[n] = ops[n]
             /\ told[g].status = IF ~ last THEN ops[g].status
                                 ELSE IF how = "issue" THEN "done" ELSE "closed"
             /\ told[g].calls = IF how = "issue" THEN ops[g].calls + 1 ELSE ops[g].calls
             /\ told[g].cancelCalls =
                  IF how = "cancel" THEN ops[g].cancelCalls + 1 ELSE ops[g].cancelCalls
  <1> DEFINE told == Invoke(Callback(g, how), last)
             rec == Answered(ops[g], how, last)
  <1>1. ops \in Seq(OperationType) /\ DOMAIN ops = 1 .. Len(ops) /\ Len(ops) \in Nat
    BY DEF TypeOK
  <1>2. ops \in [1 .. Len(ops) -> OperationType] /\ ops[g] \in OperationType
    BY <1>1
  <1>3. /\ rec \in OperationType
        /\ rec.user = ops[g].user /\ rec.kind = ops[g].kind /\ rec.at = ops[g].at
        /\ rec.status = IF ~ last THEN ops[g].status
                        ELSE IF how = "issue" THEN "done" ELSE "closed"
        /\ rec.calls = IF how = "issue" THEN ops[g].calls + 1 ELSE ops[g].calls
        /\ rec.cancelCalls = IF how = "cancel" THEN ops[g].cancelCalls + 1 ELSE ops[g].cancelCalls
    BY <1>2, AnsweredFacts
  <1>4. told = [ops EXCEPT ![g] = rec]
    <2>1. Callback(g, how).of = g /\ Callback(g, how).call = how
      BY DEF Callback
    <2> QED BY <2>1 DEF Invoke
  <1> HIDE DEF told, rec
  <1>5. /\ told \in [1 .. Len(ops) -> OperationType]
        /\ told[g] = rec
        /\ \A n \in DOMAIN ops : n # g => told[n] = ops[n]
    BY <1>1, <1>2, <1>3, <1>4
  <1>6. told \in Seq(OperationType) /\ DOMAIN told = DOMAIN ops
    BY <1>1, <1>5
  <1> QED BY <1>3, <1>5, <1>6 DEF told

\* The pool is as exact as before if the same users stay in use.
LEMMA SameUsersPool ==
  ASSUME PoolExact, pool' = pool, DOMAIN ops' = DOMAIN ops,
         \A n \in DOMAIN ops :
           ops'[n].user = ops[n].user /\ (ops'[n].at = "free" <=> ops[n].at = "free")
  PROVE  PoolExact' /\ Open' = Open
  <1>1. Open' = Open
    BY DEF Open
  <1>2. {ops'[n].user : n \in Open'} = {ops[n].user : n \in Open}
    BY <1>1 DEF Open
  <1>3. \A m, n \in Open' : ops'[m].user = ops'[n].user => m = n
    BY <1>1 DEF PoolExact, Open
  <1> QED BY <1>1, <1>2, <1>3 DEF PoolExact

\* The callback at the address of an operation that is still in use.
LEMMA StoredFacts ==
  ASSUME TypeOK, Stored, NEW g \in Open
  PROVE  \E how \in {"issue", "cancel"} :
           /\ user[ops[g].user] = Callback(g, how)
           /\ how = "cancel" <=> ops[g].status \in {"cancelled", "closed"}
  BY DEF Stored

\* The scheduled call at index reaches a callback of its own operation.
LEMMA NextCallFacts ==
  ASSUME Inv, NextCall
  PROVE  LET e == next[1 - current][index]
             g == e.gen
         IN  /\ pc = "next" /\ pc' = "nextcall" /\ index \in DOMAIN next[1 - current]
             /\ current \in {0, 1} /\ pend = <<>>
             /\ e \in [gen : Nat, user : Nat]
             /\ UNCHANGED <<pool, user, sq, pend, kernel, cq, next, current, index, shots>>
             /\ g \in DOMAIN ops /\ ops[g].at = "next" /\ ops[g].user = e.user /\ g \in Open
             /\ ops' \in Seq(OperationType)
             /\ DOMAIN ops' = DOMAIN ops
             /\ \A n \in DOMAIN ops :
                  /\ ops'[n].user = ops[n].user
                  /\ ops'[n].kind = ops[n].kind
                  /\ ops'[n].at = ops[n].at
                  /\ n # g => ops'[n] = ops[n]
             /\ \E how \in {"issue", "cancel"} :
                  /\ how = "cancel" <=> ops[g].status \in {"cancelled", "closed"}
                  /\ cur' = [gen |-> g, user |-> e.user, more |-> FALSE, notif |-> FALSE,
                             callback |-> Callback(g, how)]
                  /\ ops'[g].status = IF how = "issue" THEN "done" ELSE "closed"
                  /\ ops'[g].calls = IF how = "issue" THEN ops[g].calls + 1 ELSE ops[g].calls
                  /\ ops'[g].cancelCalls =
                       IF how = "cancel" THEN ops[g].cancelCalls + 1 ELSE ops[g].cancelCalls
  <1> DEFINE e == next[1 - current][index]
             g == e.gen
  <1> USE DEF Inv
  <1>1. /\ pc = "next" /\ pc' = "nextcall" /\ index \in DOMAIN next[1 - current]
        /\ current \in {0, 1} /\ pend = <<>>
        /\ e \in [gen : Nat, user : Nat]
        /\ UNCHANGED <<pool, user, sq, pend, kernel, cq, next, current, index, shots>>
    <2>1. /\ pc = "next" /\ pc' = "nextcall" /\ index <= Len(next[1 - current])
          /\ UNCHANGED <<pool, user, sq, pend, kernel, cq, next, current, index, shots>>
      BY DEF NextCall
    <2>2. /\ current \in {0, 1} /\ index \in Nat
          /\ next[1 - current] \in Seq([gen : Nat, user : Nat])
      BY DEF TypeOK
    <2>3. index # 0
      BY <2>1 DEF Phase
    <2>4. index \in 1 .. Len(next[1 - current])
      BY <2>1, <2>2, <2>3
    <2>5. pend = <<>>
      BY <2>1 DEF Phase
    <2>6. index \in DOMAIN next[1 - current] /\ next[1 - current][index] \in [gen : Nat, user : Nat]
      BY <2>2, <2>4, LenProperties, ElementOfSeq
    <2> QED BY <2>1, <2>2, <2>5, <2>6
  <1>2. g \in DOMAIN ops /\ ops[g].at = "next" /\ ops[g].user = e.user /\ g \in Open
    BY <1>1, SMTT(60) DEF Places, NextPlaces, Owns, Open, TypeOK
  <1>3. PICK how \in {"issue", "cancel"} :
           /\ user[e.user] = Callback(g, how)
           /\ how = "cancel" <=> ops[g].status \in {"cancelled", "closed"}
    BY <1>2, StoredFacts
  <1>4. /\ cur' = [gen |-> g, user |-> e.user, more |-> FALSE, notif |-> FALSE,
                   callback |-> Callback(g, how)]
        /\ ops' = Invoke(Callback(g, how), TRUE)
    BY <1>3 DEF NextCall
  <1> HIDE DEF e, g
  <1>6. /\ ops' \in Seq(OperationType)
        /\ DOMAIN ops' = DOMAIN ops
        /\ \A n \in DOMAIN ops :
              /\ ops'[n].user = ops[n].user
              /\ ops'[n].kind = ops[n].kind
              /\ ops'[n].at = ops[n].at
              /\ n # g => ops'[n] = ops[n]
        /\ ops'[g].status = IF how = "issue" THEN "done" ELSE "closed"
        /\ ops'[g].calls = IF how = "issue" THEN ops[g].calls + 1 ELSE ops[g].calls
        /\ ops'[g].cancelCalls =
             IF how = "cancel" THEN ops[g].cancelCalls + 1 ELSE ops[g].cancelCalls
    <2> DEFINE told == Invoke(Callback(g, how), TRUE)
    <2>1. /\ told \in Seq(OperationType)
          /\ DOMAIN told = DOMAIN ops
          /\ \A n \in DOMAIN ops :
                /\ told[n].user = ops[n].user
                /\ told[n].kind = ops[n].kind
                /\ told[n].at = ops[n].at
                /\ n # g => told[n] = ops[n]
          /\ told[g].status = IF ~ TRUE THEN ops[g].status
                              ELSE IF how = "issue" THEN "done" ELSE "closed"
          /\ told[g].calls = IF how = "issue" THEN ops[g].calls + 1 ELSE ops[g].calls
          /\ told[g].cancelCalls =
               IF how = "cancel" THEN ops[g].cancelCalls + 1 ELSE ops[g].cancelCalls
      BY <1>2, InvokeFacts
    <2> HIDE DEF told
    <2>2. ops' = told
      BY <1>4 DEF told
    <2> QED BY <2>1, <2>2
  <1> QED BY <1>1, <1>2, <1>3, <1>4, <1>6, Zenon DEF e, g

\* A scheduled call is made.
LEMMA NextCallInv ==
  ASSUME Inv, NextCall
  PROVE  Inv'
  <1> DEFINE e == next[1 - current][index]
             g == e.gen
  <1> USE DEF Inv
  <1>1. /\ pc = "next" /\ pc' = "nextcall" /\ index \in DOMAIN next[1 - current]
        /\ current \in {0, 1} /\ pend = <<>>
        /\ e \in [gen : Nat, user : Nat]
        /\ UNCHANGED <<pool, user, sq, pend, kernel, cq, next, current, index, shots>>
    BY NextCallFacts
  <1>2. g \in DOMAIN ops /\ ops[g].at = "next" /\ ops[g].user = e.user /\ g \in Open
    BY NextCallFacts
  <1>3. PICK how \in {"issue", "cancel"} :
          /\ how = "cancel" <=> ops[g].status \in {"cancelled", "closed"}
          /\ cur' = [gen |-> g, user |-> e.user, more |-> FALSE, notif |-> FALSE,
                     callback |-> Callback(g, how)]
          /\ ops'[g].status = IF how = "issue" THEN "done" ELSE "closed"
    BY NextCallFacts
  <1>4. /\ ops' \in Seq(OperationType)
        /\ DOMAIN ops' = DOMAIN ops
        /\ \A n \in DOMAIN ops :
              /\ ops'[n].user = ops[n].user
              /\ ops'[n].kind = ops[n].kind
              /\ ops'[n].at = ops[n].at
              /\ n # g => ops'[n] = ops[n]
    BY NextCallFacts
  <1> HIDE DEF e, g
  <1>5. /\ cur' \in [gen : Nat, user : Nat, more : BOOLEAN, notif : BOOLEAN, callback : Callbacks]
        /\ cur'.gen = g /\ cur'.user = e.user /\ ~ cur'.more
        /\ cur'.callback.of = g
    BY <1>1, <1>3 DEF Callback, Callbacks, g
  <1>6. /\ ops' \in Seq(OperationType)
        /\ DOMAIN ops' = DOMAIN ops
        /\ \A n \in DOMAIN ops :
              /\ ops'[n].user = ops[n].user
              /\ ops'[n].kind = ops[n].kind
              /\ ops'[n].at = ops[n].at
              /\ n # g => ops'[n].status = ops[n].status
        /\ ops'[g].status = IF how = "issue" THEN "done" ELSE "closed"
    BY <1>3, <1>4
  <1>7. PoolExact' /\ Open' = Open
    BY <1>1, <1>6, SameUsersPool
  <1>8. TypeOK'
    BY <1>1, <1>5, <1>6 DEF TypeOK
  <1>9. SqPlaces' /\ PendPlaces' /\ KernelPlaces' /\ CqPlaces'
    BY <1>1, <1>6, SMTT(60) DEF Places, SqPlaces, PendPlaces, KernelPlaces, CqPlaces, Owns
  <1>10. NextPlaces'
    <2>1. NextPlaces
      BY DEF Places
    <2> QED BY SMTT(60), <1>1, <1>6, <2>1 DEF NextPlaces, Owns
  <1>11. CurPlaces'
    BY <1>1, <1>2, <1>5, <1>6 DEF CurPlaces, Owns, e, g
  <1>12. Unique' /\ NextInOrder' /\ Phase' /\ Aimed' /\ CallbackBelongs'
    BY <1>1, <1>5 DEF Unique, NextInOrder, Phase, Aimed, Means, CallbackBelongs
  <1>13. Stored'
    <2> SUFFICES ASSUME NEW n \in Open
                 PROVE  /\ ops'[n].user \in DOMAIN user
                        /\ user[ops'[n].user] =
                             Callback(n, IF ops'[n].status \in {"cancelled", "closed"}
                                           THEN "cancel" ELSE "issue")
      BY <1>1, <1>7 DEF Stored
    <2>1. ops'[n].status \in {"cancelled", "closed"} <=> ops[n].status \in {"cancelled", "closed"}
      BY <1>3, <1>6 DEF Open
    <2> QED BY <1>6, <2>1 DEF Stored, Open
  <1>14. Ended'
    <2>1. /\ \A k \in kernel : k.gen \in DOMAIN ops /\ k.gen # g
          /\ \A i \in DOMAIN cq : cq[i].gen \in DOMAIN ops /\ cq[i].gen # g
          /\ \A i \in DOMAIN sq : sq[i].gen \in DOMAIN ops
          /\ \A i \in DOMAIN pend : pend[i].gen \in DOMAIN ops
      BY <1>2 DEF Places, KernelPlaces, CqPlaces, SqPlaces, PendPlaces, Owns
    <2>2. \A n \in DOMAIN ops' :
            ops'[n].at \in {"call", "free"} => ops'[n].status \in {"done", "closed"}
      BY <1>6 DEF Ended
    <2>3. pc' = "nextcall" => ops'[cur'.gen].status \in {"done", "closed"}
      BY <1>5, <1>6
    <2> QED BY SMTT(60), <1>1, <1>6, <2>1, <2>2, <2>3 DEF Ended
  <1> QED BY <1>7, <1>8, <1>9, <1>10, <1>11, <1>12, <1>13, <1>14 DEF Places

\* reactor_free_user() of an operation in use takes it, and nothing else, out
\* of use.
LEMMA FreeUserPool ==
  ASSUME TypeOK, PoolExact, NEW e, e.gen \in Open, ops[e.gen].user = e.user, FreeUser(e)
  PROVE  /\ PoolExact'
         /\ Open' = Open \ {e.gen}
         /\ pool'.size = pool.size /\ pool' \in PoolType
         /\ ops' \in Seq(OperationType)
         /\ DOMAIN ops' = DOMAIN ops
         /\ \A n \in DOMAIN ops :
              /\ ops'[n].user = ops[n].user
              /\ ops'[n].kind = ops[n].kind
              /\ ops'[n].status = ops[n].status
              /\ ops'[n].at = IF n = e.gen THEN "free" ELSE ops[n].at
  <1> DEFINE used == {ops[n].user : n \in Open}
  <1>1. e.gen \in DOMAIN ops /\ ops' = [ops EXCEPT ![e.gen].at = "free"] /\ pool' = PoolFree(pool, e.user)
    BY DEF FreeUser, Open
  <1>2. /\ ops' \in Seq(OperationType)
        /\ DOMAIN ops' = DOMAIN ops
        /\ \A n \in DOMAIN ops :
              /\ ops'[n].user = ops[n].user
              /\ ops'[n].kind = ops[n].kind
              /\ ops'[n].status = ops[n].status
              /\ ops'[n].at = IF n = e.gen THEN "free" ELSE ops[n].at
    BY ZenonT(60), <1>1, MovedFacts
  <1>3. Open' = Open \ {e.gen}
    BY <1>1, <1>2 DEF Open
  <1>4. \A m, n \in Open : ops[m].user = ops[n].user => m = n
    BY DEF PoolExact
  <1>5. {ops'[n].user : n \in Open'} = used \ {e.user}
    BY <1>2, <1>3, <1>4 DEF Open
  <1>6. e.user \in used
    OBVIOUS
  <1>7. PoolInv(pool, used)
    BY DEF PoolExact
  <1> HIDE DEF used
  <1>8. pool'.size = pool.size /\ PoolInv(pool', used \ {e.user})
    BY <1>1, <1>6, <1>7, PoolFreeInv
  <1>9. pool' \in PoolType
    BY <1>8 DEF PoolInv
  <1>10. \A m, n \in Open' : ops'[m].user = ops'[n].user => m = n
    BY <1>2, <1>3, <1>4 DEF Open
  <1>11. PoolExact'
    BY <1>5, <1>8, <1>10 DEF PoolExact
  <1> QED BY <1>2, <1>3, <1>8, <1>9, <1>11

\* The type of a scheduled call.
LEMMA NextGens ==
  ASSUME TypeOK, NEW v \in {0, 1}, NEW i \in DOMAIN next[v]
  PROVE  i \in Nat /\ next[v][i].gen \in Nat
  <1> DEFINE s == next[v]
  <1>1. s \in Seq([gen : Nat, user : Nat])
    BY DEF TypeOK
  <1> HIDE DEF s
  <1>2. i \in 1 .. Len(s) /\ Len(s) \in Nat
    BY <1>1, LenProperties DEF s
  <1>3. s[i] \in [gen : Nat, user : Nat]
    BY <1>1, <1>2, ElementOfSeq
  <1> QED BY <1>2, <1>3 DEF s

\* A scheduled call returns and its user is given back.
LEMMA NextReturnInv ==
  ASSUME Inv, NextReturn
  PROVE  Inv'
  <1> DEFINE g == cur.gen
  <1> USE DEF Inv
  <1>1. /\ pc = "nextcall" /\ pc' = "next" /\ pend = <<>> /\ cur' = NoEntry
        /\ index' = index + 1 /\ FreeUser(cur) /\ index \in Nat /\ current \in {0, 1}
        /\ UNCHANGED <<user, sq, pend, kernel, cq, next, current, shots>>
    BY DEF NextReturn, TypeOK
  <1>2. /\ g \in DOMAIN ops /\ ops[g].at = "next" /\ ops[g].user = cur.user /\ g \in Open
        /\ ops[g].status \in {"done", "closed"}
        /\ index \in DOMAIN next[1 - current] /\ g = next[1 - current][index].gen
    BY <1>1 DEF Places, CurPlaces, Owns, Open, Ended
  <1>3. /\ PoolExact'
        /\ Open' = Open \ {g}
        /\ pool'.size = pool.size /\ pool' \in PoolType
        /\ ops' \in Seq(OperationType)
        /\ DOMAIN ops' = DOMAIN ops
        /\ \A n \in DOMAIN ops :
              /\ ops'[n].user = ops[n].user
              /\ ops'[n].kind = ops[n].kind
              /\ ops'[n].status = ops[n].status
              /\ ops'[n].at = IF n = g THEN "free" ELSE ops[n].at
    BY <1>1, <1>2, FreeUserPool
  <1> HIDE DEF g
  <1>4. TypeOK'
    <2>1. cur' \in [gen : Nat, user : Nat, more : BOOLEAN, notif : BOOLEAN, callback : Callbacks]
      BY <1>1 DEF NoEntry, Callback, Callbacks
    <2> QED BY <1>1, <1>3, <2>1 DEF TypeOK
  <1>5. SqPlaces' /\ PendPlaces' /\ KernelPlaces' /\ CqPlaces' /\ CurPlaces'
    BY <1>1, <1>2, <1>3, SMTT(60)
       DEF Places, SqPlaces, PendPlaces, KernelPlaces, CqPlaces, CurPlaces, Owns
  <1>6. NextPlaces'
    <2>1. NextPlaces
      BY DEF Places
    <2>2. next[1 - current] \in Seq([gen : Nat, user : Nat]) /\ next[current] \in Seq([gen : Nat, user : Nat])
      BY DEF TypeOK
    <2>5. /\ \A i \in DOMAIN next[current] : next[current][i].gen \in Nat
          /\ \A i \in DOMAIN next[1 - current] : next[1 - current][i].gen \in Nat
      BY <1>1, NextGens
    <2>3. \A i \in DOMAIN next[current] : next[current][i].gen # g
      BY <1>2, <2>5 DEF NextInOrder
    <2>4. ASSUME NEW i \in DOMAIN next[1 - current], i >= index + 1
          PROVE  i >= index /\ next[1 - current][i].gen # g
      <3>1. i \in Nat /\ i > index
        BY <1>1, <2>2, <2>4, SMTT(60)
      <3>2. g < next[1 - current][i].gen
        BY <1>1, <1>2, <3>1 DEF NextInOrder
      <3>3. g \in Nat /\ next[1 - current][i].gen \in Nat
        BY <1>2, <2>5
      <3> QED BY <1>1, <3>1, <3>2, <3>3
    <2> QED BY <1>1, <1>3, <2>1, <2>3, <2>4, SMTT(60) DEF NextPlaces, Owns
  <1>7. Unique' /\ NextInOrder' /\ Phase' /\ Aimed' /\ CallbackBelongs'
    BY <1>1 DEF Unique, NextInOrder, Phase, Aimed, Means, CallbackBelongs
  <1>8. Stored'
    BY <1>1, <1>3 DEF Stored, Open
  <1>9. Ended'
    <2>1. /\ \A k \in kernel : k.gen \in DOMAIN ops
          /\ \A i \in DOMAIN cq : cq[i].gen \in DOMAIN ops
          /\ \A i \in DOMAIN sq : sq[i].gen \in DOMAIN ops
          /\ \A i \in DOMAIN pend : pend[i].gen \in DOMAIN ops
      BY DEF Places, KernelPlaces, CqPlaces, SqPlaces, PendPlaces, Owns
    <2>2. \A n \in DOMAIN ops' :
            ops'[n].at \in {"call", "free"} => ops'[n].status \in {"done", "closed"}
      BY <1>2, <1>3 DEF Ended
    <2>3. /\ \A k \in kernel' :
               k.op = "notif" /\ ops'[k.gen].status \in {"pending", "cancelled"} =>
                 \E i \in DOMAIN cq' : cq'[i].gen = k.gen /\ ~ cq'[i].notif
          /\ \A j \in DOMAIN cq' :
               cq'[j].notif /\ ops'[cq'[j].gen].status \in {"pending", "cancelled"} =>
                 \E i \in DOMAIN cq' : i < j /\ cq'[i].gen = cq'[j].gen /\ ~ cq'[i].notif
      BY <1>1, <1>3, <2>1 DEF Ended
    <2>4. \A k \in kernel' : k.op \in {"zc", "notif"} <=> ops'[k.gen].kind = "zc"
      BY <1>1, <1>3, <2>1 DEF Ended
    <2>5. /\ \A i \in DOMAIN sq' : sq'[i].op = ops'[sq'[i].gen].kind /\ sq'[i].op # "next"
          /\ \A i \in DOMAIN pend' : pend'[i].op = ops'[pend'[i].gen].kind /\ pend'[i].op # "next"
      BY <1>1, <1>3, <2>1 DEF Ended
    <2>6. \A i \in DOMAIN cq' : cq'[i].notif => ~ cq'[i].more /\ ops'[cq'[i].gen].kind = "zc"
      BY <1>1, <1>3, <2>1 DEF Ended
    <2> QED BY <1>1, <2>2, <2>3, <2>4, <2>5, <2>6 DEF Ended
  <1> QED BY <1>3, <1>4, <1>5, <1>6, <1>7, <1>8, <1>9 DEF Places

\* A callback returns; its user is given back unless more is to come.
LEMMA CqeReturnInv ==
  ASSUME Inv, CqeReturn
  PROVE  Inv'
  <1> USE DEF Inv
  <1>1. /\ pc = "call" /\ pc' = "cqe" /\ pend = <<>> /\ cur' = NoEntry
        /\ UNCHANGED <<user, sq, pend, kernel, cq, next, current, index, shots>>
        /\ next[1 - current] = <<>>
    BY DEF CqeReturn, Phase
  <1>2. cur' \in [gen : Nat, user : Nat, more : BOOLEAN, notif : BOOLEAN, callback : Callbacks]
    BY <1>1 DEF NoEntry, Callback, Callbacks
  <1>3. Unique' /\ NextInOrder' /\ Phase' /\ Aimed' /\ CallbackBelongs'
    BY <1>1 DEF Unique, NextInOrder, Phase, Aimed, Means, CallbackBelongs
  <1>4. CASE cur.more
    <2>1. UNCHANGED <<pool, ops>>
      BY <1>4 DEF CqeReturn
    <2>2. TypeOK'
      BY <1>1, <1>2, <2>1 DEF TypeOK
    <2>3. Places'
      BY <1>1, <2>1
         DEF Places, SqPlaces, PendPlaces, KernelPlaces, CqPlaces, NextPlaces, CurPlaces, Owns
    <2>4. PoolExact' /\ Stored' /\ Ended'
      BY <1>1, <2>1 DEF PoolExact, Open, Stored, Ended
    <2> QED BY <1>3, <2>2, <2>3, <2>4
  <1>5. CASE ~ cur.more
    <2> DEFINE g == cur.gen
    <2>1. /\ g \in DOMAIN ops /\ ops[g].at = "call" /\ ops[g].user = cur.user /\ g \in Open
          /\ FreeUser(cur) /\ ops[g].status \in {"done", "closed"}
      BY <1>1, <1>5 DEF Places, CurPlaces, Owns, Open, CqeReturn, Ended
    <2>2. /\ PoolExact'
          /\ Open' = Open \ {g}
          /\ pool'.size = pool.size /\ pool' \in PoolType
          /\ ops' \in Seq(OperationType)
          /\ DOMAIN ops' = DOMAIN ops
          /\ \A n \in DOMAIN ops :
                /\ ops'[n].user = ops[n].user
                /\ ops'[n].kind = ops[n].kind
                /\ ops'[n].status = ops[n].status
                /\ ops'[n].at = IF n = g THEN "free" ELSE ops[n].at
      BY <2>1, FreeUserPool
    <2> HIDE DEF g
    <2>3. TypeOK'
      BY <1>1, <1>2, <2>2 DEF TypeOK
    <2>4. SqPlaces' /\ PendPlaces' /\ KernelPlaces'
      BY SMTT(60), <1>1, <2>1, <2>2 DEF Places, SqPlaces, PendPlaces, KernelPlaces, Owns
    <2>8. CqPlaces' /\ CurPlaces'
      BY <1>1, <2>1, <2>2 DEF Places, CqPlaces, CurPlaces, Owns
    <2>5. NextPlaces'
      <3>1. /\ \A i \in DOMAIN next[current] : Owns(next[current][i], {"next"})
            /\ DOMAIN next[1 - current] = {}
        BY <1>1 DEF Places, NextPlaces
      <3>2. \A i \in DOMAIN next'[current'] : Owns(next[current][i], {"next"})'
        BY <1>1, <2>1, <2>2, <3>1 DEF Owns
      <3> QED BY <1>1, <3>1, <3>2 DEF NextPlaces
    <2>6. Stored'
      BY <1>1, <2>2 DEF Stored, Open
    <2>7. Ended'
      <3>1. /\ \A k \in kernel : k.gen \in DOMAIN ops
            /\ \A i \in DOMAIN cq : cq[i].gen \in DOMAIN ops
            /\ \A i \in DOMAIN sq : sq[i].gen \in DOMAIN ops
            /\ \A i \in DOMAIN pend : pend[i].gen \in DOMAIN ops
        BY DEF Places, KernelPlaces, CqPlaces, SqPlaces, PendPlaces, Owns
      <3>2. \A n \in DOMAIN ops' :
              ops'[n].at \in {"call", "free"} => ops'[n].status \in {"done", "closed"}
        BY <2>1, <2>2 DEF Ended
      <3> QED BY <1>1, <2>2, <3>1, <3>2 DEF Ended
    <2> QED BY <1>3, <2>2, <2>3, <2>4, <2>5, <2>6, <2>7, <2>8 DEF Places
  <1> QED BY <1>4, <1>5
\* The history with one operation moved to another place.
LEMMA AtFacts ==
  ASSUME NEW told \in Seq(OperationType), NEW g \in DOMAIN told,
         NEW place \in {"pend", "sq", "kernel", "cq", "call", "next", "free"}
  PROVE  LET moved == [told EXCEPT ![g].at = place]
         IN  /\ moved \in Seq(OperationType)
             /\ DOMAIN moved = DOMAIN told
             /\ \A n \in DOMAIN told :
                  /\ moved[n].user = told[n].user
                  /\ moved[n].kind = told[n].kind
                  /\ moved[n].status = told[n].status
                  /\ moved[n].calls = told[n].calls
                  /\ moved[n].cancelCalls = told[n].cancelCalls
                  /\ moved[n].at = IF n = g THEN place ELSE told[n].at
  <1> DEFINE moved == [told EXCEPT ![g].at = place]
  <1>1. DOMAIN told = 1 .. Len(told) /\ Len(told) \in Nat
    OBVIOUS
  <1>2. told \in [1 .. Len(told) -> OperationType]
    BY <1>1
  <1>3. moved \in [1 .. Len(told) -> OperationType]
    BY <1>1, <1>2, ZenonT(60) DEF OperationType
  <1>4. moved \in Seq(OperationType)
    BY <1>1, <1>3
  <1> QED BY <1>1, <1>2, <1>3, <1>4, ZenonT(60) DEF OperationType

\* What a completion at the head of the queue does to the history: it reaches
\* a callback of the operation that it completes, unless it is a notification.
LEMMA CqeCallFacts ==
  ASSUME Inv, CqeCall
  PROVE  LET c == Head(cq)
             g == c.gen
             zc == ops[g].kind = "zc"
         IN  /\ c = cq[1] /\ 1 \in DOMAIN cq /\ c \in CqeType
             /\ g \in Open /\ g \in DOMAIN ops /\ ops[g].user = c.user
             /\ ops[g].at \in (IF c.more THEN {"kernel", "cq"} ELSE {"cq"})
             /\ \E how \in {"issue", "cancel"} :
                  /\ how = "cancel" <=> ops[g].status \in {"cancelled", "closed"}
                  /\ cur' = [gen |-> g, user |-> c.user, more |-> c.more,
                             notif |-> c.notif, callback |-> Callback(g, how)]
                  /\ ~ c.notif /\ (~ c.more \/ zc) =>
                       ops'[g].status = IF how = "issue" THEN "done" ELSE "closed"
                  /\ c.notif \/ (c.more /\ ~ zc) => ops'[g].status = ops[g].status
                  /\ ops'[g].calls =
                       IF ~ c.notif /\ how = "issue" THEN ops[g].calls + 1 ELSE ops[g].calls
                  /\ ops'[g].cancelCalls =
                       IF ~ c.notif /\ how = "cancel" THEN ops[g].cancelCalls + 1 ELSE ops[g].cancelCalls
             /\ ops' \in Seq(OperationType)
             /\ DOMAIN ops' = DOMAIN ops
             /\ \A n \in DOMAIN ops :
                  /\ ops'[n].user = ops[n].user
                  /\ ops'[n].kind = ops[n].kind
                  /\ ops'[n].at = IF n = g /\ ~ c.more THEN "call" ELSE ops[n].at
                  /\ n # g => /\ ops'[n].status = ops[n].status
                              /\ ops'[n].calls = ops[n].calls
                              /\ ops'[n].cancelCalls = ops[n].cancelCalls
  <1> DEFINE c == Head(cq)
             g == c.gen
             zc == ops[g].kind = "zc"
  <1> USE DEF Inv
  <1>1. c = cq[1] /\ 1 \in DOMAIN cq /\ c \in CqeType
    <2>1. cq \in Seq(CqeType) /\ cq # <<>>
      BY Zenon DEF TypeOK, CqeCall
    <2> QED BY <2>1, TailCases
  <1>2. /\ g \in Open /\ g \in DOMAIN ops /\ ops[g].user = c.user
        /\ ops[g].at \in (IF c.more THEN {"kernel", "cq"} ELSE {"cq"})
    BY <1>1 DEF Places, CqPlaces, Owns, Open
  <1>3. PICK how \in {"issue", "cancel"} :
           /\ user[c.user] = Callback(g, how)
           /\ how = "cancel" <=> ops[g].status \in {"cancelled", "closed"}
    BY <1>2, StoredFacts
  <1> DEFINE last == ~ c.more \/ zc
             inv == Invoke(Callback(g, how), last)
             told == IF c.notif THEN ops ELSE inv
  <1>4. Callback(g, how).of = g
    BY DEF Callback
  <1>5. /\ cur' = [gen |-> g, user |-> c.user, more |-> c.more,
                   notif |-> c.notif, callback |-> Callback(g, how)]
        /\ ops' = IF c.more THEN told ELSE [told EXCEPT ![g].at = "call"]
    BY <1>3, <1>4, Zenon DEF CqeCall
  <1>6. last \in BOOLEAN /\ c.more \in BOOLEAN /\ c.notif \in BOOLEAN
    BY <1>1 DEF CqeType
  <1> HIDE DEF c, g, zc, last
  <1>7. /\ inv \in Seq(OperationType)
        /\ DOMAIN inv = DOMAIN ops
        /\ \A n \in DOMAIN ops :
             /\ inv[n].user = ops[n].user
             /\ inv[n].kind = ops[n].kind
             /\ inv[n].at = ops[n].at
             /\ n # g => inv[n] = ops[n]
        /\ inv[g].status = IF ~ last THEN ops[g].status
                            ELSE IF how = "issue" THEN "done" ELSE "closed"
        /\ inv[g].calls = IF how = "issue" THEN ops[g].calls + 1 ELSE ops[g].calls
        /\ inv[g].cancelCalls =
             IF how = "cancel" THEN ops[g].cancelCalls + 1 ELSE ops[g].cancelCalls
    BY <1>2, <1>6, InvokeFacts
  <1> HIDE DEF inv
  <1>8. /\ told \in Seq(OperationType)
        /\ DOMAIN told = DOMAIN ops
        /\ \A n \in DOMAIN ops :
             /\ told[n].user = ops[n].user
             /\ told[n].kind = ops[n].kind
             /\ told[n].at = ops[n].at
             /\ n # g => told[n] = ops[n]
        /\ told[g].status = IF c.notif \/ ~ last THEN ops[g].status
                            ELSE IF how = "issue" THEN "done" ELSE "closed"
        /\ told[g].calls =
             IF ~ c.notif /\ how = "issue" THEN ops[g].calls + 1 ELSE ops[g].calls
        /\ told[g].cancelCalls =
             IF ~ c.notif /\ how = "cancel" THEN ops[g].cancelCalls + 1 ELSE ops[g].cancelCalls
    <2>1. CASE c.notif
      BY <2>1 DEF TypeOK
    <2>2. CASE ~ c.notif
      BY <1>7, <2>2
    <2> QED BY <2>1, <2>2
  <1> HIDE DEF told
  <1>9. /\ ops' \in Seq(OperationType)
        /\ DOMAIN ops' = DOMAIN told
        /\ \A n \in DOMAIN told :
             /\ ops'[n].user = told[n].user
             /\ ops'[n].kind = told[n].kind
             /\ ops'[n].status = told[n].status
             /\ ops'[n].calls = told[n].calls
             /\ ops'[n].cancelCalls = told[n].cancelCalls
             /\ ops'[n].at = IF n = g /\ ~ c.more THEN "call" ELSE told[n].at
    <2>1. CASE c.more
      BY <1>5, <1>8, <2>1
    <2>2. CASE ~ c.more
      <3>1. ops' = [told EXCEPT ![g].at = "call"]
        BY <1>5, <2>2
      <3> DEFINE moved == [told EXCEPT ![g].at = "call"]
      <3>2. /\ moved \in Seq(OperationType)
            /\ DOMAIN moved = DOMAIN told
            /\ \A n \in DOMAIN told :
                 /\ moved[n].user = told[n].user
                 /\ moved[n].kind = told[n].kind
                 /\ moved[n].status = told[n].status
                 /\ moved[n].calls = told[n].calls
                 /\ moved[n].cancelCalls = told[n].cancelCalls
                 /\ moved[n].at = IF n = g THEN "call" ELSE told[n].at
        BY <1>2, <1>8, AtFacts, ZenonT(60)
      <3> HIDE DEF moved
      <3>3. ops' = moved
        BY <3>1 DEF moved
      <3> QED BY <2>2, <3>2, <3>3
    <2> QED BY <2>1, <2>2
  <1>10. /\ ops' \in Seq(OperationType)
         /\ DOMAIN ops' = DOMAIN ops
         /\ \A n \in DOMAIN ops :
              /\ ops'[n].user = ops[n].user
              /\ ops'[n].kind = ops[n].kind
              /\ ops'[n].at = IF n = g /\ ~ c.more THEN "call" ELSE ops[n].at
              /\ n # g => /\ ops'[n].status = ops[n].status
                          /\ ops'[n].calls = ops[n].calls
                          /\ ops'[n].cancelCalls = ops[n].cancelCalls
    BY <1>8, <1>9
  <1>11. /\ ~ c.notif /\ (~ c.more \/ zc) =>
              ops'[g].status = IF how = "issue" THEN "done" ELSE "closed"
         /\ c.notif \/ (c.more /\ ~ zc) => ops'[g].status = ops[g].status
         /\ ops'[g].calls =
              IF ~ c.notif /\ how = "issue" THEN ops[g].calls + 1 ELSE ops[g].calls
         /\ ops'[g].cancelCalls =
              IF ~ c.notif /\ how = "cancel" THEN ops[g].cancelCalls + 1 ELSE ops[g].cancelCalls
    BY <1>2, <1>8, <1>9 DEF last
  <1> QED BY <1>1, <1>2, <1>3, <1>5, <1>10, <1>11 DEF c, g, zc

\* A completion is handed to the callback of its operation.
LEMMA CqeCallInv ==
  ASSUME Inv, CqeCall
  PROVE  Inv'
  <1> DEFINE c == Head(cq)
             g == c.gen
             zc == ops[g].kind = "zc"
  <1> USE DEF Inv
  <1>1. /\ c = cq[1] /\ 1 \in DOMAIN cq /\ c \in CqeType
        /\ g \in Open /\ g \in DOMAIN ops /\ ops[g].user = c.user
        /\ ops[g].at \in (IF c.more THEN {"kernel", "cq"} ELSE {"cq"})
        /\ ops' \in Seq(OperationType)
        /\ DOMAIN ops' = DOMAIN ops
        /\ \A n \in DOMAIN ops :
             /\ ops'[n].user = ops[n].user
             /\ ops'[n].kind = ops[n].kind
             /\ ops'[n].at = IF n = g /\ ~ c.more THEN "call" ELSE ops[n].at
             /\ n # g => ops'[n].status = ops[n].status
    BY CqeCallFacts
  <1>2. PICK how \in {"issue", "cancel"} :
          /\ how = "cancel" <=> ops[g].status \in {"cancelled", "closed"}
          /\ cur' = [gen |-> g, user |-> c.user, more |-> c.more,
                     notif |-> c.notif, callback |-> Callback(g, how)]
          /\ ~ c.notif /\ (~ c.more \/ zc) =>
               ops'[g].status = IF how = "issue" THEN "done" ELSE "closed"
          /\ c.notif \/ (c.more /\ ~ zc) => ops'[g].status = ops[g].status
    BY CqeCallFacts
  <1>3. /\ cq' \in Seq(CqeType)
        /\ \A i \in DOMAIN cq' :
             i \in Nat /\ i + 1 \in DOMAIN cq /\ cq'[i] = cq[i + 1] /\ 1 < i + 1
        /\ \A i \in DOMAIN cq : i \in Nat /\ (i = 1 \/ (i - 1 \in DOMAIN cq' /\ cq'[i - 1] = cq[i]))
    <2>1. cq \in Seq(CqeType) /\ cq # <<>> /\ cq' = Tail(cq)
      BY Zenon DEF TypeOK, CqeCall
    <2> QED BY <2>1, TailCases
  <1>4. /\ pc = "cqe" /\ pc' = "call" /\ pend = <<>> /\ next[1 - current] = <<>>
        /\ current \in {0, 1}
        /\ UNCHANGED <<pool, user, sq, pend, kernel, next, current, index, shots>>
    BY Zenon DEF CqeCall, Phase, TypeOK
  <1> HIDE DEF c, g, zc
  <1>5. c.more \in BOOLEAN /\ c.notif \in BOOLEAN /\ c.gen = g /\ g \in Nat /\ c.user \in Nat
    BY <1>1 DEF CqeType, g
  <1>6. /\ cur' \in [gen : Nat, user : Nat, more : BOOLEAN, notif : BOOLEAN, callback : Callbacks]
        /\ cur'.gen = g /\ cur'.user = c.user /\ (cur'.more <=> c.more)
        /\ cur'.callback.of = g
    BY <1>2, <1>5 DEF Callback, Callbacks
  <1>7. c.notif => ~ c.more /\ zc /\ ops[g].status \notin {"pending", "cancelled"}
    <2>1. ASSUME c.notif, ops[g].status \in {"pending", "cancelled"} PROVE FALSE
      <3>1. PICK i \in DOMAIN cq : i < 1 /\ cq[i].gen = g
        BY <1>1, <1>5, <2>1 DEF Ended
      <3> QED BY <1>3, <3>1, <1>4 DEF TypeOK
    <2>2. c.notif => ~ c.more /\ zc
      BY <1>1, <1>5 DEF Ended, zc
    <2> QED BY <2>1, <2>2
  <1>8. ops[g].status \in {"pending", "done", "cancelled", "closed"}
    <2>1. ops \in Seq(OperationType)
      BY DEF TypeOK
    <2>2. ops[g] \in OperationType
      BY <1>1, <2>1
    <2> QED BY <2>2 DEF OperationType
  <1>9. ~ c.more \/ zc => ops'[g].status \in {"done", "closed"}
    BY <1>2, <1>7, <1>8
  <1>10. ops'[g].status \in {"cancelled", "closed"} <=> ops[g].status \in {"cancelled", "closed"}
    BY <1>2, <1>7, <1>8
  <1>11. PoolExact' /\ Open' = Open
    BY <1>1, <1>4, SameUsersPool
  <1>12. TypeOK'
    BY <1>1, <1>3, <1>4, <1>6 DEF TypeOK
  <1>13. SqPlaces' /\ PendPlaces'
    BY <1>1, <1>4 DEF Places, SqPlaces, PendPlaces, Owns
  <1>14. KernelPlaces'
    BY <1>1, <1>4 DEF Places, KernelPlaces, Owns
  <1>15. CqPlaces'
    <2> SUFFICES ASSUME NEW i \in DOMAIN cq'
                 PROVE  /\ cq'[i].gen \in DOMAIN ops' /\ ops'[cq'[i].gen].user = cq'[i].user
                        /\ ops'[cq'[i].gen].at \in
                             (IF cq'[i].more THEN {"kernel", "cq"} ELSE {"cq"})
      BY DEF CqPlaces, Owns
    <2> DEFINE d == cq[i + 1]
    <2>1. d.gen = g => c.more
      BY <1>1, <1>3, <1>5 DEF Unique
    <2>2. Owns(d, IF d.more THEN {"kernel", "cq"} ELSE {"cq"}) /\ cq'[i] = d
      BY <1>3 DEF Places, CqPlaces
    <2> HIDE DEF d
    <2>3. /\ d.gen \in DOMAIN ops /\ ops[d.gen].user = d.user
          /\ ops[d.gen].at \in (IF d.more THEN {"kernel", "cq"} ELSE {"cq"})
      BY <2>2 DEF Owns
    <2>4. /\ d.gen \in DOMAIN ops' /\ ops'[d.gen].user = d.user
          /\ ops'[d.gen].at = ops[d.gen].at
      BY <1>1, <2>1, <2>3
    <2> QED BY <2>2, <2>3, <2>4
  <1>16. NextPlaces'
    <2>1. /\ \A i \in DOMAIN next[current] : Owns(next[current][i], {"next"})
          /\ DOMAIN next[1 - current] = {}
      BY <1>4 DEF Places, NextPlaces
    <2>2. \A i \in DOMAIN next'[current'] : Owns(next[current][i], {"next"})'
      BY <1>1, <1>4, <2>1 DEF Owns
    <2> QED BY <1>4, <2>1, <2>2 DEF NextPlaces
  <1>17. CurPlaces'
    BY <1>1, <1>4, <1>6 DEF CurPlaces, Owns
  <1>18. Unique'
    <2>1. ASSUME NEW i \in DOMAIN cq', NEW j \in DOMAIN cq', i < j, cq'[i].gen = cq'[j].gen
          PROVE  cq'[i].more
      <3>1. /\ i + 1 \in DOMAIN cq /\ j + 1 \in DOMAIN cq /\ i + 1 < j + 1
            /\ cq'[i] = cq[i + 1] /\ cq'[j] = cq[j + 1]
        BY <1>3, <2>1
      <3> QED BY <2>1, <3>1 DEF Unique
    <2> QED BY <1>4, <2>1 DEF Unique
  <1>19. NextInOrder' /\ Phase' /\ Aimed' /\ CallbackBelongs'
    BY <1>4, <1>6 DEF NextInOrder, Phase, Aimed, Means, CallbackBelongs
  <1>20. Stored'
    <2> SUFFICES ASSUME NEW n \in Open
                 PROVE  /\ ops'[n].user \in DOMAIN user
                        /\ user[ops'[n].user] =
                             Callback(n, IF ops'[n].status \in {"cancelled", "closed"}
                                           THEN "cancel" ELSE "issue")
      BY <1>4, <1>11 DEF Stored
    <2>1. ops'[n].status \in {"cancelled", "closed"} <=> ops[n].status \in {"cancelled", "closed"}
      BY <1>1, <1>10 DEF Open
    <2> QED BY <1>1, <2>1 DEF Stored, Open
  <1>21. Ended'
    <2>1. /\ \A k \in kernel : k.gen \in DOMAIN ops
          /\ \A i \in DOMAIN cq : cq[i].gen \in DOMAIN ops
          /\ \A i \in DOMAIN sq : sq[i].gen \in DOMAIN ops
          /\ \A i \in DOMAIN pend : pend[i].gen \in DOMAIN ops
      BY DEF Places, KernelPlaces, CqPlaces, SqPlaces, PendPlaces, Owns
    <2>2. ASSUME NEW n \in DOMAIN ops, ops[n].kind = "zc",
                 ops'[n].status \in {"pending", "cancelled"}
          PROVE  n # g /\ ops[n].status \in {"pending", "cancelled"}
      BY <1>1, <1>9, <2>2 DEF zc
    <2>3. \A k \in kernel' :
            k.op = "notif" /\ ops'[k.gen].status \in {"pending", "cancelled"} =>
              \E i \in DOMAIN cq' : cq'[i].gen = k.gen /\ ~ cq'[i].notif
      <3> TAKE k \in kernel'
      <3> HAVE k.op = "notif" /\ ops'[k.gen].status \in {"pending", "cancelled"}
      <3>1. k \in kernel /\ ops[k.gen].kind = "zc" /\ k.gen \in DOMAIN ops
        BY <1>4, <2>1 DEF Ended
      <3>2. k.gen # g /\ ops[k.gen].status \in {"pending", "cancelled"}
        BY <2>2, <3>1
      <3>3. PICK i \in DOMAIN cq : cq[i].gen = k.gen /\ ~ cq[i].notif
        BY <3>1, <3>2 DEF Ended
      <3>4. i - 1 \in DOMAIN cq' /\ cq'[i - 1] = cq[i]
        BY <1>1, <1>3, <1>5, <3>2, <3>3
      <3> QED BY <3>3, <3>4
    <2>4. \A j \in DOMAIN cq' :
            cq'[j].notif /\ ops'[cq'[j].gen].status \in {"pending", "cancelled"} =>
              \E i \in DOMAIN cq' : i < j /\ cq'[i].gen = cq'[j].gen /\ ~ cq'[i].notif
      <3> TAKE j \in DOMAIN cq'
      <3> DEFINE d == cq[j + 1]
      <3> HAVE cq'[j].notif /\ ops'[cq'[j].gen].status \in {"pending", "cancelled"}
      <3>1. /\ j \in Nat /\ j + 1 \in DOMAIN cq /\ cq'[j] = d
            /\ d.notif /\ ops[d.gen].kind = "zc" /\ d.gen \in DOMAIN ops
        BY <1>3, <2>1 DEF Ended
      <3>2. d.gen # g /\ ops[d.gen].status \in {"pending", "cancelled"}
        BY <2>2, <3>1
      <3>3. PICK i \in DOMAIN cq : i < j + 1 /\ cq[i].gen = d.gen /\ ~ cq[i].notif
        BY <3>1, <3>2 DEF Ended
      <3>4. i - 1 \in DOMAIN cq' /\ cq'[i - 1] = cq[i] /\ i \in Nat
        BY <1>1, <1>3, <1>5, <3>2, <3>3
      <3>5. i - 1 < j
        BY <3>1, <3>3, <3>4
      <3> QED BY <3>1, <3>3, <3>4, <3>5
    <2>5. \A k \in kernel' : k.op \in {"zc", "notif"} <=> ops'[k.gen].kind = "zc"
      BY <1>1, <1>4, <2>1 DEF Ended
    <2>6. /\ \A i \in DOMAIN sq' : sq'[i].op = ops'[sq'[i].gen].kind /\ sq'[i].op # "next"
          /\ \A i \in DOMAIN pend' : pend'[i].op = ops'[pend'[i].gen].kind /\ pend'[i].op # "next"
      BY <1>1, <1>4, <2>1 DEF Ended
    <2>7. \A i \in DOMAIN cq' : cq'[i].notif => ~ cq'[i].more /\ ops'[cq'[i].gen].kind = "zc"
      BY <1>1, <1>3, <2>1 DEF Ended
    <2>8. \A n \in DOMAIN ops' :
            ops'[n].at \in {"call", "free"} => ops'[n].status \in {"done", "closed"}
      BY <1>1, <1>9 DEF Ended
    <2> QED BY <1>4, <2>3, <2>4, <2>5, <2>6, <2>7, <2>8 DEF Ended
  <1> QED BY <1>11, <1>12, <1>13, <1>14, <1>15, <1>16, <1>17, <1>18, <1>19, <1>20, <1>21
       DEF Places

-----------------------------------------------------------------------------
(* The calls of the client *)

\* users and told are the callbacks and the history, with at most the client's
\* cancellation of a pending operation added to both.
Told(users, told) ==
  /\ told \in Seq(OperationType)
  /\ DOMAIN told = DOMAIN ops
  /\ \A m \in DOMAIN ops :
       /\ told[m].user = ops[m].user
       /\ told[m].kind = ops[m].kind
       /\ told[m].at = ops[m].at
       /\ told[m].calls = ops[m].calls
       /\ told[m].status \in {"pending", "cancelled"} <=> ops[m].status \in {"pending", "cancelled"}
       /\ told[m].status \in {"done", "closed"} <=> ops[m].status \in {"done", "closed"}
  /\ DOMAIN users \subseteq 1 .. pool.size
  /\ \A s \in DOMAIN users : users[s] \in Callbacks
  /\ \A m \in Open :
       /\ ops[m].user \in DOMAIN users
       /\ users[ops[m].user] =
            Callback(m, IF told[m].status \in {"cancelled", "closed"} THEN "cancel" ELSE "issue")

\* Without a cancellation.
LEMMA ToldSame ==
  ASSUME Inv
  PROVE  Told(user, ops)
  BY DEF Inv, Told, TypeOK, Stored

\* A pending operation that is not cancelled yet is in use: the client cannot
\* hold an address that was given back.
LEMMA HeldIsOpen ==
  ASSUME Inv, NEW g, Held(g)
  PROVE  g \in Open /\ g \in DOMAIN ops /\ g \in Nat /\ ops[g].user \in Nat
  <1>1. ops \in Seq(OperationType) /\ g \in DOMAIN ops
    BY DEF Inv, TypeOK, Held
  <1>2. ops[g] \in OperationType /\ g \in Nat
    BY <1>1
  <1>3. ops[g].at # "free"
    BY <1>1 DEF Inv, Ended, Held
  <1> QED BY <1>1, <1>2, <1>3 DEF Open, OperationType

\* With one.
LEMMA ToldCancelled ==
  ASSUME Inv, NEW g, Held(g)
  PROVE  Told(Define(user, ops[g].user, Callback(g, "cancel")),
              [ops EXCEPT ![g].status = "cancelled"])
  <1> DEFINE s == ops[g].user
             users == Define(user, s, Callback(g, "cancel"))
             told == [ops EXCEPT ![g].status = "cancelled"]
  <1>1. g \in Open /\ g \in DOMAIN ops /\ g \in Nat
    BY HeldIsOpen
  <1>2. ops \in Seq(OperationType) /\ DOMAIN ops = 1 .. Len(ops) /\ Len(ops) \in Nat
    BY DEF Inv, TypeOK
  <1>3. ops \in [1 .. Len(ops) -> OperationType]
    BY <1>2
  <1>4. told \in [1 .. Len(ops) -> OperationType]
    BY <1>1, <1>2, <1>3, ZenonT(60) DEF OperationType
  <1>5. told \in Seq(OperationType) /\ DOMAIN told = DOMAIN ops
    BY <1>2, <1>4
  <1>6. \A m \in DOMAIN ops :
          /\ told[m].user = ops[m].user
          /\ told[m].kind = ops[m].kind
          /\ told[m].at = ops[m].at
          /\ told[m].calls = ops[m].calls
          /\ told[m].status = IF m = g THEN "cancelled" ELSE ops[m].status
    BY SMTT(60), <1>1, <1>2, <1>3 DEF OperationType
  <1>7. ops[g].status = "pending"
    BY DEF Held
  <1> HIDE DEF told
  <1>8. s \in DOMAIN user
    BY <1>1 DEF Inv, Stored
  <1>9. /\ DOMAIN users = DOMAIN user
        /\ users[s] = Callback(g, "cancel")
        /\ \A x \in DOMAIN user : x # s => users[x] = user[x]
    BY <1>8 DEF Define
  <1>10. Callback(g, "cancel") \in Callbacks
    BY <1>1 DEF Callback, Callbacks
  <1> HIDE DEF s, users
  <1>11. DOMAIN users \subseteq 1 .. pool.size /\ \A x \in DOMAIN users : users[x] \in Callbacks
    BY <1>9, <1>10 DEF Inv, TypeOK
  <1>12. ASSUME NEW m \in Open
         PROVE  /\ ops[m].user \in DOMAIN users
                /\ users[ops[m].user] =
                     Callback(m, IF told[m].status \in {"cancelled", "closed"} THEN "cancel" ELSE "issue")
    <2>1. ops[m].user \in DOMAIN user /\ m \in DOMAIN ops
      BY DEF Inv, Stored, Open
    <2>2. CASE m = g
      BY <1>6, <1>9, <2>1, <2>2 DEF s
    <2>3. CASE m # g
      <3>1. ops[m].user # s
        BY <1>1, <2>3 DEF Inv, PoolExact, s
      <3> QED BY <1>6, <1>9, <2>1, <2>3, <3>1 DEF Inv, Stored
    <2> QED BY <2>2, <2>3
  <1>13. \A m \in DOMAIN ops :
          /\ told[m].status \in {"pending", "cancelled"} <=> ops[m].status \in {"pending", "cancelled"}
          /\ told[m].status \in {"done", "closed"} <=> ops[m].status \in {"done", "closed"}
    BY <1>6, <1>7
  <1>14. Told(users, told)
    BY <1>5, <1>6, <1>11, <1>12, <1>13 DEF Told
  <1> QED BY <1>14 DEF s, users, told

\* Cancelling changes callbacks only.
LEMMA CancelNextInv ==
  ASSUME Inv, NEW g, CancelNext(g)
  PROVE  Inv'
  <1>1. Told(user', ops')
    BY ToldCancelled DEF CancelNext
  <1>2. UNCHANGED <<pool, sq, pend, kernel, cq, next, current, pc, index, cur, shots>>
    BY DEF CancelNext
  <1>3. /\ ops' \in Seq(OperationType)
        /\ DOMAIN ops' = DOMAIN ops
        /\ \A m \in DOMAIN ops :
             /\ ops'[m].user = ops[m].user
             /\ ops'[m].kind = ops[m].kind
             /\ ops'[m].at = ops[m].at
             /\ ops'[m].status \in {"pending", "cancelled"} <=> ops[m].status \in {"pending", "cancelled"}
             /\ ops'[m].status \in {"done", "closed"} <=> ops[m].status \in {"done", "closed"}
    BY <1>1 DEF Told
  <1> USE DEF Inv
  <1>4. PoolExact' /\ Open' = Open
    BY <1>2, <1>3, SameUsersPool
  <1>5. TypeOK'
    BY <1>1, <1>2, <1>3 DEF TypeOK, Told
  <1>6. SqPlaces' /\ PendPlaces' /\ KernelPlaces' /\ CqPlaces'
    BY <1>2, <1>3 DEF Places, SqPlaces, PendPlaces, KernelPlaces, CqPlaces, Owns
  <1>7. NextPlaces'
    BY <1>2, <1>3 DEF Places, NextPlaces, Owns
  <1>8. CurPlaces'
    BY <1>2, <1>3 DEF Places, CurPlaces, Owns
  <1>9. Unique' /\ NextInOrder' /\ Phase' /\ Aimed' /\ CallbackBelongs'
    BY <1>2 DEF Unique, NextInOrder, Phase, Aimed, Means, CallbackBelongs
  <1>10. Stored'
    BY <1>1, <1>3, <1>4 DEF Stored, Told, Open
  <1>11. Ended'
    <2>1. /\ \A k \in kernel : k.gen \in DOMAIN ops
          /\ \A i \in DOMAIN cq : cq[i].gen \in DOMAIN ops
          /\ \A i \in DOMAIN sq : sq[i].gen \in DOMAIN ops
          /\ \A i \in DOMAIN pend : pend[i].gen \in DOMAIN ops
          /\ pc = "nextcall" => cur.gen \in DOMAIN ops
      BY DEF Places, KernelPlaces, CqPlaces, SqPlaces, PendPlaces, CurPlaces, Owns
    <2>2. /\ \A k \in kernel' :
               k.op = "notif" /\ ops'[k.gen].status \in {"pending", "cancelled"} =>
                 \E i \in DOMAIN cq' : cq'[i].gen = k.gen /\ ~ cq'[i].notif
          /\ \A j \in DOMAIN cq' :
               cq'[j].notif /\ ops'[cq'[j].gen].status \in {"pending", "cancelled"} =>
                 \E i \in DOMAIN cq' : i < j /\ cq'[i].gen = cq'[j].gen /\ ~ cq'[i].notif
      BY <1>2, <1>3, <2>1 DEF Ended
    <2>3. \A k \in kernel' : k.op \in {"zc", "notif"} <=> ops'[k.gen].kind = "zc"
      BY <1>2, <1>3, <2>1 DEF Ended
    <2>4. /\ \A i \in DOMAIN sq' : sq'[i].op = ops'[sq'[i].gen].kind /\ sq'[i].op # "next"
          /\ \A i \in DOMAIN pend' : pend'[i].op = ops'[pend'[i].gen].kind /\ pend'[i].op # "next"
          /\ \A i \in DOMAIN cq' : cq'[i].notif => ~ cq'[i].more /\ ops'[cq'[i].gen].kind = "zc"
      BY <1>2, <1>3, <2>1 DEF Ended
    <2>5. \A n \in DOMAIN ops' :
            ops'[n].at \in {"call", "free"} => ops'[n].status \in {"done", "closed"}
      BY <1>3 DEF Ended
    <2>6. pc' = "nextcall" => ops'[cur'.gen].status \in {"done", "closed"}
      BY <1>2, <1>3, <2>1 DEF Ended
    <2> QED BY <2>2, <2>3, <2>4, <2>5, <2>6 DEF Ended
  <1> QED BY <1>4, <1>5, <1>6, <1>7, <1>8, <1>9, <1>10, <1>11 DEF Places

\* A call that starts an operation: it is given a user that no operation in
\* use has, and whatever it does to a submission or to a vector, the rest of
\* the state is as good as before.
LEMMA GrownFacts ==
  ASSUME Inv, NEW users, NEW told, Told(users, told), NEW kind \in Kinds,
         NEW place \in {"pend", "sq", "next"},
         pool' = PoolMalloc(pool),
         user' = Define(users, PoolObject(pool), Callback(Len(ops) + 1, "issue")),
         ops' = Append(told, Operation(kind, PoolObject(pool), place))
  PROVE  LET n == Len(ops) + 1
             s == PoolObject(pool)
         IN  /\ n \in Nat /\ s \in Nat /\ n \notin DOMAIN ops
             /\ \A m \in DOMAIN ops : m \in Nat /\ m < n
             /\ ops' \in Seq(OperationType)
             /\ DOMAIN ops' = DOMAIN ops \cup {n}
             /\ ops'[n].user = s /\ ops'[n].kind = kind /\ ops'[n].at = place
             /\ ops'[n].status = "pending" /\ ops'[n].calls = 0 /\ ops'[n].cancelCalls = 0
             /\ \A m \in DOMAIN ops : ops'[m] = told[m]
             /\ Open' = Open \cup {n}
             /\ pool' \in PoolType
             /\ DOMAIN user' \subseteq 1 .. pool'.size
             /\ \A x \in DOMAIN user' : user'[x] \in Callbacks
             /\ PoolExact'
             /\ Stored'
  <1> DEFINE n == Len(ops) + 1
             s == PoolObject(pool)
             used == {ops[m].user : m \in Open}
             op == Operation(kind, s, place)
  <1>1. Len(ops) \in Nat /\ DOMAIN ops = 1 .. Len(ops) /\ Len(told) = Len(ops)
    BY DEF Inv, TypeOK, Told
  <1>2. PoolInv(pool, used)
    BY DEF Inv, PoolExact
  <1> HIDE DEF used
  <1>3. /\ s \in Nat \ {0}
        /\ s \notin used
        /\ pool'.size \in Nat
        /\ pool.size <= pool'.size
        /\ PoolInv(pool', used \cup {s})
    BY <1>2, PoolMallocInv
  <1> HIDE DEF s
  <1>4. pool' \in PoolType /\ s \in 1 .. pool'.size
    BY <1>3 DEF PoolInv
  <1>5. /\ op \in OperationType /\ op.user = s /\ op.kind = kind /\ op.at = place
        /\ op.status = "pending" /\ op.calls = 0 /\ op.cancelCalls = 0
    BY <1>3 DEF Operation, OperationType
  <1> HIDE DEF op
  <1>6. ops' = Append(told, op) /\ told \in Seq(OperationType) /\ Len(told) + 1 = n
    BY <1>1 DEF op, s, Told
  <1> HIDE DEF n
  <1>7. /\ ops' \in Seq(OperationType)
        /\ n \in DOMAIN ops' /\ ops'[n] = op /\ n \in Nat /\ n \notin DOMAIN told
        /\ \A i \in DOMAIN told : i \in DOMAIN ops' /\ ops'[i] = told[i] /\ i < n /\ i \in Nat
        /\ \A i \in DOMAIN ops' : i = n \/ i \in DOMAIN told
    <2> DEFINE t == Append(told, op)
    <2>1. /\ t \in Seq(OperationType)
          /\ Len(told) + 1 \in DOMAIN t /\ t[Len(told) + 1] = op
          /\ Len(told) + 1 \in Nat /\ Len(told) + 1 \notin DOMAIN told
          /\ \A i \in DOMAIN told : i \in DOMAIN t /\ t[i] = told[i] /\ i < Len(told) + 1 /\ i \in Nat
          /\ \A i \in DOMAIN t : i = Len(told) + 1 \/ i \in DOMAIN told
      BY <1>5, <1>6, AppendCases
    <2> HIDE DEF t
    <2>2. ops' = t
      BY <1>6 DEF t
    <2> QED BY <1>6, <2>1, <2>2
  <1>8. DOMAIN told = DOMAIN ops
    BY DEF Told
  <1>9. DOMAIN ops' = DOMAIN ops \cup {n}
    BY <1>7, <1>8
  <1>10. \A m \in DOMAIN ops : ops'[m] = told[m] /\ ops'[m].user = ops[m].user /\ ops'[m].at = ops[m].at
    BY <1>7, <1>8 DEF Told
  <1>11. Open' = Open \cup {n}
    BY <1>5, <1>7, <1>9, <1>10 DEF Open
  <1>12. \A m \in Open : m # n /\ ops'[m].user = ops[m].user /\ ops[m].user \in used /\ ops[m].user # s
    BY <1>3, <1>7, <1>8, <1>10 DEF Open, used
  <1>13. {ops'[m].user : m \in Open'} = used \cup {s}
    <2>1. ops'[n].user = s /\ Open' = Open \cup {n}
      BY <1>5, <1>7, <1>11
    <2>2. \A m \in Open : ops'[m].user = ops[m].user
      BY <1>12
    <2>3. {ops'[m].user : m \in Open'} = {ops'[m].user : m \in Open} \cup {ops'[n].user}
      BY <2>1
    <2>4. {ops'[m].user : m \in Open} = used
      BY <2>2 DEF used
    <2> QED BY <2>1, <2>3, <2>4
  <1>14. \A l, m \in Open' : ops'[l].user = ops'[m].user => l = m
    <2>1. ops'[n].user = s
      BY <1>5, <1>7
    <2>2. \A l, m \in Open : ops[l].user = ops[m].user => l = m
      BY DEF Inv, PoolExact
    <2> TAKE l, m \in Open'
    <2> HAVE ops'[l].user = ops'[m].user
    <2>3. CASE l \in Open /\ m \in Open
      BY <1>12, <2>2, <2>3
    <2>4. CASE l = n /\ m \in Open
      BY <1>12, <2>1, <2>4
    <2>5. CASE l \in Open /\ m = n
      BY <1>12, <2>1, <2>5
    <2>6. (l \in Open \/ l = n) /\ (m \in Open \/ m = n)
      BY <1>11
    <2> QED BY <2>3, <2>4, <2>5, <2>6
  <1>15. PoolExact'
    BY <1>3, <1>13, <1>14 DEF PoolExact
  <1>16. /\ DOMAIN user' = DOMAIN users \cup {s}
         /\ user'[s] = Callback(n, "issue")
         /\ \A x \in DOMAIN users : x # s => user'[x] = users[x]
    BY DEF Define, n, s
  <1>17. DOMAIN user' \subseteq 1 .. pool'.size
    <2>1. DOMAIN users \subseteq 1 .. pool.size /\ pool.size \in Nat
      BY DEF Told, Inv, TypeOK, PoolType
    <2> QED BY <1>3, <1>4, <1>16, <2>1
  <1>18. \A x \in DOMAIN user' : user'[x] \in Callbacks
    <2>1. Callback(n, "issue") \in Callbacks
      BY <1>7 DEF Callback, Callbacks
    <2> QED BY <1>16, <2>1 DEF Told
  <1>19. Stored'
    <2> SUFFICES ASSUME NEW m \in Open'
                 PROVE  /\ ops'[m].user \in DOMAIN user'
                        /\ user'[ops'[m].user] =
                             Callback(m, IF ops'[m].status \in {"cancelled", "closed"}
                                           THEN "cancel" ELSE "issue")
      BY DEF Stored
    <2>1. CASE m = n
      BY <1>5, <1>7, <1>16, <2>1
    <2>2. CASE m \in Open
      <3>1. m \in DOMAIN ops
        BY <2>2 DEF Open
      <3>2. /\ ops[m].user \in DOMAIN users
            /\ users[ops[m].user] =
                 Callback(m, IF told[m].status \in {"cancelled", "closed"} THEN "cancel" ELSE "issue")
        BY <2>2 DEF Told
      <3>3. ops'[m] = told[m] /\ ops'[m].user = ops[m].user /\ ops[m].user # s
        BY <1>10, <1>12, <2>2, <3>1
      <3>4. ops[m].user \in DOMAIN user' /\ user'[ops[m].user] = users[ops[m].user]
        BY <1>16, <3>2, <3>3
      <3> QED BY <3>2, <3>3, <3>4
    <2> QED BY <1>11, <2>1, <2>2
  <1> QED BY <1>3, <1>4, <1>5, <1>7, <1>8, <1>9, <1>10, <1>11, <1>15, <1>17, <1>18, <1>19 DEF n, s

\* The same for the entries that are already queued.
LEMMA GrownPlaces ==
  ASSUME Inv, NEW users, NEW told, Told(users, told),
         DOMAIN ops \subseteq DOMAIN ops',
         \A m \in DOMAIN ops : ops'[m] = told[m],
         current \in {0, 1}, next'[1 - current] = next[1 - current],
         UNCHANGED <<kernel, cq, current, pc, index, cur>>
  PROVE  /\ \A i \in DOMAIN sq : Owns(sq[i], {"sq"}) /\ ops'[sq[i].gen].at = "sq"
                                 /\ ops'[sq[i].gen].user = sq[i].user
                                 /\ ops'[sq[i].gen].kind = ops[sq[i].gen].kind
         /\ KernelPlaces'
         /\ CqPlaces'
         /\ CurPlaces'
         /\ \A i \in DOMAIN next[current] :
              /\ next[current][i].gen \in DOMAIN ops'
              /\ ops'[next[current][i].gen].user = next[current][i].user
              /\ ops'[next[current][i].gen].at = "next"
         /\ \A i \in DOMAIN next[1 - current] :
              /\ next[1 - current][i].gen \in DOMAIN ops'
              /\ i >= index => /\ ops'[next[1 - current][i].gen].user = next[1 - current][i].user
                               /\ ops'[next[1 - current][i].gen].at = "next"
         /\ \A k \in kernel' :
              k.op = "notif" /\ ops'[k.gen].status \in {"pending", "cancelled"} =>
                \E i \in DOMAIN cq' : cq'[i].gen = k.gen /\ ~ cq'[i].notif
         /\ \A j \in DOMAIN cq' :
              cq'[j].notif /\ ops'[cq'[j].gen].status \in {"pending", "cancelled"} =>
                \E i \in DOMAIN cq' : i < j /\ cq'[i].gen = cq'[j].gen /\ ~ cq'[i].notif
         /\ \A k \in kernel' : k.op \in {"zc", "notif"} <=> ops'[k.gen].kind = "zc"
         /\ \A i \in DOMAIN cq' : cq'[i].notif => ~ cq'[i].more /\ ops'[cq'[i].gen].kind = "zc"
         /\ \A m \in DOMAIN ops :
              ops'[m].at \in {"call", "free"} => ops'[m].status \in {"done", "closed"}
         /\ pc' = "nextcall" => ops'[cur'.gen].status \in {"done", "closed"}
  <1>1. \A m \in DOMAIN ops :
          /\ ops'[m].user = ops[m].user
          /\ ops'[m].kind = ops[m].kind
          /\ ops'[m].at = ops[m].at
          /\ ops'[m].status \in {"pending", "cancelled"} <=> ops[m].status \in {"pending", "cancelled"}
          /\ ops'[m].status \in {"done", "closed"} <=> ops[m].status \in {"done", "closed"}
          /\ m \in DOMAIN ops'
    BY DEF Told
  <1>2. /\ \A k \in kernel : k.gen \in DOMAIN ops
        /\ \A i \in DOMAIN cq : cq[i].gen \in DOMAIN ops
        /\ pc = "nextcall" => cur.gen \in DOMAIN ops
    BY DEF Inv, Places, KernelPlaces, CqPlaces, CurPlaces, Owns
  <1> USE DEF Inv
  <1>3. \A i \in DOMAIN sq : Owns(sq[i], {"sq"}) /\ ops'[sq[i].gen].at = "sq"
                              /\ ops'[sq[i].gen].user = sq[i].user
                              /\ ops'[sq[i].gen].kind = ops[sq[i].gen].kind
    BY <1>1 DEF Places, SqPlaces, Owns
  <1>4. KernelPlaces'
    BY <1>1 DEF Places, KernelPlaces, Owns
  <1>5. CqPlaces'
    BY <1>1 DEF Places, CqPlaces, Owns
  <1>6. CurPlaces'
    BY <1>1 DEF Places, CurPlaces, Owns
  <1>7. NextPlaces
    BY DEF Places
  <1>8. \A i \in DOMAIN next[current] :
          /\ next[current][i].gen \in DOMAIN ops'
          /\ ops'[next[current][i].gen].user = next[current][i].user
          /\ ops'[next[current][i].gen].at = "next"
    BY <1>1, <1>7 DEF NextPlaces, Owns
  <1>9. \A i \in DOMAIN next[1 - current] :
          /\ next[1 - current][i].gen \in DOMAIN ops'
          /\ i >= index => /\ ops'[next[1 - current][i].gen].user = next[1 - current][i].user
                           /\ ops'[next[1 - current][i].gen].at = "next"
    BY <1>1, <1>7 DEF NextPlaces, Owns
  <1>10. \A k \in kernel' :
           k.op = "notif" /\ ops'[k.gen].status \in {"pending", "cancelled"} =>
             \E i \in DOMAIN cq' : cq'[i].gen = k.gen /\ ~ cq'[i].notif
    BY <1>1, <1>2 DEF Ended
  <1>11. \A j \in DOMAIN cq' :
           cq'[j].notif /\ ops'[cq'[j].gen].status \in {"pending", "cancelled"} =>
             \E i \in DOMAIN cq' : i < j /\ cq'[i].gen = cq'[j].gen /\ ~ cq'[i].notif
    BY <1>1, <1>2 DEF Ended
  <1>12. \A k \in kernel' : k.op \in {"zc", "notif"} <=> ops'[k.gen].kind = "zc"
    BY <1>1, <1>2 DEF Ended
  <1>13. \A i \in DOMAIN cq' : cq'[i].notif => ~ cq'[i].more /\ ops'[cq'[i].gen].kind = "zc"
    BY <1>1, <1>2 DEF Ended
  <1>14. \A m \in DOMAIN ops :
           ops'[m].at \in {"call", "free"} => ops'[m].status \in {"done", "closed"}
    BY <1>1 DEF Ended
  <1>15. pc' = "nextcall" => ops'[cur'.gen].status \in {"done", "closed"}
    BY <1>1, <1>2 DEF Ended
  <1> QED BY <1>3, <1>4, <1>5, <1>6, <1>8, <1>9, <1>10, <1>11, <1>12, <1>13, <1>14, <1>15

\* The wrappers around an io_uring operation.  The hypothesis on kind is what
\* makes an address a safe name for an operation: the client asks to cancel
\* one that is in use.
LEMMA SubmitInv ==
  ASSUME Inv, pend = <<>>, pc \in {"out", "call", "nextcall"},
         NEW users, NEW told, Told(users, told),
         NEW kind \in Requests \cup {"remove", "cancel"}, NEW addr \in Nat, NEW target \in Nat,
         kind \in {"cancel", "remove"} => target \in Open /\ ops[target].user = addr,
         Submit(kind, addr, target, users, told)
  PROVE  Inv'
  <1> DEFINE n == Len(ops) + 1
             s == PoolObject(pool)
             sqe == [op |-> kind, gen |-> n, user |-> s, addr |-> addr, target |-> target]
             full == Len(sq) = RingSize
             place == IF full THEN "pend" ELSE "sq"
  <1>1. /\ pool' = PoolMalloc(pool)
        /\ user' = Define(users, PoolObject(pool), Callback(Len(ops) + 1, "issue"))
        /\ ops' = Append(told, Operation(kind, PoolObject(pool), place))
        /\ sq' = IF full THEN sq ELSE Append(sq, sqe)
        /\ pend' = IF full THEN <<sqe>> ELSE <<>>
        /\ UNCHANGED <<kernel, cq, next, current, pc, index, cur, shots>>
    BY DEF Submit
  <1>2. place \in {"pend", "sq", "next"} /\ kind \in Kinds /\ kind # "next"
    BY RequestsAssumption DEF Kinds
  <1> HIDE DEF place
  <1>3. /\ n \in Nat /\ s \in Nat /\ n \notin DOMAIN ops
        /\ ops' \in Seq(OperationType)
        /\ DOMAIN ops' = DOMAIN ops \cup {n}
        /\ ops'[n].user = s /\ ops'[n].kind = kind /\ ops'[n].at = place
        /\ ops'[n].status = "pending"
        /\ \A m \in DOMAIN ops : ops'[m] = told[m]
        /\ Open' = Open \cup {n}
        /\ pool' \in PoolType
        /\ DOMAIN user' \subseteq 1 .. pool'.size
        /\ \A x \in DOMAIN user' : user'[x] \in Callbacks
        /\ PoolExact'
        /\ Stored'
    BY SMTT(60), <1>1, <1>2, GrownFacts
  <1> HIDE DEF n, s
  <1>4. /\ sqe \in SqeType /\ sqe.op = kind /\ sqe.gen = n /\ sqe.user = s
        /\ sqe.addr = addr /\ sqe.target = target
    BY SMTT(60), <1>2, <1>3 DEF SqeType
  <1> HIDE DEF sqe
  <1> USE DEF Inv
  <1>5. current \in {0, 1} /\ next'[1 - current] = next[1 - current]
    BY SMTT(60), <1>1 DEF TypeOK
  <1>6. /\ \A i \in DOMAIN sq : Owns(sq[i], {"sq"}) /\ ops'[sq[i].gen].at = "sq"
                                /\ ops'[sq[i].gen].user = sq[i].user
                                /\ ops'[sq[i].gen].kind = ops[sq[i].gen].kind
        /\ KernelPlaces'
        /\ CqPlaces'
        /\ CurPlaces'
        /\ \A i \in DOMAIN next[current] :
             /\ next[current][i].gen \in DOMAIN ops'
             /\ ops'[next[current][i].gen].user = next[current][i].user
             /\ ops'[next[current][i].gen].at = "next"
        /\ \A i \in DOMAIN next[1 - current] :
             /\ next[1 - current][i].gen \in DOMAIN ops'
             /\ i >= index => /\ ops'[next[1 - current][i].gen].user = next[1 - current][i].user
                              /\ ops'[next[1 - current][i].gen].at = "next"
        /\ \A k \in kernel' :
             k.op = "notif" /\ ops'[k.gen].status \in {"pending", "cancelled"} =>
               \E i \in DOMAIN cq' : cq'[i].gen = k.gen /\ ~ cq'[i].notif
        /\ \A j \in DOMAIN cq' :
             cq'[j].notif /\ ops'[cq'[j].gen].status \in {"pending", "cancelled"} =>
               \E i \in DOMAIN cq' : i < j /\ cq'[i].gen = cq'[j].gen /\ ~ cq'[i].notif
        /\ \A k \in kernel' : k.op \in {"zc", "notif"} <=> ops'[k.gen].kind = "zc"
        /\ \A i \in DOMAIN cq' : cq'[i].notif => ~ cq'[i].more /\ ops'[cq'[i].gen].kind = "zc"
        /\ \A m \in DOMAIN ops :
             ops'[m].at \in {"call", "free"} => ops'[m].status \in {"done", "closed"}
        /\ pc' = "nextcall" => ops'[cur'.gen].status \in {"done", "closed"}
    <2>1. DOMAIN ops \subseteq DOMAIN ops' /\ \A m \in DOMAIN ops : ops'[m] = told[m]
      BY <1>3
    <2> QED BY <1>1, <1>5, <2>1, GrownPlaces
  <1>7. NextPlaces'
    BY ZenonT(60), <1>1, <1>5, <1>6 DEF NextPlaces, Owns
  <1>8. NextInOrder' /\ CallbackBelongs'
    BY <1>1 DEF NextInOrder, CallbackBelongs
  <1>9. \A i \in DOMAIN sq : sq[i].gen \in DOMAIN ops /\ sq[i].gen # n
    BY <1>3, <1>6 DEF Owns
  <1>10. /\ \A k \in kernel : Means(sqe, k)
         /\ \A i \in DOMAIN sq : Means(sqe, sq[i])
    <2>1. \A l, m \in Open : ops[l].user = ops[m].user => l = m
      BY DEF PoolExact
    <2>2. \A k \in kernel : k.gen \in Open /\ ops[k.gen].user = k.user
      BY DEF Places, KernelPlaces, Owns, Open
    <2>3. \A i \in DOMAIN sq : sq[i].gen \in Open /\ ops[sq[i].gen].user = sq[i].user
      BY DEF Places, SqPlaces, Owns, Open
    <2> QED BY <1>4, <2>1, <2>2, <2>3 DEF Means
  <1>11. ops'[n].at \notin {"call", "free"}
    BY <1>2, <1>3
  <1>12. \A m \in DOMAIN ops' :
           ops'[m].at \in {"call", "free"} => ops'[m].status \in {"done", "closed"}
    BY <1>3, <1>6, <1>11
  <1>13. CASE full
    <2>1. sq' = sq /\ pend' = <<sqe>> /\ place = "pend"
      BY <1>1, <1>13 DEF place
    <2>2. /\ pend' \in Seq(SqeType) /\ Len(pend') = 1 /\ DOMAIN pend' = {1} /\ pend'[1] = sqe
      BY <1>4, <2>1
    <2>3. TypeOK'
      BY <1>1, <1>3, <2>1, <2>2, SMTT(60) DEF TypeOK
    <2>4. SqPlaces' /\ PendPlaces'
      BY <1>3, <1>4, <1>6, <2>1, <2>2 DEF SqPlaces, PendPlaces, Owns
    <2>5. Unique' /\ Phase'
      BY <1>1, <2>1 DEF Unique, Phase
    <2>6. Ended'
      <3>1. \A i \in DOMAIN sq' : sq'[i].op = ops'[sq'[i].gen].kind /\ sq'[i].op # "next"
        BY <1>6, <2>1 DEF Ended
      <3>2. \A i \in DOMAIN pend' : pend'[i].op = ops'[pend'[i].gen].kind /\ pend'[i].op # "next"
        BY <1>2, <1>3, <1>4, <2>2
      <3> QED BY <1>6, <1>12, <3>1, <3>2 DEF Ended
    <2>7. Aimed'
      BY <1>1, <1>10, <2>1, <2>2 DEF Aimed, Means
    <2> QED BY <1>3, <1>6, <1>7, <1>8, <2>3, <2>4, <2>5, <2>6, <2>7 DEF Places
  <1>14. CASE ~ full
    <2> DEFINE z == Len(sq) + 1
    <2>1. sq' = Append(sq, sqe) /\ pend' = <<>> /\ place = "sq" /\ DOMAIN pend' = {}
      BY <1>1, <1>14 DEF place
    <2>2. sq \in Seq(SqeType) /\ Len(sq) <= RingSize /\ Len(sq) \in Nat /\ Len(sq) # RingSize
      BY <1>14 DEF TypeOK
    <2>3. /\ sq' \in Seq(SqeType)
          /\ Len(sq') = z
          /\ z \in DOMAIN sq' /\ sq'[z] = sqe /\ z \in Nat /\ z \notin DOMAIN sq
          /\ \A i \in DOMAIN sq : i \in DOMAIN sq' /\ sq'[i] = sq[i] /\ i < z /\ i \in Nat
          /\ \A i \in DOMAIN sq' : i = z \/ i \in DOMAIN sq
      BY <1>4, <2>1, <2>2, AppendCases
    <2>4. Len(sq') <= RingSize
      BY <2>2, <2>3, RingSizeAssumption
    <2> HIDE DEF z
    <2>5. TypeOK'
      BY <1>1, <1>3, <2>1, <2>3, <2>4 DEF TypeOK
    <2>6. SqPlaces' /\ PendPlaces'
      <3>1. \A i \in DOMAIN sq' :
              /\ sq'[i].gen \in DOMAIN ops' /\ ops'[sq'[i].gen].user = sq'[i].user
              /\ ops'[sq'[i].gen].at = "sq"
        BY <1>3, <1>4, <1>6, <1>9, <2>1, <2>3
      <3> QED BY <2>1, <3>1 DEF SqPlaces, PendPlaces, Owns
    <2>7. Unique' /\ Phase'
      <3>1. \A i, j \in DOMAIN sq' : sq'[i].gen = sq'[j].gen => i = j
        <4> TAKE i, j \in DOMAIN sq'
        <4>1. CASE i \in DOMAIN sq /\ j \in DOMAIN sq
          BY <2>3, <4>1 DEF Unique
        <4>2. CASE i = z /\ j \in DOMAIN sq
          BY <1>4, <1>9, <2>3, <4>2
        <4>3. CASE i \in DOMAIN sq /\ j = z
          BY <1>4, <1>9, <2>3, <4>3
        <4> QED BY <2>3, <4>1, <4>2, <4>3
      <3> QED BY <1>1, <2>1, <3>1 DEF Unique, Phase
    <2>8. Ended'
      <3>1. \A i \in DOMAIN sq' : sq'[i].op = ops'[sq'[i].gen].kind /\ sq'[i].op # "next"
        BY <1>2, <1>3, <1>4, <1>6, <2>3 DEF Ended
      <3>2. \A i \in DOMAIN pend' : pend'[i].op = ops'[pend'[i].gen].kind /\ pend'[i].op # "next"
        BY <2>1
      <3> QED BY <1>6, <1>12, <3>1, <3>2 DEF Ended
    <2>9. Aimed'
      <3>1. \A i \in DOMAIN sq' : \A k \in kernel' : Means(sq'[i], k)
        BY <1>1, <1>10, <2>3 DEF Aimed
      <3>2. \A i, j \in DOMAIN sq' : j < i => Means(sq'[i], sq'[j])
        <4> TAKE i, j \in DOMAIN sq'
        <4> HAVE j < i
        <4>1. CASE i \in DOMAIN sq /\ j \in DOMAIN sq
          BY <2>3, <4>1 DEF Aimed
        <4>2. CASE i = z /\ j \in DOMAIN sq
          BY <1>10, <2>3, <4>2
        <4>3. CASE i \in DOMAIN sq /\ j = z
          BY <2>3, <4>3
        <4> QED BY <2>3, <4>1, <4>2, <4>3
      <3> QED BY <2>1, <3>1, <3>2 DEF Aimed
    <2> QED BY <1>3, <1>6, <1>7, <1>8, <2>5, <2>6, <2>7, <2>8, <2>9 DEF Places
  <1> QED BY <1>13, <1>14

\* The calls of the API that are submissions.
LEMMA IssueInv ==
  ASSUME Inv, NEW kind \in Requests, Issue(kind)
  PROVE  Inv'
  <1>1. /\ pend = <<>> /\ pc \in {"out", "call", "nextcall"}
        /\ Submit(kind, 0, 0, user, ops)
    BY DEF Issue, InClient
  <1>2. kind \in Requests \cup {"remove", "cancel"} /\ kind \notin {"remove", "cancel"}
    BY RequestsAssumption
  <1>3. Told(user, ops)
    BY ToldSame
  <1> QED BY <1>1, <1>2, <1>3, SubmitInv

\* reactor_async_cancel(), reactor_poll_remove() or reactor_poll_update().
LEMMA RemoveInv ==
  ASSUME Inv, NEW g, Remove(g)
  PROVE  Inv'
  <1>1. /\ pend = <<>> /\ pc \in {"out", "call", "nextcall"} /\ Held(g)
        /\ Submit("remove", ops[g].user, g, user, ops)
    BY DEF Remove, InClient
  <1>2. g \in Open /\ g \in Nat /\ ops[g].user \in Nat
    BY <1>1, HeldIsOpen
  <1>3. Told(user, ops)
    BY ToldSame
  <1>4. "remove" \in Requests \cup {"remove", "cancel"}
    OBVIOUS
  <1> QED BY <1>1, <1>2, <1>3, <1>4, SubmitInv

\* reactor_cancel() of an operation on the ring.
LEMMA CancelRequestInv ==
  ASSUME Inv, NEW g, CancelRequest(g)
  PROVE  Inv'
  <1> DEFINE users == Define(user, ops[g].user, Callback(g, "cancel"))
             told == [ops EXCEPT ![g].status = "cancelled"]
  <1>1. /\ pend = <<>> /\ pc \in {"out", "call", "nextcall"} /\ Held(g)
        /\ Submit("cancel", ops[g].user, g, users, told)
    BY DEF CancelRequest, InClient
  <1>2. g \in Open /\ g \in Nat /\ ops[g].user \in Nat
    BY <1>1, HeldIsOpen
  <1>3. Told(users, told)
    BY <1>1, ToldCancelled
  <1>4. "cancel" \in Requests \cup {"remove", "cancel"}
    OBVIOUS
  <1> HIDE DEF users, told
  <1> QED BY <1>1, <1>2, <1>3, <1>4, SubmitInv

\* reactor_next().
LEMMA ScheduleInv ==
  ASSUME Inv, Schedule
  PROVE  Inv'
  <1> DEFINE n == Len(ops) + 1
             s == PoolObject(pool)
             e == [gen |-> n, user |-> s]
             z == Len(next[current]) + 1
  <1>1. /\ pool' = PoolMalloc(pool)
        /\ user' = Define(user, PoolObject(pool), Callback(Len(ops) + 1, "issue"))
        /\ ops' = Append(ops, Operation("next", PoolObject(pool), "next"))
        /\ next' = [next EXCEPT ![current] = Append(@, e)]
        /\ pend = <<>>
        /\ UNCHANGED <<sq, pend, kernel, cq, current, pc, index, cur, shots>>
    BY DEF Schedule, InClient
  <1>2. Told(user, ops)
    BY ToldSame
  <1>3. /\ n \in Nat /\ s \in Nat /\ n \notin DOMAIN ops
        /\ \A m \in DOMAIN ops : m \in Nat /\ m < n
        /\ ops' \in Seq(OperationType)
        /\ DOMAIN ops' = DOMAIN ops \cup {n}
        /\ ops'[n].user = s /\ ops'[n].kind = "next" /\ ops'[n].at = "next"
        /\ ops'[n].status = "pending"
        /\ \A m \in DOMAIN ops : ops'[m] = ops[m]
        /\ Open' = Open \cup {n}
        /\ pool' \in PoolType
        /\ DOMAIN user' \subseteq 1 .. pool'.size
        /\ \A x \in DOMAIN user' : user'[x] \in Callbacks
        /\ PoolExact'
        /\ Stored'
    <2>1. "next" \in Kinds /\ "next" \in {"pend", "sq", "next"}
      BY DEF Kinds
    <2> QED BY <1>1, <1>2, <2>1, GrownFacts
  <1> HIDE DEF n, s
  <1>4. e \in [gen : Nat, user : Nat] /\ e.gen = n /\ e.user = s
    BY <1>3
  <1> HIDE DEF e
  <1> USE DEF Inv
  <1>5. /\ current \in {0, 1} /\ 1 - current \in {0, 1} /\ 1 - current # current
        /\ next \in [{0, 1} -> Seq([gen : Nat, user : Nat])]
        /\ \A v \in {0, 1} : v = current \/ v = 1 - current
    BY DEF TypeOK
  <1>6. /\ next' \in [{0, 1} -> Seq([gen : Nat, user : Nat])]
        /\ next'[1 - current] = next[1 - current]
        /\ next'[current] = Append(next[current], e)
    BY <1>1, <1>4, <1>5
  <1>7. /\ z \in DOMAIN next'[current] /\ next'[current][z] = e /\ z \in Nat
        /\ \A i \in DOMAIN next[current] :
             i \in DOMAIN next'[current] /\ next'[current][i] = next[current][i] /\ i < z /\ i \in Nat
        /\ \A i \in DOMAIN next'[current] : i = z \/ i \in DOMAIN next[current]
    <2> DEFINE v == next[current]
               w == Append(v, e)
    <2>1. v \in Seq([gen : Nat, user : Nat])
      BY <1>5
    <2> HIDE DEF v
    <2>2. /\ Len(v) + 1 \in DOMAIN w /\ w[Len(v) + 1] = e /\ Len(v) + 1 \in Nat
          /\ \A i \in DOMAIN v : i \in DOMAIN w /\ w[i] = v[i] /\ i < Len(v) + 1 /\ i \in Nat
          /\ \A i \in DOMAIN w : i = Len(v) + 1 \/ i \in DOMAIN v
      BY SMTT(60), <1>4, <2>1, AppendCases
    <2> HIDE DEF w
    <2>3. next'[current] = w /\ next[current] = v /\ z = Len(v) + 1
      BY SMTT(60), <1>6 DEF v, w
    <2> HIDE DEF z
    <2> QED BY <2>2, <2>3
  <1> HIDE DEF z
  <1>8. /\ \A i \in DOMAIN sq : Owns(sq[i], {"sq"}) /\ ops'[sq[i].gen].at = "sq"
                                /\ ops'[sq[i].gen].user = sq[i].user
                                /\ ops'[sq[i].gen].kind = ops[sq[i].gen].kind
        /\ KernelPlaces'
        /\ CqPlaces'
        /\ CurPlaces'
        /\ \A i \in DOMAIN next[current] :
             /\ next[current][i].gen \in DOMAIN ops'
             /\ ops'[next[current][i].gen].user = next[current][i].user
             /\ ops'[next[current][i].gen].at = "next"
        /\ \A i \in DOMAIN next[1 - current] :
             /\ next[1 - current][i].gen \in DOMAIN ops'
             /\ i >= index => /\ ops'[next[1 - current][i].gen].user = next[1 - current][i].user
                              /\ ops'[next[1 - current][i].gen].at = "next"
        /\ \A k \in kernel' :
             k.op = "notif" /\ ops'[k.gen].status \in {"pending", "cancelled"} =>
               \E i \in DOMAIN cq' : cq'[i].gen = k.gen /\ ~ cq'[i].notif
        /\ \A j \in DOMAIN cq' :
             cq'[j].notif /\ ops'[cq'[j].gen].status \in {"pending", "cancelled"} =>
               \E i \in DOMAIN cq' : i < j /\ cq'[i].gen = cq'[j].gen /\ ~ cq'[i].notif
        /\ \A k \in kernel' : k.op \in {"zc", "notif"} <=> ops'[k.gen].kind = "zc"
        /\ \A i \in DOMAIN cq' : cq'[i].notif => ~ cq'[i].more /\ ops'[cq'[i].gen].kind = "zc"
        /\ \A m \in DOMAIN ops :
             ops'[m].at \in {"call", "free"} => ops'[m].status \in {"done", "closed"}
        /\ pc' = "nextcall" => ops'[cur'.gen].status \in {"done", "closed"}
    <2>1. DOMAIN ops \subseteq DOMAIN ops' /\ \A m \in DOMAIN ops : ops'[m] = ops[m]
      BY <1>3
    <2> QED BY <1>1, <1>2, <1>5, <1>6, <2>1, GrownPlaces
  <1>9. TypeOK'
    BY <1>1, <1>3, <1>6 DEF TypeOK
  <1>10. NextPlaces'
    <2>1. \A i \in DOMAIN next'[current] :
            /\ next'[current][i].gen \in DOMAIN ops'
            /\ ops'[next'[current][i].gen].user = next'[current][i].user
            /\ ops'[next'[current][i].gen].at = "next"
      BY <1>3, <1>4, <1>7, <1>8
    <2>2. \A i \in DOMAIN next'[1 - current] :
            /\ next'[1 - current][i].gen \in DOMAIN ops'
            /\ i >= index =>
                 /\ ops'[next'[1 - current][i].gen].user = next'[1 - current][i].user
                 /\ ops'[next'[1 - current][i].gen].at = "next"
      BY <1>6, <1>8
    <2>3. current' = current /\ index' = index
      BY <1>1
    <2> QED BY <2>1, <2>2, <2>3 DEF NextPlaces, Owns
  <1>11. SqPlaces' /\ PendPlaces'
    BY <1>1, <1>3, <1>8 DEF SqPlaces, PendPlaces, Owns
  <1>12. NextInOrder'
    <2>1. /\ \A i \in DOMAIN next[current] : next[current][i].gen < n
          /\ \A i \in DOMAIN next[1 - current] : next[1 - current][i].gen < n
      <3>1. NextPlaces
        BY DEF Places
      <3>2. /\ \A i \in DOMAIN next[current] : next[current][i].gen \in DOMAIN ops
            /\ \A i \in DOMAIN next[1 - current] : next[1 - current][i].gen \in DOMAIN ops
        BY <3>1 DEF NextPlaces, Owns
      <3> QED BY <1>3, <3>2
    <2>2. \A i, j \in DOMAIN next'[current] : i < j => next'[current][i].gen < next'[current][j].gen
      <3> TAKE i, j \in DOMAIN next'[current]
      <3> HAVE i < j
      <3>1. i \in DOMAIN next[current]
        BY <1>7
      <3>2. CASE j \in DOMAIN next[current]
        BY <1>5, <1>7, <3>1, <3>2 DEF NextInOrder
      <3>3. CASE j = z
        BY <1>4, <1>7, <2>1, <3>1, <3>3
      <3> QED BY <1>7, <3>2, <3>3
    <2>3. \A i, j \in DOMAIN next'[1 - current] :
            i < j => next'[1 - current][i].gen < next'[1 - current][j].gen
      BY <1>5, <1>6 DEF NextInOrder
    <2>4. \A i \in DOMAIN next'[1 - current], j \in DOMAIN next'[current] :
            next'[1 - current][i].gen < next'[current][j].gen
      <3> TAKE i \in DOMAIN next'[1 - current], j \in DOMAIN next'[current]
      <3>1. i \in DOMAIN next[1 - current] /\ next'[1 - current][i] = next[1 - current][i]
        BY <1>6
      <3>2. CASE j \in DOMAIN next[current]
        BY <1>7, <3>1, <3>2 DEF NextInOrder
      <3>3. CASE j = z
        BY <1>4, <1>7, <2>1, <3>1, <3>3
      <3> QED BY <1>7, <3>2, <3>3
    <2>5. \A v \in {0, 1} : \A i, j \in DOMAIN next'[v] : i < j => next'[v][i].gen < next'[v][j].gen
      BY <1>5, <2>2, <2>3
    <2> QED BY <1>1, <2>4, <2>5 DEF NextInOrder
  <1>13. Unique' /\ Phase' /\ Aimed' /\ CallbackBelongs'
    BY <1>1, <1>6 DEF Unique, Phase, Aimed, Means, CallbackBelongs
  <1>14. Ended'
    <2>1. \A i \in DOMAIN sq' : sq'[i].op = ops'[sq'[i].gen].kind /\ sq'[i].op # "next"
      <3>1. \A i \in DOMAIN sq : sq[i].op = ops[sq[i].gen].kind /\ sq[i].op # "next"
        BY DEF Ended
      <3>2. \A i \in DOMAIN sq : ops'[sq[i].gen].kind = ops[sq[i].gen].kind
        BY <1>8
      <3>3. sq' = sq
        BY <1>1
      <3> QED BY <3>1, <3>2, <3>3
    <2>2. DOMAIN pend' = {}
      BY <1>1
    <2>3. \A m \in DOMAIN ops' :
            ops'[m].at \in {"call", "free"} => ops'[m].status \in {"done", "closed"}
      BY <1>3, <1>8
    <2> QED BY <1>8, <2>1, <2>2, <2>3 DEF Ended
  <1> QED BY <1>3, <1>8, <1>9, <1>10, <1>11, <1>12, <1>13, <1>14 DEF Places

-----------------------------------------------------------------------------
(* The theorems *)

\* The state reactor_construct() leaves behind.
LEMMA InitInv ==
  ASSUME Init
  PROVE  Inv
  <1> USE DEF Init
  <1>1. Open = {} /\ DOMAIN ops = {} /\ DOMAIN sq = {} /\ DOMAIN pend = {} /\ DOMAIN cq = {}
        /\ next[0] = <<>> /\ next[1] = <<>>
    BY DEF Open
  <1>2. PoolInv(pool, {}) /\ pool \in PoolType
    BY PoolConstructInv DEF PoolInv
  <1>3. {ops[n].user : n \in Open} = {}
    BY <1>1
  <1>4. PoolExact
    BY <1>1, <1>2, <1>3 DEF PoolExact
  <1>5. TypeOK
    <2>1. cur \in [gen : Nat, user : Nat, more : BOOLEAN, notif : BOOLEAN, callback : Callbacks]
      BY DEF NoEntry, Callback, Callbacks
    <2>2. next \in [{0, 1} -> Seq([gen : Nat, user : Nat])]
      OBVIOUS
    <2>3. DOMAIN user = {}
      OBVIOUS
    <2> QED BY <1>2, <2>1, <2>2, <2>3, RingSizeAssumption DEF TypeOK
  <1>6. Places
    BY <1>1 DEF Places, SqPlaces, PendPlaces, KernelPlaces, CqPlaces, NextPlaces, CurPlaces
  <1>7. Unique /\ NextInOrder /\ Phase /\ Stored /\ Ended /\ Aimed /\ CallbackBelongs
    BY <1>1 DEF Unique, NextInOrder, Phase, Stored, Ended, Aimed, CallbackBelongs
  <1> QED BY <1>4, <1>5, <1>6, <1>7 DEF Inv

\* Every step keeps the invariant.
LEMMA NextInv ==
  ASSUME Inv, [Next]_vars
  PROVE  Inv'
  <1>1. CASE UNCHANGED vars
    <2>1. UNCHANGED <<pool, user, sq, pend, kernel, cq, next, current, index, cur, shots, ops, pc>>
      BY <1>1 DEF vars
    <2>2. TypeOK' /\ PoolExact' /\ Unique' /\ NextInOrder' /\ Phase' /\ Stored'
      BY <2>1 DEF Inv, TypeOK, PoolExact, Open, Unique, NextInOrder, Phase, Stored
    <2>3. Places'
      BY <2>1 DEF Inv, Places, SqPlaces, PendPlaces, KernelPlaces, CqPlaces, NextPlaces, CurPlaces, Owns
    <2>4. Ended' /\ Aimed' /\ CallbackBelongs'
      BY <2>1 DEF Inv, Ended, Aimed, Means, CallbackBelongs
    <2> QED BY <2>2, <2>3, <2>4 DEF Inv
  <1>2. CASE Client
    BY <1>2, IssueInv, RemoveInv, CancelRequestInv, CancelNextInv, ScheduleInv DEF Client
  <1>3. CASE Kernel
    BY <1>3, KernelTakeCancelInv, KernelTakeRequestInv, KernelCompleteInv, KernelMoreInv DEF Kernel
  <1>4. CASE FlushReturn
    BY <1>4, FlushReturnInv
  <1>5. CASE LoopStart \/ LoopReturn \/ LoopNoNext \/ Enter \/ EnterReturn \/ CqeEmpty
    <2>1. pend = <<>>
      BY <1>5 DEF Inv, Phase, LoopStart, LoopReturn, LoopNoNext, Enter, EnterReturn, CqeEmpty
    <2>2. /\ UNCHANGED <<pool, user, sq, pend, kernel, cq, next, current, index, cur, shots, ops>>
          /\ pc \notin {"next", "nextcall"}
          /\ pc' \in {"out", "top", "wait", "enter", "cqe"}
      BY <1>5 DEF LoopStart, LoopReturn, LoopNoNext, Enter, EnterReturn, CqeEmpty, Iterated
    <2> QED BY <2>1, <2>2, MoveInv
  <1>6. CASE LoopNext \/ NextCall \/ NextReturn \/ NextClear
    BY <1>6, LoopNextInv, NextCallInv, NextReturnInv, NextClearInv
  <1>7. CASE CqeCall \/ CqeReturn
    BY <1>7, CqeCallInv, CqeReturnInv
  <1> QED BY <1>1, <1>2, <1>3, <1>4, <1>5, <1>6, <1>7 DEF Next, Loop

\* A step of the client calls no callback.
LEMMA ClientSilent ==
  ASSUME Inv, Client, NEW n \in DOMAIN ops
  PROVE  ops'[n].calls = ops[n].calls
  <1>1. CASE \E kind \in Requests : Issue(kind)
    <2>1. PICK kind \in Requests : Issue(kind)
      BY <1>1
    <2>2. PICK place \in {"pend", "sq", "next"} :
            ops' = Append(ops, Operation(kind, PoolObject(pool), place))
      BY <2>1 DEF Issue, Submit
    <2>3. pool' = PoolMalloc(pool)
          /\ user' = Define(user, PoolObject(pool), Callback(Len(ops) + 1, "issue"))
      BY <2>1 DEF Issue, Submit
    <2>4. kind \in Kinds
      BY DEF Kinds
    <2>5. ops'[n] = ops[n]
      BY <2>2, <2>3, <2>4, ToldSame, GrownFacts
    <2> QED BY <2>5
  <1>2. CASE \E m \in DOMAIN ops : Remove(m)
    <2>1. PICK m \in DOMAIN ops : Remove(m)
      BY <1>2
    <2>2. PICK place \in {"pend", "sq", "next"} :
            ops' = Append(ops, Operation("remove", PoolObject(pool), place))
      BY <2>1 DEF Remove, Submit
    <2>3. pool' = PoolMalloc(pool)
          /\ user' = Define(user, PoolObject(pool), Callback(Len(ops) + 1, "issue"))
      BY <2>1 DEF Remove, Submit
    <2>4. "remove" \in Kinds
      BY DEF Kinds
    <2>5. ops'[n] = ops[n]
      BY <2>2, <2>3, <2>4, ToldSame, GrownFacts
    <2> QED BY <2>5
  <1>3. CASE \E m \in DOMAIN ops : CancelRequest(m)
    <2>1. PICK m \in DOMAIN ops : CancelRequest(m)
      BY <1>3
    <2> DEFINE users == Define(user, ops[m].user, Callback(m, "cancel"))
               told == [ops EXCEPT ![m].status = "cancelled"]
    <2>2. /\ Submit("cancel", ops[m].user, m, users, told)
          /\ Held(m)
      BY <2>1 DEF CancelRequest
    <2>3. Told(users, told)
      BY <2>2, ToldCancelled
    <2> HIDE DEF users, told
    <2>4. PICK place \in {"pend", "sq", "next"} :
            ops' = Append(told, Operation("cancel", PoolObject(pool), place))
      BY <2>2 DEF Submit
    <2>5. pool' = PoolMalloc(pool)
          /\ user' = Define(users, PoolObject(pool), Callback(Len(ops) + 1, "issue"))
      BY <2>2 DEF Submit
    <2>6. "cancel" \in Kinds
      BY DEF Kinds
    <2>7. ops'[n] = told[n]
      BY <2>3, <2>4, <2>5, <2>6, GrownFacts
    <2> QED BY <2>3, <2>7 DEF Told
  <1>4. CASE \E m \in DOMAIN ops : CancelNext(m)
    <2>1. PICK m \in DOMAIN ops : CancelNext(m)
      BY <1>4
    <2>2. Told(user', ops')
      BY <2>1, ToldCancelled DEF CancelNext
    <2> QED BY <2>2 DEF Told
  <1>5. CASE Schedule
    <2>1. /\ ops' = Append(ops, Operation("next", PoolObject(pool), "next"))
          /\ pool' = PoolMalloc(pool)
          /\ user' = Define(user, PoolObject(pool), Callback(Len(ops) + 1, "issue"))
      BY <1>5 DEF Schedule
    <2>2. "next" \in Kinds
      BY DEF Kinds
    <2>3. ops'[n] = ops[n]
      BY <2>1, <2>2, ToldSame, GrownFacts
    <2> QED BY <2>3
  <1> QED BY <1>1, <1>2, <1>3, <1>4, <1>5 DEF Client

\* A step that moves an operation calls no callback.
LEMMA MoveSilent ==
  ASSUME Inv, NEW g, g \in DOMAIN ops,
         NEW place \in {"pend", "sq", "kernel", "cq", "call", "next", "free"},
         ops' = [ops EXCEPT ![g].at = place],
         NEW n \in DOMAIN ops
  PROVE  ops'[n].calls = ops[n].calls
  BY MovedFacts DEF Inv

\* The steps of the kernel and of the loop.
LEMMA OtherSilent ==
  ASSUME Inv, Kernel \/ Loop, NEW n \in DOMAIN ops, ops[n].status \in {"cancelled", "closed"}
  PROVE  ops'[n].calls = ops[n].calls
  <1>1. CASE KernelTake
    <2>1. sq \in Seq(SqeType) /\ sq # <<>>
      BY <1>1 DEF KernelTake, Inv, TypeOK
    <2>2. 1 \in DOMAIN sq /\ Head(sq) = sq[1]
      BY <2>1, TailCases
    <2>3. Head(sq).gen \in DOMAIN ops
      BY <2>2 DEF Inv, Places, SqPlaces, Owns
    <2>4. \/ ops' = [ops EXCEPT ![Head(sq).gen].at = "cq"]
          \/ ops' = [ops EXCEPT ![Head(sq).gen].at = "kernel"]
      BY <1>1 DEF KernelTake
    <2> QED BY <2>3, <2>4, MoveSilent
  <1>2. CASE \E k \in kernel : KernelComplete(k)
    <2>1. PICK k \in kernel : KernelComplete(k)
      BY <1>2
    <2>2. k.gen \in DOMAIN ops /\ ops' = [ops EXCEPT ![k.gen].at = "cq"]
      BY <2>1 DEF KernelComplete, Inv, Places, KernelPlaces, Owns
    <2> QED BY <2>2, MoveSilent
  <1>3. CASE FlushReturn
    <2>1. pend[1].gen \in DOMAIN ops /\ ops' = [ops EXCEPT ![pend[1].gen].at = "sq"]
      BY <1>3, PendFacts DEF FlushReturn, Inv, Places, PendPlaces, Owns
    <2> QED BY <2>1, MoveSilent
  <1>4. CASE NextReturn \/ (CqeReturn /\ ~ cur.more)
    <2>1. cur.gen \in DOMAIN ops /\ ops' = [ops EXCEPT ![cur.gen].at = "free"]
      BY <1>4 DEF NextReturn, CqeReturn, FreeUser, Inv, Places, CurPlaces, Owns
    <2> QED BY <2>1, MoveSilent
  <1>5. CASE CqeCall
    BY <1>5, CqeCallFacts
  <1>6. CASE NextCall
    BY <1>6, NextCallFacts
  <1>7. CASE UNCHANGED ops
    BY <1>7
  <1>8. \/ KernelTake \/ (\E k \in kernel : KernelComplete(k)) \/ FlushReturn
        \/ NextReturn \/ (CqeReturn /\ ~ cur.more) \/ CqeCall \/ NextCall \/ UNCHANGED ops
    BY DEF Kernel, Loop, KernelMore, LoopStart, LoopReturn, LoopNext, LoopNoNext, NextClear,
           Enter, EnterReturn, CqeReturn, CqeEmpty
  <1> QED BY <1>1, <1>2, <1>3, <1>4, <1>5, <1>6, <1>7, <1>8

\* The invariant holds in every reachable state.
THEOREM Invariance == Spec => []Inv
  <1>1. Init => Inv
    BY InitInv
  <1>2. Inv /\ [Next]_vars => Inv'
    BY NextInv
  <1> QED BY <1>1, <1>2, PTL DEF Spec

\* The types of reactor.c's state, and the bounds of its submission ring.
THEOREM TypeCorrect == Spec => []TypeOK
  <1>1. Inv => TypeOK
    BY DEF Inv
  <1> QED BY <1>1, Invariance, PTL

\* No user is handed out twice, leaked or freed twice, for any number of
\* operations and any chunk and ring size.
THEOREM PoolIsExact == Spec => []PoolExact
  <1>1. Inv => PoolExact
    BY DEF Inv
  <1> QED BY <1>1, Invariance, PTL

\* A cancellation never reaches an operation that was handed the address of
\* the one it was meant for.
THEOREM CancelIsAimed == Spec => []CancelHitsItsTarget
  <1>1. Inv => CancelHitsItsTarget
    <2> SUFFICES ASSUME Inv, sq # <<>>, Head(sq).op \in {"cancel", "remove"},
                        NEW k \in kernel, k.user = Head(sq).addr
                 PROVE  k.gen = Head(sq).target
      BY DEF CancelHitsItsTarget
    <2>1. sq \in Seq(SqeType)
      BY DEF Inv, TypeOK
    <2>2. 1 \in DOMAIN sq /\ Head(sq) = sq[1]
      BY <2>1, TailCases
    <2> QED BY <2>2 DEF Inv, Aimed, Means
  <1> QED BY <1>1, Invariance, PTL

\* Every completion is passed to a callback of the operation it completes.
THEOREM CallbacksBelong == Spec => []CallbackBelongs
  <1>1. Inv => CallbackBelongs
    BY DEF Inv
  <1> QED BY <1>1, Invariance, PTL

\* Scheduled calls run in the order in which they were scheduled.
THEOREM NextIsInOrder == Spec => []NextInOrder
  <1>1. Inv => NextInOrder
    BY DEF Inv
  <1> QED BY <1>1, Invariance, PTL

\* After reactor_cancel() the callback of the operation is not called again.
THEOREM CancelSilences == Spec => SilentAfterCancel
  <1>1. Inv /\ [Next]_vars =>
          [\A n \in DOMAIN ops :
             ops[n].status \in {"cancelled", "closed"} => ops'[n].calls = ops[n].calls]_vars
    BY ClientSilent, OtherSilent DEF Next
  <1> QED BY <1>1, Invariance, PTL DEF Spec, SilentAfterCancel

\* When reactor_loop() returns because pool_size() is 0, every operation has
\* been answered.
THEOREM LoopIsDone == Spec => []LoopReturnsWhenDone
  <1>1. Inv => LoopReturnsWhenDone
    <2> SUFFICES ASSUME Inv, pool.allocated = 0, NEW n \in DOMAIN ops
                 PROVE  ops[n].status \in {"done", "closed"}
      BY DEF LoopReturnsWhenDone
    <2> DEFINE used == {ops[m].user : m \in Open}
    <2>1. used \subseteq 1 .. pool.size /\ Cardinality(used) = 0 /\ pool.size \in Nat
      BY DEF Inv, PoolExact, PoolInv, PoolType
    <2>2. IsFiniteSet(1 .. pool.size)
      BY <2>1, FS_Interval
    <2>3. IsFiniteSet(used)
      BY <2>1, <2>2, FS_Subset
    <2>4. used = {}
      BY <2>1, <2>3, FS_EmptySet
    <2>5. ops[n].at = "free"
      BY <2>4 DEF Open
    <2> QED BY <2>5 DEF Inv, Ended
  <1> QED BY <1>1, Invariance, PTL


-----------------------------------------------------------------------------
(***************************************************************************)
(* The reactor keeps the promise of module Operations, and never sleeps on *)
(* an idle ring.  Both rest on Progress, which is inductive relative to    *)
(* Inv: every operation really is where it is said to be, and what is      *)
(* queued for a callback is still awaited.                                 *)
(***************************************************************************)

\* The steps of the loop that only move on.
LEMMA MoveProgress ==
  ASSUME Inv, Progress,
         LoopStart \/ LoopReturn \/ LoopNoNext \/ Enter \/ EnterReturn \/ CqeEmpty
  PROVE  Progress'
  <1>1. /\ UNCHANGED <<pool, user, sq, pend, kernel, cq, next, current, index, cur, shots, ops>>
        /\ pc \notin {"call", "nextcall"} /\ pc' \notin {"call", "nextcall"}
    BY DEF LoopStart, LoopReturn, LoopNoNext, Enter, Iterated, EnterReturn, CqeEmpty
  <1>2. Located' /\ Unanswered'
    BY <1>1 DEF Progress, Located, Unanswered, Waits
  <1>3. pc' = "enter" => pool.allocated > Len(next[current])
    BY DEF LoopStart, LoopReturn, LoopNoNext, Enter, Iterated, EnterReturn, CqeEmpty
  <1>4. pool.allocated \in Nat /\ Len(next[current]) \in Nat
    BY DEF Inv, TypeOK, PoolType
  <1>5. EntersInUse'
    BY <1>1, <1>3, <1>4 DEF EntersInUse
  <1> QED BY <1>2, <1>5 DEF Progress

\* reactor_loop_once() turns to the other vector.
LEMMA LoopNextProgress ==
  ASSUME Inv, Progress, LoopNext
  PROVE  Progress'
  <1>1. /\ UNCHANGED <<pool, user, sq, pend, kernel, cq, next, cur, shots, ops>>
        /\ pc = "top" /\ pc' = "next" /\ current' = 1 - current /\ index' = 1
        /\ current \in {0, 1} /\ next[1 - current] = <<>>
        /\ next \in [{0, 1} -> Seq([gen : Nat, user : Nat])]
    BY DEF LoopNext, Inv, Phase, TypeOK
  <1>2. 1 - current' = current /\ \A i \in DOMAIN next[current] : i \in Nat /\ i >= 1
    BY <1>1, SMTT(60)
  <1>3. Located'
    <2>1. \A n \in DOMAIN ops : ops[n].at = "next" => \E i \in DOMAIN next[current] : next[current][i].gen = n
      BY <1>1 DEF Progress, Located
    <2>2. \A n \in DOMAIN ops : ops[n].at = "next" =>
            \E i \in DOMAIN next[1 - current'] : i >= 1 /\ next[1 - current'][i].gen = n
      BY <1>2, <2>1
    <2> QED BY <1>1, <2>2 DEF Progress, Located
  <1>4. Unanswered' /\ EntersInUse'
    BY <1>1 DEF Progress, Unanswered, Waits, EntersInUse
  <1> QED BY <1>3, <1>4 DEF Progress

\* vector_clear(): every call of the vector has been made.
LEMMA NextClearProgress ==
  ASSUME Inv, Progress, NextClear
  PROVE  Progress'
  <1>1. /\ UNCHANGED <<pool, user, sq, pend, kernel, cq, current, cur, shots, ops>>
        /\ pc = "next" /\ pc' = "wait" /\ index > Len(next[1 - current])
        /\ next' = [next EXCEPT ![1 - current] = <<>>]
        /\ current \in {0, 1} /\ index \in Nat
        /\ next \in [{0, 1} -> Seq([gen : Nat, user : Nat])]
    BY DEF NextClear, Inv, TypeOK
  <1>2. next'[current] = next[current] /\ \A i \in DOMAIN next[1 - current] : ~ (i >= index)
    BY <1>1
  <1>3. Located'
    BY <1>1, <1>2, SMTT(60) DEF Progress, Located
  <1>4. Unanswered' /\ EntersInUse'
    BY <1>1 DEF Progress, Unanswered, Waits, EntersInUse
  <1> QED BY <1>3, <1>4 DEF Progress

\* A scheduled call is made: its operation is answered.
LEMMA NextCallProgress ==
  ASSUME Inv, Progress, NextCall
  PROVE  Progress'
  <1> DEFINE g == next[1 - current][index].gen
  <1>1. /\ pc = "next" /\ pc' = "nextcall"
        /\ UNCHANGED <<pool, user, sq, pend, kernel, cq, next, current, index, shots>>
        /\ g \in DOMAIN ops /\ ops[g].at = "next"
        /\ DOMAIN ops' = DOMAIN ops
        /\ \A n \in DOMAIN ops :
             /\ ops'[n].kind = ops[n].kind
             /\ ops'[n].at = ops[n].at
             /\ n # g => ops'[n] = ops[n]
        /\ cur'.gen = g
    BY NextCallFacts, SMTT(60)
  <1> HIDE DEF g
  <1>2. Located' /\ EntersInUse'
    BY <1>1 DEF Progress, Located, EntersInUse
  <1>3. /\ \A k \in kernel : k.gen \in DOMAIN ops /\ k.gen # g
        /\ \A i \in DOMAIN cq : cq[i].gen \in DOMAIN ops /\ cq[i].gen # g
    BY <1>1 DEF Inv, Places, KernelPlaces, CqPlaces, Owns
  <1>4. Unanswered'
    BY SMTT(30), <1>1, <1>3 DEF Progress, Unanswered, Waits
  <1> QED BY <1>2, <1>4 DEF Progress

\* reactor_free_user() after a scheduled call.
LEMMA NextReturnProgress ==
  ASSUME Inv, Progress, NextReturn
  PROVE  Progress'
  <1> DEFINE g == cur.gen
  <1>1. /\ pc = "nextcall" /\ pc' = "next" /\ index' = index + 1
        /\ UNCHANGED <<user, sq, pend, kernel, cq, next, current, shots>>
        /\ g \in DOMAIN ops /\ ops[g].at = "next"
        /\ index \in DOMAIN next[1 - current] /\ g = next[1 - current][index].gen
        /\ index \in Nat /\ current \in {0, 1}
        /\ next \in [{0, 1} -> Seq([gen : Nat, user : Nat])]
    BY DEF NextReturn, Inv, Places, CurPlaces, Owns, TypeOK
  <1>2. /\ DOMAIN ops' = DOMAIN ops
        /\ \A n \in DOMAIN ops :
              /\ ops'[n].kind = ops[n].kind
              /\ ops'[n].status = ops[n].status
              /\ ops'[n].at = IF n = g THEN "free" ELSE ops[n].at
    <2>1. ops' = [ops EXCEPT ![g].at = "free"]
      BY DEF NextReturn, FreeUser
    <2> QED BY <1>1, <2>1, MovedFacts, ZenonT(60) DEF Inv
  <1> HIDE DEF g
  <1>3. \A i \in DOMAIN next[1 - current] : i \in Nat
    BY <1>1
  <1>4. \A n \in DOMAIN ops : ops'[n].at = "next" =>
          \/ \E i \in DOMAIN next[current] : next[current][i].gen = n
          \/ \E i \in DOMAIN next[1 - current] : i >= index + 1 /\ next[1 - current][i].gen = n
    <2> SUFFICES ASSUME NEW n \in DOMAIN ops, n # g, ops[n].at = "next",
                        NEW i \in DOMAIN next[1 - current], i >= index, next[1 - current][i].gen = n
                 PROVE  i >= index + 1
      BY <1>2 DEF Progress, Located
    <2>1. i # index
      BY <1>1, Zenon
    <2>2. i \in Nat /\ index \in Nat
      BY <1>1, <1>3
    <2> QED BY <2>1, <2>2
  <1>5. Located' /\ EntersInUse'
    <2>1. \A n \in DOMAIN ops : ops'[n].at \in {"free", ops[n].at} /\ ops[n].at # "call"
      BY <1>1, <1>2 DEF Progress, Located
    <2>2. UNCHANGED <<sq, pend, kernel, cq, next, current>> /\ index' = index + 1 /\ pc' = "next"
      BY <1>1
    <2>3. Located'
      BY <1>2, <1>4, <2>1, <2>2 DEF Progress, Located
    <2> QED BY <2>2, <2>3 DEF EntersInUse
  <1>6. /\ \A k \in kernel : k.gen \in DOMAIN ops /\ k.gen # g
        /\ \A i \in DOMAIN cq : cq[i].gen \in DOMAIN ops /\ cq[i].gen # g
    BY <1>1 DEF Inv, Places, KernelPlaces, CqPlaces, Owns
  <1>7. Unanswered'
    <2>1. \A n \in DOMAIN ops : ops'[n].at = "next" => Waits(n)
      BY <1>2 DEF Progress, Unanswered, g
    <2>2. \A n \in DOMAIN ops : Waits(n)' <=> Waits(n)
      BY <1>2 DEF Waits
    <2>3. UNCHANGED <<kernel, cq>>
      BY <1>1
    <2> QED BY <1>2, <1>6, <2>1, <2>2, <2>3 DEF Progress, Unanswered
  <1> QED BY <1>5, <1>7 DEF Progress

\* reactor_ring_flush() returns: the waiting entry is written.
LEMMA FlushReturnProgress ==
  ASSUME Inv, Progress, FlushReturn
  PROVE  Progress'
  <1> DEFINE g == pend[1].gen
  <1>1. /\ DOMAIN pend = {1} /\ DOMAIN sq = {} /\ sq' = pend /\ DOMAIN pend' = {}
        /\ ops' = [ops EXCEPT ![g].at = "sq"]
        /\ UNCHANGED <<pool, user, kernel, cq, next, current, pc, index, cur, shots>>
    BY PendFacts DEF Inv, FlushReturn
  <1>2. g \in DOMAIN ops /\ ops[g].at = "pend"
    BY <1>1 DEF Inv, Places, PendPlaces, Owns
  <1>3. /\ DOMAIN ops' = DOMAIN ops
        /\ \A n \in DOMAIN ops :
              /\ ops'[n].kind = ops[n].kind
              /\ ops'[n].status = ops[n].status
              /\ ops'[n].at = IF n = g THEN "sq" ELSE ops[n].at
    BY <1>1, <1>2, MovedFacts, ZenonT(60) DEF Inv
  <1> HIDE DEF g
  <1>4. /\ \A k \in kernel : k.gen \in DOMAIN ops
        /\ \A i \in DOMAIN cq : cq[i].gen \in DOMAIN ops
    BY DEF Inv, Places, KernelPlaces, CqPlaces, Owns
  <1>5. Located'
    <2>1. \A n \in DOMAIN ops : ops[n].at = "pend" => n = g
      BY <1>1 DEF Progress, Located, g
    <2> QED BY <1>1, <1>3, <2>1 DEF Progress, Located, g
  <1>6. Unanswered'
    BY SMTT(30), <1>1, <1>2, <1>3, <1>4 DEF Progress, Unanswered, Waits
  <1>7. EntersInUse'
    BY <1>1 DEF Progress, EntersInUse
  <1> QED BY <1>5, <1>6, <1>7 DEF Progress

\* A completion is handed to the callback of its operation.
LEMMA CqeCallProgress ==
  ASSUME Inv, Progress, CqeCall
  PROVE  Progress'
  <1> DEFINE c == Head(cq)
             g == c.gen
             zc == ops[g].kind = "zc"
  <1>1. /\ c = cq[1] /\ 1 \in DOMAIN cq /\ c \in CqeType
        /\ g \in DOMAIN ops
        /\ ops[g].at \in (IF c.more THEN {"kernel", "cq"} ELSE {"cq"})
        /\ DOMAIN ops' = DOMAIN ops
        /\ \A n \in DOMAIN ops :
             /\ ops'[n].kind = ops[n].kind
             /\ ops'[n].at = IF n = g /\ ~ c.more THEN "call" ELSE ops[n].at
             /\ n # g => ops'[n].status = ops[n].status
        /\ c.notif \/ (c.more /\ ~ zc) => ops'[g].status = ops[g].status
        /\ cur'.gen = g /\ cur'.more = c.more
    BY CqeCallFacts
  <1>2. /\ pc = "cqe" /\ pc' = "call" /\ cq' = Tail(cq)
        /\ UNCHANGED <<pool, user, sq, pend, kernel, next, current, index, shots>>
    BY Zenon DEF CqeCall
  <1>3. /\ \A i \in DOMAIN cq' : i \in Nat /\ i + 1 \in DOMAIN cq /\ cq'[i] = cq[i + 1] /\ 1 < i + 1
        /\ \A i \in DOMAIN cq : i \in Nat /\ (i = 1 \/ (i - 1 \in DOMAIN cq' /\ cq'[i - 1] = cq[i]))
    <2>1. cq \in Seq(CqeType) /\ cq # <<>>
      BY Zenon DEF Inv, TypeOK, CqeCall
    <2> QED BY <1>2, <2>1, TailCases
  <1> HIDE DEF c, g, zc
  <1>4. Located'
    <2> SUFFICES ASSUME NEW n \in DOMAIN ops
                 PROVE  /\ ops'[n].at = "sq" => \E i \in DOMAIN sq : sq[i].gen = n
                        /\ ops'[n].at = "pend" => \E i \in DOMAIN pend : pend[i].gen = n
                        /\ ops'[n].at = "kernel" => \E k \in kernel : k.gen = n
                        /\ ops'[n].at = "cq" => \E i \in DOMAIN cq' : cq'[i].gen = n /\ ~ cq'[i].more
                        /\ ops'[n].at = "call" => cur'.gen = n /\ ~ cur'.more
                        /\ ops'[n].at = "next" =>
                             \/ \E i \in DOMAIN next[current] : next[current][i].gen = n
                             \/ \E i \in DOMAIN next[1 - current] :
                                  i >= index /\ next[1 - current][i].gen = n
      BY <1>1, <1>2 DEF Located
    <2>1. CASE ops'[n].at = "cq"
      <3>1. ops[n].at = "cq" /\ (n = g => c.more)
        BY <1>1, <2>1
      <3>2. PICK i \in DOMAIN cq : cq[i].gen = n /\ ~ cq[i].more
        BY <3>1 DEF Progress, Located
      <3>3. i # 1
        BY <1>1, <3>1, <3>2 DEF g
      <3> QED BY <1>3, <2>1, <3>2, <3>3
    <2>2. CASE ops'[n].at = "call"
      BY <1>1, <1>2, <2>2 DEF Progress, Located
    <2>3. CASE ops'[n].at \notin {"cq", "call"}
      <3>1. ops'[n].at = ops[n].at
        BY <1>1, <2>3
      <3> QED BY <2>3, <3>1 DEF Progress, Located
    <2> QED BY <2>1, <2>2, <2>3
  <1>5. /\ \A k \in kernel : k.gen \in DOMAIN ops
        /\ \A i \in DOMAIN cq : cq[i].gen \in DOMAIN ops
    BY DEF Inv, Places, KernelPlaces, CqPlaces, Owns
  <1>6. \A n \in DOMAIN ops' : ops'[n].at \in {"sq", "pend"} => Waits(n)'
    BY <1>1 DEF Progress, Unanswered, Waits
  <1>7. \A n \in DOMAIN ops' :
          ops'[n].at = "next" => Waits(n)' \/ (pc' = "nextcall" /\ n = cur'.gen)
    BY <1>1, <1>2 DEF Progress, Unanswered, Waits
  <1>8. \A i, j \in DOMAIN cq' :
          i < j /\ cq'[i].gen = cq'[j].gen /\ ops'[cq'[i].gen].kind = "zc" => cq'[j].notif
    <2> TAKE i, j \in DOMAIN cq'
    <2>1. i + 1 \in DOMAIN cq /\ j + 1 \in DOMAIN cq /\ cq'[i] = cq[i + 1] /\ cq'[j] = cq[j + 1]
          /\ i \in Nat /\ j \in Nat
      BY <1>3
    <2>2. ops'[cq[i + 1].gen].kind = ops[cq[i + 1].gen].kind
      BY <1>1, <1>5, <2>1
    <2>3. i < j => i + 1 < j + 1
      BY <2>1
    <2> QED BY <2>1, <2>2, <2>3 DEF Progress, Unanswered
  <1>9. \A i \in DOMAIN cq' :
          /\ ~ cq'[i].notif => Waits(cq[i].gen)'
          /\ cq'[i].more => ops'[cq'[i].gen].kind \in {"multi", "zc"}
    <2> TAKE i \in DOMAIN cq'
    <2>1. i + 1 \in DOMAIN cq /\ cq'[i] = cq[i + 1] /\ 1 < i + 1
      BY <1>3
    <2>2. cq'[i].gen = g => c.more /\ (zc => cq'[i].notif)
      BY <1>1, <2>1 DEF Inv, Unique, Progress, Unanswered, g, zc
    <2>3. ~ cq'[i].notif => ops'[cq'[i].gen].status = ops[cq[i + 1].gen].status
      BY <1>1, <1>5, <2>1, <2>2
    <2>4. ~ cq'[i].notif => Waits(cq[i].gen)'
      BY <2>1, <2>3 DEF Progress, Unanswered, Waits
    <2>5. cq'[i].more => ops'[cq'[i].gen].kind \in {"multi", "zc"}
      BY <1>1, <1>5, <2>1 DEF Progress, Unanswered
    <2> QED BY <2>4, <2>5
  <1>10. \A k \in kernel' :
          /\ k.op # "notif" => Waits(k.gen)'
          /\ k.op = "multi" <=> ops'[k.gen].kind = "multi"
          /\ k.op = "zc" => \A i \in DOMAIN cq' : cq'[i].gen # k.gen
    <2> TAKE k \in kernel'
    <2>1. k \in kernel /\ ops[k.gen].at = "kernel"
      BY <1>2 DEF Inv, Places, KernelPlaces, Owns
    <2>2. k.gen = g => c.more /\ (zc => k.op = "notif")
      <3>1. k.gen = g /\ zc => k.op # "zc" /\ k.op \in {"zc", "notif"}
        BY <1>1, <2>1 DEF Inv, Ended, Progress, Unanswered, g, zc
      <3> QED BY <1>1, <2>1, <3>1
    <2>3. k.op # "notif" => ops'[k.gen].status = ops[k.gen].status
      BY <1>1, <1>5, <2>1, <2>2
    <2>4. k.op # "notif" => Waits(k.gen)'
      BY <2>1, <2>3 DEF Progress, Unanswered, Waits
    <2>5. k.op = "multi" <=> ops'[k.gen].kind = "multi"
      BY <1>1, <1>5, <2>1 DEF Progress, Unanswered
    <2>6. k.op = "zc" => \A i \in DOMAIN cq' : cq'[i].gen # k.gen
      BY <1>3, <2>1 DEF Progress, Unanswered
    <2> QED BY <2>4, <2>5, <2>6
  <1>11. Unanswered'
    BY Zenon, <1>6, <1>7, <1>8, <1>9, <1>10 DEF Unanswered
  <1>12. EntersInUse'
    BY <1>2 DEF EntersInUse
  <1> QED BY <1>4, <1>11, <1>12 DEF Progress

\* The callback of a completion returns.
LEMMA CqeReturnProgress ==
  ASSUME Inv, Progress, CqeReturn
  PROVE  Progress'
  <1> DEFINE g == cur.gen
  <1>1. /\ pc = "call" /\ pc' = "cqe"
        /\ UNCHANGED <<user, sq, pend, kernel, cq, next, current, index, shots>>
    BY DEF CqeReturn
  <1>2. CASE cur.more
    <2>1. UNCHANGED <<pool, ops>>
      BY <1>2 DEF CqeReturn
    <2>2. \A n \in DOMAIN ops : ops[n].at # "call"
      BY <1>2 DEF Progress, Located
    <2> QED BY SMTT(30), <1>1, <2>1, <2>2 DEF Progress, Located, Unanswered, Waits, EntersInUse
  <1>3. CASE ~ cur.more
    <2>1. g \in DOMAIN ops /\ ops[g].at = "call"
      BY <1>1, <1>3 DEF Inv, Places, CurPlaces, Owns
    <2>2. /\ DOMAIN ops' = DOMAIN ops
          /\ \A n \in DOMAIN ops :
                /\ ops'[n].kind = ops[n].kind
                /\ ops'[n].status = ops[n].status
                /\ ops'[n].at = IF n = g THEN "free" ELSE ops[n].at
      <3>1. ops' = [ops EXCEPT ![g].at = "free"]
        BY <1>3 DEF CqeReturn, FreeUser
      <3> QED BY <2>1, <3>1, MovedFacts DEF Inv
    <2>3. \A n \in DOMAIN ops : ops[n].at = "call" => n = g
      BY DEF Progress, Located
    <2> HIDE DEF g
    <2>4. Located'
      BY <1>1, <2>2, <2>3 DEF Progress, Located
    <2>5. /\ \A k \in kernel : k.gen \in DOMAIN ops
          /\ \A i \in DOMAIN cq : cq[i].gen \in DOMAIN ops
      BY DEF Inv, Places, KernelPlaces, CqPlaces, Owns
    <2>6. Unanswered'
      BY SMTT(30), <1>1, <2>2, <2>5 DEF Progress, Unanswered, Waits
    <2> QED BY <1>1, <2>4, <2>6 DEF Progress, EntersInUse
  <1> QED BY <1>2, <1>3

\* The kernel takes the oldest submission.
LEMMA KernelTakeProgress ==
  ASSUME Inv, Progress, KernelTake
  PROVE  Progress'
  <1> DEFINE e == Head(sq)
             g == e.gen
             n == Len(cq) + 1
             instant == e.op \in {"cancel", "remove"}
             place == IF instant THEN "cq" ELSE "kernel"
  <1>1. /\ e = sq[1] /\ 1 \in DOMAIN sq /\ e \in SqeType
        /\ \A i \in DOMAIN sq : i \in Nat /\ (i = 1 \/ (i - 1 \in DOMAIN sq' /\ sq'[i - 1] = sq[i]))
    <2>1. sq \in Seq(SqeType) /\ sq # <<>> /\ sq' = Tail(sq)
      BY DEF Inv, TypeOK, KernelTake
    <2> QED BY <2>1, TailCases
  <1>2. UNCHANGED <<pool, user, pend, next, current, pc, index, cur, shots>>
    BY SMTT(60) DEF KernelTake
  <1>3. g \in DOMAIN ops /\ ops[g].at = "sq" /\ ops[g].kind = e.op /\ Waits(g)
    BY SMTT(60), <1>1 DEF Inv, Places, SqPlaces, Owns, Ended, Progress, Unanswered
  <1>4. /\ DOMAIN ops' = DOMAIN ops
        /\ \A m \in DOMAIN ops :
              /\ ops'[m].kind = ops[m].kind
              /\ ops'[m].status = ops[m].status
              /\ ops'[m].at = IF m = g THEN place ELSE ops[m].at
    <2>1. ops' = [ops EXCEPT ![g].at = place]
      BY DEF KernelTake
    <2>2. TypeOK
      BY DEF Inv
    <2> QED BY <1>3, <2>1, <2>2, MovedFacts, SMTT(60)
  <1>5. /\ n \in Nat
        /\ \A i \in DOMAIN cq : i \in DOMAIN cq' /\ cq'[i] = cq[i] /\ i < n
        /\ \A i \in DOMAIN cq' :
             \/ i \in DOMAIN cq
             \/ instant /\ i = n /\ cq'[i].gen = g /\ ~ cq'[i].more /\ ~ cq'[i].notif
        /\ instant => n \in DOMAIN cq' /\ cq'[n].gen = g /\ ~ cq'[n].more
    <2> DEFINE c == Completion(e, FALSE, FALSE)
    <2>1. cq \in Seq(CqeType) /\ Len(cq) \in Nat /\ \A i \in DOMAIN cq : i < n
      BY DEF Inv, TypeOK
    <2>2. CASE instant
      <3>1. cq' = Append(cq, c)
        BY <2>2 DEF KernelTake
      <3>2. c \in CqeType /\ c.gen = g /\ ~ c.more /\ ~ c.notif
        BY <1>1 DEF Completion, CqeType, SqeType
      <3> HIDE DEF c
      <3> QED BY <2>1, <2>2, <3>1, <3>2, AppendCases
    <2>3. CASE ~ instant
      <3>1. cq' = cq
        BY <2>3 DEF KernelTake
      <3> QED BY <2>1, <2>3, <3>1
    <2> QED BY <2>2, <2>3
  <1>6. /\ \A l \in kernel' :
             \/ \E k \in kernel : k.gen = l.gen /\ k.op = l.op
             \/ ~ instant /\ l.gen = g /\ l.op = e.op
        /\ \A k \in kernel : \E l \in kernel' : l.gen = k.gen
        /\ ~ instant => \E l \in kernel' : l.gen = g
    <2>1. kernel \subseteq RequestType
      BY DEF Inv, TypeOK
    <2>2. CASE instant
      <3> DEFINE f(k) == [k EXCEPT !.stop = @ \/ (e.op = "cancel" /\ k.user = e.addr)]
      <3>1. kernel' = {f(k) : k \in kernel}
        BY <2>2 DEF KernelTake
      <3>2. \A k \in kernel : f(k).gen = k.gen /\ f(k).op = k.op
        BY <2>1 DEF RequestType
      <3> HIDE DEF f
      <3> QED BY <2>2, <3>1, <3>2
    <2>3. CASE ~ instant
      <3> DEFINE r == [op |-> e.op, gen |-> g, user |-> e.user, stop |-> FALSE]
      <3>1. kernel' = kernel \cup {r}
        BY <2>3 DEF KernelTake
      <3>2. r.gen = g /\ r.op = e.op
        OBVIOUS
      <3> HIDE DEF r
      <3> QED BY <2>3, <3>1, <3>2
    <2> QED BY <2>2, <2>3
  <1>7. /\ \A k \in kernel : k.gen \in DOMAIN ops /\ k.gen # g
        /\ \A i \in DOMAIN cq : cq[i].gen \in DOMAIN ops /\ cq[i].gen # g
    BY <1>3 DEF Inv, Places, KernelPlaces, CqPlaces, Owns
  <1> HIDE DEF e, g, n
  <1>8. \A m \in DOMAIN ops : ops'[m].at = "sq" => \E i \in DOMAIN sq' : sq'[i].gen = m
    <2> TAKE m \in DOMAIN ops
    <2> HAVE ops'[m].at = "sq"
    <2>1. ops[m].at = "sq" /\ m # g
      BY <1>4
    <2>2. PICK i \in DOMAIN sq : sq[i].gen = m
      BY <2>1 DEF Progress, Located
    <2>3. i # 1
      BY <1>1, <2>1, <2>2 DEF g
    <2> QED BY <1>1, <2>2, <2>3
  <1>9. Located'
    <2> SUFFICES ASSUME NEW m \in DOMAIN ops
                 PROVE  /\ ops'[m].at = "pend" => \E i \in DOMAIN pend : pend[i].gen = m
                        /\ ops'[m].at = "kernel" => \E k \in kernel' : k.gen = m
                        /\ ops'[m].at = "cq" => \E i \in DOMAIN cq' : cq'[i].gen = m /\ ~ cq'[i].more
                        /\ ops'[m].at = "call" => pc = "call" /\ cur.gen = m /\ ~ cur.more
                        /\ ops'[m].at = "next" =>
                             \/ \E i \in DOMAIN next[current] : next[current][i].gen = m
                             \/ \E i \in DOMAIN next[1 - current] :
                                  i >= index /\ next[1 - current][i].gen = m
      BY <1>2, <1>4, <1>8 DEF Located
    <2>1. CASE m = g
      BY <1>4, <1>5, <1>6, <2>1
    <2>2. CASE m # g
      <3>1. ops'[m].at = ops[m].at
        BY <1>4, <2>2
      <3> QED BY <1>5, <1>6, <3>1 DEF Progress, Located
    <2> QED BY <2>1, <2>2
  <1>10. \A m \in DOMAIN ops : Waits(m)' <=> Waits(m)
    BY <1>4 DEF Waits
  <1>11. \A m \in DOMAIN ops' : ops'[m].at \in {"sq", "pend"} => Waits(m)'
    BY <1>4, <1>10 DEF Progress, Unanswered
  <1>12. \A m \in DOMAIN ops' : ops'[m].at = "next" => Waits(m)' \/ (pc' = "nextcall" /\ m = cur'.gen)
    BY <1>2, <1>4, <1>10 DEF Progress, Unanswered
  <1>13. \A l \in kernel' :
          /\ l.op # "notif" => Waits(l.gen)'
          /\ l.op = "multi" <=> ops'[l.gen].kind = "multi"
          /\ l.op = "zc" => \A i \in DOMAIN cq' : cq'[i].gen # l.gen
    <2> TAKE l \in kernel'
    <2>1. CASE ~ instant /\ l.gen = g /\ l.op = e.op
      BY <1>3, <1>4, <1>5, <1>7, <1>10, <2>1
    <2>2. ASSUME NEW k \in kernel, k.gen = l.gen, k.op = l.op
          PROVE  /\ l.op # "notif" => Waits(l.gen)'
                 /\ l.op = "multi" <=> ops'[l.gen].kind = "multi"
                 /\ l.op = "zc" => \A i \in DOMAIN cq' : cq'[i].gen # l.gen
      BY <1>4, <1>5, <1>7, <1>10, <2>2 DEF Progress, Unanswered
    <2> QED BY <1>6, <2>1, <2>2
  <1>14. \A i \in DOMAIN cq' :
          /\ ~ cq'[i].notif => Waits(cq[i].gen)'
          /\ cq'[i].more => ops'[cq'[i].gen].kind \in {"multi", "zc"}
    <2> TAKE i \in DOMAIN cq'
    <2>1. CASE i \in DOMAIN cq
      BY <1>4, <1>5, <1>7, <1>10, <2>1 DEF Progress, Unanswered
    <2>2. CASE cq'[i].gen = g /\ ~ cq'[i].more
      BY <1>3, <1>10, <2>2
    <2> QED BY <1>5, <2>1, <2>2
  <1>15. \A i, j \in DOMAIN cq' :
          i < j /\ cq'[i].gen = cq'[j].gen /\ ops'[cq'[i].gen].kind = "zc" => cq'[j].notif
    <2> TAKE i, j \in DOMAIN cq'
    <2>1. CASE i \in DOMAIN cq /\ j \in DOMAIN cq
      BY <1>4, <1>5, <1>7, <2>1 DEF Progress, Unanswered
    <2>2. CASE instant /\ (cq'[i].gen = g \/ cq'[j].gen = g)
      BY <1>3, <1>4, <2>2
    <2> QED BY <1>5, <2>1, <2>2
  <1>16. Unanswered'
    BY Zenon, <1>11, <1>12, <1>13, <1>14, <1>15 DEF Unanswered
  <1>17. EntersInUse'
    BY <1>2 DEF Progress, EntersInUse
  <1> QED BY <1>9, <1>16, <1>17 DEF Progress

\* The last completion of a request.
LEMMA KernelCompleteProgress ==
  ASSUME Inv, Progress, NEW k \in kernel, KernelComplete(k)
  PROVE  Progress'
  <1> DEFINE g == k.gen
             c == Completion(k, FALSE, k.op = "notif")
             n == Len(cq) + 1
  <1>1. /\ kernel' = kernel \ {k}
        /\ UNCHANGED <<pool, user, sq, pend, next, current, pc, index, cur, shots>>
    BY DEF KernelComplete
  <1>2. g \in DOMAIN ops /\ ops[g].at = "kernel" /\ \A l \in kernel : l.gen = g => l = k
    BY DEF Inv, Places, KernelPlaces, Owns, Unique
  <1>3. /\ DOMAIN ops' = DOMAIN ops
        /\ \A m \in DOMAIN ops :
              /\ ops'[m].kind = ops[m].kind
              /\ ops'[m].status = ops[m].status
              /\ ops'[m].at = IF m = g THEN "cq" ELSE ops[m].at
    <2>1. ops' = [ops EXCEPT ![g].at = "cq"]
      BY DEF KernelComplete
    <2> QED BY <1>2, <2>1, MovedFacts DEF Inv
  <1>4. /\ n \in DOMAIN cq' /\ cq'[n] = c
        /\ \A i \in DOMAIN cq : i \in DOMAIN cq' /\ cq'[i] = cq[i] /\ i < n /\ i \in Nat
        /\ \A i \in DOMAIN cq' : i = n \/ i \in DOMAIN cq
        /\ n \in Nat /\ c.gen = g /\ ~ c.more /\ (c.notif <=> k.op = "notif")
    <2>1. cq \in Seq(CqeType) /\ cq' = Append(cq, c) /\ k \in RequestType
      BY DEF Inv, TypeOK, KernelComplete
    <2>2. c \in CqeType /\ c.gen = g /\ ~ c.more /\ (c.notif <=> k.op = "notif")
      BY <2>1 DEF Completion, CqeType, RequestType
    <2> HIDE DEF c
    <2> QED BY <2>1, <2>2, AppendCases
  <1>5. /\ \A l \in kernel : l.gen \in DOMAIN ops
        /\ \A i \in DOMAIN cq : cq[i].gen \in DOMAIN ops
    BY DEF Inv, Places, KernelPlaces, CqPlaces, Owns
  <1> HIDE DEF g, c, n
  <1>6. Located'
    <2> SUFFICES ASSUME NEW m \in DOMAIN ops
                 PROVE  /\ ops'[m].at = "sq" => \E i \in DOMAIN sq : sq[i].gen = m
                        /\ ops'[m].at = "pend" => \E i \in DOMAIN pend : pend[i].gen = m
                        /\ ops'[m].at = "kernel" => \E l \in kernel' : l.gen = m
                        /\ ops'[m].at = "cq" => \E i \in DOMAIN cq' : cq'[i].gen = m /\ ~ cq'[i].more
                        /\ ops'[m].at = "call" => pc = "call" /\ cur.gen = m /\ ~ cur.more
                        /\ ops'[m].at = "next" =>
                             \/ \E i \in DOMAIN next[current] : next[current][i].gen = m
                             \/ \E i \in DOMAIN next[1 - current] :
                                  i >= index /\ next[1 - current][i].gen = m
      BY <1>1, <1>3 DEF Located
    <2>1. CASE m = g
      BY <1>3, <1>4, <2>1
    <2>2. CASE m # g
      <3>1. ops'[m].at = ops[m].at
        BY <1>3, <2>2
      <3> QED BY <1>1, <1>4, <2>2, <3>1 DEF Progress, Located, g
    <2> QED BY <2>1, <2>2
  <1>7. \A m \in DOMAIN ops : Waits(m)' <=> Waits(m)
    BY <1>3 DEF Waits
  <1>8. \A m \in DOMAIN ops' : ops'[m].at \in {"sq", "pend"} => Waits(m)'
    BY <1>3, <1>7 DEF Progress, Unanswered
  <1>9. \A m \in DOMAIN ops' : ops'[m].at = "next" => Waits(m)' \/ (pc' = "nextcall" /\ m = cur'.gen)
    BY <1>1, <1>3, <1>7 DEF Progress, Unanswered
  <1>10. \A l \in kernel' :
          /\ l.op # "notif" => Waits(l.gen)'
          /\ l.op = "multi" <=> ops'[l.gen].kind = "multi"
          /\ l.op = "zc" => \A i \in DOMAIN cq' : cq'[i].gen # l.gen
    BY <1>1, <1>2, <1>3, <1>4, <1>5, <1>7 DEF Progress, Unanswered
  <1>11. \A i \in DOMAIN cq' :
          /\ ~ cq'[i].notif => Waits(cq[i].gen)'
          /\ cq'[i].more => ops'[cq'[i].gen].kind \in {"multi", "zc"}
    <2> TAKE i \in DOMAIN cq'
    <2>1. CASE i \in DOMAIN cq
      BY <1>3, <1>4, <1>5, <1>7, <2>1 DEF Progress, Unanswered
    <2>2. CASE i = n
      BY <1>2, <1>4, <1>7, <2>2 DEF Progress, Unanswered, g
    <2> QED BY <1>4, <2>1, <2>2
  <1>12. \A i, j \in DOMAIN cq' :
          i < j /\ cq'[i].gen = cq'[j].gen /\ ops'[cq'[i].gen].kind = "zc" => cq'[j].notif
    <2> TAKE i, j \in DOMAIN cq'
    <2> HAVE i < j /\ cq'[i].gen = cq'[j].gen /\ ops'[cq'[i].gen].kind = "zc"
    <2>1. CASE j \in DOMAIN cq
      <3>1. i \in DOMAIN cq
        BY <1>4, <2>1
      <3> QED BY <1>3, <1>4, <1>5, <2>1, <3>1 DEF Progress, Unanswered
    <2>2. CASE j = n
      <3>1. i \in DOMAIN cq /\ cq[i].gen = g
        BY <1>4, <2>2
      <3>2. k.op \in {"zc", "notif"} /\ k.op # "zc"
        BY <1>2, <1>3, <1>4, <2>2, <3>1 DEF Inv, Ended, Progress, Unanswered, g
      <3> QED BY <1>4, <2>2, <3>2
    <2> QED BY <1>4, <2>1, <2>2
  <1>13. Unanswered'
    BY Zenon, <1>8, <1>9, <1>10, <1>11, <1>12 DEF Unanswered
  <1>14. EntersInUse'
    BY <1>1 DEF Progress, EntersInUse
  <1> QED BY <1>6, <1>13, <1>14 DEF Progress

\* A completion that others will follow.
LEMMA KernelMoreProgress ==
  ASSUME Inv, Progress, NEW k \in kernel, KernelMore(k)
  PROVE  Progress'
  <1> DEFINE g == k.gen
             c == Completion(k, TRUE, FALSE)
             n == Len(cq) + 1
  <1>1. UNCHANGED <<pool, user, sq, pend, next, current, pc, index, cur, ops>>
    BY DEF KernelMore
  <1>2. /\ g \in DOMAIN ops /\ ops[g].at = "kernel" /\ \A l \in kernel : l.gen = g => l = k
        /\ k \in RequestType /\ k.op \in {"multi", "zc"}
    BY DEF Inv, Places, KernelPlaces, Owns, Unique, TypeOK, KernelMore
  <1>3. /\ n \in DOMAIN cq' /\ cq'[n] = c
        /\ \A i \in DOMAIN cq : i \in DOMAIN cq' /\ cq'[i] = cq[i] /\ i < n /\ i \in Nat
        /\ \A i \in DOMAIN cq' : i = n \/ i \in DOMAIN cq
        /\ n \in Nat /\ c.gen = g /\ c.more /\ ~ c.notif
    <2>1. cq \in Seq(CqeType) /\ cq' = Append(cq, c)
      BY DEF Inv, TypeOK, KernelMore
    <2>2. c \in CqeType /\ c.gen = g /\ c.more /\ ~ c.notif
      BY <1>2 DEF Completion, CqeType, RequestType
    <2> HIDE DEF c
    <2> QED BY <2>1, <2>2, AppendCases
  <1>4. /\ \A l \in kernel' :
             \/ l \in kernel /\ (k.op = "zc" => l.gen # g)
             \/ k.op = "zc" /\ l.gen = g /\ l.op = "notif"
        /\ \A l \in kernel : \E m \in kernel' : m.gen = l.gen
    <2>1. CASE k.op = "multi"
      BY <2>1 DEF KernelMore
    <2>2. CASE k.op = "zc"
      <3> DEFINE r == [k EXCEPT !.op = "notif"]
      <3>1. kernel' = (kernel \ {k}) \cup {r}
        BY <2>2 DEF KernelMore
      <3>2. r.gen = g /\ r.op = "notif"
        BY <1>2 DEF RequestType
      <3> HIDE DEF r
      <3> QED BY <1>2, <2>2, <3>1, <3>2
    <2> QED BY <1>2, <2>1, <2>2
  <1>5. /\ \A l \in kernel : l.gen \in DOMAIN ops
        /\ \A i \in DOMAIN cq : cq[i].gen \in DOMAIN ops
        /\ k.op = "zc" <=> ops[g].kind = "zc"
        /\ k.op = "multi" <=> ops[g].kind = "multi"
        /\ Waits(g)
    BY <1>2 DEF Inv, Places, KernelPlaces, CqPlaces, Owns, Ended, Progress, Unanswered
  <1> HIDE DEF g, c, n
  <1>6. Located'
    <2> SUFFICES ASSUME NEW m \in DOMAIN ops
                 PROVE  /\ ops[m].at = "kernel" => \E l \in kernel' : l.gen = m
                        /\ ops[m].at = "cq" => \E i \in DOMAIN cq' : cq'[i].gen = m /\ ~ cq'[i].more
      BY <1>1 DEF Progress, Located
    <2> QED BY <1>3, <1>4 DEF Progress, Located
  <1>7. \A m \in DOMAIN ops : Waits(m)' <=> Waits(m)
    BY <1>1 DEF Waits
  <1>8. \A l \in kernel' :
          /\ l.op # "notif" => Waits(l.gen)'
          /\ l.op = "multi" <=> ops'[l.gen].kind = "multi"
          /\ l.op = "zc" => \A i \in DOMAIN cq' : cq'[i].gen # l.gen
    <2> TAKE l \in kernel'
    <2>1. CASE l \in kernel /\ (k.op = "zc" => l.gen # g)
      <3>1. l.op = "zc" => l.gen # g
        BY <1>2, <1>5, <2>1 DEF Inv, Ended
      <3> QED BY <1>1, <1>3, <1>5, <1>7, <2>1, <3>1 DEF Progress, Unanswered
    <2>2. CASE k.op = "zc" /\ l.gen = g /\ l.op = "notif"
      BY <1>1, <1>5, <2>2
    <2> QED BY <1>4, <2>1, <2>2
  <1>9. \A i \in DOMAIN cq' :
          /\ ~ cq'[i].notif => Waits(cq[i].gen)'
          /\ cq'[i].more => ops'[cq'[i].gen].kind \in {"multi", "zc"}
    <2> TAKE i \in DOMAIN cq'
    <2>1. CASE i \in DOMAIN cq
      BY <1>1, <1>3, <1>5, <1>7, <2>1 DEF Progress, Unanswered
    <2>2. CASE i = n
      BY <1>1, <1>2, <1>3, <1>5, <1>7, <2>2
    <2> QED BY <1>3, <2>1, <2>2
  <1>10. \A i, j \in DOMAIN cq' :
          i < j /\ cq'[i].gen = cq'[j].gen /\ ops'[cq'[i].gen].kind = "zc" => cq'[j].notif
    <2> TAKE i, j \in DOMAIN cq'
    <2> HAVE i < j /\ cq'[i].gen = cq'[j].gen /\ ops'[cq'[i].gen].kind = "zc"
    <2>1. CASE j \in DOMAIN cq
      <3>1. i \in DOMAIN cq
        BY <1>3, <2>1
      <3> QED BY <1>1, <1>3, <2>1, <3>1 DEF Progress, Unanswered
    <2>2. CASE j = n
      <3>1. i \in DOMAIN cq /\ cq[i].gen = g /\ ops[g].kind = "zc"
        BY <1>1, <1>3, <2>2
      <3> QED BY <1>5, <3>1 DEF Progress, Unanswered, g
    <2> QED BY <1>3, <2>1, <2>2
  <1>11. /\ \A m \in DOMAIN ops' : ops'[m].at \in {"sq", "pend"} => Waits(m)'
         /\ \A m \in DOMAIN ops' :
              ops'[m].at = "next" => Waits(m)' \/ (pc' = "nextcall" /\ m = cur'.gen)
    BY <1>1, <1>7 DEF Progress, Unanswered
  <1>12. Unanswered'
    BY Zenon, <1>8, <1>9, <1>10, <1>11 DEF Unanswered
  <1>13. EntersInUse'
    BY <1>1 DEF Progress, EntersInUse
  <1> QED BY <1>6, <1>12, <1>13 DEF Progress

\* A call of the API: cancelling does not answer, and a new operation waits.
LEMMA ToldUnanswered ==
  ASSUME Inv, Progress, NEW users, NEW told, Told(users, told),
         DOMAIN ops \subseteq DOMAIN ops',
         \A m \in DOMAIN ops : ops'[m] = told[m],
         \A m \in DOMAIN ops' : m \notin DOMAIN ops => ops'[m].status = "pending",
         UNCHANGED <<kernel, cq, pc, cur>>
  PROVE  Unanswered'
  <1>1. \A m \in DOMAIN ops :
          ops'[m].kind = ops[m].kind /\ ops'[m].at = ops[m].at /\ (Waits(m)' <=> Waits(m))
    BY DEF Told, Waits
  <1>2. \A m \in DOMAIN ops' : m \notin DOMAIN ops => Waits(m)'
    BY DEF Waits
  <1>3. /\ \A k \in kernel : k.gen \in DOMAIN ops
        /\ \A i \in DOMAIN cq : cq[i].gen \in DOMAIN ops
    BY DEF Inv, Places, KernelPlaces, CqPlaces, Owns
  <1>4. /\ \A m \in DOMAIN ops' : ops'[m].at \in {"sq", "pend"} => Waits(m)'
        /\ \A m \in DOMAIN ops' :
             ops'[m].at = "next" => Waits(m)' \/ (pc' = "nextcall" /\ m = cur'.gen)
    BY <1>1, <1>2 DEF Progress, Unanswered
  <1>5. \A k \in kernel' :
          /\ k.op # "notif" => Waits(k.gen)'
          /\ k.op = "multi" <=> ops'[k.gen].kind = "multi"
          /\ k.op = "zc" => \A i \in DOMAIN cq' : cq'[i].gen # k.gen
    BY <1>1, <1>3 DEF Progress, Unanswered
  <1>6. \A i \in DOMAIN cq' :
          /\ ~ cq'[i].notif => Waits(cq[i].gen)'
          /\ cq'[i].more => ops'[cq'[i].gen].kind \in {"multi", "zc"}
    BY <1>1, <1>3 DEF Progress, Unanswered
  <1>7. \A i, j \in DOMAIN cq' :
          i < j /\ cq'[i].gen = cq'[j].gen /\ ops'[cq'[i].gen].kind = "zc" => cq'[j].notif
    BY <1>1, <1>3 DEF Progress, Unanswered
  <1> QED BY Zenon, <1>4, <1>5, <1>6, <1>7 DEF Unanswered

\* reactor_cancel() of a scheduled call.
LEMMA CancelNextProgress ==
  ASSUME Inv, Progress, NEW g, CancelNext(g)
  PROVE  Progress'
  <1>1. Told(user', ops')
    BY ToldCancelled DEF CancelNext
  <1>2. UNCHANGED <<pool, sq, pend, kernel, cq, next, current, pc, index, cur, shots>>
    BY DEF CancelNext
  <1>3. DOMAIN ops' = DOMAIN ops /\ \A m \in DOMAIN ops : ops'[m].at = ops[m].at
    BY <1>1 DEF Told
  <1>4. Unanswered'
    BY <1>1, <1>2, <1>3, ToldUnanswered
  <1>5. Located' /\ EntersInUse'
    BY <1>2, <1>3 DEF Progress, Located, EntersInUse
  <1> QED BY <1>4, <1>5 DEF Progress

\* A request is submitted.
LEMMA SubmitProgress ==
  ASSUME Inv, Progress, pend = <<>>, pc \in {"out", "call", "nextcall"},
         NEW users, NEW told, Told(users, told), NEW kind \in Kinds,
         NEW addr \in Nat, NEW target \in Nat,
         Submit(kind, addr, target, users, told)
  PROVE  Progress'
  <1> DEFINE n == Len(ops) + 1
             s == PoolObject(pool)
             sqe == [op |-> kind, gen |-> n, user |-> s, addr |-> addr, target |-> target]
             full == Len(sq) = RingSize
             place == IF full THEN "pend" ELSE "sq"
  <1>1. /\ pool' = PoolMalloc(pool)
        /\ user' = Define(users, PoolObject(pool), Callback(Len(ops) + 1, "issue"))
        /\ ops' = Append(told, Operation(kind, PoolObject(pool), place))
        /\ sq' = IF full THEN sq ELSE Append(sq, sqe)
        /\ pend' = IF full THEN <<sqe>> ELSE <<>>
        /\ UNCHANGED <<kernel, cq, next, current, pc, index, cur, shots>>
    BY DEF Submit
  <1>2. place \in {"pend", "sq", "next"}
    OBVIOUS
  <1> HIDE DEF place
  <1>3. /\ n \in Nat /\ s \in Nat /\ n \notin DOMAIN ops
        /\ DOMAIN ops' = DOMAIN ops \cup {n}
        /\ ops'[n].at = place /\ ops'[n].status = "pending"
        /\ \A m \in DOMAIN ops : ops'[m] = told[m]
    BY <1>1, <1>2, GrownFacts, SMTT(60)
  <1> HIDE DEF n, s
  <1>4. sqe \in SqeType /\ sqe.gen = n
    BY <1>3 DEF SqeType
  <1> HIDE DEF sqe
  <1>5. Unanswered'
    BY <1>1, <1>3, ToldUnanswered
  <1>6. \A m \in DOMAIN ops : ops'[m].at = ops[m].at
    BY <1>3 DEF Told
  <1>7. /\ \A i \in DOMAIN sq : i \in DOMAIN sq' /\ sq'[i] = sq[i]
        /\ ~ full => \E i \in DOMAIN sq' : sq'[i].gen = n
        /\ full => \E i \in DOMAIN pend' : pend'[i].gen = n
    <2>1. sq \in Seq(SqeType)
      BY DEF Inv, TypeOK
    <2>2. CASE full
      <3>1. sq' = sq /\ pend' = <<sqe>>
        BY <1>1, <2>2
      <3>2. 1 \in DOMAIN pend' /\ pend'[1] = sqe
        BY <3>1
      <3> QED BY <1>4, <2>2, <3>1, <3>2
    <2>3. CASE ~ full
      <3>1. sq' = Append(sq, sqe)
        BY <1>1, <2>3
      <3> QED BY <1>4, <2>1, <2>3, <3>1, AppendCases
    <2> QED BY <2>2, <2>3
  <1>8. Located'
    <2> SUFFICES ASSUME NEW m \in DOMAIN ops'
                 PROVE  /\ ops'[m].at = "sq" => \E i \in DOMAIN sq' : sq'[i].gen = m
                        /\ ops'[m].at = "pend" => \E i \in DOMAIN pend' : pend'[i].gen = m
                        /\ ops'[m].at = "kernel" => \E l \in kernel : l.gen = m
                        /\ ops'[m].at = "cq" => \E i \in DOMAIN cq : cq[i].gen = m /\ ~ cq[i].more
                        /\ ops'[m].at = "call" => pc = "call" /\ cur.gen = m /\ ~ cur.more
                        /\ ops'[m].at = "next" =>
                             \/ \E i \in DOMAIN next[current] : next[current][i].gen = m
                             \/ \E i \in DOMAIN next[1 - current] :
                                  i >= index /\ next[1 - current][i].gen = m
      BY <1>1, SMTT(60) DEF Located
    <2>1. CASE m = n
      BY <1>3, <1>7, <2>1 DEF place
    <2>2. CASE m \in DOMAIN ops
      <3>1. ops'[m].at = ops[m].at
        BY <1>6, <2>2
      <3>2. ops[m].at # "pend"
        BY <2>2 DEF Progress, Located
      <3> QED BY <1>7, <2>2, <3>1, <3>2 DEF Progress, Located
    <2> QED BY <1>3, <2>1, <2>2
  <1>9. EntersInUse'
    BY <1>1 DEF EntersInUse
  <1> QED BY <1>5, <1>8, <1>9 DEF Progress

\* reactor_next().
LEMMA ScheduleProgress ==
  ASSUME Inv, Progress, Schedule
  PROVE  Progress'
  <1> DEFINE n == Len(ops) + 1
             s == PoolObject(pool)
             e == [gen |-> n, user |-> s]
  <1>1. /\ pool' = PoolMalloc(pool)
        /\ user' = Define(user, PoolObject(pool), Callback(Len(ops) + 1, "issue"))
        /\ ops' = Append(ops, Operation("next", PoolObject(pool), "next"))
        /\ next' = [next EXCEPT ![current] = Append(@, e)]
        /\ UNCHANGED <<sq, pend, kernel, cq, current, pc, index, cur, shots>>
        /\ pc # "enter"
    BY DEF Schedule, InClient
  <1>2. Told(user, ops)
    BY ToldSame
  <1>3. /\ n \in Nat /\ s \in Nat /\ n \notin DOMAIN ops
        /\ DOMAIN ops' = DOMAIN ops \cup {n}
        /\ ops'[n].at = "next" /\ ops'[n].status = "pending"
        /\ \A m \in DOMAIN ops : ops'[m] = ops[m]
    <2>1. "next" \in Kinds
      BY DEF Kinds
    <2> QED BY <1>1, <1>2, <2>1, GrownFacts
  <1> HIDE DEF n, s
  <1>4. e \in [gen : Nat, user : Nat] /\ e.gen = n
    BY <1>3
  <1> HIDE DEF e
  <1>5. Unanswered'
    BY <1>1, <1>2, <1>3, ToldUnanswered
  <1>6. /\ next'[1 - current] = next[1 - current]
        /\ \A i \in DOMAIN next[current] :
             i \in DOMAIN next'[current] /\ next'[current][i] = next[current][i]
        /\ \E i \in DOMAIN next'[current] : next'[current][i].gen = n
    <2> DEFINE v == next[current]
    <2>1. /\ current \in {0, 1} /\ v \in Seq([gen : Nat, user : Nat])
          /\ next \in [{0, 1} -> Seq([gen : Nat, user : Nat])]
      BY DEF Inv, TypeOK
    <2>2. next'[current] = Append(v, e) /\ next'[1 - current] = next[1 - current]
      BY <1>1, <2>1
    <2>3. /\ Len(v) + 1 \in DOMAIN Append(v, e) /\ Append(v, e)[Len(v) + 1] = e
          /\ \A i \in DOMAIN v : i \in DOMAIN Append(v, e) /\ Append(v, e)[i] = v[i]
      BY <1>4, <2>1, AppendCases, SMTT(60)
    <2> QED BY <1>4, <2>2, <2>3
  <1>7. Located'
    <2> SUFFICES ASSUME NEW m \in DOMAIN ops'
                 PROVE  /\ ops'[m].at = "sq" => \E i \in DOMAIN sq : sq[i].gen = m
                        /\ ops'[m].at = "pend" => \E i \in DOMAIN pend : pend[i].gen = m
                        /\ ops'[m].at = "kernel" => \E l \in kernel : l.gen = m
                        /\ ops'[m].at = "cq" => \E i \in DOMAIN cq : cq[i].gen = m /\ ~ cq[i].more
                        /\ ops'[m].at = "call" => pc = "call" /\ cur.gen = m /\ ~ cur.more
                        /\ ops'[m].at = "next" =>
                             \/ \E i \in DOMAIN next'[current] : next'[current][i].gen = m
                             \/ \E i \in DOMAIN next'[1 - current] :
                                  i >= index /\ next'[1 - current][i].gen = m
      BY <1>1 DEF Located
    <2>1. CASE m = n
      BY <1>3, <1>6, <2>1
    <2>2. CASE m \in DOMAIN ops
      BY <1>3, <1>6, <2>2 DEF Progress, Located
    <2> QED BY <1>3, <2>1, <2>2
  <1>8. EntersInUse'
    BY <1>1 DEF EntersInUse
  <1> QED BY <1>5, <1>7, <1>8 DEF Progress

\* Every step keeps Progress.
LEMMA NextProgress ==
  ASSUME Inv, Progress, [Next]_vars
  PROVE  Progress'
  <1>1. CASE UNCHANGED vars
    BY <1>1 DEF vars, Progress, Located, Unanswered, Waits, EntersInUse
  <1>2. CASE \E kind \in Requests : Issue(kind)
    <2>1. PICK kind \in Requests : Issue(kind)
      BY <1>2
    <2>2. pend = <<>> /\ pc \in {"out", "call", "nextcall"} /\ Submit(kind, 0, 0, user, ops)
      BY <2>1 DEF Issue, InClient
    <2>3. Told(user, ops) /\ kind \in Kinds
      BY ToldSame DEF Kinds
    <2> QED BY <2>2, <2>3, SubmitProgress
  <1>3. CASE \E g \in DOMAIN ops : Remove(g)
    <2>1. PICK g \in DOMAIN ops : Remove(g)
      BY <1>3
    <2>2. /\ pend = <<>> /\ pc \in {"out", "call", "nextcall"} /\ Held(g)
          /\ Submit("remove", ops[g].user, g, user, ops)
      BY <2>1 DEF Remove, InClient
    <2>3. Told(user, ops) /\ "remove" \in Kinds /\ g \in Nat /\ ops[g].user \in Nat
      BY <2>2, ToldSame, HeldIsOpen DEF Kinds
    <2> QED BY <2>2, <2>3, SubmitProgress
  <1>4. CASE \E g \in DOMAIN ops : CancelRequest(g)
    <2>1. PICK g \in DOMAIN ops : CancelRequest(g)
      BY <1>4
    <2> DEFINE users == Define(user, ops[g].user, Callback(g, "cancel"))
               told == [ops EXCEPT ![g].status = "cancelled"]
    <2>2. /\ pend = <<>> /\ pc \in {"out", "call", "nextcall"} /\ Held(g)
          /\ Submit("cancel", ops[g].user, g, users, told)
      BY <2>1 DEF CancelRequest, InClient
    <2>3. Told(users, told) /\ "cancel" \in Kinds /\ g \in Nat /\ ops[g].user \in Nat
      BY <2>2, ToldCancelled, HeldIsOpen DEF Kinds
    <2> HIDE DEF users, told
    <2> QED BY <2>2, <2>3, SubmitProgress
  <1>5. CASE (\E g \in DOMAIN ops : CancelNext(g)) \/ Schedule
    BY <1>5, CancelNextProgress, ScheduleProgress
  <1>6. CASE Kernel
    BY <1>6, KernelTakeProgress, KernelCompleteProgress, KernelMoreProgress DEF Kernel
  <1>7. CASE FlushReturn \/ LoopNext \/ NextCall \/ NextReturn \/ NextClear
    BY <1>7, FlushReturnProgress, LoopNextProgress, NextCallProgress, NextReturnProgress,
       NextClearProgress
  <1>8. CASE CqeCall \/ CqeReturn
    BY <1>8, CqeCallProgress, CqeReturnProgress
  <1>9. CASE LoopStart \/ LoopReturn \/ LoopNoNext \/ Enter \/ EnterReturn \/ CqeEmpty
    BY <1>9, MoveProgress
  <1> QED BY <1>1, <1>2, <1>3, <1>4, <1>5, <1>6, <1>7, <1>8, <1>9 DEF Next, Client, Loop

\* Every operation really is where the history of reactor.c says, and what
\* is queued for a callback is still awaited.
THEOREM ProgressInvariance == Spec => []Progress
  <1>1. Init => Progress
    BY DEF Init, Progress, Located, Unanswered, EntersInUse
  <1>2. Inv /\ Progress /\ [Next]_vars => Progress'
    BY NextProgress
  <1> QED BY <1>1, <1>2, Invariance, PTL DEF Spec

\* reactor_ring_update() blocks in io_uring_enter() only while a request is in
\* flight: pool_size(), which decides whether it is called, counts no user
\* that is lost between the rings, the vectors and the loop.
THEOREM SleepsOnSomething == Spec => []NeverSleepsOnNothing
  <1>1. Inv /\ Progress => NeverSleepsOnNothing
    <2> SUFFICES ASSUME Inv, Progress, pc = "enter", sq = <<>>, cq = <<>>, next[current] = <<>>
                 PROVE  kernel # {}
      BY DEF NeverSleepsOnNothing
    <2> DEFINE used == {ops[m].user : m \in Open}
    <2>1. pool.allocated = Cardinality(used) /\ pool.allocated > 0
      BY DEF Inv, PoolExact, PoolInv, Progress, EntersInUse
    <2>2. used # {}
      <3>1. Cardinality({}) = 0
        BY FS_EmptySet
      <3>2. Cardinality(used) # 0
        BY <2>1
      <3> HIDE DEF used
      <3> QED BY Zenon, <3>1, <3>2
    <2>3. PICK n \in DOMAIN ops : ops[n].at # "free"
      BY <2>2 DEF Open
    <2>4. pend = <<>> /\ next[1 - current] = <<>>
      BY DEF Inv, Phase
    <2>5. ops \in Seq(OperationType)
      BY DEF Inv, TypeOK
    <2>6. ops[n].at \in {"pend", "sq", "kernel", "cq", "call", "next", "free"}
      <3>1. ops[n] \in OperationType
        BY <2>5
      <3> QED BY <3>1 DEF OperationType
    <2>7. ops[n].at = "kernel"
      BY <2>3, <2>4, <2>6 DEF Progress, Located
    <2> QED BY <2>7 DEF Progress, Located
  <1> QED BY <1>1, Invariance, ProgressInvariance, PTL

-----------------------------------------------------------------------------
(* The refinement: every step is one that module Operations allows *)

SeenType ==
  [kind : Kinds, status : {"pending", "done", "cancelled", "closed"}, calls : Nat,
   cancelCalls : Nat]

View(h) ==
  [n \in DOMAIN h |->
     [kind |-> h[n].kind, status |-> h[n].status,
      calls |-> h[n].calls, cancelCalls |-> h[n].cancelCalls]]

\* What the client sees of a history h.
LEMMA ViewFacts ==
  ASSUME NEW h \in Seq(OperationType)
  PROVE  /\ View(h) \in Seq(SeenType)
         /\ View(h) \in [1 .. Len(h) -> SeenType]
         /\ Len(View(h)) = Len(h)
         /\ DOMAIN View(h) = DOMAIN h
         /\ DOMAIN h = 1 .. Len(h) /\ Len(h) \in Nat
         /\ \A n \in DOMAIN h :
              /\ View(h)[n] \in SeenType
              /\ View(h)[n].kind = h[n].kind /\ View(h)[n].status = h[n].status
              /\ View(h)[n].calls = h[n].calls /\ View(h)[n].cancelCalls = h[n].cancelCalls
  <1>1. DOMAIN h = 1 .. Len(h) /\ Len(h) \in Nat
    OBVIOUS
  <1>2. \A n \in DOMAIN h : h[n] \in OperationType
    BY <1>1
  <1>3. \A n \in DOMAIN h :
          /\ View(h)[n] \in SeenType
          /\ View(h)[n].kind = h[n].kind /\ View(h)[n].status = h[n].status
          /\ View(h)[n].calls = h[n].calls /\ View(h)[n].cancelCalls = h[n].cancelCalls
    BY <1>2 DEF View, SeenType, OperationType
  <1>4. DOMAIN View(h) = DOMAIN h
    BY DEF View
  <1>5. View(h) \in [1 .. Len(h) -> SeenType]
    BY <1>1, <1>3 DEF View
  <1>6. View(h) \in Seq(SeenType) /\ Len(View(h)) = Len(h)
    BY <1>1, <1>5
  <1> QED BY <1>1, <1>3, <1>4, <1>5, <1>6

\* Two records that the client cannot tell apart are the same to it.
LEMMA SeenEqual ==
  ASSUME NEW r \in SeenType, NEW t \in SeenType,
         r.kind = t.kind, r.status = t.status, r.calls = t.calls, r.cancelCalls = t.cancelCalls
  PROVE  r = t
  BY DEF SeenType

\* Operation n looks the same to the client in the histories h and i.
Alike(h, i, n) ==
  /\ h[n].kind = i[n].kind /\ h[n].status = i[n].status
  /\ h[n].calls = i[n].calls /\ h[n].cancelCalls = i[n].cancelCalls

\* A change that the client does not notice.
LEMMA Unnoticed ==
  ASSUME NEW h \in Seq(OperationType), NEW i \in Seq(OperationType),
         DOMAIN h = DOMAIN i, \A n \in DOMAIN h : Alike(h, i, n)
  PROVE  View(h) = View(i)
  BY DEF View, Alike

\* A change that the client notices in operation g only.
LEMMA Noticed ==
  ASSUME NEW h \in Seq(OperationType), NEW i \in Seq(OperationType),
         DOMAIN i = DOMAIN h, NEW g \in DOMAIN h,
         \A n \in DOMAIN h : n # g => Alike(i, h, n),
         NEW r \in SeenType,
         i[g].kind = r.kind, i[g].status = r.status,
         i[g].calls = r.calls, i[g].cancelCalls = r.cancelCalls
  PROVE  View(i) = [View(h) EXCEPT ![g] = r]
  <1> DEFINE t == [View(h) EXCEPT ![g] = r]
  <1>1. /\ View(h) \in [1 .. Len(h) -> SeenType]
        /\ View(i) \in Seq(SeenType) /\ Len(View(i)) = Len(i)
        /\ DOMAIN h = 1 .. Len(h) /\ DOMAIN i = 1 .. Len(i)
        /\ Len(h) \in Nat /\ Len(i) \in Nat
    BY ViewFacts
  <1>2. Len(h) = Len(i)
    BY <1>1
  <1>3. /\ t \in [1 .. Len(h) -> SeenType] /\ t[g] = r
        /\ \A n \in DOMAIN h : n # g => t[n] = View(h)[n]
    BY <1>1
  <1>4. t \in Seq(SeenType) /\ Len(t) = Len(h)
    BY <1>1, <1>3
  <1> HIDE DEF t
  <1>5. ASSUME NEW n \in DOMAIN h
        PROVE  View(i)[n] = t[n]
    <2>1. CASE n = g
      <3>1. /\ View(i)[g] \in SeenType
            /\ View(i)[g].kind = r.kind /\ View(i)[g].status = r.status
            /\ View(i)[g].calls = r.calls /\ View(i)[g].cancelCalls = r.cancelCalls
        BY ViewFacts
      <3> QED BY <1>3, <2>1, <3>1, SeenEqual
    <2>2. CASE n # g
      <3>1. /\ View(i)[n] \in SeenType /\ View(h)[n] \in SeenType
            /\ View(i)[n].kind = View(h)[n].kind /\ View(i)[n].status = View(h)[n].status
            /\ View(i)[n].calls = View(h)[n].calls
            /\ View(i)[n].cancelCalls = View(h)[n].cancelCalls
        BY <2>2, ViewFacts DEF Alike
      <3> QED BY <1>3, <2>2, <3>1, SeenEqual
    <2> QED BY <2>1, <2>2
  <1>6. View(i) = t
    BY <1>1, <1>2, <1>4, <1>5, SeqEqual
  <1> QED BY <1>6 DEF t

\* What the client sees now and after the step.
LEMMA SeenIsView ==
  /\ Seen = View(ops)
  /\ Seen' = View(ops')
  BY DEF Seen, View

\* The client is told of the end of g, by the callback that it waits with.
LEMMA NoticedEnd ==
  ASSUME ops \in Seq(OperationType), ops' \in Seq(OperationType),
         DOMAIN ops' = DOMAIN ops, NEW g \in DOMAIN ops, Waits(g),
         \A n \in DOMAIN ops : n # g => Alike(ops', ops, n),
         ops'[g].kind = ops[g].kind,
         NEW how \in {"issue", "cancel"}, how = "cancel" <=> ops[g].status \in {"cancelled", "closed"},
         ops'[g].status = IF how = "issue" THEN "done" ELSE "closed",
         ops'[g].calls = IF how = "issue" THEN ops[g].calls + 1 ELSE ops[g].calls,
         ops'[g].cancelCalls = IF how = "cancel" THEN ops[g].cancelCalls + 1 ELSE ops[g].cancelCalls
  PROVE  Promise!Complete(g) \/ Promise!Close(g)
  <1>1. /\ Seen \in [1 .. Len(ops) -> SeenType] /\ g \in 1 .. Len(ops)
        /\ Seen[g] \in SeenType
        /\ Seen[g].kind = ops[g].kind /\ Seen[g].status = ops[g].status
        /\ Seen[g].calls = ops[g].calls /\ Seen[g].cancelCalls = ops[g].cancelCalls
    BY ViewFacts, SeenIsView
  <1>2. CASE how = "issue"
    <2> DEFINE c == Seen[g].calls + 1
               r == [Seen[g] EXCEPT !.calls = c, !.status = "done"]
    <2>1. c \in Nat /\ c = ops[g].calls + 1
      BY <1>1 DEF SeenType
    <2> HIDE DEF c
    <2>2. /\ r \in SeenType /\ r.kind = ops[g].kind /\ r.status = "done"
          /\ r.calls = c /\ r.cancelCalls = ops[g].cancelCalls
      BY <1>1, <2>1 DEF SeenType
    <2> HIDE DEF r
    <2>3. Seen' = [Seen EXCEPT ![g] = r]
      BY <1>2, <2>1, <2>2, Noticed, SeenIsView
    <2>4. [Seen EXCEPT ![g] = r] = [Seen EXCEPT ![g].calls = c, ![g].status = "done"]
      BY <1>1 DEF r
    <2>5. Seen[g].status = "pending"
      BY <1>1, <1>2 DEF Waits
    <2> QED BY <2>3, <2>4, <2>5 DEF Promise!Complete, c
  <1>3. CASE how = "cancel"
    <2> DEFINE c == Seen[g].cancelCalls + 1
               r == [Seen[g] EXCEPT !.cancelCalls = c, !.status = "closed"]
    <2>1. c \in Nat /\ c = ops[g].cancelCalls + 1
      BY <1>1 DEF SeenType
    <2> HIDE DEF c
    <2>2. /\ r \in SeenType /\ r.kind = ops[g].kind /\ r.status = "closed"
          /\ r.calls = ops[g].calls /\ r.cancelCalls = c
      BY <1>1, <2>1 DEF SeenType
    <2> HIDE DEF r
    <2>3. Seen' = [Seen EXCEPT ![g] = r]
      BY <1>3, <2>1, <2>2, Noticed, SeenIsView
    <2>4. [Seen EXCEPT ![g] = r] = [Seen EXCEPT ![g].cancelCalls = c, ![g].status = "closed"]
      BY <1>1 DEF r
    <2>5. Seen[g].status = "cancelled"
      BY <1>1, <1>3 DEF Waits
    <2> QED BY <2>3, <2>4, <2>5 DEF Promise!Close, c
  <1> QED BY <1>2, <1>3

\* An event of a multishot poll.
LEMMA NoticedEvent ==
  ASSUME ops \in Seq(OperationType), ops' \in Seq(OperationType),
         DOMAIN ops' = DOMAIN ops, NEW g \in DOMAIN ops, Waits(g), ops[g].kind = "multi",
         \A n \in DOMAIN ops : n # g => Alike(ops', ops, n),
         ops'[g].kind = ops[g].kind, ops'[g].status = ops[g].status,
         NEW how \in {"issue", "cancel"}, how = "cancel" <=> ops[g].status \in {"cancelled", "closed"},
         ops'[g].calls = IF how = "issue" THEN ops[g].calls + 1 ELSE ops[g].calls,
         ops'[g].cancelCalls = IF how = "cancel" THEN ops[g].cancelCalls + 1 ELSE ops[g].cancelCalls
  PROVE  Promise!Event(g)
  <1>1. /\ Seen \in [1 .. Len(ops) -> SeenType] /\ g \in 1 .. Len(ops)
        /\ Seen[g] \in SeenType
        /\ Seen[g].kind = ops[g].kind /\ Seen[g].status = ops[g].status
        /\ Seen[g].calls = ops[g].calls /\ Seen[g].cancelCalls = ops[g].cancelCalls
    BY ViewFacts, SeenIsView
  <1>2. CASE how = "issue"
    <2> DEFINE c == Seen[g].calls + 1
               r == [Seen[g] EXCEPT !.calls = c]
    <2>1. c \in Nat /\ c = ops[g].calls + 1
      BY <1>1 DEF SeenType
    <2> HIDE DEF c
    <2>2. /\ r \in SeenType /\ r.kind = ops[g].kind /\ r.status = ops[g].status
          /\ r.calls = c /\ r.cancelCalls = ops[g].cancelCalls
      BY <1>1, <2>1 DEF SeenType
    <2> HIDE DEF r
    <2>3. Seen' = [Seen EXCEPT ![g] = r]
      BY <1>2, <2>1, <2>2, Noticed, SeenIsView
    <2>4. [Seen EXCEPT ![g] = r] = [Seen EXCEPT ![g].calls = c]
      BY <1>1 DEF r
    <2>5. Seen[g].status = "pending"
      BY <1>1, <1>2 DEF Waits
    <2> QED BY <1>1, <2>3, <2>4, <2>5 DEF Promise!Event, c
  <1>3. CASE how = "cancel"
    <2> DEFINE c == Seen[g].cancelCalls + 1
               r == [Seen[g] EXCEPT !.cancelCalls = c]
    <2>1. c \in Nat /\ c = ops[g].cancelCalls + 1
      BY <1>1 DEF SeenType
    <2> HIDE DEF c
    <2>2. /\ r \in SeenType /\ r.kind = ops[g].kind /\ r.status = ops[g].status
          /\ r.calls = ops[g].calls /\ r.cancelCalls = c
      BY <1>1, <2>1 DEF SeenType
    <2> HIDE DEF r
    <2>3. Seen' = [Seen EXCEPT ![g] = r]
      BY <1>3, <2>1, <2>2, Noticed, SeenIsView
    <2>4. [Seen EXCEPT ![g] = r] = [Seen EXCEPT ![g].cancelCalls = c]
      BY <1>1 DEF r
    <2>5. Seen[g].status = "cancelled"
      BY <1>1, <1>3 DEF Waits
    <2> QED BY <1>1, <2>3, <2>4, <2>5 DEF Promise!Event, c
  <1> QED BY <1>2, <1>3

\* What the client sees of a history that grows.
LEMMA ViewAppend ==
  ASSUME NEW h \in Seq(OperationType), NEW op \in OperationType,
         op.status = "pending", op.calls = 0, op.cancelCalls = 0
  PROVE  View(Append(h, op)) = Append(View(h), Promise!New(op.kind))
  <1> DEFINE r == Promise!New(op.kind)
             i == Append(h, op)
             t == Append(View(h), r)
  <1>1. r \in SeenType /\ r.kind = op.kind /\ r.status = "pending" /\ r.calls = 0 /\ r.cancelCalls = 0
    BY DEF Promise!New, SeenType, OperationType
  <1> HIDE DEF r
  <1>2. /\ i \in Seq(OperationType) /\ Len(i) = Len(h) + 1 /\ i[Len(h) + 1] = op
        /\ Len(h) \in Nat
        /\ \A n \in 1 .. Len(h) : i[n] = h[n]
    BY AppendFacts
  <1>3. /\ View(h) \in Seq(SeenType) /\ Len(View(h)) = Len(h)
        /\ \A n \in 1 .. Len(h) :
              /\ View(h)[n] \in SeenType
              /\ View(h)[n].kind = h[n].kind /\ View(h)[n].status = h[n].status
              /\ View(h)[n].calls = h[n].calls /\ View(h)[n].cancelCalls = h[n].cancelCalls
    BY ViewFacts
  <1>4. /\ t \in Seq(SeenType) /\ Len(t) = Len(h) + 1 /\ t[Len(h) + 1] = r
        /\ \A n \in 1 .. Len(h) : t[n] = View(h)[n]
    BY <1>1, <1>3, AppendFacts
  <1> HIDE DEF i, t
  <1>5. /\ View(i) \in Seq(SeenType) /\ Len(View(i)) = Len(i)
        /\ \A n \in 1 .. Len(i) :
              /\ View(i)[n] \in SeenType
              /\ View(i)[n].kind = i[n].kind /\ View(i)[n].status = i[n].status
              /\ View(i)[n].calls = i[n].calls /\ View(i)[n].cancelCalls = i[n].cancelCalls
    BY <1>2, ViewFacts
  <1>6. ASSUME NEW n \in 1 .. Len(i)
        PROVE  View(i)[n] = t[n]
    <2>1. CASE n = Len(h) + 1
      <3>1. i[n] = op /\ t[n] = r
        BY <1>2, <1>4, <2>1
      <3>2. /\ View(i)[n] \in SeenType
            /\ View(i)[n].kind = r.kind /\ View(i)[n].status = r.status
            /\ View(i)[n].calls = r.calls /\ View(i)[n].cancelCalls = r.cancelCalls
        BY <1>1, <1>5, <3>1
      <3> QED BY <1>1, <3>1, <3>2, SeenEqual
    <2>2. CASE n \in 1 .. Len(h)
      <3>1. i[n] = h[n] /\ t[n] = View(h)[n]
        BY <1>2, <1>4, <2>2
      <3>2. /\ View(i)[n] \in SeenType /\ View(h)[n] \in SeenType
            /\ View(i)[n].kind = View(h)[n].kind /\ View(i)[n].status = View(h)[n].status
            /\ View(i)[n].calls = View(h)[n].calls
            /\ View(i)[n].cancelCalls = View(h)[n].cancelCalls
        BY <1>3, <1>5, <2>2, <3>1
      <3> QED BY <3>1, <3>2, SeenEqual
    <2> QED BY <1>2, <2>1, <2>2
  <1>7. View(i) = t
    BY <1>2, <1>4, <1>5, <1>6, SeqEqual
  <1> QED BY <1>7 DEF i, t, r

\* What a submission or reactor_next() adds to what the client sees.
LEMMA SeenGrows ==
  ASSUME Inv, NEW users, NEW told, Told(users, told), NEW kind \in Kinds,
         NEW place \in {"pend", "sq", "next"},
         pool' = PoolMalloc(pool),
         user' = Define(users, PoolObject(pool), Callback(Len(ops) + 1, "issue")),
         ops' = Append(told, Operation(kind, PoolObject(pool), place)),
         Len(ops) + 1 <= MaxOps
  PROVE  /\ Seen' = Append(View(told), Promise!New(kind))
         /\ Len(Seen) < MaxOps
  <1> DEFINE s == PoolObject(pool)
             op == Operation(kind, s, place)
  <1>1. s \in Nat
    BY GrownFacts
  <1> HIDE DEF s
  <1>2. /\ op \in OperationType /\ op.kind = kind
        /\ op.status = "pending" /\ op.calls = 0 /\ op.cancelCalls = 0
    BY <1>1 DEF Operation, OperationType
  <1>3. told \in Seq(OperationType) /\ ops' = Append(told, op)
    BY DEF Told, s
  <1> HIDE DEF op
  <1>4. Seen' = Append(View(told), Promise!New(kind))
    BY <1>2, <1>3, ViewAppend, SeenIsView
  <1>5. Len(Seen) = Len(ops) /\ Len(ops) \in Nat
    BY ViewFacts, SeenIsView DEF Inv, TypeOK
  <1> QED BY <1>4, <1>5, MaxOpsAssumption

\* The history after reactor_cancel(), as the client sees it.
LEMMA SeenCancelled ==
  ASSUME Inv, NEW g, Held(g)
  PROVE  /\ View([ops EXCEPT ![g].status = "cancelled"]) = [Seen EXCEPT ![g].status = "cancelled"]
         /\ g \in DOMAIN Seen /\ Seen[g].status = "pending"
         /\ Seen[g].kind = ops[g].kind /\ ops[g].kind # "cancel"
  <1> DEFINE told == [ops EXCEPT ![g].status = "cancelled"]
             r == [Seen[g] EXCEPT !.status = "cancelled"]
  <1>1. /\ ops \in Seq(OperationType) /\ g \in DOMAIN ops
        /\ ops[g].status = "pending" /\ ops[g].kind # "cancel"
    BY DEF Inv, TypeOK, Held
  <1>2. /\ Seen \in [1 .. Len(ops) -> SeenType] /\ g \in 1 .. Len(ops) /\ g \in DOMAIN Seen
        /\ Seen[g] \in SeenType
        /\ Seen[g].kind = ops[g].kind /\ Seen[g].status = ops[g].status
        /\ Seen[g].calls = ops[g].calls /\ Seen[g].cancelCalls = ops[g].cancelCalls
    BY <1>1, ViewFacts, SeenIsView
  <1>3. ops \in [1 .. Len(ops) -> OperationType] /\ ops[g] \in OperationType
    BY <1>1
  <1>4. /\ told \in Seq(OperationType) /\ DOMAIN told = DOMAIN ops
        /\ \A n \in DOMAIN ops : n # g => told[n] = ops[n]
        /\ told[g] = [ops[g] EXCEPT !.status = "cancelled"]
    <2>1. [ops[g] EXCEPT !.status = "cancelled"] \in OperationType
      BY <1>3 DEF OperationType
    <2>2. told = [ops EXCEPT ![g] = [ops[g] EXCEPT !.status = "cancelled"]]
      OBVIOUS
    <2> DEFINE x == [ops[g] EXCEPT !.status = "cancelled"]
    <2> HIDE DEF x, told
    <2>3. x \in OperationType /\ told = [ops EXCEPT ![g] = x]
      BY <2>1, <2>2 DEF x
    <2>4. told \in [1 .. Len(ops) -> OperationType] /\ told[g] = x
          /\ \A n \in DOMAIN ops : n # g => told[n] = ops[n]
      BY <1>1, <1>2, <1>3, <2>3
    <2>5. told \in Seq(OperationType) /\ DOMAIN told = DOMAIN ops
      BY <1>1, <2>4
    <2> QED BY <2>4, <2>5 DEF x
  <1>5. /\ told[g].kind = ops[g].kind /\ told[g].status = "cancelled"
        /\ told[g].calls = ops[g].calls /\ told[g].cancelCalls = ops[g].cancelCalls
    <2> HIDE DEF told
    <2>1. LET x == [ops[g] EXCEPT !.status = "cancelled"]
          IN  /\ x.kind = ops[g].kind /\ x.status = "cancelled"
              /\ x.calls = ops[g].calls /\ x.cancelCalls = ops[g].cancelCalls
      BY <1>3 DEF OperationType
    <2> QED BY <1>4, <2>1
  <1> HIDE DEF told
  <1>6. /\ r \in SeenType /\ r.kind = ops[g].kind /\ r.status = "cancelled"
        /\ r.calls = ops[g].calls /\ r.cancelCalls = ops[g].cancelCalls
    BY <1>2 DEF SeenType
  <1> HIDE DEF r
  <1>7. \A n \in DOMAIN ops : n # g => Alike(told, ops, n)
    BY <1>4 DEF Alike
  <1>8. View(told) = [Seen EXCEPT ![g] = r]
    <2>1. told \in Seq(OperationType) /\ DOMAIN told = DOMAIN ops
      BY <1>4
    <2>2. /\ told[g].kind = r.kind /\ told[g].status = r.status
          /\ told[g].calls = r.calls /\ told[g].cancelCalls = r.cancelCalls
      BY <1>5, <1>6
    <2>3. ops \in Seq(OperationType) /\ g \in DOMAIN ops /\ r \in SeenType
      BY <1>1, <1>6
    <2>4. View(told) = [View(ops) EXCEPT ![g] = r]
      BY <1>7, <2>1, <2>2, <2>3, Noticed
    <2> QED BY <2>4, SeenIsView
  <1>9. [Seen EXCEPT ![g] = r] = [Seen EXCEPT ![g].status = "cancelled"]
    BY <1>2 DEF r
  <1> QED BY <1>1, <1>2, <1>8, <1>9 DEF told

\* A step that moves an operation is not noticed.
LEMMA MoveUnnoticed ==
  ASSUME Inv, NEW g \in DOMAIN ops,
         NEW place \in {"pend", "sq", "kernel", "cq", "call", "next", "free"},
         ops' = [ops EXCEPT ![g].at = place]
  PROVE  UNCHANGED Seen
  <1>1. /\ ops \in Seq(OperationType) /\ ops' \in Seq(OperationType)
        /\ DOMAIN ops' = DOMAIN ops
        /\ \A n \in DOMAIN ops : Alike(ops', ops, n)
    BY MovedFacts, ZenonT(60) DEF Inv, TypeOK, Alike
  <1> QED BY <1>1, Unnoticed, SeenIsView

\* Every step of the reactor is one of the list of operations, or is not
\* noticed.
LEMMA StepKeepsPromise ==
  ASSUME Inv, Progress, [Next]_vars
  PROVE  [Promise!Next]_Seen
  <1>0. /\ ops \in Seq(OperationType) /\ DOMAIN Seen = DOMAIN ops
    BY ViewFacts, SeenIsView DEF Inv, TypeOK
  <1>1. CASE UNCHANGED ops
    BY <1>1 DEF Seen
  <1>2. CASE \E kind \in Requests : Issue(kind)
    <2>1. PICK kind \in Requests : Issue(kind)
      BY <1>2
    <2>2. /\ pool' = PoolMalloc(pool) /\ Len(ops) + 1 <= MaxOps
          /\ user' = Define(user, PoolObject(pool), Callback(Len(ops) + 1, "issue"))
          /\ \E place \in {"pend", "sq", "next"} :
               ops' = Append(ops, Operation(kind, PoolObject(pool), place))
      BY <2>1 DEF Issue, Submit
    <2>3. kind \in Kinds /\ Told(user, ops)
      BY ToldSame DEF Kinds
    <2>4. Seen' = Append(Seen, Promise!New(kind)) /\ Len(Seen) < MaxOps
      BY <2>2, <2>3, SeenGrows, SeenIsView
    <2> QED BY <2>3, <2>4 DEF Promise!Next, Promise!Issue
  <1>3. CASE \E g \in DOMAIN ops : Remove(g)
    <2>1. PICK g \in DOMAIN ops : Remove(g)
      BY <1>3
    <2>2. /\ pool' = PoolMalloc(pool) /\ Len(ops) + 1 <= MaxOps
          /\ user' = Define(user, PoolObject(pool), Callback(Len(ops) + 1, "issue"))
          /\ \E place \in {"pend", "sq", "next"} :
               ops' = Append(ops, Operation("remove", PoolObject(pool), place))
      BY <2>1 DEF Remove, Submit
    <2>3. "remove" \in Kinds /\ Told(user, ops)
      BY ToldSame DEF Kinds
    <2>4. Seen' = Append(Seen, Promise!New("remove")) /\ Len(Seen) < MaxOps
      BY <2>2, <2>3, SeenGrows, SeenIsView
    <2> QED BY <2>3, <2>4 DEF Promise!Next, Promise!Issue
  <1>4. CASE Schedule
    <2>1. /\ pool' = PoolMalloc(pool) /\ Len(ops) + 1 <= MaxOps
          /\ user' = Define(user, PoolObject(pool), Callback(Len(ops) + 1, "issue"))
          /\ ops' = Append(ops, Operation("next", PoolObject(pool), "next"))
      BY <1>4 DEF Schedule
    <2>2. "next" \in Kinds /\ Told(user, ops)
      BY ToldSame DEF Kinds
    <2>3. Seen' = Append(Seen, Promise!New("next")) /\ Len(Seen) < MaxOps
      BY <2>1, <2>2, SeenGrows, SeenIsView
    <2> QED BY <2>2, <2>3 DEF Promise!Next, Promise!Issue
  <1>5. CASE \E g \in DOMAIN ops : CancelRequest(g)
    <2>1. PICK g \in DOMAIN ops : CancelRequest(g)
      BY <1>5
    <2> DEFINE users == Define(user, ops[g].user, Callback(g, "cancel"))
               told == [ops EXCEPT ![g].status = "cancelled"]
    <2>2. /\ Submit("cancel", ops[g].user, g, users, told)
          /\ Held(g) /\ ops[g].kind # "next"
      BY <2>1 DEF CancelRequest
    <2>3. /\ Told(users, told)
          /\ View(told) = [Seen EXCEPT ![g].status = "cancelled"]
          /\ Seen[g].status = "pending" /\ Seen[g].kind \notin {"cancel", "next"}
      BY <2>2, ToldCancelled, SeenCancelled
    <2> HIDE DEF users, told
    <2>4. /\ pool' = PoolMalloc(pool) /\ Len(ops) + 1 <= MaxOps
          /\ user' = Define(users, PoolObject(pool), Callback(Len(ops) + 1, "issue"))
          /\ \E place \in {"pend", "sq", "next"} :
               ops' = Append(told, Operation("cancel", PoolObject(pool), place))
      BY <2>2 DEF Submit
    <2>5. "cancel" \in Kinds
      BY DEF Kinds
    <2>6. Seen' = Append(View(told), Promise!New("cancel")) /\ Len(Seen) < MaxOps
      BY <2>3, <2>4, <2>5, SeenGrows
    <2>7. Promise!Cancel(g)
      BY <2>3, <2>6 DEF Promise!Cancel
    <2> QED BY <1>0, <2>7 DEF Promise!Next
  <1>6. CASE \E g \in DOMAIN ops : CancelNext(g)
    <2>1. PICK g \in DOMAIN ops : CancelNext(g)
      BY <1>6
    <2>2. Held(g) /\ ops[g].kind = "next" /\ ops' = [ops EXCEPT ![g].status = "cancelled"]
      BY <2>1 DEF CancelNext
    <2>3. /\ Seen' = [Seen EXCEPT ![g].status = "cancelled"]
          /\ Seen[g].status = "pending" /\ Seen[g].kind = "next"
      BY <2>2, SeenCancelled, SeenIsView
    <2>4. Promise!Cancel(g)
      BY <2>3 DEF Promise!Cancel
    <2> QED BY <1>0, <2>4 DEF Promise!Next
  <1>7. CASE KernelTake
    <2>1. sq \in Seq(SqeType) /\ sq # <<>>
      BY <1>7 DEF KernelTake, Inv, TypeOK
    <2>2. 1 \in DOMAIN sq /\ Head(sq) = sq[1]
      BY <2>1, TailCases
    <2>3. Head(sq).gen \in DOMAIN ops
      BY <2>2 DEF Inv, Places, SqPlaces, Owns
    <2>4. \/ ops' = [ops EXCEPT ![Head(sq).gen].at = "cq"]
          \/ ops' = [ops EXCEPT ![Head(sq).gen].at = "kernel"]
      BY <1>7 DEF KernelTake
    <2> QED BY <2>3, <2>4, MoveUnnoticed
  <1>8. CASE \E k \in kernel : KernelComplete(k)
    <2>1. PICK k \in kernel : KernelComplete(k)
      BY <1>8
    <2>2. k.gen \in DOMAIN ops /\ ops' = [ops EXCEPT ![k.gen].at = "cq"]
      BY <2>1 DEF KernelComplete, Inv, Places, KernelPlaces, Owns
    <2> QED BY <2>2, MoveUnnoticed
  <1>9. CASE FlushReturn
    <2>1. pend[1].gen \in DOMAIN ops /\ ops' = [ops EXCEPT ![pend[1].gen].at = "sq"]
      BY <1>9, PendFacts DEF FlushReturn, Inv, Places, PendPlaces, Owns
    <2> QED BY <2>1, MoveUnnoticed
  <1>10. CASE NextReturn \/ (CqeReturn /\ ~ cur.more)
    <2>1. cur.gen \in DOMAIN ops /\ ops' = [ops EXCEPT ![cur.gen].at = "free"]
      BY <1>10 DEF NextReturn, CqeReturn, FreeUser, Inv, Places, CurPlaces, Owns
    <2> QED BY <2>1, MoveUnnoticed
  <1>11. CASE NextCall
    <2> DEFINE g == next[1 - current][index].gen
    <2>1. PICK how \in {"issue", "cancel"} :
            /\ how = "cancel" <=> ops[g].status \in {"cancelled", "closed"}
            /\ ops'[g].status = IF how = "issue" THEN "done" ELSE "closed"
            /\ ops'[g].calls = IF how = "issue" THEN ops[g].calls + 1 ELSE ops[g].calls
            /\ ops'[g].cancelCalls =
                 IF how = "cancel" THEN ops[g].cancelCalls + 1 ELSE ops[g].cancelCalls
      BY <1>11, NextCallFacts, ZenonT(60)
    <2>2. /\ g \in DOMAIN ops /\ ops[g].at = "next" /\ pc = "next"
          /\ ops' \in Seq(OperationType) /\ DOMAIN ops' = DOMAIN ops
          /\ ops'[g].kind = ops[g].kind
          /\ \A n \in DOMAIN ops : n # g => ops'[n] = ops[n]
      BY <1>11, NextCallFacts
    <2> HIDE DEF g
    <2>3. Waits(g)
      BY <2>2 DEF Progress, Unanswered
    <2>4. \A n \in DOMAIN ops : n # g => Alike(ops', ops, n)
      BY <2>2 DEF Alike
    <2>5. Promise!Complete(g) \/ Promise!Close(g)
      BY <1>0, <2>1, <2>2, <2>3, <2>4, NoticedEnd
    <2> QED BY <1>0, <2>2, <2>5 DEF Promise!Next
  <1>12. CASE CqeCall
    <2> DEFINE c == Head(cq)
               g == c.gen
               zc == ops[g].kind = "zc"
    <2>1. PICK how \in {"issue", "cancel"} :
            /\ how = "cancel" <=> ops[g].status \in {"cancelled", "closed"}
            /\ ~ c.notif /\ (~ c.more \/ zc) =>
                 ops'[g].status = IF how = "issue" THEN "done" ELSE "closed"
            /\ c.notif \/ (c.more /\ ~ zc) => ops'[g].status = ops[g].status
            /\ ops'[g].calls =
                 IF ~ c.notif /\ how = "issue" THEN ops[g].calls + 1 ELSE ops[g].calls
            /\ ops'[g].cancelCalls =
                 IF ~ c.notif /\ how = "cancel" THEN ops[g].cancelCalls + 1 ELSE ops[g].cancelCalls
      BY <1>12, CqeCallFacts, Zenon
    <2>2. /\ c = cq[1] /\ 1 \in DOMAIN cq
          /\ g \in DOMAIN ops
          /\ ops' \in Seq(OperationType) /\ DOMAIN ops' = DOMAIN ops
          /\ ops'[g].kind = ops[g].kind
          /\ \A n \in DOMAIN ops : n # g =>
               /\ ops'[n].kind = ops[n].kind
               /\ ops'[n].status = ops[n].status
               /\ ops'[n].calls = ops[n].calls
               /\ ops'[n].cancelCalls = ops[n].cancelCalls
      BY <1>12, CqeCallFacts
    <2>3. (~ c.notif => Waits(g)) /\ (c.more => ops[g].kind \in {"multi", "zc"})
      BY <2>2 DEF Progress, Unanswered
    <2> HIDE DEF c, g
    <2>4. \A n \in DOMAIN ops : n # g => Alike(ops', ops, n)
      BY <2>2 DEF Alike
    <2>5. CASE c.notif
      <3>1. Alike(ops', ops, g)
        BY <2>1, <2>2, <2>5 DEF Alike
      <3>2. \A n \in DOMAIN ops' : Alike(ops', ops, n)
        BY <2>2, <2>4, <3>1
      <3> QED BY <1>0, <2>2, <3>2, Unnoticed, SeenIsView
    <2>6. CASE ~ c.notif /\ (~ c.more \/ zc)
      <3>1. Promise!Complete(g) \/ Promise!Close(g)
        BY <1>0, <2>1, <2>2, <2>3, <2>4, <2>6, NoticedEnd
      <3> QED BY <1>0, <2>2, <3>1 DEF Promise!Next
    <2>7. CASE ~ c.notif /\ c.more /\ ~ zc
      <3>1. ops[g].kind = "multi"
        BY <2>3, <2>7
      <3>2. Promise!Event(g)
        BY <1>0, <2>1, <2>2, <2>3, <2>4, <2>7, <3>1, NoticedEvent
      <3> QED BY <1>0, <2>2, <3>2 DEF Promise!Next
    <2> QED BY <2>5, <2>6, <2>7
  <1>13. \/ UNCHANGED ops
         \/ (\E kind \in Requests : Issue(kind)) \/ (\E g \in DOMAIN ops : Remove(g))
         \/ Schedule \/ (\E g \in DOMAIN ops : CancelRequest(g))
         \/ (\E g \in DOMAIN ops : CancelNext(g))
         \/ KernelTake \/ (\E k \in kernel : KernelComplete(k)) \/ FlushReturn
         \/ NextReturn \/ (CqeReturn /\ ~ cur.more) \/ CqeCall \/ NextCall
    BY DEF Next, vars, Client, Kernel, Loop, KernelMore, LoopStart, LoopReturn, LoopNext,
           LoopNoNext, NextClear, Enter, EnterReturn, CqeReturn, CqeEmpty
  <1> QED BY <1>1, <1>2, <1>3, <1>4, <1>5, <1>6, <1>7, <1>8, <1>9, <1>10, <1>11, <1>12, <1>13

\* The reactor implements the list of operations: a callback is called only
\* while the client waits for it, once but for the events of a multishot poll,
\* and after reactor_cancel() it is the callback given to that call, whatever
\* addresses are reused and in whatever order entries come and go.
THEOREM PromiseIsKept == Spec => KeepsPromise
  <1>1. Init => Promise!Init
    BY DEF Init, Seen, Promise!Init
  <1>2. Inv /\ Progress /\ [Next]_vars => [Promise!Next]_Seen
    BY StepKeepsPromise
  <1> QED BY <1>1, <1>2, Invariance, ProgressInvariance, PTL DEF Spec, KeepsPromise, Promise!Spec

-----------------------------------------------------------------------------
(* The rings of module Ring, which module Reactor has as the sequences sq  *)
(* and cq: with counters that wrap around, of every size that divides the  *)
(* modulus, they are FIFO queues.  The assumptions on the sizes are those  *)
(* of module Ring.                                                         *)

\* Division with remainder.
LEMMA DivMod ==
  ASSUME NEW a \in Int, NEW n \in Nat \ {0}
  PROVE  /\ a % n \in 0 .. n - 1
         /\ a \div n \in Int
         /\ a = n * (a \div n) + (a % n)
  OBVIOUS

\* The remainder is unique.
LEMMA ModIs ==
  ASSUME NEW n \in Nat \ {0}, NEW q \in Int, NEW r \in 0 .. n - 1
  PROVE  (n * q + r) % n = r
  <1> DEFINE a == n * q + r
  <1>1. a \in Int
    OBVIOUS
  <1>2. /\ a % n \in 0 .. n - 1
        /\ a \div n \in Int
        /\ a = n * (a \div n) + (a % n)
    BY <1>1, DivMod
  <1> DEFINE d == a \div n
             s == a % n
  <1> HIDE DEF d, s
  <1>3. s \in 0 .. n - 1 /\ d \in Int /\ n * q + r = n * d + s
    BY <1>2 DEF d, s
  <1>4. CASE d > q
    <2>1. n * (d - q) >= n
      BY <1>3, <1>4
    <2>2. n * (d - q) = n * d - n * q
      BY <1>3
    <2> QED BY <2>1, <2>2, <1>3
  <1>5. CASE d < q
    <2>1. n * (q - d) >= n
      BY <1>3, <1>5
    <2>2. n * (q - d) = n * q - n * d
      BY <1>3
    <2> QED BY <2>1, <2>2, <1>3
  <1> QED BY <1>3, <1>4, <1>5 DEF s

\* The operator %, for steps that use no more of it than the lemmas say.
Mod(a, n) == a % n

LEMMA ModRange ==
  ASSUME NEW a \in Int, NEW n \in Nat \ {0}
  PROVE  Mod(a, n) \in 0 .. n - 1
  BY DivMod DEF Mod

\* A multiple of the divisor does not change the remainder.
LEMMA ModShift ==
  ASSUME NEW n \in Nat \ {0}, NEW m \in Nat, Mod(m, n) = 0, NEW a \in Int
  PROVE  Mod(a + m, n) = Mod(a, n)
  <1> DEFINE k == m \div n
             q == a \div n
             r == a % n
  <1>1. k \in Int /\ m = n * k
    BY DivMod DEF Mod
  <1>2. q \in Int /\ r \in 0 .. n - 1 /\ a = n * q + r
    BY DivMod
  <1> HIDE DEF k, q, r
  <1>3. a + m = n * (q + k) + r
    BY <1>1, <1>2
  <1>4. (n * (q + k) + r) % n = r
    BY <1>1, <1>2, ModIs
  <1> QED BY <1>3, <1>4 DEF r, Mod

\* Numbers that are less than the divisor apart have different remainders.
LEMMA ModDiffers ==
  ASSUME NEW n \in Nat \ {0}, NEW a \in Int, NEW b \in Int, a < b, b < a + n
  PROVE  Mod(a, n) # Mod(b, n)
  <1> SUFFICES ASSUME a % n = b % n
               PROVE  FALSE
    BY DEF Mod
  <1> DEFINE p == a \div n
             q == b \div n
             r == a % n
  <1>1. p \in Int /\ q \in Int /\ r \in Int /\ a = n * p + r /\ b = n * q + r
    BY DivMod
  <1> HIDE DEF p, q, r
  <1>2. b - a = n * (q - p)
    BY <1>1
  <1>3. CASE q > p
    BY <1>1, <1>2, <1>3
  <1>4. CASE q <= p
    <2>1. n * (q - p) <= 0
      BY <1>1, <1>4
    <2> QED BY <1>2, <2>1
  <1> QED BY <1>1, <1>3, <1>4

\* Numbers below the divisor are their own remainders.
LEMMA ModSmall ==
  ASSUME NEW n \in Nat \ {0}, NEW r \in 0 .. n - 1
  PROVE  Mod(r, n) = r
  <1>1. (n * 0 + r) % n = r
    BY ModIs
  <1> QED BY <1>1 DEF Mod

LEMMA ModSelf ==
  ASSUME NEW n \in Nat \ {0}
  PROVE  Mod(n, n) = 0
  <1>1. (n * 1 + 0) % n = 0
    BY ModIs
  <1> QED BY <1>1 DEF Mod

\* What is done with the counters: the distance of two, the next value, and
\* the slot that is i after the one of a counter.
Distance(a, b, m) == Mod(b - a, m)

Step(a, m) == Mod(a + 1, m)

Slot(a, i, n) == Mod(a + i, n)

\* What the counters count, in terms of integers.
LEMMA DistanceIs ==
  ASSUME NEW m \in Nat \ {0}, NEW a \in 0 .. m - 1, NEW b \in 0 .. m - 1
  PROVE  Distance(a, b, m) = IF a <= b THEN b - a ELSE b - a + m
  <1>1. CASE a > b
    <2>1. b - a \in Int
      OBVIOUS
    <2>2. Mod(b - a + m, m) = Mod(b - a, m)
      BY <2>1, ModSelf, ModShift
    <2>3. Mod(b - a + m, m) = b - a + m
      BY <1>1, ModSmall
    <2> QED BY <1>1, <2>2, <2>3 DEF Distance
  <1>2. CASE a <= b
    BY <1>2, ModSmall DEF Distance
  <1> QED BY <1>1, <1>2

LEMMA StepIs ==
  ASSUME NEW m \in Nat \ {0}, NEW a \in 0 .. m - 1
  PROVE  Step(a, m) = IF a + 1 = m THEN 0 ELSE a + 1
  BY ModSelf, ModSmall DEF Step

LEMMA SlotRange ==
  ASSUME NEW n \in Nat \ {0}, NEW a \in Int, NEW i \in Int
  PROVE  Slot(a, i, n) \in 0 .. n - 1
  BY ModRange DEF Slot

\* Neighbouring slots are different ones.
LEMMA SlotDiffers ==
  ASSUME NEW n \in Nat \ {0}, NEW a \in Int, NEW i \in Int, NEW j \in Int, i < j, j < i + n
  PROVE  Slot(a, i, n) # Slot(a, j, n)
  <1>1. a + i \in Int /\ a + j \in Int /\ a + i < a + j /\ a + j < (a + i) + n
    OBVIOUS
  <1> QED BY <1>1, ModDiffers DEF Slot

\* The slot of the tail is the one that is as far from that of the head as the
\* counters are from each other, and a step of the counter is one of the slot:
\* both hold where the counters wrap around too.
LEMMA SlotOfTail ==
  ASSUME NEW n \in Nat \ {0}, NEW m \in Nat \ {0}, Mod(m, n) = 0,
         NEW a \in 0 .. m - 1, NEW b \in 0 .. m - 1
  PROVE  Mod(b, n) = Slot(a, Distance(a, b, m), n)
  <1> DEFINE u == Distance(a, b, m)
  <1>1. u = IF a <= b THEN b - a ELSE b - a + m
    BY DistanceIs
  <1> HIDE DEF u
  <1>2. a + u = b \/ a + u = b + m
    BY <1>1
  <1>3. Mod(b + m, n) = Mod(b, n)
    BY ModShift
  <1>4. Mod(b, n) = Mod(a + u, n)
    BY <1>2, <1>3
  <1> QED BY <1>4 DEF u, Slot

LEMMA SlotOfStep ==
  ASSUME NEW n \in Nat \ {0}, NEW m \in Nat \ {0}, Mod(m, n) = 0,
         NEW a \in 0 .. m - 1, NEW i \in Int
  PROVE  Slot(Step(a, m), i, n) = Slot(a, i + 1, n)
  <1> DEFINE v == Step(a, m)
  <1>1. v = IF a + 1 = m THEN 0 ELSE a + 1
    BY StepIs
  <1> HIDE DEF v
  <1>2. CASE a + 1 = m
    <2>1. v + i = i /\ a + (i + 1) = i + m
      BY <1>1, <1>2
    <2>2. Mod(i + m, n) = Mod(i, n)
      BY ModShift
    <2>3. Mod(v + i, n) = Mod(a + (i + 1), n)
      BY <2>1, <2>2
    <2> QED BY <2>3 DEF v, Slot
  <1>3. CASE a + 1 # m
    <2>1. v + i = a + (i + 1)
      BY <1>1, <1>3
    <2> QED BY <2>1 DEF v, Slot
  <1> QED BY <1>2, <1>3

\* Module Ring in these terms.
LEMMA RingFacts ==
  ASSUME NEW S, NEW ring, NEW n, RingOK(ring, n, S)
  PROVE  /\ ring.head \in 0 .. Modulus - 1
         /\ ring.tail \in 0 .. Modulus - 1
         /\ ring.entry \in [0 .. n - 1 -> S \cup {None}]
         /\ Queue(ring, n) \in Seq(S)
         /\ Used(ring) <= n
  BY DEF RingOK

LEMMA UsedIs ==
  ASSUME NEW ring
  PROVE  Used(ring) = Distance(ring.head, ring.tail, Modulus)
  BY DEF Used, Distance, Mod

LEMMA QueueIs ==
  ASSUME NEW ring, NEW n, ring.head \in Int
  PROVE  Queue(ring, n) =
           [i \in 1 .. Used(ring) |-> ring.entry[Slot(ring.head, i - 1, n)]]
  <1>1. \A i \in 1 .. Used(ring) :
           (ring.head + i - 1) % n = Slot(ring.head, i - 1, n)
    <2> TAKE i \in 1 .. Used(ring)
    <2>1. ring.head + i - 1 = ring.head + (i - 1)
      OBVIOUS
    <2> QED BY <2>1 DEF Slot, Mod
  <1> QED BY <1>1 DEF Queue

LEMMA PutIs ==
  ASSUME NEW S, NEW ring, NEW n, NEW e, RingOK(ring, n, S)
  PROVE  LET after == Put(ring, n, e)
         IN  /\ after.head = ring.head
             /\ after.tail = Step(ring.tail, Modulus)
             /\ after.entry = [ring.entry EXCEPT ![Mod(ring.tail, n)] = e]
             /\ after = [head |-> after.head, tail |-> after.tail, entry |-> after.entry]
  <1> DEFINE s == Mod(ring.tail, n)
             w == Step(ring.tail, Modulus)
  <1>1. Put(ring, n, e) = [ring EXCEPT !.entry[s] = e, !.tail = w]
    BY DEF Put, Step, Mod
  <1>2. ring \in [head : 0 .. Modulus - 1, tail : 0 .. Modulus - 1,
                  entry : [0 .. n - 1 -> S \cup {None}]]
    BY DEF RingOK
  <1> HIDE DEF s, w
  <1>3. /\ Put(ring, n, e).head = ring.head
        /\ Put(ring, n, e).tail = w
        /\ Put(ring, n, e).entry = [ring.entry EXCEPT ![s] = e]
    BY <1>1, <1>2
  <1>4. LET after == Put(ring, n, e)
        IN  after = [head |-> after.head, tail |-> after.tail, entry |-> after.entry]
    BY <1>1, <1>2
  <1> QED BY <1>3, <1>4 DEF s, w

LEMMA DropIs ==
  ASSUME NEW S, NEW ring, NEW n, RingOK(ring, n, S)
  PROVE  LET after == Drop(ring)
         IN  /\ after.head = Step(ring.head, Modulus)
             /\ after.tail = ring.tail
             /\ after.entry = ring.entry
             /\ after = [head |-> after.head, tail |-> after.tail, entry |-> after.entry]
  BY DEF Drop, RingOK, Step, Mod

\* A ring with the parts of a ring is one.
LEMMA MakesRing ==
  ASSUME NEW S, NEW n, NEW after,
         after = [head |-> after.head, tail |-> after.tail, entry |-> after.entry],
         after.head \in 0 .. Modulus - 1,
         after.tail \in 0 .. Modulus - 1,
         after.entry \in [0 .. n - 1 -> S \cup {None}],
         Queue(after, n) \in Seq(S),
         Used(after) <= n
  PROVE  RingOK(after, n, S)
  BY DEF RingOK

\* An entry that is put into a ring with room becomes the last one; the slot
\* before the head is the last to be taken.
LEMMA PutFacts ==
  ASSUME NEW n \in Nat \ {0}, Modulus \in Nat \ {0}, Mod(Modulus, n) = 0, n < Modulus,
         NEW S, NEW ring, RingOK(ring, n, S), Used(ring) < n,
         NEW e \in S
  PROVE  LET after == Put(ring, n, e)
         IN  /\ RingOK(after, n, S)
             /\ Used(after) = Used(ring) + 1
             /\ Queue(after, n) = Append(Queue(ring, n), e)
             /\ after.head = ring.head
             /\ Used(after) < n =>
                  after.entry[Slot(ring.head, -1, n)] = ring.entry[Slot(ring.head, -1, n)]
  <1> DEFINE h == ring.head
             t == ring.tail
             f == ring.entry
             u == Used(ring)
             after == Put(ring, n, e)
             q == Queue(ring, n)
             r == Queue(after, n)
             w == Step(t, Modulus)
             s == Mod(t, n)
             g == [f EXCEPT ![s] = e]
  <1>1. /\ h \in 0 .. Modulus - 1
        /\ t \in 0 .. Modulus - 1
        /\ f \in [0 .. n - 1 -> S \cup {None}]
        /\ q \in Seq(S)
    BY RingFacts
  <1>2. /\ after.head = h
        /\ after.tail = w
        /\ after.entry = g
        /\ after = [head |-> after.head, tail |-> after.tail, entry |-> after.entry]
    BY PutIs
  <1>3. u = Distance(h, t, Modulus) /\ Used(after) = Distance(h, w, Modulus)
    BY <1>2, UsedIs
  <1>4. q = [i \in 1 .. u |-> f[Slot(h, i - 1, n)]]
    BY <1>1, QueueIs
  <1>5. r = [i \in 1 .. Used(after) |-> g[Slot(h, i - 1, n)]]
    <2> HIDE DEF h, g, after
    <2>1. after.head \in Int
      BY <1>1, <1>2
    <2>2. r = [i \in 1 .. Used(after) |-> after.entry[Slot(after.head, i - 1, n)]]
      BY <2>1, QueueIs
    <2> QED BY <1>2, <2>2
  <1>6. e \in S /\ u < n
    OBVIOUS
  <1> HIDE DEF h, t, f, u, after, q, r, w, s
  <1>7. u = IF h <= t THEN t - h ELSE t - h + Modulus
    BY <1>1, <1>3, DistanceIs
  <1>8. w = IF t + 1 = Modulus THEN 0 ELSE t + 1
    BY <1>1, StepIs DEF w
  <1>9. s = Slot(h, u, n)
    BY <1>1, <1>3, SlotOfTail DEF s
  <1>10. w \in 0 .. Modulus - 1 /\ u \in 0 .. n - 1 /\ u \in Int /\ h \in Int
    BY <1>1, <1>6, <1>7, <1>8
  <1>11. Distance(h, w, Modulus) = IF h <= w THEN w - h ELSE w - h + Modulus
    BY <1>1, <1>10, DistanceIs
  <1>12. Used(after) = u + 1
    BY <1>1, <1>3, <1>6, <1>7, <1>8, <1>11
  <1>13. s \in 0 .. n - 1
    BY <1>1, <1>9, <1>10, SlotRange
  <1>14. g \in [0 .. n - 1 -> S \cup {None}]
    <2>1. e \in S \cup {None}
      BY <1>6
    <2> QED BY <1>1, <2>1
  <1>15. ASSUME NEW i \in 1 .. u
         PROVE  Slot(h, i - 1, n) # s /\ Slot(h, i - 1, n) \in 0 .. n - 1
    <2>1. i - 1 \in Int /\ i - 1 < u /\ u < (i - 1) + n
      BY <1>10
    <2> QED BY <1>1, <1>9, <1>10, <2>1, SlotDiffers, SlotRange
  <1>16. ASSUME u + 1 < n
         PROVE  Slot(h, -1, n) # s /\ Slot(h, -1, n) \in 0 .. n - 1
    <2>1. -1 \in Int /\ -1 < u /\ u < -1 + n
      BY <1>10, <1>16
    <2> QED BY <1>1, <1>9, <1>10, <2>1, SlotDiffers, SlotRange
  <1> DEFINE a == Append(q, e)
  <1>17. Len(q) = u
    BY <1>4, <1>10
  <1>18. /\ a \in Seq(S)
         /\ DOMAIN a = 1 .. u + 1
         /\ \A i \in 1 .. u : a[i] = q[i]
         /\ a[u + 1] = e
    BY <1>1, <1>17, AppendFacts
  <1> HIDE DEF a
  <1>19. ASSUME NEW i \in 1 .. u + 1
         PROVE  g[Slot(h, i - 1, n)] = a[i]
    <2>1. CASE i = u + 1
      <3>1. i - 1 = u
        BY <1>10, <2>1
      <3> QED BY <1>1, <1>9, <1>13, <1>18, <2>1, <3>1
    <2>2. CASE i \in 1 .. u
      <3> DEFINE x == Slot(h, i - 1, n)
      <3>1. x # s /\ x \in 0 .. n - 1
        BY <1>15, <2>2
      <3>2. q[i] = f[x]
        BY <1>4, <2>2
      <3> HIDE DEF x
      <3>3. g[x] = f[x]
        BY <1>1, <3>1
      <3>4. g[x] = a[i]
        BY <1>18, <2>2, <3>2, <3>3
      <3> QED BY <3>4 DEF x
    <2> QED BY <1>10, <2>1, <2>2
  <1> HIDE DEF g
  <1>20. r = a
    <2>1. a = [i \in 1 .. u + 1 |-> a[i]]
      BY <1>18, <1>10
    <2>2. r = [i \in 1 .. u + 1 |-> g[Slot(h, i - 1, n)]]
      BY <1>5, <1>12
    <2> QED BY <1>19, <2>1, <2>2
  <1>21. RingOK(after, n, S)
    <2>1. Queue(after, n) \in Seq(S)
      BY <1>18, <1>20 DEF r
    <2>2. Used(after) <= n
      BY <1>10, <1>12
    <2> QED BY <1>1, <1>2, <1>10, <1>14, <2>1, <2>2, MakesRing
  <1>22. ASSUME u + 1 < n
         PROVE  g[Slot(h, -1, n)] = f[Slot(h, -1, n)]
    <2> DEFINE x == Slot(h, -1, n)
    <2>1. x # s /\ x \in 0 .. n - 1
      BY <1>16, <1>22
    <2> HIDE DEF x
    <2>2. g[x] = f[x]
      BY <1>1, <2>1 DEF g
    <2> QED BY <2>2 DEF x
  <1>23. Queue(after, n) = Append(Queue(ring, n), e)
    BY <1>20 DEF r, a, q
  <1>24. after.head = ring.head
    BY <1>2 DEF h
  <1>25. Used(after) < n =>
           after.entry[Slot(ring.head, -1, n)] = ring.entry[Slot(ring.head, -1, n)]
    BY <1>2, <1>12, <1>22 DEF h, f
  <1>26. Used(after) = Used(ring) + 1
    BY <1>12 DEF u
  <1> QED BY <1>21, <1>23, <1>24, <1>25, <1>26 DEF after

\* Dropping the first entry leaves the others, and its slot is the one before
\* the head then.
LEMMA DropFacts ==
  ASSUME NEW n \in Nat \ {0}, Modulus \in Nat \ {0}, Mod(Modulus, n) = 0, n < Modulus,
         NEW S, NEW ring, RingOK(ring, n, S), Used(ring) # 0
  PROVE  LET after == Drop(ring)
             queue == Queue(ring, n)
         IN  /\ RingOK(after, n, S)
             /\ Used(after) = Used(ring) - 1
             /\ queue # <<>>
             /\ Queue(after, n) = Tail(queue)
             /\ ring.entry[Slot(ring.head, 0, n)] \in S
             /\ after.entry = ring.entry
             /\ Slot(after.head, -1, n) = Slot(ring.head, 0, n)
             /\ Slot(ring.head, 0, n) \in 0 .. n - 1
  <1> DEFINE h == ring.head
             t == ring.tail
             f == ring.entry
             u == Used(ring)
             after == Drop(ring)
             q == Queue(ring, n)
             r == Queue(after, n)
             v == Step(h, Modulus)
  <1>1. /\ h \in 0 .. Modulus - 1
        /\ t \in 0 .. Modulus - 1
        /\ f \in [0 .. n - 1 -> S \cup {None}]
        /\ q \in Seq(S)
        /\ u <= n
    BY RingFacts
  <1>2. /\ after.head = v
        /\ after.tail = t
        /\ after.entry = f
        /\ after = [head |-> after.head, tail |-> after.tail, entry |-> after.entry]
    BY DropIs
  <1>3. u = Distance(h, t, Modulus) /\ Used(after) = Distance(v, t, Modulus)
    BY <1>2, UsedIs
  <1>4. q = [i \in 1 .. u |-> f[Slot(h, i - 1, n)]]
    BY <1>1, QueueIs, SMTT(60)
  <1>5. v = IF h + 1 = Modulus THEN 0 ELSE h + 1
    BY <1>1, StepIs
  <1>6. v \in 0 .. Modulus - 1 /\ v \in Int
    <2> HIDE DEF v
    <2> QED BY <1>1, <1>5, SMTT(60)
  <1>7. r = [i \in 1 .. Used(after) |-> f[Slot(v, i - 1, n)]]
    BY <1>2, <1>6, QueueIs
  <1>8. \A i \in Int : Slot(v, i, n) = Slot(h, i + 1, n)
    BY <1>1, SlotOfStep, ZenonT(60)
  <1>9. u # 0
    OBVIOUS
  <1> HIDE DEF h, t, f, u, after, q, r, v
  <1>10. u = IF h <= t THEN t - h ELSE t - h + Modulus
    BY <1>1, <1>3, DistanceIs, SMTT(60)
  <1>11. Distance(v, t, Modulus) = IF v <= t THEN t - v ELSE t - v + Modulus
    BY <1>1, <1>6, DistanceIs, SMTT(60)
  <1>12. u \in 1 .. n
    BY <1>1, <1>9, <1>10
  <1>13. Used(after) = u - 1
    BY <1>1, <1>3, <1>5, <1>9, <1>10, <1>11, SMTT(60)
  <1>14. Len(q) = u
    BY <1>4, <1>12
  <1>15. q # <<>>
    BY <1>12, <1>14
  <1> DEFINE a == Tail(q)
  <1>16. /\ a \in Seq(S)
         /\ DOMAIN a = 1 .. u - 1
         /\ \A i \in 1 .. u - 1 : a[i] = q[i + 1]
    BY <1>1, <1>14, <1>15, TailFacts
  <1> HIDE DEF a
  <1>17. ASSUME NEW i \in 1 .. u - 1
         PROVE  f[Slot(v, i - 1, n)] = a[i]
    <2>1. i - 1 \in Int /\ (i - 1) + 1 = (i + 1) - 1 /\ i + 1 \in 1 .. u
      BY <1>12
    <2>2. Slot(v, i - 1, n) = Slot(h, (i + 1) - 1, n)
      BY <1>8, <2>1
    <2>3. q[i + 1] = f[Slot(h, (i + 1) - 1, n)]
      BY <1>4, <2>1
    <2> QED BY <1>16, <2>2, <2>3
  <1>18. r = a
    <2>1. a = [i \in 1 .. u - 1 |-> a[i]]
      BY <1>16, <1>12
    <2>2. r = [i \in 1 .. u - 1 |-> f[Slot(v, i - 1, n)]]
      BY <1>7, <1>13
    <2> QED BY <1>17, <2>1, <2>2
  <1>19. f[Slot(h, 0, n)] \in S
    <2>1. 1 \in 1 .. u /\ 1 - 1 = 0
      BY <1>12
    <2>2. q[1] = f[Slot(h, 1 - 1, n)]
      BY <1>4, <2>1
    <2>3. q[1] \in S
      BY <1>1, <1>14, <2>1, ElementOfSeq
    <2> QED BY <2>1, <2>2, <2>3
  <1>20. Slot(v, -1, n) = Slot(h, 0, n) /\ Slot(h, 0, n) \in 0 .. n - 1
    <2>1. -1 \in Int /\ -1 + 1 = 0 /\ h \in Int
      BY <1>1
    <2>2. Slot(v, -1, n) = Slot(h, -1 + 1, n)
      BY <1>8
    <2>3. Slot(h, 0, n) \in 0 .. n - 1
      BY <2>1, SlotRange
    <2> QED BY <2>1, <2>2, <2>3
  <1>21. RingOK(after, n, S)
    <2>1. Queue(after, n) \in Seq(S)
      BY <1>16, <1>18 DEF r
    <2>2. Used(after) <= n
      BY <1>12, <1>13
    <2> QED BY <1>1, <1>2, <1>6, <2>1, <2>2, MakesRing
  <1>22. Queue(after, n) = Tail(Queue(ring, n)) /\ Queue(ring, n) # <<>>
    BY <1>15, <1>18 DEF r, a, q
  <1>23. Used(after) = Used(ring) - 1
    BY <1>13 DEF u
  <1> QED BY <1>2, <1>19, <1>20, <1>21, <1>22, <1>23 DEF after, h, f

\* What module Ring assumes of the sizes.
LEMMA SizesFacts ==
         /\ SqSize \in Nat \ {0} /\ CqSize \in Nat \ {0} /\ Modulus \in Nat \ {0}
         /\ Mod(Modulus, SqSize) = 0 /\ Mod(Modulus, CqSize) = 0
         /\ SqSize < Modulus /\ CqSize < Modulus
         /\ MaxOverflow \in Nat
  BY RingSizesAssumption, MaxOverflowAssumption DEF Mod

\* What the invariant says of the numbers in it.
LEMMA InvFacts ==
  ASSUME RingInv
  PROVE  /\ Used(submissions) \in 0 .. SqSize
         /\ Used(completions) \in 0 .. CqSize
         /\ Len(overflow) \in Nat
         /\ completions.head \in Int
  <1>1. /\ RingOK(submissions, SqSize, Entries)
        /\ RingOK(completions, CqSize, CqEntries)
        /\ overflow \in Seq(CqEntries)
    BY DEF RingInv, RingTypeOK
  <1>2. ASSUME NEW S, NEW ring, NEW n, RingOK(ring, n, S)
        PROVE  Used(ring) \in Nat /\ Used(ring) <= n
    <2>1. Used(ring) <= n /\ ring.head \in 0 .. Modulus - 1 /\ ring.tail \in 0 .. Modulus - 1
      BY <1>2, RingFacts
    <2>2. Used(ring) = IF ring.head <= ring.tail THEN ring.tail - ring.head
                                                      ELSE ring.tail - ring.head + Modulus
      BY <2>1, UsedIs, DistanceIs, SizesFacts
    <2> QED BY <2>1, <2>2, SizesFacts
  <1>3. completions.head \in 0 .. Modulus - 1
    BY <1>1, RingFacts
  <1>4. Used(submissions) \in Nat /\ Used(submissions) <= SqSize
    BY <1>1, <1>2
  <1>5. Used(completions) \in Nat /\ Used(completions) <= CqSize
    BY <1>1, <1>2
  <1> QED BY <1>1, <1>3, <1>4, <1>5, SizesFacts, LenProperties

LEMMA RingsInit ==
  ASSUME RingInit
  PROVE  RingInv /\ Used(submissions) = 0 /\ Used(completions) = 0
  <1>1. ASSUME NEW n \in Nat \ {0}, NEW S
        PROVE  LET ring == [head |-> 0, tail |-> 0, entry |-> [i \in 0 .. n - 1 |-> None]]
               IN  RingOK(ring, n, S) /\ Used(ring) = 0
    <2> DEFINE ring == [head |-> 0, tail |-> 0, entry |-> [i \in 0 .. n - 1 |-> None]]
    <2>1. /\ ring.head = 0 /\ ring.tail = 0
          /\ ring.entry \in [0 .. n - 1 -> S \cup {None}]
          /\ ring = [head |-> ring.head, tail |-> ring.tail, entry |-> ring.entry]
      BY SizesFacts
    <2> HIDE DEF ring
    <2>2. Distance(0, 0, Modulus) = 0
      BY DistanceIs, SizesFacts
    <2>3. Used(ring) = 0
      BY <2>1, <2>2, UsedIs
    <2>4. Queue(ring, n) = <<>>
      BY <2>3 DEF Queue
    <2>5. /\ ring.head \in 0 .. Modulus - 1 /\ ring.tail \in 0 .. Modulus - 1
          /\ Queue(ring, n) \in Seq(S)
          /\ Used(ring) <= n
      BY <2>1, <2>3, <2>4, SizesFacts
    <2>6. RingOK(ring, n, S)
      BY <2>1, <2>5, MakesRing
    <2> QED BY <2>3, <2>6 DEF ring
  <1>2. /\ RingOK(submissions, SqSize, Entries) /\ Used(submissions) = 0
        /\ RingOK(completions, CqSize, CqEntries) /\ Used(completions) = 0
    BY <1>1, SizesFacts DEF RingInit
  <1>3. RingTypeOK
    BY <1>2, SizesFacts DEF RingInit, RingTypeOK
  <1>4. Fitting
    <2>1. loop = "out" /\ overflow = <<>>
      BY DEF RingInit
    <2> QED BY <1>2, <2>1, SizesFacts DEF Fitting, Unhandled
  <1>5. Behind /\ UsersKept
    BY DEF RingInit, Behind, UsersKept
  <1> QED BY <1>2, <1>3, <1>4, <1>5 DEF RingInv

\* The counters of a ring tell whether it is empty.
LEMMA EmptyIs ==
  ASSUME NEW S, NEW n, NEW ring, RingOK(ring, n, S), ring.head # ring.tail
  PROVE  Used(ring) # 0
  <1>1. ring.head \in 0 .. Modulus - 1 /\ ring.tail \in 0 .. Modulus - 1
    BY RingFacts
  <1>2. Used(ring) = IF ring.head <= ring.tail THEN ring.tail - ring.head
                     ELSE ring.tail - ring.head + Modulus
    BY <1>1, UsedIs, DistanceIs, SizesFacts
  <1> QED BY <1>1, <1>2, SizesFacts

\* A completion is posted, or moves in from the kernel's list: the slot that
\* cqe points at is the last that it is written to.
LEMMA PutBehind ==
  ASSUME RingInv, NEW c \in CqEntries, Used(completions) # CqSize,
         completions' = Put(completions, CqSize, c),
         UNCHANGED <<loop, slot, taken>>
  PROVE  /\ RingOK(completions', CqSize, CqEntries)
         /\ Used(completions') = Used(completions) + 1
         /\ Behind'
  <1>1. RingOK(completions, CqSize, CqEntries) /\ Used(completions) \in 0 .. CqSize
    BY InvFacts DEF RingInv, RingTypeOK
  <1>2. Used(completions) < CqSize
    BY <1>1, SizesFacts
  <1>3. /\ RingOK(completions', CqSize, CqEntries)
        /\ Used(completions') = Used(completions) + 1
        /\ completions'.head = completions.head
        /\ Used(completions') < CqSize =>
             completions'.entry[Slot(completions.head, -1, CqSize)] =
             completions.entry[Slot(completions.head, -1, CqSize)]
    BY <1>1, <1>2, PutFacts, SizesFacts
  <1>4. ASSUME loop' \in {"got", "call"}
        PROVE  /\ slot' = (completions'.head - 1) % CqSize
               /\ Used(completions') < CqSize => completions'.entry[slot'] = taken'
    <2>1. completions.head - 1 = completions.head + -1
      BY InvFacts
    <2>2. /\ slot = Slot(completions.head, -1, CqSize)
          /\ completions.entry[slot] = taken
      BY <1>2, <1>4, <2>1 DEF RingInv, Behind, Slot, Mod
    <2>3. slot' = (completions'.head - 1) % CqSize
      BY <1>3, <1>4 DEF RingInv, Behind
    <2> QED BY <1>3, <2>2, <2>3
  <1>5. Behind'
    BY <1>4 DEF Behind
  <1> QED BY <1>3, <1>5

LEMMA RingsNext ==
  ASSUME RingInv, [RingNext]_ringVars
  PROVE  RingInv'
  <1> DEFINE s == Used(submissions)
             c == Used(completions)
             o == Len(overflow)
             b == IF loop \in {"got", "call"} THEN 1 ELSE 0
  <1>1. s \in 0 .. SqSize /\ c \in 0 .. CqSize /\ o \in Nat /\ b \in 0 .. 1
    BY InvFacts
  <1>2. /\ RingOK(submissions, SqSize, Entries)
        /\ RingOK(completions, CqSize, CqEntries)
        /\ overflow \in Seq(CqEntries)
        /\ inflight \subseteq Entries
        /\ notifying \subseteq Entries
    BY DEF RingInv, RingTypeOK
  <1>3. fits => c + o + b <= CqSize
    BY DEF RingInv, Fitting, Unhandled
  <1>4. Unhandled = c + o + b
    BY DEF Unhandled
  <1> HIDE DEF s, c, o, b
  <1>5. ASSUME UNCHANGED <<completions, overflow, loop, slot, taken, fits>>
        PROVE  Behind' /\ Fitting'
    BY <1>5 DEF RingInv, Behind, Fitting, Unhandled
  <1>6. ASSUME UNCHANGED <<loop, called, taken, allocated, unfinished>>, fits' => fits
        PROVE  UsersKept'
    BY <1>6 DEF RingInv, UsersKept
  <1>7. CASE \E e \in Entries : Sqe(e)
    <2> PICK e \in Entries : Sqe(e)
      BY <1>7
    <2>1. RingTypeOK'
      <3>1. CASE s = SqSize
        <4>1. waiting' = e /\ UNCHANGED submissions
          BY <3>1 DEF Sqe, s
        <4> QED BY <4>1 DEF Sqe, RingInv, RingTypeOK
      <3>2. CASE s # SqSize
        <4>1. submissions' = Put(submissions, SqSize, e) /\ UNCHANGED waiting
          BY <3>2 DEF Sqe, s
        <4>2. Used(submissions) < SqSize
          BY <1>1, <3>2, SizesFacts DEF s
        <4>3. RingOK(submissions', SqSize, Entries)
          BY <1>2, <4>1, <4>2, PutFacts, SizesFacts
        <4> QED BY <4>1, <4>3 DEF Sqe, RingInv, RingTypeOK
      <3> QED BY <3>1, <3>2
    <2>2. Behind' /\ Fitting'
      BY <1>5 DEF Sqe
    <2>3. UsersKept'
      BY DEF Sqe, RingInv, UsersKept
    <2> QED BY <2>1, <2>2, <2>3 DEF RingInv
  <1>8. CASE SqeFlushed
    <2>1. waiting \in Entries /\ s = 0 /\ waiting' = None
      BY <1>8 DEF SqeFlushed, RingInv, RingTypeOK, s
    <2>2. submissions' = Put(submissions, SqSize, waiting) /\ Used(submissions) < SqSize
      BY <1>8, <2>1, SizesFacts DEF SqeFlushed, s
    <2>3. RingOK(submissions', SqSize, Entries)
      BY <1>2, <2>1, <2>2, PutFacts, SizesFacts
    <2>4. RingTypeOK'
      BY <1>8, <2>1, <2>3 DEF SqeFlushed, RingInv, RingTypeOK
    <2> QED BY <1>5, <1>6, <1>8, <2>4 DEF SqeFlushed, RingInv
  <1>9. CASE Update \/ UpdateReturn
    <2>1. loop \in {"out", "enter"} /\ loop' \in {"enter", "drain"}
      BY <1>9 DEF Update, UpdateReturn, LoopMoves
    <2>2. UNCHANGED <<submissions, completions, overflow, inflight, notifying, waiting, slot, called,
                      allocated, taken, unfinished, fits>>
      BY <1>9 DEF Update, UpdateReturn, LoopMoves
    <2>3. RingTypeOK'
      BY <2>1, <2>2 DEF RingInv, RingTypeOK
    <2>4. Behind' /\ Fitting' /\ UsersKept'
      BY <2>1, <2>2 DEF RingInv, Behind, Fitting, Unhandled, UsersKept
    <2> QED BY <2>3, <2>4 DEF RingInv
  <1>10. CASE Cqe /\ completions.head = completions.tail
    <2>1. loop = "drain" /\ loop' = "out"
      BY <1>10 DEF Cqe
    <2>2. UNCHANGED <<submissions, completions, overflow, inflight, notifying, waiting, slot, called,
                      allocated, taken, unfinished, fits>>
      BY <1>10 DEF Cqe
    <2>3. RingTypeOK'
      BY <2>1, <2>2 DEF RingInv, RingTypeOK
    <2>4. Behind' /\ Fitting' /\ UsersKept'
      BY <2>1, <2>2 DEF RingInv, Behind, Fitting, Unhandled, UsersKept
    <2> QED BY <2>3, <2>4 DEF RingInv
  <1>11. CASE Cqe /\ completions.head # completions.tail
    <2>1. /\ loop = "drain" /\ loop' = "got"
          /\ slot' = Slot(completions.head, 0, CqSize)
          /\ taken' = completions.entry[slot']
          /\ completions' = Drop(completions)
      <3>1. completions.head = completions.head + 0
        BY InvFacts
      <3> QED BY <1>11, <3>1 DEF Cqe, Slot, Mod
    <2>2. UNCHANGED <<submissions, overflow, inflight, notifying, waiting, called, allocated,
                      unfinished, fits>>
      BY <1>11 DEF Cqe
    <2>3. Used(completions) # 0
      BY <1>2, <1>11, EmptyIs
    <2>4. /\ RingOK(completions', CqSize, CqEntries)
          /\ Used(completions') = c - 1
          /\ completions'.entry = completions.entry
          /\ Slot(completions'.head, -1, CqSize) = slot'
          /\ slot' \in 0 .. CqSize - 1
      BY <1>2, <2>1, <2>3, DropFacts, SizesFacts DEF c
    <2>5. RingTypeOK'
      BY <2>1, <2>2, <2>4 DEF RingInv, RingTypeOK
    <2>6. Behind'
      <3>1. completions'.head \in 0 .. Modulus - 1
        BY <2>4, RingFacts
      <3>2. completions'.head - 1 = completions'.head + -1
        BY <3>1
      <3> QED BY <2>1, <2>4, <3>2 DEF Behind, Slot, Mod
    <2>7. Fitting'
      <3>1. b = 0 /\ Unhandled' = (c - 1) + o + 1
        BY <2>1, <2>2, <2>4 DEF Unhandled, b, o
      <3> QED BY <1>1, <1>3, <2>2, <3>1, SizesFacts DEF Fitting
    <2>8. UsersKept'
      BY <2>1, <2>2 DEF RingInv, UsersKept
    <2> QED BY <2>5, <2>6, <2>7, <2>8 DEF RingInv
  <1>12. ASSUME fits, loop \in {"got", "call"}
         PROVE  completions.entry[slot] = taken
    <2>1. b = 1
      BY <1>12 DEF b
    <2>2. c < CqSize
      BY <1>1, <1>3, <1>12, <2>1, SizesFacts
    <2> QED BY <1>12, <2>2 DEF RingInv, Behind, c
  <1>13. CASE CqeRead
    <2>1. loop = "got" /\ loop' = "call" /\ called' = completions.entry[slot]
      BY <1>13 DEF CqeRead
    <2>2. UNCHANGED <<submissions, completions, overflow, inflight, notifying, waiting, slot, allocated,
                      taken, unfinished, fits>>
      BY <1>13 DEF CqeRead
    <2>3. RingTypeOK'
      BY <2>1, <2>2 DEF RingInv, RingTypeOK
    <2>4. Behind' /\ Fitting'
      BY <2>1, <2>2 DEF RingInv, Behind, Fitting, Unhandled
    <2>5. UsersKept'
      BY <1>12, <2>1, <2>2 DEF RingInv, UsersKept
    <2> QED BY <2>3, <2>4, <2>5 DEF RingInv
  <1>14. CASE CallReturn
    <2>1. loop = "call" /\ loop' = "drain" /\ slot' = 0
      BY <1>14 DEF CallReturn
    <2>2. UNCHANGED <<submissions, completions, overflow, inflight, notifying, waiting, fits>>
      BY <1>14 DEF CallReturn
    <2>3. RingTypeOK'
      <3>1. 0 \in 0 .. CqSize - 1
        BY SizesFacts
      <3> QED BY <2>1, <2>2, <3>1 DEF RingInv, RingTypeOK
    <2>4. Behind'
      BY <2>1 DEF Behind
    <2>5. Fitting'
      <3>1. b = 1 /\ Unhandled' = c + o + 0
        BY <2>1, <2>2 DEF Unhandled, b, c, o
      <3> QED BY <1>1, <1>3, <2>2, <3>1, SizesFacts DEF Fitting
    <2>6. UsersKept'
      <3> SUFFICES ASSUME fits'
                   PROVE  allocated' = unfinished'
        BY <2>1 DEF UsersKept
      <3>1. completions.entry[slot] = taken
        BY <1>12, <2>1, <2>2
      <3>2. called = taken /\ allocated = unfinished
        BY <2>1, <2>2 DEF RingInv, UsersKept
      <3> QED BY <1>14, <3>1, <3>2 DEF CallReturn
    <2> QED BY <2>3, <2>4, <2>5, <2>6 DEF RingInv
  <1>15. CASE KernelConsume
    <2> DEFINE e == submissions.entry[Slot(submissions.head, 0, SqSize)]
    <2>1. /\ submissions' = Drop(submissions)
          /\ inflight' = inflight \cup {e}
          /\ Used(submissions) # 0
      <3>1. submissions.head = submissions.head + 0
        BY <1>2, RingFacts
      <3> QED BY <1>15, <3>1 DEF KernelConsume, Slot, Mod
    <2>2. RingOK(submissions', SqSize, Entries) /\ e \in Entries
      BY <1>2, <2>1, DropFacts, SizesFacts
    <2> HIDE DEF e
    <2>3. RingTypeOK'
      BY <1>15, <2>1, <2>2 DEF KernelConsume, RingInv, RingTypeOK
    <2> QED BY <1>5, <1>6, <1>15, <2>3 DEF KernelConsume, RingInv
  <1>16. CASE KernelFlush
    <2>1. overflow # <<>> /\ overflow' = Tail(overflow)
      BY <1>16 DEF KernelFlush
    <2>2. Head(overflow) \in CqEntries /\ overflow' \in Seq(CqEntries) /\ Len(overflow') = o - 1
      <3>1. 1 \in 1 .. Len(overflow) /\ Head(overflow) = overflow[1]
        BY <1>2, <2>1, TailFacts
      <3>2. Head(overflow) \in CqEntries
        BY <1>2, <3>1, ElementOfSeq
      <3> QED BY <1>2, <2>1, <3>2, TailFacts DEF o
    <2>3. /\ RingOK(completions', CqSize, CqEntries)
          /\ Used(completions') = c + 1
          /\ Behind'
      BY <1>16, <2>2, PutBehind DEF KernelFlush, c
    <2>4. RingTypeOK'
      BY <1>16, <2>2, <2>3 DEF KernelFlush, RingInv, RingTypeOK
    <2>5. Fitting'
      <3>1. Unhandled' = (c + 1) + (o - 1) + b
        BY <1>16, <2>2, <2>3 DEF KernelFlush, Unhandled, b
      <3>2. fits' = fits
        BY <1>16 DEF KernelFlush
      <3> QED BY <1>1, <1>3, <3>1, <3>2, SizesFacts DEF Fitting
    <2>6. UsersKept'
      BY <1>6, <1>16 DEF KernelFlush
    <2> QED BY <2>3, <2>4, <2>5, <2>6 DEF RingInv
  <1>17. CASE \E e \in inflight : \E d \in Posts(e) : KernelPost(d)
    <2> PICK e \in inflight : \E d \in Posts(e) : KernelPost(d)
      BY <1>17
    <2> PICK d \in Posts(e) : KernelPost(d)
      OBVIOUS
    <2>1. d \in CqEntries /\ d.of \in Entries
      BY DEF Posts, CqEntries
    <2>2. inflight' \subseteq Entries /\ notifying' \subseteq Entries
      BY <1>2, <2>1 DEF KernelPost
    <2>3. UNCHANGED <<submissions, waiting, loop, slot, called, allocated, taken, unfinished>>
      BY DEF KernelPost
    <2>4. fits' \in BOOLEAN /\ (fits' => fits /\ c + o + b < CqSize)
      BY <1>4 DEF KernelPost
    <2>5. /\ RingOK(completions', CqSize, CqEntries)
          /\ overflow' \in Seq(CqEntries)
          /\ Used(completions') + Len(overflow') = c + o + 1
          /\ Behind'
      <3>1. CASE Used(completions) = CqSize \/ overflow # <<>>
        <4>1. overflow' = Append(overflow, d) /\ UNCHANGED completions
          BY <3>1 DEF KernelPost
        <4>2. overflow' \in Seq(CqEntries) /\ Len(overflow') = o + 1
          BY <1>2, <2>1, <4>1, AppendFacts DEF o
        <4>3. Used(completions') = c
          BY <4>1 DEF c
        <4>4. Behind'
          BY <2>3, <4>1 DEF RingInv, Behind
        <4> QED BY <1>1, <1>2, <4>1, <4>2, <4>3, <4>4
      <3>2. CASE ~ (Used(completions) = CqSize \/ overflow # <<>>)
        <4>1. completions' = Put(completions, CqSize, d) /\ UNCHANGED overflow
          BY <3>2 DEF KernelPost
        <4>2. /\ RingOK(completions', CqSize, CqEntries)
              /\ Used(completions') = c + 1
              /\ Behind'
          BY <2>1, <2>3, <3>2, <4>1, PutBehind DEF c
        <4>3. Len(overflow') = o
          BY <4>1 DEF o
        <4> QED BY <1>1, <1>2, <4>1, <4>2, <4>3
      <3> QED BY <3>1, <3>2
    <2>6. RingTypeOK'
      BY <2>2, <2>3, <2>4, <2>5 DEF RingInv, RingTypeOK
    <2>7. Fitting'
      <3>1. Unhandled' = Used(completions') + Len(overflow') + b
        BY <2>3 DEF Unhandled, b
      <3> HIDE DEF Unhandled
      <3>2. Unhandled' = c + o + 1 + b
        BY <2>5, <3>1
      <3> QED BY <1>1, <2>4, <3>2, SizesFacts DEF Fitting
    <2>8. UsersKept'
      BY <1>6, <2>3, <2>4
    <2> QED BY <2>5, <2>6, <2>7, <2>8 DEF RingInv
  <1>18. CASE UNCHANGED ringVars
    <2>1. RingTypeOK'
      BY <1>18 DEF ringVars, RingInv, RingTypeOK
    <2> QED BY <1>5, <1>6, <1>18, <2>1 DEF ringVars, RingInv
  <1> QED BY <1>7, <1>8, <1>9, <1>10, <1>11, <1>13, <1>14, <1>15, <1>16, <1>17, <1>18 DEF RingNext

\* The invariant of the rings: what is in them was submitted or posted, the
\* slot that reactor_ring_cqe() gave back is the last to be written again, and
\* the users are freed as UsersKept says.
THEOREM RingsInvariance == RingSpec => []RingInv
  <1>1. RingInit => RingInv
    BY RingsInit
  <1>2. RingInv /\ [RingNext]_ringVars => RingInv'
    BY RingsNext
  <1> QED BY <1>1, <1>2, PTL DEF RingSpec

\* What reactor_loop_once() reads of a completion after it has given its slot
\* back is that completion, and users are freed in time, as long as what was
\* posted and not handled has always fitted into the completion ring.
THEOREM UsersAreKept == RingSpec => []UsersKept
  <1>1. RingInv => UsersKept
    BY DEF RingInv
  <1> QED BY <1>1, RingsInvariance, PTL

\* The length of what is between head and tail.
LEMMA QueueFacts ==
  ASSUME NEW S, NEW n \in Nat \ {0}, NEW ring, RingOK(ring, n, S), Used(ring) \in Nat
  PROVE  /\ Queue(ring, n) \in Seq(S)
         /\ Len(Queue(ring, n)) = Used(ring)
  BY DEF RingOK, Queue

LEMMA SubmissionsStep ==
  ASSUME RingInv, [RingNext]_ringVars
  PROVE  [Submissions!Next]_(Queue(submissions, SqSize))
  <1> DEFINE q == Queue(submissions, SqSize)
  <1>1. RingOK(submissions, SqSize, Entries) /\ Used(submissions) \in 0 .. SqSize
    BY InvFacts DEF RingInv, RingTypeOK
  <1>2. q \in Seq(Entries) /\ Len(q) = Used(submissions)
    BY <1>1, QueueFacts, SizesFacts
  <1>3. ASSUME NEW e \in Entries, Used(submissions) < SqSize,
               submissions' = Put(submissions, SqSize, e)
        PROVE  Submissions!Put(e)
    <2>1. Queue(submissions', SqSize) = Append(q, e)
      BY <1>1, <1>3, PutFacts, SizesFacts
    <2> QED BY <1>2, <1>3, <2>1 DEF Submissions!Put
  <1>4. CASE UNCHANGED submissions
    BY <1>4
  <1>5. CASE (\E e \in Entries : Sqe(e)) /\ submissions' # submissions
    <2> PICK e \in Entries : Sqe(e)
      BY <1>5
    <2>1. Used(submissions) # SqSize /\ submissions' = Put(submissions, SqSize, e)
      BY <1>5 DEF Sqe
    <2>2. Submissions!Put(e)
      BY <1>1, <1>3, <2>1, SizesFacts
    <2> QED BY <2>2 DEF Submissions!Next
  <1>6. CASE SqeFlushed
    <2>1. /\ Used(submissions) = 0 /\ waiting \in Entries
          /\ submissions' = Put(submissions, SqSize, waiting)
      BY <1>6 DEF SqeFlushed, RingInv, RingTypeOK
    <2>2. Submissions!Put(waiting)
      BY <1>3, <2>1, SizesFacts
    <2> QED BY <2>1, <2>2 DEF Submissions!Next
  <1>7. CASE KernelConsume
    <2>1. Used(submissions) # 0 /\ submissions' = Drop(submissions)
      BY <1>7 DEF KernelConsume
    <2>2. q # <<>> /\ Queue(submissions', SqSize) = Tail(q)
      BY <1>1, <2>1, DropFacts, SizesFacts
    <2> QED BY <2>2 DEF Submissions!Next, Submissions!Get
  <1>8. CASE Update \/ UpdateReturn \/ Cqe \/ CqeRead \/ CallReturn \/ KernelFlush
             \/ (\E e \in inflight : \E d \in Posts(e) : KernelPost(d)) \/ UNCHANGED ringVars
    <2>1. UNCHANGED submissions
      BY <1>8 DEF Update, UpdateReturn, LoopMoves, Cqe, CqeRead, CallReturn,
                  KernelFlush, KernelPost, ringVars
    <2> QED BY <1>4, <2>1
  <1> QED BY <1>4, <1>5, <1>6, <1>7, <1>8 DEF RingNext

\* How what waits for the completion ring is joined to what is in it.
LEMMA JoinFacts ==
  ASSUME NEW S, NEW q \in Seq(S), NEW o \in Seq(S), NEW e \in S
  PROVE  /\ q \o o \in Seq(S)
         /\ Len(q \o o) = Len(q) + Len(o)
         /\ q \o Append(o, e) = Append(q \o o, e)
         /\ o = <<>> => Append(q, e) \o o = Append(q \o o, e)
         /\ o # <<>> => Append(q, Head(o)) \o Tail(o) = q \o o
         /\ q # <<>> => q \o o # <<>> /\ Tail(q) \o o = Tail(q \o o)
  <1>1. q \o o \in Seq(S) /\ Len(q \o o) = Len(q) + Len(o)
    OBVIOUS
  <1>2. q \o Append(o, e) = Append(q \o o, e)
    OBVIOUS
  <1>3. o = <<>> => Append(q, e) \o o = Append(q \o o, e)
    OBVIOUS
  <1>4. o # <<>> => Append(q, Head(o)) \o Tail(o) = q \o o
    OBVIOUS
  <1>5. q # <<>> => q \o o # <<>> /\ Tail(q) \o o = Tail(q \o o)
    OBVIOUS
  <1> QED BY <1>1, <1>2, <1>3, <1>4, <1>5

LEMMA CompletionsStep ==
  ASSUME RingInv, [RingNext]_ringVars
  PROVE  [Completions!Next]_(Queue(completions, CqSize) \o overflow)
  <1> DEFINE q == Queue(completions, CqSize)
             p == Queue(completions', CqSize)
  <1>1. RingOK(completions, CqSize, CqEntries) /\ Used(completions) \in 0 .. CqSize
    BY InvFacts DEF RingInv, RingTypeOK
  <1>2. q \in Seq(CqEntries) /\ Len(q) = Used(completions) /\ overflow \in Seq(CqEntries)
    BY <1>1, QueueFacts, SizesFacts DEF RingInv, RingTypeOK
  <1>3. ASSUME NEW e \in CqEntries, Used(completions) # CqSize,
               completions' = Put(completions, CqSize, e)
        PROVE  p = Append(q, e)
    <2>1. Used(completions) < CqSize
      BY <1>1, <1>3, SizesFacts
    <2> QED BY <1>1, <1>3, <2>1, PutFacts, SizesFacts
  <1>4. CASE UNCHANGED <<completions, overflow>>
    BY <1>4
  <1>5. CASE Cqe /\ completions' # completions
    <2>1. completions.head # completions.tail /\ completions' = Drop(completions) /\ UNCHANGED overflow
      BY <1>5 DEF Cqe
    <2>2. Used(completions) # 0
      BY <1>1, <2>1, EmptyIs
    <2>3. q # <<>> /\ p = Tail(q)
      BY <1>1, <2>1, <2>2, DropFacts, SizesFacts
    <2>4. q \o overflow # <<>> /\ p \o overflow' = Tail(q \o overflow)
      <3> HIDE DEF q, p
      <3> QED BY <1>2, <2>1, <2>3
    <2> QED BY <2>4 DEF Completions!Next, Completions!Get
  <1>6. CASE KernelFlush
    <2>1. /\ overflow # <<>> /\ overflow' = Tail(overflow) /\ Used(completions) # CqSize
          /\ completions' = Put(completions, CqSize, Head(overflow))
      BY <1>6 DEF KernelFlush
    <2>2. Head(overflow) \in CqEntries
      BY <1>2, <2>1
    <2>3. p = Append(q, Head(overflow))
      BY <1>3, <2>1, <2>2
    <2>4. p \o overflow' = q \o overflow
      <3> HIDE DEF q, p
      <3> QED BY <1>2, <2>1, <2>2, <2>3, JoinFacts
    <2> QED BY <2>4
  <1>7. CASE \E d \in inflight : \E e \in Posts(d) : KernelPost(e)
    <2> PICK d \in inflight : \E e \in Posts(d) : KernelPost(e)
      BY <1>7
    <2> PICK e \in Posts(d) : KernelPost(e)
      OBVIOUS
    <2>1. e \in CqEntries
      BY DEF Posts
    <2>2. Used(completions) + Len(overflow) < CqSize + MaxOverflow
      <3>1. Len(overflow) < MaxOverflow
        BY DEF KernelPost
      <3> QED BY <1>1, <3>1, InvFacts, SizesFacts
    <2>3. p \o overflow' = Append(q \o overflow, e)
      <3>1. CASE Used(completions) = CqSize \/ overflow # <<>>
        <4>1. overflow' = Append(overflow, e) /\ p = q
          BY <3>1 DEF KernelPost
        <4> HIDE DEF q, p
        <4> QED BY <1>2, <2>1, <4>1, JoinFacts
      <3>2. CASE ~ (Used(completions) = CqSize \/ overflow # <<>>)
        <4>1. completions' = Put(completions, CqSize, e) /\ UNCHANGED overflow
          BY <3>2 DEF KernelPost
        <4>2. p = Append(q, e)
          BY <1>3, <2>1, <3>2, <4>1
        <4> HIDE DEF q, p
        <4> QED BY <1>2, <2>1, <3>2, <4>1, <4>2, JoinFacts
      <3> QED BY <3>1, <3>2
    <2>4. Len(q \o overflow) < CqSize + MaxOverflow
      <3> HIDE DEF q
      <3>1. Len(q \o overflow) = Len(q) + Len(overflow)
        BY <1>2
      <3> QED BY <1>2, <2>2, <3>1
    <2> QED BY <2>1, <2>3, <2>4 DEF Completions!Next, Completions!Put
  <1>8. CASE (\E e \in Entries : Sqe(e)) \/ SqeFlushed \/ Update \/ UpdateReturn \/ CqeRead
             \/ CallReturn \/ KernelConsume \/ UNCHANGED ringVars
    <2>1. UNCHANGED <<completions, overflow>>
      BY <1>8 DEF Sqe, SqeFlushed, Update, UpdateReturn, LoopMoves, CqeRead, CallReturn,
                  KernelConsume, ringVars
    <2> QED BY <1>4, <2>1
  <1>9. Cqe => UNCHANGED overflow
    BY DEF Cqe
  <1> QED BY <1>4, <1>5, <1>6, <1>7, <1>8, <1>9 DEF RingNext

\* Both rings implement module Fifo, with reactor_ring_sqe() and
\* reactor_ring_cqe() telling full and empty by wrapping counters: nothing is
\* lost, repeated or overtaken, and no slot in use is written.
THEOREM RingsAreInOrder == RingSpec => RingsInOrder
  <1>1. ASSUME RingInit
        PROVE  Submissions!Init /\ Completions!Init
    <2>2. Used(submissions) = 0 /\ Used(completions) = 0
      BY <1>1, RingsInit
    <2>3. Queue(submissions, SqSize) = <<>> /\ Queue(completions, CqSize) = <<>>
      BY <2>2 DEF Queue
    <2> QED BY <1>1, <2>3 DEF RingInit, Submissions!Init, Completions!Init
  <1>2. RingInv /\ [RingNext]_ringVars =>
          /\ [Submissions!Next]_(Queue(submissions, SqSize))
          /\ [Completions!Next]_(Queue(completions, CqSize) \o overflow)
    BY SubmissionsStep, CompletionsStep
  <1>3. RingSpec => []RingInv
    BY RingsInvariance
  <1> QED BY <1>1, <1>2, <1>3, PTL
       DEF RingSpec, RingsInOrder, Submissions!Spec, Completions!Spec
=============================================================================

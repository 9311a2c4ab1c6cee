-------------------------------- MODULE Pool --------------------------------
(***************************************************************************)
(* pool.c: an allocator of equally sized objects.  The objects come from   *)
(* chunks of POOL_CHUNK_SIZE objects that are never given back; the        *)
(* objects that are not in use are kept on a vector used as a stack, so    *)
(* the object freed last is the one handed out next.                       *)
(*                                                                         *)
(* Objects are numbered in the order in which their chunks are carved:     *)
(* chunk k holds objects k * ChunkSize + 1 .. (k + 1) * ChunkSize.  A pool *)
(* is a record: "allocated" is pool->allocated, "free" is pool->free and   *)
(* "size" counts the objects of all chunks (pool->chunks).                 *)
(***************************************************************************)
EXTENDS Naturals, Sequences, FiniteSets

CONSTANT ChunkSize          \* POOL_CHUNK_SIZE

ASSUME ChunkSizeAssumption == ChunkSize \in Nat \ {0}

PoolType ==
  [allocated: Nat, free: Seq(Nat \ {0}), size: Nat]

PoolConstruct ==
  [allocated |-> 0, free |-> <<>>, size |-> 0]

\* The free stack after the test at the top of pool_malloc: a new chunk is
\* pushed, object by object, when the stack is empty.
PoolStack(pool) ==
  IF pool.free = <<>>
    THEN [i \in 1 .. ChunkSize |-> pool.size + i]
    ELSE pool.free

\* The object pool_malloc returns: the top of the stack.
PoolObject(pool) == PoolStack(pool)[Len(PoolStack(pool))]

\* The pool pool_malloc leaves behind.
PoolMalloc(pool) ==
  [allocated |-> pool.allocated + 1,
   free      |-> SubSeq(PoolStack(pool), 1, Len(PoolStack(pool)) - 1),
   size      |-> IF pool.free = <<>> THEN pool.size + ChunkSize ELSE pool.size]

PoolFree(pool, object) ==
  [allocated |-> pool.allocated - 1,
   free      |-> Append(pool.free, object),
   size      |-> pool.size]

(***************************************************************************)
(* What the pool promises while exactly the objects of "used" are handed   *)
(* out: no object is on the free stack twice, none is both free and used,  *)
(* every object is one or the other, and the counter that pool_size()      *)
(* returns, which decides when reactor_loop() ends, is their number.       *)
(***************************************************************************)
PoolInv(pool, used) ==
  /\ pool \in PoolType
  /\ used \subseteq 1 .. pool.size
  /\ \A i \in DOMAIN pool.free : pool.free[i] \in (1 .. pool.size) \ used
  /\ \A i, j \in DOMAIN pool.free : pool.free[i] = pool.free[j] => i = j
  /\ \A o \in (1 .. pool.size) \ used : \E i \in DOMAIN pool.free : pool.free[i] = o
  /\ pool.allocated = Cardinality(used)
=============================================================================

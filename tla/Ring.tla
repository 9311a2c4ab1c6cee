-------------------------------- MODULE Ring --------------------------------
(***************************************************************************)
(* The two rings of reactor.c that the thread shares with the kernel: head *)
(* and tail are free-running unsigned counters, taken modulo the size of   *)
(* the ring to get a slot.  Module Reactor uses them as the FIFO queues sq *)
(* and cq, which is what is checked here, with the counters wrapping       *)
(* around.                                                                 *)
(*                                                                         *)
(* The kernel takes submissions inside io_uring_enter() only, and posts    *)
(* completions at any time, several for one submission if it is a          *)
(* multishot poll or a zero-copy send; those that find the completion ring *)
(* full wait in a list of the kernel until io_uring_enter().  The thread   *)
(* gives the slot of a completion back before it reads it, and reads it    *)
(* again after the callback.                                               *)
(***************************************************************************)
EXTENDS Integers, Sequences, FiniteSets

CONSTANTS Once,         \* operations that complete once,
          Multi,        \* any number of times: reactor_poll_add_multi(),
          ZeroCopy,     \* with a notification: reactor_send_zerocopy()
          None,         \* no operation
          SqSize,       \* ring->size
          CqSize,       \* the entries of the completion ring, twice that
          Modulus,      \* the counters count modulo this, 2^32
          MaxOverflow   \* bound: completions that wait in the kernel

\* An operation is submitted again when it has finished: it stands for all
\* that the address of its reactor_user_t is used for.
Entries == Once \cup Multi \cup ZeroCopy

ASSUME EntriesAssumption == None \notin Entries
\* All sizes are powers of two.
ASSUME RingSizesAssumption ==
  /\ {SqSize, CqSize, Modulus} \subseteq Nat \ {0}
  /\ Modulus % SqSize = 0
  /\ Modulus % CqSize = 0
  /\ SqSize < Modulus
  /\ CqSize < Modulus
ASSUME MaxOverflowAssumption == MaxOverflow \in Nat

VARIABLES
  submissions,   \* the submission ring: *sq_head, *sq_tail and the entries
  completions,   \* the completion ring
  overflow,      \* completions that found the ring full, oldest first
  inflight,      \* operations that the kernel has taken and not completed
  notifying,     \* those of them that only owe their notification
  waiting,       \* the operation that waits for reactor_ring_flush(), or None
  loop,          \* where the loop is
  slot,          \* the slot that cqe points at
  called,        \* what was read there before the callback
  allocated,     \* the operations whose reactor_user_t is in the pool
  taken,         \* history: the completion that cqe was returned for
  unfinished,    \* history: operations whose last completion is not handled
  fits           \* history: what was posted and not handled never exceeded the ring

ringVars == <<submissions, completions, overflow, inflight, notifying, waiting, loop, slot,
              called, allocated, taken, unfinished, fits>>

\* CqEntries queue entries, with the flags IORING_CQE_F_MORE and _NOTIF
CqEntries == [of : Entries, more : BOOLEAN, notif : BOOLEAN]

RingInit ==
  /\ submissions = [head |-> 0, tail |-> 0, entry |-> [i \in 0 .. SqSize - 1 |-> None]]
  /\ completions = [head |-> 0, tail |-> 0, entry |-> [i \in 0 .. CqSize - 1 |-> None]]
  /\ overflow = <<>>
  /\ inflight = {}
  /\ notifying = {}
  /\ waiting = None
  /\ loop = "out"
  /\ slot = 0
  /\ called = None
  /\ allocated = {}
  /\ taken = None
  /\ unfinished = {}
  /\ fits = TRUE

-----------------------------------------------------------------------------
(* Counters *)

\* tail - head of unsigned counters
Used(ring) == (ring.tail - ring.head) % Modulus

\* An entry is written at the tail, which moves on.
Put(ring, size, e) ==
  [ring EXCEPT !.entry[ring.tail % size] = e, !.tail = (@ + 1) % Modulus]

\* The head moves on.
Drop(ring) == [ring EXCEPT !.head = (@ + 1) % Modulus]

-----------------------------------------------------------------------------
(* The thread *)

\* Outside of the loop, or in a callback: a notification has none.
ThreadInClient ==
  /\ waiting = None
  /\ loop = "out" \/ (loop = "call" /\ ~ called.notif)

\* Mutant of Sqe: the counters are compared as integers.
SqeSigned(e) ==
  /\ ThreadInClient
  /\ e \notin allocated \cup unfinished
  /\ allocated' = allocated \cup {e}
  /\ unfinished' = unfinished \cup {e}
  /\ IF submissions.tail - submissions.head = SqSize
       THEN waiting' = e /\ UNCHANGED submissions
       ELSE submissions' = Put(submissions, SqSize, e) /\ UNCHANGED waiting
  /\ UNCHANGED <<completions, overflow, inflight, notifying, loop, slot, called, taken, fits>>

\* A call of the API: reactor_alloc_user() and reactor_ring_sqe(), with
\* reactor_ring_flush(), and the assignment of the caller to the entry
Sqe(e) ==
  /\ ThreadInClient
  /\ e \notin allocated \cup unfinished
  /\ allocated' = allocated \cup {e}
  /\ unfinished' = unfinished \cup {e}
  /\ IF Used(submissions) = SqSize
       THEN waiting' = e /\ UNCHANGED submissions
       ELSE submissions' = Put(submissions, SqSize, e) /\ UNCHANGED waiting
  /\ UNCHANGED <<completions, overflow, inflight, notifying, loop, slot, called, taken, fits>>

\* reactor_ring_flush() returns, its assertion being that all was taken
SqeFlushed ==
  /\ waiting # None
  /\ Used(submissions) = 0
  /\ submissions' = Put(submissions, SqSize, waiting)
  /\ waiting' = None
  /\ UNCHANGED <<completions, overflow, inflight, notifying, loop, slot, called, allocated,
                 taken, unfinished, fits>>

LoopMoves(from, to) ==
  /\ loop = from
  /\ loop' = to
  /\ UNCHANGED <<submissions, completions, overflow, inflight, notifying, waiting, slot, called,
                 allocated, taken, unfinished, fits>>

\* reactor_ring_update()
Update == waiting = None /\ LoopMoves("out", "enter")

UpdateReturn == Used(submissions) = 0 /\ LoopMoves("enter", "drain")

\* Mutant of Cqe: the entry is taken after the head has moved.
CqeAfter ==
  /\ loop = "drain"
  /\ IF completions.head = completions.tail
       THEN loop' = "out" /\ UNCHANGED <<completions, slot, taken>>
       ELSE /\ loop' = "got"
            /\ completions' = Drop(completions)
            /\ slot' = completions'.head % CqSize
            /\ taken' = completions.entry[completions.head % CqSize]
  /\ UNCHANGED <<submissions, overflow, inflight, notifying, waiting, called, allocated,
                 unfinished, fits>>

\* reactor_ring_cqe(): the slot is given back, and a pointer to it returned
Cqe ==
  /\ loop = "drain"
  /\ IF completions.head = completions.tail
       THEN loop' = "out" /\ UNCHANGED <<completions, slot, taken>>
       ELSE /\ loop' = "got"
            /\ slot' = completions.head % CqSize
            /\ taken' = completions.entry[slot']
            /\ completions' = Drop(completions)
  /\ UNCHANGED <<submissions, overflow, inflight, notifying, waiting, called, allocated,
                 unfinished, fits>>

\* cqe->user_data and cqe->flags are read, and the callback is called if this
\* is not a notification
CqeRead ==
  /\ loop = "got"
  /\ loop' = "call"
  /\ called' = completions.entry[slot]
  /\ UNCHANGED <<submissions, completions, overflow, inflight, notifying, waiting, slot, allocated,
                 taken, unfinished, fits>>

\* The callback has returned: cqe->flags is read again, and the user is freed
\* if no more completions of it are to come
CallReturn ==
  /\ loop = "call"
  /\ waiting = None
  /\ loop' = "drain"
  /\ allocated' = IF completions.entry[slot].more THEN allocated ELSE allocated \ {called.of}
  /\ unfinished' = IF taken.more THEN unfinished ELSE unfinished \ {taken.of}
  /\ slot' = 0
  /\ called' = None
  /\ taken' = None
  /\ UNCHANGED <<submissions, completions, overflow, inflight, notifying, waiting, fits>>

-----------------------------------------------------------------------------
(* The kernel (external) *)

ThreadInEnter == waiting # None \/ loop = "enter"

KernelConsume ==
  /\ ThreadInEnter
  /\ Used(submissions) # 0
  /\ inflight' = inflight \cup {submissions.entry[submissions.head % SqSize]}
  /\ submissions' = Drop(submissions)
  /\ UNCHANGED <<completions, overflow, notifying, waiting, loop, slot, called, allocated, taken,
                 unfinished, fits>>

\* What may be posted for an operation in flight.  A multishot poll goes on or
\* ends; a zero-copy send posts its result and then its notification, or a
\* result without one.
Posts(e) ==
  {c \in CqEntries :
     /\ c.of = e
     /\ c.more => e \in (Multi \cup ZeroCopy) \ notifying
     /\ c.notif <=> e \in notifying}

\* Completions that the thread has yet to finish with
Unhandled ==
  Used(completions) + Len(overflow) + (IF loop \in {"got", "call"} THEN 1 ELSE 0)

KernelPost(c) ==
  /\ Len(overflow) < MaxOverflow
  /\ inflight' = IF c.more THEN inflight ELSE inflight \ {c.of}
  /\ notifying' = IF c.more THEN notifying \cup (ZeroCopy \cap {c.of}) ELSE notifying \ {c.of}
  /\ IF Used(completions) = CqSize \/ overflow # <<>>
       THEN overflow' = Append(overflow, c) /\ UNCHANGED completions
       ELSE completions' = Put(completions, CqSize, c) /\ UNCHANGED overflow
  /\ fits' = (fits /\ Unhandled < CqSize)
  /\ UNCHANGED <<submissions, waiting, loop, slot, called, allocated, taken, unfinished>>

KernelFlush ==
  /\ ThreadInEnter
  /\ overflow # <<>>
  /\ Used(completions) # CqSize
  /\ completions' = Put(completions, CqSize, Head(overflow))
  /\ overflow' = Tail(overflow)
  /\ UNCHANGED <<submissions, inflight, notifying, waiting, loop, slot, called, allocated, taken,
                 unfinished, fits>>

-----------------------------------------------------------------------------
RingNext ==
  \/ \E e \in Entries : Sqe(e)
  \/ SqeFlushed \/ Update \/ UpdateReturn \/ Cqe \/ CqeRead \/ CallReturn
  \/ KernelConsume \/ KernelFlush
  \/ \E e \in inflight : \E c \in Posts(e) : KernelPost(c)

RingSpec == RingInit /\ [][RingNext]_ringVars

-----------------------------------------------------------------------------
(* Properties *)

\* The entries between head and tail, oldest first.
Queue(ring, size) == [i \in 1 .. Used(ring) |-> ring.entry[(ring.head + i - 1) % size]]

\* A ring has counters in their range, never more entries than slots, and no
\* slot between head and tail that was not written.
RingOK(ring, size, S) ==
  /\ ring \in [head : 0 .. Modulus - 1, tail : 0 .. Modulus - 1,
               entry : [0 .. size - 1 -> S \cup {None}]]
  /\ Used(ring) <= size
  /\ Queue(ring, size) \in Seq(S)

RingTypeOK ==
  /\ RingOK(submissions, SqSize, Entries)
  /\ RingOK(completions, CqSize, CqEntries)
  /\ overflow \in Seq(CqEntries)
  /\ inflight \subseteq Entries
  /\ notifying \subseteq Entries
  /\ waiting \in Entries \cup {None}
  /\ loop \in {"out", "enter", "drain", "got", "call"}
  /\ slot \in 0 .. CqSize - 1
  /\ fits \in BOOLEAN

\* The slot that cqe points at is the one before the head, the last that is
\* written again: its completion is lost with the ring full, and not before.
Behind ==
  loop \in {"got", "call"} =>
    /\ slot = (completions.head - 1) % CqSize
    /\ Used(completions) < CqSize => completions.entry[slot] = taken

\* The submission ring is a FIFO queue, although the thread decides by the
\* difference of two wrapping counters whether it is full.
Submissions ==
  INSTANCE Fifo WITH Values <- Entries, Size <- SqSize, queue <- Queue(submissions, SqSize)

\* The completion ring, with what waits for it in the kernel, is one too.
Completions ==
  INSTANCE Fifo WITH Values <- CqEntries, Size <- CqSize + MaxOverflow,
                     queue <- Queue(completions, CqSize) \o overflow

\* Both rings of the reactor keep the order of what is put into them, and lose
\* and repeat nothing.
RingsInOrder == Submissions!Spec /\ Completions!Spec

\* reactor_loop_once() reads a completion where the kernel may already write
\* the next: before the callback, and its flags after it.  As long as the
\* completions that were posted and not handled have never filled the ring it
\* calls the callback of the completion it took, and the user of an operation
\* is freed with its last completion, neither earlier nor never.  The code
\* does not see to that condition: a multishot poll alone may break it.
UsersKept ==
  fits =>
    /\ loop = "call" => called = taken
    /\ allocated = unfinished

\* What makes UsersKept inductive: the completions fit.
Fitting == fits => Unhandled <= CqSize

RingInv == RingTypeOK /\ Behind /\ Fitting /\ UsersKept
=============================================================================

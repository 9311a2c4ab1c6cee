------------------------------ MODULE Reactor -------------------------------
(***************************************************************************)
(* reactor.c: the event loop of one thread.  Every asynchronous operation  *)
(* is represented by a reactor_user_t (a callback and its state) taken     *)
(* from a pool.  Its address travels through the io_uring as user_data,    *)
(* and is also the id that the client may hand to reactor_cancel().  The   *)
(* address of a finished operation is reused by the next one, so every     *)
(* property below is about addresses being taken for the right operation.  *)
(*                                                                         *)
(* The actors are the client (code that runs outside reactor_loop() or     *)
(* inside a callback and calls the API), the loop itself, and the kernel,  *)
(* which consumes submissions inside io_uring_enter() and posts            *)
(* completions at any time.                                                *)
(*                                                                         *)
(* The two rings are the FIFO queues sq and cq here; module Ring has their *)
(* indices.  "gen", "target" and the variable ops are history: they number *)
(* the operations 1, 2, 3, ... and never decide what the code does.        *)
(***************************************************************************)
EXTENDS Pool

CONSTANTS Requests,         \* the kinds of requests the client submits (below)
          RingSize,         \* ring->size, the entries of the submission ring
          MaxOps,           \* bound: operations ever issued
          MaxShots          \* bound: multishot completions ever posted

(***************************************************************************)
(* A request "once" completes with one entry; "multi" (that is             *)
(* reactor_poll_add_multi) with any number; "zc" (reactor_send_zerocopy)   *)
(* with its result and, when the buffer is no longer used, a notification. *)
(***************************************************************************)
ASSUME RequestsAssumption == Requests \subseteq {"once", "multi", "zc"}
ASSUME RingSizeAssumption == RingSize \in Nat \ {0}
ASSUME MaxOpsAssumption == MaxOps \in Nat
ASSUME MaxShotsAssumption == MaxShots \in Nat

VARIABLES
  pool,      \* reactor.users
  user,      \* the reactor_user_t stored at each address
  sq,        \* submission queue entries, oldest first
  pend,      \* the entry of an API call that waits for reactor_ring_flush()
  kernel,    \* requests in flight
  cq,        \* completion queue entries, oldest first
  next,      \* reactor.next[0] and reactor.next[1]
  current,   \* the index that reactor.next_current points at
  pc,        \* where the loop is
  index,     \* i of the loop over the next vector
  cur,       \* the entry whose callback runs
  shots,     \* multishot completions posted so far
  ops        \* history: one record per operation ever issued

vars == <<pool, user, sq, pend, kernel, cq, next, current, pc, index, cur,
          shots, ops>>

-----------------------------------------------------------------------------
(* Operations, requests and callbacks *)

\* "remove" is reactor_async_cancel, reactor_poll_remove or
\* reactor_poll_update called by the client, "cancel" the reactor_async_cancel
\* that reactor_cancel() issues.
Kinds == Requests \cup {"remove", "cancel", "next"}

\* A callback is identified by the operation it was passed with and by the
\* call it was passed to: the issuing one or reactor_cancel().
Callback(n, call) == [of |-> n, call |-> call]

Callbacks == [of : Nat, call : {"issue", "cancel"}]

NoEntry == [gen |-> 0, user |-> 0, more |-> FALSE, notif |-> FALSE,
            callback |-> Callback(0, "issue")]

\* reactor_user_t written at an address
Define(users, s, callback) ==
  [x \in DOMAIN users \cup {s} |-> IF x = s THEN callback ELSE users[x]]

\* The client still waits for operation n: it was neither told of its end nor
\* did it cancel it, so it may pass its id to the API.
Held(n) ==
  /\ n \in DOMAIN ops
  /\ ops[n].status = "pending"
  /\ ops[n].kind # "cancel"

\* Client code runs: outside the loop, or in a callback that the client wrote.
\* The callback of a "cancel" is reactor_user_callback(), which does nothing.
InClient ==
  /\ pend = <<>>
  /\ \/ pc = "out"
     \/ /\ pc \in {"nextcall", "call"}
        /\ ~ cur.notif
        /\ ops[cur.callback.of].kind # "cancel"

\* The thread is inside io_uring_enter(), from reactor_ring_update() or from
\* reactor_ring_flush().
InEnter == pend # <<>> \/ pc = "enter"

Operation(kind, s, at) ==
  [kind |-> kind, user |-> s, at |-> at, status |-> "pending",
   calls |-> 0, cancelCalls |-> 0]

Init ==
  /\ pool = PoolConstruct
  /\ user = <<>>
  /\ sq = <<>>
  /\ pend = <<>>
  /\ kernel = {}
  /\ cq = <<>>
  /\ next = [i \in {0, 1} |-> <<>>]
  /\ current = 0
  /\ pc = "out"
  /\ index = 0
  /\ cur = NoEntry
  /\ shots = 0
  /\ ops = <<>>

-----------------------------------------------------------------------------
(* The API, called by the client *)

\* What every wrapper around an io_uring operation does: take a user from the
\* pool, get a submission entry and fill it in.  reactor_ring_sqe() first
\* flushes a full ring; the entry is then written when the kernel has taken
\* all of it (FlushReturn).  users is the content of the users so far, and
\* told the history so far: reactor_cancel() has changed both by then.
Submit(kind, addr, target, users, told) ==
  LET s == PoolObject(pool)
      n == Len(ops) + 1
      sqe == [op |-> kind, gen |-> n, user |-> s, addr |-> addr, target |-> target]
      full == Len(sq) = RingSize
  IN  /\ n <= MaxOps
      /\ pool' = PoolMalloc(pool)
      /\ user' = Define(users, s, Callback(n, "issue"))
      /\ sq' = IF full THEN sq ELSE Append(sq, sqe)
      /\ pend' = IF full THEN <<sqe>> ELSE <<>>
      /\ ops' = Append(told, Operation(kind, s, IF full THEN "pend" ELSE "sq"))
      /\ UNCHANGED <<kernel, cq, next, current, pc, index, cur, shots>>

\* reactor_nop, reactor_read, reactor_write, reactor_poll_add, ...
Issue(kind) ==
  /\ InClient
  /\ Submit(kind, 0, 0, user, ops)

\* reactor_async_cancel(), reactor_poll_remove() and reactor_poll_update()
\* called by the client on an operation it waits for.  The operation keeps
\* its callback.
Remove(n) ==
  /\ InClient
  /\ Held(n)
  /\ ops[n].kind # "next"
  /\ Submit("remove", ops[n].user, n, user, ops)

\* reactor_next()
Schedule ==
  LET s == PoolObject(pool)
      n == Len(ops) + 1
  IN  /\ InClient
      /\ n <= MaxOps
      /\ pool' = PoolMalloc(pool)
      /\ user' = Define(user, s, Callback(n, "issue"))
      /\ next' = [next EXCEPT ![current] = Append(@, [gen |-> n, user |-> s])]
      /\ ops' = Append(ops, Operation("next", s, "next"))
      /\ UNCHANGED <<sq, pend, kernel, cq, current, pc, index, cur, shots>>

\* Mutant of CancelRequest: the user keeps its callback.
CancelRequestOnly(n) ==
  /\ InClient
  /\ Held(n)
  /\ ops[n].kind # "next"
  /\ Submit("cancel", ops[n].user, n, user, [ops EXCEPT ![n].status = "cancelled"])

\* Mutant of CancelRequest: the kernel is not asked to stop.
CancelUserOnly(n) ==
  /\ InClient
  /\ Held(n)
  /\ ops[n].kind # "next"
  /\ user' = Define(user, ops[n].user, Callback(n, "cancel"))
  /\ ops' = [ops EXCEPT ![n].status = "cancelled"]
  /\ UNCHANGED <<pool, sq, pend, kernel, cq, next, current, pc, index, cur, shots>>

\* reactor_cancel(): the user is overwritten in place, whatever stage its
\* operation is in, and an operation on the ring is also asked to stop.
CancelRequest(n) ==
  /\ InClient
  /\ Held(n)
  /\ ops[n].kind # "next"
  /\ Submit("cancel", ops[n].user, n,
            Define(user, ops[n].user, Callback(n, "cancel")),
            [ops EXCEPT ![n].status = "cancelled"])

CancelNext(n) ==
  /\ InClient
  /\ Held(n)
  /\ ops[n].kind = "next"
  /\ user' = Define(user, ops[n].user, Callback(n, "cancel"))
  /\ ops' = [ops EXCEPT ![n].status = "cancelled"]
  /\ UNCHANGED <<pool, sq, pend, kernel, cq, next, current, pc, index, cur, shots>>

\* reactor_ring_flush() returns to reactor_ring_sqe(), which takes an entry of
\* the emptied ring.
FlushReturn ==
  /\ pend # <<>>
  /\ sq = <<>>
  /\ sq' = pend
  /\ pend' = <<>>
  /\ ops' = [ops EXCEPT ![pend[1].gen].at = "sq"]
  /\ UNCHANGED <<pool, user, kernel, cq, next, current, pc, index, cur, shots>>

-----------------------------------------------------------------------------
(* The kernel (external: modelled from the use made of io_uring) *)

Completion(k, more, notif) ==
  [gen |-> k.gen, user |-> k.user, more |-> more, notif |-> notif]

\* io_uring_enter() consumes the oldest submission.  A cancellation marks the
\* requests in flight that carry the address it names and completes at once;
\* a marked request will end, with a completion of its own.  A "remove" may
\* fail or be a mere update: it completes, and what it does to a request is
\* no more than what may happen to it anyway.
KernelTake ==
  /\ InEnter
  /\ sq # <<>>
  /\ sq' = Tail(sq)
  /\ LET e == Head(sq) IN
     IF e.op \in {"cancel", "remove"}
       THEN /\ kernel' = {[k EXCEPT !.stop = @ \/ (e.op = "cancel" /\ k.user = e.addr)] : k \in kernel}
            /\ cq' = Append(cq, Completion(e, FALSE, FALSE))
            /\ ops' = [ops EXCEPT ![e.gen].at = "cq"]
       ELSE /\ kernel' = kernel \cup
                 {[op |-> e.op, gen |-> e.gen, user |-> e.user, stop |-> FALSE]}
            /\ ops' = [ops EXCEPT ![e.gen].at = "kernel"]
            /\ UNCHANGED cq
  /\ UNCHANGED <<pool, user, pend, next, current, pc, index, cur, shots>>

\* The last completion of a request: IORING_CQE_F_MORE is not set.
KernelComplete(k) ==
  /\ kernel' = kernel \ {k}
  /\ cq' = Append(cq, Completion(k, FALSE, k.op = "notif"))
  /\ ops' = [ops EXCEPT ![k.gen].at = "cq"]
  /\ UNCHANGED <<pool, user, sq, pend, next, current, pc, index, cur, shots>>

\* A completion that others will follow: an event of a multishot poll, or the
\* result of a zero-copy send whose buffer is still in use; from then on the
\* request is a "notif".
KernelMore(k) ==
  /\ \/ k.op = "multi" /\ shots < MaxShots /\ kernel' = kernel
     \/ k.op = "zc" /\ kernel' = (kernel \ {k}) \cup {[k EXCEPT !.op = "notif"]}
  /\ shots' = IF k.op = "multi" THEN shots + 1 ELSE shots
  /\ cq' = Append(cq, Completion(k, TRUE, FALSE))
  /\ UNCHANGED <<pool, user, sq, pend, next, current, pc, index, cur, ops>>

-----------------------------------------------------------------------------
(* The loop *)

\* The history of a callback being called: the one an operation was issued
\* with, or the one it was cancelled with; last says that the client will not
\* hear of the operation again.
Answered(op, call, last) ==
  [op EXCEPT !.calls = IF call = "issue" THEN @ + 1 ELSE @,
             !.cancelCalls = IF call = "cancel" THEN @ + 1 ELSE @,
             !.status = IF ~ last THEN @ ELSE IF call = "issue" THEN "done" ELSE "closed"]

Invoke(callback, last) ==
  [ops EXCEPT ![callback.of] = Answered(@, callback.call, last)]

\* reactor_free_user()
FreeUser(e) ==
  /\ pool' = PoolFree(pool, e.user)
  /\ ops' = [ops EXCEPT ![e.gen].at = "free"]

\* reactor_loop(), or reactor_loop_once() called by the client
LoopStart ==
  /\ pc = "out"
  /\ pend = <<>>
  /\ pc' = "top"
  /\ UNCHANGED <<pool, user, sq, pend, kernel, cq, next, current, index, cur, shots, ops>>

LoopReturn ==
  /\ pc = "top"
  /\ pool.allocated = 0
  /\ pc' = "out"
  /\ UNCHANGED <<pool, user, sq, pend, kernel, cq, next, current, index, cur, shots, ops>>

\* reactor_loop_once() finds scheduled calls, and turns to the other vector
\* for the ones that are scheduled while these run
LoopNext ==
  /\ pc = "top"
  /\ pool.allocated > 0
  /\ next[current] # <<>>
  /\ current' = 1 - current
  /\ index' = 1
  /\ pc' = "next"
  /\ UNCHANGED <<pool, user, sq, pend, kernel, cq, next, cur, shots, ops>>

LoopNoNext ==
  /\ pc = "top"
  /\ pool.allocated > 0
  /\ next[current] = <<>>
  /\ pc' = "wait"
  /\ UNCHANGED <<pool, user, sq, pend, kernel, cq, next, current, index, cur, shots, ops>>

NextCall ==
  /\ pc = "next"
  /\ index <= Len(next[1 - current])
  /\ LET e == next[1 - current][index]
         callback == user[e.user]
     IN  /\ cur' = [gen |-> e.gen, user |-> e.user, more |-> FALSE, notif |-> FALSE,
                    callback |-> callback]
         /\ ops' = Invoke(callback, TRUE)
  /\ pc' = "nextcall"
  /\ UNCHANGED <<pool, user, sq, pend, kernel, cq, next, current, index, shots>>

\* Mutant of NextReturn: the user is not freed.
NextReturnLeaks ==
  /\ pc = "nextcall"
  /\ pend = <<>>
  /\ cur' = NoEntry
  /\ index' = index + 1
  /\ pc' = "next"
  /\ UNCHANGED <<pool, ops, user, sq, pend, kernel, cq, next, current, shots>>

NextReturn ==
  /\ pc = "nextcall"
  /\ pend = <<>>
  /\ FreeUser(cur)
  /\ cur' = NoEntry
  /\ index' = index + 1
  /\ pc' = "next"
  /\ UNCHANGED <<user, sq, pend, kernel, cq, next, current, shots>>

\* Mutant of NextClear: vector_clear() is missing.
NextClearNot ==
  /\ pc = "next"
  /\ index > Len(next[1 - current])
  /\ index' = 0
  /\ pc' = "wait"
  /\ UNCHANGED <<pool, user, sq, pend, kernel, cq, next, current, cur, shots, ops>>

NextClear ==
  /\ pc = "next"
  /\ index > Len(next[1 - current])
  /\ next' = [next EXCEPT ![1 - current] = <<>>]
  /\ index' = 0
  /\ pc' = "wait"
  /\ UNCHANGED <<pool, user, sq, pend, kernel, cq, current, cur, shots, ops>>

\* After an iteration reactor_loop() goes on, and reactor_loop_once() returns.
Iterated == pc' \in {"top", "out"}

\* reactor_ring_update() is only called when some user is not merely scheduled
Enter ==
  /\ pc = "wait"
  /\ IF pool.allocated > Len(next[current]) THEN pc' = "enter" ELSE Iterated
  /\ UNCHANGED <<pool, user, sq, pend, kernel, cq, next, current, index, cur, shots, ops>>

\* io_uring_enter() returns when all submissions are taken and, unless calls
\* are scheduled, there is a completion.
EnterReturn ==
  /\ pc = "enter"
  /\ sq = <<>>
  /\ cq # <<>> \/ next[current] # <<>>
  /\ pc' = "cqe"
  /\ UNCHANGED <<pool, user, sq, pend, kernel, cq, next, current, index, cur, shots, ops>>

\* reactor_ring_cqe() returns an entry; a notification is not passed on
CqeCall ==
  /\ pc = "cqe"
  /\ cq # <<>>
  /\ cq' = Tail(cq)
  /\ LET c == Head(cq)
         callback == user[c.user]
         told == IF c.notif
                   THEN ops
                   ELSE Invoke(callback, ~ c.more \/ ops[callback.of].kind = "zc")
     IN  /\ cur' = [gen |-> c.gen, user |-> c.user, more |-> c.more,
                    notif |-> c.notif, callback |-> callback]
         /\ ops' = IF c.more THEN told ELSE [told EXCEPT ![c.gen].at = "call"]
  /\ pc' = "call"
  /\ UNCHANGED <<pool, user, sq, pend, kernel, next, current, index, shots>>

\* Mutant of CqeReturn: IORING_CQE_F_MORE is not looked at.
CqeReturnFrees ==
  /\ pc = "call"
  /\ pend = <<>>
  /\ FreeUser(cur)
  /\ cur' = NoEntry
  /\ pc' = "cqe"
  /\ UNCHANGED <<user, sq, pend, kernel, cq, next, current, index, shots>>

CqeReturn ==
  /\ pc = "call"
  /\ pend = <<>>
  /\ IF cur.more THEN UNCHANGED <<pool, ops>> ELSE FreeUser(cur)
  /\ cur' = NoEntry
  /\ pc' = "cqe"
  /\ UNCHANGED <<user, sq, pend, kernel, cq, next, current, index, shots>>

CqeEmpty ==
  /\ pc = "cqe"
  /\ cq = <<>>
  /\ Iterated
  /\ UNCHANGED <<pool, user, sq, pend, kernel, cq, next, current, index, cur, shots, ops>>

-----------------------------------------------------------------------------
Client ==
  \/ \E kind \in Requests : Issue(kind)
  \/ \E n \in DOMAIN ops : Remove(n) \/ CancelRequest(n) \/ CancelNext(n)
  \/ Schedule

Kernel ==
  \/ KernelTake
  \/ \E k \in kernel : KernelComplete(k) \/ KernelMore(k)

Loop ==
  \/ FlushReturn
  \/ LoopStart \/ LoopReturn \/ LoopNext \/ LoopNoNext
  \/ NextCall \/ NextReturn \/ NextClear
  \/ Enter \/ EnterReturn
  \/ CqeCall \/ CqeReturn \/ CqeEmpty

Next == Client \/ Kernel \/ Loop

Spec == Init /\ [][Next]_vars

\* The thread keeps running (callbacks return, the client calls
\* reactor_loop() again), the kernel takes what is submitted and ends a
\* request that it was asked to cancel or that is done but for its
\* notification.  Nothing makes any other request complete.
KernelFinish ==
  \E k \in kernel : (k.stop \/ k.op = "notif") /\ KernelComplete(k)

FairSpec ==
  Spec /\ WF_vars(Loop) /\ WF_vars(KernelTake) /\ WF_vars(KernelFinish)

-----------------------------------------------------------------------------
(* Properties *)

\* Operations whose user has not been given back to the pool.
Open == {n \in DOMAIN ops : ops[n].at # "free"}

OperationType ==
  [kind : Kinds, user : Nat,
   at : {"pend", "sq", "kernel", "cq", "call", "next", "free"},
   status : {"pending", "done", "cancelled", "closed"},
   calls : Nat, cancelCalls : Nat]

SqeType == [op : Kinds, gen : Nat, user : Nat, addr : Nat, target : Nat]

RequestType == [op : Requests \cup {"notif"}, gen : Nat, user : Nat, stop : BOOLEAN]

CqeType == [gen : Nat, user : Nat, more : BOOLEAN, notif : BOOLEAN]

\* Type correctness of the whole state.  The submission ring never holds more
\* than its RingSize entries, and at most one entry waits for a flush.
TypeOK ==
  /\ pool \in PoolType
  /\ DOMAIN user \subseteq 1 .. pool.size
  /\ \A s \in DOMAIN user : user[s] \in Callbacks
  /\ sq \in Seq(SqeType)
  /\ Len(sq) <= RingSize
  /\ pend \in Seq(SqeType)
  /\ Len(pend) <= 1
  /\ kernel \subseteq RequestType
  /\ cq \in Seq(CqeType)
  /\ next \in [{0, 1} -> Seq([gen : Nat, user : Nat])]
  /\ current \in {0, 1}
  /\ pc \in {"out", "top", "next", "nextcall", "wait", "enter", "cqe", "call"}
  /\ index \in Nat
  /\ cur \in [gen : Nat, user : Nat, more : BOOLEAN, notif : BOOLEAN, callback : Callbacks]
  /\ shots \in Nat
  /\ ops \in Seq(OperationType)

\* reactor_free_user() and reactor_alloc_user() keep the pool exact: the users
\* handed out are those of the operations that are still somewhere between
\* the API and the loop, no two of them share one, and pool_size(), on which
\* reactor_loop() ends and reactor_loop_once() decides to wait, counts them.
PoolExact ==
  /\ \A m, n \in Open : ops[m].user = ops[n].user => m = n
  /\ PoolInv(pool, {ops[n].user : n \in Open})

\* The cancellation reactor_cancel() submits names an address, not an
\* operation.  When the kernel takes it (and it may be a whole loop iteration
\* later, after the user was freed and handed out again) no request other
\* than the one the client meant carries that address.
CancelHitsItsTarget ==
  sq # <<>> /\ Head(sq).op \in {"cancel", "remove"} =>
    \A k \in kernel : k.user = Head(sq).addr => k.gen = Head(sq).target

\* Each completion is passed to a callback of the operation that it completes:
\* the one given when it was issued, or the one given when it was cancelled.
CallbackBelongs ==
  pc \in {"call", "nextcall"} => cur.callback.of = cur.gen

\* reactor_ring_update() blocks in io_uring_enter() only if a completion can
\* still come, so the loop never sleeps on an idle ring.
NeverSleepsOnNothing ==
  pc = "enter" /\ sq = <<>> /\ cq = <<>> /\ next[current] = <<>> => kernel # {}

\* When reactor_loop() returns no operation is unfinished: every callback the
\* client waits for was called, and every cancelled operation was closed.
LoopReturnsWhenDone ==
  pc = "out" /\ pool.allocated = 0 =>
    \A n \in DOMAIN ops : ops[n].status \in {"done", "closed"}

\* After reactor_cancel() the callback the operation was issued with is never
\* called again, whether its completion is already queued or not.
SilentAfterCancel ==
  [][\A n \in DOMAIN ops :
       ops[n].status \in {"cancelled", "closed"} => ops'[n].calls = ops[n].calls]_vars

\* Scheduled calls run in the order of the reactor_next() calls although two
\* vectors take turns: what is left of the vector being run comes before what
\* its calls schedule meanwhile.
NextInOrder ==
  /\ \A v \in {0, 1} : \A i, j \in DOMAIN next[v] :
       i < j => next[v][i].gen < next[v][j].gen
  /\ \A i \in DOMAIN next[1 - current], j \in DOMAIN next[current] :
       next[1 - current][i].gen < next[current][j].gen

\* What does not depend on an event of the outside comes.  A cancelled operation
\* is closed even if what it waited for never happens: the state that was
\* handed to the cancel callback is always freed.  And a scheduled call runs,
\* unless it is cancelled, even while nothing completes on the ring: with calls
\* scheduled io_uring_enter() does not block.
CallsCome ==
  \A n \in 1 .. MaxOps :
    /\ (n \in DOMAIN ops /\ ops[n].status = "cancelled")
         ~> (n \in DOMAIN ops /\ ops[n].status = "closed")
    /\ (n \in DOMAIN ops /\ ops[n].kind = "next")
         ~> (n \in DOMAIN ops /\ ops[n].status \in {"done", "closed"})

-----------------------------------------------------------------------------
(* The inductive invariant *)

\* Entry e carries the address of the operation that it stands for, which is
\* in one of the given places.
Owns(e, places) ==
  /\ e.gen \in DOMAIN ops
  /\ ops[e.gen].user = e.user
  /\ ops[e.gen].at \in places

SqPlaces == \A i \in DOMAIN sq : Owns(sq[i], {"sq"})

PendPlaces == \A i \in DOMAIN pend : Owns(pend[i], {"pend"})

KernelPlaces == \A k \in kernel : Owns(k, {"kernel"})

CqPlaces ==
  \A i \in DOMAIN cq : Owns(cq[i], IF cq[i].more THEN {"kernel", "cq"} ELSE {"cq"})

NextPlaces ==
  /\ \A i \in DOMAIN next[current] : Owns(next[current][i], {"next"})
  /\ \A i \in DOMAIN next[1 - current] :
       /\ next[1 - current][i].gen \in DOMAIN ops
       /\ i >= index => Owns(next[1 - current][i], {"next"})

CurPlaces ==
  /\ pc = "call" => Owns(cur, IF cur.more THEN {"kernel", "cq"} ELSE {"call"})
  /\ pc = "nextcall" => /\ Owns(cur, {"next"})
                        /\ index \in DOMAIN next[1 - current]
                        /\ cur.gen = next[1 - current][index].gen

Places ==
  /\ SqPlaces
  /\ PendPlaces
  /\ KernelPlaces
  /\ CqPlaces
  /\ NextPlaces
  /\ CurPlaces

\* No operation is queued twice, but for the earlier completions of one that
\* completes more than once.
Unique ==
  /\ \A i, j \in DOMAIN sq : sq[i].gen = sq[j].gen => i = j
  /\ \A k, l \in kernel : k.gen = l.gen => k = l
  /\ \A i, j \in DOMAIN cq : i < j /\ cq[i].gen = cq[j].gen => cq[i].more

\* What the position in the loop says about the two vectors and about
\* reactor_ring_flush().
Phase ==
  /\ IF pc \in {"next", "nextcall"} THEN index # 0 ELSE next[1 - current] = <<>>
  /\ pend # <<>> => pc \in {"out", "call", "nextcall"}

\* An address in use holds the callback of its operation: the one given to
\* reactor_cancel() once that was called.
Stored ==
  \A n \in Open :
    /\ ops[n].user \in DOMAIN user
    /\ user[ops[n].user] =
         Callback(n, IF ops[n].status \in {"cancelled", "closed"} THEN "cancel" ELSE "issue")

\* The notification of a zero-copy send comes after its result, and an
\* operation whose user is given back is finished.
Ended ==
  /\ \A k \in kernel :
       k.op = "notif" /\ ops[k.gen].status \in {"pending", "cancelled"} =>
         \E i \in DOMAIN cq : cq[i].gen = k.gen /\ ~ cq[i].notif
  /\ \A j \in DOMAIN cq :
       cq[j].notif /\ ops[cq[j].gen].status \in {"pending", "cancelled"} =>
         \E i \in DOMAIN cq : i < j /\ cq[i].gen = cq[j].gen /\ ~ cq[i].notif
  /\ \A k \in kernel : k.op \in {"zc", "notif"} <=> ops[k.gen].kind = "zc"
  /\ \A i \in DOMAIN sq : sq[i].op = ops[sq[i].gen].kind /\ sq[i].op # "next"
  /\ \A i \in DOMAIN pend : pend[i].op = ops[pend[i].gen].kind /\ pend[i].op # "next"
  /\ \A i \in DOMAIN cq : cq[i].notif => ~ cq[i].more /\ ops[cq[i].gen].kind = "zc"
  /\ \A n \in DOMAIN ops :
       ops[n].at \in {"call", "free"} => ops[n].status \in {"done", "closed"}
  /\ pc = "nextcall" => ops[cur.gen].status \in {"done", "closed"}

\* A cancellation e that is queued behind x, or that x is in flight before,
\* can only mean x if it names the address of x.
Means(e, x) == e.op \in {"cancel", "remove"} /\ x.user = e.addr => x.gen = e.target

Aimed ==
  /\ \A i \in DOMAIN sq : \A k \in kernel : Means(sq[i], k)
  /\ \A i, j \in DOMAIN sq : j < i => Means(sq[i], sq[j])
  /\ \A i \in DOMAIN pend :
       /\ \A k \in kernel : Means(pend[i], k)
       /\ \A j \in DOMAIN sq : Means(pend[i], sq[j])

\* The invariant that makes the properties above inductive: where each entry
\* and each user is, and which callback it holds.
Inv ==
  /\ TypeOK
  /\ PoolExact
  /\ Places
  /\ Unique
  /\ NextInOrder
  /\ Phase
  /\ Stored
  /\ Ended
  /\ Aimed
  /\ CallbackBelongs

\* The converse of Places: an operation really is where it is said to be, so
\* an address that is not given back will be seen by the loop.
Located ==
  \A n \in DOMAIN ops :
    /\ ops[n].at = "sq" => \E i \in DOMAIN sq : sq[i].gen = n
    /\ ops[n].at = "pend" => \E i \in DOMAIN pend : pend[i].gen = n
    /\ ops[n].at = "kernel" => \E k \in kernel : k.gen = n
    /\ ops[n].at = "cq" => \E i \in DOMAIN cq : cq[i].gen = n /\ ~ cq[i].more
    /\ ops[n].at = "call" => pc = "call" /\ cur.gen = n /\ ~ cur.more
    /\ ops[n].at = "next" =>
         \/ \E i \in DOMAIN next[current] : next[current][i].gen = n
         \/ \E i \in DOMAIN next[1 - current] : i >= index /\ next[1 - current][i].gen = n

\* The client waits for the end of operation n.
Waits(n) == ops[n].status \in {"pending", "cancelled"}

\* An entry that will call a callback belongs to an operation the client waits
\* for, and only the operations that complete more than once have entries with
\* IORING_CQE_F_MORE.  The result of a zero-copy send comes once.
Unanswered ==
  /\ \A n \in DOMAIN ops : ops[n].at \in {"sq", "pend"} => Waits(n)
  /\ \A k \in kernel :
       /\ k.op # "notif" => Waits(k.gen)
       /\ k.op = "multi" <=> ops[k.gen].kind = "multi"
       /\ k.op = "zc" => \A i \in DOMAIN cq : cq[i].gen # k.gen
  /\ \A i \in DOMAIN cq :
       /\ ~ cq[i].notif => Waits(cq[i].gen)
       /\ cq[i].more => ops[cq[i].gen].kind \in {"multi", "zc"}
  /\ \A i, j \in DOMAIN cq :
       i < j /\ cq[i].gen = cq[j].gen /\ ops[cq[i].gen].kind = "zc" => cq[j].notif
  /\ \A n \in DOMAIN ops :
       ops[n].at = "next" => Waits(n) \/ (pc = "nextcall" /\ n = cur.gen)

\* reactor_ring_update() is called while some user is handed out.
EntersInUse == pc = "enter" => pool.allocated > 0

\* What Inv needs besides, for the loop never to sleep on an idle ring and
\* for every call of a callback to be one that module Operations allows.
Progress == Located /\ Unanswered /\ EntersInUse

\* What the client can tell of the operations: which callbacks are called, and
\* how often, but no address and no place.
Seen ==
  [n \in DOMAIN ops |->
     [kind |-> ops[n].kind, status |-> ops[n].status,
      calls |-> ops[n].calls, cancelCalls |-> ops[n].cancelCalls]]

\* The reactor implements the list of operations of module Operations: seen
\* through the callbacks that are called, addresses never matter.
Promise == INSTANCE Operations WITH operations <- Seen

KeepsPromise == Promise!Spec
=============================================================================

------------------------------- MODULE Queue --------------------------------
(***************************************************************************)
(* queue.c: a queue of fixed-size elements over a pipe.  A producer pushes *)
(* into one buffer while another is being written, and swaps them when the *)
(* latter is done; a consumer reads a batch into a buffer and passes its   *)
(* elements on one by one.  Producers and consumers run in their own       *)
(* reactor threads; a callback runs to its end before the next one of the  *)
(* thread.                                                                 *)
(*                                                                         *)
(* The operations on the pipe are those of module Operations: one is in    *)
(* flight until the kernel ends it, its callback is called later, and one  *)
(* that was cancelled may still be carried out.  A callback that submits   *)
(* so much that the ring is full enters the kernel, which may then carry   *)
(* out what the callback has asked for before it returns.                  *)
(***************************************************************************)
EXTENDS Integers, Sequences, FiniteSets

CONSTANTS Producers, Consumers,
          ElementSize,    \* queue->element_size, in bytes
          WriteMax,       \* elements per write, 128 in queue.c
          BatchSize,      \* batch_size of queue_consumer_open()
          PipeSize,       \* bytes the pipe holds
          PipeBuf,        \* writes up to this size are atomic
          MaxPush,        \* bound: elements ever pushed
          MaxInterrupts   \* bound: operations that end with EINTR

ASSUME QueueSizesAssumption ==
  {ElementSize, WriteMax, BatchSize, PipeSize, PipeBuf} \subseteq Nat \ {0}
\* Where this fails a write can end inside an element, and the assertion of
\* queue_producer_write() ends the program: with pages of 4096 bytes it fails
\* for elements of more than 32 bytes whose size does not divide the page.
ASSUME WholeElementsAssumption ==
  WriteMax * ElementSize <= PipeBuf \/ PipeBuf % ElementSize = 0
ASSUME QueueEndsAssumption == Producers \cap Consumers = {}
ASSUME QueueBoundsAssumption == MaxPush \in Nat /\ MaxInterrupts \in Nat

VARIABLES
  producers,  \* the queue_producer_t of each producer
  consumers,  \* the queue_consumer_t of each consumer
  pipe,       \* elements in the pipe
  orphans,    \* operations that were cancelled while in flight
  pushed,     \* number of elements pushed so far
  interrupts, \* number of operations interrupted so far
  got,        \* history: the elements passed to each consumer's callback
  spoiled     \* history: consumers that had elements overwritten before they got them

queueVars == <<producers, consumers, pipe, orphans, pushed, interrupts, got, spoiled>>

Least(a, b) == IF a < b THEN a ELSE b

First(s, k) == SubSeq(s, 1, k)

Rest(s, k) == SubSeq(s, k + 1, Len(s))

-----------------------------------------------------------------------------
(* State *)

\* The n-th element pushed, by producer p.
Element(p, sync) == [from |-> p, n |-> pushed + 1, sync |-> sync]

QueueElements == [from : Producers, n : 1 .. MaxPush, sync : BOOLEAN]

\* An operation on the pipe: none, in flight, or ended with a result that its
\* callback has not seen, in bytes for a write and in elements for a read.
NoOperation == [state |-> "idle", size |-> 0, result |-> 0]

Flying(size) == [NoOperation EXCEPT !.state = "flying", !.size = size]

EINTR == -4

QueueInit ==
  /\ producers = [p \in Producers |->
       [open |-> TRUE, output |-> <<>>, offset |-> 0, queued |-> <<>>, write |-> NoOperation]]
  /\ consumers = [c \in Consumers |->
       [open |-> TRUE, input |-> <<>>, count |-> 0, at |-> 0, abort |-> FALSE, read |-> NoOperation]]
  /\ pipe = <<>>
  /\ orphans = {}
  /\ pushed = 0
  /\ interrupts = 0
  /\ got = [c \in Consumers |-> <<>>]
  /\ spoiled = {}

-----------------------------------------------------------------------------
(* The producer *)

\* The buffers are swapped when all of the output has been written.
Swapped(q) ==
  IF q.offset = Len(q.output)
    THEN [q EXCEPT !.output = q.queued, !.queued = <<>>, !.offset = 0]
    ELSE q

\* A write of what is left of the output, up to max bytes.
Submitted(q, max) ==
  IF q.output = <<>> THEN q
  ELSE [q EXCEPT !.write = Flying(Least((Len(q.output) - q.offset) * ElementSize, max))]

\* Mutant of ProducerUpdate: the buffer that is being written is swapped when
\* a write ends, whether or not it is all written.
ProducerUpdateSwaps(q) ==
  IF q.write.state # "idle" THEN q
  ELSE Submitted([q EXCEPT !.output = q.queued, !.queued = <<>>, !.offset = 0],
                 WriteMax * ElementSize)

\* queue_producer_update()
ProducerUpdate(q) ==
  IF q.write.state # "idle" THEN q ELSE Submitted(Swapped(q), WriteMax * ElementSize)

\* queue_producer_push()
ProducerPush(p) ==
  LET q == producers[p] IN
  /\ q.open
  /\ pushed < MaxPush
  /\ pushed' = pushed + 1
  /\ producers' = [producers EXCEPT
       ![p] = ProducerUpdate([q EXCEPT !.queued = Append(@, Element(p, FALSE))])]
  /\ UNCHANGED <<consumers, pipe, orphans, interrupts, got, spoiled>>

\* queue_producer_push_sync(): blocks until the pipe has room
ProducerPushSync(p) ==
  /\ producers[p].open
  /\ pushed < MaxPush
  /\ (Len(pipe) + 1) * ElementSize <= PipeSize
  /\ pushed' = pushed + 1
  /\ pipe' = Append(pipe, Element(p, TRUE))
  /\ UNCHANGED <<producers, consumers, orphans, interrupts, got, spoiled>>

\* Mutant of ProducerWrite: an interrupted write is not submitted again.
ProducerWriteStops(p) ==
  LET q == producers[p] IN
  /\ q.open
  /\ q.write.state = "ended"
  /\ producers' = [producers EXCEPT
       ![p] = IF q.write.result = EINTR
                THEN [q EXCEPT !.write = NoOperation]
                ELSE ProducerUpdate([q EXCEPT !.write = NoOperation,
                                              !.offset = @ + q.write.result \div ElementSize])]
  /\ UNCHANGED <<consumers, pipe, orphans, pushed, interrupts, got, spoiled>>

\* queue_producer_write(); its assertion is WholeElementsAssumption
ProducerWrite(p) ==
  LET q == producers[p] IN
  /\ q.open
  /\ q.write.state = "ended"
  /\ producers' = [producers EXCEPT
       ![p] = ProducerUpdate(
                [q EXCEPT !.write = NoOperation,
                          !.offset = IF q.write.result = EINTR
                                       THEN @
                                       ELSE @ + q.write.result \div ElementSize])]
  /\ UNCHANGED <<consumers, pipe, orphans, pushed, interrupts, got, spoiled>>

\* queue_producer_close(): the buffer of a write in flight is handed to
\* queue_cancel(), the others are freed
ProducerClose(p) ==
  LET q == producers[p] IN
  /\ q.open
  /\ producers' = [producers EXCEPT
       ![p] = [open |-> FALSE, output |-> <<>>, offset |-> 0, queued |-> <<>>, write |-> NoOperation]]
  /\ orphans' = IF q.write.state = "flying"
                  THEN orphans \cup {[of |-> p, data |-> First(Rest(q.output, q.offset), q.write.size \div ElementSize)]}
                  ELSE orphans
  /\ UNCHANGED <<consumers, pipe, pushed, interrupts, got, spoiled>>

-----------------------------------------------------------------------------
(* The consumer *)

\* Mutant of ConsumerUpdate: a read that the callback has asked for is not seen.
ConsumerUpdateAlways(q) == [q EXCEPT !.read = Flying(BatchSize)]

\* queue_consumer_update()
ConsumerUpdate(q) ==
  IF q.read.state # "idle" THEN q ELSE [q EXCEPT !.read = Flying(BatchSize)]

\* queue_consumer_pop(), from outside or from the callback
ConsumerPop(c) ==
  /\ consumers[c].open
  /\ consumers[c].read.state = "idle"
  /\ consumers' = [consumers EXCEPT ![c] = ConsumerUpdate(@)]
  /\ UNCHANGED <<producers, pipe, orphans, pushed, interrupts, got, spoiled>>

\* queue_consumer_pop_sync(): blocks until there is an element.  It uses the
\* buffer of the asynchronous read, so a client uses one or the other.
ConsumerPopSync(c) ==
  /\ consumers[c].open
  /\ consumers[c].read.state = "idle"
  /\ consumers[c].at = 0
  /\ pipe # <<>>
  /\ got' = [got EXCEPT ![c] = Append(@, Head(pipe))]
  /\ pipe' = Tail(pipe)
  /\ UNCHANGED <<producers, consumers, orphans, pushed, interrupts, spoiled>>

\* reactor_call() of the consumer's callback with the element at offset i
Call(q, i) == [q EXCEPT !.at = i]

\* queue_consumer_read(), up to the first call; result is in count
ConsumerRead(c) ==
  LET q == [consumers[c] EXCEPT !.read = NoOperation] IN
  /\ q.open
  /\ consumers[c].read.state = "ended"
  /\ q.at = 0
  /\ IF consumers[c].read.result = EINTR
       THEN consumers' = [consumers EXCEPT ![c] = ConsumerUpdate(q)] /\ UNCHANGED got
       ELSE /\ consumers' = [consumers EXCEPT
                 ![c] = Call([q EXCEPT !.count = consumers[c].read.result], 1)]
            /\ got' = [got EXCEPT ![c] = Append(@, q.input[1])]
  /\ UNCHANGED <<producers, pipe, orphans, pushed, interrupts, spoiled>>

\* The callback returns to queue_consumer_read(), which passes on what is in
\* the buffer now
ConsumerReturn(c) ==
  LET q == consumers[c] IN
  /\ q.at > 0
  /\ IF ~ q.abort /\ q.at < q.count
       THEN /\ consumers' = [consumers EXCEPT ![c] = Call(q, q.at + 1)]
            /\ got' = [got EXCEPT ![c] = Append(@, q.input[q.at + 1])]
       ELSE /\ consumers' = [consumers EXCEPT
                 ![c] = IF q.abort THEN [q EXCEPT !.at = 0]
                        ELSE ConsumerUpdate([q EXCEPT !.at = 0])]
            /\ UNCHANGED got
  /\ UNCHANGED <<producers, pipe, orphans, pushed, interrupts, spoiled>>

\* queue_consumer_close(), from outside or from the callback
ConsumerClose(c) ==
  LET q == consumers[c] IN
  /\ q.open
  /\ consumers' = [consumers EXCEPT
       ![c] = [@ EXCEPT !.open = FALSE, !.abort = q.at > 0, !.read = NoOperation]]
  /\ orphans' = IF q.read.state = "flying"
                  THEN orphans \cup {[of |-> c, data |-> <<>>]}
                  ELSE orphans
  /\ UNCHANGED <<producers, pipe, pushed, interrupts, got, spoiled>>

-----------------------------------------------------------------------------
(* The pipe (external: modelled from the use made of read and write) *)

\* The sizes in bytes that a write of the given size may come to: all of it,
\* at once, up to PipeBuf; beyond, as many whole pages as there is room for.
WriteResults(bytes) ==
  LET room == PipeSize - Len(pipe) * ElementSize
  IN  {m \in 1 .. bytes :
         /\ m <= room
         /\ m = bytes \/ (bytes > PipeBuf /\ m % PipeBuf = 0)}

PipeWrite(p) ==
  LET q == producers[p] IN
  /\ q.write.state = "flying"
  /\ \E m \in WriteResults(q.write.size) :
       /\ pipe' = pipe \o First(Rest(q.output, q.offset), m \div ElementSize)
       /\ producers' = [producers EXCEPT ![p].write.state = "ended", ![p].write.result = m]
  /\ UNCHANGED <<consumers, orphans, pushed, interrupts, got, spoiled>>

\* The elements go to the start of the buffer, over those of the batch that
\* is passed on if there is one.
PipeRead(c) ==
  LET q == consumers[c]
      k == Least(BatchSize, Len(pipe))
  IN  /\ q.read.state = "flying"
      /\ pipe # <<>>
      /\ pipe' = Rest(pipe, k)
      /\ consumers' = [consumers EXCEPT
           ![c] = [q EXCEPT !.read.state = "ended", !.read.result = k,
                            !.input = First(pipe, k) \o (IF q.at > 0 THEN Rest(@, k) ELSE <<>>)]]
      /\ spoiled' = IF q.at > 0 /\ q.at < Least(k, q.count) THEN spoiled \cup {c} ELSE spoiled
      /\ UNCHANGED <<producers, orphans, pushed, interrupts, got>>

WriteInterrupted(p) ==
  /\ producers[p].write.state = "flying"
  /\ interrupts < MaxInterrupts
  /\ interrupts' = interrupts + 1
  /\ producers' = [producers EXCEPT ![p].write.state = "ended", ![p].write.result = EINTR]
  /\ UNCHANGED <<consumers, pipe, orphans, pushed, got, spoiled>>

ReadInterrupted(c) ==
  /\ consumers[c].read.state = "flying"
  /\ interrupts < MaxInterrupts
  /\ interrupts' = interrupts + 1
  /\ consumers' = [consumers EXCEPT ![c].read.state = "ended", ![c].read.result = EINTR]
  /\ UNCHANGED <<producers, pipe, orphans, pushed, got, spoiled>>

\* A cancelled operation ends without effect, or after the fact.
OrphanEnds(o) ==
  /\ orphans' = orphans \ {o}
  /\ \/ UNCHANGED pipe
     \/ /\ o.of \in Producers
        /\ \E m \in WriteResults(Len(o.data) * ElementSize) :
             pipe' = pipe \o First(o.data, m \div ElementSize)
     \/ /\ o.of \in Consumers
        /\ pipe # <<>>
        /\ pipe' = Rest(pipe, Least(BatchSize, Len(pipe)))
  /\ UNCHANGED <<producers, consumers, pushed, interrupts, got, spoiled>>

-----------------------------------------------------------------------------
Produce(p) ==
  \/ ProducerPush(p)
  \/ ProducerPushSync(p)
  \/ ProducerClose(p)

Consume(c) ==
  \/ ConsumerPop(c)
  \/ ConsumerPopSync(c)
  \/ ConsumerClose(c)

PipeStep ==
  \/ \E p \in Producers : PipeWrite(p) \/ WriteInterrupted(p)
  \/ \E c \in Consumers : PipeRead(c) \/ ReadInterrupted(c)
  \/ \E o \in orphans : OrphanEnds(o)

QueueNext ==
  \/ \E p \in Producers : Produce(p) \/ ProducerWrite(p)
  \/ \E c \in Consumers : Consume(c) \/ ConsumerRead(c) \/ ConsumerReturn(c)
  \/ PipeStep

QueueSpec == QueueInit /\ [][QueueNext]_queueVars

\* The threads run their callbacks, and the kernel carries out an operation
\* that the pipe allows.  Nobody has to push, pop or close.
FairQueueSpec ==
  /\ QueueSpec
  /\ \A p \in Producers : WF_queueVars(ProducerWrite(p)) /\ WF_queueVars(PipeWrite(p))
  /\ \A c \in Consumers :
       WF_queueVars(ConsumerRead(c)) /\ WF_queueVars(ConsumerReturn(c)) /\ WF_queueVars(PipeRead(c))

-----------------------------------------------------------------------------
(* Properties *)

\* Elements that an ended write has taken from the output.
SentOf(q) ==
  IF q.write.state = "ended" /\ q.write.result # EINTR
    THEN q.write.result \div ElementSize ELSE 0

\* What the buffers of a producer hold for the pipe.
Unsent(q) == Rest(q.output, q.offset + SentOf(q)) \o q.queued

\* What a producer has pushed and the pipe has not seen yet.
Backlog(p) ==
  LET orphan == {o \in orphans : o.of = p}
  IN  IF producers[p].open THEN Unsent(producers[p])
      ELSE IF orphan = {} THEN <<>>
      ELSE (CHOOSE o \in orphan : TRUE).data

\* What a read has brought that its callback has not seen.
Fetched(q) ==
  IF q.read.state = "ended" /\ q.read.result # EINTR THEN First(q.input, q.read.result) ELSE <<>>

\* What is left of the batch that a consumer is passed.
Left(q) == IF q.at > 0 THEN SubSeq(q.input, q.at + 1, q.count) ELSE <<>>

\* What has been read for a consumer and not been passed to it.
Hand(q) == IF q.open THEN Left(q) \o Fetched(q) ELSE <<>>

\* A consumer has asked for more while it is passed a batch.
Eager(q) == q.at > 0 /\ q.read.state = "flying"

Operation == [state : {"idle", "flying", "ended"}, size : Nat, result : Nat \cup {EINTR}]

QueueTypeOK ==
  /\ producers \in [Producers -> [open : BOOLEAN, output : Seq(QueueElements), offset : Nat,
                                  queued : Seq(QueueElements), write : Operation]]
  /\ consumers \in [Consumers -> [open : BOOLEAN, input : Seq(QueueElements), count : Nat, at : Nat,
                                  abort : BOOLEAN, read : Operation]]
  /\ pipe \in Seq(QueueElements)
  /\ pushed \in 0 .. MaxPush
  /\ got \in [Consumers -> Seq(QueueElements)]

\* A write is within the output, and so is what it has taken of it.
ProducerOK(q) ==
  /\ q.offset + SentOf(q) <= Len(q.output)
  /\ q.write.state = "flying" => q.write.size <= (Len(q.output) - q.offset) * ElementSize
  /\ q.write.state # "idle" => q.open

\* The batch that is passed on is in the buffer, and so is what a read has
\* brought; the loop over the batch goes on exactly if the callback has not
\* closed.
ConsumerOK(q) ==
  /\ q.at <= q.count
  /\ q.at > 0 => q.count <= Len(q.input)
  /\ q.abort => ~ q.open
  /\ q.at > 0 /\ ~ q.open => q.abort
  /\ q.read.state # "idle" => q.open
  /\ q.read.state = "ended" => q.read.result = EINTR \/ q.read.result \in 1 .. Len(q.input)

\* What was cancelled belongs to the closed, who have one operation each.
OrphansOK ==
  /\ \A o \in orphans :
       \/ o.of \in Producers /\ ~ producers[o.of].open /\ o.data \in Seq(QueueElements)
       \/ o.of \in Consumers /\ ~ consumers[o.of].open
  /\ \A o1, o2 \in orphans : o1.of = o2.of => o1 = o2

QueueInv ==
  /\ QueueTypeOK
  /\ \A p \in Producers : ProducerOK(producers[p])
  /\ \A c \in Consumers : ConsumerOK(consumers[c])
  /\ OrphansOK

AllOpen ==
  /\ \A p \in Producers : producers[p].open
  /\ \A c \in Consumers : consumers[c].open

\* Some consumer has asked for elements.
Asked == \E c \in Consumers : consumers[c].read.state # "idle" \/ consumers[c].at > 0

Delivered(n) == \E c \in Consumers : \E i \in DOMAIN got[c] : got[c][i].n = n

\* Once a consumer has asked, everything that is pushed is delivered: the
\* producer goes on writing and the consumer goes on reading by themselves.
\* The code breaks this for a consumer that asks for more in its callback and
\* enters the kernel there.
Flows ==
  \A n \in 1 .. MaxPush :
    (pushed >= n /\ Asked) ~> (Delivered(n) \/ ~ AllOpen \/ spoiled # {})

\* The queue implements module Channel.
Promise ==
  INSTANCE Channel WITH
    Elements <- QueueElements,
    open <- {p \in Producers : producers[p].open} \cup {c \in Consumers : consumers[c].open},
    backlog <- [p \in Producers |-> Backlog(p)],
    channel <- pipe,
    hand <- [c \in Consumers |-> Hand(consumers[c])],
    eager <- {c \in Consumers : Eager(consumers[c])}

KeepsChannel == Promise!Spec
=============================================================================

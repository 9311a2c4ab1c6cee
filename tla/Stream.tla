------------------------------- MODULE Stream -------------------------------
(***************************************************************************)
(* stream.c: buffered input and output on a socket or a file.  The client  *)
(* writes into one output buffer; what it flushes is moved to another one, *)
(* which stays as it is while the kernel sends it, in pieces if it likes.  *)
(* Input is received into the end of a third buffer while the client may   *)
(* consume from its front.  No read is started while a write is under way. *)
(*                                                                         *)
(* The operations are those of module Operations; a cancelled send may     *)
(* still take place.  Bytes are numbers: the client writes 1, 2, 3, ...    *)
(* and so does the peer, and a file read holds the same.  A stream is      *)
(* opened once; to be used again it is constructed anew.                   *)
(***************************************************************************)
EXTENDS Integers, Sequences

CONSTANTS MaxOut,   \* bound: bytes the client writes
          MaxIn     \* bound: bytes there are to read

ASSUME StreamAssumption == MaxOut \in Nat /\ MaxIn \in Nat

VARIABLES
  stream,     \* the stream_t
  callback,   \* the event that the user's callback runs for, or "none"
  orphan,     \* what a cancelled send may still send, and where
  sent,       \* the bytes that the socket has taken, or the content of the file
  arrived,    \* number of bytes read from the socket, or the end of the last read
  failed,     \* history: what has failed or, for a read, come to the end
  written,    \* history: number of bytes written by the client
  flushed,    \* history: how many of them had been written at a stream_flush()
  consumed    \* history: number of bytes consumed by the client

vars == <<stream, callback, orphan, sent, arrived, failed, written, flushed, consumed>>

First(s, k) == SubSeq(s, 1, k)

Rest(s, k) == SubSeq(s, k + 1, Len(s))

\* The bytes i + 1 to j.
Bytes(i, j) == [n \in 1 .. j - i |-> i + n]

\* An operation: its result is 0 until it has ended; a read brings data.
None == [state |-> "none", result |-> 0, data |-> <<>>]

Flying == [None EXCEPT !.state = "flying"]

Ended(result, data) == [state |-> "ended", result |-> result, data |-> data]

\* stream_construct()
Init ==
  /\ stream = [state |-> "constructed", type |-> "socket", flags |-> {}, abort |-> "none",
               read |-> None, input_offset |-> 0, input |-> <<>>, input_consumed |-> 0,
               write |-> None, output_offset |-> 0, output_partial |-> 0,
               output_writing |-> <<>>, output_waiting |-> <<>>, output_flushed |-> 0]
  /\ callback = "none"
  /\ orphan = [data |-> <<>>, offset |-> 0]
  /\ sent = <<>>
  /\ arrived = 0
  /\ failed = {}
  /\ written = 0
  /\ flushed = 0
  /\ consumed = 0

-----------------------------------------------------------------------------
(* stream_update() *)

\* stream_input()
Input(s) ==
  [s EXCEPT !.input = Rest(@, s.input_consumed), !.input_consumed = 0, !.read = Flying]

\* stream_output()
Output(s) == [s EXCEPT !.write = Flying]

\* What was flushed becomes what is written.
Switched(s) ==
  [s EXCEPT !.output_writing = First(s.output_waiting, s.output_flushed),
            !.output_waiting = Rest(s.output_waiting, s.output_flushed),
            !.output_flushed = 0]

\* The choice that stream_update() makes when nothing keeps it.
Started(s) ==
  CASE s.output_partial > 0 -> Output(s)
    [] s.output_partial = 0 /\ s.output_flushed > 0 -> Output(Switched(s))
    [] s.output_partial = 0 /\ s.output_flushed = 0 /\ s.read = None /\ s.flags = {} -> Input(s)
    [] OTHER -> s

\* Mutant of Update: the write in flight is not looked at.
UpdateBusy(s) == IF s.state = "open" THEN Started(s) ELSE s

\* Mutant of Update: the read in flight is not looked at.
UpdateReads(s) ==
  IF s.state = "open" /\ s.write = None THEN Started([s EXCEPT !.read = None]) ELSE s

Update(s) == IF s.state = "open" /\ s.write = None THEN Started(s) ELSE s

-----------------------------------------------------------------------------
(* The client, outside or inside its callback *)

Alive == stream.state # "destructed"

\* stream_open(); fstat() tells sockets from files
Open(type, flags) ==
  /\ stream.state = "constructed"
  /\ stream' = Update([stream EXCEPT !.state = "open", !.type = type, !.flags = flags])
  /\ UNCHANGED <<callback, orphan, sent, arrived, failed, written, flushed, consumed>>

\* stream_write(), with stream_allocate(), of one byte
Write ==
  /\ Alive
  /\ written < MaxOut
  /\ written' = written + 1
  /\ stream' = [stream EXCEPT !.output_waiting = Append(@, written')]
  /\ UNCHANGED <<callback, orphan, sent, arrived, failed, flushed, consumed>>

\* stream_flush()
Flush ==
  /\ Alive
  /\ stream' = Update([stream EXCEPT !.output_flushed = Len(stream.output_waiting)])
  /\ flushed' = written
  /\ UNCHANGED <<callback, orphan, sent, arrived, failed, written, consumed>>

\* stream_consume() of a byte that stream_read() returns
Consume ==
  /\ Alive
  /\ stream.input_consumed < Len(stream.input)
  /\ stream' = [stream EXCEPT !.input_consumed = @ + 1]
  /\ consumed' = consumed + 1
  /\ UNCHANGED <<callback, orphan, sent, arrived, failed, written, flushed>>

\* What stream_close() leaves: a buffer that the kernel uses is given away to
\* the callback of reactor_cancel(), which frees it
Closed(s) ==
  [s EXCEPT !.state = "closed", !.read = None, !.write = None,
            !.input = IF s.read # None THEN <<>> ELSE @,
            !.output_writing = IF s.write # None THEN <<>> ELSE @]

\* The send that stream_close() cancels
Orphan ==
  IF stream.write.state = "flying"
    THEN [data |-> Rest(stream.output_writing, stream.output_partial),
          offset |-> stream.output_offset]
    ELSE orphan

\* stream_close(); on a stream that is not open it does nothing
Close ==
  /\ stream.state = "open"
  /\ stream' = Closed(stream)
  /\ orphan' = Orphan
  /\ UNCHANGED <<callback, sent, arrived, failed, written, flushed, consumed>>

\* stream_destruct()
Destruct ==
  /\ Alive
  /\ stream' = [Closed(stream) EXCEPT !.state = "destructed",
                                      !.abort = IF @ = "live" THEN "true" ELSE @,
                                      !.input = <<>>, !.output_writing = <<>>,
                                      !.output_waiting = <<>>]
  /\ orphan' = Orphan
  /\ UNCHANGED <<callback, sent, arrived, failed, written, flushed, consumed>>

-----------------------------------------------------------------------------
(* The callbacks of the two operations *)

\* stream_recv() up to the user's callback
Recv ==
  LET r == stream.read IN
  /\ callback = "none"
  /\ r.state = "ended"
  /\ IF r.result <= 0
       THEN /\ stream' = [stream EXCEPT !.read = None]
            /\ callback' = IF r.result = 0 THEN "close" ELSE "error"
       ELSE /\ stream' = [stream EXCEPT !.read = None, !.abort = "live",
                                        !.input_offset = @ + r.result,
                                        !.input = @ \o r.data]
            /\ callback' = "read"
  /\ UNCHANGED <<orphan, sent, arrived, failed, written, flushed, consumed>>

\* Mutant of Return: stream_update() is not called.
ReturnIdle ==
  /\ callback # "none"
  /\ callback' = "none"
  /\ stream' = IF callback = "read" /\ stream.abort = "live"
                 THEN [stream EXCEPT !.abort = "none"] ELSE stream
  /\ UNCHANGED <<orphan, sent, arrived, failed, written, flushed, consumed>>

\* The callback returns to stream_recv(), which goes on unless the stream was
\* destructed, or to a function that ends with the call
Return ==
  /\ callback # "none"
  /\ callback' = "none"
  /\ stream' = IF callback = "read" /\ stream.abort = "live"
                 THEN Update([stream EXCEPT !.abort = "none"]) ELSE stream
  /\ UNCHANGED <<orphan, sent, arrived, failed, written, flushed, consumed>>

\* Mutant of Send: output_offset is not advanced.
SendInPlace ==
  LET w == stream.write
      partial == stream.output_partial + w.result
      done == partial = Len(stream.output_writing)
  IN
  /\ callback = "none"
  /\ w.state = "ended"
  /\ IF w.result <= 0
       THEN stream' = [stream EXCEPT !.write = None] /\ callback' = "error"
       ELSE /\ stream' = Update([stream EXCEPT !.write = None,
                                               !.output_partial = IF done THEN 0 ELSE partial])
            /\ UNCHANGED callback
  /\ UNCHANGED <<orphan, sent, arrived, failed, written, flushed, consumed>>

\* stream_send()
Send ==
  LET w == stream.write
      partial == stream.output_partial + w.result
      done == partial = Len(stream.output_writing)
  IN
  /\ callback = "none"
  /\ w.state = "ended"
  /\ IF w.result <= 0
       THEN stream' = [stream EXCEPT !.write = None] /\ callback' = "error"
       ELSE /\ stream' = Update([stream EXCEPT !.write = None,
                                               !.output_offset = @ + w.result,
                                               !.output_partial = IF done THEN 0 ELSE partial])
            /\ UNCHANGED callback
  /\ UNCHANGED <<orphan, sent, arrived, failed, written, flushed, consumed>>

-----------------------------------------------------------------------------
(* The kernel (external) *)

\* A read of m bytes: the next ones of the socket, or those at the offset.
KernelRecv(m) ==
  LET from == IF stream.type = "file" THEN stream.input_offset ELSE arrived IN
  /\ stream.read.state = "flying"
  /\ from + m <= MaxIn
  /\ stream' = [stream EXCEPT !.read = Ended(m, Bytes(from, from + m))]
  /\ arrived' = from + m
  /\ UNCHANGED <<callback, orphan, sent, failed, written, flushed, consumed>>

\* The peer has closed, or the read fails.
KernelRecvEnd(result) ==
  /\ stream.read.state = "flying"
  /\ stream' = [stream EXCEPT !.read = Ended(result, <<>>)]
  /\ failed' = failed \cup {"recv"}
  /\ UNCHANGED <<callback, orphan, sent, arrived, written, flushed, consumed>>

\* What is there after data was sent to the socket, or written at an offset.
Taken(data, offset) ==
  IF stream.type = "file"
    THEN First(sent, offset) \o data \o Rest(sent, offset + Len(data))
    ELSE sent \o data

KernelSend(m) ==
  LET output == Rest(stream.output_writing, stream.output_partial) IN
  /\ stream.write.state = "flying"
  /\ m <= Len(output)
  /\ stream' = [stream EXCEPT !.write = Ended(m, <<>>)]
  /\ sent' = Taken(First(output, m), stream.output_offset)
  /\ UNCHANGED <<callback, orphan, arrived, failed, written, flushed, consumed>>

KernelSendFail ==
  /\ stream.write.state = "flying"
  /\ stream' = [stream EXCEPT !.write = Ended(-1, <<>>)]
  /\ failed' = failed \cup {"send"}
  /\ UNCHANGED <<callback, orphan, sent, arrived, written, flushed, consumed>>

\* A cancelled send takes place after all.
OrphanSend(m) ==
  /\ m <= Len(orphan.data)
  /\ sent' = Taken(First(orphan.data, m), orphan.offset)
  /\ orphan' = [orphan EXCEPT !.data = <<>>]
  /\ UNCHANGED <<stream, callback, arrived, failed, written, flushed, consumed>>

-----------------------------------------------------------------------------
Client ==
  \/ \E type \in {"socket", "file"} : \E flags \in SUBSET {"STREAM_WRITE_ONLY"} : Open(type, flags)
  \/ Write \/ Flush \/ Consume \/ Close \/ Destruct

Kernel ==
  \/ \E m \in 1 .. MaxIn : KernelRecv(m)
  \/ \E result \in {0, -1} : KernelRecvEnd(result)
  \/ \E m \in 1 .. MaxOut : KernelSend(m) \/ OrphanSend(m)
  \/ KernelSendFail

Next == Client \/ Recv \/ Return \/ Send \/ Kernel

Spec == Init /\ [][Next]_vars

\* The loop runs, callbacks return, the peer takes what is sent, and what it
\* sends is received.  The client does not have to do anything.
FairSpec ==
  /\ Spec
  /\ WF_vars(Recv) /\ WF_vars(Return) /\ WF_vars(Send)
  /\ WF_vars(\E m \in 1 .. MaxIn : KernelRecv(m))
  /\ WF_vars(\E m \in 1 .. MaxOut : KernelSend(m))

-----------------------------------------------------------------------------
(* The inductive invariant *)

OperationType == [state : {"none", "flying", "ended"}, result : Int, data : Seq(Nat)]

StreamType ==
  [state : {"constructed", "open", "closed", "destructed"}, type : {"socket", "file"},
   flags : SUBSET {"STREAM_WRITE_ONLY"}, abort : {"none", "live", "true"},
   read : OperationType, input_offset : Nat, input : Seq(Nat), input_consumed : Nat,
   write : OperationType, output_offset : Nat, output_partial : Nat,
   output_writing : Seq(Nat), output_waiting : Seq(Nat), output_flushed : Nat]

TypeOK ==
  /\ stream \in StreamType
  /\ callback \in {"none", "read", "close", "error"}
  /\ orphan \in [data : Seq(Nat), offset : Nat]
  /\ sent \in Seq(Nat)
  /\ failed \subseteq {"recv", "send"}
  /\ {arrived, written, flushed, consumed} \subseteq Nat

\* The operations of a stream s.  A write that has not sent anything has failed.
OperationsOf(s) ==
  /\ s.read.state # "ended" => s.read.result = 0 /\ s.read.data = <<>>
  /\ s.read.result > 0 => s.read.result = Len(s.read.data)
  /\ s.read.result <= 0 => s.read.data = <<>>
  /\ s.write.state # "ended" => s.write.result = 0
  /\ s.write.data = <<>>
  /\ s.state # "open" => s.read = None /\ s.write = None
  /\ s.state = "destructed" => s.abort # "live"
  /\ s.state # "destructed" => s.output_flushed <= Len(s.output_waiting)

\* Where the output of a stream s is, of which k bytes were written, f of them
\* flushed, and n sent: those behind n are in output_writing, unless it is done
\* with, and then in output_waiting.
OutputOf(s, n, k, f) ==
  LET left == k - Len(s.output_waiting)
      start == n - s.output_partial - s.write.result IN
  /\ s.output_waiting = Bytes(left, k)
  /\ f = left + s.output_flushed
  /\ s.write.result >= 0
  /\ s.write.state = "ended" => s.write.result > 0
  /\ IF s.write = None /\ s.output_partial = 0
       THEN n = left
       ELSE 0 <= start /\ n <= left /\ s.output_writing = Bytes(start, left)

\* Where the input of a stream s is, of which a bytes arrived and c were consumed.
InputOf(s, a, c) ==
  LET end == c - s.input_consumed + Len(s.input) IN
  /\ s.input_consumed <= c /\ s.input_consumed <= Len(s.input)
  /\ s.input = Bytes(c - s.input_consumed, end)
  /\ s.input_offset = end
  /\ end <= a /\ s.read.data = Bytes(end, a)

Live == stream.state \in {"constructed", "open"}

\* The offset of the next send is where the file ends; what a cancelled send may
\* still send goes there as well and was flushed.
Outgoing ==
  /\ flushed <= written
  /\ Live => /\ orphan.data = <<>>
             /\ Len(sent) = stream.output_offset
                              + (IF stream.write.result > 0 THEN stream.write.result ELSE 0)
  /\ orphan.data # <<>> => orphan.offset = Len(sent)
  /\ "send" \notin failed =>
       /\ sent = Bytes(0, Len(sent))
       /\ orphan.data = Bytes(Len(sent), Len(sent) + Len(orphan.data))
       /\ Len(sent) + Len(orphan.data) <= flushed
       /\ Live => OutputOf(stream, Len(sent), written, flushed)

Incoming == Live => InputOf(stream, arrived, consumed)

Inv == TypeOK /\ OperationsOf(stream) /\ Outgoing /\ Incoming

-----------------------------------------------------------------------------
(* Properties *)

\* What is being written and the kernel has not taken.
Unsent ==
  IF stream.write = None /\ stream.output_partial = 0 THEN <<>>
  ELSE Rest(stream.output_writing, stream.output_partial + stream.write.result)

\* Until a send fails, the bytes sent are the first ones that were written and
\* flushed, in order, a cancelled send included; while the stream is open they
\* are followed by those being sent and those that wait.  None is lost,
\* repeated or overtaken, however the kernel cuts the sends and whenever the
\* client writes and flushes.
OutputExact ==
  "send" \notin failed =>
    /\ sent = Bytes(0, Len(sent))
    /\ Len(sent) <= flushed
    /\ stream.state \in {"constructed", "open"} =>
         sent \o Unsent \o stream.output_waiting = Bytes(0, written)

\* What the client may read is what came in and was not consumed, although the
\* front of the buffer is erased when the next read starts, and its end is
\* what the kernel is given.
InputExact ==
  stream.state = "open" =>
    Rest(stream.input, stream.input_consumed) \o stream.read.data = Bytes(consumed, arrived)

\* Memory is used by one at a time.  While the kernel may use a buffer it stays
\* as it is, or is given away with the cancellation of the operation; a closed
\* stream makes no callback, with operations in flight or ended too, and one
\* that was destructed, in its own callback too, is not touched again.
MemorySafe ==
  [][/\ stream.read.state = "flying" =>
          stream'.input = IF stream'.read = None THEN <<>> ELSE stream.input
     /\ stream.write.state = "flying" =>
          stream'.output_writing = IF stream'.write = None THEN <<>> ELSE stream.output_writing
     /\ stream.state \in {"closed", "destructed"} => callback' \in {callback, "none"}
     /\ stream.state = "destructed" => UNCHANGED stream]_vars

\* What was flushed is sent, and what there is to read is read although reads
\* are not started while a write is under way, as long as nothing fails and
\* the client does not close.
Resumes ==
  /\ \A n \in 1 .. MaxOut :
       (stream.state = "open" /\ flushed >= n)
         ~> (Len(sent) >= n \/ failed # {} \/ stream.state # "open")
  /\ (stream.state = "open" /\ stream.flags = {})
       ~> (arrived = MaxIn \/ failed # {} \/ stream.state # "open")
=============================================================================

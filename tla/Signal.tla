------------------------------- MODULE Signal -------------------------------
(***************************************************************************)
(* signal.c: a signal is an eventfd with a read always in flight in the    *)
(* reactor thread of its owner.  Other threads send with                   *)
(* signal_send_sync(), the reactor thread may also use signal_send().      *)
(* Sends that are not read yet add up, and one callback reports their      *)
(* number.                                                                 *)
(*                                                                         *)
(* The read is an operation as in module Operations: one that was          *)
(* cancelled does not call signal_read(), but the kernel may still have    *)
(* carried it out, into signal->counter.                                   *)
(***************************************************************************)
EXTENDS Integers, Sequences, FiniteSets

CONSTANTS MaxSends,   \* bound: signals ever sent
          MaxOpens    \* bound: calls of signal_open()

ASSUME SignalAssumption == MaxSends \in Nat /\ MaxOpens \in Nat

VARIABLES
  signal,     \* the signal_t
  events,     \* the eventfds ever created; the n-th one has fd n
  opens,      \* number of signal_open() calls
  reads,      \* the reads in flight, or ended and not yet seen by the loop
  writes,     \* the asynchronous writes in flight: how many of each eventfd
  sends,      \* number of signals sent
  sent,       \* history: how many of them since signal_open()
  received    \* history: the sum of the counters reported since signal_open()

signalVars == <<signal, events, opens, reads, writes, sends, sent, received>>

EBADF == -9
CounterSize == 8
EFD_SEMAPHORE == 1

\* A read in flight has result 0.  user says that it still has the callback
\* signal_read().
Read(n, fd) == [n |-> n, fd |-> fd, user |-> TRUE, result |-> 0]

\* abort is "none", "live" (it points into signal_read(), which runs the user's
\* callback), "true" (signal_close() was called in that callback) or
\* "dangling": signal_read() returned and left it.
Inside == signal.abort \in {"live", "true"}

SignalInit ==
  /\ signal = [fd |-> -1, read |-> 0, counter |-> 0, abort |-> "none"]
  /\ events = <<>>
  /\ opens = 0
  /\ reads = {}
  /\ writes = [fd \in 1 .. MaxOpens |-> 0]
  /\ sends = 0
  /\ sent = 0
  /\ received = 0

-----------------------------------------------------------------------------
(* signal.c *)

\* reactor_read() into signal->counter, in signal_open() and signal_read().
\* Its id is the first that no other read has: the pool reuses addresses.
Reading(s, rest) ==
  LET n == CHOOSE m \in 1 .. Cardinality(rest) + 1 : \A r \in rest : r.n # m
  IN  /\ reads' = rest \cup {Read(n, s.fd)}
      /\ signal' = [s EXCEPT !.read = n]

\* signal_open(): the counter is passed to eventfd() as its flags.  Of the
\* values a counter takes here, 0 and EFD_SEMAPHORE are valid flags.
Open ==
  /\ signal.fd = -1
  /\ opens < MaxOpens
  /\ opens' = opens + 1
  /\ IF signal.counter \in {0, EFD_SEMAPHORE}
       THEN /\ events' = Append(events,
                 [count |-> 0, semaphore |-> signal.counter = EFD_SEMAPHORE])
            /\ Reading([signal EXCEPT !.fd = Len(events) + 1], reads)
       ELSE /\ UNCHANGED events
            /\ Reading(signal, reads)
  /\ sent' = 0
  /\ received' = 0
  /\ UNCHANGED <<writes, sends>>

\* signal_send(): a write is submitted
Send ==
  /\ signal.fd # -1
  /\ sends < MaxSends
  /\ sends' = sends + 1
  /\ sent' = sent + 1
  /\ writes' = [writes EXCEPT ![signal.fd] = @ + 1]
  /\ UNCHANGED <<signal, events, opens, reads, received>>

\* signal_send_sync(), from any thread
SendSync ==
  /\ signal.fd # -1
  /\ sends < MaxSends
  /\ sends' = sends + 1
  /\ sent' = sent + 1
  /\ events' = [events EXCEPT ![signal.fd].count = @ + 1]
  /\ UNCHANGED <<signal, opens, reads, writes, received>>

\* Mutant of Receive: the callback is told of one signal.
ReceiveOne(r) ==
  /\ ~ Inside
  /\ r.user
  /\ r.result = CounterSize
  /\ reads' = reads \ {r}
  /\ signal' = [signal EXCEPT !.read = 0, !.abort = "live"]
  /\ received' = received + 1
  /\ UNCHANGED <<events, opens, writes, sends, sent>>

\* signal_read() up to the call of the user's callback.  Its assertion is the
\* invariant ReadsCounter; where it fails the program ends.
Receive(r) ==
  /\ ~ Inside
  /\ r.user
  /\ r.result = CounterSize
  /\ reads' = reads \ {r}
  /\ signal' = [signal EXCEPT !.read = 0, !.abort = "live"]
  /\ received' = received + signal.counter
  /\ UNCHANGED <<events, opens, writes, sends, sent>>

\* Mutant of SignalReturn: the read is not submitted again.
ReturnStops ==
  /\ Inside
  /\ signal' = [signal EXCEPT !.abort = IF signal.abort = "true" THEN "dangling" ELSE "none"]
  /\ UNCHANGED <<reads, events, opens, writes, sends, sent, received>>

\* The callback returns to signal_read()
SignalReturn ==
  /\ Inside
  /\ IF signal.abort = "true"
       THEN signal' = [signal EXCEPT !.abort = "dangling"] /\ UNCHANGED reads
       ELSE Reading([signal EXCEPT !.abort = "none"], reads)
  /\ UNCHANGED <<events, opens, writes, sends, sent, received>>

\* signal_close(), from outside or from the callback.  signal->read keeps its
\* value.  A signal that was closed in its callback and opened again would
\* write through a dangling abort; its owner constructs it anew instead.
Close ==
  /\ signal.fd # -1
  /\ signal.abort # "dangling"
  /\ signal' = [signal EXCEPT !.fd = -1, !.abort = IF @ = "live" THEN "true" ELSE @]
  /\ reads' = {[r EXCEPT !.user = @ /\ r.n # signal.read] : r \in reads}
  /\ UNCHANGED <<events, opens, writes, sends, sent, received>>

-----------------------------------------------------------------------------
(* The kernel (external) *)

\* A write adds one to the counter of its eventfd.
KernelWrite(fd) ==
  /\ writes[fd] > 0
  /\ writes' = [writes EXCEPT ![fd] = @ - 1]
  /\ events' = [events EXCEPT ![fd].count = @ + 1]
  /\ UNCHANGED <<signal, opens, reads, sends, sent, received>>

\* A read takes the counter, or one of it from a semaphore, when there is any.
KernelRead(r) ==
  /\ r.result = 0
  /\ r.fd # -1
  /\ events[r.fd].count > 0
  /\ LET taken == IF events[r.fd].semaphore THEN 1 ELSE events[r.fd].count
     IN  /\ events' = [events EXCEPT ![r.fd].count = @ - taken]
         /\ signal' = [signal EXCEPT !.counter = taken]
  /\ reads' = (reads \ {r}) \cup {[r EXCEPT !.result = CounterSize]}
  /\ UNCHANGED <<opens, writes, sends, sent, received>>

KernelReadFails(r) ==
  /\ r.result = 0
  /\ r.fd = -1
  /\ reads' = (reads \ {r}) \cup {[r EXCEPT !.result = EBADF]}
  /\ UNCHANGED <<signal, events, opens, writes, sends, sent, received>>

\* A cancelled read ends, with or without having taken place.
EndCancelledRead(r) ==
  /\ ~ r.user
  /\ reads' = reads \ {r}
  /\ UNCHANGED <<signal, events, opens, writes, sends, sent, received>>

-----------------------------------------------------------------------------
SignalNext ==
  \/ Open \/ Send \/ SendSync \/ SignalReturn \/ Close
  \/ \E fd \in 1 .. MaxOpens : KernelWrite(fd)
  \/ \E r \in reads : Receive(r) \/ KernelRead(r) \/ KernelReadFails(r) \/ EndCancelledRead(r)

SignalSpec == SignalInit /\ [][SignalNext]_signalVars

\* The kernel carries out what it can and the loop runs; nobody has to send.
SignalFairness ==
  /\ WF_signalVars(SignalReturn)
  /\ WF_signalVars(\E fd \in 1 .. MaxOpens : KernelWrite(fd))
  /\ WF_signalVars(\E r \in reads : Receive(r))
  /\ WF_signalVars(\E r \in reads : KernelRead(r))

FairSignalSpec == SignalSpec /\ SignalFairness

-----------------------------------------------------------------------------
(* Properties *)

\* What the assertion in signal_read() says: a read that has ended has read a
\* counter.
ReadsCounter ==
  \A r \in reads : r.user /\ r.result # 0 => r.result = CounterSize

\* The signals that a read has taken and that are not reported yet
Taken ==
  IF \E r \in reads : r.user /\ r.result = CounterSize THEN signal.counter ELSE 0

\* The signals sent are those reported, those in the eventfd, those that are
\* being written and those that a read has taken and not reported: none is
\* lost and none counted twice, however they add up.  This is about a signal
\* opened for the first time: later, a cancelled read of the old eventfd may
\* still write signal->counter.
Conserved ==
  opens = 1 /\ signal.fd # -1 =>
    sent = received
           + events[signal.fd].count
           + writes[signal.fd]
           + Taken

\* Every signal sent is reported unless the signal is closed; as Conserved,
\* about a signal opened for the first time.
Reported ==
  \A n \in 1 .. MaxSends :
    (opens = 1 /\ sent >= n /\ signal.fd # -1) ~> (received >= n \/ signal.fd = -1)

-----------------------------------------------------------------------------
(* The inductive invariant of Conserved *)

EventType == [count : Nat, semaphore : BOOLEAN]

Fds == 1 .. Len(events)

ReadType == [n : Nat, fd : {-1} \cup Fds, user : BOOLEAN, result : {0, CounterSize, EBADF}]

SignalTypeOK ==
  /\ events \in Seq(EventType)
  /\ signal \in [fd : {-1} \cup Fds, read : Nat, counter : Nat,
                 abort : {"none", "live", "true", "dangling"}]
  /\ opens \in 0 .. MaxOpens
  /\ Len(events) <= opens
  /\ reads \subseteq ReadType
  /\ IsFiniteSet(reads)
  /\ writes \in [1 .. MaxOpens -> Nat]
  /\ \A fd \in 1 .. MaxOpens : writes[fd] > 0 => fd \in Fds
  /\ sends \in Nat /\ sent \in Nat /\ received \in Nat

\* Two reads never have the same id, so that signal_close() cancels its own.
Identified ==
  \A r, s \in reads : r.n = s.n => r = s

\* Before the first signal_open()
Unopened ==
  opens = 0 =>
    /\ signal.fd = -1 /\ signal.counter = 0 /\ signal.abort = "none"
    /\ reads = {}

\* A signal opened for the first time counts, and has exactly one read, except
\* in the user's callback, where it has none.
FirstOpen ==
  opens = 1 /\ signal.fd # -1 =>
    /\ signal.fd = 1
    /\ ~ events[1].semaphore
    /\ \/ signal.abort = "live" /\ reads = {}
       \/ /\ signal.abort = "none"
          /\ \E r \in reads :
               /\ reads = {r}
               /\ r.user /\ r.fd = 1 /\ r.result # EBADF

SignalInv == SignalTypeOK /\ Identified /\ Unopened /\ FirstOpen /\ Conserved
=============================================================================

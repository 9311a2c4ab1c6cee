------------------------------ MODULE Timeout -------------------------------
(***************************************************************************)
(* timeout.c: a timer that alerts at a given time and, with a delay, every *)
(* delay after that.  A timer has one timespec, timeout->tv, to which the  *)
(* submissions of all its operations point; the kernel reads it when it    *)
(* takes a submission, which is later than reactor_timeout() and may be    *)
(* after other calls have written it.                                      *)
(*                                                                         *)
(* The operations are those of module Operations, of one reactor thread: a *)
(* cancelled operation ends without calling timeout_timeout().             *)
(***************************************************************************)
EXTENDS Naturals, Sequences, FiniteSets

CONSTANTS MaxTime,   \* bound: the clock stops here
          MaxSets,   \* bound: calls of timeout_set()
          Delays     \* the delays given to timeout_set()

ASSUME TimeoutAssumption == MaxTime \in Nat /\ MaxSets \in Nat /\ Delays \subseteq Nat

VARIABLES
  clock,     \* CLOCK_REALTIME
  timeout,   \* the timeout_t; its field timeout is an operation, or 0
  ops,       \* the operations ever submitted: 1, 2, ...
  running,   \* the time that the callback that runs was called with, or <<>>
  alerts,    \* history: the times of the alerts since timeout_set()
  set        \* history: the number and the arguments of the last timeout_set()

vars == <<clock, timeout, ops, running, alerts, set>>

Times == 0 .. MaxTime

\* An operation is in the submission queue ("sq"), armed in the kernel with a
\* due time, expired but not yet seen by the loop, or ended.  user says whose
\* callback it has: timeout_timeout(), or none once reactor_cancel() has
\* replaced it.
Operation == [at |-> "sq", due |-> 0, user |-> TRUE]

Init ==
  /\ clock = 0
  /\ timeout = [time |-> 0, delay |-> 0, tv |-> 0, timeout |-> 0]
  /\ ops = <<>>
  /\ running = <<>>
  /\ alerts = <<>>
  /\ set = [n |-> 0, time |-> 0, delay |-> 0, active |-> FALSE]

-----------------------------------------------------------------------------
(* timeout.c *)

\* timeout_submit(), on the operations told so far
Submit(t, told) ==
  /\ timeout' = [t EXCEPT !.tv = t.time, !.timeout = Len(told) + 1]
  /\ ops' = Append(told, Operation)

\* Mutant of Cancelled: reactor_cancel() is not called.
CancelledNot == ops

\* The operations after timeout_clear(), and reactor_cancel() in it
Cancelled ==
  IF timeout.timeout = 0 THEN ops ELSE [ops EXCEPT ![timeout.timeout].user = FALSE]

\* timeout_set(), from outside or from the callback
Set(time, delay) ==
  /\ set.n < MaxSets
  /\ Submit([timeout EXCEPT !.time = time, !.delay = delay], Cancelled)
  /\ alerts' = <<>>
  /\ set' = [n |-> set.n + 1, time |-> time, delay |-> delay, active |-> TRUE]
  /\ UNCHANGED <<clock, running>>

\* timeout_clear() and timeout_destruct()
Clear ==
  /\ ops' = Cancelled
  /\ timeout' = [timeout EXCEPT !.timeout = 0]
  /\ set' = [set EXCEPT !.active = FALSE]
  /\ UNCHANGED <<clock, running, alerts>>

\* Mutant of Alert: the next time counts from the present.
AlertFromNow(n) ==
  /\ running = <<>>
  /\ ops[n].at = "cq"
  /\ ops[n].user
  /\ running' = <<timeout.time>>
  /\ alerts' = Append(alerts, timeout.time)
  /\ LET told == [ops EXCEPT ![n].at = "ended"] IN
     IF timeout.delay > 0
       THEN Submit([timeout EXCEPT !.time = clock + timeout.delay], told)
       ELSE ops' = told /\ timeout' = [timeout EXCEPT !.timeout = 0]
  /\ UNCHANGED <<clock, set>>

\* Mutant of Alert: a periodic timer alerts once.
AlertOnce(n) ==
  /\ running = <<>>
  /\ ops[n].at = "cq"
  /\ ops[n].user
  /\ running' = <<timeout.time>>
  /\ alerts' = Append(alerts, timeout.time)
  /\ ops' = [ops EXCEPT ![n].at = "ended"]
  /\ timeout' = [timeout EXCEPT !.timeout = 0, !.time = @ + timeout.delay]
  /\ UNCHANGED <<clock, set>>

\* timeout_timeout(): a periodic timer is submitted again before the user's
\* callback is called
Alert(n) ==
  /\ running = <<>>
  /\ ops[n].at = "cq"
  /\ ops[n].user
  /\ running' = <<timeout.time>>
  /\ alerts' = Append(alerts, timeout.time)
  /\ LET told == [ops EXCEPT ![n].at = "ended"] IN
     IF timeout.delay > 0
       THEN Submit([timeout EXCEPT !.time = @ + timeout.delay], told)
       ELSE ops' = told /\ timeout' = [timeout EXCEPT !.timeout = 0]
  /\ UNCHANGED <<clock, set>>

\* The callback returns, and with it timeout_timeout()
Return ==
  /\ running # <<>>
  /\ running' = <<>>
  /\ UNCHANGED <<clock, timeout, ops, alerts, set>>

-----------------------------------------------------------------------------
(* The loop and the kernel (external) *)

Tick ==
  /\ clock < MaxTime
  /\ clock' = clock + 1
  /\ UNCHANGED <<timeout, ops, running, alerts, set>>

\* io_uring_enter() takes the oldest submission, and reads timeout->tv: in the
\* loop, or in a callback that fills the submission ring.  The cancellation of an
\* operation is submitted after it, so that the operation has been taken by then.
Take(n) ==
  /\ ops[n].at = "sq"
  /\ \A m \in 1 .. n - 1 : ops[m].at # "sq"
  /\ ops' = [ops EXCEPT ![n].at = "armed", ![n].due = timeout.tv]
  /\ UNCHANGED <<clock, timeout, running, alerts, set>>

Expire(n) ==
  /\ ops[n].at = "armed"
  /\ ops[n].due <= clock
  /\ ops' = [ops EXCEPT ![n].at = "cq"]
  /\ UNCHANGED <<clock, timeout, running, alerts, set>>

\* A cancelled operation is stopped by the kernel, or the loop finds that it
\* has expired and calls the callback that was given to reactor_cancel().
EndCancelled(n) ==
  /\ running = <<>>
  /\ ops[n].at \in {"armed", "cq"}
  /\ ~ ops[n].user
  /\ ops' = [ops EXCEPT ![n].at = "ended"]
  /\ UNCHANGED <<clock, timeout, running, alerts, set>>

-----------------------------------------------------------------------------
Next ==
  \/ \E time \in Times, delay \in Delays : Set(time, delay)
  \/ Clear
  \/ Return
  \/ Tick
  \/ \E n \in DOMAIN ops : Alert(n) \/ Take(n) \/ Expire(n) \/ EndCancelled(n)

Spec == Init /\ [][Next]_vars

\* The loop runs, and callbacks return.
TimeoutFairness ==
  /\ WF_vars(Return)
  /\ WF_vars(\E n \in DOMAIN ops : Alert(n))
  /\ WF_vars(\E n \in DOMAIN ops : Take(n))
  /\ WF_vars(\E n \in DOMAIN ops : Expire(n))

\* And time passes.
FairSpec == Spec /\ TimeoutFairness /\ WF_vars(Tick)

-----------------------------------------------------------------------------
(* Properties *)

\* Type correctness: timeout->timeout is 0 or the number of an operation.
TypeOK ==
  /\ clock \in Times
  /\ timeout \in [time : Nat, delay : Nat, tv : Nat, timeout : 0 .. Len(ops)]
  /\ ops \in Seq([at : {"sq", "armed", "cq", "ended"}, due : Nat, user : BOOLEAN])
  /\ running \in Seq(Nat) /\ Len(running) <= 1
  /\ alerts \in Seq(Nat)
  /\ set \in [n : 0 .. MaxSets, time : Nat, delay : Nat, active : BOOLEAN]

\* timeout->timeout is the only operation that can still call back, so that
\* timeout_clear() has nothing else to cancel; and 0 says there is none.
OneOperation ==
  \A n \in DOMAIN ops :
    (ops[n].user /\ ops[n].at # "ended") <=> n = timeout.timeout

\* The operation is armed for timeout->time, although the kernel reads the
\* timespec late and every operation of the timer uses the same one.
ArmedForItsTime ==
  \A n \in DOMAIN ops :
    (ops[n].user /\ ops[n].at \in {"armed", "cq"}) => ops[n].due = timeout.time

\* No alert is early: its time has come when the callback is called.
NeverEarly == running # <<>> => running[1] <= clock

\* The alerts since timeout_set() are at time, time + delay, time + 2 delay,
\* ...: none is skipped or repeated, however late the loop is.
OnSchedule ==
  \A i \in DOMAIN alerts : alerts[i] = set.time + (i - 1) * set.delay

\* What the timer will read, expire or be resubmitted for.
Prepared ==
  /\ \A n \in DOMAIN ops : ops[n].user =>
       /\ ops[n].at = "sq" => timeout.tv = timeout.time
       /\ ops[n].at = "cq" => ops[n].due <= clock
  /\ timeout.timeout # 0 =>
       /\ set.active
       /\ timeout.delay = set.delay
       /\ timeout.time = set.time + Len(alerts) * set.delay

\* The inductive invariant: what timeout_set() asked for, what the timer holds
\* and what its one operation was told agree, wherever that operation is.
Inv ==
  /\ TypeOK
  /\ OneOperation
  /\ ArmedForItsTime
  /\ NeverEarly
  /\ OnSchedule
  /\ Prepared

\* Nothing is alerted after timeout_clear().
SilentAfterClear == [][~ set.active => alerts' = alerts \/ alerts' = <<>>]_vars

\* A timer whose time comes alerts, unless it is set again or cleared, and a
\* periodic one does so as often as its delay says.
Alerts ==
  \A t \in Times, g \in 1 .. MaxSets :
    (/\ set.active
     /\ set.n = g
     /\ \E k \in Times : t = set.time + k * set.delay
     /\ t <= clock)
      ~> (~ set.active \/ set.n # g \/ \E i \in DOMAIN alerts : alerts[i] = t)
=============================================================================

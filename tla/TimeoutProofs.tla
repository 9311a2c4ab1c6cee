---------------------------- MODULE TimeoutProofs ---------------------------
(***************************************************************************)
(* The safety properties of module Timeout for every bound on the clock,   *)
(* every set of delays and any number of calls of timeout_set().           *)
(***************************************************************************)
EXTENDS Timeout, TLAPS

OpType == [at : {"sq", "armed", "cq", "ended"}, due : Nat, user : BOOLEAN]

TimerType == [time : Nat, delay : Nat, tv : Nat, timeout : Nat]

\* One element of a sequence is replaced.
LEMMA ReplaceFacts ==
  ASSUME NEW S, NEW s \in Seq(S), NEW n \in DOMAIN s, NEW e \in S
  PROVE  /\ [s EXCEPT ![n] = e] \in Seq(S)
         /\ Len([s EXCEPT ![n] = e]) = Len(s)
         /\ [s EXCEPT ![n] = e][n] = e
         /\ \A m \in DOMAIN s : m # n => [s EXCEPT ![n] = e][m] = s[m]
  OBVIOUS

\* An operation that is cancelled.
LEMMA OpCancelled ==
  ASSUME NEW o \in OpType
  PROVE  /\ [o EXCEPT !.user = FALSE] \in OpType
         /\ [o EXCEPT !.user = FALSE].user = FALSE
  BY DEF OpType

\* An operation that moves on.
LEMMA OpMoved ==
  ASSUME NEW o \in OpType, NEW at \in {"sq", "armed", "cq", "ended"}
  PROVE  /\ [o EXCEPT !.at = at] \in OpType
         /\ [o EXCEPT !.at = at].at = at
         /\ [o EXCEPT !.at = at].due = o.due
         /\ [o EXCEPT !.at = at].user = o.user
  BY DEF OpType

\* An operation that the kernel takes.
LEMMA OpTaken ==
  ASSUME NEW o \in OpType, NEW due \in Nat
  PROVE  /\ [o EXCEPT !.at = "armed", !.due = due] \in OpType
         /\ [o EXCEPT !.at = "armed", !.due = due].at = "armed"
         /\ [o EXCEPT !.at = "armed", !.due = due].due = due
         /\ [o EXCEPT !.at = "armed", !.due = due].user = o.user
  BY DEF OpType

\* A timer without an operation.
LEMMA TimerCleared ==
  ASSUME NEW t \in TimerType
  PROVE  /\ [t EXCEPT !.timeout = 0] \in TimerType
         /\ [t EXCEPT !.timeout = 0].timeout = 0
         /\ [t EXCEPT !.timeout = 0].time = t.time
         /\ [t EXCEPT !.timeout = 0].tv = t.tv
         /\ [t EXCEPT !.timeout = 0].delay = t.delay
  BY DEF TimerType

\* A timer for another time.
LEMMA TimerMoved ==
  ASSUME NEW t \in TimerType, NEW x \in Nat
  PROVE  /\ [t EXCEPT !.time = x] \in TimerType
         /\ [t EXCEPT !.time = x].time = x
         /\ [t EXCEPT !.time = x].delay = t.delay
  BY DEF TimerType

\* The initial state satisfies the invariant.
LEMMA InitInv == Init => Inv
  BY TimeoutAssumption
  DEF Init, Inv, TypeOK, Times, OneOperation, ArmedForItsTime, NeverEarly, OnSchedule, Prepared

\* reactor_cancel() in timeout_clear() leaves no operation that calls back.
LEMMA CancelledFacts ==
  ASSUME Inv
  PROVE  /\ Cancelled \in Seq(OpType)
         /\ Len(Cancelled) = Len(ops)
         /\ \A n \in DOMAIN Cancelled : ~ (Cancelled[n].user /\ Cancelled[n].at # "ended")
  <1>1. ops \in Seq(OpType) /\ timeout.timeout \in 0 .. Len(ops)
    BY DEF Inv, TypeOK, OpType, TimerType
  <1>2. \A n \in DOMAIN ops : n # timeout.timeout => ~ (ops[n].user /\ ops[n].at # "ended")
    BY DEF Inv, OneOperation
  <1>3. CASE timeout.timeout = 0
    BY <1>1, <1>2, <1>3 DEF Cancelled
  <1>4. CASE timeout.timeout # 0
    <2>1. timeout.timeout \in DOMAIN ops
      BY <1>1, <1>4
    <2> DEFINE o == [ops[timeout.timeout] EXCEPT !.user = FALSE]
    <2>2. Cancelled = [ops EXCEPT ![timeout.timeout] = o]
      BY <1>4 DEF Cancelled
    <2>3. ops[timeout.timeout] \in OpType
      BY <1>1, <2>1
    <2>4. o \in OpType /\ ~ o.user
      BY <2>3, OpCancelled
    <2> HIDE DEF o
    <2>5. /\ Cancelled \in Seq(OpType) /\ Len(Cancelled) = Len(ops)
          /\ Cancelled[timeout.timeout] = o
          /\ \A m \in DOMAIN ops : m # timeout.timeout => Cancelled[m] = ops[m]
      BY <1>1, <2>1, <2>2, <2>4, ReplaceFacts
    <2> QED BY <1>1, <1>2, <2>4, <2>5
  <1> QED BY <1>3, <1>4

\* A timer that is submitted when no operation calls back gets one that does.
LEMMA SubmitInv ==
  ASSUME NEW t \in TimerType,
         NEW told \in Seq(OpType),
         \A n \in DOMAIN told : ~ (told[n].user /\ told[n].at # "ended"),
         Submit(t, told)
  PROVE  /\ timeout' \in TimerType /\ timeout'.timeout \in 0 .. Len(ops')
         /\ ops' \in Seq(OpType)
         /\ OneOperation'
         /\ ArmedForItsTime'
         /\ \A n \in DOMAIN ops' : ops'[n].user =>
              /\ ops'[n].at = "sq" => timeout'.tv = timeout'.time
              /\ ops'[n].at # "cq"
         /\ timeout'.time = t.time /\ timeout'.delay = t.delay /\ timeout'.timeout # 0
  <1>1. Operation \in OpType /\ Operation.user /\ Operation.at = "sq"
    BY DEF Operation, OpType
  <1>2. /\ ops' = Append(told, Operation)
        /\ timeout' = [t EXCEPT !.tv = t.time, !.timeout = Len(told) + 1]
    BY DEF Submit
  <1>3. /\ ops' \in Seq(OpType)
        /\ Len(ops') = Len(told) + 1
        /\ ops'[Len(told) + 1] = Operation
        /\ \A n \in 1 .. Len(told) : ops'[n] = told[n]
    BY <1>1, <1>2
  <1>4. /\ timeout' \in TimerType /\ timeout'.timeout \in 0 .. Len(ops')
        /\ timeout'.time = t.time /\ timeout'.tv = t.time /\ timeout'.delay = t.delay
        /\ timeout'.timeout = Len(told) + 1
    <2>1. Len(told) + 1 \in Nat /\ t.time \in Nat
      BY DEF TimerType
    <2> DEFINE x == t.time
               y == Len(told) + 1
               r == [t EXCEPT !.tv = x, !.timeout = y]
    <2>2. timeout' = r
      BY <1>2
    <2>3. r \in TimerType /\ r.time = t.time /\ r.tv = x /\ r.timeout = y /\ r.delay = t.delay
      <3> HIDE DEF x, y
      <3>1. x \in Nat /\ y \in Nat
        BY <2>1 DEF x, y
      <3> QED BY <3>1 DEF TimerType
    <2> QED BY <1>3, <2>1, <2>2, <2>3
  <1>5. OneOperation'
    BY <1>1, <1>3, <1>4 DEF OneOperation
  <1>6. ArmedForItsTime'
    BY <1>1, <1>3, <1>4 DEF ArmedForItsTime
  <1> QED BY <1>1, <1>3, <1>4, <1>5, <1>6

\* timeout_set() preserves the invariant: it leaves one operation, the new one.
LEMMA SetInv ==
  ASSUME Inv, NEW time \in Times, NEW delay \in Delays, Set(time, delay)
  PROVE  Inv'
  <1> DEFINE t == [timeout EXCEPT !.time = time, !.delay = delay]
  <1>1. time \in Nat /\ delay \in Nat
    BY TimeoutAssumption DEF Times
  <1>2. t \in TimerType /\ t.time = time /\ t.delay = delay
    <2>1. timeout \in TimerType
      BY DEF Inv, TypeOK, TimerType
    <2> HIDE DEF t
    <2>2. t = [timeout EXCEPT !.time = time, !.delay = delay]
      BY DEF t
    <2> QED BY <1>1, <2>1, <2>2 DEF TimerType
  <1>3. Submit(t, Cancelled)
    BY DEF Set
  <1> HIDE DEF t
  <1>4. /\ timeout' \in TimerType /\ timeout'.timeout \in 0 .. Len(ops')
        /\ ops' \in Seq(OpType)
        /\ OneOperation'
        /\ ArmedForItsTime'
        /\ \A n \in DOMAIN ops' : ops'[n].user =>
             /\ ops'[n].at = "sq" => timeout'.tv = timeout'.time
             /\ ops'[n].at # "cq"
        /\ timeout'.time = time /\ timeout'.delay = delay
    BY <1>2, <1>3, SubmitInv, CancelledFacts
  <1>5. /\ alerts' = <<>>
        /\ set' = [n |-> set.n + 1, time |-> time, delay |-> delay, active |-> TRUE]
        /\ clock' = clock /\ running' = running /\ set.n < MaxSets
    BY DEF Set
  <1>6. TypeOK'
    BY SMTT(60), <1>1, <1>4, <1>5, TimeoutAssumption DEF Inv, TypeOK, OpType, TimerType
  <1>7. Prepared'
    BY <1>1, <1>4, <1>5 DEF Prepared
  <1>8. NeverEarly' /\ OnSchedule'
    BY <1>5 DEF Inv, NeverEarly, OnSchedule
  <1> QED BY <1>4, <1>6, <1>7, <1>8 DEF Inv

\* timeout_clear() preserves the invariant: it leaves none.
LEMMA ClearInv ==
  ASSUME Inv, Clear
  PROVE  Inv'
  <1>1. /\ ops' = Cancelled
        /\ timeout' = [timeout EXCEPT !.timeout = 0]
        /\ set' = [set EXCEPT !.active = FALSE]
        /\ clock' = clock /\ running' = running /\ alerts' = alerts
    BY DEF Clear
  <1>2. /\ timeout'.timeout = 0
        /\ timeout' \in TimerType /\ timeout'.timeout \in 0 .. Len(ops')
        /\ set' \in [n : 0 .. MaxSets, time : Nat, delay : Nat, active : BOOLEAN]
        /\ set'.time = set.time /\ set'.delay = set.delay
        /\ timeout'.time = timeout.time /\ timeout'.tv = timeout.tv
    <2>1. timeout \in TimerType /\ set \in [n : 0 .. MaxSets, time : Nat, delay : Nat, active : BOOLEAN]
      BY DEF Inv, TypeOK, TimerType
    <2>2. 0 \in 0 .. Len(ops')
      BY <1>1, CancelledFacts
    <2> QED BY <1>1, <2>1, <2>2, TimerCleared
  <1>3. TypeOK'
    BY <1>1, <1>2, CancelledFacts DEF Inv, TypeOK, OpType, TimerType
  <1>4. OneOperation'
    BY <1>1, <1>2, CancelledFacts DEF OneOperation
  <1>5. ArmedForItsTime'
    BY <1>1, CancelledFacts DEF ArmedForItsTime
  <1>6. Prepared'
    BY <1>1, <1>2, CancelledFacts DEF Prepared
  <1>7. NeverEarly' /\ OnSchedule'
    BY <1>1, <1>2 DEF Inv, NeverEarly, OnSchedule
  <1> QED BY <1>3, <1>4, <1>5, <1>6, <1>7 DEF Inv

\* What the operation that calls back knows.
LEMMA AlertFacts ==
  ASSUME Inv, NEW n \in DOMAIN ops, ops[n].at = "cq", ops[n].user
  PROVE  /\ timeout.timeout = n
         /\ timeout.time <= clock
         /\ set.active
         /\ timeout.delay = set.delay
         /\ timeout.time = set.time + Len(alerts) * set.delay
  <1>1. timeout.timeout = n
    BY DEF Inv, OneOperation
  <1>2. ops[n].due = timeout.time /\ ops[n].due <= clock
    BY DEF Inv, ArmedForItsTime, Prepared
  <1>3. n # 0
    BY DEF Inv, TypeOK
  <1> QED BY <1>1, <1>2, <1>3 DEF Inv, Prepared

\* timeout_timeout() preserves the invariant: the operation that ended is the
\* last one, or is followed by one for the next time.
LEMMA AlertInv ==
  ASSUME Inv, NEW n \in DOMAIN ops, Alert(n)
  PROVE  Inv'
  <1> DEFINE told == [ops EXCEPT ![n].at = "ended"]
             t == [timeout EXCEPT !.time = @ + timeout.delay]
  <1>1. /\ running' = <<timeout.time>>
        /\ alerts' = Append(alerts, timeout.time)
        /\ clock' = clock /\ set' = set
        /\ ops[n].at = "cq" /\ ops[n].user
        /\ IF timeout.delay > 0
             THEN Submit(t, told)
             ELSE ops' = told /\ timeout' = [timeout EXCEPT !.timeout = 0]
    BY DEF Alert
  <1>2. /\ timeout \in TimerType /\ timeout.timeout \in 0 .. Len(ops)
        /\ ops \in Seq(OpType)
        /\ alerts \in Seq(Nat)
        /\ set.time \in Nat /\ set.delay \in Nat
    BY DEF Inv, TypeOK, OpType, TimerType
  <1>3. /\ timeout.timeout = n
        /\ timeout.time <= clock
        /\ set.active
        /\ timeout.delay = set.delay
        /\ timeout.time = set.time + Len(alerts) * set.delay
    BY <1>1, AlertFacts
  <1>4. /\ told \in Seq(OpType)
        /\ Len(told) = Len(ops)
        /\ \A m \in DOMAIN told : ~ (told[m].user /\ told[m].at # "ended")
    <2> DEFINE o == [ops[n] EXCEPT !.at = "ended"]
    <2>1. o \in OpType /\ o.at = "ended"
      <3>1. ops[n] \in OpType
        BY <1>2
      <3> QED BY <3>1, OpMoved
    <2>2. told = [ops EXCEPT ![n] = o]
      OBVIOUS
    <2> HIDE DEF o, told
    <2>3. /\ told \in Seq(OpType) /\ Len(told) = Len(ops)
          /\ told[n] = o
          /\ \A m \in DOMAIN ops : m # n => told[m] = ops[m]
      BY <1>2, <2>1, <2>2, ReplaceFacts
    <2>4. \A m \in DOMAIN ops : m # n => ~ (ops[m].user /\ ops[m].at # "ended")
      BY <1>3 DEF Inv, OneOperation
    <2> QED BY <2>1, <2>2, <2>3, <2>4, <1>2
  <1>5. NeverEarly'
    BY <1>1, <1>2, <1>3 DEF NeverEarly
  <1>6. OnSchedule'
    <2>1. SUFFICES ASSUME NEW i \in DOMAIN alerts'
                   PROVE  alerts'[i] = set.time + (i - 1) * set.delay
      BY <1>1 DEF OnSchedule
    <2>2. CASE i = Len(alerts) + 1
      BY <1>1, <1>2, <1>3, <2>2
    <2>3. CASE i # Len(alerts) + 1
      <3>1. i \in DOMAIN alerts /\ alerts'[i] = alerts[i]
        BY <1>1, <1>2, <2>1, <2>3
      <3> QED BY <3>1 DEF Inv, OnSchedule
    <2> QED BY <2>2, <2>3
  <1>7. alerts' \in Seq(Nat) /\ Len(alerts') = Len(alerts) + 1 /\ running' \in Seq(Nat) /\ Len(running') = 1
    <2>1. timeout.time \in Nat
      BY <1>2 DEF TimerType
    <2> QED BY <1>1, <1>2, <2>1
  <1>8. CASE timeout.delay > 0
    <2>1. t \in TimerType
          /\ t.time = timeout.time + timeout.delay /\ t.delay = timeout.delay
      <3>1. timeout.time + timeout.delay \in Nat
        BY <1>2 DEF TimerType
      <3> QED BY <1>2, <3>1, TimerMoved
    <2>2. Submit(t, told)
      BY <1>1, <1>8
    <2> HIDE DEF t, told
    <2>3. /\ timeout' \in TimerType /\ timeout'.timeout \in 0 .. Len(ops')
          /\ ops' \in Seq(OpType)
          /\ OneOperation'
          /\ ArmedForItsTime'
          /\ \A m \in DOMAIN ops' : ops'[m].user =>
               /\ ops'[m].at = "sq" => timeout'.tv = timeout'.time
               /\ ops'[m].at # "cq"
          /\ timeout'.time = timeout.time + timeout.delay /\ timeout'.delay = timeout.delay
      BY <1>4, <2>1, <2>2, SubmitInv
    <2>4. timeout'.time = set.time + Len(alerts') * set.delay
      <3>1. timeout'.time = set.time + Len(alerts) * set.delay + set.delay
        BY <1>2, <1>3, <2>3
      <3>2. Len(alerts) \in Nat
        BY <1>2
      <3> DEFINE a == Len(alerts)
                 d == set.delay
      <3>3. a \in Nat /\ d \in Nat
        BY <1>2, <3>2
      <3> HIDE DEF a, d
      <3>4. (a + 1) * d = a * d + d
        BY <3>3, SMT
      <3> QED BY <1>2, <1>7, <3>1, <3>3, <3>4, SMTT(60) DEF a, d
    <2>5. Prepared'
      BY <1>1, <1>3, <2>3, <2>4 DEF Prepared
    <2>6. TypeOK'
      BY <1>1, <1>7, <2>3 DEF Inv, TypeOK, OpType, TimerType
    <2> QED BY <1>5, <1>6, <2>3, <2>5, <2>6 DEF Inv
  <1>9. CASE ~ (timeout.delay > 0)
    <2>1. /\ ops' = told
          /\ timeout' = [timeout EXCEPT !.timeout = 0]
      BY <1>1, <1>9
    <2>2. timeout' \in TimerType /\ timeout'.timeout \in 0 .. Len(ops')
          /\ timeout'.timeout = 0
      <3>1. 0 \in 0 .. Len(ops')
        BY <1>2, <1>4, <2>1
      <3> QED BY <1>2, <2>1, <3>1, TimerCleared
    <2> HIDE DEF told
    <2>3. OneOperation' /\ ArmedForItsTime'
      BY <1>4, <2>1, <2>2 DEF OneOperation, ArmedForItsTime
    <2>4. Prepared'
      BY <1>1, <1>4, <2>1, <2>2 DEF Prepared
    <2>5. TypeOK'
      <3>1. ops' \in Seq(OpType) /\ clock' = clock /\ set' = set
        BY <1>1, <1>4, <2>1
      <3>2. clock \in Times /\ set \in [n : 0 .. MaxSets, time : Nat, delay : Nat, active : BOOLEAN]
        BY DEF Inv, TypeOK
      <3> QED BY <1>7, <2>2, <3>1, <3>2 DEF TypeOK, OpType, TimerType
    <2> QED BY <1>5, <1>6, <2>3, <2>4, <2>5 DEF Inv
  <1> QED BY <1>8, <1>9

\* The loop and the kernel move one operation on.
LEMMA OtherInv ==
  ASSUME Inv,
         Return \/ Tick \/ UNCHANGED vars
         \/ \E n \in DOMAIN ops : Take(n) \/ Expire(n) \/ EndCancelled(n)
  PROVE  Inv'
  <1>1. /\ timeout \in TimerType /\ timeout.timeout \in 0 .. Len(ops)
        /\ ops \in Seq(OpType)
        /\ clock \in Nat
    BY TimeoutAssumption DEF Inv, TypeOK, OpType, TimerType, Times
  <1>2. CASE Return
    BY <1>2 DEF Return, Inv, TypeOK, OneOperation, ArmedForItsTime, NeverEarly, OnSchedule, Prepared
  <1>3. CASE UNCHANGED vars
    BY <1>3 DEF vars, Inv, TypeOK, OneOperation, ArmedForItsTime, NeverEarly, OnSchedule, Prepared
  <1>4. CASE Tick
    <2>1. clock' = clock + 1 /\ clock' \in Times
      BY <1>4, <1>1, TimeoutAssumption DEF Tick, Inv, TypeOK, Times
    <2>2. NeverEarly'
      BY <1>1, <1>4, <2>1, SMTT(60) DEF Tick, Inv, TypeOK, NeverEarly
    <2>3. Prepared'
      <3>1. \A n \in DOMAIN ops : ops[n].due \in Nat
        <4>1. \A n \in DOMAIN ops : ops[n] \in OpType
          BY <1>1
        <4> QED BY <4>1 DEF OpType
      <3> QED BY <1>1, <1>4, <2>1, <3>1 DEF Tick, Inv, Prepared
    <2> QED
      BY <1>4, <2>1, <2>2, <2>3 DEF Tick, Inv, TypeOK, OneOperation, ArmedForItsTime, OnSchedule
  <1>5. ASSUME NEW n \in DOMAIN ops, Take(n) \/ Expire(n) \/ EndCancelled(n)
        PROVE  Inv'
    <2>1. clock' = clock /\ timeout' = timeout /\ running' = running /\ alerts' = alerts /\ set' = set
      BY <1>5 DEF Take, Expire, EndCancelled
    <2> DEFINE o == IF Take(n) THEN [ops[n] EXCEPT !.at = "armed", !.due = timeout.tv]
                     ELSE IF Expire(n) THEN [ops[n] EXCEPT !.at = "cq"]
                     ELSE [ops[n] EXCEPT !.at = "ended"]
    <2>a. ops[n] \in OpType /\ timeout.tv \in Nat
      BY <1>1 DEF TimerType
    <2>b. ops' = [ops EXCEPT ![n] = o]
      BY <1>5 DEF Take, Expire, EndCancelled
    <2>c. o \in OpType /\ o.user = ops[n].user
      BY ZenonT(60), <2>a, OpMoved, OpTaken
    <2>d. \/ ops[n].at = "sq" /\ o.at = "armed" /\ o.due = timeout.tv
          \/ ops[n].at = "armed" /\ o.at = "cq" /\ o.due = ops[n].due /\ ops[n].due <= clock
          \/ ~ ops[n].user
      <3>1. CASE Take(n)
        BY <2>a, <3>1, OpTaken DEF Take
      <3>2. CASE ~ Take(n) /\ Expire(n)
        BY <2>a, <3>2, OpMoved DEF Expire
      <3>3. CASE EndCancelled(n)
        BY <3>3 DEF EndCancelled
      <3> QED BY <1>5, <3>1, <3>2, <3>3
    <2> HIDE DEF o
    <2>2. /\ ops' \in Seq(OpType) /\ Len(ops') = Len(ops)
          /\ \A m \in DOMAIN ops : m # n => ops'[m] = ops[m]
          /\ ops'[n] = o
          /\ ops'[n].user = ops[n].user
      BY <1>1, <2>b, <2>c, ReplaceFacts
    <2>3. \/ ops[n].at = "sq" /\ ops'[n].at = "armed" /\ ops'[n].due = timeout.tv
          \/ ops[n].at = "armed" /\ ops'[n].at = "cq" /\ ops'[n].due = ops[n].due /\ ops[n].due <= clock
          \/ ~ ops[n].user
      BY <2>2, <2>d
    <2>4. TypeOK'
      BY <2>1, <2>2 DEF Inv, TypeOK, OpType, TimerType
    <2>5. OneOperation'
      BY <2>1, <2>2, <2>3, <1>1 DEF Inv, OneOperation
    <2>6. ArmedForItsTime'
      BY <2>1, <2>2, <2>3, <1>1 DEF Inv, ArmedForItsTime, Prepared
    <2>7. Prepared'
      BY <2>1, <2>2, <2>3, <1>1 DEF Inv, Prepared
    <2>8. NeverEarly' /\ OnSchedule'
      BY <2>1 DEF Inv, NeverEarly, OnSchedule
    <2> QED BY <2>4, <2>5, <2>6, <2>7, <2>8 DEF Inv
  <1> QED BY <1>2, <1>3, <1>4, <1>5

\* The inductive invariant holds in every reachable state.
THEOREM TimeoutInvariance == Spec => []Inv
  <1>1. Init => Inv
    BY InitInv
  <1>2. Inv /\ [Next]_vars => Inv'
    BY SetInv, ClearInv, AlertInv, OtherInv DEF Next
  <1> QED BY <1>1, <1>2, PTL DEF Spec

\* timeout->timeout is the only operation of the timer that can call back.
THEOREM OneOperationAlways == Spec => []OneOperation
  <1>1. Inv => OneOperation
    BY DEF Inv
  <1> QED BY <1>1, TimeoutInvariance, PTL

\* No alert comes before its time, although the kernel reads the timespec
\* after timeout_submit() has returned.
THEOREM NeverEarlyAlways == Spec => []NeverEarly
  <1>1. Inv => NeverEarly
    BY DEF Inv
  <1> QED BY <1>1, TimeoutInvariance, PTL

\* A periodic timer neither skips nor repeats a time, however late it runs.
THEOREM OnScheduleAlways == Spec => []OnSchedule
  <1>1. Inv => OnSchedule
    BY DEF Inv
  <1> QED BY <1>1, TimeoutInvariance, PTL

\* timeout_clear() silences the timer.
THEOREM ClearSilences == Spec => SilentAfterClear
  <1>1. Inv /\ [Next]_vars =>
          [~ set.active => alerts' = alerts \/ alerts' = <<>>]_vars
    <2> SUFFICES ASSUME Inv, [Next]_vars, ~ set.active
                 PROVE  alerts' = alerts \/ alerts' = <<>>
      OBVIOUS
    <2>1. ASSUME NEW n \in DOMAIN ops, Alert(n) PROVE FALSE
      BY <2>1, AlertFacts DEF Alert
    <2> QED BY <2>1 DEF Next, vars, Set, Clear, Return, Tick, Take, Expire, EndCancelled
  <1> QED BY <1>1, TimeoutInvariance, PTL DEF Spec, SilentAfterClear
=============================================================================

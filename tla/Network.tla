------------------------------ MODULE Network ------------------------------
(***************************************************************************)
(* network.c, on reactor_async(): tasks that resolve a name, listen on an  *)
(* address or connect to one.  Names are looked up by threads, at most one *)
(* per name, and the answers are kept in a cache for some time.  Listening *)
(* and connecting start with a resolve task of their own.  Clients are     *)
(* called in the middle of functions that go on afterwards; the stack has  *)
(* what those still have to do, and the client may make other calls        *)
(* meanwhile.                                                              *)
(*                                                                         *)
(* Task ids are not reused here, so a use of a freed task can be seen.     *)
(***************************************************************************)
EXTENDS Integers, Sequences, FiniteSets

CONSTANTS Numeric,      \* hosts that are numeric addresses
          Names,        \* hosts that have to be looked up
          MaxTasks,     \* bound: tasks ever created
          Expiration,   \* network.cache_expiration
          MaxTime       \* bound: the clock

ASSUME NetworkAssumption ==
  MaxTasks \in Nat /\ Expiration \in Nat /\ MaxTime \in Nat /\ Numeric \cap Names = {}

VARIABLES
  count,   \* number of tasks created
  task,    \* the tasks, and what their clients were told
  queue,   \* resolve tasks with a call scheduled by reactor_next(), once each
  cache,   \* network.cache, and the thread of each name
  now,     \* reactor_now()
  stack    \* what is still to be done, first what was called last

vars == <<count, task, queue, cache, now, stack>>

Ids == 1 .. MaxTasks
Hosts == Numeric \cup Names

\* A task as network_task() makes it.  The owner of a resolve task is the task
\* that it resolves for, or 0 if a client called network_resolve().  op is an
\* accept or a connect in flight.  told is history: how the task ended for its
\* client, if it did; so are the values "given" and "closed" of fd.
NewTask(type, host, owner) ==
  [type |-> type, host |-> host, owner |-> owner, live |-> TRUE, resolve |-> 0,
   fd |-> "none", op |-> FALSE, told |-> "nothing"]

NoTask == [NewTask("none", "none", 0) EXCEPT !.live = FALSE]

\* An entry of the cache; found and at are history: the result of the last
\* lookup and the time of its report; lost says that the reactor thread has freed a result
\* that the lookup had stored and not yet reported.
NewCache == [ai |-> FALSE, expire |-> 0, async |-> "none", requests |-> <<>>,
             found |-> FALSE, at |-> 0, lost |-> FALSE]

Init ==
  /\ count = 0
  /\ task = [t \in Ids |-> NoTask]
  /\ queue = {}
  /\ cache = [h \in Names |-> NewCache]
  /\ now = 0
  /\ stack = <<>>

\* Frames of the stack.
Client(t) == [do |-> "client", task |-> t]
Done(t) == [do |-> "done", task |-> t]
Cancelling(t) == [do |-> "cancel", task |-> t]

\* After the callback network_connect_task_callback() goes on.
Connected(t) == [do |-> "connected", task |-> t]
Deliver(users, ai, c) ==
  [do |-> "deliver", users |-> users, ai |-> ai, found |-> c.found, at |-> c.at, lost |-> c.lost]

Idle == stack = <<>>
Running(what) == ~ Idle /\ Head(stack).do = what

\* Client code runs: in a callback, or where nothing of the library runs.
ClientRuns == Idle \/ Running("client")

Among(t, users) == \E i \in DOMAIN users : users[i] = t

\* The answer to the request of t is among the frames s.
Answering(s, t) == \E i \in DOMAIN s : s[i].do = "deliver" /\ Among(t, s[i].users)

\* A function in the frames s goes on after a callback and then releases t.
EndsBy(s, do, t) == \E i \in DOMAIN s : s[i].do = do /\ s[i].task = t

\* The request of t is in the cache, waiting for the thread of a name or for
\* its turn when the thread has ended.  Client's resolves wait themselves,
\* otherwise it is the task that owns the resolve task.
Waiting(t) ==
  \/ \E h \in Names : Among(t, cache[h].requests)
  \/ Answering(stack, t)

Endings == {"done", "cancel", "connected"}

-----------------------------------------------------------------------------
(* The end of tasks *)

\* A task of which nothing is left but history: its descriptor is closed
Gone(x) == [task[x] EXCEPT !.live = FALSE, !.op = FALSE, !.fd = IF @ = "open" THEN "closed" ELSE @]

\* Mutant of Released: the resolve task stays.
ReleasedAlone(t, told) ==
  /\ task' = [task EXCEPT ![t] = [Gone(t) EXCEPT !.told = told]]
  /\ queue' = queue \ {t}

\* network_resolve_task_done(), network_accept_task_done() and
\* network_connect_task_done(): also the task's resolve task, its scheduled
\* call, its descriptor and its operation
Released(t, told) ==
  LET gone == {t, task[t].resolve} IN
  /\ task' = [x \in Ids |-> IF x \in gone THEN [Gone(x) EXCEPT !.told = told] ELSE task[x]]
  /\ queue' = queue \ gone

\* network_cancel() by the client, of a task whose end it was not told.  The
\* code would follow a dangling pointer if the request waits for a thread.
Cancel(t) ==
  /\ ClientRuns
  /\ task[t].live /\ task[t].owner = 0 /\ task[t].told = "nothing" /\ ~ Waiting(t)
  /\ Released(t, "cancelled")
  /\ UNCHANGED <<count, cache, now, stack>>

\* network_error(): the frames that it puts on the stack
Error(t) == <<Client(t), Cancelling(t)>>

\* The functions that go on when a callback has returned: network_error(),
\* network_resolve_task_numeric(), network_resolve_task_next()
Unwind ==
  LET f == Head(stack) IN
  /\ Running("done") \/ Running("cancel")
  /\ Released(f.task, task[f.task].told)
  /\ stack' = Tail(stack)
  /\ UNCHANGED <<count, cache, now>>

\* The end of network_connect_task_callback(): the descriptor is the client's
UnwindConnected ==
  LET t == Head(stack).task IN
  /\ Running("connected")
  /\ task' = [task EXCEPT ![t] = [Gone(t) EXCEPT !.fd = "given"]]
  /\ stack' = Tail(stack)
  /\ UNCHANGED <<count, queue, cache, now>>

\* A callback of the client returns
Return ==
  /\ Running("client")
  /\ stack' = Tail(stack)
  /\ UNCHANGED <<count, task, queue, cache, now>>

-----------------------------------------------------------------------------
(* Listening and connecting *)

\* network_accept_task_socket(), network_connect_task_socket(): the socket is
\* refused, the address is refused, or an operation is started and the client
\* of a listening task is told.
Socket(tasks, t, rest) ==
  \/ /\ task' = [tasks EXCEPT ![t].told = "ended"]
     /\ stack' = Error(t) \o rest
  \/ /\ tasks[t].type = "accept"
     /\ task' = [tasks EXCEPT ![t].told = "ended", ![t].fd = "open"]
     /\ stack' = Error(t) \o rest
  \/ /\ task' = [tasks EXCEPT ![t].fd = "open", ![t].op = TRUE]
     /\ stack' = IF tasks[t].type = "accept" THEN <<Client(t)>> \o rest ELSE rest

\* network_accept(), network_connect(): with a resolve task of its own
Open(type, host) ==
  LET t == count + 1 IN
  /\ ClientRuns
  /\ count + 2 <= MaxTasks
  /\ count' = count + 2
  /\ task' = [task EXCEPT ![t] = [NewTask(type, host, 0) EXCEPT !.resolve = t + 1],
                          ![t + 1] = NewTask("resolve", host, t)]
  /\ queue' = queue \cup {t + 1}
  /\ UNCHANGED <<cache, now, stack>>

\* network_accept_address(), network_connect_address()
OpenAddress(type) ==
  LET t == count + 1 IN
  /\ ClientRuns
  /\ t <= MaxTasks
  /\ count' = t
  /\ Socket([task EXCEPT ![t] = NewTask(type, "none", 0)], t, stack)
  /\ UNCHANGED <<queue, cache, now>>

\* network_accept_socket()
OpenSocket ==
  LET t == count + 1 IN
  /\ ClientRuns
  /\ t <= MaxTasks
  /\ count' = t
  /\ task' = [task EXCEPT ![t] = [NewTask("accept", "none", 0) EXCEPT !.fd = "open", !.op = TRUE]]
  /\ UNCHANGED <<queue, cache, now, stack>>

\* network_accept_task_callback(): a connection, and the next accept, or an error
Accepted(t, ok) ==
  /\ Idle
  /\ task[t].type = "accept" /\ task[t].op
  /\ task' = [task EXCEPT ![t].op = ok, ![t].told = IF ok THEN @ ELSE "ended"]
  /\ stack' = IF ok THEN <<Client(t)>> ELSE Error(t)
  /\ UNCHANGED <<count, queue, cache, now>>

\* network_connect_task_callback(): the client gets the descriptor, or an error
ConnectEnds(t, ok) ==
  /\ Idle
  /\ task[t].type = "connect" /\ task[t].op
  /\ task' = [task EXCEPT ![t].op = FALSE, ![t].told = IF ok THEN "connected" ELSE "ended"]
  /\ stack' = IF ok THEN <<Client(t), Connected(t)>> ELSE Error(t)
  /\ UNCHANGED <<count, queue, cache, now>>

-----------------------------------------------------------------------------
(* Resolving *)

\* network_resolve()
Resolve(host) ==
  LET t == count + 1 IN
  /\ ClientRuns
  /\ t <= MaxTasks
  /\ count' = t
  /\ task' = [task EXCEPT ![t] = NewTask("resolve", host, 0)]
  /\ queue' = queue \cup {t}
  /\ UNCHANGED <<cache, now, stack>>

\* The user of a resolve task: the callback is the client's, or that of the
\* task it resolves for
User(t) == IF task[t].owner = 0 THEN t ELSE task[t].owner

\* The loop makes the scheduled calls in order: that of the oldest task is next.
Called(t) == Idle /\ \A u \in queue : t <= u

\* network_resolve_task_next(), network_resolve_task_numeric(): a numeric address
NextNumeric(t, ai) ==
  /\ Called(t)
  /\ task[t].host \in Numeric
  /\ queue' = queue \ {t}
  /\ stack' = <<Deliver(<<User(t)>>, ai, [NewCache EXCEPT !.found = ai, !.at = now]), Done(t)>>
  /\ UNCHANGED <<count, task, cache, now>>

\* Mutant of Fresh: answers do not expire.
FreshEver(c) == c.ai

\* The cache has an answer that has not expired
Fresh(c) == c.ai /\ now < c.expire

\* network_resolve_task_next(): the cache has the answer
NextCached(t) ==
  LET c == cache[task[t].host] IN
  /\ Called(t)
  /\ task[t].host \in Names
  /\ Fresh(c)
  /\ queue' = queue \ {t}
  /\ stack' = <<Deliver(<<User(t)>>, TRUE, c), Done(t)>>
  /\ UNCHANGED <<count, task, cache, now>>

\* Mutant of Requested: a request that finds a thread at work does not wait.
RequestedIfIdle(c, user) ==
  [c EXCEPT !.requests = IF c.async = "none" THEN Append(@, user) ELSE @,
            !.async = IF @ = "none" THEN "running" ELSE @]

\* The entry of a name once a request waits for its thread, which is started if
\* there is none.  What is in the cache is freed first, and so is a result that
\* the thread has stored and not yet reported.
Requested(c, user) ==
  [c EXCEPT !.ai = FALSE,
            !.expire = IF c.ai THEN 0 ELSE @,
            !.requests = Append(@, user),
            !.async = IF @ = "none" THEN "running" ELSE @,
            !.lost = @ \/ (c.ai /\ c.async = "looked")]

\* network_resolve_task_next(): the name has to be looked up
NextLookup(t) ==
  LET h == task[t].host IN
  /\ Called(t)
  /\ h \in Names
  /\ ~ Fresh(cache[h])
  /\ queue' = queue \ {t}
  /\ cache' = [cache EXCEPT ![h] = Requested(@, User(t))]
  /\ task' = [task EXCEPT ![t].live = FALSE]
  /\ UNCHANGED <<count, now, stack>>

\* network_resolve_task_async() in the thread, called by reactor_async_call()
Lookup(h, ai) ==
  /\ cache[h].async = "running"
  /\ cache' = [cache EXCEPT ![h].async = "looked", ![h].ai = ai, ![h].found = ai]
  /\ UNCHANGED <<count, task, queue, now, stack>>

\* Mutant of Reported: the requests are not cleared.
ReportedKeeps(c) == [c EXCEPT !.async = "none", !.expire = now + Expiration, !.at = now]

\* The entry of a name once its thread has ended
Reported(c) ==
  [c EXCEPT !.async = "none", !.expire = now + Expiration, !.requests = <<>>, !.at = now,
            !.lost = FALSE]

\* reactor_async_return(), network_resolve_task_async(): the thread has ended
LookupReturn(h) ==
  LET c == cache[h] IN
  /\ Idle
  /\ c.async = "looked"
  /\ cache' = [cache EXCEPT ![h] = Reported(c)]
  /\ stack' = <<Deliver(c.requests, c.ai, [c EXCEPT !.at = now])>>
  /\ UNCHANGED <<count, task, queue, now>>

\* The next user of an answer is called: a client, or network_accept_resolve()
\* or network_connect_resolve()
Answer ==
  LET f == Head(stack)
      u == Head(f.users)
      rest == (IF Len(f.users) = 1 THEN <<>> ELSE <<[f EXCEPT !.users = Tail(@)]>>) \o Tail(stack)
      tasks == [task EXCEPT ![u].resolve = 0] IN
  /\ Running("deliver")
  /\ \/ /\ task[u].type = "resolve"
        /\ task' = [task EXCEPT ![u].told = "ended"]
        /\ stack' = <<Client(u)>> \o rest
     \/ /\ task[u].type # "resolve" /\ ~ f.ai
        /\ task' = [tasks EXCEPT ![u].told = "ended"]
        /\ stack' = Error(u) \o rest
     \/ /\ task[u].type # "resolve" /\ f.ai
        /\ Socket(tasks, u, rest)
  /\ UNCHANGED <<count, queue, cache, now>>

Tick ==
  /\ Idle
  /\ now < MaxTime
  /\ now' = now + 1
  /\ UNCHANGED <<count, task, queue, cache, stack>>

-----------------------------------------------------------------------------
Next ==
  \/ Unwind \/ UnwindConnected \/ Return \/ OpenSocket \/ Answer \/ Tick
  \/ \E t \in queue : NextCached(t) \/ NextLookup(t) \/ \E ai \in BOOLEAN : NextNumeric(t, ai)
  \/ \E type \in {"accept", "connect"} : OpenAddress(type) \/ \E h \in Hosts : Open(type, h)
  \/ \E h \in Hosts : Resolve(h)
  \/ \E t \in Ids : Cancel(t) \/ \E ok \in BOOLEAN : Accepted(t, ok) \/ ConnectEnds(t, ok)
  \/ \E h \in Names : LookupReturn(h) \/ \E ai \in BOOLEAN : Lookup(h, ai)

Spec == Init /\ [][Next]_vars

\* Threads end, callbacks return, and the loop comes to every scheduled call
\* and to every completion although others are always there: it makes the
\* scheduled calls first in each round and takes completions in order.
FairSpec ==
  /\ Spec
  /\ WF_vars(Unwind) /\ WF_vars(UnwindConnected) /\ WF_vars(Return) /\ WF_vars(Answer)
  /\ SF_vars(\E t \in queue : \/ NextCached(t) \/ NextLookup(t)
                             \/ \E ai \in BOOLEAN : NextNumeric(t, ai))
  /\ \A h \in Names :
       WF_vars(\E ai \in BOOLEAN : Lookup(h, ai)) /\ SF_vars(LookupReturn(h))

-----------------------------------------------------------------------------
(* The inductive invariant *)

TaskType ==
  [type : {"none", "resolve", "accept", "connect"}, host : Hosts \cup {"none"}, owner : Nat,
   live : BOOLEAN, resolve : Nat, fd : {"none", "open", "closed", "given"}, op : BOOLEAN,
   told : {"nothing", "ended", "cancelled", "connected"}]

CacheType ==
  [ai : BOOLEAN, expire : Nat, async : {"none", "running", "looked"}, requests : Seq(Ids),
   found : BOOLEAN, at : Nat, lost : BOOLEAN]

Frames ==
  [do : Endings \cup {"client"}, task : Ids]
    \cup [do : {"deliver"}, users : Seq(Ids), ai : BOOLEAN, found : BOOLEAN, at : Nat, lost : BOOLEAN]

TypeOK ==
  /\ count \in 0 .. MaxTasks
  /\ task \in [Ids -> TaskType]
  /\ queue \subseteq Ids
  /\ cache \in [Names -> CacheType]
  /\ now \in Nat
  /\ stack \in Seq(Frames)

\* No task is twice in a list of users.
Distinct(users) == \A i, j \in DOMAIN users : users[i] = users[j] => i = j

\* A task is released by one of the frames s, and one answer is passed on at a time.
Orderly(s) ==
  /\ \A i, j \in DOMAIN s :
       s[i].do \in Endings /\ s[j].do \in Endings /\ s[i].task = s[j].task => i = j
  /\ \A i, j \in DOMAIN s : s[i].do = "deliver" /\ s[j].do = "deliver" => i = j
  /\ \A i \in DOMAIN s : s[i].do = "deliver" => s[i].users # <<>> /\ Distinct(s[i].users)

\* A request is in one place.
Requests ==
  \A h \in Names :
    /\ Distinct(cache[h].requests)
    /\ cache[h].async = "none" <=> cache[h].requests = <<>>
    /\ \A t \in Ids : Among(t, cache[h].requests) =>
         /\ ~ Answering(stack, t)
         /\ \A g \in Names : Among(t, cache[g].requests) => g = h

\* What an entry of the cache says of the last lookup.
Entries ==
  \A h \in Names :
    /\ cache[h].ai => cache[h].found
    /\ cache[h].expire = 0 \/ cache[h].expire = cache[h].at + Expiration
    /\ cache[h].async = "looked" /\ ~ cache[h].ai => ~ cache[h].found \/ cache[h].lost

\* Where a resolve task t is: its call is scheduled, or is being made with the
\* address at hand, or the request waits without it.
Resolving(t) ==
  LET x == task[t] IN
  /\ ~ x.op /\ x.fd = "none" /\ x.resolve = 0 /\ x.told # "connected"
  /\ x.live <=> t \in queue \/ EndsBy(stack, "done", t)
  /\ ~ EndsBy(stack, "cancel", t) /\ ~ EndsBy(stack, "connected", t)
  /\ t \in queue => ~ EndsBy(stack, "done", t) /\ x.told = "nothing" /\ ~ Waiting(t)
  /\ Waiting(t) => x.owner = 0 /\ x.told = "nothing"
  /\ EndsBy(stack, "done", t) /\ x.owner = 0 /\ x.told = "nothing" => Waiting(t)
  /\ x.owner # 0 => x.owner \in Ids /\ task[x.owner].type \in {"accept", "connect"}
  /\ x.owner # 0 /\ t \in queue => task[x.owner].live /\ task[x.owner].resolve = t

\* Where a task t that listens or connects is: it waits for its resolve task, or
\* for its operation, or it ends.
Opening(t) ==
  LET x == task[t] IN
  /\ x.owner = 0 /\ t \notin queue /\ ~ EndsBy(stack, "done", t)
  /\ x.live => \/ x.resolve # 0 \/ x.op
               \/ EndsBy(stack, "cancel", t) \/ EndsBy(stack, "connected", t)
  /\ x.live /\ x.resolve # 0 =>
       /\ x.told = "nothing" /\ ~ x.op /\ x.fd = "none"
       /\ ~ EndsBy(stack, "cancel", t) /\ ~ EndsBy(stack, "connected", t)
       /\ x.resolve \in Ids /\ task[x.resolve].type = "resolve"
       /\ task[x.resolve].owner = t /\ task[x.resolve].told = "nothing"
       /\ x.resolve \in queue <=> ~ Waiting(t)
  /\ Waiting(t) => x.live /\ x.resolve # 0
  /\ x.op => /\ x.live /\ x.resolve = 0 /\ x.told = "nothing"
             /\ ~ EndsBy(stack, "cancel", t) /\ ~ EndsBy(stack, "connected", t)
  /\ EndsBy(stack, "cancel", t) => x.live /\ x.resolve = 0 /\ x.told = "ended"
  /\ EndsBy(stack, "connected", t) => x.live /\ x.resolve = 0 /\ x.told = "connected"
  /\ x.told = "connected" => IF x.live THEN EndsBy(stack, "connected", t) ELSE x.fd = "given"
  /\ x.fd = "given" => ~ x.live /\ x.told = "connected"
  /\ ~ x.live => x.fd # "open"

\* A task t that there is not, yet.
Unborn(t) ==
  /\ task[t] = NoTask /\ t \notin queue /\ ~ Waiting(t)
  /\ \A do \in Endings : ~ EndsBy(stack, do, t)

Fit(t) ==
  /\ task[t].type = "none" <=> t > count
  /\ task[t].type = "none" => Unborn(t)
  /\ task[t].type = "resolve" => Resolving(t)
  /\ task[t].type \in {"accept", "connect"} => Opening(t)

-----------------------------------------------------------------------------
(* Properties *)

\* A scheduled call, an operation or a function that goes on after a callback.
InUse(t) ==
  \/ t \in queue \/ task[t].op
  \/ \E do \in Endings : EndsBy(stack, do, t)

Referred(t) ==
  \/ Waiting(t) /\ task[t].type # "resolve"
  \/ \E u \in Ids : task[u].live /\ task[u].resolve = t /\ ~ Waiting(u)

\* A task is freed when nothing refers to it any more, and then it is: scheduled
\* calls, requests in the cache, operations in flight, functions that go on
\* after a callback, and the task that owns it.  The one exception is what
\* network_cancel() stumbles over: while a request waits for a thread its
\* resolve task is gone and the owner keeps the id.  A task that is kept will be
\* called by one of these, and when it is freed its descriptor has been closed,
\* or belongs to the client who was told of the connection.
FreedInTime ==
  \A t \in Ids :
    IF task[t].live
      THEN InUse(t) \/ task[t].resolve # 0
      ELSE /\ ~ InUse(t) /\ ~ Referred(t)
           /\ task[t].fd # "open" /\ (task[t].told = "connected" <=> task[t].fd = "given")

\* The client of t is called in the step from one stack to the next: there is a
\* call of it that was not there, at its height.  The call may take the place of
\* the answer whose last user it is.
Calls(old, new, t) ==
  \E i \in DOMAIN new :
    /\ new[i] = Client(t)
    /\ ~ \E j \in DOMAIN old : old[j] = Client(t) /\ Len(old) - j = Len(new) - i

\* Nobody is called after the end or after a cancellation: a client is told
\* the end of a task once, and only of tasks it did not cancel.
ToldOnce ==
  [][\A t \in Ids : task[t].told # "nothing" =>
       /\ task'[t].told = task[t].told
       /\ ~ Calls(stack, stack', t)]_vars

\* An address that is passed on was reported just now, or less long ago than the
\* cache keeps it, and a failure is passed on only if the lookup failed; or if a
\* second request for the name came between the end of the lookup and its
\* report and freed the result.
Truthful ==
  \A i \in DOMAIN stack : stack[i].do = "deliver" =>
    /\ stack[i].ai => stack[i].found /\ (now = stack[i].at \/ now - stack[i].at < Expiration)
    /\ ~ stack[i].ai => ~ stack[i].found \/ stack[i].lost

\* Every request for an address is answered, unless it is cancelled.
Resolved ==
  \A t \in Ids :
    (task[t].told = "nothing" /\ (task[t].resolve # 0 \/ (task[t].type = "resolve" /\ task[t].owner = 0)))
      ~> (task[t].told # "nothing" \/ (task[t].type # "resolve" /\ task[t].resolve = 0))

Inv ==
  /\ TypeOK /\ Orderly(stack) /\ Requests /\ Entries /\ Truthful
  /\ \A t \in Ids : Fit(t)
=============================================================================

-------------------------------- MODULE Flow --------------------------------
(***************************************************************************)
(* flow.c: nodes that send messages along edges.  The nodes of a group run *)
(* in one thread; an edge within a group is a call, an edge between groups *)
(* a queue of the target.  A node signs off with an empty message on every *)
(* queue, a consumer is closed when all that feed it have, and a thread    *)
(* ends when nothing is left for its loop to wait for.  Log messages go    *)
(* through one more queue to the main thread.  The queues are what module  *)
(* Channel promises of them; values are counted as in value.c.             *)
(*                                                                         *)
(* Modules of nodes are the client: a node that nothing leads to has a     *)
(* timer until it exits; a node may send and log in its callbacks, exits   *)
(* at most once and sends nothing afterwards, and sends nothing on what it *)
(* receives by a call.                                                     *)
(***************************************************************************)
EXTENDS Integers, Sequences, FiniteSets

CONSTANTS Groups,        \* names of groups
          Main,          \* "<main>", the one of the main thread
          MaxNodes, MaxEdges,
          MaxMessages,   \* bound: messages ever created
          MaxForwards    \* bound: messages received that are sent on or logged

ASSUME FlowAssumption ==
  /\ Main \in Groups /\ IsFiniteSet(Groups)
  /\ {MaxNodes, MaxEdges, MaxMessages, MaxForwards} \subseteq Nat

Messages == 1 .. MaxMessages
SignOff == 0   \* the empty message

VARIABLES
  phase,      \* "build", "run", or "ended" after flow_destruct()
  group,      \* the group of each node, in the order of flow_node()
  edges,      \* the edges, in the order of flow_connect()
  sources,    \* node->consumer_sources
  logSources, \* flow->log_consumer_sources
  thread,     \* of each group: "none", "created", "loop", "over", or "returned"
  started,    \* node->started
  timer,      \* nodes whose timer runs
  consumer,   \* node->consumer: "idle", "open" or "closed"
  logs,       \* flow->log_consumer, likewise
  out,        \* edge->producer: elements not yet written
  logOut,     \* group->log_producer, likewise
  queue,      \* node->queue
  logQueue,   \* flow->log_queue
  ref,        \* the reference count of each message, -1 before it is created
  exited,     \* history: nodes that called flow_exit()
  forwards    \* history: messages sent on or logged

vars == <<phase, group, edges, sources, logSources, thread, started, timer, consumer, logs,
          out, logOut, queue, logQueue, ref, exited, forwards>>

graph == <<group, edges>>
logVars == <<logSources, logs, logOut, logQueue>>

Nodes == DOMAIN group
Edges == DOMAIN edges
Members(g) == {n \in Nodes : group[n] = g}
Direct(e) == group[edges[e].from] = group[edges[e].to]
QueuesFrom(n) == {e \in Edges : edges[e].from = n /\ ~ Direct(e)}
QueuesTo(n) == {e \in Edges : edges[e].to = n /\ ~ Direct(e)}

Init ==
  /\ phase = "build" /\ group = <<>> /\ edges = <<>> /\ sources = <<>> /\ logSources = 0
  /\ thread = [g \in Groups |-> "none"]
  /\ started = {} /\ timer = {} /\ consumer = <<>> /\ logs = "idle"
  /\ out = <<>> /\ logOut = [g \in Groups |-> <<>>] /\ queue = <<>> /\ logQueue = <<>>
  /\ ref = [m \in Messages |-> -1]
  /\ exited = {} /\ forwards = 0

-----------------------------------------------------------------------------
(* Building the flow *)

\* flow_node(), flow_lookup_group(), flow_node_construct()
Node(g) ==
  /\ phase = "build"
  /\ Len(group) < MaxNodes
  /\ group' = Append(group, g)
  /\ logSources' = IF g # Main /\ Members(g) = {} THEN logSources + 1 ELSE logSources
  /\ sources' = Append(sources, 0)
  /\ consumer' = Append(consumer, "idle")
  /\ queue' = Append(queue, <<>>)
  /\ UNCHANGED <<phase, edges, thread, started, timer, logs, out, logOut, logQueue, ref,
                 exited, forwards>>

\* Mutant of SourcesAfter: two edges between two nodes count once.
SourcesAfterOnce(n, t) ==
  IF group[n] # group[t] /\ \A e \in QueuesTo(t) : edges[e].from # n
  THEN [sources EXCEPT ![t] = @ + 1] ELSE sources

\* flow_node_connect(): a queue has one more source
SourcesAfter(n, t) == IF group[n] # group[t] THEN [sources EXCEPT ![t] = @ + 1] ELSE sources

\* flow_connect() of two nodes that there are
Connect(n, t) ==
  /\ phase = "build"
  /\ Len(edges) < MaxEdges
  /\ edges' = Append(edges, [from |-> n, to |-> t])
  /\ out' = Append(out, <<>>)
  /\ sources' = SourcesAfter(n, t)
  /\ UNCHANGED <<phase, group, logSources, thread, started, timer, consumer, logs, logOut,
                 queue, logQueue, ref, exited, forwards>>

\* flow_node_start() of the nodes of a group
StartNodes(g) ==
  /\ started' = started \cup Members(g)
  /\ consumer' = [n \in Nodes |-> IF n \in Members(g) /\ sources[n] > 0 THEN "open" ELSE consumer[n]]
  /\ timer' = timer \cup {n \in Members(g) : \A e \in Edges : edges[e].to # n \/ edges[e].from = n}

\* flow_start(): the main thread starts its nodes and creates the other threads
Start ==
  /\ phase = "build"
  /\ phase' = "run"
  /\ logs' = IF logSources > 0 THEN "open" ELSE "idle"
  /\ thread' = [g \in Groups |-> IF Members(g) = {} THEN "none"
                                 ELSE IF g = Main THEN "loop" ELSE "created"]
  /\ StartNodes(Main)
  /\ UNCHANGED <<graph, sources, logSources, out, logOut, queue, logQueue, ref, exited,
                 forwards>>

\* flow_group_async(), flow_group_main(): a thread begins
GroupBegins(g) ==
  /\ thread[g] = "created"
  /\ thread' = [thread EXCEPT ![g] = "loop"]
  /\ StartNodes(g)
  /\ UNCHANGED <<phase, graph, sources, out, queue, ref, exited, forwards, logVars>>

-----------------------------------------------------------------------------
(* The callbacks of nodes, in the loop of their group *)

\* A callback of some node of the group may run
Called(g) == thread[g] = "loop" /\ \E n \in Members(g) : n \in timer \/ consumer[n] = "open"

Create(m) == m \in Messages /\ ref[m] = -1 /\ \A l \in 1 .. m - 1 : ref[l] # -1

Pushed(n, m) == [e \in Edges |-> IF e \in QueuesFrom(n) THEN Append(out[e], m) ELSE out[e]]

\* Mutant of Held: one reference for all of the queues.
HeldOnce(n) == IF QueuesFrom(n) = {} THEN 0 ELSE 1

\* flow_node_send(): value_hold() for every queue
Held(n) == Cardinality(QueuesFrom(n))

\* flow_send_and_release(): a reference for every queue, and the one of the
\* sender is given back
Send(n, m) ==
  /\ n \in timer
  /\ Create(m)
  /\ out' = Pushed(n, m)
  /\ ref' = [ref EXCEPT ![m] = Held(n)]
  /\ UNCHANGED <<phase, graph, sources, thread, started, timer, consumer, queue, exited, forwards, logVars>>

\* flow_log() and value_release() of the message
Log(n, m) ==
  /\ Called(group[n]) /\ n \in started
  /\ Create(m)
  /\ logOut' = IF group[n] = Main THEN logOut ELSE [logOut EXCEPT ![group[n]] = Append(@, m)]
  /\ ref' = [ref EXCEPT ![m] = IF group[n] = Main THEN 0 ELSE 1]
  /\ UNCHANGED <<phase, graph, sources, thread, started, timer, consumer, out, queue, exited,
                 forwards, logSources, logs, logQueue>>

\* Mutant of Exit: only the first of the queues is signed off.
ExitFirst(n) ==
  /\ Called(group[n]) /\ n \notin exited
  /\ exited' = exited \cup {n}
  /\ out' = [e \in Edges |-> IF e \in QueuesFrom(n) /\ \A d \in QueuesFrom(n) : e <= d
                             THEN Append(out[e], SignOff) ELSE out[e]]
  /\ started' = started \ {n}
  /\ timer' = timer \ {n}
  /\ UNCHANGED <<phase, graph, sources, thread, consumer, queue, ref, forwards, logVars>>

\* flow_exit(): the queues are signed off, and destroy stops the timer
Exit(n) ==
  /\ Called(group[n]) /\ n \notin exited
  /\ exited' = exited \cup {n}
  /\ out' = Pushed(n, SignOff)
  /\ started' = started \ {n}
  /\ timer' = timer \ {n}
  /\ UNCHANGED <<phase, graph, sources, thread, consumer, queue, ref, forwards, logVars>>

\* value_release()
Less(count) == IF count > 0 THEN count - 1 ELSE 0

\* flow_node_consumer() of a message, which receive may send on or log.  The
\* count is atomic and the receiver has a reference until it returns, so that
\* other threads that count the same message change nothing of the sum.
Receive(n, use) ==
  LET m == Head(queue[n])
      logged == use = "log" /\ group[n] # Main
      holds == IF use = "send" THEN Held(n) ELSE IF logged THEN 1 ELSE 0 IN
  /\ thread[group[n]] = "loop" /\ consumer[n] = "open"
  /\ queue[n] # <<>> /\ m # SignOff
  /\ use # "drop" => n \notin exited /\ forwards < MaxForwards
  /\ queue' = [queue EXCEPT ![n] = Tail(@)]
  /\ out' = IF use = "send" THEN Pushed(n, m) ELSE out
  /\ logOut' = IF logged THEN [logOut EXCEPT ![group[n]] = Append(@, m)] ELSE logOut
  /\ ref' = [ref EXCEPT ![m] = Less(@ + holds)]
  /\ forwards' = IF use # "drop" THEN forwards + 1 ELSE forwards
  /\ UNCHANGED <<phase, graph, sources, thread, started, timer, consumer, exited,
                 logSources, logs, logQueue>>

\* flow_node_consumer() of the empty message: the last source closes the consumer
ReceiveSignOff(n) ==
  /\ thread[group[n]] = "loop" /\ consumer[n] = "open"
  /\ queue[n] # <<>> /\ Head(queue[n]) = SignOff
  /\ queue' = [queue EXCEPT ![n] = Tail(@)]
  /\ sources' = [sources EXCEPT ![n] = @ - 1]
  /\ consumer' = IF sources'[n] = 0 THEN [consumer EXCEPT ![n] = "closed"] ELSE consumer
  /\ UNCHANGED <<phase, graph, thread, started, timer, out, ref, exited, forwards, logVars>>

-----------------------------------------------------------------------------
(* The ends of threads *)

\* Mutant of Idle: what was logged is not waited for.
IdleUnlogged(g) ==
  /\ Members(g) \cap timer = {}
  /\ \A n \in Members(g) : consumer[n] # "open" /\ \A e \in QueuesFrom(n) : out[e] = <<>>

\* The loop of a group has nothing to wait for: no timer, no read of a queue
\* and no write to one
Idle(g) ==
  /\ Members(g) \cap timer = {}
  /\ \A n \in Members(g) : consumer[n] # "open" /\ \A e \in QueuesFrom(n) : out[e] = <<>>
  /\ logOut[g] = <<>>

\* flow_group_main(): after the loop the nodes are stopped and the thread
\* signs off from the log
GroupEnds(g) ==
  /\ g # Main /\ thread[g] = "loop"
  /\ Idle(g)
  /\ thread' = [thread EXCEPT ![g] = "over"]
  /\ started' = started \ Members(g)
  /\ logQueue' = Append(logQueue, SignOff)
  /\ UNCHANGED <<phase, graph, sources, timer, consumer, out, queue, ref, exited, forwards,
                 logSources, logs, logOut>>

\* flow_group_async(): the main loop learns that the thread is over
GroupReturns(g) ==
  /\ thread[g] = "over"
  /\ thread' = [thread EXCEPT ![g] = "returned"]
  /\ UNCHANGED <<phase, graph, sources, started, timer, consumer, out, queue, ref, exited,
                 forwards, logVars>>

\* flow_log_queue(): a message is emitted and released
LogReceive ==
  /\ logs = "open" /\ logQueue # <<>> /\ Head(logQueue) # SignOff
  /\ logQueue' = Tail(logQueue)
  /\ ref' = [ref EXCEPT ![Head(logQueue)] = Less(@)]
  /\ UNCHANGED <<phase, graph, sources, thread, started, timer, consumer, out, queue, exited,
                 forwards, logSources, logs, logOut>>

\* flow_log_queue(): a thread signs off, the last of them closes the consumer
LogSignOff ==
  /\ logs = "open" /\ logQueue # <<>> /\ Head(logQueue) = SignOff
  /\ logQueue' = Tail(logQueue)
  /\ logSources' = logSources - 1
  /\ logs' = IF logSources' = 0 THEN "closed" ELSE logs
  /\ UNCHANGED <<phase, graph, sources, thread, started, timer, consumer, out, queue, ref,
                 exited, forwards, logOut>>

\* The main loop returns; then flow_stop() and flow_destruct()
Finish ==
  /\ phase = "run"
  /\ Idle(Main) /\ logs # "open"
  /\ \A g \in Groups : thread[g] \notin {"created", "loop", "over"} \/ g = Main
  /\ phase' = "ended"
  /\ started' = started \ Members(Main)
  /\ thread' = [thread EXCEPT ![Main] = "returned"]
  /\ UNCHANGED <<graph, sources, timer, consumer, out, queue, ref, exited, forwards, logVars>>

-----------------------------------------------------------------------------
(* The kernel completes writes *)

Written(e) ==
  /\ out[e] # <<>> /\ thread[group[edges[e].from]] = "loop"
  /\ queue' = [queue EXCEPT ![edges[e].to] = @ \o out[e]]
  /\ out' = [out EXCEPT ![e] = <<>>]
  /\ UNCHANGED <<phase, graph, sources, thread, started, timer, consumer, ref, exited,
                 forwards, logVars>>

LogWritten(g) ==
  /\ logOut[g] # <<>> /\ thread[g] = "loop"
  /\ logQueue' = logQueue \o logOut[g]
  /\ logOut' = [logOut EXCEPT ![g] = <<>>]
  /\ UNCHANGED <<phase, graph, sources, thread, started, timer, consumer, out, queue, ref,
                 exited, forwards, logSources, logs>>

-----------------------------------------------------------------------------
Client ==
  \/ \E g \in Groups : Node(g)
  \/ \E n, t \in Nodes : Connect(n, t)
  \/ Start
  \/ \E n \in Nodes, m \in Messages : Send(n, m) \/ Log(n, m)
  \/ \E n \in Nodes : Exit(n)

Threads ==
  \/ \E g \in Groups : GroupBegins(g) \/ GroupEnds(g) \/ GroupReturns(g) \/ LogWritten(g)
  \/ \E n \in Nodes : ReceiveSignOff(n) \/ \E use \in {"drop", "send", "log"} : Receive(n, use)
  \/ \E e \in Edges : Written(e)
  \/ LogReceive \/ LogSignOff \/ Finish

Next == Client \/ Threads

Spec == Init /\ [][Next]_vars

\* Threads and the kernel go on, and a node with a timer exits in the end.
\* Each step of Threads is enabled until it is taken and only finitely many
\* can be taken, so that fairness of all of them together is enough.
FairSpec ==
  /\ Spec
  /\ WF_vars(Threads)
  /\ \A n \in 1 .. MaxNodes : WF_vars(n \in timer /\ Exit(n))

-----------------------------------------------------------------------------
(* What is in the queues, and who may still put something there *)

At(s, m) == {i \in DOMAIN s : s[i] = m}
Places(f, m) == UNION {{<<x, i>> : i \in At(f[x], m)} : x \in DOMAIN f}

\* The places of a message in what is written and in what is yet to be written
InQueues(m) == Cardinality(At(logQueue, m)) + Cardinality(Places(out, m))
                 + Cardinality(Places(queue, m)) + Cardinality(Places(logOut, m))

\* The edges that have not put their sign-off into the queue of a node
Owing(n) == {e \in QueuesTo(n) : edges[e].from \notin exited \/ out[e] # <<>>}

\* The threads that have not put theirs into the queue of the logs
LogOwing == {g \in Groups \ {Main} : Members(g) # {} /\ thread[g] \notin {"over", "returned"}}

EndsInSignOff(s) == s # <<>> /\ s[Len(s)] = SignOff

TypeOK ==
  /\ phase \in {"build", "run", "ended"}
  /\ group \in Seq(Groups)
  /\ edges \in Seq([from : Nodes, to : Nodes])
  /\ sources \in Seq(Int) /\ Len(sources) = Len(group)
  /\ consumer \in Seq({"idle", "open", "closed"}) /\ Len(consumer) = Len(group)
  /\ queue \in Seq(Seq(0 .. MaxMessages)) /\ Len(queue) = Len(group)
  /\ out \in Seq(Seq(0 .. MaxMessages)) /\ Len(out) = Len(edges)
  /\ logSources \in Int
  /\ thread \in [Groups -> {"none", "created", "loop", "over", "returned"}]
  /\ started \subseteq Nodes /\ timer \subseteq Nodes /\ exited \subseteq Nodes
  /\ logs \in {"idle", "open", "closed"}
  /\ logOut \in [Groups -> Seq(Messages)]
  /\ logQueue \in Seq(0 .. MaxMessages)
  /\ ref \in [Messages -> Int]
  /\ forwards \in Nat

\* A source that a consumer counts has yet to sign off, or its sign-off is in
\* the queue, behind all that it sent
Fed ==
  \A n \in Nodes :
    /\ sources[n] = Cardinality(Owing(n)) + Cardinality(At(queue[n], SignOff))
    /\ queue[n] # <<>> => EndsInSignOff(queue[n]) \/ Owing(n) # {}

\* What a node has yet to write ends in its sign-off if it has exited
Signed ==
  \A e \in Edges :
    /\ Direct(e) => out[e] = <<>>
    /\ IF edges[e].from \in exited /\ out[e] # <<>>
       THEN EndsInSignOff(out[e]) /\ Cardinality(At(out[e], SignOff)) = 1
       ELSE At(out[e], SignOff) = {}

\* The same of the threads and the log
LogFed ==
  /\ logSources = Cardinality(LogOwing) + Cardinality(At(logQueue, SignOff))
  /\ logQueue # <<>> => EndsInSignOff(logQueue) \/ LogOwing # {}

\* A consumer is open from the start of its thread to its last sign-off
Consuming ==
  \A n \in Nodes :
    /\ consumer[n] = "open" => thread[group[n]] = "loop"
    /\ consumer[n] = "closed" => sources[n] = 0
    /\ consumer[n] = "idle" /\ thread[group[n]] \in {"loop", "over", "returned"} => sources[n] = 0

LogConsuming ==
  /\ logs = "closed" => logSources = 0
  /\ logs = "idle" /\ phase # "build" => logSources = 0

\* What is yet to be written belongs to a loop, as does every node that is started
InLoops ==
  /\ \A e \in Edges : out[e] # <<>> => thread[group[edges[e].from]] = "loop"
  /\ \A g \in Groups : logOut[g] # <<>> => g # Main /\ thread[g] = "loop"
  /\ \A n \in started \cup timer : thread[group[n]] = "loop"
  /\ \A n \in exited : n \notin timer /\ thread[group[n]] \in {"loop", "over", "returned"}

\* The threads that there are in each phase
InPhase ==
  /\ phase = "build" => /\ thread = [g \in Groups |-> "none"]
                        /\ logs = "idle" /\ \A n \in Nodes : consumer[n] = "idle"
  /\ phase = "run" => /\ \A g \in Groups : thread[g] = "none" <=> Members(g) = {}
                      /\ thread[Main] # "created"
  /\ phase = "ended" => /\ logs # "open"
                        /\ \A g \in Groups \ {Main} : IF Members(g) = {} THEN thread[g] = "none"
                                                      ELSE thread[g] = "returned"
                        /\ thread[Main] = "returned"

\* The count of a message is the number of its places; none has one before it
\* is created
Sharing == \A m \in Messages : InQueues(m) = IF ref[m] = -1 THEN 0 ELSE ref[m]

Inv ==
  /\ TypeOK /\ Fed /\ Signed /\ LogFed /\ Consuming /\ LogConsuming /\ InLoops /\ InPhase
  /\ Sharing

-----------------------------------------------------------------------------
(* Properties *)

\* Every reference to a message is in exactly one queue: none is freed while a
\* queue holds it, and none is left when no queue does (value_hold() and
\* value_release() in flow_node_send(), flow_log() and the two consumers),
\* whichever of the threads that share it sends it on, logs it or drops it.
Counted == \A m \in Messages : ref[m] # -1 => ref[m] = InQueues(m)

\* A consumer closes only behind the last message of all that feed it, whatever
\* the order in which threads start, exit and are written: nothing is left in
\* its queue, and nothing will come.  So does the consumer of the logs, whose
\* producers are the threads of the groups.
ClosesLast ==
  /\ \A n \in Nodes : consumer[n] = "closed" =>
       queue[n] = <<>> /\ \A e \in QueuesTo(n) : out[e] = <<>> /\ edges[e].from \in exited
  /\ logs = "closed" => logQueue = <<>> /\ \A g \in Groups \ {Main} :
       thread[g] \in {"none", "over", "returned"} /\ logOut[g] = <<>>

\* After the main loop no thread runs (the comment in flow_stop() and the
\* assertion of flow_release_group()), every node was stopped, and no message
\* is left.
EndsClean ==
  phase = "ended" =>
    /\ \A g \in Groups : thread[g] \in {"none", "returned"}
    /\ started = {}
    /\ \A m \in Messages : ref[m] \in {-1, 0}

\* The flow ends if every node that feeds a queue calls flow_exit() in the end:
\* nobody else signs off for it.  The library tells no node that what feeds it
\* has exited, so a chain of groups ends only by what its modules agree on.
Ends ==
  (\A n \in 1 .. MaxNodes : <>[](n \in Nodes /\ QueuesFrom(n) # {} => n \in exited))
    => (phase = "run" ~> phase = "ended")
=============================================================================

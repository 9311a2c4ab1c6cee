------------------------------- MODULE Server -------------------------------
(***************************************************************************)
(* server.c: the sessions of an HTTP server.  A session parses requests    *)
(* from its stream and passes them to the client one at a time.  The       *)
(* client answers in its callback or later; answers made later schedule a  *)
(* call that goes on with the input.  The session is freed as soon as it   *)
(* is closed and the client does not hold a request of it: by the peer, by *)
(* the client, or in the middle of the loop that parses.                   *)
(*                                                                         *)
(* Below it is a stream as module Stream has it (it calls back with input, *)
(* or with the end or an error, until it is closed), the calls scheduled   *)
(* with reactor_next() and, for the listening socket, network_accept().    *)
(* One thread runs everything.                                             *)
(***************************************************************************)
EXTENDS Http, FiniteSets

CONSTANTS Sessions,   \* the sessions that are accepted
          Scripts,    \* what peers may send: sequences of requests
          Cuts        \* numbers of cells that come in one read

RequestType == [head : {"get", "post", "length", "chunked", "both"}, length : Nat,
                chunks : Seq(Nat \ {0})]

ASSUME ServerAssumption ==
  /\ Cuts \subseteq Nat \ {0}
  /\ \A requests \in Scripts : requests \in Seq(RequestType)
  /\ \A requests \in Scripts : \A i \in DOMAIN requests :
       requests[i].head # "chunked" => requests[i].chunks = <<>>

VARIABLES
  accepting,   \* server->accept is set
  session,     \* the server_session_t of each session
  script,      \* the requests that the peer of each session sends
  sent,        \* the cells that they are sent as
  received,    \* number of cells received by each session
  consumed,    \* number of cells that are not in the input of the stream any more
  found,       \* what http_read_request() finds in the input of each session
  scheduled,   \* the calls scheduled with reactor_next(), which run in the order of n
  nexts,       \* number of calls scheduled so far
  running,     \* the session whose server_session_read() runs, in a set
  client,      \* history: what the client of each session has seen and done
  answers      \* the requests answered on each session, in order

vars == <<accepting, session, script, sent, received, consumed, found, scheduled, nexts,
          running, client, answers>>

\* n cells of a body, of which it has sent some
Data(from, n) == [i \in 1 .. n |-> Cell("data", from + i)]

\* A chunk, the data of which are as given
ChunkWire(n, data) ==
  <<Cell("size", n), Cell("newline", 0)>> \o data \o <<Cell("crlf", 0), Cell("crlf", 0)>>

\* The first k of the chunks with the given sizes, and the size of their data
Chunked(chunks) ==
  LET chunked[k \in 0 .. Len(chunks)] ==
        IF k = 0 THEN [wire |-> <<>>, n |-> 0]
        ELSE [wire |-> chunked[k - 1].wire \o ChunkWire(chunks[k], Data(chunked[k - 1].n, chunks[k])),
              n |-> chunked[k - 1].n + chunks[k]]
  IN  chunked

\* What a peer sends for a request: its head and its body, which a GET may have
\* as well as a POST
Wire(request) ==
  <<Cell("start", 0), Cell(request.head, request.length)>>
    \o CASE request.head \in {"get", "length"} /\ request.length < 2 ^ Width - 2 -> Data(0, request.length)
         [] request.head = "chunked" ->
              Chunked(request.chunks)[Len(request.chunks)].wire \o ChunkWire(0, <<>>)
         [] OTHER -> <<>>

\* What it sends for the first k requests, and for all
SentUpTo(requests) ==
  LET all[k \in 0 .. Len(requests)] == IF k = 0 THEN <<>> ELSE all[k - 1] \o Wire(requests[k])
  IN  all

Sent(requests) == SentUpTo(requests)[Len(requests)]

Init ==
  /\ accepting = FALSE
  /\ session = [s \in Sessions |->
       [memory |-> "none", open |-> FALSE, ready |-> FALSE, processing |-> FALSE,
        abort |-> "none", next |-> 0]]
  /\ script \in [Sessions -> Scripts]
  /\ sent = [s \in Sessions |-> Sent(script[s])]
  /\ consumed = [s \in Sessions |-> 0]
  /\ found = [s \in Sessions |-> Wait]
  /\ received = [s \in Sessions |-> 0]
  /\ scheduled = {}
  /\ nexts = 0
  /\ running = {}
  /\ client = [s \in Sessions |-> [asked |-> 0, held |-> FALSE, bodies |-> <<>>, overwrote |-> FALSE]]
  /\ answers = [s \in Sessions |-> <<>>]

Alive(s) == session[s].memory = "allocated"

\* The thread is in the request callback of session s.
InCallback(s) == session[s].abort # "none" /\ s \in running

\* Client code runs: in a request callback or in a callback of its own.
ClientRuns == running = {} \/ \E s \in running : InCallback(s)

-----------------------------------------------------------------------------
(* The listening socket *)

\* server_open(), server_open_socket()
Open ==
  /\ ClientRuns
  /\ ~ accepting
  /\ accepting' = TRUE
  /\ UNCHANGED <<session, script, sent, received, consumed, found, scheduled, nexts, running, client, answers>>

\* server_close(), server_destruct(): sessions stay as they are; or an error
\* of network_accept()
Close ==
  /\ ClientRuns
  /\ accepting
  /\ accepting' = FALSE
  /\ UNCHANGED <<session, script, sent, received, consumed, found, scheduled, nexts, running, client, answers>>

\* server_create_session()
Accept(s) ==
  /\ running = {}
  /\ accepting
  /\ session[s].memory = "none"
  /\ session' = [session EXCEPT ![s].memory = "allocated", ![s].open = TRUE, ![s].ready = TRUE]
  /\ UNCHANGED <<accepting, script, sent, received, consumed, found, scheduled, nexts, running, client, answers>>

-----------------------------------------------------------------------------
(* Sessions *)

\* What is left of the scheduled calls when reactor_cancel() was called for
\* session->next
Uncancelled(s) == {c \in scheduled : c.n # session[s].next}

\* Mutant of Closed: the scheduled call is not cancelled.
ClosedKeepsNext(s, ready) ==
  /\ session' = [session EXCEPT
       ![s].open = FALSE,
       ![s].abort = IF @ = "live" THEN "true" ELSE @,
       ![s].next = 0,
       ![s].ready = ready,
       ![s].memory = IF ready THEN "freed" ELSE @]
  /\ UNCHANGED scheduled

\* server_session_close(), with the flag SERVER_SESSION_READY as given
Closed(s, ready) ==
  /\ session' = [session EXCEPT
       ![s].open = FALSE,
       ![s].abort = IF @ = "live" THEN "true" ELSE @,
       ![s].next = 0,
       ![s].ready = ready,
       ![s].memory = IF ready THEN "freed" ELSE @]
  /\ scheduled' = Uncancelled(s)

\* http_read_request() of the input of session s, between the two places
Found(s, from, to) == [found EXCEPT ![s] = ReadRequest(SubSeq(sent[s], from + 1, to))]

\* server_session_stream() with input, which calls server_session_read()
StreamRead(s, n) ==
  /\ running = {}
  /\ session[s].open
  /\ received[s] + n <= Len(sent[s])
  /\ received' = [received EXCEPT ![s] = @ + n]
  /\ found' = Found(s, consumed[s], received'[s])
  /\ running' = {s}
  /\ UNCHANGED <<accepting, session, script, sent, consumed, scheduled, nexts, client, answers>>

\* server_session_stream() with the end of the input or an error
StreamEnd(s) ==
  /\ running = {}
  /\ session[s].open
  /\ Closed(s, session[s].ready)
  /\ UNCHANGED <<accepting, script, sent, received, consumed, found, nexts, running, client, answers>>

\* server_session_next()
SessionNext ==
  /\ running = {}
  /\ \E c \in scheduled :
       /\ \A d \in scheduled : c.n <= d.n
       /\ Alive(c.session)
       /\ scheduled' = scheduled \ {c}
       /\ session' = [session EXCEPT ![c.session].next = 0]
       /\ running' = {c.session}
  /\ UNCHANGED <<accepting, script, sent, received, consumed, found, nexts, client, answers>>

\* Mutant of SessionRequest: SERVER_SESSION_READY stays set.
SessionRequestReady(s) ==
  /\ s \in running /\ ~ InCallback(s)
  /\ session[s].ready
  /\ found[s].result = 1
  /\ consumed' = [consumed EXCEPT ![s] = @ + found[s].size]
  /\ found' = Found(s, consumed'[s], received[s])
  /\ session' = [session EXCEPT ![s].processing = TRUE, ![s].abort = "live"]
  /\ client' = [client EXCEPT ![s].asked = @ + 1, ![s].held = TRUE,
                              ![s].bodies = Append(@, found[s].body)]
  /\ UNCHANGED <<accepting, script, sent, received, scheduled, nexts, running, answers>>

\* server_session_read(): a request is passed to the client
SessionRequest(s) ==
  /\ s \in running /\ ~ InCallback(s)
  /\ session[s].ready
  /\ found[s].result = 1
  /\ consumed' = [consumed EXCEPT ![s] = @ + found[s].size]
  /\ found' = Found(s, consumed'[s], received[s])
  /\ session' = [session EXCEPT ![s].ready = FALSE, ![s].processing = TRUE, ![s].abort = "live"]
  /\ client' = [client EXCEPT ![s].asked = @ + 1, ![s].held = TRUE,
                              ![s].bodies = Append(@, found[s].body)]
  /\ UNCHANGED <<accepting, script, sent, received, scheduled, nexts, running, answers>>

\* server_session_read(): the input is not a request
ReadBad(s) ==
  /\ s \in running /\ ~ InCallback(s)
  /\ session[s].ready
  /\ found[s].result = -1
  /\ Closed(s, TRUE)
  /\ running' = {}
  /\ UNCHANGED <<accepting, script, sent, received, consumed, found, nexts, client, answers>>

\* server_session_read(): there is no request, or one is being answered; what
\* was answered is flushed
ReadDone(s) ==
  /\ s \in running /\ ~ InCallback(s)
  /\ session[s].ready => found[s].result = 0
  /\ running' = {}
  /\ UNCHANGED <<accepting, session, script, sent, received, consumed, found, scheduled, nexts, client, answers>>

\* The request callback returns to server_session_read()
Return(s) ==
  /\ InCallback(s)
  /\ IF session[s].abort = "true"
       THEN running' = {} /\ UNCHANGED session
       ELSE /\ session' = [session EXCEPT ![s].abort = "none", ![s].processing = FALSE]
            /\ UNCHANGED running
  /\ UNCHANGED <<accepting, script, sent, received, consumed, found, scheduled, nexts, client, answers>>

-----------------------------------------------------------------------------
(* The client's answers *)

\* Mutant of Respond: nothing is scheduled.
RespondStops(s) ==
  /\ ClientRuns
  /\ client[s].held
  /\ client' = [client EXCEPT ![s].held = FALSE]
  /\ IF session[s].open
       THEN /\ answers' = [answers EXCEPT ![s] = Append(@, client[s].asked)]
            /\ session' = [session EXCEPT ![s].ready = TRUE]
            /\ UNCHANGED <<scheduled, nexts>>
       ELSE Closed(s, TRUE) /\ UNCHANGED <<answers, nexts>>
  /\ UNCHANGED <<accepting, script, sent, received, consumed, found, running>>

\* server_respond(), server_ok(), server_plain()
Respond(s) ==
  /\ ClientRuns
  /\ client[s].held
  /\ IF session[s].open
       THEN /\ answers' = [answers EXCEPT ![s] = Append(@, client[s].asked)]
            /\ IF session[s].processing
                 THEN /\ session' = [session EXCEPT ![s].ready = TRUE]
                      /\ client' = [client EXCEPT ![s].held = FALSE]
                      /\ UNCHANGED <<scheduled, nexts>>
                 ELSE /\ session' = [session EXCEPT ![s].ready = TRUE, ![s].next = nexts + 1]
                      /\ client' = [client EXCEPT ![s].held = FALSE,
                                                  ![s].overwrote = @ \/ session[s].next # 0]
                      /\ nexts' = nexts + 1
                      /\ scheduled' = scheduled \cup {[n |-> nexts', session |-> s]}
       ELSE /\ Closed(s, TRUE)
            /\ client' = [client EXCEPT ![s].held = FALSE]
            /\ UNCHANGED <<answers, nexts>>
  /\ UNCHANGED <<accepting, script, sent, received, consumed, found, running>>

\* server_disconnect(), of a session whose request the client holds or, in its
\* callback, has just answered
Disconnect(s) ==
  /\ ClientRuns
  /\ client[s].held \/ InCallback(s)
  /\ Alive(s)
  /\ Closed(s, TRUE)
  /\ client' = [client EXCEPT ![s].held = FALSE]
  /\ UNCHANGED <<accepting, script, sent, received, consumed, found, nexts, running, answers>>

-----------------------------------------------------------------------------
Next ==
  \/ Open \/ Close \/ SessionNext
  \/ \E s \in Sessions :
       \/ Accept(s) \/ StreamEnd(s)
       \/ \E n \in Cuts : StreamRead(s, n)
       \/ SessionRequest(s) \/ ReadBad(s) \/ ReadDone(s) \/ Return(s)
       \/ Respond(s) \/ Disconnect(s)

Spec == Init /\ [][Next]_vars

\* The loop runs scheduled calls and callbacks return.  Neither the client nor
\* the peer has to do anything.
FairSpec ==
  /\ Spec
  /\ WF_vars(SessionNext)
  /\ \A s \in Sessions :
       WF_vars(SessionRequest(s) \/ ReadBad(s) \/ ReadDone(s)) /\ WF_vars(Return(s))

-----------------------------------------------------------------------------
(* The inductive invariant *)

Phases == {"none", "live", "true"}

\* The values of the variables that the sessions are managed with
TypeOK ==
  /\ session \in [Sessions -> [memory : {"none", "allocated", "freed"}, open : BOOLEAN,
                               ready : BOOLEAN, processing : BOOLEAN, abort : Phases, next : Nat]]
  /\ nexts \in Nat
  /\ scheduled \subseteq [n : 1 .. nexts, session : Sessions]
  /\ running \subseteq Sessions
  /\ client \in [Sessions -> [asked : Nat, held : BOOLEAN, overwrote : BOOLEAN,
                              bodies : {client[s].bodies : s \in Sessions}]]
  /\ answers \in [Sessions -> Seq(Nat)]

\* A session is open, or closed while the client holds a request of it, or gone;
\* while it is open it is ready for a request unless the client holds one.
Stages ==
  \A s \in Sessions :
    LET o == session[s] IN
    /\ o.open => Alive(s) /\ (o.ready <=> ~ client[s].held)
    /\ ~ o.open => o.next = 0 /\ (client[s].held <=> Alive(s))
    /\ ~ o.open /\ Alive(s) => ~ o.ready
    /\ o.memory = "none" => /\ client[s].asked = 0 /\ answers[s] = <<>>
                            /\ \A c \in scheduled : c.session # s

\* One session reads at a time.  The flag that tells server_session_read() in
\* which the session was freed is there exactly while the client's callback runs
\* or after the session was freed in it.
Reads ==
  /\ \A s, t \in running : s = t
  /\ \A s \in Sessions :
       /\ session[s].abort = "live" => s \in running /\ session[s].open
       /\ session[s].abort = "true" => session[s].memory = "freed"
       /\ session[s].processing => session[s].abort # "none"
       /\ s \in running => Alive(s) \/ session[s].abort = "true"

\* A scheduled call is the one that its session knows of, as long as
\* server_respond() did not overwrite it.
Calls ==
  /\ \A c, d \in scheduled : c.n = d.n => c = d
  /\ \A c \in scheduled : ~ client[c.session].overwrote => c.n = session[c.session].next

-----------------------------------------------------------------------------
(* Properties *)

\* Pipelined requests are answered once each and in order, whether in the
\* callback or later, and a request is passed on only when the one before it
\* was answered.
AnsweredInOrder ==
  \A s \in Sessions :
    /\ answers[s] = [i \in DOMAIN answers[s] |-> i]
    /\ session[s].open =>
         client[s].asked = Len(answers[s]) + (IF client[s].held THEN 1 ELSE 0)

\* The size of the body that a peer sends
Body(request) ==
  LET sum[k \in 0 .. Len(request.chunks)] == IF k = 0 THEN 0 ELSE sum[k - 1] + request.chunks[k]
  IN  IF request.head \in {"get", "length"} THEN request.length ELSE sum[Len(request.chunks)]

\* The length of a request wraps around when http_read_request() adds the head.
Wraps(request) == request.head = "length" /\ request.length + 2 >= 2 ^ Width

\* http_read_request() does not look for the length or the encoding of a GET: its
\* body is left in the input, where the next request is expected.
Unread(request) == request.head = "get" /\ request.length > 0

\* The client is passed the requests that the peer has sent with the bodies that
\* it has sent, however the input is cut into reads, and never what follows a
\* request that is malformed; up to the first request that http_read_request()
\* does not frame: one whose length wraps, which is passed on at once with a body
\* that is not in the input, or a GET with a body, which is passed on without it.
\* What is made of the input behind these is not claimed.
Framed ==
  \A s \in Sessions : \A i \in 1 .. client[s].asked :
    \/ /\ i <= Len(script[s]) /\ script[s][i].head # "both"
       /\ client[s].bodies[i] = [k \in 1 .. Body(script[s][i]) |-> Cell("data", k)]
    \/ \E k \in 1 .. i : k <= Len(script[s]) /\ (Wraps(script[s][k]) \/ Unread(script[s][k]))

\* A session is freed when nobody uses it any more, and then it is.  Its memory
\* outlives the call that it has scheduled, the loop that parses its input, and
\* the request that the client holds; once closed it is there only as long as
\* the client holds a request.  The first is not so after server_respond() has
\* overwritten session->next while the call it stood for was still to come:
\* closing the session then leaves that call behind.
FreedInTime ==
  \A s \in Sessions :
    /\ session[s].memory = "freed" /\ ~ client[s].overwrote =>
         /\ \A c \in scheduled : c.session # s
         /\ s \in running => session[s].abort = "true"
         /\ ~ client[s].held
    /\ Alive(s) /\ ~ session[s].open => client[s].held

\* A complete request behind one that was answered later is passed on without
\* further input, with the same reservation: a call that is left behind by a
\* freed session may do anything.
Served ==
  \A s \in Sessions :
    (session[s].open /\ session[s].ready /\ found[s].result = 1)
      ~> (client[s].held \/ ~ session[s].open \/ \E t \in Sessions : client[t].overwrote)

Inv == TypeOK /\ Stages /\ Reads /\ Calls /\ AnsweredInOrder
=============================================================================

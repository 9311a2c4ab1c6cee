---------------------------- MODULE ServerProofs ----------------------------
(***************************************************************************)
(* The safety properties of module Server for any number of sessions, any  *)
(* requests and any cuts of the input.  The first part is about sessions;  *)
(* what http_read_request() finds in the input plays no part in it.  The   *)
(* second is about that: the requests that are passed to the client are    *)
(* those that the peer has sent.  Operators that are defined by recursion  *)
(* are unfolded by way of lemma Iterates.                                  *)
(***************************************************************************)
EXTENDS Server, FiniteSetTheorems, SequenceTheorems, TLAPS

SessionType == [memory : {"none", "allocated", "freed"}, open : BOOLEAN, ready : BOOLEAN,
                processing : BOOLEAN, abort : Phases, next : Nat]

\* What an action that does not touch the variables of Inv leaves alone.
Kept == UNCHANGED <<session, scheduled, nexts, client, answers>>

\* A step that leaves all that the invariant is about.
LEMMA KeptInv ==
  ASSUME Inv, Kept, UNCHANGED running
  PROVE  Inv'
  <1>1. TypeOK'
    BY DEF Inv, Kept, TypeOK
  <1>2. Stages'
    BY DEF Inv, Kept, Stages, Alive
  <1>3. Reads' /\ Calls'
    BY DEF Inv, Kept, Reads, Calls, Alive
  <1>4. AnsweredInOrder'
    BY DEF Inv, Kept, AnsweredInOrder
  <1> QED BY <1>1, <1>2, <1>3, <1>4 DEF Inv

\* The records of clients, with bodies of requests from a set
ClientType(bodies) == [asked : Nat, held : BOOLEAN, overwrote : BOOLEAN, bodies : bodies]

Bodies(c) == {c[s].bodies : s \in Sessions}

\* No set of bodies has to be given for the type of the clients' records.
LEMMA ClientTyped ==
  ASSUME NEW c, NEW B, c \in [Sessions -> ClientType(B)]
  PROVE  c \in [Sessions -> ClientType(Bodies(c))]
  <1>1. ASSUME NEW s \in Sessions
        PROVE  c[s] \in ClientType(Bodies(c))
    <2>1. c[s] \in ClientType(B) /\ c[s].bodies \in Bodies(c)
      BY DEF Bodies
    <2> HIDE DEF Bodies
    <2> QED BY <2>1 DEF ClientType
  <1> QED BY <1>1

\* The initial state satisfies the invariant.
LEMMA InitInv == Init => Inv
  <1> SUFFICES ASSUME Init PROVE Inv
    OBVIOUS
  <1>1. TypeOK
    <2>2. client \in [Sessions -> ClientType(Bodies(client))]
      BY ClientTyped, ZenonT(60) DEF Init, ClientType
    <2>3. answers \in [Sessions -> Seq(Nat)]
      BY DEF Init
    <2>4. session \in [Sessions -> SessionType]
      BY DEF Init, SessionType, Phases
    <2> QED BY <2>2, <2>3, <2>4 DEF Init, TypeOK, SessionType, ClientType, Bodies
  <1>2. Stages
    BY DEF Init, Stages, Alive
  <1>3. Reads /\ Calls
    BY DEF Init, Reads, Calls, Alive
  <1>4. AnsweredInOrder
    BY DEF Init, AnsweredInOrder
  <1> QED BY <1>1, <1>2, <1>3, <1>4 DEF Inv

\* The client gives up the request that it held.
LEMMA ReleasedFacts ==
  ASSUME NEW s \in Sessions,
         client \in [Sessions -> ClientType(Bodies(client))],
         client' = [client EXCEPT ![s].held = FALSE]
  PROVE  /\ client' \in [Sessions -> ClientType(Bodies(client'))]
         /\ \A t \in Sessions \ {s} : client'[t] = client[t]
         /\ client'[s].asked = client[s].asked /\ ~ client'[s].held
         /\ client'[s].overwrote = client[s].overwrote
  <1> DEFINE B == Bodies(client)
  <1> HIDE DEF B
  <1>1. client \in [Sessions -> ClientType(B)]
    BY DEF B
  <1>2. client' \in [Sessions -> ClientType(B)]
    BY <1>1 DEF ClientType
  <1>3. /\ \A t \in Sessions \ {s} : client'[t] = client[t]
        /\ client'[s].asked = client[s].asked /\ ~ client'[s].held
        /\ client'[s].overwrote = client[s].overwrote
    BY <1>1 DEF ClientType
  <1> QED BY <1>2, <1>3, ClientTyped

\* The client is passed a request.
LEMMA AskedFacts ==
  ASSUME NEW s \in Sessions, NEW body,
         client \in [Sessions -> ClientType(Bodies(client))],
         client' = [client EXCEPT ![s].asked = @ + 1, ![s].held = TRUE,
                                  ![s].bodies = Append(@, body)]
  PROVE  /\ client' \in [Sessions -> ClientType(Bodies(client'))]
         /\ \A t \in Sessions \ {s} : client'[t] = client[t]
         /\ client'[s].asked = client[s].asked + 1 /\ client'[s].held
         /\ client'[s].overwrote = client[s].overwrote
  <1> DEFINE bodies == Append(client[s].bodies, body)
             B == Bodies(client) \cup {bodies}
  <1>1. client' = [client EXCEPT ![s].asked = @ + 1, ![s].held = TRUE, ![s].bodies = bodies]
    OBVIOUS
  <1>2. bodies \in B
    OBVIOUS
  <1>3. client \in [Sessions -> ClientType(B)]
    <2>1. Bodies(client) \subseteq B
      OBVIOUS
    <2> HIDE DEF B
    <2> QED BY <2>1 DEF ClientType
  <1> HIDE DEF B, bodies
  <1>4. client' \in [Sessions -> ClientType(B)]
    BY <1>1, <1>2, <1>3 DEF ClientType
  <1>5. /\ \A t \in Sessions \ {s} : client'[t] = client[t]
        /\ client'[s].asked = client[s].asked + 1 /\ client'[s].held
        /\ client'[s].overwrote = client[s].overwrote
    BY <1>1, <1>3 DEF ClientType
  <1> QED BY <1>4, <1>5, ClientTyped

\* The client answers a request later, and a call is scheduled.
LEMMA LaterFacts ==
  ASSUME NEW s \in Sessions, NEW over \in BOOLEAN,
         client \in [Sessions -> ClientType(Bodies(client))],
         client' = [client EXCEPT ![s].held = FALSE, ![s].overwrote = @ \/ over]
  PROVE  /\ client' \in [Sessions -> ClientType(Bodies(client'))]
         /\ \A t \in Sessions \ {s} : client'[t] = client[t]
         /\ client'[s].asked = client[s].asked /\ ~ client'[s].held
         /\ client'[s].overwrote <=> client[s].overwrote \/ over
  <1> DEFINE B == Bodies(client)
             v == client[s].overwrote \/ over
  <1> HIDE DEF B
  <1>1. client \in [Sessions -> ClientType(B)]
    BY DEF B
  <1>2. v \in BOOLEAN /\ client' = [client EXCEPT ![s].held = FALSE, ![s].overwrote = v]
    OBVIOUS
  <1> HIDE DEF v
  <1>3. client' \in [Sessions -> ClientType(B)]
    BY <1>1, <1>2, ZenonT(60) DEF ClientType
  <1>4. /\ \A t \in Sessions \ {s} : client'[t] = client[t]
        /\ client'[s].asked = client[s].asked /\ ~ client'[s].held
        /\ client'[s].overwrote = v
    BY <1>1, <1>2 DEF ClientType
  <1>5. client'[s].overwrote <=> client[s].overwrote \/ over
    BY <1>4 DEF v
  <1> QED BY <1>3, <1>4, <1>5, ClientTyped

\* The type of the variables in the names of this module.
LEMMA Typed ==
  TypeOK <=> /\ session \in [Sessions -> SessionType]
             /\ nexts \in Nat
             /\ scheduled \subseteq [n : 1 .. nexts, session : Sessions]
             /\ running \subseteq Sessions
             /\ client \in [Sessions -> ClientType(Bodies(client))]
             /\ answers \in [Sessions -> Seq(Nat)]
  BY Zenon DEF TypeOK, SessionType, ClientType, Bodies

\* Closing a session, by the peer or by the client, keeps the invariant if it is
\* told that the session is ready when the client does not hold a request.
LEMMA ClosedInv ==
  ASSUME Inv, NEW s \in Sessions, NEW ready \in BOOLEAN, Closed(s, ready), Alive(s),
         UNCHANGED <<nexts, answers>>,
         client' \in [Sessions -> ClientType(Bodies(client'))],
         \A t \in Sessions \ {s} : client'[t] = client[t],
         client'[s].overwrote = client[s].overwrote, client'[s].asked = client[s].asked,
         client'[s].held <=> ~ ready,
         running' \in {{}, running},
         running' = {} => \A t \in Sessions : session[t].abort # "live",
         session[s].abort = "live" => ready,
         s \in running' /\ ready => session[s].abort = "live"
  PROVE  Inv'
  <1>1. /\ session \in [Sessions -> SessionType]
        /\ nexts \in Nat /\ scheduled \subseteq [n : 1 .. nexts, session : Sessions]
        /\ running \subseteq Sessions /\ answers \in [Sessions -> Seq(Nat)]
    BY Typed DEF Inv
  <1>2. /\ session' \in [Sessions -> SessionType]
        /\ \A t \in Sessions \ {s} : session'[t] = session[t]
    <2> DEFINE abort == IF session[s].abort = "live" THEN "true" ELSE session[s].abort
               memory == IF ready THEN "freed" ELSE session[s].memory
    <2>1. session' = [session EXCEPT ![s].open = FALSE, ![s].abort = abort, ![s].next = 0,
                                     ![s].ready = ready, ![s].memory = memory]
      BY DEF Closed
    <2>2. abort \in Phases /\ memory \in {"none", "allocated", "freed"}
      BY <1>1 DEF SessionType, Phases
    <2> HIDE DEF abort, memory
    <2> DEFINE r == [session[s] EXCEPT !.open = FALSE, !.abort = abort, !.next = 0,
                                       !.ready = ready, !.memory = memory]
    <2>3. r \in SessionType
      <3>1. session[s] \in SessionType
        BY <1>1
      <3> QED BY <2>2, <3>1 DEF SessionType
    <2>4. session'[s] = r
      BY <1>1, <2>1
    <2>5. session' = [t \in Sessions |-> session'[t]]
      BY <1>1, <2>1
    <2>6. \A t \in Sessions \ {s} : session'[t] = session[t]
      BY <1>1, <2>1
    <2> HIDE DEF r
    <2> QED BY <1>1, <2>3, <2>4, <2>5, <2>6
  <1>3. /\ session'[s].open = FALSE /\ session'[s].next = 0 /\ session'[s].ready = ready
        /\ session'[s].processing = session[s].processing
        /\ session[s].abort = "live" => session'[s].abort = "true"
        /\ session[s].abort # "live" => session'[s].abort = session[s].abort
        /\ ready => session'[s].memory = "freed"
        /\ ~ ready => session'[s].memory = "allocated"
    BY <1>1 DEF Closed, SessionType, Alive
  <1>4. /\ scheduled' \subseteq scheduled
        /\ \A c \in scheduled' : c.n # session[s].next
    BY DEF Closed, Uncancelled
  <1>5. TypeOK'
    <2>1. scheduled' \subseteq [n : 1 .. nexts', session : Sessions]
      BY <1>1, <1>4
    <2>2. running' \subseteq Sessions /\ answers' \in [Sessions -> Seq(Nat)] /\ nexts' \in Nat
      BY <1>1
    <2> QED BY <1>2, <2>1, <2>2, Zenon DEF TypeOK, SessionType, ClientType, Bodies
  <1>6. Stages'
    <2> SUFFICES ASSUME NEW t \in Sessions
                 PROVE  /\ session'[t].open => Alive(t)' /\ (session'[t].ready <=> ~ client'[t].held)
                        /\ ~ session'[t].open =>
                             session'[t].next = 0 /\ (client'[t].held <=> Alive(t)')
                        /\ ~ session'[t].open /\ Alive(t)' => ~ session'[t].ready
                        /\ session'[t].memory = "none" =>
                             /\ client'[t].asked = 0 /\ answers'[t] = <<>>
                             /\ \A c \in scheduled' : c.session # t
      BY Zenon DEF Stages
    <2>1. CASE t = s
      BY <1>3, <2>1 DEF Alive
    <2>2. CASE t # s
      BY <1>2, <1>4, <2>2 DEF Inv, Stages, Alive
    <2> QED BY <2>1, <2>2
  <1>7. Reads'
    <2>1. \A t, u \in running' : t = u
      BY DEF Inv, Reads
    <2>2. ASSUME NEW t \in Sessions
          PROVE  /\ session'[t].abort = "live" => t \in running' /\ session'[t].open
                 /\ session'[t].abort = "true" => session'[t].memory = "freed"
                 /\ session'[t].processing => session'[t].abort # "none"
                 /\ t \in running' => Alive(t)' \/ session'[t].abort = "true"
      <3>1. CASE t = s
        BY <1>3, <3>1 DEF Inv, Reads, Alive
      <3>2. CASE t # s
        BY <1>2, <3>2 DEF Inv, Reads, Alive
      <3> QED BY <3>1, <3>2
    <2> QED BY <2>1, <2>2, Zenon DEF Reads
  <1>8. Calls'
    <2>1. \A c, d \in scheduled' : c.n = d.n => c = d
      BY <1>4 DEF Inv, Calls
    <2>2. ASSUME NEW c \in scheduled', ~ client'[c.session].overwrote
          PROVE  c.n = session'[c.session].next
      <3>1. c \in scheduled /\ c.session \in Sessions
        BY <1>1, <1>4
      <3>2. CASE c.session = s
        BY <1>4, <2>2, <3>1, <3>2 DEF Inv, Calls
      <3>3. CASE c.session # s
        BY <1>2, <2>2, <3>1, <3>3 DEF Inv, Calls
      <3> QED BY <3>2, <3>3
    <2> QED BY <2>1, <2>2, Zenon DEF Calls
  <1>9. AnsweredInOrder'
    <2>1. ASSUME NEW t \in Sessions
          PROVE  /\ answers'[t] = [i \in DOMAIN answers'[t] |-> i]
                 /\ session'[t].open =>
                      client'[t].asked = Len(answers'[t]) + (IF client'[t].held THEN 1 ELSE 0)
      <3>1. answers'[t] = [i \in DOMAIN answers'[t] |-> i]
        BY DEF Inv, AnsweredInOrder
      <3>2. ASSUME session'[t].open
            PROVE  client'[t].asked = Len(answers'[t]) + (IF client'[t].held THEN 1 ELSE 0)
        BY <1>2, <1>3, <3>2, ZenonT(60) DEF Inv, AnsweredInOrder
      <3> QED BY <3>1, <3>2
    <2> QED BY <2>1, Zenon DEF AnsweredInOrder
  <1> QED BY <1>5, <1>6, <1>7, <1>8, <1>9 DEF Inv

\* What the invariant says about one session
StageOf(s) ==
  /\ session[s].open => Alive(s) /\ (session[s].ready <=> ~ client[s].held)
  /\ ~ session[s].open => session[s].next = 0 /\ (client[s].held <=> Alive(s))
  /\ ~ session[s].open /\ Alive(s) => ~ session[s].ready
  /\ session[s].memory = "none" => /\ client[s].asked = 0 /\ answers[s] = <<>>
                                   /\ \A c \in scheduled : c.session # s

ReadOf(s) ==
  /\ session[s].abort = "live" => s \in running /\ session[s].open
  /\ session[s].abort = "true" => session[s].memory = "freed"
  /\ session[s].processing => session[s].abort # "none"
  /\ s \in running => Alive(s) \/ session[s].abort = "true"

AnswersOf(s) ==
  /\ answers[s] = [i \in DOMAIN answers[s] |-> i]
  /\ session[s].open => client[s].asked = Len(answers[s]) + (IF client[s].held THEN 1 ELSE 0)

\* A step that changes one session keeps the invariant if it keeps what the
\* invariant says about this one, about the scheduled calls and about the
\* session that reads.
LEMMA LocalInv ==
  ASSUME Inv, NEW s \in Sessions, TypeOK', Calls',
         \A t \in Sessions \ {s} : /\ session'[t] = session[t] /\ client'[t] = client[t]
                                   /\ answers'[t] = answers[t]
                                   /\ t \in running' => t \in running
                                   /\ session[t].abort = "live" => t \in running',
         \A c \in scheduled' : c \in scheduled \/ c.session = s,
         \A t, u \in running' : t = u,
         StageOf(s)', ReadOf(s)', AnswersOf(s)'
  PROVE  Inv'
  <1>1. Stages'
    <2> SUFFICES ASSUME NEW t \in Sessions PROVE StageOf(t)'
      BY Zenon DEF Stages, StageOf
    <2>1. CASE t # s
      BY <2>1 DEF Inv, Stages, StageOf, Alive
    <2> QED BY <2>1
  <1>2. Reads'
    <2> SUFFICES ASSUME NEW t \in Sessions PROVE ReadOf(t)'
      BY Zenon DEF Reads, ReadOf
    <2>1. CASE t # s
      BY <2>1 DEF Inv, Reads, ReadOf, Alive
    <2> QED BY <2>1
  <1>3. AnsweredInOrder'
    <2> SUFFICES ASSUME NEW t \in Sessions PROVE AnswersOf(t)'
      BY Zenon DEF AnsweredInOrder, AnswersOf
    <2>1. CASE t # s
      BY <2>1, ZenonT(60) DEF Inv, AnsweredInOrder, AnswersOf
    <2> QED BY <2>1
  <1> QED BY <1>1, <1>2, <1>3 DEF Inv

\* network_accept() hands over a connection.
LEMMA AcceptInv ==
  ASSUME Inv, NEW s \in Sessions, Accept(s)
  PROVE  Inv'
  <1>1. /\ session \in [Sessions -> SessionType] /\ session[s].memory = "none"
        /\ StageOf(s) /\ ReadOf(s) /\ AnswersOf(s)
    BY Typed, Zenon DEF Inv, Accept, Stages, Reads, AnsweredInOrder, StageOf, ReadOf, AnswersOf
  <1>2. /\ session' \in [Sessions -> SessionType]
        /\ \A t \in Sessions \ {s} : session'[t] = session[t]
        /\ session'[s].memory = "allocated" /\ session'[s].open /\ session'[s].ready
        /\ session'[s].processing = session[s].processing
        /\ session'[s].abort = session[s].abort /\ session'[s].next = session[s].next
    BY <1>1, ZenonT(60) DEF Accept, SessionType
  <1>4. UNCHANGED <<scheduled, nexts, running, client, answers>> /\ running = {}
    BY DEF Accept
  <1>3. TypeOK'
    BY <1>2, <1>4, ZenonT(60) DEF Inv, TypeOK, SessionType
  <1>5. StageOf(s)'
    BY <1>1, <1>2, <1>4 DEF StageOf, Alive
  <1>6. ReadOf(s)'
    BY <1>1, <1>2, <1>4 DEF ReadOf, Alive
  <1>7. AnswersOf(s)'
    <2>1. client[s].asked = 0 /\ ~ client[s].held /\ answers[s] = <<>>
      BY <1>1 DEF StageOf, Alive
    <2> QED BY <1>1, <1>4, <2>1 DEF AnswersOf
  <1>8. Calls'
    <2>1. scheduled \subseteq [n : 1 .. nexts, session : Sessions]
      BY DEF Inv, TypeOK
    <2>2. \A c \in scheduled : session'[c.session] = session[c.session]
      BY <1>1, <1>2, <2>1 DEF StageOf
    <2> QED BY <1>4, <2>2 DEF Inv, Calls
  <1>9. \A t \in Sessions \ {s} : session[t].abort # "live"
    BY <1>4 DEF Inv, Reads
  <1> QED BY <1>2, <1>3, <1>4, <1>5, <1>6, <1>7, <1>8, <1>9, LocalInv

\* What the invariant says about a session that an action is about.
LEMMA OwnFacts ==
  ASSUME Inv, NEW s \in Sessions
  PROVE  /\ session \in [Sessions -> SessionType] /\ session[s] \in SessionType
         /\ nexts \in Nat /\ scheduled \subseteq [n : 1 .. nexts, session : Sessions]
         /\ running \subseteq Sessions /\ \A t, u \in running : t = u
         /\ client \in [Sessions -> ClientType(Bodies(client))]
         /\ client[s].asked \in Nat /\ client[s].held \in BOOLEAN
         /\ answers \in [Sessions -> Seq(Nat)]
         /\ StageOf(s) /\ ReadOf(s) /\ AnswersOf(s)
  <1>1. /\ session \in [Sessions -> SessionType]
        /\ nexts \in Nat /\ scheduled \subseteq [n : 1 .. nexts, session : Sessions]
        /\ running \subseteq Sessions
        /\ client \in [Sessions -> ClientType(Bodies(client))]
        /\ answers \in [Sessions -> Seq(Nat)]
    BY Typed DEF Inv
  <1>2. StageOf(s) /\ ReadOf(s) /\ AnswersOf(s) /\ \A t, u \in running : t = u
    BY Zenon DEF Inv, Stages, Reads, AnsweredInOrder, StageOf, ReadOf, AnswersOf
  <1>3. session[s] \in SessionType
    BY <1>1
  <1>4. client[s].asked \in Nat /\ client[s].held \in BOOLEAN
    <2> DEFINE B == Bodies(client)
    <2> HIDE DEF B
    <2>1. client \in [Sessions -> ClientType(B)]
      BY <1>1 DEF B
    <2> QED BY <2>1 DEF ClientType
  <1> QED BY <1>1, <1>2, <1>3, <1>4

\* Input comes in.
LEMMA StreamReadInv ==
  ASSUME Inv, NEW s \in Sessions, NEW n \in Cuts, StreamRead(s, n)
  PROVE  Inv'
  <1>1. /\ running = {} /\ session[s].open /\ running' = {s}
        /\ UNCHANGED <<session, scheduled, nexts, client, answers>>
    BY DEF StreamRead
  <1>2. StageOf(s) /\ ReadOf(s) /\ AnswersOf(s)
    BY OwnFacts
  <1>3. TypeOK'
    BY <1>1 DEF Inv, TypeOK
  <1>4. Calls'
    BY <1>1 DEF Inv, Calls
  <1>5. StageOf(s)' /\ AnswersOf(s)'
    BY <1>1, <1>2 DEF StageOf, AnswersOf, Alive
  <1>6. ReadOf(s)'
    BY <1>1, <1>2 DEF StageOf, ReadOf, Alive
  <1>7. \A t \in Sessions \ {s} : session[t].abort # "live"
    BY <1>1 DEF Inv, Reads
  <1> QED BY <1>1, <1>3, <1>4, <1>5, <1>6, <1>7, LocalInv

\* The loop that parses ends.
LEMMA ReadDoneInv ==
  ASSUME Inv, NEW s \in Sessions, ReadDone(s)
  PROVE  Inv'
  <1>1. /\ s \in running /\ session[s].abort = "none" /\ running' = {}
        /\ UNCHANGED <<session, scheduled, nexts, client, answers>>
    BY DEF ReadDone, InCallback
  <1>2. StageOf(s) /\ ReadOf(s) /\ AnswersOf(s)
    BY OwnFacts
  <1>3. TypeOK'
    BY <1>1 DEF Inv, TypeOK
  <1>4. Calls'
    BY <1>1 DEF Inv, Calls
  <1>5. StageOf(s)' /\ AnswersOf(s)'
    BY <1>1, <1>2 DEF StageOf, AnswersOf, Alive
  <1>6. ReadOf(s)'
    BY <1>1, <1>2 DEF ReadOf, Alive
  <1>7. \A t \in Sessions \ {s} : session[t].abort # "live"
    BY <1>1 DEF Inv, Reads
  <1> QED BY <1>1, <1>3, <1>4, <1>5, <1>6, <1>7, LocalInv

\* The scheduled call of a session comes, and it is not known to it any more.
LEMMA SessionNextInv ==
  ASSUME Inv, SessionNext
  PROVE  Inv'
  <1>1. PICK c \in scheduled :
          /\ Alive(c.session) /\ scheduled' = scheduled \ {c}
          /\ session' = [session EXCEPT ![c.session].next = 0]
          /\ running' = {c.session}
    BY DEF SessionNext
  <1>2. running = {} /\ UNCHANGED <<nexts, client, answers>>
    BY DEF SessionNext
  <1> DEFINE s == c.session
  <1>3. s \in Sessions
    BY DEF Inv, TypeOK
  <1>4. /\ session \in [Sessions -> SessionType] /\ nexts \in Nat
        /\ scheduled \subseteq [n : 1 .. nexts, session : Sessions]
        /\ StageOf(s) /\ ReadOf(s) /\ AnswersOf(s)
    BY <1>3, OwnFacts
  <1> HIDE DEF s
  <1>5. /\ session' \in [Sessions -> SessionType]
        /\ \A t \in Sessions \ {s} : session'[t] = session[t]
        /\ session'[s].memory = session[s].memory /\ session'[s].open = session[s].open
        /\ session'[s].ready = session[s].ready /\ session'[s].abort = session[s].abort
        /\ session'[s].processing = session[s].processing /\ session'[s].next = 0
    BY <1>1, <1>3, <1>4 DEF SessionType, s
  <1>6. TypeOK'
    <2>1. /\ scheduled' \subseteq [n : 1 .. nexts', session : Sessions]
          /\ running' \subseteq Sessions
      BY <1>1, <1>2, <1>3, <1>4 DEF s
    <2> QED BY <1>2, <1>5, <2>1, ZenonT(60) DEF Inv, TypeOK, SessionType
  <1>7. Calls'
    <2>1. ASSUME NEW d \in scheduled', ~ client'[d.session].overwrote
          PROVE  d.n = session'[d.session].next
      <3>1. /\ d \in scheduled /\ d # c /\ ~ client[d.session].overwrote
            /\ d.session \in Sessions
        BY <1>1, <1>2, <1>4, <2>1
      <3>2. d.n = session[d.session].next
        BY <3>1 DEF Inv, Calls
      <3>3. d.session # s
        <4> SUFFICES ASSUME d.session = s PROVE FALSE
          OBVIOUS
        <4>1. c.n = session[s].next
          BY <3>1 DEF Inv, Calls, s
        <4> QED BY <3>1, <3>2, <4>1 DEF Inv, Calls
      <3> QED BY <1>5, <3>1, <3>2, <3>3
    <2>2. \A d, e \in scheduled' : d.n = e.n => d = e
      BY <1>1 DEF Inv, Calls
    <2> QED BY <2>1, <2>2, Zenon DEF Calls
  <1>8. StageOf(s)'
    BY <1>1, <1>2, <1>4, <1>5 DEF StageOf, Alive
  <1>9. AnswersOf(s)'
    BY <1>2, <1>4, <1>5 DEF AnswersOf
  <1>10. ReadOf(s)'
    BY <1>1, <1>4, <1>5 DEF ReadOf, Alive, s
  <1>11. \A t \in Sessions \ {s} : session[t].abort # "live"
    BY <1>2 DEF Inv, Reads
  <1>12. /\ \A t \in Sessions \ {s} : t \notin running'
         /\ \A t, u \in running' : t = u
         /\ \A d \in scheduled' : d \in scheduled
    BY <1>1 DEF s
  <1> QED BY <1>2, <1>3, <1>5, <1>6, <1>7, <1>8, <1>9, <1>10, <1>11, <1>12, LocalInv

\* A session that is ready for a request in its own loop is open, and the
\* client holds no request of it.
LEMMA ReadyFacts ==
  ASSUME Inv, NEW s \in Sessions, s \in running, session[s].abort = "none", session[s].ready
  PROVE  session[s].open /\ Alive(s) /\ ~ client[s].held
  <1>1. StageOf(s) /\ ReadOf(s)
    BY OwnFacts
  <1> QED BY <1>1 DEF StageOf, ReadOf

\* The loop that parses passes a request on.
LEMMA SessionRequestInv ==
  ASSUME Inv, NEW s \in Sessions, SessionRequest(s)
  PROVE  Inv'
  <1>1. /\ s \in running /\ session[s].abort = "none" /\ session[s].ready
        /\ session' = [session EXCEPT ![s].ready = FALSE, ![s].processing = TRUE,
                                      ![s].abort = "live"]
        /\ UNCHANGED <<scheduled, nexts, running, answers>>
    BY DEF SessionRequest, InCallback
  <1>2. /\ session \in [Sessions -> SessionType]
        /\ client \in [Sessions -> ClientType(Bodies(client))]
        /\ client[s].asked \in Nat /\ \A t, u \in running : t = u
        /\ answers \in [Sessions -> Seq(Nat)]
        /\ StageOf(s) /\ ReadOf(s) /\ AnswersOf(s)
    BY OwnFacts
  <1>3. session[s].open /\ Alive(s) /\ ~ client[s].held
    BY <1>1, ReadyFacts
  <1>4. /\ session' \in [Sessions -> SessionType]
        /\ \A t \in Sessions \ {s} : session'[t] = session[t]
        /\ session'[s].memory = "allocated" /\ session'[s].open /\ ~ session'[s].ready
        /\ session'[s].abort = "live" /\ session'[s].next = session[s].next
    BY <1>1, <1>2, <1>3, ZenonT(60) DEF SessionType, Phases, Alive
  <1>5. /\ client' \in [Sessions -> ClientType(Bodies(client'))]
        /\ \A t \in Sessions \ {s} : client'[t] = client[t]
        /\ client'[s].asked = client[s].asked + 1 /\ client'[s].held
        /\ client'[s].overwrote = client[s].overwrote
    <2> DEFINE body == found[s].body
    <2>1. client' = [client EXCEPT ![s].asked = @ + 1, ![s].held = TRUE,
                                   ![s].bodies = Append(@, body)]
      BY DEF SessionRequest
    <2> HIDE DEF body
    <2> QED BY <1>2, <2>1, AskedFacts
  <1>6. TypeOK'
    BY <1>1, <1>4, <1>5, Zenon DEF Inv, TypeOK, SessionType, ClientType, Bodies
  <1>7. Calls'
    <2>1. scheduled \subseteq [n : 1 .. nexts, session : Sessions]
      BY OwnFacts
    <2>2. \A c \in scheduled : /\ session'[c.session].next = session[c.session].next
                               /\ client'[c.session].overwrote = client[c.session].overwrote
      BY <1>4, <1>5, <2>1
    <2> QED BY <1>1, <2>2 DEF Inv, Calls
  <1>8. StageOf(s)' /\ ReadOf(s)'
    BY <1>1, <1>4, <1>5 DEF StageOf, ReadOf, Alive
  <1>9. AnswersOf(s)'
    BY <1>1, <1>2, <1>3, <1>5 DEF AnswersOf
  <1>10. \A t \in Sessions \ {s} : t \notin running
    BY <1>1, <1>2
  <1>11. \A t \in Sessions \ {s} : session[t].abort # "live"
    BY <1>10 DEF Inv, Reads
  <1> QED BY <1>1, <1>2, <1>4, <1>5, <1>6, <1>7, <1>8, <1>9, <1>10, <1>11, LocalInv, ZenonT(60)

\* The client's callback returns to the loop that parses.
LEMMA ReturnInv ==
  ASSUME Inv, NEW s \in Sessions, Return(s)
  PROVE  Inv'
  <1>1. /\ s \in running /\ session[s].abort # "none"
        /\ UNCHANGED <<scheduled, nexts, client, answers>>
    BY DEF Return, InCallback
  <1>2. /\ session \in [Sessions -> SessionType]
        /\ \A t, u \in running : t = u
        /\ StageOf(s) /\ ReadOf(s) /\ AnswersOf(s)
    BY OwnFacts
  <1>3. \A t \in Sessions \ {s} : t \notin running
    BY <1>1, <1>2
  <1>4. \A t \in Sessions \ {s} : session[t].abort # "live"
    BY <1>3 DEF Inv, Reads
  <1>5. CASE session[s].abort = "true"
    <2>1. running' = {} /\ UNCHANGED session
      BY <1>5 DEF Return
    <2>2. TypeOK'
      BY <1>1, <2>1 DEF Inv, TypeOK
    <2>3. Calls'
      BY <1>1, <2>1 DEF Inv, Calls
    <2>4. StageOf(s)' /\ AnswersOf(s)'
      BY <1>1, <1>2, <2>1 DEF StageOf, AnswersOf, Alive
    <2>5. ReadOf(s)'
      BY <1>2, <1>5, <2>1 DEF ReadOf, Alive
    <2> QED BY <1>1, <1>3, <1>4, <2>1, <2>2, <2>3, <2>4, <2>5, LocalInv
  <1>6. CASE session[s].abort # "true"
    <2>1. /\ session' = [session EXCEPT ![s].abort = "none", ![s].processing = FALSE]
          /\ UNCHANGED running
      BY <1>6 DEF Return
    <2>2. session[s].abort = "live"
      BY <1>1, <1>2, <1>6 DEF SessionType, Phases
    <2>3. /\ session' \in [Sessions -> SessionType]
          /\ \A t \in Sessions \ {s} : session'[t] = session[t]
          /\ session'[s].memory = session[s].memory /\ session'[s].open = session[s].open
          /\ session'[s].ready = session[s].ready /\ session'[s].abort = "none"
          /\ ~ session'[s].processing /\ session'[s].next = session[s].next
      BY <1>2, <2>1, ZenonT(60) DEF SessionType, Phases
    <2>4. TypeOK'
      <3>1. UNCHANGED <<scheduled, nexts, running, client, answers>>
        BY <1>1, <2>1
      <3> QED BY <2>3, <3>1, ZenonT(60) DEF Inv, TypeOK, SessionType
    <2>5. Calls'
      <3>1. scheduled \subseteq [n : 1 .. nexts, session : Sessions]
        BY OwnFacts
      <3>2. \A c \in scheduled : session'[c.session].next = session[c.session].next
        BY <2>3, <3>1
      <3> QED BY <1>1, <3>2 DEF Inv, Calls
    <2>6. StageOf(s)' /\ AnswersOf(s)'
      <3>1. StageOf(s)'
        BY <1>1, <1>2, <2>3 DEF StageOf, Alive
      <3>2. AnswersOf(s)'
        BY <1>1, <1>2, <2>3 DEF AnswersOf
      <3> QED BY <3>1, <3>2
    <2>7. ReadOf(s)'
      BY <1>2, <2>1, <2>2, <2>3 DEF ReadOf, StageOf, Alive
    <2> QED BY <1>1, <1>2, <1>4, <2>1, <2>3, <2>4, <2>5, <2>6, <2>7, LocalInv
  <1> QED BY <1>5, <1>6

\* The client runs while a session reads only in the callback of this one.
LEMMA ClientFacts ==
  ASSUME Inv, ClientRuns, NEW s \in running
  PROVE  session[s].abort # "none"
  BY DEF Inv, Reads, ClientRuns, InCallback

\* The answer to a request of an open session.
LEMMA AnsweredFacts ==
  ASSUME Inv, NEW s \in Sessions, session[s].open, client[s].held,
         answers' = [answers EXCEPT ![s] = Append(@, client[s].asked)]
  PROVE  /\ answers' \in [Sessions -> Seq(Nat)]
         /\ \A t \in Sessions \ {s} : answers'[t] = answers[t]
         /\ answers'[s] = [i \in DOMAIN answers'[s] |-> i]
         /\ client[s].asked = Len(answers'[s])
  <1> DEFINE a == answers[s]
             n == client[s].asked
  <1>1. a \in Seq(Nat) /\ n \in Nat /\ AnswersOf(s)
    BY OwnFacts
  <1>2. a = [i \in DOMAIN a |-> i] /\ n = Len(a) + 1
    BY <1>1 DEF AnswersOf
  <1>3. answers' = [answers EXCEPT ![s] = Append(a, n)]
    OBVIOUS
  <1>4. answers \in [Sessions -> Seq(Nat)]
    BY OwnFacts
  <1> HIDE DEF a, n
  <1>5. /\ Append(a, n) \in Seq(Nat) /\ Len(Append(a, n)) = n
        /\ \A i \in 1 .. n : Append(a, n)[i] = i
    BY <1>1, <1>2
  <1>6. answers'[s] = Append(a, n) /\ \A t \in Sessions \ {s} : answers'[t] = answers[t]
    BY <1>3, <1>4
  <1>7. answers' \in [Sessions -> Seq(Nat)]
    BY <1>3, <1>4, <1>5
  <1>8. answers'[s] = [i \in DOMAIN answers'[s] |-> i]
    <2> DEFINE b == Append(a, n)
    <2>1. b \in Seq(Nat) /\ DOMAIN b = 1 .. n /\ \A i \in 1 .. n : b[i] = i
      BY <1>1, <1>5
    <2> HIDE DEF b
    <2>2. b = [i \in DOMAIN b |-> b[i]]
      BY <2>1
    <2>3. b = [i \in DOMAIN b |-> i]
      BY <2>1, <2>2
    <2>4. answers'[s] = b
      BY <1>6 DEF b
    <2> QED BY <2>3, <2>4
  <1> QED BY <1>5, <1>6, <1>7, <1>8 DEF n

\* server_respond(): of an open session, in its callback or later, or of one
\* that was closed meanwhile.
LEMMA RespondInv ==
  ASSUME Inv, NEW s \in Sessions, Respond(s)
  PROVE  Inv'
  <1>1. /\ ClientRuns /\ client[s].held /\ UNCHANGED running
    BY DEF Respond
  <1>2. /\ session \in [Sessions -> SessionType]
        /\ nexts \in Nat /\ scheduled \subseteq [n : 1 .. nexts, session : Sessions]
        /\ running \subseteq Sessions /\ \A t, u \in running : t = u
        /\ client \in [Sessions -> ClientType(Bodies(client))]
        /\ StageOf(s) /\ ReadOf(s) /\ AnswersOf(s)
    BY OwnFacts
  <1>3. \A t \in Sessions : session[t].abort = "live" => t \in running
    BY DEF Inv, Reads
  <1>4. CASE session[s].open /\ session[s].processing
    <2>1. /\ answers' = [answers EXCEPT ![s] = Append(@, client[s].asked)]
          /\ session' = [session EXCEPT ![s].ready = TRUE]
          /\ client' = [client EXCEPT ![s].held = FALSE]
          /\ UNCHANGED <<scheduled, nexts>>
      BY <1>4 DEF Respond
    <2>2. /\ answers' \in [Sessions -> Seq(Nat)]
          /\ \A t \in Sessions \ {s} : answers'[t] = answers[t]
          /\ answers'[s] = [i \in DOMAIN answers'[s] |-> i]
          /\ client[s].asked = Len(answers'[s])
      BY <1>1, <1>4, <2>1, AnsweredFacts
    <2>3. /\ client' \in [Sessions -> ClientType(Bodies(client'))]
          /\ \A t \in Sessions \ {s} : client'[t] = client[t]
          /\ client'[s].asked = client[s].asked /\ ~ client'[s].held
          /\ client'[s].overwrote = client[s].overwrote
      BY <1>2, <2>1, ReleasedFacts
    <2>4. /\ session' \in [Sessions -> SessionType]
          /\ \A t \in Sessions \ {s} : session'[t] = session[t]
          /\ session'[s].memory = session[s].memory /\ session'[s].open
          /\ session'[s].ready /\ session'[s].abort = session[s].abort
          /\ session'[s].processing = session[s].processing
          /\ session'[s].next = session[s].next
      BY <1>2, <1>4, <2>1 DEF SessionType
    <2>5. TypeOK'
      BY <1>1, <2>1, <2>2, <2>3, <2>4, Zenon DEF Inv, TypeOK, SessionType, ClientType, Bodies
    <2>6. Calls'
      <3>1. \A c \in scheduled : /\ session'[c.session].next = session[c.session].next
                                 /\ client'[c.session].overwrote = client[c.session].overwrote
        BY <1>2, <2>3, <2>4
      <3> QED BY <2>1, <3>1 DEF Inv, Calls
    <2>7. StageOf(s)'
      BY <1>2, <1>4, <2>3, <2>4 DEF StageOf, Alive
    <2>8. ReadOf(s)'
      BY <1>1, <1>2, <1>4, <2>4 DEF ReadOf, Alive
    <2>9. AnswersOf(s)'
      BY <2>2, <2>3 DEF AnswersOf
    <2> QED BY <1>1, <1>2, <1>3, <2>1, <2>2, <2>3, <2>4, <2>5, <2>6, <2>7, <2>8, <2>9, LocalInv
  <1>5. CASE session[s].open /\ ~ session[s].processing
    <2>1. /\ answers' = [answers EXCEPT ![s] = Append(@, client[s].asked)]
          /\ session' = [session EXCEPT ![s].ready = TRUE, ![s].next = nexts + 1]
          /\ client' = [client EXCEPT ![s].held = FALSE,
                                      ![s].overwrote = @ \/ session[s].next # 0]
          /\ nexts' = nexts + 1
          /\ scheduled' = scheduled \cup {[n |-> nexts + 1, session |-> s]}
      BY <1>5 DEF Respond
    <2>2. /\ answers' \in [Sessions -> Seq(Nat)]
          /\ \A t \in Sessions \ {s} : answers'[t] = answers[t]
          /\ answers'[s] = [i \in DOMAIN answers'[s] |-> i]
          /\ client[s].asked = Len(answers'[s])
      BY <1>1, <1>5, <2>1, AnsweredFacts
    <2>3. /\ client' \in [Sessions -> ClientType(Bodies(client'))]
          /\ \A t \in Sessions \ {s} : client'[t] = client[t]
          /\ client'[s].asked = client[s].asked /\ ~ client'[s].held
          /\ client'[s].overwrote <=> client[s].overwrote \/ session[s].next # 0
      <3> DEFINE over == session[s].next # 0
      <3>1. over \in BOOLEAN /\ client' = [client EXCEPT ![s].held = FALSE,
                                                         ![s].overwrote = @ \/ over]
        BY <2>1
      <3> HIDE DEF over
      <3>2. /\ client' \in [Sessions -> ClientType(Bodies(client'))]
            /\ \A t \in Sessions \ {s} : client'[t] = client[t]
            /\ client'[s].asked = client[s].asked /\ ~ client'[s].held
            /\ client'[s].overwrote <=> client[s].overwrote \/ over
        BY <1>2, <3>1, LaterFacts
      <3> QED BY <3>2 DEF over
    <2>4. /\ session' \in [Sessions -> SessionType]
          /\ \A t \in Sessions \ {s} : session'[t] = session[t]
          /\ session'[s].memory = session[s].memory /\ session'[s].open
          /\ session'[s].ready /\ session'[s].abort = session[s].abort
          /\ session'[s].processing = session[s].processing
          /\ session'[s].next = nexts + 1
      <3> DEFINE next == nexts + 1
      <3>1. next \in Nat /\ session' = [session EXCEPT ![s].ready = TRUE, ![s].next = next]
        BY <1>2, <2>1
      <3> HIDE DEF next
      <3>2. session[s].open
        BY <1>5
      <3>3. /\ session' \in [Sessions -> SessionType]
            /\ \A t \in Sessions \ {s} : session'[t] = session[t]
            /\ session'[s].memory = session[s].memory /\ session'[s].open
            /\ session'[s].ready /\ session'[s].abort = session[s].abort
            /\ session'[s].processing = session[s].processing
            /\ session'[s].next = next
        BY <1>2, <3>1, <3>2 DEF SessionType
      <3> QED BY <3>3 DEF next
    <2>5. /\ scheduled' \subseteq [n : 1 .. nexts', session : Sessions]
          /\ nexts' \in Nat
          /\ \A c \in scheduled' : \/ c \in scheduled /\ c.n \in 1 .. nexts /\ c.session \in Sessions
                                   \/ c.n = nexts + 1 /\ c.session = s
                                      /\ c = [n |-> nexts + 1, session |-> s]
      <3> DEFINE new == [n |-> nexts + 1, session |-> s]
      <3>1. nexts' \in Nat /\ nexts + 1 \in 1 .. nexts' /\ 1 .. nexts \subseteq 1 .. nexts'
        BY <1>2, <2>1
      <3>2. new \in [n : 1 .. nexts', session : Sessions]
        BY <3>1
      <3>3. [n : 1 .. nexts, session : Sessions] \subseteq [n : 1 .. nexts', session : Sessions]
        BY <3>1
      <3>4. new.n = nexts + 1 /\ new.session = s
        OBVIOUS
      <3>5. \A c \in scheduled : c.n \in 1 .. nexts /\ c.session \in Sessions
        BY <1>2
      <3>6. scheduled' = scheduled \cup {new}
        BY <2>1
      <3> HIDE DEF new
      <3>7. scheduled' \subseteq [n : 1 .. nexts', session : Sessions]
        BY <1>2, <3>2, <3>3, <3>6
      <3>8. \A c \in scheduled' : c \in scheduled \/ c = new
        BY <3>6, Zenon
      <3>9. \A c \in scheduled' : \/ c \in scheduled /\ c.n \in 1 .. nexts /\ c.session \in Sessions
                                  \/ c.n = nexts + 1 /\ c.session = s /\ c = new
        <4> SUFFICES ASSUME NEW c \in scheduled'
                     PROVE  \/ c \in scheduled /\ c.n \in 1 .. nexts /\ c.session \in Sessions
                            \/ c.n = nexts + 1 /\ c.session = s /\ c = new
          OBVIOUS
        <4>1. CASE c \in scheduled
          BY <3>5, <4>1
        <4>2. CASE c = new
          BY <3>4, <4>2
        <4> QED BY <3>8, <4>1, <4>2
      <3> QED BY <3>1, <3>7, <3>9 DEF new
    <2>6. TypeOK'
      <3>1. running' \subseteq Sessions
        BY <1>1, <1>2
      <3> QED BY <2>2, <2>3, <2>4, <2>5, <3>1, Zenon DEF TypeOK, SessionType, ClientType, Bodies
    <2>7. Calls'
      <3>1. ASSUME NEW c \in scheduled', ~ client'[c.session].overwrote
            PROVE  c.n = session'[c.session].next
        <4>1. CASE c.session = s
          <5>1. ~ client[s].overwrote /\ session[s].next = 0
            BY <2>3, <3>1, <4>1
          <5>2. ~ (c \in scheduled /\ c.n \in 1 .. nexts)
            BY <4>1, <5>1 DEF Inv, Calls
          <5>3. c.n = nexts + 1
            BY <2>5, <5>2
          <5> QED BY <2>4, <4>1, <5>3
        <4>2. CASE c.session # s
          <5>1. c \in scheduled /\ c.session \in Sessions
            BY <2>5, <4>2
          <5> QED BY <2>3, <2>4, <3>1, <4>2, <5>1 DEF Inv, Calls
        <4> QED BY <4>1, <4>2
      <3>2. ASSUME NEW c \in scheduled', NEW d \in scheduled', c.n = d.n
            PROVE  c = d
        <4>1. nexts + 1 \notin 1 .. nexts
          BY <1>2
        <4>2. CASE c \in scheduled /\ d \in scheduled
          BY <3>2, <4>2 DEF Inv, Calls
        <4> QED BY <2>5, <3>2, <4>1, <4>2
      <3> QED BY <3>1, <3>2, Zenon DEF Calls
    <2>8. StageOf(s)'
      BY <1>2, <1>5, <2>3, <2>4 DEF StageOf, Alive
    <2>9. ReadOf(s)'
      BY <1>1, <1>2, <1>5, <2>4 DEF ReadOf, Alive
    <2>10. AnswersOf(s)'
      BY <2>2, <2>3 DEF AnswersOf
    <2>11. \A c \in scheduled' : c \in scheduled \/ c.session = s
      BY <2>5
    <2> QED BY <1>1, <1>2, <1>3, <2>2, <2>3, <2>4, <2>6, <2>7, <2>8, <2>9, <2>10, <2>11, LocalInv
  <1>6. CASE ~ session[s].open
    <2>1. /\ Closed(s, TRUE) /\ client' = [client EXCEPT ![s].held = FALSE]
          /\ UNCHANGED <<answers, nexts>>
      BY <1>6 DEF Respond
    <2>2. /\ client' \in [Sessions -> ClientType(Bodies(client'))]
          /\ \A t \in Sessions \ {s} : client'[t] = client[t]
          /\ client'[s].asked = client[s].asked /\ ~ client'[s].held
          /\ client'[s].overwrote = client[s].overwrote
      BY <1>2, <2>1, ReleasedFacts
    <2>3. Alive(s) /\ session[s].abort = "none"
      <3>1. Alive(s)
        BY <1>1, <1>2, <1>6 DEF StageOf
      <3> QED BY <1>2, <1>6, <3>1 DEF ReadOf, Alive, SessionType, Phases
    <2>4. s \notin running
      BY <1>1, <2>3, ClientFacts
    <2>5. running' = {} => \A t \in Sessions : session[t].abort # "live"
      BY <1>1, <1>3
    <2> DEFINE ready == TRUE
    <2>6. ready \in BOOLEAN /\ Closed(s, ready) /\ (client'[s].held <=> ~ ready)
      BY <2>1, <2>2
    <2>7. session[s].abort = "live" => ready
      OBVIOUS
    <2>8. running' \in {{}, running} /\ s \notin running'
      BY <1>1, <2>4
    <2> HIDE DEF ready
    <2> QED BY <2>1, <2>2, <2>3, <2>5, <2>6, <2>7, <2>8, ClosedInv
  <1> QED BY <1>4, <1>5, <1>6

\* server_disconnect().
LEMMA DisconnectInv ==
  ASSUME Inv, NEW s \in Sessions, Disconnect(s)
  PROVE  Inv'
  <1> DEFINE ready == TRUE
  <1>1. /\ ClientRuns /\ Alive(s) /\ Closed(s, ready)
        /\ client' = [client EXCEPT ![s].held = FALSE]
        /\ UNCHANGED <<nexts, running, answers>>
    BY DEF Disconnect
  <1>2. /\ client \in [Sessions -> ClientType(Bodies(client))]
        /\ session[s] \in SessionType /\ ReadOf(s)
    BY OwnFacts
  <1>3. /\ client' \in [Sessions -> ClientType(Bodies(client'))]
        /\ \A t \in Sessions \ {s} : client'[t] = client[t]
        /\ client'[s].asked = client[s].asked /\ ~ client'[s].held
        /\ client'[s].overwrote = client[s].overwrote
    BY <1>1, <1>2, ReleasedFacts
  <1>4. s \in running => session[s].abort = "live"
    <2>1. s \in running => session[s].abort # "none"
      BY <1>1, ClientFacts
    <2> QED BY <1>1, <1>2, <2>1 DEF ReadOf, Alive, SessionType, Phases
  <1>5. running' = {} => \A t \in Sessions : session[t].abort # "live"
    BY <1>1 DEF Inv, Reads
  <1>6. ready \in BOOLEAN /\ (client'[s].held <=> ~ ready) /\ (session[s].abort = "live" => ready)
    BY <1>3
  <1> HIDE DEF ready
  <1> QED BY <1>1, <1>3, <1>4, <1>5, <1>6, ClosedInv

\* The peer closes the connection, or it fails.
LEMMA StreamEndInv ==
  ASSUME Inv, NEW s \in Sessions, StreamEnd(s)
  PROVE  Inv'
  <1> DEFINE ready == session[s].ready
  <1>1. /\ running = {} /\ session[s].open /\ Closed(s, ready)
        /\ UNCHANGED <<nexts, running, answers, client>>
    BY DEF StreamEnd
  <1>2. /\ client \in [Sessions -> ClientType(Bodies(client))]
        /\ session[s] \in SessionType /\ StageOf(s)
    BY OwnFacts
  <1>3. Alive(s) /\ ready \in BOOLEAN /\ (client'[s].held <=> ~ ready)
    BY <1>1, <1>2 DEF StageOf, SessionType
  <1>4. \A t \in Sessions : session[t].abort # "live"
    BY <1>1 DEF Inv, Reads
  <1>5. client' \in [Sessions -> ClientType(Bodies(client'))]
    BY <1>1, <1>2
  <1> HIDE DEF ready
  <1> QED BY <1>1, <1>3, <1>4, <1>5, ClosedInv

\* The input is not a request.
LEMMA ReadBadInv ==
  ASSUME Inv, NEW s \in Sessions, ReadBad(s)
  PROVE  Inv'
  <1> DEFINE ready == TRUE
  <1>1. /\ s \in running /\ session[s].abort = "none" /\ session[s].ready
        /\ Closed(s, ready) /\ running' = {}
        /\ UNCHANGED <<nexts, answers, client>>
    BY DEF ReadBad, InCallback
  <1>2. client \in [Sessions -> ClientType(Bodies(client))]
    BY OwnFacts
  <1>3. Alive(s) /\ ~ client[s].held
    BY <1>1, ReadyFacts
  <1>4. \A t \in Sessions : session[t].abort # "live"
    BY <1>1 DEF Inv, Reads
  <1>5. client' \in [Sessions -> ClientType(Bodies(client'))]
    BY <1>1, <1>2
  <1>6. ready \in BOOLEAN /\ (client'[s].held <=> ~ ready)
    BY <1>1, <1>3
  <1> HIDE DEF ready
  <1> QED BY <1>1, <1>3, <1>4, <1>5, <1>6, ClosedInv

\* Every step keeps the invariant.
LEMMA NextInv == Inv /\ [Next]_vars => Inv'
  <1> SUFFICES ASSUME Inv, [Next]_vars PROVE Inv'
    OBVIOUS
  <1>1. CASE Open \/ Close
    BY <1>1, KeptInv DEF Open, Close, Kept
  <1>2. CASE UNCHANGED vars
    BY <1>2, KeptInv DEF vars, Kept
  <1>3. CASE SessionNext
    BY <1>3, SessionNextInv
  <1>4. ASSUME NEW s \in Sessions, Accept(s) \/ StreamEnd(s) \/ \E n \in Cuts : StreamRead(s, n)
        PROVE  Inv'
    BY <1>4, AcceptInv, StreamEndInv, StreamReadInv
  <1>5. ASSUME NEW s \in Sessions, SessionRequest(s) \/ ReadBad(s) \/ ReadDone(s) \/ Return(s)
        PROVE  Inv'
    BY <1>5, SessionRequestInv, ReadBadInv, ReadDoneInv, ReturnInv
  <1>6. ASSUME NEW s \in Sessions, Respond(s) \/ Disconnect(s)
        PROVE  Inv'
    BY <1>6, RespondInv, DisconnectInv
  <1> QED BY <1>1, <1>2, <1>3, <1>4, <1>5, <1>6 DEF Next

\* A session of server.c is open, or closed while the client holds a request of
\* it, or freed; the flag abort and session->next say what they are read for.
THEOREM Invariance == Spec => []Inv
  <1>1. Inv /\ [Next]_vars => Inv'
    BY NextInv
  <1> QED BY InitInv, <1>1, PTL DEF Spec

\* server_session_read() and server_respond() answer the requests of a session
\* once each and in the order in which they came, for every interleaving of
\* input, scheduled calls, answers and closing, of any number of sessions.
THEOREM AnswersInOrder == Spec => []AnsweredInOrder
  <1>1. Inv => AnsweredInOrder
    BY DEF Inv
  <1> QED BY <1>1, Invariance, PTL

\* server_session_close() and server_respond() free a session when the client,
\* the loop that parses and the scheduled call have no use for it, not earlier
\* and not later, unless server_respond() has overwritten session->next.
THEOREM SessionsFreedInTime == Spec => []FreedInTime
  <1>1. Inv => FreedInTime
    <2> SUFFICES ASSUME Inv, NEW s \in Sessions
                 PROVE  /\ session[s].memory = "freed" /\ ~ client[s].overwrote =>
                             /\ \A c \in scheduled : c.session # s
                             /\ s \in running => session[s].abort = "true"
                             /\ ~ client[s].held
                        /\ Alive(s) /\ ~ session[s].open => client[s].held
      BY Zenon DEF FreedInTime
    <2>1. StageOf(s) /\ ReadOf(s) /\ scheduled \subseteq [n : 1 .. nexts, session : Sessions]
      BY OwnFacts
    <2>2. ASSUME session[s].memory = "freed", ~ client[s].overwrote,
                 NEW c \in scheduled, c.session = s
          PROVE  FALSE
      <3>1. session[s].next = 0
        BY <2>1, <2>2 DEF StageOf, Alive
      <3>2. c.n = session[s].next
        BY <2>2 DEF Inv, Calls
      <3>3. c.n \in 1 .. nexts /\ nexts \in Nat
        BY <2>1, OwnFacts
      <3> QED BY <3>1, <3>2, <3>3
    <2>3. /\ session[s].memory = "freed" =>
               /\ s \in running => session[s].abort = "true"
               /\ ~ client[s].held
          /\ Alive(s) /\ ~ session[s].open => client[s].held
      BY <2>1 DEF StageOf, ReadOf, Alive
    <2> QED BY <2>2, <2>3
  <1> QED BY <1>1, Invariance, PTL


-----------------------------------------------------------------------------
(* Induction over a range of numbers, for a set in place of a predicate *)

\* What holds of 0, and of each number if it holds of the one before, holds of
\* all: else the numbers up to one of which it does not hold, less one each,
\* would be the same set without that one, which has fewer elements.
LEMMA SetInduction ==
  ASSUME NEW N \in Nat, NEW T, 0 \in T, \A n \in 1 .. N : n - 1 \in T => n \in T
  PROVE  \A n \in 0 .. N : n \in T
  <1> SUFFICES ASSUME NEW k \in 0 .. N, k \notin T
               PROVE  FALSE
    OBVIOUS
  <1> DEFINE D == {n \in 0 .. k : n \notin T}
             f == [n \in D |-> n - 1]
  <1>1. IsFiniteSet(D)
    <2>1. IsFiniteSet(0 .. k)
      BY FS_Interval
    <2>2. D \subseteq 0 .. k
      OBVIOUS
    <2> QED BY <2>1, <2>2, FS_Subset
  <1>2. k \in D
    OBVIOUS
  <1>3. IsFiniteSet(D \ {k}) /\ Cardinality(D \ {k}) = Cardinality(D) - 1
    BY <1>1, <1>2, FS_RemoveElement
  <1>4. Cardinality(D) \in Nat
    BY <1>1, FS_CardinalityType
  <1>5. f \in [D -> D \ {k}]
    <2> SUFFICES ASSUME NEW n \in D PROVE n - 1 \in D \ {k}
      OBVIOUS
    <2> QED OBVIOUS
  <1> HIDE DEF f
  <1>6. \E x, y \in D : x # y /\ f[x] = f[y]
    BY <1>1, <1>3, <1>4, <1>5, FS_PigeonHole
  <1> QED BY <1>6 DEF f

\* The first value is a, and each of the N others a step from the one before.
Steps(S, N) == [1 .. N -> [S -> S]]

Iteration(f, S, a, N, F) ==
  /\ f \in [0 .. N -> S]
  /\ f[0] = a
  /\ \A n \in 1 .. N : f[n] = F[n][f[n - 1]]

\* A function that is defined step by step exists.
LEMMA Iterates ==
  ASSUME NEW S, NEW a \in S, NEW N \in Nat, NEW F \in Steps(S, N)
  PROVE  \E f : Iteration(f, S, a, N, F)
  <1> DEFINE Upto(k, f) == f[0] = a /\ \A n \in 1 .. k : f[n] = F[n][f[n - 1]]
             T == {k \in 0 .. N : \E f \in [0 .. k -> S] : Upto(k, f)}
  <1>1. 0 \in T
    <2>1. PICK f : f = [n \in 0 .. 0 |-> a]
      OBVIOUS
    <2>2. f \in [0 .. 0 -> S]
      BY <2>1
    <2>3. f[0] = a
      BY <2>1
    <2>4. Upto(0, f)
      BY <2>3
    <2>5. 0 \in 0 .. N
      OBVIOUS
    <2> QED BY <2>2, <2>4, <2>5
  <1>2. ASSUME NEW k \in 1 .. N, k - 1 \in T PROVE k \in T
    <2>1. PICK f \in [0 .. k - 1 -> S] : Upto(k - 1, f)
      BY <1>2
    <2> DEFINE g == [n \in 0 .. k |-> IF n = k THEN F[k][f[k - 1]] ELSE f[n]]
    <2>2. F[k][f[k - 1]] \in S
      BY DEF Steps
    <2>3. g \in [0 .. k -> S]
      BY <2>2
    <2>4. g[k] = F[k][f[k - 1]] /\ \A n \in 0 .. k - 1 : g[n] = f[n]
      OBVIOUS
    <2> HIDE DEF g
    <2>5. ASSUME NEW n \in 1 .. k PROVE g[n] = F[n][g[n - 1]]
      <3>1. CASE n = k
        BY <2>4, <3>1
      <3>2. CASE n # k
        <4>1. n \in 1 .. k - 1 /\ n \in 0 .. k - 1 /\ n - 1 \in 0 .. k - 1
          BY <3>2
        <4>2. f[n] = F[n][f[n - 1]]
          BY <2>1, <4>1
        <4> QED BY <2>4, <4>1, <4>2
      <3> QED BY <3>1, <3>2
    <2>6. g[0] = a
      BY <2>1, <2>4
    <2> QED BY <2>3, <2>5, <2>6
  <1> HIDE DEF T
  <1>3. \A n \in 0 .. N : n \in T
    BY <1>1, <1>2, SetInduction
  <1>4. N \in T
    BY <1>3
  <1>5. PICK f \in [0 .. N -> S] : Upto(N, f)
    BY <1>4 DEF T
  <1>6. Iteration(f, S, a, N, F)
    BY <1>5 DEF Iteration
  <1> QED BY <1>6


-----------------------------------------------------------------------------
(* The beginnings of sequences *)

PrefixOf(s, t) == Len(s) <= Len(t) /\ \A i \in 1 .. Len(s) : s[i] = t[i]

\* Where there is something in both, it is the same.
Agrees(s, t) == \A i \in 1 .. Len(s) : i <= Len(t) => s[i] = t[i]

LEMMA PrefixIsTransitive ==
  ASSUME NEW S, NEW s \in Seq(S), NEW t \in Seq(S), NEW u \in Seq(S),
         PrefixOf(s, t), PrefixOf(t, u)
  PROVE  PrefixOf(s, u)
  <1>1. Len(s) \in Nat /\ Len(t) \in Nat /\ Len(u) \in Nat
    OBVIOUS
  <1> QED BY <1>1 DEF PrefixOf

\* The sequences that something is put together by, each beginning like the one
\* before it, are beginnings of the last.
LEMMA PrefixesOfLast ==
  ASSUME NEW S, NEW K \in Nat, NEW f \in [0 .. K -> Seq(S)],
         \A k \in 1 .. K : PrefixOf(f[k - 1], f[k])
  PROVE  \A k \in 0 .. K : PrefixOf(f[k], f[K])
  <1> DEFINE T == {j \in 0 .. K : PrefixOf(f[K - j], f[K])}
  <1>1. 0 \in T
    BY DEF PrefixOf
  <1>2. ASSUME NEW j \in 1 .. K, j - 1 \in T PROVE j \in T
    <2>1. K - j + 1 \in 1 .. K /\ K - (j - 1) = K - j + 1 /\ (K - j + 1) - 1 = K - j
      OBVIOUS
    <2>2. PrefixOf(f[K - j + 1], f[K])
      BY <1>2, <2>1
    <2>3. PrefixOf(f[K - j], f[K - j + 1])
      BY <2>1
    <2>4. f[K - j] \in Seq(S) /\ f[K - j + 1] \in Seq(S) /\ f[K] \in Seq(S)
      BY <2>1
    <2>5. PrefixOf(f[K - j], f[K])
      BY <2>2, <2>3, <2>4, PrefixIsTransitive
    <2> QED BY <2>5
  <1> HIDE DEF T
  <1>3. \A j \in 0 .. K : j \in T
    BY <1>1, <1>2, SetInduction
  <1>4. ASSUME NEW k \in 0 .. K PROVE PrefixOf(f[k], f[K])
    <2>1. K - k \in 0 .. K /\ K - (K - k) = k
      OBVIOUS
    <2> QED BY <1>3, <2>1 DEF T
  <1> QED BY <1>4

\* A sequence begins like what is put together from it and another.
LEMMA PrefixOfConcat ==
  ASSUME NEW S, NEW s \in Seq(S), NEW t \in Seq(S)
  PROVE  PrefixOf(s, s \o t)
  <1>1. /\ Len(s \o t) = Len(s) + Len(t)
        /\ \A i \in 1 .. Len(s) + Len(t) : (s \o t)[i] = IF i <= Len(s) THEN s[i] ELSE t[i - Len(s)]
    BY ConcatProperties
  <1>2. Len(s) \in Nat /\ Len(t) \in Nat
    OBVIOUS
  <1> QED BY <1>1, <1>2 DEF PrefixOf

-----------------------------------------------------------------------------
(* What a peer sends *)

Kinds == {"start", "get", "post", "length", "chunked", "both", "size", "newline", "data", "crlf"}

CellType == [c : Kinds, n : Nat]

Cells == Seq(CellType)

LEMMA CellFacts ==
  ASSUME NEW c \in Kinds, NEW n \in Nat
  PROVE  Cell(c, n) \in CellType /\ Cell(c, n).c = c /\ Cell(c, n).n = n
  BY DEF Cell, CellType

LEMMA CellsConcat ==
  ASSUME NEW s \in Cells, NEW t \in Cells
  PROVE  /\ s \o t \in Cells /\ Len(s \o t) = Len(s) + Len(t)
         /\ Len(s) \in Nat /\ Len(t) \in Nat
         /\ \A i \in 1 .. Len(s) : (s \o t)[i] = s[i]
         /\ \A i \in 1 .. Len(t) : (s \o t)[Len(s) + i] = t[i]
  <1>1. /\ s \o t \in Cells /\ Len(s \o t) = Len(s) + Len(t)
        /\ \A i \in 1 .. Len(s) + Len(t) :
             (s \o t)[i] = IF i <= Len(s) THEN s[i] ELSE t[i - Len(s)]
    BY ConcatProperties DEF Cells
  <1>2. Len(s) \in Nat /\ Len(t) \in Nat
    BY DEF Cells
  <1>3. ASSUME NEW i \in 1 .. Len(s) PROVE (s \o t)[i] = s[i]
    BY <1>1, <1>2
  <1>4. ASSUME NEW i \in 1 .. Len(t) PROVE (s \o t)[Len(s) + i] = t[i]
    <2>1. Len(s) + i \in 1 .. Len(s) + Len(t) /\ ~ Len(s) + i <= Len(s) /\ (Len(s) + i) - Len(s) = i
      BY <1>2
    <2> QED BY <1>1, <2>1
  <1> QED BY <1>1, <1>2, <1>3, <1>4

LEMMA DataFacts ==
  ASSUME NEW from \in Nat, NEW n \in Nat
  PROVE  /\ Data(from, n) \in Cells /\ Len(Data(from, n)) = n
         /\ \A i \in 1 .. n : Data(from, n)[i] = Cell("data", from + i)
  <1>1. \A i \in 1 .. n : Cell("data", from + i) \in CellType
    BY CellFacts DEF Kinds
  <1> QED BY <1>1 DEF Data, Cells

\* The cells of a chunk.
LEMMA ChunkWireFacts ==
  ASSUME NEW c \in Nat, NEW data \in Cells, Len(data) = c
  PROVE  /\ ChunkWire(c, data) \in Cells /\ Len(ChunkWire(c, data)) = c + 4
         /\ ChunkWire(c, data)[1] = Cell("size", c) /\ ChunkWire(c, data)[2] = Cell("newline", 0)
         /\ \A i \in 1 .. c : ChunkWire(c, data)[i + 2] = data[i]
  <1> DEFINE l == <<Cell("size", c), Cell("newline", 0)>>
             e == <<Cell("crlf", 0), Cell("crlf", 0)>>
  <1>1. Cell("size", c) \in CellType /\ Cell("newline", 0) \in CellType /\ Cell("crlf", 0) \in CellType
    BY CellFacts DEF Kinds
  <1>2. l \in Cells /\ Len(l) = 2 /\ l[1] = Cell("size", c) /\ l[2] = Cell("newline", 0)
    BY <1>1 DEF Cells
  <1>3. e \in Cells /\ Len(e) = 2
    BY <1>1 DEF Cells
  <1>4. ChunkWire(c, data) = (l \o data) \o e
    BY DEF ChunkWire
  <1> HIDE DEF l, e
  <1>5. PICK d : d = l \o data
    OBVIOUS
  <1>6. /\ d \in Cells /\ Len(d) = 2 + c
        /\ \A i \in 1 .. 2 : d[i] = l[i]
        /\ \A i \in 1 .. c : d[2 + i] = data[i]
    <2>1. /\ d \in Cells /\ Len(d) = Len(l) + Len(data)
          /\ \A i \in 1 .. Len(l) : d[i] = l[i]
          /\ \A i \in 1 .. Len(data) : d[Len(l) + i] = data[i]
      BY <1>2, <1>5, CellsConcat
    <2> QED BY <1>2, <2>1
  <1>7. PICK w : w = d \o e
    OBVIOUS
  <1>8. w \in Cells /\ Len(w) = (2 + c) + 2 /\ \A i \in 1 .. 2 + c : w[i] = d[i]
    <2>1. w \in Cells /\ Len(w) = Len(d) + Len(e) /\ \A i \in 1 .. Len(d) : w[i] = d[i]
      BY <1>3, <1>6, <1>7, CellsConcat, ZenonT(60)
    <2> QED BY <1>3, <1>6, <2>1
  <1>9. w[1] = l[1] /\ w[2] = l[2] /\ \A i \in 1 .. c : w[i + 2] = data[i]
    BY <1>6, <1>8
  <1>10. w = ChunkWire(c, data) /\ Len(w) = c + 4
    BY <1>4, <1>5, <1>7, <1>8
  <1> QED BY <1>2, <1>8, <1>9, <1>10


\* What is sent with one more chunk.
WireType == [wire : Cells, n : Nat]

ChunkStep(c, t) == [wire |-> t.wire \o ChunkWire(c, Data(t.n, c)), n |-> t.n + c]

LEMMA ChunkStepFacts ==
  ASSUME NEW c \in Nat, NEW t \in WireType
  PROVE  /\ ChunkStep(c, t) \in WireType
         /\ ChunkStep(c, t).wire = t.wire \o ChunkWire(c, Data(t.n, c))
         /\ ChunkStep(c, t).n = t.n + c
  <1>1. t.wire \in Cells /\ t.n \in Nat
    BY DEF WireType
  <1>2. ChunkWire(c, Data(t.n, c)) \in Cells
    BY <1>1, DataFacts, ChunkWireFacts
  <1>3. PICK w : w = t.wire \o ChunkWire(c, Data(t.n, c))
    OBVIOUS
  <1>4. w \in Cells
    BY <1>1, <1>2, <1>3, CellsConcat
  <1>5. ChunkStep(c, t) = [wire |-> w, n |-> t.n + c]
    BY <1>3 DEF ChunkStep
  <1> QED BY <1>1, <1>3, <1>4, <1>5 DEF WireType

\* The chunks of a request, one after the other.
LEMMA ChunkedFacts ==
  ASSUME NEW chunks \in Seq(Nat \ {0}), NEW K, K = Len(chunks)
  PROVE  /\ Chunked(chunks) \in [0 .. K -> WireType]
         /\ Chunked(chunks)[0] = [wire |-> <<>>, n |-> 0]
         /\ \A k \in 1 .. K : Chunked(chunks)[k] = ChunkStep(chunks[k], Chunked(chunks)[k - 1])
  <1> DEFINE start == [wire |-> <<>>, n |-> 0]
             F == [k \in 1 .. K |-> [t \in WireType |-> ChunkStep(chunks[k], t)]]
             Def(f) == [k \in 0 .. K |-> IF k = 0 THEN start ELSE ChunkStep(chunks[k], f[k - 1])]
             r == CHOOSE f : f = Def(f)
  <1>1. K \in Nat /\ \A k \in 1 .. K : chunks[k] \in Nat
    OBVIOUS
  <1>2. start \in WireType
    <2>1. PICK z : z = <<>>
      OBVIOUS
    <2>2. z \in Cells
      BY <2>1 DEF Cells
    <2> QED BY <2>1, <2>2 DEF WireType
  <1>3. Chunked(chunks) = r
    BY DEF Chunked, ChunkStep
  <1> HIDE DEF start
  <1>4. ASSUME NEW k \in 1 .. K, NEW t \in WireType PROVE ChunkStep(chunks[k], t) \in WireType
    BY <1>1, ChunkStepFacts
  <1>5. F \in Steps(WireType, K)
    BY <1>4 DEF Steps
  <1>6. PICK f : f \in [0 .. K -> WireType] /\ f[0] = start /\ \A k \in 1 .. K : f[k] = F[k][f[k - 1]]
    <2> HIDE DEF F
    <2>1. PICK f : Iteration(f, WireType, start, K, F)
      BY <1>1, <1>2, <1>5, Iterates
    <2> QED BY <2>1 DEF Iteration
  <1>7. f = Def(f)
    <2>1. ASSUME NEW k \in 1 .. K PROVE f[k] = ChunkStep(chunks[k], f[k - 1])
      <3>1. f[k - 1] \in WireType
        BY <1>1, <1>6, SMTT(60)
      <3> QED BY <1>6, <3>1
    <2>2. ASSUME NEW k \in 0 .. K
          PROVE  f[k] = IF k = 0 THEN start ELSE ChunkStep(chunks[k], f[k - 1])
      BY <1>1, <1>6, <2>1
    <2> QED BY <1>6, <2>2
  <1>8. r = Def(r)
    BY <1>7
  <1> HIDE DEF r
  <1>9. r[0] = start /\ \A k \in 1 .. K : r[k] = ChunkStep(chunks[k], r[k - 1])
    <2>1. PICK q : q = r /\ r = Def(q)
      BY <1>8
    <2>2. \A k \in 0 .. K : r[k] = IF k = 0 THEN start ELSE ChunkStep(chunks[k], q[k - 1])
      BY <2>1
    <2> QED BY <1>1, <2>1, <2>2, SMTT(60)
  <1> DEFINE T == {k \in 0 .. K : r[k] \in WireType}
  <1>10. 0 \in T
    BY <1>1, <1>2, <1>9
  <1>11. ASSUME NEW k \in 1 .. K, k - 1 \in T PROVE k \in T
    <2>1. r[k - 1] \in WireType /\ r[k] = ChunkStep(chunks[k], r[k - 1])
      BY <1>9, <1>11
    <2>2. r[k] \in WireType
      BY <1>4, <2>1
    <2> QED BY <2>2
  <1> HIDE DEF T
  <1>12. \A k \in 0 .. K : k \in T
    BY <1>1, <1>10, <1>11, SetInduction
  <1>13. DOMAIN r = 0 .. K /\ r = [k \in 0 .. K |-> r[k]]
    BY <1>8
  <1>14. r \in [0 .. K -> WireType]
    BY <1>12, <1>13 DEF T
  <1> QED BY <1>3, <1>9, <1>14 DEF start

\* The sizes of chunks add up to the size of the body.
SizeStep(c, n) == n + c

LEMMA BodyFacts ==
  ASSUME NEW request, NEW K, request.chunks \in Seq(Nat \ {0}), K = Len(request.chunks),
         request.head \notin {"get", "length"}
  PROVE  Body(request) = Chunked(request.chunks)[K].n
  <1> DEFINE chunks == request.chunks
             Def(f) == [k \in 0 .. K |-> IF k = 0 THEN 0 ELSE SizeStep(chunks[k], f[k - 1])]
             r == CHOOSE f : f = Def(f)
             g == Chunked(chunks)
  <1>1. K \in Nat /\ \A k \in 1 .. K : chunks[k] \in Nat
    OBVIOUS
  <1>2. Body(request) = r[K]
    BY DEF Body, SizeStep
  <1>3. /\ g \in [0 .. K -> WireType] /\ g[0].n = 0
        /\ \A k \in 1 .. K : g[k] = ChunkStep(chunks[k], g[k - 1])
    <2>1. /\ g \in [0 .. K -> WireType] /\ g[0] = [wire |-> <<>>, n |-> 0]
          /\ \A k \in 1 .. K : g[k] = ChunkStep(chunks[k], g[k - 1])
      BY ChunkedFacts
    <2> QED BY <2>1
  <1> HIDE DEF g
  <1> DEFINE f == [k \in 0 .. K |-> g[k].n]
  <1>4. f = Def(f)
    <2>1. ASSUME NEW k \in 1 .. K PROVE g[k].n = SizeStep(chunks[k], g[k - 1].n)
      <3>1. g[k - 1] \in WireType
        <4>1. k - 1 \in 0 .. K
          BY <1>1
        <4> QED BY <1>3, <4>1
      <3>2. PICK c \in Nat : c = chunks[k]
        BY <1>1
      <3>3. ChunkStep(c, g[k - 1]).n = g[k - 1].n + c
        BY <3>1, <3>2, ChunkStepFacts
      <3> QED BY <1>3, <3>2, <3>3 DEF SizeStep
    <2>2. ASSUME NEW k \in 0 .. K
          PROVE  f[k] = IF k = 0 THEN 0 ELSE SizeStep(chunks[k], f[k - 1])
      BY <1>1, <1>3, <2>1
    <2> QED BY <2>2
  <1>5. r = Def(r)
    <2> HIDE DEF f
    <2> QED BY <1>4
  <1> HIDE DEF r
  <1>6. r[0] = 0 /\ \A k \in 1 .. K : r[k] = SizeStep(chunks[k], r[k - 1])
    <2>1. PICK q : q = r /\ r = Def(q)
      BY <1>5
    <2>2. \A k \in 0 .. K : r[k] = IF k = 0 THEN 0 ELSE SizeStep(chunks[k], q[k - 1])
      BY <2>1
    <2>3. q = r
      BY <2>1
    <2>4. \A k \in 1 .. K : k \in 0 .. K /\ k # 0
      BY <1>1
    <2>5. 0 \in 0 .. K
      BY <1>1
    <2> QED BY <2>2, <2>3, <2>4, <2>5
  <1>7. f[0] = 0 /\ \A k \in 1 .. K : f[k] = SizeStep(chunks[k], f[k - 1])
    <2> HIDE DEF f
    <2>1. PICK q : q = f /\ f = Def(q)
      BY <1>4
    <2>2. \A k \in 0 .. K : f[k] = IF k = 0 THEN 0 ELSE SizeStep(chunks[k], q[k - 1])
      BY <2>1
    <2>3. q = f
      BY <2>1
    <2>4. \A k \in 1 .. K : k \in 0 .. K /\ k # 0
      BY <1>1
    <2>5. 0 \in 0 .. K
      BY <1>1
    <2> QED BY <2>2, <2>3, <2>4, <2>5
  <1> HIDE DEF f
  <1> DEFINE T == {k \in 0 .. K : r[k] = f[k]}
  <1>8. 0 \in T
    BY <1>1, <1>6, <1>7
  <1>9. ASSUME NEW k \in 1 .. K, k - 1 \in T PROVE k \in T
    BY <1>1, <1>6, <1>7, <1>9
  <1> HIDE DEF T
  <1>10. \A k \in 0 .. K : k \in T
    BY <1>1, <1>8, <1>9, SetInduction
  <1>11. r[K] = f[K]
    BY <1>1, <1>10 DEF T
  <1>12. f[K] = g[K].n
    BY <1>1 DEF f
  <1> QED BY <1>2, <1>11, <1>12 DEF g


-----------------------------------------------------------------------------
(* What http_read_request() makes of it *)

\* http_chunk(): a chunk is found as it was sent, or is not found whole.
LEMMA ChunkFacts ==
  ASSUME NEW rest \in Cells, NEW c \in Nat, NEW data \in Cells, Len(data) = c,
         Agrees(rest, ChunkWire(c, data))
  PROVE  \/ Chunk(rest).size = 0 \/ Chunk(rest).size = -1
         \/ Chunk(rest).size = c + 4 /\ Chunk(rest).data = data /\ c + 4 <= Len(rest)
  <1> DEFINE m == Len(rest)
             w == ChunkWire(c, data)
  <1>1. /\ Len(w) = c + 4 /\ w[1] = Cell("size", c) /\ w[2] = Cell("newline", 0)
        /\ \A i \in 1 .. c : w[i + 2] = data[i]
    BY ChunkWireFacts
  <1>2. m \in Nat /\ DOMAIN rest = 1 .. m /\ \A i \in 1 .. m : rest[i] \in CellType
    BY DEF Cells
  <1>3. \A i \in 1 .. m : i <= c + 4 => rest[i] = w[i]
    BY <1>1 DEF Agrees
  <1> HIDE DEF m, w
  <1>4. CASE \A i \in DOMAIN rest : rest[i].c # "newline"
    <2>1. ChunkSize(rest) = 0
      BY <1>4 DEF ChunkSize
    <2>2. Chunk(rest) = [size |-> 0, data |-> <<>>]
      BY <2>1 DEF Chunk
    <2> QED BY <2>2
  <1>5. CASE \E i \in DOMAIN rest : rest[i].c = "newline"
    <2>1. PICK i \in 1 .. m : rest[i].c = "newline"
      BY <1>2, <1>5
    <2>2. /\ Cell("size", c).c = "size" /\ Cell("size", c).n = c /\ Cell("newline", 0).c = "newline"
      BY CellFacts DEF Kinds
    <2>3. rest[1].c = "size" /\ rest[1].n = c
      BY <1>1, <1>2, <1>3, <2>1, <2>2
    <2>4. i # 1
      BY <2>1, <2>3
    <2>5. m >= 2 /\ rest[2].c = "newline"
      BY <1>1, <1>2, <1>3, <2>1, <2>2, <2>4
    <2>6. ChunkSize(rest) = IF c = 2 ^ Width - 1 THEN -1 ELSE 2
      BY <1>5, <2>3, <2>5 DEF ChunkSize
    <2>7. CASE c = 2 ^ Width - 1
      <3>1. Chunk(rest) = [size |-> -1, data |-> <<>>]
        BY <2>6, <2>7 DEF Chunk
      <3> QED BY <3>1
    <2>8. CASE c # 2 ^ Width - 1
      <3>1. PICK n : n = ChunkSize(rest)
        OBVIOUS
      <3>2. n = 2
        BY <2>6, <2>8, <3>1
      <3>3. Chunk(rest) = IF n <= 0 THEN [size |-> n, data |-> <<>>]
                          ELSE IF n + 2 > Len(rest) \/ c > Len(rest) - n - 2
                            THEN [size |-> 0, data |-> <<>>]
                          ELSE [size |-> c + n + 2, data |-> SubSeq(rest, n + 1, n + c)]
        BY <2>3, <3>1, Zenon DEF Chunk
      <3>4. CASE 4 > m \/ c > m - 4
        <4>1. Chunk(rest) = [size |-> 0, data |-> <<>>]
          BY <1>2, <3>2, <3>3, <3>4 DEF m
        <4> QED BY <4>1
      <3>5. CASE ~ (4 > m \/ c > m - 4)
        <4>1. Chunk(rest) = [size |-> c + 4, data |-> SubSeq(rest, 3, 2 + c)]
          BY <1>2, <3>2, <3>3, <3>5 DEF m
        <4>2. SubSeq(rest, 3, 2 + c) = data
          <5>1. \A k \in 3 .. 2 + c : rest[k] \in CellType
            BY <1>2, <3>5
          <5>2. PICK d : d = SubSeq(rest, 3, 2 + c)
            OBVIOUS
          <5>3. /\ d \in Seq(CellType) /\ Len(d) = c
                /\ \A k \in 1 .. c : d[k] = rest[3 + k - 1]
            <6>1. /\ d \in Seq(CellType) /\ Len(d) = IF 3 <= 2 + c THEN (2 + c) - 3 + 1 ELSE 0
                  /\ \A k \in 1 .. (2 + c) - 3 + 1 : d[k] = rest[3 + k - 1]
              BY <5>1, <5>2, SubSeqProperties
            <6>2. (2 + c) - 3 + 1 = c
              OBVIOUS
            <6> QED BY <6>1, <6>2
          <5>4. ASSUME NEW k \in 1 .. c PROVE d[k] = data[k]
            <6>1. k + 2 \in 1 .. m /\ k + 2 <= c + 4 /\ 3 + k - 1 = k + 2
              BY <1>2, <3>5
            <6>2. d[k] = rest[k + 2]
              BY <5>3, <6>1
            <6> QED BY <1>1, <1>3, <6>1, <6>2
          <5>5. d = data
            BY <5>3, <5>4, SeqEqual DEF Cells
          <5> QED BY <5>2, <5>5
        <4> QED BY <1>2, <3>5, <4>1, <4>2 DEF m
      <3> QED BY <3>4, <3>5
    <2> QED BY <2>7, <2>8
  <1> QED BY <1>4, <1>5

\* Data of two chunks are data.
LEMMA DataConcat ==
  ASSUME NEW n \in Nat, NEW c \in Nat
  PROVE  Data(0, n) \o Data(n, c) = Data(0, n + c)
  <1>1. /\ Data(0, n) \in Cells /\ Len(Data(0, n)) = n
        /\ \A i \in 1 .. n : Data(0, n)[i] = Cell("data", 0 + i)
    BY DataFacts
  <1>2. /\ Data(n, c) \in Cells /\ Len(Data(n, c)) = c
        /\ \A i \in 1 .. c : Data(n, c)[i] = Cell("data", n + i)
    BY DataFacts
  <1>3. /\ Data(0, n + c) \in Cells /\ Len(Data(0, n + c)) = n + c
        /\ \A i \in 1 .. n + c : Data(0, n + c)[i] = Cell("data", 0 + i)
    <2>1. \A t \in Nat : /\ Data(0, t) \in Cells /\ Len(Data(0, t)) = t
                        /\ \A i \in 1 .. t : Data(0, t)[i] = Cell("data", 0 + i)
      BY DataFacts
    <2>2. n + c \in Nat
      OBVIOUS
    <2> QED BY <2>1, <2>2, Zenon
  <1>4. PICK a, b, d, e : a = Data(0, n) /\ b = Data(n, c) /\ d = Data(0, n + c) /\ e = a \o b
    OBVIOUS
  <1>5. /\ e \in Cells /\ Len(e) = n + c
        /\ \A i \in 1 .. n : e[i] = a[i]
        /\ \A i \in 1 .. c : e[n + i] = b[i]
    <2>1. /\ e \in Cells /\ Len(e) = Len(a) + Len(b)
          /\ \A i \in 1 .. Len(a) : e[i] = a[i]
          /\ \A i \in 1 .. Len(b) : e[Len(a) + i] = b[i]
      BY <1>1, <1>2, <1>4, CellsConcat
    <2>2. Len(a) = n /\ Len(b) = c
      BY <1>1, <1>2, <1>4
    <2> QED BY <2>1, <2>2
  <1>6. ASSUME NEW i \in 1 .. n + c PROVE e[i] = d[i]
    <2>1. d[i] = Cell("data", i)
      BY <1>3, <1>4
    <2>2. CASE i <= n
      <3>1. i \in 1 .. n /\ 0 + i = i
        BY <2>2
      <3> QED BY <1>1, <1>4, <1>5, <2>1, <3>1
    <2>3. CASE i > n
      <3>1. i - n \in 1 .. c /\ n + (i - n) = i
        BY <2>3
      <3>2. e[i] = b[i - n] /\ b[i - n] = Cell("data", i)
        BY <1>2, <1>4, <1>5, <3>1
      <3> QED BY <2>1, <3>2
    <2> QED BY <2>2, <2>3
  <1>7. e = d
    BY <1>3, <1>4, <1>5, <1>6, SeqEqual DEF Cells
  <1> QED BY <1>4, <1>7


\* What is in the input behind a part of it that was sent first.
LEMMA RestAgrees ==
  ASSUME NEW b \in Cells, NEW p \in Cells, NEW w \in Cells, NEW z \in Cells,
         PrefixOf(p \o w, z), Agrees(b, z), NEW m \in 0 .. Len(b)
  PROVE  SubSeq(b, Len(p) + 1, m) \in Cells /\ Agrees(SubSeq(b, Len(p) + 1, m), w)
  <1>1. PICK x, n, l : x = p \o w /\ n = Len(p) /\ l = Len(w)
    OBVIOUS
  <1>2. /\ Len(x) = n + l /\ n \in Nat /\ l \in Nat
        /\ \A i \in 1 .. l : x[n + i] = w[i]
    BY <1>1, CellsConcat
  <1>3. Len(b) \in Nat /\ Len(z) \in Nat /\ \A i \in 1 .. Len(b) : b[i] \in CellType
    BY DEF Cells
  <1>4. n + l <= Len(z) /\ \A i \in 1 .. n + l : x[i] = z[i]
    BY <1>1, <1>2 DEF PrefixOf
  <1>5. PICK r : r = SubSeq(b, n + 1, m)
    OBVIOUS
  <1>6. /\ r \in Cells /\ Len(r) = IF n + 1 <= m THEN m - (n + 1) + 1 ELSE 0
        /\ \A i \in 1 .. m - (n + 1) + 1 : r[i] = b[(n + 1) + i - 1]
    <2>1. n + 1 \in Int /\ m \in Int /\ \A i \in n + 1 .. m : b[i] \in CellType
      BY <1>2, <1>3
    <2> QED BY <1>5, <2>1, SubSeqProperties, SMTT(60) DEF Cells
  <1>7. ASSUME NEW i \in 1 .. Len(r), i <= l PROVE r[i] = w[i]
    <2>1. /\ i \in 1 .. m - (n + 1) + 1 /\ (n + 1) + i - 1 = n + i
          /\ n + i \in 1 .. Len(b) /\ n + i \in 1 .. n + l /\ n + i <= Len(z) /\ i \in 1 .. l
      BY <1>2, <1>3, <1>4, <1>6, <1>7
    <2>2. r[i] = b[n + i]
      BY <1>6, <2>1
    <2>3. b[n + i] = z[n + i]
      BY <2>1 DEF Agrees
    <2> QED BY <1>2, <1>4, <2>1, <2>2, <2>3
  <1>8. Agrees(r, w)
    BY <1>1, <1>7 DEF Agrees
  <1> QED BY <1>1, <1>5, <1>6, <1>8

\* The chunks of a request with the one that ends them.
AllChunks(chunks) == Chunked(chunks)[Len(chunks)].wire \o ChunkWire(0, <<>>)

LEMMA ChunksPrefix ==
  ASSUME NEW chunks \in Seq(Nat \ {0})
  PROVE  /\ AllChunks(chunks) \in Cells
         /\ \A k \in 0 .. Len(chunks) :
              /\ PrefixOf(Chunked(chunks)[k].wire, AllChunks(chunks))
              /\ Chunked(chunks)[k].wire \in Cells /\ Chunked(chunks)[k].n \in Nat
  <1> DEFINE K == Len(chunks)
             f == Chunked(chunks)
             e == ChunkWire(0, <<>>)
  <1>1. /\ f \in [0 .. K -> WireType]
        /\ \A k \in 1 .. K : f[k] = ChunkStep(chunks[k], f[k - 1])
    BY ChunkedFacts
  <1>2. K \in Nat /\ \A k \in 1 .. K : chunks[k] \in Nat
    OBVIOUS
  <1>3. e \in Cells
    <2>1. PICK z : z = <<>>
      OBVIOUS
    <2>2. z \in Cells /\ Len(z) = 0
      BY <2>1 DEF Cells
    <2>3. ChunkWire(0, z) \in Cells
      BY <2>2, ChunkWireFacts
    <2> QED BY <2>1, <2>3
  <1>4. AllChunks(chunks) = f[K].wire \o e
    BY DEF AllChunks
  <1> HIDE DEF K, f, e
  <1>5. ASSUME NEW k \in 0 .. K PROVE f[k].wire \in Cells /\ f[k].n \in Nat
    BY <1>1 DEF WireType
  <1>6. PICK g : g = [k \in 0 .. K |-> f[k].wire]
    OBVIOUS
  <1>7. g \in [0 .. K -> Seq(CellType)]
    BY <1>5, <1>6 DEF Cells
  <1>8. ASSUME NEW k \in 1 .. K PROVE PrefixOf(g[k - 1], g[k])
    <2>1. k - 1 \in 0 .. K /\ k \in 0 .. K
      BY <1>2
    <2>2. PICK c \in Nat, t \in WireType : c = chunks[k] /\ t = f[k - 1]
      BY <1>1, <1>2, <2>1
    <2>3. f[k].wire = t.wire \o ChunkWire(c, Data(t.n, c))
      BY <1>1, <2>2, ChunkStepFacts, ZenonT(60)
    <2>4. t.wire \in Cells /\ ChunkWire(c, Data(t.n, c)) \in Cells
      <3>1. t.n \in Nat /\ t.wire \in Cells
        BY DEF WireType
      <3> QED BY <3>1, DataFacts, ChunkWireFacts
    <2>5. PrefixOf(t.wire, t.wire \o ChunkWire(c, Data(t.n, c)))
      BY <2>4, PrefixOfConcat DEF Cells
    <2> QED BY <1>6, <2>1, <2>2, <2>3, <2>5
  <1>9. \A k \in 0 .. K : PrefixOf(g[k], g[K])
    BY <1>2, <1>7, <1>8, PrefixesOfLast
  <1>10. K \in 0 .. K
    BY <1>2
  <1>11. AllChunks(chunks) \in Cells /\ PrefixOf(f[K].wire, AllChunks(chunks))
    BY <1>3, <1>4, <1>5, <1>10, CellsConcat, PrefixOfConcat DEF Cells
  <1>12. ASSUME NEW k \in 0 .. K PROVE PrefixOf(f[k].wire, AllChunks(chunks))
    <2>1. PrefixOf(f[k].wire, f[K].wire)
      BY <1>6, <1>9, <1>10
    <2> QED BY <1>5, <1>10, <1>11, <2>1, PrefixIsTransitive DEF Cells
  <1> QED BY <1>5, <1>11, <1>12 DEF K, f


LEMMA RoundStateFacts ==
  ASSUME NEW at, NEW result, NEW size, NEW body
  PROVE  /\ RoundState(at, result, size, body).at = at
         /\ RoundState(at, result, size, body).result = result
         /\ RoundState(at, result, size, body).size = size
         /\ RoundState(at, result, size, body).body = body
  BY DEF RoundState

\* http_dechunk() after k chunks, when the next is not found, and in the end
Going(chunks, k) ==
  RoundState("chunk", 0, Len(Chunked(chunks)[k].wire), Data(0, Chunked(chunks)[k].n))

Stopped(chunks, k, result) ==
  RoundState("end", result, Len(Chunked(chunks)[k].wire), Data(0, Chunked(chunks)[k].n))

Finished(chunks) ==
  RoundState("end", 1, Len(AllChunks(chunks)), Data(0, Chunked(chunks)[Len(chunks)].n))

RoundStates(chunks) ==
  {Going(chunks, k) : k \in 0 .. Len(chunks)}
    \cup {Stopped(chunks, k, 0) : k \in 0 .. Len(chunks)}
    \cup {Stopped(chunks, k, -1) : k \in 0 .. Len(chunks)}
    \cup {Finished(chunks)}

\* A round finds the next chunk.
LEMMA RoundFacts ==
  ASSUME NEW b \in Cells, NEW p \in Cells, NEW body,
         NEW c \in Nat, NEW data \in Cells, Len(data) = c,
         NEW z \in Cells, PrefixOf(p \o ChunkWire(c, data), z), Agrees(b, z),
         NEW s, s = RoundState("chunk", 0, Len(p), body)
  PROVE  \/ DechunkRound(b, s) = RoundState("end", 0, Len(p), body)
         \/ DechunkRound(b, s) = RoundState("end", -1, Len(p), body)
         \/ /\ data = <<>>
            /\ DechunkRound(b, s) = RoundState("end", 1, Len(p) + (c + 4), body)
         \/ /\ data # <<>>
            /\ DechunkRound(b, s) = RoundState("chunk", 0, Len(p) + (c + 4), body \o data)
  <1>1. PICK rest : rest = SubSeq(b, Len(p) + 1, Len(b))
    OBVIOUS
  <1>2. ChunkWire(c, data) \in Cells /\ Len(b) \in 0 .. Len(b)
    BY ChunkWireFacts DEF Cells
  <1>3. rest \in Cells /\ Agrees(rest, ChunkWire(c, data))
    BY <1>1, <1>2, RestAgrees
  <1>4. PICK h : h = Chunk(rest)
    OBVIOUS
  <1>5. h.size = 0 \/ h.size = -1 \/ (h.size = c + 4 /\ h.data = data)
    BY <1>3, <1>4, ChunkFacts
  <1>6. s.at = "chunk" /\ s.size = Len(p) /\ s.body = body
    BY RoundStateFacts
  <1>7. h = Chunk(SubSeq(b, s.size + 1, Len(b)))
    BY <1>1, <1>4, <1>6, Zenon
  <1>8. DechunkRound(b, s) =
          IF h.size <= 0 THEN RoundState("end", h.size, s.size, s.body)
          ELSE IF h.data = <<>> THEN RoundState("end", 1, s.size + h.size, s.body)
          ELSE RoundState("chunk", 0, s.size + h.size, s.body \o h.data)
    BY <1>6, <1>7 DEF DechunkRound
  <1>10. CASE h.size = 0 \/ h.size = -1
    <2>1. h.size <= 0
      BY <1>10
    <2>2. DechunkRound(b, s) = RoundState("end", h.size, Len(p), body)
      BY <1>6, <1>8, <2>1, Zenon
    <2> QED BY <1>10, <2>2
  <1>11. CASE h.size = c + 4 /\ h.data = data
    <2>1. ~ h.size <= 0
      BY <1>11
    <2> QED BY <1>6, <1>8, <1>11, <2>1, Zenon
  <1> QED BY <1>5, <1>10, <1>11

\* No round leads out of these states.
LEMMA RoundCloses ==
  ASSUME NEW chunks \in Seq(Nat \ {0}), NEW b \in Cells, Agrees(b, AllChunks(chunks)),
         NEW s \in RoundStates(chunks)
  PROVE  DechunkRound(b, s) \in RoundStates(chunks)
  <1> DEFINE K == Len(chunks)
             f == Chunked(chunks)
  <1>1. K \in Nat /\ \A k \in 1 .. K : chunks[k] \in Nat \ {0}
    OBVIOUS
  <1>2. PICK z : z = AllChunks(chunks)
    OBVIOUS
  <1>3. /\ z \in Cells /\ Agrees(b, z)
        /\ \A k \in 0 .. K : PrefixOf(f[k].wire, z) /\ f[k].wire \in Cells /\ f[k].n \in Nat
    BY <1>2, ChunksPrefix
  <1>4. /\ f \in [0 .. K -> WireType]
        /\ \A k \in 1 .. K : f[k] = ChunkStep(chunks[k], f[k - 1])
    BY ChunkedFacts
  <1>5. CASE s.at = "end"
    <2>1. DechunkRound(b, s) = s
      BY <1>5, Zenon DEF DechunkRound
    <2> QED BY <2>1
  <1>6. CASE s.at # "end"
    <2>1. PICK k \in 0 .. K : s = Going(chunks, k)
      <3>1. s # Finished(chunks)
        <4>1. Finished(chunks).at = "end"
          BY RoundStateFacts DEF Finished
        <4> QED BY <1>6, <4>1
      <3>2. \A k, r : s # Stopped(chunks, k, r)
        <4>1. \A j, r : Stopped(chunks, j, r).at = "end"
          BY RoundStateFacts DEF Stopped
        <4> QED BY <1>6, <4>1
      <3> QED BY <3>1, <3>2 DEF RoundStates
    <2>2. PICK p, n, body : p = f[k].wire /\ n = f[k].n /\ body = Data(0, n)
      OBVIOUS
    <2>3. p \in Cells /\ n \in Nat /\ Len(p) \in Nat
      <3>1. p \in Cells /\ n \in Nat
        BY <1>3, <2>2
      <3> QED BY <3>1 DEF Cells
    <2>4. s = RoundState("chunk", 0, Len(p), body)
      BY <2>1, <2>2, Zenon DEF Going
    <2>5. /\ RoundState("end", 0, Len(p), body) \in RoundStates(chunks)
          /\ RoundState("end", -1, Len(p), body) \in RoundStates(chunks)
      <3>1. \A r : RoundState("end", r, Len(p), body) = Stopped(chunks, k, r)
        BY <2>2, Zenon DEF Stopped
      <3> QED BY <3>1 DEF RoundStates
    <2>6. CASE k = K
      <3>1. PICK e : e = <<>>
        OBVIOUS
      <3>2. PICK c \in Nat : c = 0
        OBVIOUS
      <3>3. e \in Cells /\ Len(e) = c
        BY <3>1, <3>2 DEF Cells
      <3>4. z = p \o ChunkWire(c, e)
        BY <1>2, <2>2, <2>6, <3>1, <3>2 DEF AllChunks
      <3>5. Len(z) = Len(p) + (c + 4) /\ PrefixOf(p \o ChunkWire(c, e), z)
        <4>1. ChunkWire(c, e) \in Cells /\ Len(ChunkWire(c, e)) = c + 4
          BY <3>3, ChunkWireFacts
        <4>2. Len(z) = Len(p) + Len(ChunkWire(c, e))
          BY <2>3, <3>4, <4>1, CellsConcat
        <4>3. Len(z) \in Nat
          BY <1>3 DEF Cells
        <4> QED BY <3>4, <4>1, <4>2, <4>3 DEF PrefixOf
      <3>6. \/ DechunkRound(b, s) = RoundState("end", 0, Len(p), body)
            \/ DechunkRound(b, s) = RoundState("end", -1, Len(p), body)
            \/ DechunkRound(b, s) = RoundState("end", 1, Len(p) + (c + 4), body)
        BY <1>3, <2>3, <2>4, <3>1, <3>3, <3>5, RoundFacts
      <3>7. RoundState("end", 1, Len(p) + (c + 4), body) = Finished(chunks)
        BY <1>2, <2>2, <2>6, <3>5, Zenon DEF Finished
      <3>8. Finished(chunks) \in RoundStates(chunks)
        BY Zenon DEF RoundStates
      <3> QED BY <2>5, <3>6, <3>7, <3>8, Zenon
    <2>7. CASE k # K
      <3>1. k + 1 \in 1 .. K /\ k + 1 \in 0 .. K /\ (k + 1) - 1 = k
        BY <1>1, <2>7
      <3>2. PICK c \in Nat : c = chunks[k + 1] /\ c # 0
        BY <1>1, <3>1
      <3>3. PICK d : d = Data(n, c)
        OBVIOUS
      <3>4. d \in Cells /\ Len(d) = c
        BY <2>3, <3>3, DataFacts
      <3>5. f[k + 1].wire = p \o ChunkWire(c, d) /\ f[k + 1].n = n + c
        <4>1. f[k + 1] = ChunkStep(c, f[k]) /\ f[k] \in WireType
          BY <1>4, <3>1, <3>2
        <4> QED BY <2>2, <3>3, <4>1, ChunkStepFacts
      <3>6. Len(f[k + 1].wire) = Len(p) + (c + 4)
        <4>1. PICK w : w = ChunkWire(c, d)
          OBVIOUS
        <4>2. w \in Cells /\ Len(w) = c + 4
          BY <3>4, <4>1, ChunkWireFacts
        <4>3. Len(p \o w) = Len(p) + Len(w)
          BY <2>3, <4>2, CellsConcat
        <4> QED BY <3>5, <4>1, <4>2, <4>3
      <3>7. PrefixOf(p \o ChunkWire(c, d), z)
        BY <1>3, <3>1, <3>5
      <3>8. d # <<>>
        BY <3>2, <3>4
      <3>9. \/ DechunkRound(b, s) = RoundState("end", 0, Len(p), body)
            \/ DechunkRound(b, s) = RoundState("end", -1, Len(p), body)
            \/ DechunkRound(b, s) = RoundState("chunk", 0, Len(p) + (c + 4), body \o d)
        BY <1>3, <2>3, <2>4, <3>4, <3>7, <3>8, RoundFacts
      <3>10. body \o d = Data(0, n + c)
        BY <2>2, <2>3, <3>3, DataConcat
      <3>11. RoundState("chunk", 0, Len(p) + (c + 4), body \o d) = Going(chunks, k + 1)
        BY <3>5, <3>6, <3>10, Zenon DEF Going
      <3>12. Going(chunks, k + 1) \in RoundStates(chunks)
        BY <3>1 DEF RoundStates
      <3> QED BY <2>5, <3>9, <3>11, <3>12, Zenon
    <2> QED BY <2>6, <2>7
  <1> QED BY <1>5, <1>6


\* The loops of http_dechunk() begin and stay in these states.
LEMMA DechunkStates ==
  ASSUME NEW chunks \in Seq(Nat \ {0}), NEW b \in Cells, Agrees(b, AllChunks(chunks))
  PROVE  Dechunk(b) \in RoundStates(chunks)
  <1> DEFINE N == Len(b) + 1
             S == RoundStates(chunks)
             start == RoundState("chunk", 0, 0, <<>>)
             F == [n \in 1 .. N |-> [s \in S |-> DechunkRound(b, s)]]
             Def(f) == [n \in 0 .. N |-> IF n = 0 THEN start ELSE DechunkRound(b, f[n - 1])]
             r == CHOOSE f : f = Def(f)
  <1>1. N \in Nat
    BY DEF Cells
  <1>2. Dechunk(b) = r[N]
    BY DEF Dechunk, DechunkRounds
  <1>3. start \in S
    <2>1. Chunked(chunks)[0] = [wire |-> <<>>, n |-> 0] /\ Len(chunks) \in Nat
      BY ChunkedFacts
    <2>2. PICK e, d : e = <<>> /\ d = Data(0, 0)
      OBVIOUS
    <2>3. d \in Cells /\ Len(d) = 0
      BY <2>2, DataFacts
    <2>4. e \in Cells /\ Len(e) = 0
      BY <2>2 DEF Cells
    <2>5. d = e
      BY <2>3, <2>4, SeqEqual DEF Cells
    <2>6. Chunked(chunks)[0].wire = e /\ Chunked(chunks)[0].n = 0
      BY <2>1, <2>2
    <2>7. Going(chunks, 0) = start
      BY <2>2, <2>4, <2>5, <2>6 DEF Going
    <2>8. 0 \in 0 .. Len(chunks)
      BY <2>1
    <2> HIDE DEF start
    <2> QED BY <2>7, <2>8 DEF RoundStates
  <1> HIDE DEF start, N, S
  <1>4. ASSUME NEW s \in S PROVE DechunkRound(b, s) \in S
    BY RoundCloses DEF S
  <1>5. F \in Steps(S, N)
    BY <1>4 DEF Steps
  <1>6. PICK f : f \in [0 .. N -> S] /\ f[0] = start /\ \A n \in 1 .. N : f[n] = F[n][f[n - 1]]
    <2> HIDE DEF F
    <2>1. PICK f : Iteration(f, S, start, N, F)
      BY <1>1, <1>3, <1>5, Iterates
    <2> QED BY <2>1 DEF Iteration
  <1>7. f = Def(f)
    <2>1. ASSUME NEW n \in 1 .. N PROVE f[n] = DechunkRound(b, f[n - 1])
      <3>1. f[n - 1] \in S
        BY <1>1, <1>6
      <3> QED BY <1>6, <3>1
    <2>2. ASSUME NEW n \in 0 .. N
          PROVE  f[n] = IF n = 0 THEN start ELSE DechunkRound(b, f[n - 1])
      BY <1>1, <1>6, <2>1
    <2> QED BY <1>6, <2>2
  <1>8. r = Def(r)
    BY <1>7
  <1> HIDE DEF r
  <1>9. r[0] = start /\ \A n \in 1 .. N : r[n] = DechunkRound(b, r[n - 1])
    <2>1. PICK q : q = r /\ r = Def(q)
      BY <1>8
    <2>2. \A n \in 0 .. N : r[n] = IF n = 0 THEN start ELSE DechunkRound(b, q[n - 1])
      BY <2>1
    <2> QED BY <1>1, <2>1, <2>2
  <1> DEFINE T == {n \in 0 .. N : r[n] \in S}
  <1>10. 0 \in T
    BY <1>1, <1>3, <1>9
  <1>11. ASSUME NEW n \in 1 .. N, n - 1 \in T PROVE n \in T
    <2>1. r[n - 1] \in S /\ r[n] = DechunkRound(b, r[n - 1])
      BY <1>9, <1>11
    <2>2. r[n] \in S
      BY <1>4, <2>1
    <2> QED BY <2>2
  <1> HIDE DEF T
  <1>12. \A n \in 0 .. N : n \in T
    BY <1>1, <1>10, <1>11, SetInduction
  <1>13. r[N] \in S
    BY <1>1, <1>12 DEF T
  <1> QED BY <1>2, <1>13 DEF S

\* http_dechunk(): what it finds is all of the chunks.
LEMMA DechunkFacts ==
  ASSUME NEW chunks \in Seq(Nat \ {0}), NEW b \in Cells, Agrees(b, AllChunks(chunks)),
         NEW d, d = Dechunk(b), d.result = 1
  PROVE  d.size = Len(AllChunks(chunks)) /\ d.body = Data(0, Chunked(chunks)[Len(chunks)].n)
  <1>1. d \in RoundStates(chunks)
    BY DechunkStates
  <1>2. \A k : Going(chunks, k).result = 0
    BY RoundStateFacts DEF Going
  <1>3. \A k, r : Stopped(chunks, k, r).result = r
    BY RoundStateFacts DEF Stopped
  <1>4. d = Finished(chunks)
    BY <1>1, <1>2, <1>3 DEF RoundStates
  <1> QED BY <1>4, RoundStateFacts DEF Finished


\* A request as it is sent: its head, and what follows it.
HeadWire(request) == <<Cell("start", 0), Cell(request.head, request.length)>>

BodyWire(request) ==
  CASE request.head \in {"get", "length"} /\ request.length < 2 ^ Width - 2 -> Data(0, request.length)
    [] request.head = "chunked" -> AllChunks(request.chunks)
    [] OTHER -> <<>>

LEMMA WireFacts ==
  ASSUME NEW q \in RequestType
  PROVE  /\ Wire(q) \in Cells /\ Wire(q) = HeadWire(q) \o BodyWire(q)
         /\ HeadWire(q) \in Cells /\ Len(HeadWire(q)) = 2
         /\ BodyWire(q) \in Cells /\ Len(Wire(q)) = 2 + Len(BodyWire(q))
         /\ Wire(q)[1] = Cell("start", 0) /\ Wire(q)[2] = Cell(q.head, q.length)
  <1>1. /\ q.head \in {"get", "post", "length", "chunked", "both"}
        /\ q.length \in Nat /\ q.chunks \in Seq(Nat \ {0})
    BY DEF RequestType
  <1>2. Cell("start", 0) \in CellType /\ Cell(q.head, q.length) \in CellType
    BY <1>1, CellFacts DEF Kinds
  <1>3. PICK h : h = HeadWire(q)
    OBVIOUS
  <1>4. h \in Cells /\ Len(h) = 2 /\ h[1] = Cell("start", 0) /\ h[2] = Cell(q.head, q.length)
    BY <1>2, <1>3 DEF HeadWire, Cells
  <1>5. PICK e, t : e = <<>> /\ t = BodyWire(q)
    OBVIOUS
  <1>6. t \in Cells
    <2>1. e \in Cells
      BY <1>5 DEF Cells
    <2>2. Data(0, q.length) \in Cells
      BY <1>1, DataFacts
    <2>3. AllChunks(q.chunks) \in Cells
      BY <1>1, ChunksPrefix
    <2> QED BY <1>5, <2>1, <2>2, <2>3 DEF BodyWire
  <1>7. Wire(q) = h \o t
    BY <1>3, <1>5 DEF Wire, HeadWire, BodyWire, AllChunks
  <1>8. /\ h \o t \in Cells /\ Len(h \o t) = Len(h) + Len(t)
        /\ \A i \in 1 .. Len(h) : (h \o t)[i] = h[i]
    BY <1>4, <1>6, CellsConcat
  <1>9. (h \o t)[1] = h[1] /\ (h \o t)[2] = h[2]
    BY <1>4, <1>8
  <1> QED BY <1>3, <1>4, <1>5, <1>6, <1>7, <1>8, <1>9

\* What is passed to the client with a request.
Whole(q, r) == /\ q.head # "both" /\ r.size = Len(Wire(q)) /\ Body(q) \in Nat
               /\ r.body = Data(0, Body(q))

LEMMA RequestFacts ==
  ASSUME NEW size, NEW body
  PROVE  /\ Request(size, body).result = 1
         /\ Request(size, body).size = size /\ Request(size, body).body = body
  BY DEF Request

\* The sum of the head and the length, where it does not wrap.
LEMMA NoWrap ==
  ASSUME NEW a \in Nat, NEW m \in Int, a < m
  PROVE  a % m = a
  OBVIOUS

\* A body of a given length is found as it was sent.
LEMMA SizedFacts ==
  ASSUME NEW q \in RequestType, q.head = "length", ~ Wraps(q),
         NEW in \in Cells, Agrees(in, Wire(q)),
         NEW r, r = Sized(in, 2, q.length), r.result = 1
  PROVE  Whole(q, r)
  <1>1. PICK l \in Nat : l = q.length
    BY DEF RequestType
  <1>2. PICK m \in Int : m = 2 ^ Width
    BY HttpAssumption
  <1>3. l + 2 < m
    BY <1>1, <1>2 DEF Wraps
  <1>4. (2 + l) % m = 2 + l
    <2>1. 2 + l \in Nat /\ 2 + l < m
      BY <1>3
    <2> QED BY <2>1, NoWrap
  <1>5. PICK n \in Nat : n = Len(in)
    BY DEF Cells
  <1>6. ~ n < 2 + l
    <2>1. Wait.result # 1
      BY DEF Wait
    <2> QED BY <1>1, <1>2, <1>4, <1>5, <2>1 DEF Sized
  <1>7. PICK b : b = SubSeq(in, 2 + 1, 2 + l)
    OBVIOUS
  <1>8. r = Request(2 + l, b)
    <2>1. 2 + l <= n
      BY <1>6
    <2> QED BY <1>1, <1>2, <1>4, <1>5, <1>6, <1>7, <2>1 DEF Sized
  <1>9. BodyWire(q) = Data(0, l)
    <2>1. q.length < 2 ^ Width - 2
      BY <1>1, <1>2, <1>3
    <2> QED BY <1>1, <2>1 DEF BodyWire
  <1>10. PICK h, d, w : h = HeadWire(q) /\ d = Data(0, l) /\ w = Wire(q)
    OBVIOUS
  <1>11. /\ h \in Cells /\ Len(h) = 2 /\ d \in Cells /\ w \in Cells /\ w = h \o d
         /\ Len(w) = 2 + Len(d)
    BY <1>9, <1>10, WireFacts
  <1>12. Len(d) = l
    BY <1>10, DataFacts
  <1>13. PrefixOf(h \o d, w)
    <2>1. Len(w) \in Nat
      BY <1>11, <1>12
    <2> QED BY <1>11, <2>1 DEF PrefixOf
  <1>14. b \in Cells /\ Agrees(b, d)
    <2>1. 2 + l \in 0 .. Len(in)
      BY <1>5, <1>6
    <2> QED BY <1>7, <1>10, <1>11, <1>13, <2>1, RestAgrees
  <1>15. Len(b) = l
    <2>1. \A i \in 3 .. 2 + l : in[i] \in CellType
      BY <1>5, <1>6 DEF Cells
    <2>2. Len(b) = IF 3 <= 2 + l THEN (2 + l) - 3 + 1 ELSE 0
      BY <1>7, <2>1, SubSeqProperties
    <2> QED BY <2>2
  <1>16. b = d
    <2>1. \A i \in 1 .. l : b[i] = d[i]
      BY <1>12, <1>14, <1>15 DEF Agrees
    <2> QED BY <1>11, <1>12, <1>14, <1>15, <2>1, SeqEqual DEF Cells
  <1>17. Body(q) = l
    BY <1>1 DEF Body
  <1> QED BY <1>8, <1>10, <1>11, <1>12, <1>16, <1>17, RequestFacts DEF Whole


\* Chunks are found as they were sent.
LEMMA ChunkedBody ==
  ASSUME NEW q \in RequestType, q.head = "chunked",
         NEW in \in Cells, Agrees(in, Wire(q)),
         NEW d, d = Dechunk(SubSeq(in, 2 + 1, Len(in))), d.result = 1
  PROVE  Whole(q, Request(2 + d.size, d.body))
  <1>1. PICK chunks \in Seq(Nat \ {0}) : chunks = q.chunks
    BY DEF RequestType
  <1>2. PICK h, a, w : h = HeadWire(q) /\ a = AllChunks(chunks) /\ w = Wire(q)
    OBVIOUS
  <1>3. BodyWire(q) = a
    BY <1>1, <1>2 DEF BodyWire
  <1>4. /\ h \in Cells /\ Len(h) = 2 /\ a \in Cells /\ w \in Cells /\ w = h \o a
        /\ Len(w) = 2 + Len(a)
    BY <1>2, <1>3, WireFacts
  <1>5. Len(w) \in Nat /\ Len(in) \in 0 .. Len(in)
    BY <1>4 DEF Cells
  <1>6. PrefixOf(h \o a, w)
    BY <1>4, <1>5 DEF PrefixOf
  <1>7. PICK b : b = SubSeq(in, 2 + 1, Len(in))
    OBVIOUS
  <1>8. b \in Cells /\ Agrees(b, a)
    BY <1>2, <1>4, <1>5, <1>6, <1>7, RestAgrees
  <1>9. PICK n : n = Chunked(chunks)[Len(chunks)].n
    OBVIOUS
  <1>10. d.size = Len(a) /\ d.body = Data(0, n)
    <2>1. Agrees(b, AllChunks(chunks)) /\ d = Dechunk(b)
      BY <1>2, <1>7, <1>8
    <2> QED BY <1>2, <1>8, <1>9, <2>1, DechunkFacts
  <1>11. Body(q) = n /\ n \in Nat
    <2>1. n \in Nat
      <3>1. Len(chunks) \in 0 .. Len(chunks)
        BY <1>1
      <3> QED BY <1>9, <3>1, ChunksPrefix
    <2>2. Body(q) = n
      BY <1>1, <1>9, BodyFacts
    <2> QED BY <2>1, <2>2
  <1> QED BY <1>2, <1>4, <1>10, <1>11, RequestFacts DEF Whole

\* A head alone is a request without a body, unless it is the head of a GET that
\* has one.
LEMMA HeadOnly ==
  ASSUME NEW q \in RequestType, q.head \in {"get", "post"}, q.chunks = <<>>, ~ Unread(q)
  PROVE  Whole(q, Request(2, <<>>))
  <1>1. PICK e, d : e = <<>> /\ d = Data(0, 0)
    OBVIOUS
  <1>2. e \in Cells /\ Len(e) = 0 /\ d \in Cells /\ Len(d) = 0
    BY <1>1, DataFacts DEF Cells
  <1>3. e = d
    BY <1>2, SeqEqual DEF Cells
  <1>4. Len(Wire(q)) = 2
    <2>1. CASE q.head = "post"
      <3>1. BodyWire(q) = e
        BY <1>1, <2>1 DEF BodyWire
      <3> QED BY <1>2, <3>1, WireFacts
    <2>2. CASE q.head = "get"
      <3>1. q.length = 0
        BY <2>2 DEF Unread, RequestType
      <3>2. BodyWire(q) = d \/ BodyWire(q) = e
        BY <1>1, <2>2, <3>1 DEF BodyWire
      <3> QED BY <1>2, <3>2, WireFacts
    <2> QED BY <2>1, <2>2
  <1>5. CASE q.head = "get"
    <2>1. Body(q) = 0
      BY <1>5 DEF Body, Unread, RequestType
    <2> QED BY <1>1, <1>3, <1>4, <1>5, <2>1, RequestFacts DEF Whole
  <1>6. CASE q.head = "post"
    <2>1. PICK chunks \in Seq(Nat \ {0}) : chunks = q.chunks /\ Len(chunks) = 0
      BY DEF RequestType
    <2>2. Chunked(chunks)[0] = [wire |-> <<>>, n |-> 0]
      BY ChunkedFacts
    <2>3. Body(q) = Chunked(chunks)[0].n
      BY <1>6, <2>1, BodyFacts
    <2>4. Body(q) = 0
      BY <2>2, <2>3
    <2> QED BY <1>1, <1>3, <1>4, <1>6, <2>4, RequestFacts DEF Whole
  <1> QED BY <1>5, <1>6

\* http_read_request(): a request is found as it was sent, however much of it
\* and of what follows it is in the input, unless its length wraps or it is a GET
\* with a body.
LEMMA ReadFacts ==
  ASSUME NEW q \in RequestType, q.head # "chunked" => q.chunks = <<>>,
         ~ Wraps(q), ~ Unread(q), NEW in \in Cells, Agrees(in, Wire(q)),
         NEW r, r = ReadRequest(in), r.result = 1
  PROVE  Whole(q, r)
  <1>1. /\ q.head \in {"get", "post", "length", "chunked", "both"} /\ q.length \in Nat
    BY DEF RequestType
  <1>2. PICK m \in Nat : m = Len(in)
    BY DEF Cells
  <1>3. Wait.result # 1 /\ Bad.result # 1 /\ \A n : [Wait EXCEPT !.result = n].result = n
    BY DEF Wait, Bad
  <1>4. in # <<>>
    BY <1>3 DEF ReadRequest
  <1>5. m # 0
    BY <1>2, <1>4 DEF Cells
  <1>6. Cell("start", 0).c = "start" /\ Cell(q.head, q.length).c = q.head /\ Cell(q.head, q.length).n = q.length
    BY <1>1, CellFacts DEF Kinds
  <1>7. PICK w : w = Wire(q)
    OBVIOUS
  <1>8. Len(w) >= 2 /\ w[1] = Cell("start", 0) /\ w[2] = Cell(q.head, q.length)
    <2>1. Len(BodyWire(q)) \in Nat /\ Len(w) = 2 + Len(BodyWire(q))
      BY <1>7, WireFacts DEF Cells
    <2> QED BY <1>7, <2>1, WireFacts
  <1>9. \A i \in 1 .. m : i <= Len(w) => in[i] = w[i]
    BY <1>2, <1>7 DEF Agrees
  <1>10. in[1].c = "start"
    BY <1>5, <1>6, <1>8, <1>9
  <1>11. m # 1
    <2>1. ASSUME m = 1 PROVE FALSE
      <3>1. ParseHead(in) = 0
        BY <1>2, <1>10, <2>1 DEF ParseHead
      <3>2. r = [Wait EXCEPT !.result = 0]
        BY <1>4, <3>1 DEF ReadRequest
      <3>3. r.result = 0
        BY <1>3, <3>2
      <3> QED BY <3>3
    <2> QED BY <2>1
  <1>12. in[2].c = q.head /\ in[2].n = q.length
    <2>1. 2 \in 1 .. m
      BY <1>5, <1>11
    <2> QED BY <1>6, <1>8, <1>9, <2>1
  <1>13. ParseHead(in) = 2
    BY <1>1, <1>2, <1>10, <1>11, <1>12 DEF ParseHead
  <1>14. PICK d : d = Dechunk(SubSeq(in, 2 + 1, Len(in)))
    OBVIOUS
  <1>15. r = IF q.head \in {"get", "post"} THEN Request(2, <<>>)
             ELSE IF q.head = "both" THEN Bad
             ELSE IF q.head = "length" THEN Sized(in, 2, q.length)
             ELSE IF d.result = 1 THEN Request(2 + d.size, d.body)
             ELSE [Wait EXCEPT !.result = d.result]
    BY <1>4, <1>12, <1>13, <1>14 DEF ReadRequest
  <1>16. CASE q.head \in {"get", "post"}
    BY <1>15, <1>16, HeadOnly
  <1>17. CASE q.head = "length"
    BY <1>15, <1>17, SizedFacts
  <1>18. CASE q.head = "both"
    BY <1>3, <1>15, <1>18
  <1>19. CASE q.head = "chunked"
    <2>1. d.result = 1
      BY <1>3, <1>15, <1>19
    <2> QED BY <1>14, <1>15, <1>19, <2>1, ChunkedBody
  <1> QED BY <1>1, <1>16, <1>17, <1>18, <1>19


-----------------------------------------------------------------------------
(* The requests of a peer, one after the other *)

SentStep(request, t) == t \o Wire(request)

LEMMA SentFacts ==
  ASSUME NEW requests \in Seq(RequestType), NEW K, K = Len(requests)
  PROVE  /\ SentUpTo(requests) \in [0 .. K -> Cells]
         /\ SentUpTo(requests)[0] = <<>>
         /\ \A k \in 1 .. K :
              SentUpTo(requests)[k] = SentUpTo(requests)[k - 1] \o Wire(requests[k])
  <1> DEFINE start == <<>>
             F == [k \in 1 .. K |-> [t \in Cells |-> SentStep(requests[k], t)]]
             Def(f) == [k \in 0 .. K |-> IF k = 0 THEN start ELSE SentStep(requests[k], f[k - 1])]
             r == CHOOSE f : f = Def(f)
  <1>1. K \in Nat /\ \A k \in 1 .. K : requests[k] \in RequestType
    OBVIOUS
  <1>2. start \in Cells
    BY DEF Cells
  <1>3. SentUpTo(requests) = r
    BY DEF SentUpTo, SentStep
  <1> HIDE DEF start
  <1>4. ASSUME NEW k \in 1 .. K, NEW t \in Cells PROVE SentStep(requests[k], t) \in Cells
    <2>1. Wire(requests[k]) \in Cells
      BY <1>1, WireFacts
    <2> QED BY <2>1, CellsConcat DEF SentStep
  <1>5. F \in Steps(Cells, K)
    BY <1>4 DEF Steps
  <1>6. PICK f : f \in [0 .. K -> Cells] /\ f[0] = start /\ \A k \in 1 .. K : f[k] = F[k][f[k - 1]]
    <2> HIDE DEF F
    <2>1. PICK f : Iteration(f, Cells, start, K, F)
      BY <1>1, <1>2, <1>5, Iterates
    <2> QED BY <2>1 DEF Iteration
  <1>7. f = Def(f)
    <2>1. ASSUME NEW k \in 1 .. K PROVE f[k] = SentStep(requests[k], f[k - 1])
      <3>1. k - 1 \in 0 .. K
        BY <1>1
      <3>2. f[k - 1] \in Cells
        BY <1>6, <3>1
      <3> QED BY <1>6, <3>2
    <2>2. ASSUME NEW k \in 0 .. K
          PROVE  f[k] = IF k = 0 THEN start ELSE SentStep(requests[k], f[k - 1])
      BY <1>1, <1>6, <2>1
    <2> QED BY <1>6, <2>2
  <1>8. r = Def(r)
    BY <1>7
  <1> HIDE DEF r
  <1>9. r[0] = start /\ \A k \in 1 .. K : r[k] = SentStep(requests[k], r[k - 1])
    <2>1. PICK q : q = r /\ r = Def(q)
      BY <1>8
    <2>2. \A k \in 0 .. K : r[k] = IF k = 0 THEN start ELSE SentStep(requests[k], q[k - 1])
      BY <2>1
    <2> QED BY <1>1, <2>1, <2>2
  <1> DEFINE T == {k \in 0 .. K : r[k] \in Cells}
  <1>10. 0 \in T
    BY <1>1, <1>2, <1>9
  <1>11. ASSUME NEW k \in 1 .. K, k - 1 \in T PROVE k \in T
    <2>1. r[k - 1] \in Cells /\ r[k] = SentStep(requests[k], r[k - 1])
      BY <1>9, <1>11
    <2>2. r[k] \in Cells
      BY <1>4, <2>1
    <2> QED BY <2>2
  <1> HIDE DEF T
  <1>12. \A k \in 0 .. K : k \in T
    BY <1>1, <1>10, <1>11, SetInduction
  <1>13. DOMAIN r = 0 .. K /\ r = [k \in 0 .. K |-> r[k]]
    BY <1>8
  <1>14. r \in [0 .. K -> Cells]
    BY <1>12, <1>13 DEF T
  <1> QED BY <1>3, <1>9, <1>14 DEF start, SentStep

LEMMA NothingLeft ==
  ASSUME NEW z \in Cells, NEW m \in Int, m <= Len(z)
  PROVE  SubSeq(z, Len(z) + 1, m) = <<>>
  <1>1. PICK l \in Nat : l = Len(z)
    BY DEF Cells
  <1>2. PICK x : x = SubSeq(z, l + 1, m)
    OBVIOUS
  <1>3. \A i \in l + 1 .. m : z[i] \in CellType
    BY <1>1
  <1>4. x \in Seq(CellType) /\ Len(x) = IF l + 1 <= m THEN m - (l + 1) + 1 ELSE 0
    BY <1>2, <1>3, SubSeqProperties
  <1>5. Len(x) = 0
    BY <1>1, <1>4
  <1> QED BY <1>1, <1>2, <1>4, <1>5

\* The input behind the first k requests is the next one, as much of it as there
\* is, or nothing.
LEMMA InputFacts ==
  ASSUME NEW requests \in Seq(RequestType), NEW k \in 0 .. Len(requests),
         NEW m \in 0 .. Len(Sent(requests)),
         NEW in, in = SubSeq(Sent(requests), Len(SentUpTo(requests)[k]) + 1, m),
         ReadRequest(in).result = 1
  PROVE  k < Len(requests) /\ in \in Cells /\ Agrees(in, Wire(requests[k + 1]))
  <1>1. PICK K, g, z : K \in Nat /\ K = Len(requests) /\ g = SentUpTo(requests) /\ z = Sent(requests)
    OBVIOUS
  <1>2. /\ g \in [0 .. K -> Cells]
        /\ \A j \in 1 .. K : g[j] = g[j - 1] \o Wire(requests[j])
    BY <1>1, SentFacts
  <1>3. z = g[K] /\ z \in Cells
    BY <1>1, <1>2 DEF Sent
  <1>4. ASSUME NEW j \in 1 .. K PROVE PrefixOf(g[j - 1], g[j])
    <2>1. g[j - 1] \in Cells
      <3>1. j - 1 \in 0 .. K
        BY <1>1
      <3> QED BY <1>2, <3>1
    <2>2. Wire(requests[j]) \in Cells
      <3>1. requests[j] \in RequestType
        BY <1>1
      <3> QED BY <3>1, WireFacts
    <2> QED BY <1>2, <2>1, <2>2, PrefixOfConcat DEF Cells
  <1>5. \A j \in 0 .. K : PrefixOf(g[j], z)
    <2>1. g \in [0 .. K -> Seq(CellType)]
      BY <1>2 DEF Cells
    <2> QED BY <1>1, <1>3, <1>4, <2>1, PrefixesOfLast
  <1>6. ASSUME k = K PROVE FALSE
    <2>1. PICK l \in Nat : l = Len(z)
      BY <1>3 DEF Cells
    <2>2. in = SubSeq(z, l + 1, m) /\ m \in Int /\ m <= l
      BY <1>1, <1>3, <1>6, <2>1
    <2>3. SubSeq(z, Len(z) + 1, m) = <<>>
      <3>1. m <= Len(z)
        BY <2>1, <2>2
      <3> QED BY <1>3, <2>2, <3>1, NothingLeft
    <2>4. in = <<>>
      BY <2>1, <2>2, <2>3
    <2>5. ReadRequest(in) = Wait
      BY <2>4 DEF ReadRequest
    <2> QED BY <2>5 DEF Wait
  <1>7. k + 1 \in 1 .. K /\ k + 1 \in 0 .. K /\ (k + 1) - 1 = k
    BY <1>1, <1>6
  <1>8. PICK p, w : p = g[k] /\ w = Wire(requests[k + 1])
    OBVIOUS
  <1>9. p \in Cells /\ w \in Cells
    <2>1. requests[k + 1] \in RequestType
      BY <1>1, <1>7
    <2> QED BY <1>1, <1>2, <1>8, <2>1, WireFacts
  <1>10. PrefixOf(p \o w, z)
    BY <1>2, <1>5, <1>7, <1>8
  <1>11. Agrees(z, z)
    BY DEF Agrees
  <1>12. in = SubSeq(z, Len(p) + 1, m) /\ m \in 0 .. Len(z)
    BY <1>1, <1>8
  <1>13. in \in Cells /\ Agrees(in, w)
    BY <1>3, <1>9, <1>10, <1>11, <1>12, RestAgrees
  <1> QED BY <1>1, <1>7, <1>8, <1>13


-----------------------------------------------------------------------------
(* The requests that are passed to the client *)

\* One of the first n requests has a length that wraps, or is a GET with a body.
Astray(requests, n) ==
  \E k \in 1 .. n : k <= Len(requests) /\ (Wraps(requests[k]) \/ Unread(requests[k]))

\* The i-th request that is passed on is the i-th that was sent.
FramedAt(requests, i, body) ==
  \/ /\ i <= Len(requests) /\ requests[i].head # "both"
     /\ body = [k \in 1 .. Body(requests[i]) |-> Cell("data", k)]
  \/ Astray(requests, i)

\* A number of requests was passed on with these bodies, and this much of the
\* input is not in the stream any more: just what these requests were sent as.
Passed(requests, asked, bodies, consumed1) ==
  /\ bodies = [i \in 1 .. asked |-> bodies[i]]
  /\ \/ Astray(requests, asked)
     \/ asked <= Len(requests) /\ consumed1 = Len(SentUpTo(requests)[asked])
  /\ \A i \in 1 .. asked : FramedAt(requests, i, bodies[i])

LEMMA AppendFacts ==
  ASSUME NEW n \in Nat, NEW b, b = [i \in 1 .. n |-> b[i]], NEW x
  PROVE  /\ Append(b, x) = [i \in 1 .. n + 1 |-> Append(b, x)[i]]
         /\ \A i \in 1 .. n : Append(b, x)[i] = b[i]
         /\ Append(b, x)[n + 1] = x
  <1>1. PICK B : B = {b[i] : i \in 1 .. n} \cup {x}
    OBVIOUS
  <1>2. x \in B /\ \A i \in 1 .. n : b[i] \in B
    BY <1>1
  <1>3. b \in Seq(B) /\ Len(b) = n
    BY <1>2
  <1>4. PICK a : a = Append(b, x)
    OBVIOUS
  <1>5. /\ a \in Seq(B) /\ Len(a) = n + 1 /\ \A i \in 1 .. n : a[i] = b[i]
        /\ a[n + 1] = x
    BY <1>2, <1>3, <1>4, AppendProperties
  <1>6. a = [i \in 1 .. n + 1 |-> a[i]]
    BY <1>5
  <1> QED BY <1>4, <1>5, <1>6

\* What is found in the input is the request behind those passed on.
LEMMA PassStep ==
  ASSUME NEW requests \in Seq(RequestType),
         \A i \in DOMAIN requests : requests[i].head # "chunked" => requests[i].chunks = <<>>,
         NEW n \in Nat, NEW bodies, NEW c, Passed(requests, n, bodies, c),
         NEW m \in 0 .. Len(Sent(requests)),
         NEW r, r = ReadRequest(SubSeq(Sent(requests), c + 1, m)), r.result = 1
  PROVE  Passed(requests, n + 1, Append(bodies, r.body), c + r.size)
  <1>1. PICK a : a = Append(bodies, r.body)
    OBVIOUS
  <1>2. a = [i \in 1 .. n + 1 |-> a[i]] /\ (\A i \in 1 .. n : a[i] = bodies[i]) /\ a[n + 1] = r.body
    BY <1>1, AppendFacts DEF Passed
  <1>3. \A i \in 1 .. n : FramedAt(requests, i, a[i])
    BY <1>2 DEF Passed
  <1>4. CASE Astray(requests, n + 1)
    <2>1. FramedAt(requests, n + 1, a[n + 1])
      BY <1>4 DEF FramedAt
    <2>2. \A i \in 1 .. n + 1 : FramedAt(requests, i, a[i])
      BY <1>3, <2>1
    <2> QED BY <1>1, <1>2, <1>4, <2>2 DEF Passed
  <1>5. CASE ~ Astray(requests, n + 1)
    <2>1. ~ Astray(requests, n)
      BY <1>5 DEF Astray
    <2>2. PICK K \in Nat : K = Len(requests)
      OBVIOUS
    <2>3. n \in 0 .. K /\ c = Len(SentUpTo(requests)[n])
      BY <2>1, <2>2 DEF Passed
    <2>4. PICK in : in = SubSeq(Sent(requests), c + 1, m)
      OBVIOUS
    <2>5. n < K /\ in \in Cells /\ Agrees(in, Wire(requests[n + 1]))
      BY <2>2, <2>3, <2>4, InputFacts
    <2>6. PICK q \in RequestType : q = requests[n + 1]
      BY <2>2, <2>3, <2>5
    <2>7. n + 1 \in 1 .. K /\ n + 1 \in 0 .. K /\ (n + 1) - 1 = n
      BY <2>2, <2>3, <2>5
    <2>8. q.head # "chunked" => q.chunks = <<>>
      BY <2>2, <2>6, <2>7
    <2>9. ~ Wraps(q) /\ ~ Unread(q)
      BY <1>5, <2>2, <2>6, <2>7 DEF Astray
    <2>10. Whole(q, r)
      BY <2>4, <2>5, <2>6, <2>8, <2>9, ReadFacts
    <2>11. PICK g : g = SentUpTo(requests)
      OBVIOUS
    <2>12. g[n + 1] = g[n] \o Wire(q) /\ g[n] \in Cells
      BY <2>2, <2>3, <2>6, <2>7, <2>11, SentFacts
    <2>13. c + r.size = Len(g[n + 1])
      <3>1. Wire(q) \in Cells
        BY WireFacts
      <3>2. Len(g[n] \o Wire(q)) = Len(g[n]) + Len(Wire(q))
        BY <2>12, <3>1, CellsConcat
      <3>3. c = Len(g[n]) /\ r.size = Len(Wire(q))
        BY <2>3, <2>10, <2>11 DEF Whole
      <3> QED BY <2>12, <3>2, <3>3, Zenon
    <2>14. r.body = [k \in 1 .. Body(q) |-> Cell("data", k)]
      <3>1. PICK l \in Nat : l = Body(q) /\ r.body = Data(0, l)
        BY <2>10 DEF Whole
      <3>2. PICK d : d = Data(0, l)
        OBVIOUS
      <3>3. d \in Cells /\ Len(d) = l /\ \A k \in 1 .. l : d[k] = Cell("data", 0 + k)
        BY <3>2, DataFacts
      <3>4. \A k \in 1 .. l : d[k] = Cell("data", k)
        BY <3>3
      <3>5. d = [k \in 1 .. l |-> d[k]]
        BY <3>3 DEF Cells
      <3>6. d = [k \in 1 .. l |-> Cell("data", k)]
        BY <3>4, <3>5
      <3> QED BY <3>1, <3>2, <3>6
    <2>15. FramedAt(requests, n + 1, a[n + 1])
      BY <1>2, <2>2, <2>6, <2>7, <2>10, <2>14 DEF FramedAt, Whole
    <2>16. \A i \in 1 .. n + 1 : FramedAt(requests, i, a[i])
      BY <1>3, <2>15
    <2> QED BY <1>1, <1>2, <2>2, <2>7, <2>11, <2>13, <2>16 DEF Passed
  <1> QED BY <1>4, <1>5

\* The invariant: the stream is read from where the requests that were passed on
\* end.
FramedInv ==
  /\ script \in [Sessions -> Scripts]
  /\ sent = [s \in Sessions |-> Sent(script[s])]
  /\ DOMAIN received = Sessions /\ DOMAIN consumed = Sessions /\ DOMAIN found = Sessions
  /\ \A s \in Sessions :
       /\ received[s] \in 0 .. Len(sent[s])
       /\ found[s] = ReadRequest(SubSeq(sent[s], consumed[s] + 1, received[s]))
       /\ Passed(script[s], client[s].asked, client[s].bodies, consumed[s])


LEMMA FramedInit == Init => FramedInv
  <1> SUFFICES ASSUME Init PROVE FramedInv
    OBVIOUS
  <1>1. /\ script \in [Sessions -> Scripts] /\ sent = [s \in Sessions |-> Sent(script[s])]
        /\ DOMAIN received = Sessions /\ DOMAIN consumed = Sessions /\ DOMAIN found = Sessions
    BY DEF Init
  <1>2. ASSUME NEW s \in Sessions
        PROVE  /\ received[s] \in 0 .. Len(sent[s])
               /\ found[s] = ReadRequest(SubSeq(sent[s], consumed[s] + 1, received[s]))
               /\ Passed(script[s], client[s].asked, client[s].bodies, consumed[s])
    <2>1. PICK requests \in Seq(RequestType) : requests = script[s]
      BY <1>1, ServerAssumption
    <2>2. PICK K, g, z : K \in Nat /\ K = Len(requests) /\ g = SentUpTo(requests) /\ z = sent[s]
      OBVIOUS
    <2>3. g \in [0 .. K -> Cells] /\ g[0] = <<>>
      BY <2>2, SentFacts
    <2>4. z = g[K]
      BY <1>1, <2>1, <2>2 DEF Sent
    <2>5. z \in Cells /\ Len(z) \in Nat
      <3>1. z \in Cells
        BY <2>2, <2>3, <2>4
      <3> QED BY <3>1 DEF Cells
    <2>6. received[s] = 0 /\ consumed[s] = 0 /\ found[s] = Wait
      BY DEF Init
    <2>7. SubSeq(z, 0 + 1, 0) = <<>>
      <3>1. PICK x : x = SubSeq(z, 1, 0)
        OBVIOUS
      <3>2. \A i \in 1 .. 0 : z[i] \in CellType
        OBVIOUS
      <3>3. x \in Seq(CellType) /\ Len(x) = IF 1 <= 0 THEN 0 - 1 + 1 ELSE 0
        BY <3>1, <3>2, SubSeqProperties
      <3> QED BY <3>1, <3>3
    <2>8. ReadRequest(SubSeq(z, 0 + 1, 0)) = Wait
      BY <2>7 DEF ReadRequest
    <2>9. client[s].asked = 0 /\ client[s].bodies = <<>>
      BY DEF Init
    <2>10. Passed(requests, 0, <<>>, 0)
      <3>1. PICK e : e = <<>>
        OBVIOUS
      <3>2. e = [i \in 1 .. 0 |-> e[i]] /\ Len(e) = 0
        BY <3>1
      <3>3. 0 <= Len(requests) /\ 0 = Len(g[0])
        BY <2>2, <2>3, <3>1, <3>2
      <3>4. Passed(requests, 0, e, 0)
        BY <2>2, <3>2, <3>3 DEF Passed
      <3> QED BY <3>1, <3>4
    <2> QED BY <2>1, <2>2, <2>5, <2>6, <2>8, <2>9, <2>10
  <1> QED BY <1>1, <1>2 DEF FramedInv

LEMMA SentLength ==
  ASSUME FramedInv, NEW s \in Sessions
  PROVE  Len(sent[s]) \in Nat
  <1>1. PICK requests \in Seq(RequestType) : requests = script[s]
    BY ServerAssumption DEF FramedInv
  <1>2. PICK K \in Nat : K = Len(requests)
    OBVIOUS
  <1>3. sent[s] = SentUpTo(requests)[K]
    BY <1>1, <1>2 DEF FramedInv, Sent
  <1>4. sent[s] \in Cells
    <2>1. SentUpTo(requests) \in [0 .. K -> Cells]
      BY <1>2, SentFacts
    <2>2. K \in 0 .. K
      BY <1>2
    <2> QED BY <1>3, <2>1, <2>2
  <1> QED BY <1>4 DEF Cells

\* Most actions leave the input and what was passed on.
LEMMA FramedKept ==
  ASSUME FramedInv, UNCHANGED <<script, sent, received, consumed, found>>,
         \A t \in Sessions : client'[t].asked = client[t].asked /\ client'[t].bodies = client[t].bodies
  PROVE  FramedInv'
  BY DEF FramedInv

LEMMA FramedRead ==
  ASSUME FramedInv, NEW s \in Sessions, NEW n \in Cuts, StreamRead(s, n)
  PROVE  FramedInv'
  <1>1. UNCHANGED <<script, sent, consumed, client>>
    BY DEF StreamRead
  <1>2. PICK x : x = received[s] + n
    OBVIOUS
  <1>3. x \in 0 .. Len(sent[s])
    <2>1. n \in Nat /\ received[s] \in 0 .. Len(sent[s]) /\ received[s] + n <= Len(sent[s])
      BY ServerAssumption DEF FramedInv, StreamRead
    <2>2. Len(sent[s]) \in Nat
      BY SentLength
    <2> QED BY <1>2, <2>1, <2>2
  <1>4. received' = [received EXCEPT ![s] = x]
    BY <1>2 DEF StreamRead
  <1>5. received'[s] = x /\ (\A t \in Sessions \ {s} : received'[t] = received[t]) /\ DOMAIN received' = Sessions
    BY <1>4 DEF FramedInv
  <1>6. found' = [found EXCEPT ![s] = ReadRequest(SubSeq(sent[s], consumed[s] + 1, x))]
    BY <1>5 DEF StreamRead, Found
  <1>7. /\ found'[s] = ReadRequest(SubSeq(sent[s], consumed[s] + 1, x))
        /\ (\A t \in Sessions \ {s} : found'[t] = found[t]) /\ DOMAIN found' = Sessions
    BY <1>6 DEF FramedInv
  <1>8. ASSUME NEW t \in Sessions
        PROVE  /\ received'[t] \in 0 .. Len(sent[t])
               /\ found'[t] = ReadRequest(SubSeq(sent[t], consumed[t] + 1, received'[t]))
    <2>1. CASE t = s
      BY <1>3, <1>5, <1>7, <2>1
    <2>2. CASE t # s
      BY <1>5, <1>7, <2>2 DEF FramedInv
    <2> QED BY <2>1, <2>2
  <1> QED BY <1>1, <1>5, <1>7, <1>8 DEF FramedInv

LEMMA FramedRequest ==
  ASSUME Inv, FramedInv, NEW s \in Sessions, SessionRequest(s)
  PROVE  FramedInv'
  <1>1. UNCHANGED <<script, sent, received>>
    BY DEF SessionRequest
  <1>2. PICK r, x : r = found[s] /\ x = consumed[s] + r.size
    OBVIOUS
  <1>3. consumed' = [consumed EXCEPT ![s] = x]
    BY <1>2 DEF SessionRequest
  <1>4. consumed'[s] = x /\ (\A t \in Sessions \ {s} : consumed'[t] = consumed[t]) /\ DOMAIN consumed' = Sessions
    BY <1>3 DEF FramedInv
  <1>5. found' = [found EXCEPT ![s] = ReadRequest(SubSeq(sent[s], x + 1, received[s]))]
    BY <1>4 DEF SessionRequest, Found
  <1>6. /\ found'[s] = ReadRequest(SubSeq(sent[s], x + 1, received[s]))
        /\ (\A t \in Sessions \ {s} : found'[t] = found[t]) /\ DOMAIN found' = Sessions
    BY <1>5 DEF FramedInv
  <1>7. PICK n, b : n \in Nat /\ n = client[s].asked /\ b = client[s].bodies
    BY DEF Inv, TypeOK
  <1>8. /\ client'[s].asked = n + 1 /\ client'[s].bodies = Append(b, r.body)
        /\ \A t \in Sessions \ {s} : client'[t] = client[t]
    <2>1. PICK B, y : B = Bodies(client) /\ y = Append(b, r.body)
      OBVIOUS
    <2>2. client \in [Sessions -> ClientType(B)]
      BY <2>1 DEF Inv, TypeOK, ClientType, Bodies
    <2>3. client' = [client EXCEPT ![s].asked = @ + 1, ![s].held = TRUE, ![s].bodies = y]
      BY <1>2, <1>7, <2>1 DEF SessionRequest
    <2> QED BY <1>7, <2>1, <2>2, <2>3 DEF ClientType
  <1>9. PICK requests \in Seq(RequestType) : requests = script[s] /\ requests \in Scripts
    BY ServerAssumption DEF FramedInv
  <1>10. Passed(requests, n + 1, Append(b, r.body), x)
    <2>1. \A i \in DOMAIN requests : requests[i].head # "chunked" => requests[i].chunks = <<>>
      BY <1>9, ServerAssumption
    <2>2. Passed(requests, n, b, consumed[s])
      BY <1>7, <1>9 DEF FramedInv
    <2>3. sent[s] = Sent(requests)
      BY <1>9 DEF FramedInv
    <2>4. received[s] \in 0 .. Len(Sent(requests))
      BY <2>3 DEF FramedInv
    <2>5. r = ReadRequest(SubSeq(Sent(requests), consumed[s] + 1, received[s])) /\ r.result = 1
      BY <1>2, <2>3 DEF FramedInv, SessionRequest
    <2> QED BY <1>2, <1>7, <2>1, <2>2, <2>4, <2>5, PassStep
  <1>11. ASSUME NEW t \in Sessions
         PROVE  /\ found'[t] = ReadRequest(SubSeq(sent[t], consumed'[t] + 1, received[t]))
                /\ Passed(script[t], client'[t].asked, client'[t].bodies, consumed'[t])
    <2>1. CASE t = s
      BY <1>4, <1>6, <1>8, <1>9, <1>10, <2>1
    <2>2. CASE t # s
      BY <1>4, <1>6, <1>8, <2>2 DEF FramedInv
    <2> QED BY <2>1, <2>2
  <1> QED BY <1>1, <1>4, <1>6, <1>11 DEF FramedInv


\* An answer is not about what was passed on.
LEMMA AnswerKeeps ==
  ASSUME NEW s \in Sessions, NEW over,
         client \in [Sessions -> ClientType(Bodies(client))],
         \/ client' = [client EXCEPT ![s].held = FALSE]
         \/ client' = [client EXCEPT ![s].held = FALSE, ![s].overwrote = over]
  PROVE  \A t \in Sessions : client'[t].asked = client[t].asked /\ client'[t].bodies = client[t].bodies
  <1>1. PICK B : B = Bodies(client)
    OBVIOUS
  <1>2. client \in [Sessions -> ClientType(B)]
    BY <1>1
  <1> QED BY <1>2 DEF ClientType

LEMMA FramedNext == Inv /\ FramedInv /\ [Next]_vars => FramedInv'
  <1> SUFFICES ASSUME Inv, FramedInv, [Next]_vars PROVE FramedInv'
    OBVIOUS
  <1>1. client \in [Sessions -> ClientType(Bodies(client))]
    BY DEF Inv, TypeOK, ClientType, Bodies
  <1>2. ASSUME UNCHANGED <<script, sent, received, consumed, found, client>> PROVE FramedInv'
    BY <1>2, FramedKept
  <1>3. CASE Open \/ Close \/ UNCHANGED vars
    BY <1>2, <1>3 DEF Open, Close, vars
  <1>4. CASE SessionNext
    BY <1>2, <1>4 DEF SessionNext
  <1>5. ASSUME NEW s \in Sessions,
               Accept(s) \/ StreamEnd(s) \/ ReadBad(s) \/ ReadDone(s) \/ Return(s)
        PROVE  FramedInv'
    BY <1>2, <1>5 DEF Accept, StreamEnd, ReadBad, ReadDone, Return
  <1>6. ASSUME NEW s \in Sessions, Respond(s) \/ Disconnect(s)
        PROVE  FramedInv'
    <2>1. UNCHANGED <<script, sent, received, consumed, found>>
      BY <1>6 DEF Respond, Disconnect
    <2>2. PICK over : over = (client[s].overwrote \/ session[s].next # 0)
      OBVIOUS
    <2>3. \/ client' = [client EXCEPT ![s].held = FALSE]
          \/ client' = [client EXCEPT ![s].held = FALSE, ![s].overwrote = over]
      BY <1>6, <2>2, Zenon DEF Respond, Disconnect
    <2> QED BY <1>1, <2>1, <2>3, AnswerKeeps, FramedKept
  <1>7. ASSUME NEW s \in Sessions, \E n \in Cuts : StreamRead(s, n)
        PROVE  FramedInv'
    BY <1>7, FramedRead
  <1>8. ASSUME NEW s \in Sessions, SessionRequest(s)
        PROVE  FramedInv'
    BY <1>8, FramedRequest
  <1> QED BY <1>3, <1>4, <1>5, <1>6, <1>7, <1>8 DEF Next

\* The loop of server_session_read() takes from the stream, for each request that
\* it passes on, the cells that this request was sent as, so that it parses the
\* next one from its start; up to the first request whose length wraps or that is
\* a GET with a body, which may be among those that the peer sends.
THEOREM FramedInvariance == Spec => []FramedInv
  <1>1. Init => FramedInv
    BY FramedInit
  <1>2. Inv /\ FramedInv /\ [Next]_vars => FramedInv'
    BY FramedNext
  <1> QED BY <1>1, <1>2, Invariance, PTL DEF Spec

\* http_read_request() in the loop of server_session_read() finds the requests
\* that the peer has sent with the bodies that it has sent, for every sequence of
\* requests, every size of body and of chunk, and however the input is cut into
\* reads, up to the first request that it does not frame: one whose length wraps
\* or a GET with a body.
THEOREM RequestsAreFramed == Spec => []Framed
  <1>1. FramedInv => Framed
    BY DEF FramedInv, Passed, FramedAt, Astray, Framed
  <1> QED BY <1>1, FramedInvariance, PTL
=============================================================================

---------------------------- MODULE SignalProofs ----------------------------
(***************************************************************************)
(* The conservation of signals of module Signal, for any number of sends   *)
(* and of opens.                                                           *)
(***************************************************************************)
EXTENDS Signal, FiniteSetTheorems, TLAPS

Aborts == {"none", "live", "true", "dangling"}

SignalType == [fd : {-1} \cup Fds, read : Nat, counter : Nat, abort : Aborts]

\* The image of a finite set is finite and has no more elements.
LEMMA ImageFacts ==
  ASSUME NEW S, IsFiniteSet(S), NEW f, f = [x \in S |-> f[x]]
  PROVE  /\ IsFiniteSet({f[x] : x \in S})
         /\ Cardinality({f[x] : x \in S}) <= Cardinality(S)
  <1> DEFINE T == {f[x] : x \in S}
  <1>1. f \in Surjection(S, T)
    BY DEF Surjection
  <1> QED BY <1>1, FS_Surjection

\* reactor_read() finds an id that no other read has.
LEMMA FreshRead ==
  ASSUME NEW S, IsFiniteSet(S)
  PROVE  \E m \in 1 .. Cardinality(S) + 1 : \A r \in S : r.n # m
  <1> SUFFICES ASSUME \A m \in 1 .. Cardinality(S) + 1 : \E r \in S : r.n = m
               PROVE  FALSE
    OBVIOUS
  <1> DEFINE f == [r \in S |-> r.n]
             T == {f[r] : r \in S}
             I == 1 .. Cardinality(S) + 1
  <1>1. Cardinality(S) \in Nat
    BY FS_CardinalityType
  <1>2. IsFiniteSet(T) /\ Cardinality(T) <= Cardinality(S)
    <2>1. f = [x \in S |-> f[x]]
      OBVIOUS
    <2> HIDE DEF f
    <2> QED BY <2>1, ImageFacts
  <1>3. I \in SUBSET T
    OBVIOUS
  <1>4. Cardinality(I) = Cardinality(S) + 1
    <2>1. PICK k : k = Cardinality(S) + 1
      OBVIOUS
    <2>2. 1 \in Int /\ k \in Int /\ ~ (1 > k) /\ k - 1 + 1 = k
      BY <1>1, <2>1
    <2>3. Cardinality(1 .. k) = IF 1 > k THEN 0 ELSE k - 1 + 1
      BY <2>2, FS_Interval
    <2>4. Cardinality(1 .. k) = k
      BY <2>2, <2>3
    <2> QED BY <2>1, <2>4
  <1> HIDE DEF T, I
  <1>5. Cardinality(I) <= Cardinality(T)
    BY <1>2, <1>3, FS_Subset
  <1>6. Cardinality(T) \in Nat
    BY <1>2, FS_CardinalityType
  <1> QED BY <1>1, <1>2, <1>4, <1>5, <1>6

\* What the submission of a read does.
LEMMA ReadingFacts ==
  ASSUME NEW s, NEW rest, IsFiniteSet(rest), Reading(s, rest)
  PROVE  \E n \in Nat :
           /\ \A r \in rest : r.n # n
           /\ reads' = rest \cup {Read(n, s.fd)}
           /\ signal' = [s EXCEPT !.read = n]
  <1> DEFINE fresh(m) == \A r \in rest : r.n # m
             n == CHOOSE m \in 1 .. Cardinality(rest) + 1 : fresh(m)
  <1>1. \E m \in 1 .. Cardinality(rest) + 1 : fresh(m)
    BY FreshRead
  <1>2. n \in 1 .. Cardinality(rest) + 1 /\ fresh(n)
    BY <1>1
  <1>3. Cardinality(rest) \in Nat
    BY FS_CardinalityType
  <1>4. n \in Nat
    BY <1>2, <1>3
  <1>5. reads' = rest \cup {Read(n, s.fd)} /\ signal' = [s EXCEPT !.read = n]
    BY DEF Reading
  <1> HIDE DEF n
  <1> QED BY <1>2, <1>4, <1>5

\* A read that signal_close() cancels, or leaves.
LEMMA CancelledRead ==
  ASSUME NEW r \in ReadType, NEW b \in BOOLEAN
  PROVE  /\ [r EXCEPT !.user = b] \in ReadType
         /\ [r EXCEPT !.user = b].n = r.n
  BY DEF ReadType

\* A read that ends.
LEMMA EndedRead ==
  ASSUME NEW r \in ReadType, NEW x \in {0, CounterSize, EBADF}
  PROVE  /\ [r EXCEPT !.result = x] \in ReadType
         /\ [r EXCEPT !.result = x].n = r.n
         /\ [r EXCEPT !.result = x].fd = r.fd
         /\ [r EXCEPT !.result = x].user = r.user
         /\ [r EXCEPT !.result = x].result = x
  BY DEF ReadType

\* One eventfd has another count.
LEMMA EventFacts ==
  ASSUME NEW e \in Seq(EventType), NEW fd \in 1 .. Len(e), NEW c \in Nat
  PROVE  /\ [e EXCEPT ![fd].count = c] \in Seq(EventType)
         /\ Len([e EXCEPT ![fd].count = c]) = Len(e)
         /\ [e EXCEPT ![fd].count = c][fd].count = c
         /\ \A m \in 1 .. Len(e) :
              [e EXCEPT ![fd].count = c][m].semaphore = e[m].semaphore
         /\ e[fd].count \in Nat /\ e[fd].semaphore \in BOOLEAN
  <1> DEFINE d == [e EXCEPT ![fd].count = c]
  <1>1. \A m \in 1 .. Len(e) : e[m] \in EventType
    OBVIOUS
  <1>2. PICK x : x = [e[fd] EXCEPT !.count = c]
    OBVIOUS
  <1>3. x \in EventType /\ x.count = c /\ x.semaphore = e[fd].semaphore
    BY <1>1, <1>2 DEF EventType
  <1>4. e[fd].count \in Nat /\ e[fd].semaphore \in BOOLEAN
    BY <1>1 DEF EventType
  <1>5. d = [e EXCEPT ![fd] = x]
    BY <1>2
  <1>6. d \in Seq(EventType) /\ Len(d) = Len(e) /\ d[fd] = x
    BY <1>3, <1>5
  <1>7. \A m \in 1 .. Len(e) : m # fd => d[m] = e[m]
    BY <1>5
  <1> QED BY <1>3, <1>4, <1>6, <1>7

\* The initial state.
LEMMA InitInv ==
  SignalInit => SignalInv
  <1> SUFFICES ASSUME SignalInit PROVE SignalInv
    OBVIOUS
  <1>1. SignalTypeOK
    <2>1. IsFiniteSet(reads)
      BY FS_EmptySet DEF SignalInit
    <2>2. events \in Seq(EventType) /\ Len(events) = 0
      BY DEF SignalInit
    <2>3. opens \in 0 .. MaxOpens /\ writes \in [1 .. MaxOpens -> Nat]
      BY SignalAssumption DEF SignalInit
    <2> QED BY <2>1, <2>2, <2>3 DEF SignalInit, SignalTypeOK
  <1> QED BY <1>1 DEF SignalInit, SignalInv, Identified, Unopened, FirstOpen, Conserved

\* A step that only sends: the count it adds is in flight or in the eventfd.
LEMMA SendStep ==
  ASSUME SignalInv, Send \/ SendSync
  PROVE  SignalInv'
  <1>1. SignalTypeOK
    BY DEF SignalInv
  <1>2. signal.fd \in Fds /\ Fds = 1 .. Len(events) /\ signal.fd \in 1 .. MaxOpens
    BY <1>1, SignalAssumption DEF SignalTypeOK, Send, SendSync, Fds
  <1>3. UNCHANGED <<signal, opens, reads, received>> /\ sends' = sends + 1 /\ sent' = sent + 1
    BY DEF Send, SendSync
  <1>4. \/ events' = events /\ writes' = [writes EXCEPT ![signal.fd] = writes[signal.fd] + 1]
        \/ writes' = writes /\ events' = [events EXCEPT ![signal.fd].count = events[signal.fd].count + 1]
    BY DEF Send, SendSync
  <1>5. events[signal.fd].count \in Nat /\ writes[signal.fd] \in Nat
    BY <1>1, <1>2, EventFacts DEF SignalTypeOK
  <1>6. /\ events' \in Seq(EventType) /\ Len(events') = Len(events)
        /\ \A m \in 1 .. Len(events) : events'[m].semaphore = events[m].semaphore
        /\ events'[signal.fd].count + writes'[signal.fd]
             = events[signal.fd].count + writes[signal.fd] + 1
        /\ events'[signal.fd].count \in Nat
    <2>1. CASE events' = events /\ writes' = [writes EXCEPT ![signal.fd] = writes[signal.fd] + 1]
      BY <1>1, <1>2, <1>5, <2>1, SMTT(60) DEF SignalTypeOK
    <2>2. CASE writes' = writes /\ events' = [events EXCEPT ![signal.fd].count = events[signal.fd].count + 1]
      <3>1. PICK c \in Nat : c = events[signal.fd].count + 1
        BY <1>5
      <3>2. events \in Seq(EventType)
        BY <1>1 DEF SignalTypeOK
      <3>3. events' = [events EXCEPT ![signal.fd].count = c]
        BY <2>2, <3>1
      <3>4. /\ events' \in Seq(EventType) /\ Len(events') = Len(events)
            /\ \A m \in 1 .. Len(events) : events'[m].semaphore = events[m].semaphore
            /\ events'[signal.fd].count = c
        BY <1>2, <3>2, <3>3, EventFacts
      <3> QED BY <1>5, <2>2, <3>1, <3>4
    <2> QED BY <1>4, <2>1, <2>2
  <1>7. writes' \in [1 .. MaxOpens -> Nat]
        /\ \A fd \in 1 .. MaxOpens : fd # signal.fd => writes'[fd] = writes[fd]
    <2>1. writes \in [1 .. MaxOpens -> Nat]
      BY <1>1 DEF SignalTypeOK
    <2>2. writes' = writes \/ writes' = [writes EXCEPT ![signal.fd] = writes[signal.fd] + 1]
      BY <1>4
    <2>3. PICK k, v : k = signal.fd /\ v = writes[signal.fd] + 1
      OBVIOUS
    <2>4. v \in Nat /\ k \in 1 .. MaxOpens
      BY <1>2, <1>5, <2>3
    <2>5. CASE writes' = writes
      BY <2>1, <2>5
    <2>6. CASE writes' = [writes EXCEPT ![k] = v]
      BY <2>1, <2>3, <2>4, <2>6
    <2> QED BY <2>2, <2>3, <2>5, <2>6
  <1>8. Fds' = Fds /\ ReadType' = ReadType
    BY <1>6 DEF Fds, ReadType
  <1>9. SignalTypeOK'
    <2>1. \A fd \in 1 .. MaxOpens : writes'[fd] > 0 => fd \in Fds'
      BY <1>1, <1>2, <1>7, <1>8 DEF SignalTypeOK
    <2>2. opens' \in 0 .. MaxOpens /\ Len(events') <= opens'
      BY <1>1, <1>3, <1>6 DEF SignalTypeOK
    <2>3. sends' \in Nat /\ sent' \in Nat /\ received' \in Nat
      BY <1>1, <1>3 DEF SignalTypeOK
    <2>4. reads' \subseteq ReadType' /\ IsFiniteSet(reads')
      BY <1>1, <1>3, <1>8 DEF SignalTypeOK
    <2>5. signal' \in [fd : {-1} \cup Fds', read : Nat, counter : Nat,
                       abort : {"none", "live", "true", "dangling"}]
      BY <1>1, <1>3, <1>8 DEF SignalTypeOK
    <2> QED BY <1>6, <1>7, <2>1, <2>2, <2>3, <2>4, <2>5 DEF SignalTypeOK
  <1>10. (Identified /\ Unopened)'
    BY <1>3 DEF SignalInv, Identified, Unopened
  <1>11. FirstOpen'
    BY <1>2, <1>3, <1>6 DEF SignalInv, FirstOpen
  <1>12. Conserved'
    <2> SUFFICES ASSUME opens = 1 /\ signal.fd # -1
                 PROVE  Conserved'
      BY <1>3 DEF Conserved
    <2>1. Taken \in Nat /\ Taken' = Taken
      BY <1>1, <1>3 DEF SignalTypeOK, Taken
    <2>2. sent = received + events[signal.fd].count + writes[signal.fd] + Taken
      BY DEF SignalInv, Conserved
    <2>3. sent' = received' + events'[signal'.fd].count + writes'[signal'.fd] + Taken'
      <3>1. writes'[signal.fd] \in Nat /\ received \in Nat
        BY <1>1, <1>2, <1>7 DEF SignalTypeOK
      <3>2. PICK a, b, c, d, t : /\ a = events[signal.fd].count /\ b = writes[signal.fd]
                                 /\ c = events'[signal.fd].count /\ d = writes'[signal.fd]
                                 /\ t = Taken
        OBVIOUS
      <3>3. a \in Nat /\ b \in Nat /\ c \in Nat /\ d \in Nat /\ t \in Nat
        BY <1>5, <1>6, <2>1, <3>1, <3>2
      <3>4. c + d = a + b + 1 /\ sent = received + a + b + t
        BY <1>6, <2>2, <3>2
      <3>5. sent + 1 = received + c + d + t
        BY <3>1, <3>3, <3>4
      <3> QED BY <1>3, <2>1, <3>2, <3>5
    <2> QED BY <2>3 DEF Conserved
  <1> QED BY <1>9, <1>10, <1>11, <1>12 DEF SignalInv

\* A write moves its count from the writes in flight to the eventfd.
LEMMA KernelWriteStep ==
  ASSUME SignalInv, NEW fd \in 1 .. MaxOpens, KernelWrite(fd)
  PROVE  SignalInv'
  <1>1. SignalTypeOK
    BY DEF SignalInv
  <1>2. writes[fd] \in Nat \ {0} /\ fd \in 1 .. Len(events) /\ writes \in [1 .. MaxOpens -> Nat]
    BY <1>1 DEF SignalTypeOK, KernelWrite, Fds
  <1>3. UNCHANGED <<signal, opens, reads, sends, sent, received>>
    BY DEF KernelWrite
  <1>4. PICK c, v : c = events[fd].count + 1 /\ v = writes[fd] - 1
    OBVIOUS
  <1>5. events \in Seq(EventType) /\ events[fd].count \in Nat
    BY <1>1, <1>2, EventFacts DEF SignalTypeOK
  <1>6. c \in Nat /\ v \in Nat
    BY <1>2, <1>4, <1>5
  <1>7. writes' = [writes EXCEPT ![fd] = v] /\ events' = [events EXCEPT ![fd].count = c]
    BY <1>4 DEF KernelWrite
  <1>8. /\ events' \in Seq(EventType) /\ Len(events') = Len(events)
        /\ events'[fd].count = c
        /\ \A m \in 1 .. Len(events) : events'[m].semaphore = events[m].semaphore
    BY <1>2, <1>5, <1>6, <1>7, EventFacts
  <1>9. /\ writes' \in [1 .. MaxOpens -> Nat] /\ writes'[fd] = v
        /\ \A m \in 1 .. MaxOpens : m # fd => writes'[m] = writes[m]
    BY <1>2, <1>6, <1>7
  <1>10. Fds' = Fds /\ ReadType' = ReadType
    BY <1>8 DEF Fds, ReadType
  <1>11. SignalTypeOK'
    <2>1. \A m \in 1 .. MaxOpens : writes'[m] > 0 => m \in Fds'
      BY <1>1, <1>2, <1>9, <1>10 DEF SignalTypeOK
    <2>2. opens' \in 0 .. MaxOpens /\ Len(events') <= opens'
      BY <1>1, <1>3, <1>8 DEF SignalTypeOK
    <2>3. sends' \in Nat /\ sent' \in Nat /\ received' \in Nat
      BY <1>1, <1>3 DEF SignalTypeOK
    <2>4. reads' \subseteq ReadType' /\ IsFiniteSet(reads')
      BY <1>1, <1>3, <1>10 DEF SignalTypeOK
    <2>5. signal' \in [fd : {-1} \cup Fds', read : Nat, counter : Nat,
                       abort : {"none", "live", "true", "dangling"}]
      BY <1>1, <1>3, <1>10 DEF SignalTypeOK
    <2> QED BY <1>8, <1>9, <2>1, <2>2, <2>3, <2>4, <2>5 DEF SignalTypeOK
  <1>12. (Identified /\ Unopened)'
    BY <1>3 DEF SignalInv, Identified, Unopened
  <1>13. FirstOpen'
    BY <1>1, <1>2, <1>3, <1>8 DEF SignalInv, FirstOpen, SignalTypeOK
  <1>14. Conserved'
    <2> SUFFICES ASSUME opens = 1 /\ signal.fd # -1
                 PROVE  Conserved'
      BY <1>3 DEF Conserved
    <2>1. Taken \in Nat /\ Taken' = Taken
      BY <1>1, <1>3 DEF SignalTypeOK, Taken
    <2>2. sent = received + events[signal.fd].count + writes[signal.fd] + Taken
      BY DEF SignalInv, Conserved
    <2>3. fd = signal.fd
      BY <1>1, <1>2 DEF SignalInv, FirstOpen, SignalTypeOK
    <2>4. received \in Nat
      BY <1>1 DEF SignalTypeOK
    <2>5. PICK a, b, t : a = events[fd].count /\ b = writes[fd] /\ t = Taken
      OBVIOUS
    <2>6. sent = received + a + b + t /\ a \in Nat /\ b \in Nat \ {0} /\ t \in Nat
          /\ c = a + 1 /\ v = b - 1
      BY <1>2, <1>4, <1>5, <2>1, <2>2, <2>3, <2>5
    <2>7. sent = received + c + v + t
      BY <1>6, <2>4, <2>6
    <2> QED BY <1>3, <1>8, <1>9, <2>1, <2>3, <2>5, <2>7 DEF Conserved
  <1> QED BY <1>11, <1>12, <1>13, <1>14 DEF SignalInv

\* A read takes the count of the eventfd, all of it unless it is a semaphore.
LEMMA KernelReadStep ==
  ASSUME SignalInv, NEW r \in reads, KernelRead(r)
  PROVE  SignalInv'
  <1>1. SignalTypeOK
    BY DEF SignalInv
  <1>2. r \in ReadType /\ r.fd \in 1 .. Len(events) /\ events \in Seq(EventType)
    BY <1>1 DEF SignalTypeOK, KernelRead, ReadType, Fds
  <1>3. UNCHANGED <<opens, writes, sends, sent, received>>
    BY DEF KernelRead
  <1>4. PICK fd, u, e : /\ fd = r.fd
                        /\ u = IF events[r.fd].semaphore THEN 1 ELSE events[r.fd].count
                        /\ e = [r EXCEPT !.result = CounterSize]
    OBVIOUS
  <1>5. events[fd].count \in Nat \ {0}
    <2>1. events[r.fd].count \in Nat
      BY <1>2, EventFacts
    <2>2. events[r.fd].count > 0
      BY DEF KernelRead
    <2> QED BY <1>4, <2>1, <2>2
  <1>6. u \in Nat /\ events[fd].count - u \in Nat /\ (~ events[fd].semaphore => u = events[fd].count)
    BY <1>4, <1>5
  <1>7. PICK c \in Nat : c = events[fd].count - u
    BY <1>6
  <1>8. /\ events' = [events EXCEPT ![fd].count = c]
        /\ signal' = [signal EXCEPT !.counter = u]
        /\ reads' = (reads \ {r}) \cup {e}
    BY <1>4, <1>7 DEF KernelRead
  <1>9. /\ e \in ReadType /\ e.n = r.n /\ e.fd = r.fd /\ e.user = r.user
        /\ e.result = CounterSize
    BY <1>2, <1>4, EndedRead
  <1>10. /\ events' \in Seq(EventType) /\ Len(events') = Len(events)
         /\ events'[fd].count = c
         /\ \A m \in 1 .. Len(events) : events'[m].semaphore = events[m].semaphore
    BY <1>2, <1>4, <1>8, EventFacts, SMTT(60)
  <1>11. Fds' = Fds /\ ReadType' = ReadType
    BY <1>10 DEF Fds, ReadType
  <1>12. /\ signal' \in SignalType
         /\ signal'.fd = signal.fd /\ signal'.abort = signal.abort /\ signal'.counter = u
    BY <1>1, <1>6, <1>8 DEF SignalTypeOK, SignalType, Aborts
  <1>13. IsFiniteSet(reads') /\ reads' \subseteq ReadType
    <2>1. IsFiniteSet(reads \ {r})
      BY <1>1, FS_RemoveElement DEF SignalTypeOK
    <2> QED BY <1>1, <1>8, <1>9, <2>1, FS_AddElement DEF SignalTypeOK
  <1>14. SignalTypeOK'
    <2>1. \A m \in 1 .. MaxOpens : writes'[m] > 0 => m \in Fds'
      BY <1>1, <1>3, <1>11 DEF SignalTypeOK
    <2>2. opens' \in 0 .. MaxOpens /\ Len(events') <= opens'
      BY <1>1, <1>3, <1>10 DEF SignalTypeOK
    <2>3. sends' \in Nat /\ sent' \in Nat /\ received' \in Nat
      BY <1>1, <1>3 DEF SignalTypeOK
    <2>4. writes' \in [1 .. MaxOpens -> Nat]
      BY <1>1, <1>3 DEF SignalTypeOK
    <2>5. signal' \in [fd : {-1} \cup Fds', read : Nat, counter : Nat,
                       abort : {"none", "live", "true", "dangling"}]
      BY <1>11, <1>12 DEF SignalType, Aborts
    <2> QED BY <1>10, <1>11, <1>13, <2>1, <2>2, <2>3, <2>4, <2>5 DEF SignalTypeOK
  <1>15. Identified'
    BY <1>8, <1>9 DEF SignalInv, Identified
  <1>16. Unopened'
    BY <1>3 DEF SignalInv, Unopened
  <1>17. FirstOpen' /\ Conserved'
    <2> SUFFICES ASSUME opens = 1, signal.fd # -1
                 PROVE  FirstOpen' /\ Conserved'
      BY <1>3, <1>12 DEF FirstOpen, Conserved
    <2>1. signal.fd = 1 /\ ~ events[1].semaphore /\ signal.abort = "none" /\ reads = {r}
          /\ r.user /\ r.fd = 1
      BY <1>3 DEF SignalInv, FirstOpen
    <2>2. reads' = {e} /\ e.user /\ e.fd = 1 /\ e.result # EBADF
      BY <1>8, <1>9, <2>1 DEF CounterSize, EBADF
    <2>3. ~ events'[1].semaphore
      BY <1>2, <1>10, <2>1
    <2>4. FirstOpen'
      BY <1>12, <2>1, <2>2, <2>3 DEF FirstOpen
    <2>5. Taken = 0 /\ Taken' = u
      BY <1>9, <1>12, <2>1, <2>2 DEF Taken, KernelRead, CounterSize
    <2>6. fd = 1 /\ u = events[1].count /\ c = 0
      BY <1>4, <1>5, <1>6, <1>7, <2>1
    <2>7. PICK a, b : a = events[1].count /\ b = writes[1]
      OBVIOUS
    <2>8. sent = received + a + b + 0
      BY <2>1, <2>5, <2>7 DEF SignalInv, Conserved
    <2>9. a \in Nat /\ b \in Nat /\ received \in Nat
      BY <1>1, <1>5, <2>6, <2>7 DEF SignalTypeOK
    <2>10. sent = received + c + b + u
      BY <2>6, <2>7, <2>8, <2>9
    <2>11. Conserved'
      BY <1>3, <1>10, <1>12, <2>1, <2>5, <2>6, <2>7, <2>10 DEF Conserved
    <2> QED BY <2>4, <2>11
  <1> QED BY <1>14, <1>15, <1>16, <1>17 DEF SignalInv

\* A step that leaves the eventfds, the writes and the counts alone keeps the
\* types when the signal and the reads have theirs.
LEMMA TypesKept ==
  ASSUME SignalTypeOK, UNCHANGED <<events, opens, writes, sends, sent>>,
         received' \in Nat,
         signal' \in SignalType, reads' \subseteq ReadType, IsFiniteSet(reads')
  PROVE  SignalTypeOK'
  <1>1. Fds' = Fds /\ ReadType' = ReadType
    BY DEF Fds, ReadType
  <1>2. signal' \in [fd : {-1} \cup Fds', read : Nat, counter : Nat,
                     abort : {"none", "live", "true", "dangling"}]
    BY <1>1 DEF SignalType, Aborts
  <1>3. \A m \in 1 .. MaxOpens : writes'[m] > 0 => m \in Fds'
    BY <1>1 DEF SignalTypeOK
  <1>4. opens' \in 0 .. MaxOpens /\ Len(events') <= opens' /\ events' \in Seq(EventType)
    BY DEF SignalTypeOK
  <1>5. sends' \in Nat /\ sent' \in Nat /\ writes' \in [1 .. MaxOpens -> Nat]
    BY DEF SignalTypeOK
  <1> QED BY <1>1, <1>2, <1>3, <1>4, <1>5 DEF SignalTypeOK

\* A read of the fd -1 fails, or a cancelled read ends: neither happens to a
\* signal that is opened for the first time and open.
LEMMA OldReadStep ==
  ASSUME SignalInv, NEW r \in reads, KernelReadFails(r) \/ EndCancelledRead(r)
  PROVE  SignalInv'
  <1>1. SignalTypeOK
    BY DEF SignalInv
  <1>2. UNCHANGED <<signal, events, opens, writes, sends, sent, received>>
    BY DEF KernelReadFails, EndCancelledRead
  <1>3. PICK e : e = [r EXCEPT !.result = EBADF]
    OBVIOUS
  <1>4. e \in ReadType /\ e.n = r.n
    BY <1>1, <1>3, EndedRead DEF SignalTypeOK
  <1>5. reads' = reads \ {r} \/ reads' = (reads \ {r}) \cup {e}
    BY <1>3 DEF KernelReadFails, EndCancelledRead
  <1>6. IsFiniteSet(reads') /\ reads' \subseteq ReadType
    <2>1. IsFiniteSet(reads \ {r})
      BY <1>1, FS_RemoveElement DEF SignalTypeOK
    <2>2. IsFiniteSet((reads \ {r}) \cup {e})
      BY <2>1, FS_AddElement
    <2> QED BY <1>1, <1>4, <1>5, <2>1, <2>2 DEF SignalTypeOK
  <1>7. SignalTypeOK'
    <2>1. signal' \in SignalType /\ received' \in Nat
      BY <1>1, <1>2 DEF SignalTypeOK, SignalType, Aborts
    <2> QED BY <1>1, <1>2, <1>6, <2>1, TypesKept
  <1>8. Identified'
    BY <1>4, <1>5 DEF SignalInv, Identified
  <1>9. Unopened'
    BY <1>2 DEF SignalInv, Unopened
  <1>10. ~ (opens = 1 /\ signal.fd # -1)
    <2> SUFFICES ASSUME opens = 1, signal.fd # -1 PROVE FALSE
      OBVIOUS
    <2>1. reads = {r} /\ r.user /\ r.fd = 1
      BY <1>2 DEF SignalInv, FirstOpen
    <2> QED BY <2>1 DEF KernelReadFails, EndCancelledRead
  <1> QED BY <1>2, <1>7, <1>8, <1>9, <1>10 DEF SignalInv, FirstOpen, Conserved

\* signal_read() reports what the read has taken.
LEMMA ReceiveStep ==
  ASSUME SignalInv, NEW r \in reads, Receive(r)
  PROVE  SignalInv'
  <1>1. SignalTypeOK
    BY DEF SignalInv
  <1>2. /\ UNCHANGED <<events, opens, writes, sends, sent>>
        /\ reads' = reads \ {r}
        /\ signal' = [signal EXCEPT !.read = 0, !.abort = "live"]
        /\ received' = received + signal.counter
        /\ r.user /\ r.result = CounterSize /\ ~ Inside
    BY DEF Receive
  <1>3. signal \in SignalType
    BY <1>1 DEF SignalTypeOK, SignalType, Aborts
  <1>4. signal' \in SignalType /\ signal'.fd = signal.fd /\ signal'.abort = "live"
    BY <1>2, <1>3 DEF SignalType, Aborts
  <1>5. IsFiniteSet(reads') /\ reads' \subseteq ReadType
    BY <1>1, <1>2, FS_RemoveElement DEF SignalTypeOK
  <1>6. signal.counter \in Nat /\ received \in Nat
    BY <1>1, <1>3 DEF SignalType, SignalTypeOK
  <1>7. SignalTypeOK'
    BY <1>1, <1>2, <1>4, <1>5, <1>6, TypesKept
  <1>8. Identified'
    BY <1>2 DEF SignalInv, Identified
  <1>9. Unopened'
    BY <1>2 DEF SignalInv, Unopened
  <1>10. FirstOpen' /\ Conserved'
    <2> SUFFICES ASSUME opens = 1, signal.fd # -1
                 PROVE  FirstOpen' /\ Conserved'
      BY <1>2, <1>4 DEF FirstOpen, Conserved
    <2>1. signal.fd = 1 /\ ~ events[1].semaphore /\ reads = {r}
      BY <1>2 DEF SignalInv, FirstOpen
    <2>2. reads' = {}
      BY <1>2, <2>1
    <2>3. FirstOpen'
      BY <1>2, <1>4, <2>1, <2>2 DEF FirstOpen
    <2>4. Taken = signal.counter /\ Taken' = 0
      BY <1>2, <2>2 DEF Taken
    <2>5. PICK a, b, t : a = events[1].count /\ b = writes[1] /\ t = signal.counter
      OBVIOUS
    <2>6. a \in Nat /\ b \in Nat /\ t \in Nat
      <3>1. 1 \in 1 .. Len(events) /\ 1 \in 1 .. MaxOpens
        BY <1>1, <1>3, <2>1 DEF SignalTypeOK, SignalType, Fds
      <3> QED BY <1>1, <1>6, <2>5, <3>1, EventFacts DEF SignalTypeOK
    <2>7. sent = received + a + b + t
      BY <2>1, <2>4, <2>5 DEF SignalInv, Conserved
    <2>8. sent = (received + t) + a + b + 0
      BY <1>6, <2>6, <2>7
    <2>9. Conserved'
      BY <1>2, <1>4, <2>1, <2>4, <2>5, <2>8 DEF Conserved
    <2> QED BY <2>3, <2>9
  <1> QED BY <1>7, <1>8, <1>9, <1>10 DEF SignalInv

\* signal_read() submits the next read, unless the signal was closed.
LEMMA ReturnStep ==
  ASSUME SignalInv, SignalReturn
  PROVE  SignalInv'
  <1>1. SignalTypeOK
    BY DEF SignalInv
  <1>2. signal \in SignalType /\ IsFiniteSet(reads) /\ reads \subseteq ReadType
    BY <1>1 DEF SignalTypeOK, SignalType, Aborts
  <1>3. UNCHANGED <<events, opens, writes, sends, sent, received>> /\ Inside
    BY DEF SignalReturn
  <1>4. opens # 0
    BY <1>3 DEF SignalInv, Unopened, Inside
  <1>5. received' \in Nat
    BY <1>1, <1>3 DEF SignalTypeOK
  <1>6. CASE signal.abort = "true"
    <2>1. signal' = [signal EXCEPT !.abort = "dangling"] /\ reads' = reads
      BY <1>6 DEF SignalReturn
    <2>2. signal' \in SignalType /\ signal'.fd = signal.fd
      BY <1>2, <2>1 DEF SignalType, Aborts
    <2>3. SignalTypeOK'
      BY <1>1, <1>2, <1>3, <1>5, <2>1, <2>2, TypesKept
    <2>4. ~ (opens = 1 /\ signal.fd # -1)
      BY <1>6 DEF SignalInv, FirstOpen
    <2> QED BY <1>3, <1>4, <2>1, <2>2, <2>3, <2>4 DEF SignalInv, Identified, Unopened, FirstOpen, Conserved
  <1>7. CASE signal.abort # "true"
    <2>1. PICK s : s = [signal EXCEPT !.abort = "none"]
      OBVIOUS
    <2>2. s \in SignalType /\ s.fd = signal.fd /\ s.abort = "none"
      BY <1>2, <2>1 DEF SignalType, Aborts
    <2>3. Reading(s, reads)
      BY <1>7, <2>1 DEF SignalReturn
    <2>4. PICK n \in Nat : /\ \A r \in reads : r.n # n
                           /\ reads' = reads \cup {Read(n, s.fd)}
                           /\ signal' = [s EXCEPT !.read = n]
      BY <1>2, <2>3, ReadingFacts
    <2>5. signal' \in SignalType /\ signal'.fd = signal.fd /\ signal'.abort = "none"
      BY <2>2, <2>4 DEF SignalType, Aborts
    <2>6. PICK e : e = Read(n, s.fd)
      OBVIOUS
    <2>7. e \in ReadType /\ e.n = n /\ e.fd = signal.fd /\ e.user /\ e.result = 0
      <3>1. PICK F : F = {-1} \cup Fds
        OBVIOUS
      <3>2. s.fd \in F
        BY <2>2, <3>1 DEF SignalType
      <3>3. /\ e \in [n : Nat, fd : F, user : BOOLEAN, result : {0, CounterSize, EBADF}]
            /\ e.n = n /\ e.fd = s.fd /\ e.user = TRUE /\ e.result = 0
        BY <2>6, <3>2 DEF Read
      <3> QED BY <2>2, <3>1, <3>3 DEF ReadType
    <2>8. reads' = reads \cup {e}
      BY <2>4, <2>6
    <2>9. IsFiniteSet(reads') /\ reads' \subseteq ReadType
      BY <1>2, <2>7, <2>8, FS_AddElement
    <2>10. SignalTypeOK'
      BY <1>1, <1>3, <1>5, <2>5, <2>9, TypesKept
    <2>11. Identified'
      BY <2>4, <2>7, <2>8 DEF SignalInv, Identified
    <2>12. FirstOpen' /\ Conserved'
      <3> SUFFICES ASSUME opens = 1, signal.fd # -1
                   PROVE  FirstOpen' /\ Conserved'
        BY <1>3, <2>5 DEF FirstOpen, Conserved
      <3>1. signal.fd = 1 /\ ~ events[1].semaphore /\ reads = {}
        BY <1>3 DEF SignalInv, FirstOpen, Inside
      <3>2. reads' = {e}
        BY <2>8, <3>1
      <3>3. FirstOpen'
        BY <1>3, <2>5, <2>7, <3>1, <3>2 DEF FirstOpen, EBADF
      <3>4. Taken = 0 /\ Taken' = 0
        BY <2>7, <3>1, <3>2 DEF Taken, CounterSize
      <3>5. Conserved'
        BY <1>3, <2>5, <3>1, <3>4 DEF SignalInv, Conserved
      <3> QED BY <3>3, <3>5
    <2> QED BY <1>3, <1>4, <2>10, <2>11, <2>12 DEF SignalInv, Unopened
  <1> QED BY <1>6, <1>7

\* signal_close() cancels the read of the signal.
LEMMA CloseStep ==
  ASSUME SignalInv, Close
  PROVE  SignalInv'
  <1>1. SignalTypeOK
    BY DEF SignalInv
  <1>2. signal \in SignalType /\ IsFiniteSet(reads) /\ reads \subseteq ReadType
    BY <1>1 DEF SignalTypeOK, SignalType, Aborts
  <1>3. /\ UNCHANGED <<events, opens, writes, sends, sent, received>>
        /\ signal.fd # -1
    BY DEF Close
  <1>4. PICK a : a = IF signal.abort = "live" THEN "true" ELSE signal.abort
    OBVIOUS
  <1>5. a \in Aborts
    BY <1>2, <1>4 DEF SignalType, Aborts
  <1>6. signal' = [signal EXCEPT !.fd = -1, !.abort = a]
    BY <1>4 DEF Close
  <1>7. signal' \in SignalType /\ signal'.fd = -1
    BY <1>2, <1>5, <1>6 DEF SignalType
  <1> DEFINE f == [r \in reads |-> [r EXCEPT !.user = r.user /\ r.n # signal.read]]
  <1>8. reads' = {f[r] : r \in reads}
    BY DEF Close
  <1>9. ASSUME NEW r \in reads PROVE f[r] \in ReadType /\ f[r].n = r.n
    <2>1. PICK b : b = (r.user /\ r.n # signal.read)
      OBVIOUS
    <2>2. r \in ReadType /\ b \in BOOLEAN
      BY <1>2, <2>1
    <2>3. f[r] = [r EXCEPT !.user = b]
      BY <2>1
    <2> HIDE DEF f
    <2> QED BY <2>2, <2>3, CancelledRead
  <1>10. f = [r \in reads |-> f[r]]
    OBVIOUS
  <1> HIDE DEF f
  <1>11. IsFiniteSet(reads') /\ reads' \subseteq ReadType
    BY <1>2, <1>8, <1>9, <1>10, ImageFacts
  <1>12. SignalTypeOK'
    <2>1. received' \in Nat
      BY <1>1, <1>3 DEF SignalTypeOK
    <2> QED BY <1>1, <1>3, <1>7, <1>11, <2>1, TypesKept
  <1>13. Identified'
    <2> SUFFICES ASSUME NEW x \in reads', NEW y \in reads', x.n = y.n
                 PROVE  x = y
      BY DEF Identified
    <2>1. PICK r \in reads, s \in reads : x = f[r] /\ y = f[s]
      BY <1>8
    <2>2. r.n = s.n
      BY <1>9, <2>1
    <2> QED BY <2>1, <2>2 DEF SignalInv, Identified
  <1>14. opens # 0
    BY <1>3 DEF SignalInv, Unopened
  <1> QED BY <1>3, <1>7, <1>12, <1>13, <1>14 DEF SignalInv, Unopened, FirstOpen, Conserved

\* signal_open(): the first one makes an eventfd that counts, and its read.
LEMMA OpenStep ==
  ASSUME SignalInv, Open
  PROVE  SignalInv'
  <1>1. SignalTypeOK
    BY DEF SignalInv
  <1>2. signal \in SignalType /\ IsFiniteSet(reads) /\ reads \subseteq ReadType
    BY <1>1 DEF SignalTypeOK, SignalType, Aborts
  <1>3. /\ opens' = opens + 1 /\ opens < MaxOpens /\ signal.fd = -1
        /\ sent' = 0 /\ received' = 0 /\ UNCHANGED <<writes, sends>>
    BY DEF Open
  <1>4. PICK new, fd : /\ new = [count |-> 0, semaphore |-> signal.counter = EFD_SEMAPHORE]
                       /\ fd = Len(events) + 1
    OBVIOUS
  <1>5. /\ new \in EventType /\ new.count = 0
        /\ (signal.counter = 0 => ~ new.semaphore)
    <2>1. PICK b : b = (signal.counter = EFD_SEMAPHORE)
      OBVIOUS
    <2>2. b \in BOOLEAN /\ (signal.counter = 0 => b = FALSE)
      <3>1. signal.counter = 0 => ~ (signal.counter = EFD_SEMAPHORE)
        BY DEF EFD_SEMAPHORE
      <3> QED BY <2>1, <3>1, Zenon
    <2>3. new = [count |-> 0, semaphore |-> b]
      BY <1>4, <2>1, Zenon
    <2>4. new \in EventType /\ new.count = 0 /\ new.semaphore = b
      BY <2>2, <2>3 DEF EventType
    <2> QED BY <2>2, <2>4
  <1>6. /\ opens \in Nat /\ MaxOpens \in Nat /\ events \in Seq(EventType)
        /\ Len(events) \in Nat /\ Len(events) <= opens /\ fd \in 1 .. MaxOpens
    BY <1>1, <1>3, <1>4, SignalAssumption DEF SignalTypeOK
  <1>7. PICK s : /\ Reading(s, reads)
                 /\ \/ /\ events' = Append(events, new)
                       /\ s = [signal EXCEPT !.fd = fd]
                    \/ /\ events' = events /\ s = signal
                       /\ signal.counter # 0
    <2>1. CASE signal.counter \in {0, EFD_SEMAPHORE}
      <3>1. /\ events' = Append(events, new)
            /\ Reading([signal EXCEPT !.fd = fd], reads)
        BY <1>4, <2>1 DEF Open
      <3> QED BY <3>1
    <2>2. CASE signal.counter \notin {0, EFD_SEMAPHORE}
      <3>1. events' = events /\ Reading(signal, reads)
        BY <2>2 DEF Open
      <3> QED BY <2>2, <3>1
    <2> QED BY <2>1, <2>2
  <1>8. /\ events' \in Seq(EventType) /\ Len(events') <= opens' /\ Len(events') \in Nat
        /\ Len(events) <= Len(events')
    <2>1. CASE events' = events
      BY <1>3, <1>6, <2>1
    <2>2. CASE events' = Append(events, new)
      BY <1>3, <1>5, <1>6, <2>2
    <2> QED BY <1>7, <2>1, <2>2
  <1>9. s \in [fd : {-1} \cup Fds', read : Nat, counter : Nat, abort : Aborts]
        /\ s.abort = signal.abort
    <2>1. Fds \subseteq Fds'
      BY <1>6, <1>8 DEF Fds
    <2>2. CASE s = signal
      BY <1>2, <2>1, <2>2 DEF SignalType
    <2>3. CASE events' = Append(events, new) /\ s = [signal EXCEPT !.fd = fd]
      <3>1. fd \in Fds'
        BY <1>4, <1>5, <1>6, <2>3 DEF Fds
      <3> QED BY <1>2, <2>1, <2>3, <3>1 DEF SignalType
    <2> QED BY <1>7, <2>2, <2>3
  <1>10. PICK n \in Nat : /\ \A r \in reads : r.n # n
                          /\ reads' = reads \cup {Read(n, s.fd)}
                          /\ signal' = [s EXCEPT !.read = n]
    BY <1>2, <1>7, ReadingFacts
  <1>11. /\ signal' \in [fd : {-1} \cup Fds', read : Nat, counter : Nat, abort : Aborts]
         /\ signal'.fd = s.fd /\ signal'.abort = signal.abort
    BY <1>9, <1>10
  <1>12. PICK e : e = Read(n, s.fd)
    OBVIOUS
  <1>13. e \in ReadType' /\ e.n = n /\ e.fd = s.fd /\ e.user /\ e.result = 0
    <2>1. PICK F : F = {-1} \cup Fds'
      OBVIOUS
    <2>2. s.fd \in F
      BY <1>9, <2>1
    <2>3. /\ e \in [n : Nat, fd : F, user : BOOLEAN, result : {0, CounterSize, EBADF}]
          /\ e.n = n /\ e.fd = s.fd /\ e.user = TRUE /\ e.result = 0
      BY <1>12, <2>2 DEF Read
    <2> QED BY <2>1, <2>3 DEF ReadType
  <1>14. reads' = reads \cup {e}
    BY <1>10, <1>12
  <1>15. reads \subseteq ReadType' /\ Fds \subseteq Fds'
    BY <1>2, <1>6, <1>8 DEF ReadType, Fds
  <1>16. IsFiniteSet(reads') /\ reads' \subseteq ReadType'
    BY <1>2, <1>13, <1>14, <1>15, FS_AddElement
  <1>17. SignalTypeOK'
    <2>1. \A m \in 1 .. MaxOpens : writes'[m] > 0 => m \in Fds'
      BY <1>1, <1>3, <1>15 DEF SignalTypeOK
    <2>2. opens' \in 0 .. MaxOpens
      BY <1>3, <1>6
    <2>3. sends' \in Nat /\ sent' \in Nat /\ received' \in Nat /\ writes' \in [1 .. MaxOpens -> Nat]
      BY <1>1, <1>3 DEF SignalTypeOK
    <2> QED BY <1>8, <1>11, <1>16, <2>1, <2>2, <2>3 DEF SignalTypeOK, Aborts
  <1>18. Identified'
    BY <1>10, <1>13, <1>14 DEF SignalInv, Identified
  <1>19. Unopened'
    BY <1>3, <1>6 DEF Unopened
  <1>20. FirstOpen' /\ Conserved'
    <2> SUFFICES ASSUME opens = 0 PROVE FirstOpen' /\ Conserved'
      BY <1>3, <1>6 DEF FirstOpen, Conserved
    <2>1. signal.counter = 0 /\ signal.abort = "none" /\ reads = {}
      BY DEF SignalInv, Unopened
    <2>2. events = <<>> /\ fd = 1
      BY <1>4, <1>6
    <2>3. events' = Append(events, new) /\ s = [signal EXCEPT !.fd = fd]
      BY <1>7, <2>1
    <2>4. signal'.fd = 1
      BY <1>2, <1>11, <2>2, <2>3 DEF SignalType
    <2>5. events'[1] = new
      BY <1>5, <2>2, <2>3
    <2>6. reads' = {e} /\ e.fd = 1
      BY <1>11, <1>13, <1>14, <2>1, <2>4
    <2>7. FirstOpen'
      BY <1>5, <1>11, <1>13, <2>1, <2>4, <2>5, <2>6 DEF FirstOpen, EBADF
    <2>8. writes[1] = 0
      <3>1. 1 \in 1 .. MaxOpens /\ 1 \notin Fds
        BY <1>6, <2>2 DEF Fds
      <3>2. writes[1] \in Nat /\ ~ (writes[1] > 0)
        BY <1>1, <3>1 DEF SignalTypeOK
      <3> QED BY <3>2
    <2>9. Taken' = 0
      BY <1>13, <2>6 DEF Taken, CounterSize
    <2>10. Conserved'
      BY <1>3, <1>5, <2>4, <2>5, <2>8, <2>9 DEF Conserved
    <2> QED BY <2>7, <2>10
  <1> QED BY <1>17, <1>18, <1>19, <1>20 DEF SignalInv

\* The invariant holds in every behaviour, however many signals are sent and
\* however often the signal is closed and opened again.
THEOREM Invariance ==
  SignalSpec => []SignalInv
  <1>1. SignalInv /\ UNCHANGED signalVars => SignalInv'
    <2> SUFFICES ASSUME SignalInv, UNCHANGED signalVars PROVE SignalInv'
      OBVIOUS
    <2>1. SignalTypeOK'
      BY DEF signalVars, SignalInv, SignalTypeOK, Fds, ReadType
    <2>2. (Identified /\ Unopened)'
      BY DEF signalVars, SignalInv, Identified, Unopened
    <2>3. (FirstOpen /\ Conserved)'
      BY DEF signalVars, SignalInv, FirstOpen, Conserved, Taken
    <2> QED BY <2>1, <2>2, <2>3 DEF SignalInv
  <1>2. SignalInv /\ SignalNext => SignalInv'
    <2> SUFFICES ASSUME SignalInv, SignalNext PROVE SignalInv'
      OBVIOUS
    <2> QED BY OpenStep, SendStep, ReturnStep, CloseStep, KernelWriteStep, ReceiveStep,
               KernelReadStep, OldReadStep DEF SignalNext
  <1> QED BY <1>1, <1>2, InitInv, PTL DEF SignalSpec

\* Conserved of every behaviour: no signal of a signal_t opened for the first
\* time is lost or counted twice, however the sends of any number of threads,
\* the reads, the reports and a close interleave.
THEOREM SignalsConserved ==
  SignalSpec => []Conserved
  <1>1. SignalInv => Conserved
    BY DEF SignalInv
  <1> QED BY <1>1, Invariance, PTL
=============================================================================

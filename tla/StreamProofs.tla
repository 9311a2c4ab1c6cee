---------------------------- MODULE StreamProofs ----------------------------
(***************************************************************************)
(* The safety properties of module Stream for any number of bytes written  *)
(* and read.  All of the sequences are runs of consecutive bytes, so that  *)
(* where one ends and the next begins is what the invariant is about.      *)
(***************************************************************************)
EXTENDS Stream, TLAPS

-----------------------------------------------------------------------------
(* Runs of bytes *)

\* A run of bytes.
LEMMA BytesFacts ==
  ASSUME NEW i \in Nat, NEW j \in Nat, i <= j
  PROVE  /\ Bytes(i, j) \in Seq(Nat)
         /\ Len(Bytes(i, j)) = j - i
         /\ \A k \in 1 .. j - i : Bytes(i, j)[k] = i + k
  <1>1. j - i \in Nat
    OBVIOUS
  <1>2. \A k \in 1 .. j - i : i + k \in Nat
    OBVIOUS
  <1> QED BY <1>1, <1>2 DEF Bytes

\* A sequence with the bytes of a run is the run.
LEMMA BytesEqual ==
  ASSUME NEW i \in Nat, NEW j \in Nat, i <= j, NEW s \in Seq(Nat), Len(s) = j - i,
         \A k \in 1 .. j - i : s[k] = i + k
  PROVE  s = Bytes(i, j)
  <1>1. DOMAIN s = 1 .. j - i
    OBVIOUS
  <1>2. s = [k \in 1 .. j - i |-> s[k]]
    BY <1>1
  <1> QED BY <1>2 DEF Bytes

LEMMA BytesEmpty ==
  ASSUME NEW i \in Nat
  PROVE  Bytes(i, i) = <<>>
  <1>1. Bytes(i, i) \in Seq(Nat) /\ Len(Bytes(i, i)) = 0
    BY BytesFacts
  <1> HIDE DEF Bytes
  <1> QED BY <1>1

\* A run with no bytes ends where it begins.
LEMMA EmptyBytes ==
  ASSUME NEW i \in Nat, NEW j \in Nat, i <= j, Bytes(i, j) = <<>>
  PROVE  i = j
  <1>1. Len(Bytes(i, j)) = j - i
    BY BytesFacts
  <1> QED BY <1>1

LEMMA BytesFirst ==
  ASSUME NEW i \in Nat, NEW j \in Nat, i <= j, NEW k \in Nat, k <= j - i
  PROVE  First(Bytes(i, j), k) = Bytes(i, i + k)
  <1> DEFINE s == Bytes(i, j)
             f == SubSeq(s, 1, k)
  <1>1. s \in Seq(Nat) /\ Len(s) = j - i /\ \A l \in 1 .. j - i : s[l] = i + l
    BY BytesFacts
  <1> HIDE DEF s
  <1>2. f \in Seq(Nat) /\ Len(f) = k /\ \A l \in 1 .. k : f[l] = s[l]
    BY <1>1
  <1> HIDE DEF f
  <1>3. \A l \in 1 .. k : f[l] = i + l
    <2>1. \A l \in 1 .. k : l \in 1 .. j - i
      OBVIOUS
    <2> QED BY <1>1, <1>2, <2>1
  <1> DEFINE e == i + k
  <1>4. e \in Nat /\ i <= e /\ e - i = k
    OBVIOUS
  <1> HIDE DEF e
  <1>5. f = Bytes(i, e)
    BY <1>2, <1>3, <1>4, BytesEqual
  <1> QED BY <1>5 DEF First, f, s, e

LEMMA BytesRest ==
  ASSUME NEW i \in Nat, NEW j \in Nat, i <= j, NEW k \in Nat, k <= j - i
  PROVE  Rest(Bytes(i, j), k) = Bytes(i + k, j)
  <1> DEFINE s == Bytes(i, j)
             r == SubSeq(s, k + 1, Len(s))
  <1>1. s \in Seq(Nat) /\ Len(s) = j - i /\ \A l \in 1 .. j - i : s[l] = i + l
    BY BytesFacts
  <1> HIDE DEF s
  <1>2. r \in Seq(Nat) /\ Len(r) = j - (i + k) /\ \A l \in 1 .. j - (i + k) : r[l] = s[k + l]
    BY <1>1
  <1> HIDE DEF r
  <1>3. \A l \in 1 .. j - (i + k) : r[l] = (i + k) + l
    BY <1>1, <1>2
  <1>4. r = Bytes(i + k, j)
    BY <1>2, <1>3, BytesEqual
  <1> QED BY <1>4 DEF Rest, r, s

LEMMA BytesJoin ==
  ASSUME NEW i \in Nat, NEW j \in Nat, NEW k \in Nat, i <= j, j <= k
  PROVE  Bytes(i, j) \o Bytes(j, k) = Bytes(i, k)
  <1> DEFINE s == Bytes(i, j)
             t == Bytes(j, k)
             u == s \o t
  <1>1. s \in Seq(Nat) /\ Len(s) = j - i /\ \A l \in 1 .. j - i : s[l] = i + l
    BY BytesFacts
  <1>2. t \in Seq(Nat) /\ Len(t) = k - j /\ \A l \in 1 .. k - j : t[l] = j + l
    BY BytesFacts
  <1> HIDE DEF s, t
  <1>3. u \in Seq(Nat) /\ Len(u) = k - i
    <2>1. u \in Seq(Nat) /\ Len(u) = Len(s) + Len(t)
      BY <1>1, <1>2
    <2> HIDE DEF u
    <2> QED BY <1>1, <1>2, <2>1
  <1>4. ASSUME NEW l \in 1 .. k - i
        PROVE  u[l] = i + l
    <2>1. CASE l <= Len(s)
      <3>1. u[l] = s[l]
        BY <1>1, <1>2, <2>1
      <3> QED BY <1>1, <2>1, <3>1
    <2>2. CASE l > Len(s)
      <3>1. u[l] = t[l - Len(s)]
        BY <1>1, <1>2, <2>2, SMTT(60)
      <3>2. l - Len(s) \in 1 .. k - j
        BY <1>1, <2>2
      <3>3. t[l - Len(s)] = j + (l - Len(s))
        BY <1>2, <3>2
      <3> HIDE DEF u
      <3>4. l - Len(s) = l - (j - i) /\ l \in Nat
        BY <1>1
      <3> QED BY <3>1, <3>3, <3>4
    <2>3. l <= Len(s) \/ l > Len(s)
      BY <1>1
    <2> HIDE DEF u
    <2> QED BY <2>1, <2>2, <2>3
  <1> HIDE DEF u
  <1>5. u = Bytes(i, k)
    BY <1>3, <1>4, BytesEqual
  <1> QED BY <1>5 DEF u, s, t

LEMMA BytesAppend ==
  ASSUME NEW i \in Nat, NEW j \in Nat, i <= j
  PROVE  Append(Bytes(i, j), j + 1) = Bytes(i, j + 1)
  <1> DEFINE s == Bytes(i, j)
             u == Append(s, j + 1)
  <1>1. s \in Seq(Nat) /\ Len(s) = j - i /\ \A l \in 1 .. j - i : s[l] = i + l
    BY BytesFacts
  <1> HIDE DEF s
  <1>2. u \in Seq(Nat) /\ Len(u) = (j + 1) - i
    BY <1>1
  <1>3. \A l \in 1 .. (j + 1) - i : u[l] = i + l
    BY <1>1
  <1> HIDE DEF u
  <1>4. u = Bytes(i, j + 1)
    BY <1>2, <1>3, BytesEqual
  <1> QED BY <1>4 DEF u, s

\* Any sequence, cut or joined.
LEMMA CutFacts ==
  ASSUME NEW s \in Seq(Nat), NEW k \in Nat
  PROVE  /\ Rest(s, k) \in Seq(Nat)
         /\ k <= Len(s) => First(s, k) \in Seq(Nat) /\ Len(First(s, k)) = k
                           /\ Len(Rest(s, k)) = Len(s) - k
         /\ First(s, Len(s)) = s
         /\ k >= Len(s) => Rest(s, k) = <<>>
  <1>1. Rest(s, k) \in Seq(Nat)
    BY DEF Rest
  <1>2. k <= Len(s) => First(s, k) \in Seq(Nat) /\ Len(First(s, k)) = k
                       /\ Len(Rest(s, k)) = Len(s) - k
    BY DEF First, Rest
  <1>3. First(s, Len(s)) = s
    BY DEF First
  <1>4. k >= Len(s) => Rest(s, k) = <<>>
    BY DEF Rest
  <1> QED BY <1>1, <1>2, <1>3, <1>4

-----------------------------------------------------------------------------
(* Records of streams *)

\* The operations there are when they are started.
LEMMA OperationFacts ==
  /\ None \in OperationType /\ None.state = "none" /\ None.result = 0 /\ None.data = <<>>
  /\ Flying \in OperationType /\ Flying.state = "flying" /\ Flying.result = 0
  /\ Flying.data = <<>> /\ Flying # None
  <1>1. None \in OperationType /\ None.state = "none" /\ None.result = 0 /\ None.data = <<>>
    BY DEF None, OperationType
  <1>2. Flying \in OperationType
    BY <1>1 DEF Flying, OperationType
  <1>3. Flying.state = "flying" /\ Flying.result = 0 /\ Flying.data = <<>>
    BY <1>1 DEF Flying, OperationType
  <1>4. Flying # None
    BY <1>1, <1>3
  <1> QED BY <1>1, <1>2, <1>3, <1>4

LEMMA EndedFacts ==
  ASSUME NEW r \in Int, NEW d \in Seq(Nat)
  PROVE  /\ Ended(r, d) \in OperationType /\ Ended(r, d).state = "ended"
         /\ Ended(r, d).result = r /\ Ended(r, d).data = d /\ Ended(r, d) # None
  BY DEF None, Ended, OperationType

\* stream_output()
LEMMA OutputFacts ==
  ASSUME NEW s \in StreamType
  PROVE  LET o == Output(s) IN
         /\ o \in StreamType /\ o.write = Flying /\ o.read = s.read
         /\ o.state = s.state /\ o.abort = s.abort /\ o.type = s.type
         /\ o.input_offset = s.input_offset /\ o.input = s.input
         /\ o.input_consumed = s.input_consumed
         /\ o.output_offset = s.output_offset /\ o.output_partial = s.output_partial
         /\ o.output_writing = s.output_writing /\ o.output_waiting = s.output_waiting
         /\ o.output_flushed = s.output_flushed
  <1>1. Flying \in OperationType
    BY OperationFacts
  <1> QED BY <1>1 DEF Output, StreamType

\* stream_input()
LEMMA InputFacts ==
  ASSUME NEW s \in StreamType
  PROVE  LET o == Input(s) IN
         /\ o \in StreamType /\ o.write = s.write /\ o.read = Flying
         /\ o.state = s.state /\ o.abort = s.abort /\ o.type = s.type
         /\ o.input_offset = s.input_offset /\ o.input = Rest(s.input, s.input_consumed)
         /\ o.input_consumed = 0
         /\ o.output_offset = s.output_offset /\ o.output_partial = s.output_partial
         /\ o.output_writing = s.output_writing /\ o.output_waiting = s.output_waiting
         /\ o.output_flushed = s.output_flushed
  <1>1. Flying \in OperationType
    BY OperationFacts
  <1> DEFINE r == Rest(s.input, s.input_consumed)
  <1>2. r \in Seq(Nat)
    <2>1. s.input \in Seq(Nat) /\ s.input_consumed \in Nat
      BY DEF StreamType
    <2> QED BY <2>1, CutFacts
  <1>3. Input(s) = [s EXCEPT !.input = r, !.input_consumed = 0, !.read = Flying]
    BY DEF Input
  <1> HIDE DEF r
  <1>4. LET o == Input(s) IN
         /\ o \in StreamType /\ o.write = s.write /\ o.read = Flying
         /\ o.state = s.state /\ o.abort = s.abort /\ o.type = s.type
         /\ o.input_offset = s.input_offset /\ o.input = r
         /\ o.input_consumed = 0
         /\ o.output_offset = s.output_offset /\ o.output_partial = s.output_partial
         /\ o.output_writing = s.output_writing /\ o.output_waiting = s.output_waiting
         /\ o.output_flushed = s.output_flushed
    <2> DEFINE o == [s EXCEPT !.input = r, !.input_consumed = 0, !.read = Flying]
    <2>1. o \in StreamType
      BY <1>1, <1>2 DEF StreamType
    <2>2. /\ o.write = s.write /\ o.read = Flying
          /\ o.state = s.state /\ o.abort = s.abort /\ o.type = s.type
          /\ o.input_offset = s.input_offset /\ o.input = r /\ o.input_consumed = 0
      BY DEF StreamType
    <2>3. /\ o.output_offset = s.output_offset /\ o.output_partial = s.output_partial
          /\ o.output_writing = s.output_writing /\ o.output_waiting = s.output_waiting
          /\ o.output_flushed = s.output_flushed
      BY DEF StreamType
    <2>4. o = Input(s)
      BY <1>3
    <2> HIDE DEF o
    <2> QED BY <2>1, <2>2, <2>3, <2>4
  <1> QED BY <1>4 DEF r

\* The two output buffers are switched.
LEMMA SwitchedFacts ==
  ASSUME NEW s \in StreamType, s.output_flushed <= Len(s.output_waiting)
  PROVE  LET o == Switched(s) IN
         /\ o \in StreamType /\ o.write = s.write /\ o.read = s.read
         /\ o.state = s.state /\ o.abort = s.abort /\ o.type = s.type
         /\ o.input_offset = s.input_offset /\ o.input = s.input
         /\ o.input_consumed = s.input_consumed
         /\ o.output_offset = s.output_offset /\ o.output_partial = s.output_partial
         /\ o.output_writing = First(s.output_waiting, s.output_flushed)
         /\ o.output_waiting = Rest(s.output_waiting, s.output_flushed)
         /\ o.output_flushed = 0
  <1> DEFINE f == First(s.output_waiting, s.output_flushed)
             r == Rest(s.output_waiting, s.output_flushed)
  <1>2. f \in Seq(Nat) /\ r \in Seq(Nat)
    <2>1. s.output_waiting \in Seq(Nat) /\ s.output_flushed \in Nat
      BY DEF StreamType
    <2> QED BY <2>1, CutFacts
  <1>3. Switched(s) = [s EXCEPT !.output_writing = f, !.output_waiting = r, !.output_flushed = 0]
    BY DEF Switched
  <1> HIDE DEF f, r
  <1>4. LET o == Switched(s) IN
         /\ o \in StreamType /\ o.write = s.write /\ o.read = s.read
         /\ o.state = s.state /\ o.abort = s.abort /\ o.type = s.type
         /\ o.input_offset = s.input_offset /\ o.input = s.input
         /\ o.input_consumed = s.input_consumed
         /\ o.output_offset = s.output_offset /\ o.output_partial = s.output_partial
         /\ o.output_writing = f /\ o.output_waiting = r /\ o.output_flushed = 0
    <2> DEFINE o == [s EXCEPT !.output_writing = f, !.output_waiting = r, !.output_flushed = 0]
    <2>1. o \in StreamType
      BY <1>2 DEF StreamType
    <2>2. /\ o.write = s.write /\ o.read = s.read
          /\ o.state = s.state /\ o.abort = s.abort /\ o.type = s.type
          /\ o.input_offset = s.input_offset /\ o.input = s.input
          /\ o.input_consumed = s.input_consumed
      BY DEF StreamType
    <2>3. /\ o.output_offset = s.output_offset /\ o.output_partial = s.output_partial
          /\ o.output_writing = f /\ o.output_waiting = r /\ o.output_flushed = 0
      BY DEF StreamType
    <2>4. o = Switched(s)
      BY <1>3
    <2> HIDE DEF o
    <2> QED BY <2>1, <2>2, <2>3, <2>4
  <1> QED BY <1>4 DEF f, r

-----------------------------------------------------------------------------
(* stream_update() *)

\* The choices that stream_update() has.
LEMMA UpdateCases ==
  ASSUME NEW s \in StreamType
  PROVE  \/ Update(s) = s
         \/ /\ s.state = "open" /\ s.write = None
            /\ \/ s.output_partial > 0 /\ Update(s) = Output(s)
               \/ /\ s.output_partial = 0 /\ s.output_flushed > 0
                  /\ Update(s) = Output(Switched(s))
               \/ s.output_partial = 0 /\ s.read = None /\ Update(s) = Input(s)
  <1>1. s.output_partial \in Nat /\ s.output_flushed \in Nat
    BY DEF StreamType
  <1>2. CASE ~ (s.state = "open" /\ s.write = None)
    BY <1>2 DEF Update
  <1>3. CASE s.state = "open" /\ s.write = None
    <2>1. Update(s) = Started(s)
      BY <1>3 DEF Update
    <2>2. CASE s.output_partial > 0
      <3>1. Started(s) = Output(s)
        BY <1>1, <2>2 DEF Started
      <3> QED BY <1>3, <2>1, <2>2, <3>1
    <2>3. CASE s.output_partial = 0 /\ s.output_flushed > 0
      <3>1. Started(s) = Output(Switched(s))
        BY <1>1, <2>3 DEF Started
      <3> QED BY <1>3, <2>1, <2>3, <3>1
    <2>4. CASE s.output_partial = 0 /\ s.output_flushed = 0 /\ s.read = None /\ s.flags = {}
      <3>1. Started(s) = Input(s)
        BY <1>1, <2>4 DEF Started
      <3> QED BY <1>3, <2>1, <2>4, <3>1
    <2>5. CASE /\ s.output_partial = 0 /\ s.output_flushed = 0
               /\ ~ (s.read = None /\ s.flags = {})
      <3>1. Started(s) = s
        BY <1>1, <2>5 DEF Started
      <3> QED BY <2>1, <3>1
    <2> QED BY <1>1, <2>2, <2>3, <2>4, <2>5
  <1> QED BY <1>2, <1>3

\* stream_update() leaves alone what the kernel uses.
LEMMA UpdateKeeps ==
  ASSUME NEW s \in StreamType, OperationsOf(s)
  PROVE  /\ Update(s) \in StreamType
         /\ Update(s).state = s.state /\ Update(s).abort = s.abort
         /\ Update(s).output_offset = s.output_offset
         /\ Update(s).write.result = s.write.result
         /\ s.read.state = "flying" => Update(s).input = s.input /\ Update(s).read = s.read
         /\ s.write.state = "flying" => Update(s) = s
         /\ s.state # "open" => Update(s) = s
         /\ OperationsOf(Update(s))
  <1>1. CASE Update(s) = s
    BY <1>1
  <1>2. ASSUME s.state = "open", s.write = None
        PROVE  /\ s.output_flushed <= Len(s.output_waiting)
               /\ s.write.state = "none" /\ s.write.result = 0
    BY <1>2, OperationFacts DEF OperationsOf
  <1>3. ASSUME s.state = "open", s.write = None, s.output_partial > 0, Update(s) = Output(s)
        PROVE  /\ Update(s) \in StreamType
               /\ Update(s).state = s.state /\ Update(s).abort = s.abort
               /\ Update(s).output_offset = s.output_offset
               /\ Update(s).write.result = s.write.result
               /\ Update(s).input = s.input /\ Update(s).read = s.read
               /\ OperationsOf(Update(s))
    <2> DEFINE o == Output(s)
    <2>1. /\ o \in StreamType /\ o.write = Flying /\ o.read = s.read
          /\ o.state = s.state /\ o.abort = s.abort /\ o.input = s.input
          /\ o.output_offset = s.output_offset /\ o.output_waiting = s.output_waiting
          /\ o.output_flushed = s.output_flushed
      BY OutputFacts
    <2> HIDE DEF o
    <2>2. OperationsOf(o)
      BY <1>3, <2>1, OperationFacts DEF OperationsOf
    <2> QED BY <1>2, <1>3, <2>1, <2>2, OperationFacts DEF o
  <1>4. ASSUME s.state = "open", s.write = None, s.output_partial = 0, s.output_flushed > 0,
               Update(s) = Output(Switched(s))
        PROVE  /\ Update(s) \in StreamType
               /\ Update(s).state = s.state /\ Update(s).abort = s.abort
               /\ Update(s).output_offset = s.output_offset
               /\ Update(s).write.result = s.write.result
               /\ Update(s).input = s.input /\ Update(s).read = s.read
               /\ OperationsOf(Update(s))
    <2> DEFINE p == Switched(s)
               o == Output(p)
    <2>1. /\ p \in StreamType /\ p.read = s.read
          /\ p.state = s.state /\ p.abort = s.abort /\ p.input = s.input
          /\ p.output_offset = s.output_offset
          /\ p.output_waiting \in Seq(Nat) /\ p.output_flushed = 0
      <3>1. /\ p \in StreamType /\ p.read = s.read
            /\ p.state = s.state /\ p.abort = s.abort /\ p.input = s.input
            /\ p.output_offset = s.output_offset /\ p.output_flushed = 0
        BY <1>2, <1>4, SwitchedFacts
      <3> HIDE DEF p
      <3> QED BY <3>1 DEF StreamType
    <2> HIDE DEF p
    <2>2. /\ o \in StreamType /\ o.write = Flying /\ o.read = s.read
          /\ o.state = s.state /\ o.abort = s.abort /\ o.input = s.input
          /\ o.output_offset = s.output_offset /\ o.output_waiting \in Seq(Nat)
          /\ o.output_flushed = 0
      BY <2>1, OutputFacts
    <2> HIDE DEF o
    <2>3. OperationsOf(o)
      BY <1>4, <2>2, OperationFacts DEF OperationsOf
    <2> QED BY <1>2, <1>4, <2>2, <2>3, OperationFacts DEF o, p
  <1>5. ASSUME s.state = "open", s.write = None, s.output_partial = 0, s.read = None,
               Update(s) = Input(s)
        PROVE  /\ Update(s) \in StreamType
               /\ Update(s).state = s.state /\ Update(s).abort = s.abort
               /\ Update(s).output_offset = s.output_offset
               /\ Update(s).write.result = s.write.result
               /\ OperationsOf(Update(s))
    <2> DEFINE o == Input(s)
    <2>1. /\ o \in StreamType /\ o.write = s.write /\ o.read = Flying
          /\ o.state = s.state /\ o.abort = s.abort
          /\ o.output_offset = s.output_offset /\ o.output_waiting = s.output_waiting
          /\ o.output_flushed = s.output_flushed
      BY InputFacts
    <2> HIDE DEF o
    <2>2. OperationsOf(o)
      BY <1>5, <2>1, OperationFacts DEF OperationsOf
    <2> QED BY <1>5, <2>1, <2>2 DEF o
  <1>6. s.read = None => s.read.state = "none"
    BY OperationFacts
  <1> QED BY <1>1, <1>2, <1>3, <1>4, <1>5, <1>6, UpdateCases

\* The fields of a stream that the output is about.
LEMMA OutputTypes ==
  ASSUME NEW s \in StreamType
  PROVE  /\ s.output_waiting \in Seq(Nat) /\ s.output_writing \in Seq(Nat)
         /\ s.output_flushed \in Nat /\ s.output_partial \in Nat /\ s.output_offset \in Nat
         /\ s.write \in OperationType /\ s.write.result \in Int /\ s.write.data \in Seq(Nat)
         /\ Len(s.output_waiting) \in Nat
  BY DEF StreamType, OperationType

LEMMA InputTypes ==
  ASSUME NEW s \in StreamType
  PROVE  /\ s.input \in Seq(Nat) /\ s.input_consumed \in Nat /\ s.input_offset \in Nat
         /\ s.read \in OperationType /\ s.read.result \in Int /\ s.read.data \in Seq(Nat)
         /\ Len(s.input) \in Nat
  BY DEF StreamType, OperationType

\* What was flushed is first what waits to be written.
LEMMA SwitchedOutput ==
  ASSUME NEW w \in Seq(Nat), NEW k \in Nat, NEW fl \in Nat, NEW left \in Nat,
         fl <= Len(w), Len(w) = k - left, w = Bytes(left, k)
  PROVE  /\ First(w, fl) = Bytes(left, left + fl)
         /\ Rest(w, fl) = Bytes(left + fl, k)
         /\ k - Len(Rest(w, fl)) = left + fl
  <1>1. left <= k /\ fl <= k - left /\ left + fl \in Nat /\ left + fl <= k
    <2>1. Len(w) \in Nat
      OBVIOUS
    <2> QED BY <2>1
  <1>3. First(w, fl) = Bytes(left, left + fl) /\ Rest(w, fl) = Bytes(left + fl, k)
    BY <1>1, BytesFirst, BytesRest
  <1>4. Len(Rest(w, fl)) = k - (left + fl)
    BY <1>1, <1>3, BytesFacts
  <1>5. k - Len(Rest(w, fl)) = left + fl
    BY <1>1, <1>4
  <1> QED BY <1>3, <1>5

\* stream_update() starts to send where the last send has stopped.
LEMMA UpdateOutput ==
  ASSUME NEW s \in StreamType, OperationsOf(s), NEW n \in Nat, NEW k \in Nat, NEW f \in Nat,
         OutputOf(s, n, k, f)
  PROVE  OutputOf(Update(s), n, k, f)
  <1>1. /\ s.output_waiting \in Seq(Nat) /\ s.output_flushed \in Nat /\ s.output_partial \in Nat
        /\ Len(s.output_waiting) \in Nat
    BY OutputTypes
  <1>2. CASE Update(s) = s
    BY <1>2
  <1>3. ASSUME s.state = "open", s.write = None, s.output_partial > 0, Update(s) = Output(s)
        PROVE  OutputOf(Update(s), n, k, f)
    <2> DEFINE o == Output(s)
    <2>1. /\ o.write = Flying /\ o.output_partial = s.output_partial
          /\ o.output_writing = s.output_writing /\ o.output_waiting = s.output_waiting
          /\ o.output_flushed = s.output_flushed
      BY OutputFacts
    <2>2. Update(s) = o
      BY <1>3
    <2> HIDE DEF o
    <2>3. OutputOf(o, n, k, f)
      BY <1>1, <1>3, <2>1, OperationFacts DEF OutputOf
    <2> QED BY <2>2, <2>3
  <1>4. ASSUME s.state = "open", s.write = None, s.output_partial = 0, s.output_flushed > 0,
               Update(s) = Output(Switched(s))
        PROVE  OutputOf(Update(s), n, k, f)
    <2> DEFINE p == Switched(s)
               o == Output(p)
               w == s.output_waiting
               fl == s.output_flushed
               left == k - Len(w)
    <2>1. fl <= Len(w)
      BY <1>4 DEF OperationsOf
    <2>2. /\ o.write = Flying /\ o.output_partial = 0
          /\ o.output_writing = First(w, fl) /\ o.output_waiting = Rest(w, fl)
          /\ o.output_flushed = 0
      <3>1. /\ p \in StreamType /\ p.output_partial = s.output_partial
            /\ p.output_writing = First(w, fl) /\ p.output_waiting = Rest(w, fl)
            /\ p.output_flushed = 0
        BY <2>1, SwitchedFacts
      <3> HIDE DEF p, w, fl
      <3> QED BY <1>4, <3>1, OutputFacts
    <2>3. Update(s) = o
      BY <1>4
    <2>4. n = left /\ f = left + fl /\ w = Bytes(left, k)
      BY <1>4 DEF OutputOf
    <2>5. w \in Seq(Nat) /\ fl \in Nat /\ Len(w) \in Nat
      BY <1>1
    <2> HIDE DEF o, p, w, fl
    <2>8. left \in Nat /\ Len(w) = k - left
      <3>1. n = left
        BY <2>4
      <3>2. Len(w) \in Nat
        BY <2>5
      <3>3. Len(w) = k - left
        BY <3>2
      <3> HIDE DEF left
      <3> QED BY <3>1, <3>3
    <2> HIDE DEF left
    <2>7. /\ First(w, fl) = Bytes(left, left + fl) /\ Rest(w, fl) = Bytes(left + fl, k)
          /\ k - Len(Rest(w, fl)) = left + fl
      <3>1. w = Bytes(left, k)
        BY <2>4
      <3> QED BY <2>1, <2>5, <2>8, <3>1, SwitchedOutput
    <2>9. n - 0 - 0 = left /\ n <= left + fl /\ left + fl + 0 = f
      BY <2>4, <2>5, <2>8
    <2> QED BY <2>2, <2>3, <2>4, <2>7, <2>8, <2>9, OperationFacts DEF OutputOf
  <1>5. ASSUME s.state = "open", s.write = None, s.output_partial = 0, s.read = None,
               Update(s) = Input(s)
        PROVE  OutputOf(Update(s), n, k, f)
    <2> DEFINE o == Input(s)
    <2>1. /\ o.write = s.write /\ o.output_partial = s.output_partial
          /\ o.output_writing = s.output_writing /\ o.output_waiting = s.output_waiting
          /\ o.output_flushed = s.output_flushed
      BY InputFacts
    <2>2. Update(s) = o
      BY <1>5
    <2> HIDE DEF o
    <2>3. OutputOf(o, n, k, f)
      BY <2>1 DEF OutputOf
    <2> QED BY <2>2, <2>3
  <1> QED BY <1>2, <1>3, <1>4, <1>5, UpdateCases

\* stream_input() erases what was consumed, and nothing else.
LEMMA UpdateInput ==
  ASSUME NEW s \in StreamType, NEW a \in Nat, NEW c \in Nat, InputOf(s, a, c),
         s.state = "open" /\ s.write = None => s.output_flushed <= Len(s.output_waiting)
  PROVE  InputOf(Update(s), a, c)
  <1>1. /\ s.input \in Seq(Nat) /\ s.input_consumed \in Nat /\ s.input_offset \in Nat
        /\ Len(s.input) \in Nat
    BY InputTypes
  <1>2. CASE Update(s) = s
    BY <1>2
  <1>3. ASSUME s.state = "open", s.write = None, s.output_partial > 0, Update(s) = Output(s)
        PROVE  InputOf(Update(s), a, c)
    <2> DEFINE o == Output(s)
    <2>1. /\ o.read = s.read /\ o.input = s.input /\ o.input_consumed = s.input_consumed
          /\ o.input_offset = s.input_offset
      BY OutputFacts
    <2>2. Update(s) = o
      BY <1>3
    <2> HIDE DEF o
    <2>3. InputOf(o, a, c)
      BY <2>1 DEF InputOf
    <2> QED BY <2>2, <2>3
  <1>4. ASSUME s.state = "open", s.write = None, Update(s) = Output(Switched(s))
        PROVE  InputOf(Update(s), a, c)
    <2> DEFINE p == Switched(s)
               o == Output(p)
    <2>1. /\ p \in StreamType
          /\ p.read = s.read /\ p.input = s.input /\ p.input_consumed = s.input_consumed
          /\ p.input_offset = s.input_offset
      BY <1>4, SwitchedFacts
    <2> HIDE DEF p
    <2>2. /\ o.read = s.read /\ o.input = s.input /\ o.input_consumed = s.input_consumed
          /\ o.input_offset = s.input_offset
      BY <2>1, OutputFacts
    <2>3. Update(s) = o
      BY <1>4 DEF p
    <2> HIDE DEF o
    <2>4. InputOf(o, a, c)
      BY <2>2 DEF InputOf
    <2> QED BY <2>3, <2>4
  <1>5. ASSUME s.read = None, Update(s) = Input(s)
        PROVE  InputOf(Update(s), a, c)
    <2> DEFINE o == Input(s)
               x == s.input_consumed
               end == c - x + Len(s.input)
    <2>1. /\ o.read = Flying /\ o.input = Rest(s.input, x) /\ o.input_consumed = 0
          /\ o.input_offset = s.input_offset
      BY InputFacts
    <2>2. Update(s) = o
      BY <1>5
    <2>3. /\ x <= c /\ x <= Len(s.input) /\ s.input = Bytes(c - x, end) /\ s.input_offset = end
          /\ end <= a /\ s.read.data = Bytes(end, a)
      BY DEF InputOf
    <2>4. /\ c - x \in Nat /\ end \in Nat /\ c - x <= end /\ c <= end
          /\ x <= end - (c - x) /\ (c - x) + x = c /\ x \in Nat
      <3> DEFINE l == Len(s.input)
      <3>1. x \in Nat /\ l \in Nat /\ x <= c /\ x <= l /\ end = c - x + l
        BY <1>1, <2>3
      <3> HIDE DEF x, l, end
      <3> QED BY <3>1
    <2> HIDE DEF o, x
    <2>5. Rest(s.input, x) = Bytes(c, end)
      <3> DEFINE i == c - x
      <3>1. i \in Nat /\ i <= end /\ x <= end - i /\ i + x = c /\ s.input = Bytes(i, end)
        BY <2>3, <2>4
      <3> HIDE DEF i, end
      <3>2. Rest(Bytes(i, end), x) = Bytes(i + x, end)
        BY <2>4, <3>1, BytesRest
      <3> QED BY <3>1, <3>2
    <2> HIDE DEF end
    <2>6. Len(o.input) = end - c
      BY <2>1, <2>4, <2>5, BytesFacts
    <2>7. c - 0 = c /\ c - 0 + Len(o.input) = end /\ 0 <= c /\ 0 <= Len(o.input)
      BY <2>4, <2>6
    <2>8. o.read.data = s.read.data
      BY <1>5, <2>1, OperationFacts
    <2>9. InputOf(o, a, c)
      BY <2>1, <2>3, <2>5, <2>7, <2>8 DEF InputOf
    <2> QED BY <2>2, <2>9
  <1> QED BY <1>2, <1>3, <1>4, <1>5, UpdateCases

-----------------------------------------------------------------------------
(* The changes that the actions make to a stream *)

\* stream_write()
LEMMA WrittenFacts ==
  ASSUME NEW s \in StreamType, NEW w \in Seq(Nat)
  PROVE  LET o == [s EXCEPT !.output_waiting = w] IN
         /\ o \in StreamType
         /\ o.state = s.state /\ o.type = s.type /\ o.flags = s.flags /\ o.abort = s.abort
         /\ o.read = s.read /\ o.input_offset = s.input_offset /\ o.input = s.input
         /\ o.input_consumed = s.input_consumed /\ o.write = s.write
         /\ o.output_offset = s.output_offset /\ o.output_partial = s.output_partial
         /\ o.output_writing = s.output_writing /\ o.output_waiting = w
         /\ o.output_flushed = s.output_flushed
  <1> DEFINE o == [s EXCEPT !.output_waiting = w]
  <1>1. o \in StreamType
    BY DEF StreamType
  <1>2. /\ o.state = s.state /\ o.type = s.type /\ o.flags = s.flags /\ o.abort = s.abort
        /\ o.read = s.read /\ o.input_offset = s.input_offset /\ o.input = s.input
        /\ o.input_consumed = s.input_consumed
    BY DEF StreamType
  <1>3. /\ o.write = s.write /\ o.output_offset = s.output_offset
        /\ o.output_partial = s.output_partial /\ o.output_writing = s.output_writing
        /\ o.output_waiting = w /\ o.output_flushed = s.output_flushed
    BY DEF StreamType
  <1> HIDE DEF o
  <1>4. /\ o \in StreamType
        /\ o.state = s.state /\ o.type = s.type /\ o.flags = s.flags /\ o.abort = s.abort
        /\ o.read = s.read /\ o.input_offset = s.input_offset /\ o.input = s.input
        /\ o.input_consumed = s.input_consumed /\ o.write = s.write
        /\ o.output_offset = s.output_offset /\ o.output_partial = s.output_partial
        /\ o.output_writing = s.output_writing /\ o.output_waiting = w
        /\ o.output_flushed = s.output_flushed
    BY <1>1, <1>2, <1>3
  <1> QED BY <1>4 DEF o

\* stream_flush()
LEMMA FlushedFacts ==
  ASSUME NEW s \in StreamType, NEW n \in Nat
  PROVE  LET o == [s EXCEPT !.output_flushed = n] IN
         /\ o \in StreamType
         /\ o.state = s.state /\ o.type = s.type /\ o.flags = s.flags /\ o.abort = s.abort
         /\ o.read = s.read /\ o.input_offset = s.input_offset /\ o.input = s.input
         /\ o.input_consumed = s.input_consumed /\ o.write = s.write
         /\ o.output_offset = s.output_offset /\ o.output_partial = s.output_partial
         /\ o.output_writing = s.output_writing /\ o.output_waiting = s.output_waiting
         /\ o.output_flushed = n
  <1> DEFINE o == [s EXCEPT !.output_flushed = n]
  <1>1. o \in StreamType
    BY DEF StreamType
  <1>2. /\ o.state = s.state /\ o.type = s.type /\ o.flags = s.flags /\ o.abort = s.abort
        /\ o.read = s.read /\ o.input_offset = s.input_offset /\ o.input = s.input
        /\ o.input_consumed = s.input_consumed
    BY DEF StreamType
  <1>3. /\ o.write = s.write /\ o.output_offset = s.output_offset
        /\ o.output_partial = s.output_partial /\ o.output_writing = s.output_writing
        /\ o.output_waiting = s.output_waiting /\ o.output_flushed = n
    BY DEF StreamType
  <1> HIDE DEF o
  <1>4. /\ o \in StreamType
        /\ o.state = s.state /\ o.type = s.type /\ o.flags = s.flags /\ o.abort = s.abort
        /\ o.read = s.read /\ o.input_offset = s.input_offset /\ o.input = s.input
        /\ o.input_consumed = s.input_consumed /\ o.write = s.write
        /\ o.output_offset = s.output_offset /\ o.output_partial = s.output_partial
        /\ o.output_writing = s.output_writing /\ o.output_waiting = s.output_waiting
        /\ o.output_flushed = n
    BY <1>1, <1>2, <1>3
  <1> QED BY <1>4 DEF o

\* stream_consume()
LEMMA ConsumedFacts ==
  ASSUME NEW s \in StreamType, NEW n \in Nat
  PROVE  LET o == [s EXCEPT !.input_consumed = n] IN
         /\ o \in StreamType
         /\ o.state = s.state /\ o.type = s.type /\ o.flags = s.flags /\ o.abort = s.abort
         /\ o.read = s.read /\ o.input_offset = s.input_offset /\ o.input = s.input
         /\ o.input_consumed = n /\ o.write = s.write /\ o.output_offset = s.output_offset
         /\ o.output_partial = s.output_partial /\ o.output_writing = s.output_writing
         /\ o.output_waiting = s.output_waiting /\ o.output_flushed = s.output_flushed
  <1> DEFINE o == [s EXCEPT !.input_consumed = n]
  <1>1. o \in StreamType
    BY DEF StreamType
  <1>2. /\ o.state = s.state /\ o.type = s.type /\ o.flags = s.flags /\ o.abort = s.abort
        /\ o.read = s.read /\ o.input_offset = s.input_offset /\ o.input = s.input
        /\ o.input_consumed = n
    BY DEF StreamType
  <1>3. /\ o.write = s.write /\ o.output_offset = s.output_offset
        /\ o.output_partial = s.output_partial /\ o.output_writing = s.output_writing
        /\ o.output_waiting = s.output_waiting /\ o.output_flushed = s.output_flushed
    BY DEF StreamType
  <1> HIDE DEF o
  <1>4. /\ o \in StreamType
        /\ o.state = s.state /\ o.type = s.type /\ o.flags = s.flags /\ o.abort = s.abort
        /\ o.read = s.read /\ o.input_offset = s.input_offset /\ o.input = s.input
        /\ o.input_consumed = n /\ o.write = s.write /\ o.output_offset = s.output_offset
        /\ o.output_partial = s.output_partial /\ o.output_writing = s.output_writing
        /\ o.output_waiting = s.output_waiting /\ o.output_flushed = s.output_flushed
    BY <1>1, <1>2, <1>3
  <1> QED BY <1>4 DEF o

\* A read that starts, ends or is done with.
LEMMA ReadFacts ==
  ASSUME NEW s \in StreamType, NEW r \in OperationType
  PROVE  LET o == [s EXCEPT !.read = r] IN
         /\ o \in StreamType
         /\ o.state = s.state /\ o.type = s.type /\ o.flags = s.flags /\ o.abort = s.abort
         /\ o.read = r /\ o.input_offset = s.input_offset /\ o.input = s.input
         /\ o.input_consumed = s.input_consumed /\ o.write = s.write
         /\ o.output_offset = s.output_offset /\ o.output_partial = s.output_partial
         /\ o.output_writing = s.output_writing /\ o.output_waiting = s.output_waiting
         /\ o.output_flushed = s.output_flushed
  <1> DEFINE o == [s EXCEPT !.read = r]
  <1>1. o \in StreamType
    BY DEF StreamType
  <1>2. /\ o.state = s.state /\ o.type = s.type /\ o.flags = s.flags /\ o.abort = s.abort
        /\ o.read = r /\ o.input_offset = s.input_offset /\ o.input = s.input
        /\ o.input_consumed = s.input_consumed
    BY DEF StreamType
  <1>3. /\ o.write = s.write /\ o.output_offset = s.output_offset
        /\ o.output_partial = s.output_partial /\ o.output_writing = s.output_writing
        /\ o.output_waiting = s.output_waiting /\ o.output_flushed = s.output_flushed
    BY DEF StreamType
  <1> HIDE DEF o
  <1>4. /\ o \in StreamType
        /\ o.state = s.state /\ o.type = s.type /\ o.flags = s.flags /\ o.abort = s.abort
        /\ o.read = r /\ o.input_offset = s.input_offset /\ o.input = s.input
        /\ o.input_consumed = s.input_consumed /\ o.write = s.write
        /\ o.output_offset = s.output_offset /\ o.output_partial = s.output_partial
        /\ o.output_writing = s.output_writing /\ o.output_waiting = s.output_waiting
        /\ o.output_flushed = s.output_flushed
    BY <1>1, <1>2, <1>3
  <1> QED BY <1>4 DEF o

\* A write that ends or is done with.
LEMMA WriteFacts ==
  ASSUME NEW s \in StreamType, NEW w \in OperationType
  PROVE  LET o == [s EXCEPT !.write = w] IN
         /\ o \in StreamType
         /\ o.state = s.state /\ o.type = s.type /\ o.flags = s.flags /\ o.abort = s.abort
         /\ o.read = s.read /\ o.input_offset = s.input_offset /\ o.input = s.input
         /\ o.input_consumed = s.input_consumed /\ o.write = w
         /\ o.output_offset = s.output_offset /\ o.output_partial = s.output_partial
         /\ o.output_writing = s.output_writing /\ o.output_waiting = s.output_waiting
         /\ o.output_flushed = s.output_flushed
  <1> DEFINE o == [s EXCEPT !.write = w]
  <1>1. o \in StreamType
    BY DEF StreamType
  <1>2. /\ o.state = s.state /\ o.type = s.type /\ o.flags = s.flags /\ o.abort = s.abort
        /\ o.read = s.read /\ o.input_offset = s.input_offset /\ o.input = s.input
        /\ o.input_consumed = s.input_consumed
    BY DEF StreamType
  <1>3. /\ o.write = w /\ o.output_offset = s.output_offset
        /\ o.output_partial = s.output_partial /\ o.output_writing = s.output_writing
        /\ o.output_waiting = s.output_waiting /\ o.output_flushed = s.output_flushed
    BY DEF StreamType
  <1> HIDE DEF o
  <1>4. /\ o \in StreamType
        /\ o.state = s.state /\ o.type = s.type /\ o.flags = s.flags /\ o.abort = s.abort
        /\ o.read = s.read /\ o.input_offset = s.input_offset /\ o.input = s.input
        /\ o.input_consumed = s.input_consumed /\ o.write = w
        /\ o.output_offset = s.output_offset /\ o.output_partial = s.output_partial
        /\ o.output_writing = s.output_writing /\ o.output_waiting = s.output_waiting
        /\ o.output_flushed = s.output_flushed
    BY <1>1, <1>2, <1>3
  <1> QED BY <1>4 DEF o

\* The callback returns to stream_recv().
LEMMA AbortFacts ==
  ASSUME NEW s \in StreamType
  PROVE  LET o == [s EXCEPT !.abort = "none"] IN
         /\ o \in StreamType
         /\ o.state = s.state /\ o.type = s.type /\ o.flags = s.flags /\ o.abort = "none"
         /\ o.read = s.read /\ o.input_offset = s.input_offset /\ o.input = s.input
         /\ o.input_consumed = s.input_consumed /\ o.write = s.write
         /\ o.output_offset = s.output_offset /\ o.output_partial = s.output_partial
         /\ o.output_writing = s.output_writing /\ o.output_waiting = s.output_waiting
         /\ o.output_flushed = s.output_flushed
  <1> DEFINE o == [s EXCEPT !.abort = "none"]
  <1>1. o \in StreamType
    BY DEF StreamType
  <1>2. /\ o.state = s.state /\ o.type = s.type /\ o.flags = s.flags /\ o.abort = "none"
        /\ o.read = s.read /\ o.input_offset = s.input_offset /\ o.input = s.input
        /\ o.input_consumed = s.input_consumed
    BY DEF StreamType
  <1>3. /\ o.write = s.write /\ o.output_offset = s.output_offset
        /\ o.output_partial = s.output_partial /\ o.output_writing = s.output_writing
        /\ o.output_waiting = s.output_waiting /\ o.output_flushed = s.output_flushed
    BY DEF StreamType
  <1> HIDE DEF o
  <1>4. /\ o \in StreamType
        /\ o.state = s.state /\ o.type = s.type /\ o.flags = s.flags /\ o.abort = "none"
        /\ o.read = s.read /\ o.input_offset = s.input_offset /\ o.input = s.input
        /\ o.input_consumed = s.input_consumed /\ o.write = s.write
        /\ o.output_offset = s.output_offset /\ o.output_partial = s.output_partial
        /\ o.output_writing = s.output_writing /\ o.output_waiting = s.output_waiting
        /\ o.output_flushed = s.output_flushed
    BY <1>1, <1>2, <1>3
  <1> QED BY <1>4 DEF o

\* stream_close(): of what is left only the operations and the buffers matter.
LEMMA ClosedFacts ==
  ASSUME NEW s \in StreamType
  PROVE  /\ Closed(s) \in StreamType
         /\ Closed(s).state = "closed" /\ Closed(s).abort = s.abort
         /\ Closed(s).read = None /\ Closed(s).write = None
         /\ s.read # None => Closed(s).input = <<>>
         /\ s.write # None => Closed(s).output_writing = <<>>
         /\ Closed(s).output_waiting = s.output_waiting
         /\ Closed(s).output_flushed = s.output_flushed
  <1> DEFINE input == IF s.read # None THEN <<>> ELSE s.input
             writing == IF s.write # None THEN <<>> ELSE s.output_writing
             o == [s EXCEPT !.state = "closed", !.read = None, !.write = None,
                            !.input = input, !.output_writing = writing]
  <1>1. o = Closed(s)
    BY DEF Closed
  <1>2. input \in Seq(Nat) /\ writing \in Seq(Nat) /\ None \in OperationType
    BY InputTypes, OutputTypes, OperationFacts
  <1>3. (s.read # None => input = <<>>) /\ (s.write # None => writing = <<>>)
    OBVIOUS
  <1> HIDE DEF input, writing
  <1>4. o \in StreamType
    BY <1>2 DEF StreamType
  <1>5. /\ o.state = "closed" /\ o.abort = s.abort /\ o.read = None /\ o.write = None
        /\ o.input = input /\ o.output_writing = writing
        /\ o.output_waiting = s.output_waiting /\ o.output_flushed = s.output_flushed
    BY DEF StreamType
  <1> HIDE DEF o
  <1> QED BY <1>1, <1>3, <1>4, <1>5

\* stream_destruct()
LEMMA DestructFacts ==
  ASSUME NEW s \in StreamType
  PROVE  LET o == [Closed(s) EXCEPT !.state = "destructed",
                                    !.abort = IF @ = "live" THEN "true" ELSE @,
                                    !.input = <<>>, !.output_writing = <<>>,
                                    !.output_waiting = <<>>]
         IN /\ o \in StreamType
            /\ o.state = "destructed" /\ o.abort # "live" /\ o.read = None /\ o.write = None
            /\ o.input = <<>> /\ o.output_writing = <<>>
  <1> DEFINE c == Closed(s)
             abort == IF c.abort = "live" THEN "true" ELSE c.abort
             o == [c EXCEPT !.state = "destructed", !.abort = abort, !.input = <<>>,
                            !.output_writing = <<>>, !.output_waiting = <<>>]
  <1>1. o = [Closed(s) EXCEPT !.state = "destructed",
                              !.abort = IF @ = "live" THEN "true" ELSE @,
                              !.input = <<>>, !.output_writing = <<>>,
                              !.output_waiting = <<>>]
    OBVIOUS
  <1>2. c \in StreamType /\ c.read = None /\ c.write = None
    BY ClosedFacts
  <1> HIDE DEF c
  <1>3. abort \in {"none", "true"}
    BY <1>2 DEF StreamType
  <1> HIDE DEF abort
  <1>4. o \in StreamType
    <2> DEFINE e == <<>>
    <2>1. e \in Seq(Nat) /\ abort \in {"none", "live", "true"}
      BY <1>3
    <2>2. o = [c EXCEPT !.state = "destructed", !.abort = abort, !.input = e,
                        !.output_writing = e, !.output_waiting = e]
      OBVIOUS
    <2> HIDE DEF e, o
    <2> QED BY <1>2, <2>1, <2>2 DEF StreamType
  <1>5. /\ o.state = "destructed" /\ o.abort # "live" /\ o.read = None /\ o.write = None
        /\ o.input = <<>> /\ o.output_writing = <<>>
    BY <1>2, <1>3 DEF StreamType
  <1>6. /\ o \in StreamType
        /\ o.state = "destructed" /\ o.abort # "live" /\ o.read = None /\ o.write = None
        /\ o.input = <<>> /\ o.output_writing = <<>>
    BY <1>4, <1>5
  <1> HIDE DEF o
  <1> QED BY <1>1, <1>6

-----------------------------------------------------------------------------
(* The invariant *)

\* The initial state satisfies the invariant.
LEMMA InitInv == Init => Inv
  <1> SUFFICES ASSUME Init PROVE Inv
    OBVIOUS
  <1>1. /\ None \in OperationType /\ None.state = "none" /\ None.result = 0 /\ None.data = <<>>
    BY OperationFacts
  <1>2. TypeOK
    <2>1. stream \in StreamType
      BY <1>1 DEF Init, StreamType
    <2> QED BY <2>1 DEF Init, TypeOK
  <1>3. OperationsOf(stream)
    BY <1>1 DEF Init, OperationsOf
  <1>4. Bytes(0, 0) = <<>> /\ Len(<<>>) = 0
    BY BytesEmpty
  <1>5. Outgoing
    <2>1. OutputOf(stream, 0, 0, 0)
      <3>1. /\ stream.output_waiting = <<>> /\ stream.output_flushed = 0
            /\ stream.write = None /\ stream.output_partial = 0
        BY DEF Init
      <3>2. 0 - Len(stream.output_waiting) = 0 /\ stream.write.result = 0
        <4>1. Len(stream.output_waiting) = 0
          BY <3>1
        <4>2. stream.write.result = 0
          BY <1>1, <3>1
        <4> QED BY <4>1, <4>2
      <3>3. stream.output_waiting = Bytes(0 - Len(stream.output_waiting), 0)
        BY <1>4, <3>1, <3>2
      <3> QED BY <1>1, <3>1, <3>2, <3>3 DEF OutputOf
    <2>2. orphan.data = <<>> /\ sent = <<>> /\ flushed = 0 /\ written = 0
          /\ stream.output_offset = 0 /\ stream.write.result = 0
      BY <1>1 DEF Init
    <2> QED BY <1>4, <2>1, <2>2 DEF Outgoing
  <1>6. Incoming
    BY <1>1, <1>4 DEF Init, Incoming, InputOf
  <1> QED BY <1>2, <1>3, <1>5, <1>6 DEF Inv

LiveOf(s) == s.state \in {"constructed", "open"}

Positive(n) == IF n > 0 THEN n ELSE 0

\* The part of the invariant about the output of a stream s.
LEMMA OutgoingFacts ==
  ASSUME Inv
  PROVE  /\ stream \in StreamType /\ OperationsOf(stream)
         /\ orphan \in [data : Seq(Nat), offset : Nat]
         /\ orphan.data \in Seq(Nat) /\ sent \in Seq(Nat) /\ Len(sent) \in Nat
         /\ arrived \in Nat /\ written \in Nat /\ flushed \in Nat /\ consumed \in Nat
         /\ flushed <= written
         /\ LiveOf(stream) => /\ orphan.data = <<>>
                              /\ Len(sent) = stream.output_offset + Positive(stream.write.result)
                              /\ InputOf(stream, arrived, consumed)
                              /\ "send" \notin failed => OutputOf(stream, Len(sent), written, flushed)
  BY DEF Inv, TypeOK, Outgoing, Incoming, Live, LiveOf, Positive

\* A step after which the stream is s or what stream_update() makes of s.
LEMMA UpdatedInv ==
  ASSUME Inv, NEW s \in StreamType, OperationsOf(s), stream' \in {s, Update(s)},
         UNCHANGED <<orphan, sent, arrived, failed, written>>,
         callback' \in {"none", "read", "close", "error"},
         flushed' \in Nat, flushed <= flushed', flushed' <= written,
         consumed' \in Nat,
         LiveOf(s) => /\ LiveOf(stream)
                      /\ Len(sent) = s.output_offset + Positive(s.write.result)
                      /\ InputOf(s, arrived, consumed')
                      /\ "send" \notin failed => OutputOf(s, Len(sent), written, flushed')
  PROVE  Inv'
  <1>1. /\ orphan \in [data : Seq(Nat), offset : Nat] /\ orphan.data \in Seq(Nat)
        /\ sent \in Seq(Nat) /\ Len(sent) \in Nat /\ arrived \in Nat /\ written \in Nat
        /\ LiveOf(stream) => orphan.data = <<>>
    BY OutgoingFacts
  <1>2. /\ Update(s) \in StreamType /\ OperationsOf(Update(s))
        /\ Update(s).state = s.state /\ Update(s).output_offset = s.output_offset
        /\ Update(s).write.result = s.write.result
    BY UpdateKeeps
  <1>3. /\ stream' \in StreamType /\ OperationsOf(stream')
        /\ stream'.state = s.state /\ stream'.output_offset = s.output_offset
        /\ stream'.write.result = s.write.result
    BY <1>2
  <1>4. LiveOf(s) /\ "send" \notin failed => OutputOf(stream', Len(sent), written, flushed')
    BY <1>1, UpdateOutput
  <1>5. LiveOf(s) => InputOf(stream', arrived, consumed')
    BY <1>1, UpdateInput DEF OperationsOf
  <1>6. TypeOK'
    BY <1>1, <1>3 DEF Inv, TypeOK
  <1>7. Outgoing'
    <2>1. Live' <=> LiveOf(s)
      BY <1>3 DEF Live, LiveOf
    <2>2. Live' => /\ orphan'.data = <<>>
                   /\ Len(sent') = stream'.output_offset
                                    + (IF stream'.write.result > 0 THEN stream'.write.result ELSE 0)
      BY <1>1, <1>3, <2>1 DEF Positive
    <2>3. orphan'.data # <<>> => orphan'.offset = Len(sent')
      BY DEF Inv, Outgoing
    <2>4. ASSUME "send" \notin failed'
          PROVE  /\ sent' = Bytes(0, Len(sent'))
                 /\ orphan'.data = Bytes(Len(sent'), Len(sent') + Len(orphan'.data))
                 /\ Len(sent') + Len(orphan'.data) <= flushed'
                 /\ Live' => OutputOf(stream', Len(sent'), written', flushed')
      <3>1. /\ sent = Bytes(0, Len(sent))
            /\ orphan.data = Bytes(Len(sent), Len(sent) + Len(orphan.data))
            /\ Len(sent) + Len(orphan.data) <= flushed
        BY <2>4 DEF Inv, Outgoing
      <3>2. Len(sent) + Len(orphan.data) <= flushed'
        <4>1. flushed \in Nat /\ Len(orphan.data) \in Nat
          BY <1>1, OutgoingFacts
        <4> QED BY <1>1, <3>1, <4>1
      <3> QED BY <1>4, <2>1, <2>4, <3>1, <3>2
    <2>5. flushed' <= written'
      OBVIOUS
    <2> QED BY <2>2, <2>3, <2>4, <2>5, Zenon DEF Outgoing
  <1>8. Incoming'
    BY <1>3, <1>5 DEF Incoming, Live, LiveOf
  <1>9. OperationsOf(stream)'
    BY <1>3 DEF OperationsOf
  <1> QED BY <1>6, <1>7, <1>8, <1>9 DEF Inv

\* stream_open()
LEMMA OpenInv ==
  ASSUME Inv, NEW type \in {"socket", "file"}, NEW flags \in SUBSET {"STREAM_WRITE_ONLY"},
         Open(type, flags)
  PROVE  Inv'
  <1> DEFINE s == [stream EXCEPT !.state = "open", !.type = type, !.flags = flags]
  <1>1. /\ stream \in StreamType /\ OperationsOf(stream) /\ flushed \in Nat /\ consumed \in Nat
        /\ flushed <= written
        /\ LiveOf(stream) => /\ Len(sent) = stream.output_offset + Positive(stream.write.result)
                             /\ InputOf(stream, arrived, consumed)
                             /\ "send" \notin failed => OutputOf(stream, Len(sent), written, flushed)
    BY OutgoingFacts
  <1>2. /\ stream.state = "constructed" /\ stream' = Update(s)
        /\ UNCHANGED <<callback, orphan, sent, arrived, failed, written, flushed, consumed>>
    BY DEF Open
  <1>3. LiveOf(stream)
    BY <1>2 DEF LiveOf
  <1>4. /\ s \in StreamType /\ s.state = "open" /\ s.abort = stream.abort /\ s.read = stream.read
        /\ s.input_offset = stream.input_offset /\ s.input = stream.input
        /\ s.input_consumed = stream.input_consumed /\ s.write = stream.write
        /\ s.output_offset = stream.output_offset /\ s.output_partial = stream.output_partial
        /\ s.output_writing = stream.output_writing /\ s.output_waiting = stream.output_waiting
        /\ s.output_flushed = stream.output_flushed
    <2>1. s \in StreamType
      BY <1>1 DEF StreamType
    <2>2. /\ s.state = "open" /\ s.type = type /\ s.flags = flags /\ s.abort = stream.abort
          /\ s.read = stream.read /\ s.input_offset = stream.input_offset
          /\ s.input = stream.input /\ s.input_consumed = stream.input_consumed
      BY <1>1 DEF StreamType
    <2>3. /\ s.write = stream.write /\ s.output_offset = stream.output_offset
          /\ s.output_partial = stream.output_partial
          /\ s.output_writing = stream.output_writing
          /\ s.output_waiting = stream.output_waiting
          /\ s.output_flushed = stream.output_flushed
      BY <1>1 DEF StreamType
    <2> HIDE DEF s
    <2> QED BY <2>1, <2>2, <2>3
  <1> HIDE DEF s
  <1>5. OperationsOf(s)
    BY <1>1, <1>2, <1>4 DEF OperationsOf
  <1>6. InputOf(s, arrived, consumed)
    BY <1>1, <1>3, <1>4 DEF InputOf
  <1>7. "send" \notin failed => OutputOf(s, Len(sent), written, flushed)
    BY <1>1, <1>3, <1>4 DEF OutputOf
  <1>8. callback' \in {"none", "read", "close", "error"}
    BY <1>2 DEF Inv, TypeOK
  <1>9. Len(sent) = s.output_offset + Positive(s.write.result)
    BY <1>1, <1>3, <1>4
  <1>10. flushed <= flushed
    BY <1>1
  <1> QED BY <1>1, <1>2, <1>3, <1>4, <1>5, <1>6, <1>7, <1>8, <1>9, <1>10, UpdatedInv

\* stream_flush()
LEMMA FlushInv ==
  ASSUME Inv, Flush
  PROVE  Inv'
  <1> DEFINE n == Len(stream.output_waiting)
             s == [stream EXCEPT !.output_flushed = n]
  <1>1. /\ stream \in StreamType /\ OperationsOf(stream) /\ flushed \in Nat /\ consumed \in Nat
        /\ written \in Nat /\ flushed <= written
        /\ LiveOf(stream) => /\ Len(sent) = stream.output_offset + Positive(stream.write.result)
                             /\ InputOf(stream, arrived, consumed)
                             /\ "send" \notin failed => OutputOf(stream, Len(sent), written, flushed)
    BY OutgoingFacts
  <1>2. /\ stream' = Update(s) /\ flushed' = written
        /\ UNCHANGED <<callback, orphan, sent, arrived, failed, written, consumed>>
    BY DEF Flush
  <1>3. n \in Nat
    BY <1>1, OutputTypes
  <1> HIDE DEF n
  <1>4. /\ s \in StreamType /\ s.state = stream.state /\ s.abort = stream.abort
        /\ s.read = stream.read
        /\ s.input_offset = stream.input_offset /\ s.input = stream.input
        /\ s.input_consumed = stream.input_consumed /\ s.write = stream.write
        /\ s.output_offset = stream.output_offset /\ s.output_partial = stream.output_partial
        /\ s.output_writing = stream.output_writing /\ s.output_waiting = stream.output_waiting
        /\ s.output_flushed = n
    BY <1>1, <1>3, FlushedFacts
  <1> HIDE DEF s
  <1>5. OperationsOf(s)
    BY <1>1, <1>3, <1>4 DEF OperationsOf, n
  <1>6. LiveOf(s) => LiveOf(stream) /\ InputOf(s, arrived, consumed)
    BY <1>1, <1>4 DEF InputOf, LiveOf
  <1>7. LiveOf(s) /\ "send" \notin failed => OutputOf(s, Len(sent), written, written)
    <2>1. written = written - Len(s.output_waiting) + n
      BY <1>1, <1>3, <1>4 DEF n
    <2> QED BY <1>1, <1>4, <1>6, <2>1 DEF OutputOf
  <1>8. callback' \in {"none", "read", "close", "error"}
    BY <1>2 DEF Inv, TypeOK
  <1>9. LiveOf(s) => Len(sent) = s.output_offset + Positive(s.write.result)
    BY <1>1, <1>4, <1>6
  <1>10. written <= written
    BY <1>1
  <1> QED BY <1>1, <1>2, <1>4, <1>5, <1>6, <1>7, <1>8, <1>9, <1>10, UpdatedInv

\* stream_consume()
LEMMA ConsumeInv ==
  ASSUME Inv, Consume
  PROVE  Inv'
  <1> DEFINE n == stream.input_consumed + 1
             s == [stream EXCEPT !.input_consumed = n]
  <1>1. /\ stream \in StreamType /\ OperationsOf(stream) /\ flushed \in Nat /\ consumed \in Nat
        /\ written \in Nat /\ flushed <= written
        /\ LiveOf(stream) => /\ Len(sent) = stream.output_offset + Positive(stream.write.result)
                             /\ InputOf(stream, arrived, consumed)
                             /\ "send" \notin failed => OutputOf(stream, Len(sent), written, flushed)
    BY OutgoingFacts
  <1>2. /\ stream' = s /\ consumed' = consumed + 1
        /\ stream.input_consumed < Len(stream.input)
        /\ UNCHANGED <<callback, orphan, sent, arrived, failed, written, flushed>>
    BY DEF Consume
  <1>3. /\ n \in Nat /\ n = stream.input_consumed + 1 /\ stream.input_consumed \in Nat
        /\ Len(stream.input) \in Nat
    BY <1>1, InputTypes
  <1> HIDE DEF n
  <1>4. /\ s \in StreamType /\ s.state = stream.state /\ s.abort = stream.abort
        /\ s.read = stream.read
        /\ s.input_offset = stream.input_offset /\ s.input = stream.input
        /\ s.input_consumed = n /\ s.write = stream.write
        /\ s.output_offset = stream.output_offset /\ s.output_partial = stream.output_partial
        /\ s.output_writing = stream.output_writing /\ s.output_waiting = stream.output_waiting
        /\ s.output_flushed = stream.output_flushed
    BY <1>1, <1>3, ConsumedFacts
  <1> HIDE DEF s
  <1>5. OperationsOf(s)
    BY <1>1, <1>4 DEF OperationsOf
  <1>6. LiveOf(s) => LiveOf(stream)
    BY <1>4 DEF LiveOf
  <1>7. LiveOf(s) => InputOf(s, arrived, consumed + 1)
    <2>1. (consumed + 1) - n = consumed - stream.input_consumed
      BY <1>1, <1>3
    <2>2. LiveOf(s) => n <= consumed + 1 /\ n <= Len(stream.input)
      BY <1>1, <1>2, <1>3, <1>6 DEF InputOf
    <2> DEFINE start == consumed - stream.input_consumed
               end == start + Len(stream.input)
    <2>3. LiveOf(s) => /\ stream.input = Bytes(start, end) /\ stream.input_offset = end
                       /\ end <= arrived /\ stream.read.data = Bytes(end, arrived)
      BY <1>1, <1>6 DEF InputOf
    <2>4. (consumed + 1) - s.input_consumed = start
      BY <1>4, <2>1
    <2> HIDE DEF start
    <2>5. (consumed + 1) - s.input_consumed + Len(s.input) = end
      BY <1>4, <2>4
    <2> HIDE DEF end
    <2> DEFINE c == consumed + 1
    <2>6. LiveOf(s) => /\ s.input_consumed <= c /\ s.input_consumed <= Len(s.input)
                       /\ s.input = Bytes(start, end) /\ s.input_offset = end
                       /\ end <= arrived /\ s.read.data = Bytes(end, arrived)
      BY <1>4, <2>2, <2>3, Zenon
    <2>7. c - s.input_consumed = start /\ c - s.input_consumed + Len(s.input) = end
      BY <2>4, <2>5
    <2> HIDE DEF c
    <2>8. LiveOf(s) => InputOf(s, arrived, c)
      BY <2>6, <2>7, Zenon DEF InputOf
    <2> QED BY <2>8 DEF c
  <1>8. LiveOf(s) /\ "send" \notin failed => OutputOf(s, Len(sent), written, flushed)
    BY <1>1, <1>4, <1>6 DEF OutputOf
  <1>9. callback' \in {"none", "read", "close", "error"}
    BY <1>2 DEF Inv, TypeOK
  <1>10. LiveOf(s) => Len(sent) = s.output_offset + Positive(s.write.result)
    BY <1>1, <1>4, <1>6
  <1>11. flushed <= flushed /\ consumed + 1 \in Nat
    BY <1>1
  <1> QED BY <1>1, <1>2, <1>4, <1>5, <1>6, <1>7, <1>8, <1>9, <1>10, <1>11, UpdatedInv

\* The callback returns to stream_recv(), or to a function that ends with it.
LEMMA ReturnInv ==
  ASSUME Inv, Return
  PROVE  Inv'
  <1>1. /\ stream \in StreamType /\ OperationsOf(stream) /\ flushed \in Nat /\ consumed \in Nat
        /\ written \in Nat /\ arrived \in Nat /\ flushed <= written
        /\ LiveOf(stream) => /\ Len(sent) = stream.output_offset + Positive(stream.write.result)
                             /\ InputOf(stream, arrived, consumed)
                             /\ "send" \notin failed => OutputOf(stream, Len(sent), written, flushed)
    BY OutgoingFacts
  <1>2. UNCHANGED <<orphan, sent, arrived, failed, written, flushed, consumed>> /\ callback' = "none"
    BY DEF Return
  <1>3. flushed <= flushed
    BY <1>1
  <1>4. CASE stream' = stream
    BY <1>1, <1>2, <1>3, <1>4, UpdatedInv
  <1>5. CASE stream' # stream
    <2> DEFINE s == [stream EXCEPT !.abort = "none"]
    <2>1. stream' = Update(s)
      BY <1>5 DEF Return
    <2>2. /\ s \in StreamType /\ s.state = stream.state /\ s.abort = "none" /\ s.read = stream.read
          /\ s.input_offset = stream.input_offset /\ s.input = stream.input
          /\ s.input_consumed = stream.input_consumed /\ s.write = stream.write
          /\ s.output_offset = stream.output_offset /\ s.output_partial = stream.output_partial
          /\ s.output_writing = stream.output_writing /\ s.output_waiting = stream.output_waiting
          /\ s.output_flushed = stream.output_flushed
      BY <1>1, AbortFacts
    <2> HIDE DEF s
    <2>3. OperationsOf(s)
      BY <1>1, <2>2 DEF OperationsOf
    <2>4. LiveOf(s) => LiveOf(stream) /\ InputOf(s, arrived, consumed)
      BY <1>1, <2>2 DEF InputOf, LiveOf
    <2>5. LiveOf(s) /\ "send" \notin failed => OutputOf(s, Len(sent), written, flushed)
      BY <1>1, <2>2, <2>4 DEF OutputOf
    <2>6. LiveOf(s) => Len(sent) = s.output_offset + Positive(s.write.result)
      BY <1>1, <2>2, <2>4
    <2> QED BY <1>1, <1>2, <1>3, <2>1, <2>2, <2>3, <2>4, <2>5, <2>6, UpdatedInv
  <1> QED BY <1>4, <1>5

\* stream_recv(): what the kernel has read is the end of the input.
LEMMA RecvInv ==
  ASSUME Inv, Recv
  PROVE  Inv'
  <1> DEFINE r == stream.read
  <1>1. /\ stream \in StreamType /\ OperationsOf(stream) /\ flushed \in Nat /\ consumed \in Nat
        /\ written \in Nat /\ arrived \in Nat /\ flushed <= written
        /\ LiveOf(stream) => /\ Len(sent) = stream.output_offset + Positive(stream.write.result)
                             /\ InputOf(stream, arrived, consumed)
                             /\ "send" \notin failed => OutputOf(stream, Len(sent), written, flushed)
    BY OutgoingFacts
  <1>2. /\ UNCHANGED <<orphan, sent, arrived, failed, written, flushed, consumed>>
        /\ callback' \in {"none", "read", "close", "error"} /\ r.state = "ended"
    BY DEF Recv
  <1>3. flushed <= flushed
    BY <1>1
  <1>4. /\ r \in OperationType /\ r.result \in Int /\ r.data \in Seq(Nat) /\ Len(r.data) \in Nat
        /\ stream.input \in Seq(Nat) /\ stream.input_consumed \in Nat
        /\ stream.input_offset \in Nat /\ Len(stream.input) \in Nat
    BY <1>1, InputTypes
  <1>5. stream.state = "open" /\ LiveOf(stream)
    BY <1>1, <1>2, OperationFacts DEF OperationsOf, LiveOf
  <1>6. /\ r.result > 0 => r.result = Len(r.data)
        /\ r.result <= 0 => r.data = <<>>
    BY <1>1 DEF OperationsOf
  <1>7. CASE r.result <= 0
    <2> DEFINE s == [stream EXCEPT !.read = None]
    <2>1. stream' = s
      BY <1>7 DEF Recv
    <2>2. /\ s \in StreamType /\ s.state = stream.state /\ s.abort = stream.abort /\ s.read = None
          /\ s.input_offset = stream.input_offset /\ s.input = stream.input
          /\ s.input_consumed = stream.input_consumed /\ s.write = stream.write
          /\ s.output_offset = stream.output_offset /\ s.output_partial = stream.output_partial
          /\ s.output_writing = stream.output_writing /\ s.output_waiting = stream.output_waiting
          /\ s.output_flushed = stream.output_flushed
      BY <1>1, OperationFacts, ReadFacts
    <2> HIDE DEF s
    <2>3. OperationsOf(s)
      BY <1>1, <1>5, <2>2, OperationFacts DEF OperationsOf
    <2>4. InputOf(s, arrived, consumed)
      <3>1. s.read.data = stream.read.data
        BY <1>6, <1>7, <2>2, OperationFacts
      <3> HIDE DEF r
      <3> QED BY <1>1, <1>5, <2>2, <3>1 DEF InputOf
    <2>5. "send" \notin failed => OutputOf(s, Len(sent), written, flushed)
      BY <1>1, <1>5, <2>2 DEF OutputOf
    <2>6. Len(sent) = s.output_offset + Positive(s.write.result)
      BY <1>1, <1>5, <2>2
    <2> QED BY <1>1, <1>2, <1>3, <1>5, <2>1, <2>2, <2>3, <2>4, <2>5, <2>6, UpdatedInv
  <1>8. CASE r.result > 0
    <2> DEFINE offset == stream.input_offset + r.result
               input == stream.input \o r.data
               none == None
               s == [stream EXCEPT !.read = none, !.abort = "live", !.input_offset = offset,
                                   !.input = input]
    <2>1. stream' = s
      BY <1>4, <1>8 DEF Recv
    <2>2. offset \in Nat /\ input \in Seq(Nat) /\ none \in OperationType
      BY <1>4, <1>8, OperationFacts
    <2> HIDE DEF offset, input, none
    <2>3. /\ s \in StreamType /\ s.state = stream.state /\ s.abort = "live" /\ s.read = none
          /\ s.input_offset = offset /\ s.input = input
          /\ s.input_consumed = stream.input_consumed /\ s.write = stream.write
          /\ s.output_offset = stream.output_offset /\ s.output_partial = stream.output_partial
          /\ s.output_writing = stream.output_writing /\ s.output_waiting = stream.output_waiting
          /\ s.output_flushed = stream.output_flushed
      <3>1. s \in StreamType
        BY <1>1, <2>2 DEF StreamType
      <3>2. /\ s.state = stream.state /\ s.type = stream.type /\ s.flags = stream.flags
            /\ s.abort = "live" /\ s.read = none /\ s.input_offset = offset /\ s.input = input
            /\ s.input_consumed = stream.input_consumed
        BY <1>1 DEF StreamType
      <3>3. /\ s.write = stream.write /\ s.output_offset = stream.output_offset
            /\ s.output_partial = stream.output_partial
            /\ s.output_writing = stream.output_writing
            /\ s.output_waiting = stream.output_waiting
            /\ s.output_flushed = stream.output_flushed
        BY <1>1 DEF StreamType
      <3> HIDE DEF s
      <3> QED BY <3>1, <3>2, <3>3
    <2> HIDE DEF s
    <2>4. none = None /\ none.state = "none" /\ none.result = 0 /\ none.data = <<>>
      BY OperationFacts DEF none
    <2>5. OperationsOf(s)
      BY <1>1, <1>5, <2>3, <2>4 DEF OperationsOf
    <2>6. InputOf(s, arrived, consumed)
      <3> DEFINE start == consumed - stream.input_consumed
                 end == start + Len(stream.input)
      <3>1. /\ stream.input_consumed <= consumed /\ stream.input_consumed <= Len(stream.input)
            /\ stream.input = Bytes(start, end) /\ stream.input_offset = end
            /\ end <= arrived /\ r.data = Bytes(end, arrived)
        BY <1>1, <1>5 DEF InputOf
      <3>2. start \in Nat /\ end \in Nat /\ start <= end /\ Len(stream.input) = end - start
        BY <1>1, <1>4, <3>1
      <3> HIDE DEF start, end, r
      <3>3. input = Bytes(start, arrived)
        <4>1. input = Bytes(start, end) \o Bytes(end, arrived)
          BY <3>1, Zenon DEF input
        <4>2. Bytes(start, end) \o Bytes(end, arrived) = Bytes(start, arrived)
          <5>1. end <= arrived
            BY <3>1
          <5> QED BY <1>1, <3>2, <5>1, BytesJoin
        <4> QED BY <4>1, <4>2
      <3>4. Len(r.data) = arrived - end
        BY <1>1, <3>1, <3>2, BytesFacts
      <3>5. Len(input) = arrived - start
        <4>1. start <= arrived
          BY <1>1, <3>1, <3>2
        <4> QED BY <1>1, <3>2, <3>3, <4>1, BytesFacts
      <3>6. start + Len(input) = arrived
        BY <1>1, <3>2, <3>5
      <3>7. offset = arrived
        BY <1>1, <1>6, <1>8, <3>1, <3>2, <3>4 DEF offset
      <3>8. none.data = Bytes(arrived, arrived) /\ arrived <= arrived
        BY <1>1, <2>4, BytesEmpty
      <3>9. s.input_consumed <= Len(s.input)
        <4>1. end - start <= arrived - start
          BY <1>1, <3>1, <3>2
        <4> QED BY <1>1, <1>4, <2>3, <3>1, <3>2, <3>5, <4>1
      <3>10. consumed - s.input_consumed = start
        BY <2>3 DEF start
      <3> QED BY <2>3, <3>1, <3>3, <3>6, <3>7, <3>8, <3>9, <3>10, Zenon DEF InputOf
    <2>7. "send" \notin failed => OutputOf(s, Len(sent), written, flushed)
      BY <1>1, <1>5, <2>3 DEF OutputOf
    <2>8. Len(sent) = s.output_offset + Positive(s.write.result)
      BY <1>1, <1>5, <2>3
    <2> QED BY <1>1, <1>2, <1>3, <1>5, <2>1, <2>3, <2>5, <2>6, <2>7, <2>8, UpdatedInv
  <1> QED BY <1>4, <1>7, <1>8

\* What was sent is not sent again: the rest of output_writing, if there is one,
\* begins behind it.
LEMMA SentOutput ==
  ASSUME NEW s \in StreamType, NEW o \in StreamType, NEW n \in Nat, NEW k \in Nat, NEW f \in Nat,
         OutputOf(s, n, k, f), s.write.state = "ended", o.write = None,
         o.output_writing = s.output_writing, o.output_waiting = s.output_waiting,
         o.output_flushed = s.output_flushed,
         o.output_partial = IF s.output_partial + s.write.result = Len(s.output_writing)
                              THEN 0 ELSE s.output_partial + s.write.result
  PROVE  OutputOf(o, n, k, f)
  <1> DEFINE w == s.output_writing
             left == k - Len(s.output_waiting)
             partial == s.output_partial + s.write.result
             start == n - s.output_partial - s.write.result
  <1>1. /\ s.output_partial \in Nat /\ s.write.result \in Int /\ Len(s.output_waiting) \in Nat
    BY OutputTypes
  <1>2. /\ s.output_waiting = Bytes(left, k) /\ f = left + s.output_flushed
        /\ s.write.result > 0 /\ 0 <= start /\ n <= left /\ w = Bytes(start, left)
    <2>1. s.write # None
      BY OperationFacts
    <2> QED BY <2>1 DEF OutputOf
  <1>3. /\ partial \in Nat /\ start \in Nat /\ start = n - partial /\ left \in Nat /\ start <= left
    BY <1>1, <1>2, SMTT(60)
  <1>4. o.write.result = 0 /\ o.write.state = "none"
    BY OperationFacts
  <1> HIDE DEF start, w, left
  <1>5. Len(w) = left - start
    BY <1>2, <1>3, BytesFacts
  <1>6. CASE partial = Len(w)
    <2>1. n = left
      BY <1>3, <1>5, <1>6
    <2>2. o.output_partial = 0
      BY <1>6 DEF w
    <2> QED BY <1>2, <1>4, <2>1, <2>2 DEF OutputOf, left
  <1>7. CASE partial # Len(w)
    <2>1. o.output_partial = partial
      BY <1>7 DEF w
    <2> HIDE DEF partial
    <2>2. n - o.output_partial - o.write.result = start
      BY <1>3, <1>4, <2>1
    <2>4. k - Len(o.output_waiting) = left /\ o.output_waiting = Bytes(left, k)
          /\ f = left + o.output_flushed
      BY <1>2 DEF left
    <2>5. o.output_writing = Bytes(start, left)
      BY <1>2 DEF w
    <2>6. partial # 0
      BY <1>1, <1>2 DEF partial
    <2> QED BY <1>2, <1>3, <1>4, <2>1, <2>2, <2>4, <2>5, <2>6 DEF OutputOf
  <1> QED BY <1>6, <1>7

\* stream_send()
LEMMA SendInv ==
  ASSUME Inv, Send
  PROVE  Inv'
  <1> DEFINE w == stream.write
  <1>1. /\ stream \in StreamType /\ OperationsOf(stream) /\ flushed \in Nat /\ consumed \in Nat
        /\ written \in Nat /\ arrived \in Nat /\ flushed <= written /\ Len(sent) \in Nat
        /\ LiveOf(stream) => /\ Len(sent) = stream.output_offset + Positive(stream.write.result)
                             /\ InputOf(stream, arrived, consumed)
                             /\ "send" \notin failed => OutputOf(stream, Len(sent), written, flushed)
    BY OutgoingFacts
  <1>2. /\ UNCHANGED <<orphan, sent, arrived, failed, written, flushed, consumed>>
        /\ w.state = "ended"
    BY DEF Send
  <1>3. /\ flushed <= flushed /\ callback' \in {"none", "read", "close", "error"}
    BY <1>1 DEF Send, Inv, TypeOK
  <1>4. /\ w \in OperationType /\ w.result \in Int
        /\ stream.output_offset \in Nat /\ stream.output_partial \in Nat
    BY <1>1, OutputTypes
  <1>5. stream.state = "open" /\ LiveOf(stream)
    BY <1>1, <1>2, OperationFacts DEF OperationsOf, LiveOf
  <1>6. None \in OperationType /\ None.result = 0 /\ None.state = "none" /\ None.data = <<>>
    BY OperationFacts
  <1>7. CASE w.result <= 0
    <2> DEFINE s == [stream EXCEPT !.write = None]
    <2>1. stream' = s
      BY <1>7 DEF Send
    <2>2. /\ s \in StreamType /\ s.state = stream.state /\ s.abort = stream.abort
          /\ s.read = stream.read
          /\ s.input_offset = stream.input_offset /\ s.input = stream.input
          /\ s.input_consumed = stream.input_consumed /\ s.write = None
          /\ s.output_offset = stream.output_offset /\ s.output_partial = stream.output_partial
          /\ s.output_writing = stream.output_writing /\ s.output_waiting = stream.output_waiting
          /\ s.output_flushed = stream.output_flushed
      BY <1>1, <1>6, WriteFacts
    <2> HIDE DEF s
    <2>3. OperationsOf(s)
      BY <1>1, <1>5, <1>6, <2>2 DEF OperationsOf
    <2>4. InputOf(s, arrived, consumed)
      BY <1>1, <1>5, <2>2 DEF InputOf
    <2>5. "send" \in failed
      BY <1>1, <1>2, <1>4, <1>5, <1>7 DEF OutputOf
    <2>6. Len(sent) = s.output_offset + Positive(s.write.result)
      <3>1. Positive(w.result) = 0 /\ Positive(0) = 0
        BY <1>4, <1>7 DEF Positive
      <3> QED BY <1>1, <1>4, <1>5, <1>6, <2>2, <3>1
    <2> QED BY <1>1, <1>2, <1>3, <1>5, <2>1, <2>2, <2>3, <2>4, <2>5, <2>6, UpdatedInv
  <1>8. CASE w.result > 0
    <2> DEFINE partial == stream.output_partial + w.result
               new == IF partial = Len(stream.output_writing) THEN 0 ELSE partial
               offset == stream.output_offset + w.result
               none == None
               s == [stream EXCEPT !.write = none, !.output_offset = offset,
                                   !.output_partial = new]
    <2>1. stream' = Update(s)
      BY <1>4, <1>8 DEF Send
    <2>2. offset \in Nat /\ new \in Nat /\ none \in OperationType
      BY <1>4, <1>6, <1>8
    <2>3. new = IF partial = Len(stream.output_writing) THEN 0 ELSE partial
      OBVIOUS
    <2> HIDE DEF offset, new, none
    <2>4. /\ s \in StreamType /\ s.state = stream.state /\ s.type = stream.type /\ s.flags = stream.flags
          /\ s.abort = stream.abort /\ s.read = stream.read
          /\ s.input_offset = stream.input_offset /\ s.input = stream.input
          /\ s.input_consumed = stream.input_consumed /\ s.write = none
          /\ s.output_offset = offset /\ s.output_partial = new
          /\ s.output_writing = stream.output_writing
          /\ s.output_waiting = stream.output_waiting
          /\ s.output_flushed = stream.output_flushed
      <3>1. s \in StreamType
        BY <1>1, <2>2 DEF StreamType
      <3>2. /\ s.state = stream.state /\ s.type = stream.type /\ s.flags = stream.flags
            /\ s.abort = stream.abort /\ s.read = stream.read
            /\ s.input_offset = stream.input_offset /\ s.input = stream.input
            /\ s.input_consumed = stream.input_consumed
        BY <1>1 DEF StreamType
      <3>3. /\ s.write = none /\ s.output_offset = offset /\ s.output_partial = new
            /\ s.output_writing = stream.output_writing
            /\ s.output_waiting = stream.output_waiting
            /\ s.output_flushed = stream.output_flushed
        BY <1>1 DEF StreamType
      <3> HIDE DEF s
      <3> QED BY <3>1, <3>2, <3>3
    <2> HIDE DEF s
    <2>5. s.write = None
      BY <2>4 DEF none
    <2>6. OperationsOf(s)
      BY <1>1, <1>5, <1>6, <2>4, <2>5 DEF OperationsOf
    <2>7. InputOf(s, arrived, consumed)
      BY <1>1, <1>5, <2>4 DEF InputOf
    <2>8. "send" \notin failed => OutputOf(s, Len(sent), written, flushed)
      <3>1. s.output_partial = IF stream.output_partial + stream.write.result
                                    = Len(stream.output_writing)
                                 THEN 0 ELSE stream.output_partial + stream.write.result
        BY <2>3, <2>4
      <3>2. /\ s.output_writing = stream.output_writing
            /\ s.output_waiting = stream.output_waiting
            /\ s.output_flushed = stream.output_flushed /\ s \in StreamType
        BY <2>4
      <3> QED BY <1>1, <1>2, <1>5, <2>5, <3>1, <3>2, SentOutput
    <2>9. Len(sent) = s.output_offset + Positive(s.write.result)
      <3>1. Positive(w.result) = w.result /\ Positive(0) = 0
        BY <1>4, <1>8 DEF Positive
      <3>2. s.write.result = 0
        BY <1>6, <2>5
      <3>3. Len(sent) = stream.output_offset + w.result
        BY <1>1, <1>5, <3>1
      <3> QED BY <1>4, <2>2, <2>4, <3>1, <3>2, <3>3 DEF offset
    <2> QED BY <1>1, <1>2, <1>3, <1>5, <2>1, <2>4, <2>6, <2>7, <2>8, <2>9, UpdatedInv
  <1> QED BY <1>4, <1>7, <1>8

\* stream_write()
LEMMA WriteInv ==
  ASSUME Inv, Write
  PROVE  Inv'
  <1> DEFINE w == Append(stream.output_waiting, written + 1)
             s == [stream EXCEPT !.output_waiting = w]
             n == Len(sent)
  <1>1. /\ stream \in StreamType /\ OperationsOf(stream) /\ flushed \in Nat /\ consumed \in Nat
        /\ written \in Nat /\ arrived \in Nat /\ flushed <= written /\ Len(sent) \in Nat
        /\ LiveOf(stream) => /\ Len(sent) = stream.output_offset + Positive(stream.write.result)
                             /\ InputOf(stream, arrived, consumed)
                             /\ "send" \notin failed => OutputOf(stream, Len(sent), written, flushed)
    BY OutgoingFacts
  <1>2. /\ stream' = s /\ written' = written + 1
        /\ UNCHANGED <<callback, orphan, sent, arrived, failed, flushed, consumed>>
    BY DEF Write
  <1>3. /\ stream.output_waiting \in Seq(Nat) /\ w \in Seq(Nat)
        /\ Len(stream.output_waiting) \in Nat /\ Len(w) = Len(stream.output_waiting) + 1
    BY <1>1, OutputTypes
  <1> HIDE DEF w
  <1>4. /\ s \in StreamType /\ s.state = stream.state /\ s.type = stream.type /\ s.flags = stream.flags
        /\ s.abort = stream.abort /\ s.read = stream.read
        /\ s.input_offset = stream.input_offset /\ s.input = stream.input
        /\ s.input_consumed = stream.input_consumed /\ s.write = stream.write
        /\ s.output_offset = stream.output_offset /\ s.output_partial = stream.output_partial
        /\ s.output_writing = stream.output_writing /\ s.output_waiting = w
        /\ s.output_flushed = stream.output_flushed
    BY <1>1, <1>3, WrittenFacts
  <1> HIDE DEF s
  <1>5. OperationsOf(s)
    <2>1. stream.output_flushed <= Len(stream.output_waiting) => stream.output_flushed <= Len(w)
      <3>1. stream.output_flushed \in Nat
        BY <1>1, OutputTypes
      <3> QED BY <1>3, <3>1
    <2> QED BY <1>1, <1>4, <2>1 DEF OperationsOf
  <1>6. LiveOf(s) <=> LiveOf(stream)
    BY <1>4 DEF LiveOf
  <1>7. LiveOf(s) => InputOf(s, arrived, consumed)
    BY <1>1, <1>4, <1>6 DEF InputOf
  <1>8. ASSUME LiveOf(s), "send" \notin failed
        PROVE  OutputOf(s, n, written + 1, flushed)
    <2> DEFINE left == written - Len(stream.output_waiting)
    <2>1. /\ stream.output_waiting = Bytes(left, written) /\ flushed = left + stream.output_flushed
          /\ stream.write.result >= 0
          /\ stream.write.state = "ended" => stream.write.result > 0
          /\ IF stream.write = None /\ stream.output_partial = 0
               THEN n = left
               ELSE /\ 0 <= n - stream.output_partial - stream.write.result /\ n <= left
                    /\ stream.output_writing
                         = Bytes(n - stream.output_partial - stream.write.result, left)
      BY <1>1, <1>6, <1>8 DEF OutputOf
    <2>2. (written + 1) - Len(w) = left /\ left \in Int /\ left <= written
      BY <1>1, <1>3
    <2> HIDE DEF left
    <2>3. left \in Nat
      BY <1>1, <2>1, <2>2
    <2>4. w = Bytes(left, written + 1)
      <3>1. w = Append(Bytes(left, written), written + 1)
        BY <2>1 DEF w
      <3> QED BY <1>1, <2>2, <2>3, <3>1, BytesAppend
    <2> DEFINE k == written + 1
    <2>5. k - Len(w) = left /\ w = Bytes(left, k)
      BY <2>2, <2>4
    <2> HIDE DEF k, n
    <2>6. OutputOf(s, n, k, flushed)
      BY <1>4, <2>1, <2>5, Zenon DEF OutputOf
    <2> QED BY <2>6 DEF k
  <1>9. TypeOK'
    BY <1>1, <1>2, <1>4 DEF Inv, TypeOK
  <1>10. Outgoing'
    <2>1. Live' <=> LiveOf(stream)
      BY <1>2, <1>6 DEF Live, LiveOf
    <2>2. LiveOf(stream) =>
            Len(sent) = s.output_offset + (IF s.write.result > 0 THEN s.write.result ELSE 0)
      BY <1>1, <1>4 DEF Positive
    <2>3. ASSUME "send" \notin failed
          PROVE  LiveOf(stream) => OutputOf(stream', Len(sent), written', flushed)
      BY <1>2, <1>6, <1>8, <2>3
    <2>4. flushed <= written'
      BY <1>1, <1>2
    <2> QED BY <1>2, <2>1, <2>2, <2>3, <2>4 DEF Inv, Outgoing, Live, LiveOf
  <1>11. Incoming'
    BY <1>2, <1>7 DEF Incoming, Live, LiveOf
  <1>12. OperationsOf(stream)'
    BY <1>2, <1>5 DEF OperationsOf
  <1> QED BY <1>9, <1>10, <1>11, <1>12 DEF Inv

\* What is to be sent while a write is in flight: it begins behind what was sent.
LEMMA InFlight ==
  ASSUME Inv, stream.write.state = "flying"
  PROVE  LET output == Rest(stream.output_writing, stream.output_partial) IN
         /\ stream.state = "open" /\ orphan.data = <<>>
         /\ stream.write.result = 0 /\ stream.output_offset = Len(sent)
         /\ output \in Seq(Nat)
         /\ "send" \notin failed =>
              LET left == written - Len(stream.output_waiting) IN
              /\ left \in Nat /\ Len(sent) <= left /\ left <= flushed
              /\ output = Bytes(Len(sent), left)
              /\ 0 <= Len(sent) - stream.output_partial
              /\ stream.output_writing = Bytes(Len(sent) - stream.output_partial, left)
  <1>1. /\ stream \in StreamType /\ OperationsOf(stream) /\ flushed \in Nat /\ consumed \in Nat
        /\ written \in Nat /\ arrived \in Nat /\ flushed <= written /\ Len(sent) \in Nat
        /\ LiveOf(stream) => /\ Len(sent) = stream.output_offset + Positive(stream.write.result)
                             /\ InputOf(stream, arrived, consumed)
                             /\ "send" \notin failed => OutputOf(stream, Len(sent), written, flushed)
    BY OutgoingFacts
  <1>2. /\ stream.output_waiting \in Seq(Nat) /\ stream.output_writing \in Seq(Nat)
        /\ stream.output_flushed \in Nat /\ stream.output_partial \in Nat
        /\ stream.output_offset \in Nat /\ Len(stream.output_waiting) \in Nat
    BY <1>1, OutputTypes
  <1>3. stream.state = "open" /\ stream.write.result = 0 /\ stream.write # None
    BY <1>1, OperationFacts DEF OperationsOf
  <1>4. LiveOf(stream) /\ orphan.data = <<>>
    BY <1>3, OutgoingFacts DEF LiveOf
  <1>5. stream.output_offset = Len(sent)
    BY <1>1, <1>2, <1>3, <1>4 DEF Positive
  <1> DEFINE output == Rest(stream.output_writing, stream.output_partial)
             left == written - Len(stream.output_waiting)
             start == Len(sent) - stream.output_partial
  <1>6. output \in Seq(Nat)
    BY <1>2, CutFacts
  <1>7. ASSUME "send" \notin failed
        PROVE  /\ left \in Nat /\ Len(sent) <= left /\ left <= flushed
               /\ output = Bytes(Len(sent), left)
               /\ 0 <= start /\ stream.output_writing = Bytes(start, left)
    <2>1. /\ flushed = left + stream.output_flushed
          /\ 0 <= Len(sent) - stream.output_partial - 0 /\ Len(sent) <= left
          /\ stream.output_writing = Bytes(Len(sent) - stream.output_partial - 0, left)
      BY <1>1, <1>3, <1>4, <1>7 DEF OutputOf
    <2>2. Len(sent) - stream.output_partial - 0 = start
      BY <1>1, <1>2
    <2>3. left \in Nat /\ left <= flushed
      BY <1>1, <1>2, <2>1, SMTT(60)
    <2>4. /\ 0 <= start /\ start \in Nat /\ start <= left /\ stream.output_partial <= left - start
          /\ start + stream.output_partial = Len(sent)
      BY <1>1, <1>2, <2>1, <2>3, SMTT(60)
    <2>5. stream.output_writing = Bytes(start, left)
      BY <2>1, <2>2
    <2> HIDE DEF start, left
    <2>6. Rest(Bytes(start, left), stream.output_partial)
            = Bytes(start + stream.output_partial, left)
      BY <1>2, <2>3, <2>4, BytesRest
    <2>7. output = Bytes(Len(sent), left)
      BY <2>4, <2>5, <2>6
    <2> QED BY <2>1, <2>3, <2>4, <2>5, <2>7
  <1> QED BY <1>3, <1>4, <1>5, <1>6, <1>7

\* What stream_close() and stream_destruct() leave for the kernel to send.
LEMMA ClosingInv ==
  ASSUME Inv, orphan' = Orphan, stream' \in StreamType, OperationsOf(stream'),
         stream'.state \in {"closed", "destructed"},
         UNCHANGED <<callback, sent, arrived, failed, written, flushed, consumed>>
  PROVE  Inv'
  <1>1. /\ stream \in StreamType /\ OperationsOf(stream) /\ flushed \in Nat /\ consumed \in Nat
        /\ written \in Nat /\ arrived \in Nat /\ flushed <= written /\ Len(sent) \in Nat
        /\ LiveOf(stream) => /\ Len(sent) = stream.output_offset + Positive(stream.write.result)
                             /\ InputOf(stream, arrived, consumed)
                             /\ "send" \notin failed => OutputOf(stream, Len(sent), written, flushed)
    BY OutgoingFacts
  <1>2. ~ Live'
    BY DEF Live
  <1>3. /\ orphan \in [data : Seq(Nat), offset : Nat] /\ sent \in Seq(Nat)
    BY OutgoingFacts
  <1>4. /\ orphan' \in [data : Seq(Nat), offset : Nat]
        /\ orphan'.data # <<>> => orphan'.offset = Len(sent)
        /\ "send" \notin failed =>
             /\ orphan'.data = Bytes(Len(sent), Len(sent) + Len(orphan'.data))
             /\ Len(sent) + Len(orphan'.data) <= flushed
    <2>1. CASE stream.write.state # "flying"
      <3>1. orphan' = orphan
        BY <2>1 DEF Orphan
      <3> QED BY <1>3, <3>1 DEF Inv, Outgoing
    <2>2. CASE stream.write.state = "flying"
      <3> DEFINE output == Rest(stream.output_writing, stream.output_partial)
                 left == written - Len(stream.output_waiting)
      <3>1. orphan' = [data |-> output, offset |-> stream.output_offset]
        BY <2>2 DEF Orphan
      <3>2. /\ stream.output_offset = Len(sent) /\ output \in Seq(Nat)
            /\ "send" \notin failed => /\ left \in Nat /\ Len(sent) <= left /\ left <= flushed
                                       /\ output = Bytes(Len(sent), left)
        BY <2>2, InFlight
      <3> HIDE DEF output, left
      <3>3. orphan'.data = output /\ orphan'.offset = Len(sent)
        BY <3>1, <3>2
      <3>4. orphan' \in [data : Seq(Nat), offset : Nat]
        BY <1>1, <3>1, <3>2
      <3>5. ASSUME "send" \notin failed
            PROVE  /\ output = Bytes(Len(sent), Len(sent) + Len(output))
                   /\ Len(sent) + Len(output) <= flushed
        <4>1. Len(output) = left - Len(sent)
          BY <1>1, <3>2, <3>5, BytesFacts
        <4>2. Len(sent) + Len(output) = left
          BY <1>1, <3>2, <3>5, <4>1
        <4> QED BY <3>2, <3>5, <4>2
      <3> QED BY <3>3, <3>4, <3>5
    <2> QED BY <2>1, <2>2
  <1>5. TypeOK'
    BY <1>1, <1>4 DEF Inv, TypeOK
  <1>6. Outgoing'
    <2>1. "send" \notin failed => sent = Bytes(0, Len(sent))
      BY DEF Inv, Outgoing
    <2> QED BY <1>1, <1>2, <1>4, <2>1 DEF Outgoing
  <1>7. Incoming'
    BY <1>2 DEF Incoming
  <1>8. OperationsOf(stream)'
    BY DEF OperationsOf
  <1> QED BY <1>5, <1>6, <1>7, <1>8 DEF Inv

\* stream_close()
LEMMA CloseInv ==
  ASSUME Inv, Close
  PROVE  Inv'
  <1>1. /\ stream \in StreamType /\ OperationsOf(stream) /\ flushed \in Nat /\ consumed \in Nat
        /\ written \in Nat /\ arrived \in Nat /\ flushed <= written /\ Len(sent) \in Nat
        /\ LiveOf(stream) => /\ Len(sent) = stream.output_offset + Positive(stream.write.result)
                             /\ InputOf(stream, arrived, consumed)
                             /\ "send" \notin failed => OutputOf(stream, Len(sent), written, flushed)
    BY OutgoingFacts
  <1> DEFINE s == Closed(stream)
  <1>2. /\ s \in StreamType /\ s.state = "closed" /\ s.read = None /\ s.write = None
        /\ s.output_waiting = stream.output_waiting /\ s.output_flushed = stream.output_flushed
    BY <1>1, ClosedFacts
  <1>3. stream' = s /\ stream.state = "open"
    BY DEF Close
  <1> HIDE DEF s
  <1>4. OperationsOf(s)
    BY <1>1, <1>2, <1>3, OperationFacts DEF OperationsOf
  <1> QED BY <1>2, <1>3, <1>4, ClosingInv DEF Close

\* stream_destruct()
LEMMA DestructInv ==
  ASSUME Inv, Destruct
  PROVE  Inv'
  <1>1. /\ stream \in StreamType /\ OperationsOf(stream) /\ flushed \in Nat /\ consumed \in Nat
        /\ written \in Nat /\ arrived \in Nat /\ flushed <= written /\ Len(sent) \in Nat
        /\ LiveOf(stream) => /\ Len(sent) = stream.output_offset + Positive(stream.write.result)
                             /\ InputOf(stream, arrived, consumed)
                             /\ "send" \notin failed => OutputOf(stream, Len(sent), written, flushed)
    BY OutgoingFacts
  <1> DEFINE s == [Closed(stream) EXCEPT !.state = "destructed",
                                         !.abort = IF @ = "live" THEN "true" ELSE @,
                                         !.input = <<>>, !.output_writing = <<>>,
                                         !.output_waiting = <<>>]
  <1>2. /\ s \in StreamType /\ s.state = "destructed" /\ s.abort # "live" /\ s.read = None
        /\ s.write = None
    BY <1>1, DestructFacts
  <1>3. stream' = s
    BY DEF Destruct
  <1> HIDE DEF s
  <1>4. OperationsOf(s)
    BY <1>2, OperationFacts DEF OperationsOf
  <1> QED BY <1>2, <1>3, <1>4, ClosingInv DEF Destruct

\* A read in flight takes its bytes behind the input.
LEMMA ReadInFlight ==
  ASSUME Inv, stream.read.state = "flying"
  PROVE  /\ stream.state = "open" /\ stream.input_offset = arrived
         /\ InputOf(stream, arrived, consumed)
         /\ (consumed - stream.input_consumed) + Len(stream.input) = arrived
  <1>1. /\ stream \in StreamType /\ OperationsOf(stream) /\ consumed \in Nat /\ arrived \in Nat
        /\ LiveOf(stream) => InputOf(stream, arrived, consumed)
    BY OutgoingFacts
  <1>2. stream.state = "open" /\ stream.read.data = <<>>
    BY <1>1, OperationFacts DEF OperationsOf
  <1>3. InputOf(stream, arrived, consumed)
    BY <1>1, <1>2 DEF LiveOf
  <1>4. /\ stream.input_consumed \in Nat /\ Len(stream.input) \in Nat
    BY <1>1, InputTypes
  <1> DEFINE end == (consumed - stream.input_consumed) + Len(stream.input)
  <1>5. /\ stream.input_consumed <= consumed /\ stream.input_offset = end
        /\ end <= arrived /\ stream.read.data = Bytes(end, arrived)
    BY <1>3 DEF InputOf
  <1>6. end \in Nat
    BY <1>1, <1>4, <1>5
  <1> HIDE DEF end
  <1>7. end = arrived
    BY <1>1, <1>2, <1>5, <1>6, EmptyBytes
  <1> QED BY <1>2, <1>3, <1>5, <1>7 DEF end

\* A read ends.
LEMMA ReadEndedInv ==
  ASSUME Inv, stream.read.state = "flying", NEW r \in Int, NEW d \in Seq(Nat),
         stream' = [stream EXCEPT !.read = Ended(r, d)],
         r > 0 => r = Len(d), r <= 0 => d = <<>>,
         arrived' \in Nat, arrived <= arrived', d = Bytes(arrived, arrived'),
         failed' \in {failed, failed \cup {"recv"}},
         UNCHANGED <<callback, orphan, sent, written, flushed, consumed>>
  PROVE  Inv'
  <1> DEFINE o == Ended(r, d)
             s == [stream EXCEPT !.read = o]
  <1>1. /\ stream \in StreamType /\ OperationsOf(stream) /\ flushed \in Nat /\ consumed \in Nat
        /\ written \in Nat /\ arrived \in Nat /\ flushed <= written /\ Len(sent) \in Nat
    BY OutgoingFacts
  <1>2. o \in OperationType /\ o.state = "ended" /\ o.result = r /\ o.data = d /\ o # None
    BY EndedFacts
  <1>3. stream' = s
    OBVIOUS
  <1> HIDE DEF o
  <1>4. /\ s \in StreamType
        /\ s.state = stream.state /\ s.type = stream.type /\ s.flags = stream.flags
        /\ s.abort = stream.abort /\ s.read = o
        /\ s.input_offset = stream.input_offset /\ s.input = stream.input
        /\ s.input_consumed = stream.input_consumed /\ s.write = stream.write
        /\ s.output_offset = stream.output_offset /\ s.output_partial = stream.output_partial
        /\ s.output_writing = stream.output_writing /\ s.output_waiting = stream.output_waiting
        /\ s.output_flushed = stream.output_flushed
    BY <1>1, <1>2, ReadFacts
  <1> HIDE DEF s
  <1>5. /\ stream.state = "open" /\ stream.input_offset = arrived
        /\ InputOf(stream, arrived, consumed)
        /\ (consumed - stream.input_consumed) + Len(stream.input) = arrived
    BY ReadInFlight
  <1>6. OperationsOf(s)
    BY <1>1, <1>2, <1>4, <1>5 DEF OperationsOf
  <1>7. InputOf(s, arrived', consumed)
    <2> DEFINE e == (consumed - stream.input_consumed) + Len(stream.input)
    <2>1. /\ stream.input_consumed <= consumed /\ stream.input_consumed <= Len(stream.input)
          /\ stream.input = Bytes(consumed - stream.input_consumed, e)
          /\ stream.input_offset = e
      BY <1>5 DEF InputOf
    <2>2. e <= arrived' /\ o.data = Bytes(e, arrived')
      BY <1>2, <1>5
    <2> QED BY <1>4, <2>1, <2>2 DEF InputOf
  <1>8. TypeOK'
    BY <1>1, <1>3, <1>4 DEF Inv, TypeOK
  <1>9. Outgoing'
    <2>1. Live /\ Live'
      BY <1>3, <1>4, <1>5 DEF Live
    <2>2. "send" \notin failed' => OutputOf(stream', Len(sent), written, flushed)
      <3>1. "send" \notin failed' => OutputOf(stream, Len(sent), written, flushed)
        BY <2>1 DEF Inv, Outgoing
      <3> QED BY <1>3, <1>4, <3>1 DEF OutputOf
    <2>3. /\ stream'.output_offset = stream.output_offset
          /\ stream'.write = stream.write /\ "send" \notin failed' => "send" \notin failed
      BY <1>3, <1>4
    <2> QED BY <2>1, <2>2, <2>3 DEF Inv, Outgoing
  <1>10. Incoming'
    BY <1>3, <1>7 DEF Incoming
  <1>11. OperationsOf(stream)'
    BY <1>3, <1>6 DEF OperationsOf
  <1> QED BY <1>8, <1>9, <1>10, <1>11 DEF Inv

\* The kernel reads.
LEMMA KernelRecvInv ==
  ASSUME Inv, NEW m \in 1 .. MaxIn, KernelRecv(m)
  PROVE  Inv'
  <1>1. arrived \in Nat
    BY OutgoingFacts
  <1>2. stream.read.state = "flying"
    BY DEF KernelRecv
  <1>3. stream.input_offset = arrived
    BY <1>2, ReadInFlight
  <1>4. /\ stream' = [stream EXCEPT !.read = Ended(m, Bytes(arrived, arrived + m))]
        /\ arrived' = arrived + m
        /\ UNCHANGED <<callback, orphan, sent, failed, written, flushed, consumed>>
    BY <1>3 DEF KernelRecv
  <1>5. m \in Nat /\ m > 0
    BY StreamAssumption
  <1> DEFINE e == arrived + m
             d == Bytes(arrived, e)
  <1>6. e \in Nat /\ arrived <= e /\ e - arrived = m
    BY <1>1, <1>5
  <1> HIDE DEF e
  <1>7. d \in Seq(Nat) /\ Len(d) = m
    BY <1>1, <1>6, BytesFacts
  <1>8. d = Bytes(arrived, arrived') /\ stream' = [stream EXCEPT !.read = Ended(m, d)]
    BY <1>4 DEF e
  <1> HIDE DEF d
  <1>9. arrived' \in Nat /\ arrived <= arrived'
    BY <1>4, <1>6 DEF e
  <1> QED BY <1>2, <1>4, <1>5, <1>7, <1>8, <1>9, ReadEndedInv

\* The peer closes, or the read fails.
LEMMA KernelRecvEndInv ==
  ASSUME Inv, NEW result \in {0, -1}, KernelRecvEnd(result)
  PROVE  Inv'
  <1>1. arrived \in Nat /\ arrived <= arrived
    BY OutgoingFacts
  <1> DEFINE d == <<>>
  <1>2. d = Bytes(arrived, arrived) /\ d \in Seq(Nat) /\ d = <<>>
    BY <1>1, BytesEmpty
  <1>3. /\ stream.read.state = "flying" /\ stream' = [stream EXCEPT !.read = Ended(result, d)]
        /\ failed' = failed \cup {"recv"}
        /\ UNCHANGED <<callback, orphan, sent, arrived, written, flushed, consumed>>
    BY DEF KernelRecvEnd
  <1> HIDE DEF d
  <1>4. result \in Int /\ result <= 0 /\ ~ (result > 0)
    OBVIOUS
  <1> QED BY <1>1, <1>2, <1>3, <1>4, ReadEndedInv

\* A send that starts where the file ends adds to its end, as it does on a socket.
LEMMA TakenFacts ==
  ASSUME sent \in Seq(Nat), NEW d \in Seq(Nat)
  PROVE  /\ Taken(d, Len(sent)) = sent \o d
         /\ sent \o d \in Seq(Nat) /\ Len(sent \o d) = Len(sent) + Len(d)
  <1>1. First(sent, Len(sent)) = sent
    BY CutFacts
  <1>2. Rest(sent, Len(sent) + Len(d)) = <<>>
    <2>1. Len(sent) + Len(d) \in Nat /\ Len(sent) + Len(d) >= Len(sent)
      OBVIOUS
    <2> QED BY <2>1, CutFacts
  <1>3. sent \o d \in Seq(Nat) /\ Len(sent \o d) = Len(sent) + Len(d)
    OBVIOUS
  <1>4. (sent \o d) \o <<>> = sent \o d
    <2> DEFINE e == sent \o d
    <2>1. e \in Seq(Nat)
      BY <1>3
    <2> HIDE DEF e
    <2>2. e \o <<>> = e
      BY <2>1
    <2> QED BY <2>2 DEF e
  <1> QED BY <1>1, <1>2, <1>3, <1>4 DEF Taken

\* What is sent next, of a run of bytes that begins behind what was sent.
LEMMA SentNext ==
  ASSUME sent \in Seq(Nat), sent = Bytes(0, Len(sent)), NEW end \in Nat, Len(sent) <= end,
         NEW m \in Nat, m <= end - Len(sent)
  PROVE  sent \o First(Bytes(Len(sent), end), m) = Bytes(0, Len(sent) + m)
  <1> DEFINE n == Len(sent)
  <1>1. n \in Nat /\ n <= end /\ m <= end - n /\ n + m \in Nat /\ n <= n + m /\ 0 <= n
    OBVIOUS
  <1>2. sent = Bytes(0, n)
    OBVIOUS
  <1> HIDE DEF n
  <1>3. First(Bytes(n, end), m) = Bytes(n, n + m)
    BY <1>1, BytesFirst
  <1>4. Bytes(0, n) \o Bytes(n, n + m) = Bytes(0, n + m)
    BY <1>1, BytesJoin
  <1>5. sent \o First(Bytes(n, end), m) = Bytes(0, n + m)
    BY <1>2, <1>3, <1>4
  <1> QED BY <1>5 DEF n

\* The kernel sends, all or the first bytes of what it was given.
LEMMA KernelSendInv ==
  ASSUME Inv, NEW m \in 1 .. MaxOut, KernelSend(m)
  PROVE  Inv'
  <1> DEFINE output == Rest(stream.output_writing, stream.output_partial)
             left == written - Len(stream.output_waiting)
             n == Len(sent)
             start == n - stream.output_partial
             d == First(output, m)
             o == Ended(m, <<>>)
             s == [stream EXCEPT !.write = o]
  <1>1. /\ stream \in StreamType /\ OperationsOf(stream) /\ flushed \in Nat /\ consumed \in Nat
        /\ written \in Nat /\ arrived \in Nat /\ flushed <= written /\ n \in Nat
        /\ sent \in Seq(Nat) /\ orphan \in [data : Seq(Nat), offset : Nat]
    BY OutgoingFacts
  <1>2. /\ stream.write.state = "flying" /\ m <= Len(output) /\ stream' = s
        /\ sent' = Taken(d, stream.output_offset)
        /\ UNCHANGED <<callback, orphan, arrived, failed, written, flushed, consumed>>
    BY DEF KernelSend
  <1>3. m \in Nat /\ m > 0
    BY StreamAssumption
  <1>4. o \in OperationType /\ o.state = "ended" /\ o.result = m /\ o.data = <<>> /\ o # None
    <2> DEFINE e == <<>>
    <2>1. e \in Seq(Nat) /\ m \in Int
      BY <1>3
    <2>2. o = Ended(m, e) /\ e = <<>>
      OBVIOUS
    <2> HIDE DEF e, o
    <2> QED BY <2>1, <2>2, EndedFacts
  <1> HIDE DEF o
  <1>5. /\ s \in StreamType
        /\ s.state = stream.state /\ s.type = stream.type /\ s.flags = stream.flags
        /\ s.abort = stream.abort /\ s.read = stream.read
        /\ s.input_offset = stream.input_offset /\ s.input = stream.input
        /\ s.input_consumed = stream.input_consumed /\ s.write = o
        /\ s.output_offset = stream.output_offset /\ s.output_partial = stream.output_partial
        /\ s.output_writing = stream.output_writing /\ s.output_waiting = stream.output_waiting
        /\ s.output_flushed = stream.output_flushed
    BY <1>1, <1>4, WriteFacts
  <1> HIDE DEF s
  <1>6. /\ stream.state = "open" /\ orphan.data = <<>> /\ stream.output_offset = n
        /\ output \in Seq(Nat)
        /\ "send" \notin failed =>
             /\ left \in Nat /\ n <= left /\ left <= flushed /\ output = Bytes(n, left)
             /\ 0 <= start /\ stream.output_writing = Bytes(start, left)
    BY <1>2, InFlight
  <1>7. d \in Seq(Nat) /\ Len(d) = m
    <2>1. output \in Seq(Nat) /\ m \in Nat /\ m <= Len(output)
      BY <1>2, <1>3, <1>6
    <2> HIDE DEF output
    <2> QED BY <2>1, CutFacts
  <1>8. sent' = sent \o d /\ sent' \in Seq(Nat) /\ Len(sent') = n + m
    <2> HIDE DEF d
    <2> QED BY <1>1, <1>2, <1>6, <1>7, TakenFacts
  <1>9. OperationsOf(s)
    BY <1>1, <1>3, <1>4, <1>5, <1>6 DEF OperationsOf
  <1>10. ASSUME "send" \notin failed
         PROVE  /\ sent' = Bytes(0, n + m) /\ n + m <= flushed
                /\ OutputOf(s, n + m, written, flushed)
    <2>1. left \in Nat /\ n <= left /\ left <= flushed /\ output = Bytes(n, left)
          /\ 0 <= start /\ stream.output_writing = Bytes(start, left)
      BY <1>6, <1>10
    <2>2. sent = Bytes(0, n)
      BY <1>10 DEF Inv, Outgoing
    <2>3. OutputOf(stream, n, written, flushed)
      BY <1>6, <1>10, OutgoingFacts DEF LiveOf
    <2>4. stream.output_waiting = Bytes(left, written) /\ flushed = left + stream.output_flushed
      BY <2>3 DEF OutputOf
    <2>5. stream.output_partial \in Nat
      BY <1>1, OutputTypes
    <2>6. m <= left - n
      <3>1. Len(Bytes(n, left)) = left - n
        <4> HIDE DEF left, n
        <4> QED BY <1>1, <2>1, BytesFacts
      <3> HIDE DEF output, left, n
      <3> QED BY <1>2, <2>1, <3>1
    <2>7. sent' = Bytes(0, n + m)
      <3> HIDE DEF output, left
      <3> QED BY <1>1, <1>3, <1>8, <2>1, <2>2, <2>6, SentNext
    <2> DEFINE k == n + m
    <2>8. k <= left /\ k <= flushed /\ (k - stream.output_partial) - m = start
      <3>1. start = n - stream.output_partial
        OBVIOUS
      <3> HIDE DEF left, n, start
      <3> QED BY <1>1, <1>3, <2>1, <2>5, <2>6, <3>1
    <2>9. OutputOf(s, k, written, flushed)
      <3>1. written - Len(s.output_waiting) = left
        BY <1>5
      <3>2. k - s.output_partial - s.write.result = start
        BY <1>4, <1>5, <2>8
      <3>3. s.output_waiting = Bytes(left, written) /\ flushed = left + s.output_flushed
        BY <1>5, <2>4
      <3>4. /\ s.write.result >= 0 /\ s.write.result > 0 /\ s.write # None
            /\ s.output_writing = Bytes(start, left)
        BY <1>3, <1>4, <1>5, <2>1
      <3> HIDE DEF left, start, k
      <3> QED BY <2>1, <2>8, <3>1, <3>2, <3>3, <3>4, Zenon DEF OutputOf
    <2> QED BY <2>7, <2>8, <2>9
  <1>11. TypeOK'
    BY <1>1, <1>2, <1>5, <1>8 DEF Inv, TypeOK
  <1>12. Outgoing'
    <2>1. Live'
      BY <1>2, <1>5, <1>6 DEF Live
    <2>2. /\ orphan'.data = <<>> /\ Len(orphan'.data) = 0
          /\ Len(sent') = stream'.output_offset
                            + (IF stream'.write.result > 0 THEN stream'.write.result ELSE 0)
      BY <1>2, <1>3, <1>4, <1>5, <1>6, <1>8
    <2>3. ASSUME "send" \notin failed'
          PROVE  /\ sent' = Bytes(0, Len(sent'))
                 /\ orphan'.data = Bytes(Len(sent'), Len(sent') + Len(orphan'.data))
                 /\ Len(sent') + Len(orphan'.data) <= flushed'
                 /\ OutputOf(stream', Len(sent'), written', flushed')
      <3> DEFINE k == Len(sent')
      <3>1. k = n + m /\ k \in Nat
        BY <1>1, <1>3, <1>8
      <3>2. sent' = Bytes(0, k) /\ k <= flushed /\ OutputOf(stream', k, written, flushed)
        BY <1>2, <1>10, <2>3, <3>1
      <3> HIDE DEF k
      <3>3. k + 0 = k /\ Bytes(k, k) = <<>>
        BY <3>1, BytesEmpty
      <3>4. /\ orphan'.data = Bytes(k, k + Len(orphan'.data))
            /\ k + Len(orphan'.data) <= flushed
        BY <2>2, <3>2, <3>3
      <3> QED BY <1>2, <3>2, <3>4 DEF k
    <2>4. flushed' <= written'
      BY <1>1, <1>2
    <2> QED BY <2>1, <2>2, <2>3, <2>4, Zenon DEF Outgoing
  <1>13. Incoming'
    <2>1. InputOf(stream, arrived, consumed)
      BY <1>6, OutgoingFacts DEF LiveOf
    <2>2. InputOf(s, arrived, consumed)
      BY <1>5, <2>1 DEF InputOf
    <2> QED BY <1>2, <2>2 DEF Incoming
  <1>14. OperationsOf(stream)'
    BY <1>2, <1>9 DEF OperationsOf
  <1> QED BY <1>11, <1>12, <1>13, <1>14 DEF Inv

\* A send fails.
LEMMA KernelSendFailInv ==
  ASSUME Inv, KernelSendFail
  PROVE  Inv'
  <1> DEFINE o == Ended(-1, <<>>)
             s == [stream EXCEPT !.write = o]
  <1>1. /\ stream \in StreamType /\ OperationsOf(stream) /\ flushed \in Nat /\ consumed \in Nat
        /\ written \in Nat /\ arrived \in Nat /\ flushed <= written /\ Len(sent) \in Nat
        /\ sent \in Seq(Nat) /\ orphan \in [data : Seq(Nat), offset : Nat]
    BY OutgoingFacts
  <1>2. /\ stream.write.state = "flying" /\ stream' = s /\ failed' = failed \cup {"send"}
        /\ UNCHANGED <<callback, orphan, sent, arrived, written, flushed, consumed>>
    BY DEF KernelSendFail
  <1>3. o \in OperationType /\ o.state = "ended" /\ o.result = -1 /\ o.data = <<>> /\ o # None
    <2> DEFINE e == <<>>
               r == -1
    <2>1. e \in Seq(Nat) /\ r \in Int
      OBVIOUS
    <2>2. o = Ended(r, e) /\ e = <<>> /\ r = -1
      OBVIOUS
    <2> HIDE DEF e, r, o
    <2> QED BY <2>1, <2>2, EndedFacts
  <1> HIDE DEF o
  <1>4. /\ s \in StreamType
        /\ s.state = stream.state /\ s.type = stream.type /\ s.flags = stream.flags
        /\ s.abort = stream.abort /\ s.read = stream.read
        /\ s.input_offset = stream.input_offset /\ s.input = stream.input
        /\ s.input_consumed = stream.input_consumed /\ s.write = o
        /\ s.output_offset = stream.output_offset /\ s.output_partial = stream.output_partial
        /\ s.output_writing = stream.output_writing /\ s.output_waiting = stream.output_waiting
        /\ s.output_flushed = stream.output_flushed
    BY <1>1, <1>3, WriteFacts
  <1> HIDE DEF s
  <1>5. stream.state = "open" /\ orphan.data = <<>> /\ stream.output_offset = Len(sent)
    BY <1>2, InFlight
  <1>6. OperationsOf(s)
    BY <1>1, <1>3, <1>4, <1>5 DEF OperationsOf
  <1>7. TypeOK'
    BY <1>1, <1>2, <1>4 DEF Inv, TypeOK
  <1>8. Outgoing'
    <2>1. "send" \in failed' /\ orphan'.data = <<>> /\ flushed' <= written'
      BY <1>1, <1>2, <1>5
    <2>2. /\ stream'.write.result = -1 /\ stream'.output_offset = Len(sent')
      BY <1>2, <1>3, <1>4, <1>5
    <2>3. Len(sent') = stream'.output_offset
                         + (IF stream'.write.result > 0 THEN stream'.write.result ELSE 0)
      BY <1>1, <1>2, <2>2
    <2> QED BY <2>1, <2>3, Zenon DEF Outgoing
  <1>9. Incoming'
    <2>1. InputOf(stream, arrived, consumed)
      BY <1>5, OutgoingFacts DEF LiveOf
    <2>2. InputOf(s, arrived, consumed)
      BY <1>4, <2>1 DEF InputOf
    <2> QED BY <1>2, <2>2 DEF Incoming
  <1>10. OperationsOf(stream)'
    BY <1>2, <1>6 DEF OperationsOf
  <1> QED BY <1>7, <1>8, <1>9, <1>10 DEF Inv

\* A cancelled send takes place after all.
LEMMA OrphanSendInv ==
  ASSUME Inv, NEW m \in 1 .. MaxOut, OrphanSend(m)
  PROVE  Inv'
  <1> DEFINE data == orphan.data
             n == Len(sent)
             end == n + Len(data)
             d == First(data, m)
  <1>1. /\ flushed \in Nat /\ flushed <= written /\ written \in Nat /\ n \in Nat
        /\ sent \in Seq(Nat) /\ orphan \in [data : Seq(Nat), offset : Nat]
        /\ data \in Seq(Nat) /\ Len(data) \in Nat
    BY OutgoingFacts
  <1>2. /\ m <= Len(data) /\ sent' = Taken(d, orphan.offset)
        /\ orphan' = [orphan EXCEPT !.data = <<>>]
        /\ UNCHANGED <<stream, callback, arrived, failed, written, flushed, consumed>>
    BY DEF OrphanSend
  <1>3. m \in Nat /\ m > 0
    BY StreamAssumption
  <1>4. data # <<>>
    BY <1>1, <1>2, <1>3
  <1>5. ~ Live /\ orphan.offset = n
    BY <1>4 DEF Inv, Outgoing
  <1>6. d \in Seq(Nat) /\ Len(d) = m
    <2> HIDE DEF data
    <2> QED BY <1>1, <1>2, <1>3, CutFacts
  <1>7. sent' = sent \o d /\ sent' \in Seq(Nat) /\ Len(sent') = n + m
    <2> HIDE DEF d
    <2> QED BY <1>1, <1>2, <1>5, <1>6, TakenFacts
  <1>8. /\ orphan' \in [data : Seq(Nat), offset : Nat] /\ orphan'.data = <<>>
        /\ Len(orphan'.data) = 0
    <2> DEFINE e == <<>>
    <2>1. e \in Seq(Nat) /\ orphan' = [orphan EXCEPT !.data = e] /\ e = <<>> /\ Len(e) = 0
      BY <1>2
    <2> HIDE DEF e
    <2> QED BY <1>1, <2>1
  <1>9. ASSUME "send" \notin failed
        PROVE  sent' = Bytes(0, n + m) /\ n + m <= flushed
    <2>1. data = Bytes(n, end) /\ end <= flushed /\ sent = Bytes(0, n)
      BY <1>9 DEF Inv, Outgoing
    <2>2. end \in Nat /\ n <= end /\ m <= end - n /\ n + m <= end
      <3> HIDE DEF data, n
      <3> QED BY <1>1, <1>2, <1>3
    <2>3. n + m <= flushed
      <3> HIDE DEF end, n
      <3> QED BY <1>1, <1>3, <2>1, <2>2
    <2>4. sent' = Bytes(0, n + m)
      <3> HIDE DEF data, end
      <3> QED BY <1>1, <1>3, <1>7, <2>1, <2>2, SentNext
    <2> QED BY <2>3, <2>4
  <1>10. TypeOK'
    BY <1>1, <1>2, <1>7, <1>8 DEF Inv, TypeOK
  <1>11. Outgoing'
    <2> DEFINE k == Len(sent')
    <2>1. k = n + m /\ k \in Nat
      BY <1>1, <1>3, <1>7
    <2>2. ~ Live'
      BY <1>2, <1>5 DEF Live
    <2>3. ASSUME "send" \notin failed'
          PROVE  /\ sent' = Bytes(0, k) /\ k + Len(orphan'.data) <= flushed'
                 /\ orphan'.data = Bytes(k, k + Len(orphan'.data))
      <3>1. sent' = Bytes(0, k) /\ k <= flushed'
        BY <1>2, <1>9, <2>1, <2>3
      <3> HIDE DEF k
      <3>2. k + 0 = k /\ Bytes(k, k) = <<>>
        BY <2>1, BytesEmpty
      <3> QED BY <1>8, <3>1, <3>2
    <2>4. flushed' <= written'
      BY <1>1, <1>2
    <2> QED BY <1>8, <2>2, <2>3, <2>4, Zenon DEF Outgoing
  <1>12. Incoming'
    BY <1>2, <1>5 DEF Incoming, Live
  <1>13. OperationsOf(stream)'
    BY <1>2 DEF Inv, OperationsOf
  <1> QED BY <1>10, <1>11, <1>12, <1>13 DEF Inv

\* Every step keeps the invariant.
LEMMA NextInv == Inv /\ [Next]_vars => Inv'
  <1> SUFFICES ASSUME Inv, [Next]_vars PROVE Inv'
    OBVIOUS
  <1>1. ASSUME NEW type \in {"socket", "file"}, NEW flags \in SUBSET {"STREAM_WRITE_ONLY"},
               Open(type, flags)
        PROVE  Inv'
    BY <1>1, OpenInv
  <1>2. CASE Write
    BY <1>2, WriteInv
  <1>3. CASE Flush
    BY <1>3, FlushInv
  <1>4. CASE Consume
    BY <1>4, ConsumeInv
  <1>5. CASE Close
    BY <1>5, CloseInv
  <1>6. CASE Destruct
    BY <1>6, DestructInv
  <1>7. CASE Recv
    BY <1>7, RecvInv
  <1>8. CASE Return
    BY <1>8, ReturnInv
  <1>9. CASE Send
    BY <1>9, SendInv
  <1>10. ASSUME NEW m \in 1 .. MaxIn, KernelRecv(m) PROVE Inv'
    BY <1>10, KernelRecvInv
  <1>11. ASSUME NEW result \in {0, -1}, KernelRecvEnd(result) PROVE Inv'
    BY <1>11, KernelRecvEndInv
  <1>12. ASSUME NEW m \in 1 .. MaxOut, KernelSend(m) PROVE Inv'
    BY <1>12, KernelSendInv
  <1>13. ASSUME NEW m \in 1 .. MaxOut, OrphanSend(m) PROVE Inv'
    BY <1>13, OrphanSendInv
  <1>14. CASE KernelSendFail
    BY <1>14, KernelSendFailInv
  <1>15. CASE UNCHANGED vars
    BY <1>15 DEF Inv, TypeOK, OperationsOf, Outgoing, Incoming, Live, OutputOf, InputOf, vars
  <1> QED BY <1>1, <1>2, <1>3, <1>4, <1>5, <1>6, <1>7, <1>8, <1>9, <1>10, <1>11, <1>12, <1>13,
             <1>14, <1>15 DEF Next, Client, Kernel

\* The invariant holds of stream.c for any number of bytes written and read.
THEOREM Invariance == Spec => []Inv
  <1>1. Init => Inv
    BY InitInv
  <1>2. Inv /\ [Next]_vars => Inv'
    BY NextInv
  <1> QED BY <1>1, <1>2, PTL DEF Spec

-----------------------------------------------------------------------------
(* The properties *)

\* Until a send fails, stream_send() and stream_update() have sent the first of the
\* bytes that were flushed, and the others follow in order.
THEOREM SendsExactly == Spec => []OutputExact
  <1>1. ASSUME Inv PROVE OutputExact
    <2> SUFFICES ASSUME "send" \notin failed
                 PROVE  /\ sent = Bytes(0, Len(sent)) /\ Len(sent) <= flushed
                        /\ Live => sent \o Unsent \o stream.output_waiting = Bytes(0, written)
      BY DEF OutputExact, Live
    <2> DEFINE n == Len(sent)
               left == written - Len(stream.output_waiting)
               moved == stream.output_partial + stream.write.result
               start == n - stream.output_partial - stream.write.result
    <2>1. /\ stream \in StreamType /\ flushed \in Nat /\ written \in Nat /\ n \in Nat
          /\ sent \in Seq(Nat) /\ Len(orphan.data) \in Nat
      BY <1>1, OutgoingFacts
    <2>2. sent = Bytes(0, n) /\ n + Len(orphan.data) <= flushed
      BY <1>1 DEF Inv, Outgoing
    <2>3. n <= flushed
      <3> HIDE DEF n
      <3> QED BY <2>1, <2>2
    <2>4. ASSUME Live PROVE sent \o Unsent \o stream.output_waiting = Bytes(0, written)
      <3>1. OutputOf(stream, n, written, flushed)
        BY <1>1, <2>4 DEF Inv, Outgoing
      <3>2. /\ stream.output_waiting = Bytes(left, written) /\ stream.write.result >= 0
            /\ IF stream.write = None /\ stream.output_partial = 0
                 THEN n = left
                 ELSE 0 <= start /\ n <= left /\ stream.output_writing = Bytes(start, left)
        BY <3>1 DEF OutputOf
      <3>3. /\ stream.output_partial \in Nat /\ stream.write.result \in Nat
            /\ Len(stream.output_waiting) \in Nat
        BY <2>1, <3>2, OutputTypes
      <3>4. n <= left
        BY <2>1, <3>2, <3>3
      <3>5. left \in Nat /\ left <= written
        BY <2>1, <3>3, <3>4
      <3>6. Unsent = Bytes(n, left)
        <4>1. CASE stream.write = None /\ stream.output_partial = 0
          <5>1. n = left /\ Unsent = <<>>
            BY <3>2, <4>1 DEF Unsent
          <5> HIDE DEF left, n
          <5> QED BY <2>1, <5>1, BytesEmpty
        <4>2. CASE ~ (stream.write = None /\ stream.output_partial = 0)
          <5>1. Unsent = Rest(Bytes(start, left), moved) /\ 0 <= start
            BY <3>2, <4>2 DEF Unsent
          <5>2. start \in Nat /\ moved \in Nat /\ start + moved = n
            <6> DEFINE p == stream.output_partial
                       r == stream.write.result
            <6>1. p \in Nat /\ r \in Nat /\ n \in Nat /\ start = n - p - r /\ moved = p + r
              BY <2>1, <3>3
            <6>2. 0 <= start
              BY <5>1
            <6> HIDE DEF n, p, r, start, moved
            <6> QED BY <6>1, <6>2
          <5> HIDE DEF start, moved, left, n
          <5>3. start <= left /\ moved <= left - start
            BY <2>1, <3>4, <3>5, <5>2
          <5>4. Rest(Bytes(start, left), moved) = Bytes(start + moved, left)
            BY <3>5, <5>2, <5>3, BytesRest
          <5> QED BY <5>1, <5>2, <5>4
        <4> QED BY <4>1, <4>2
      <3> HIDE DEF left, n
      <3>7. 0 <= n /\ 0 <= left
        BY <2>1, <3>5
      <3>8. Bytes(0, n) \o Bytes(n, left) = Bytes(0, left)
        BY <2>1, <3>4, <3>5, <3>7, BytesJoin
      <3>9. Bytes(0, left) \o Bytes(left, written) = Bytes(0, written)
        BY <2>1, <3>5, <3>7, BytesJoin
      <3> QED BY <2>2, <3>2, <3>6, <3>8, <3>9
    <2> QED BY <2>2, <2>3, <2>4
  <1> QED BY <1>1, Invariance, PTL

\* While the stream is open, what stream_read() gives and the kernel has read is all that
\* came in and was not consumed.
THEOREM ReceivesExactly == Spec => []InputExact
  <1>1. ASSUME Inv PROVE InputExact
    <2> SUFFICES ASSUME stream.state = "open"
                 PROVE  Rest(stream.input, stream.input_consumed) \o stream.read.data
                          = Bytes(consumed, arrived)
      BY DEF InputExact
    <2> DEFINE x == stream.input_consumed
               l == Len(stream.input)
               i == consumed - x
               end == i + l
    <2>1. /\ stream \in StreamType /\ consumed \in Nat /\ arrived \in Nat
          /\ InputOf(stream, arrived, consumed)
      BY <1>1, OutgoingFacts DEF LiveOf
    <2>2. x \in Nat /\ l \in Nat
      BY <2>1, InputTypes
    <2>3. /\ x <= consumed /\ x <= l /\ stream.input = Bytes(i, end)
          /\ end <= arrived /\ stream.read.data = Bytes(end, arrived)
      BY <2>1 DEF InputOf
    <2>4. /\ i \in Nat /\ end \in Nat /\ i <= end /\ x <= end - i /\ i + x = consumed
          /\ consumed <= end
      <3> HIDE DEF x, l
      <3> QED BY <2>1, <2>2, <2>3
    <2> HIDE DEF i, end, x
    <2>5. Rest(Bytes(i, end), x) = Bytes(i + x, end)
      BY <2>2, <2>4, BytesRest
    <2>6. Bytes(consumed, end) \o Bytes(end, arrived) = Bytes(consumed, arrived)
      BY <2>1, <2>3, <2>4, BytesJoin
    <2>7. Rest(stream.input, x) \o stream.read.data = Bytes(consumed, arrived)
      BY <2>3, <2>4, <2>5, <2>6
    <2> QED BY <2>7 DEF x
  <1> QED BY <1>1, Invariance, PTL

\* What a step that leaves a stream t may not do to a stream s with operations in flight.
Spares(s, t) ==
  /\ s.read.state = "flying" => t.input = IF t.read = None THEN <<>> ELSE s.input
  /\ s.write.state = "flying" =>
       t.output_writing = IF t.write = None THEN <<>> ELSE s.output_writing

\* A step that leaves alone what the kernel uses.
LEMMA SparesKept ==
  ASSUME NEW s \in StreamType, NEW t \in StreamType,
         s.read.state = "flying" => t.input = s.input /\ t.read.state # "none",
         s.write.state = "flying" => t.output_writing = s.output_writing /\ t.write.state # "none"
  PROVE  Spares(s, t)
  BY OperationFacts DEF Spares

\* stream_update() after a step that has left alone what the kernel uses.
LEMMA SparesUpdated ==
  ASSUME NEW s \in StreamType, NEW t \in StreamType, OperationsOf(t),
         t.read = s.read, t.input = s.input,
         s.write.state = "flying" => t.output_writing = s.output_writing /\ t.write = s.write
  PROVE  Spares(s, Update(t))
  <1>1. /\ Update(t) \in StreamType
        /\ t.read.state = "flying" => Update(t).input = t.input /\ Update(t).read = t.read
        /\ t.write.state = "flying" => Update(t) = t
    BY UpdateKeeps
  <1> DEFINE u == Update(t)
  <1> HIDE DEF u
  <1>2. /\ u \in StreamType
        /\ s.read.state = "flying" => u.input = s.input /\ u.read.state # "none"
        /\ s.write.state = "flying" => u.output_writing = s.output_writing /\ u.write.state # "none"
    BY <1>1 DEF u
  <1>3. Spares(s, u)
    BY <1>2, SparesKept
  <1> QED BY <1>3 DEF u

\* Nothing but stream_destruct() and a return from the callback happens to a stream that is
\* not open but the calls of the client.
LEMMA NotOpen ==
  ASSUME Inv, stream.state # "open"
  PROVE  /\ stream.read.state = "none" /\ stream.write.state = "none"
         /\ stream.state = "destructed" => stream.abort # "live"
  <1>1. OperationsOf(stream)
    BY OutgoingFacts
  <1>2. stream.read = None /\ stream.write = None
    BY <1>1 DEF OperationsOf
  <1> QED BY <1>1, <1>2, OperationFacts DEF OperationsOf

\* The steps of the client.
LEMMA ClientSpares ==
  ASSUME Inv, Client
  PROVE  Spares(stream, stream')
  <1>1. stream \in StreamType /\ OperationsOf(stream)
    BY OutgoingFacts
  <1>2. ASSUME NEW type \in {"socket", "file"}, NEW flags \in SUBSET {"STREAM_WRITE_ONLY"},
               Open(type, flags)
        PROVE  Spares(stream, stream')
    <2>1. stream.state # "open"
      BY <1>2 DEF Open
    <2> QED BY <2>1, NotOpen DEF Spares
  <1>3. CASE Write
    <2> DEFINE w == Append(stream.output_waiting, written + 1)
               s == [stream EXCEPT !.output_waiting = w]
    <2>1. stream' = s
      BY <1>3 DEF Write
    <2>2. w \in Seq(Nat)
      <3>1. stream.output_waiting \in Seq(Nat) /\ written + 1 \in Nat
        BY <1>1, OutputTypes, OutgoingFacts
      <3> QED BY <3>1
    <2> HIDE DEF w
    <2>3. /\ s \in StreamType /\ s.read = stream.read /\ s.input = stream.input
          /\ s.write = stream.write /\ s.output_writing = stream.output_writing
      BY <1>1, <2>2, WrittenFacts
    <2> HIDE DEF s
    <2>4. Spares(stream, s)
      BY <1>1, <2>3, SparesKept
    <2> QED BY <2>1, <2>4
  <1>4. CASE Flush
    <2> DEFINE n == Len(stream.output_waiting)
               s == [stream EXCEPT !.output_flushed = n]
    <2>1. stream' = Update(s)
      BY <1>4 DEF Flush
    <2>2. n \in Nat
      BY <1>1, OutputTypes
    <2> HIDE DEF n
    <2>3. /\ s \in StreamType /\ s.read = stream.read /\ s.input = stream.input
          /\ s.write = stream.write /\ s.output_writing = stream.output_writing
          /\ s.state = stream.state /\ s.abort = stream.abort
          /\ s.output_waiting = stream.output_waiting /\ s.output_flushed = n
      BY <1>1, <2>2, FlushedFacts
    <2> HIDE DEF s
    <2>4. OperationsOf(s)
      BY <1>1, <2>2, <2>3 DEF OperationsOf, n
    <2>5. Spares(stream, Update(s))
      BY <1>1, <2>3, <2>4, SparesUpdated
    <2> QED BY <2>1, <2>5
  <1>5. CASE Consume
    <2> DEFINE n == stream.input_consumed + 1
               s == [stream EXCEPT !.input_consumed = n]
    <2>1. stream' = s
      BY <1>5 DEF Consume
    <2>2. n \in Nat
      BY <1>1, InputTypes
    <2> HIDE DEF n
    <2>3. /\ s \in StreamType /\ s.read = stream.read /\ s.input = stream.input
          /\ s.write = stream.write /\ s.output_writing = stream.output_writing
      BY <1>1, <2>2, ConsumedFacts
    <2> HIDE DEF s
    <2>4. Spares(stream, s)
      BY <1>1, <2>3, SparesKept
    <2> QED BY <2>1, <2>4
  <1>6. CASE Close
    <2> DEFINE s == Closed(stream)
    <2>1. stream' = s
      BY <1>6 DEF Close
    <2>2. /\ s.read = None /\ s.write = None
          /\ stream.read # None => s.input = <<>>
          /\ stream.write # None => s.output_writing = <<>>
      BY <1>1, ClosedFacts
    <2> HIDE DEF s
    <2> QED BY <2>1, <2>2, OperationFacts DEF Spares
  <1>7. CASE Destruct
    <2> DEFINE s == [Closed(stream) EXCEPT !.state = "destructed",
                                           !.abort = IF @ = "live" THEN "true" ELSE @,
                                           !.input = <<>>, !.output_writing = <<>>,
                                           !.output_waiting = <<>>]
    <2>1. stream' = s
      BY <1>7 DEF Destruct
    <2>2. s.read = None /\ s.write = None /\ s.input = <<>> /\ s.output_writing = <<>>
      BY <1>1, DestructFacts
    <2> HIDE DEF s
    <2> QED BY <2>1, <2>2 DEF Spares
  <1> QED BY <1>2, <1>3, <1>4, <1>5, <1>6, <1>7 DEF Client

\* The steps of the loop, which calls back.
LEMMA LoopSpares ==
  ASSUME Inv, Recv \/ Return \/ Send
  PROVE  Spares(stream, stream')
  <1>1. stream \in StreamType /\ OperationsOf(stream)
    BY OutgoingFacts
  <1>2. /\ stream.output_waiting \in Seq(Nat) /\ stream.output_partial \in Nat
        /\ stream.output_offset \in Nat /\ stream.write \in OperationType
        /\ stream.write.result \in Int
        /\ stream.input \in Seq(Nat) /\ stream.input_offset \in Nat
        /\ stream.read.result \in Int /\ stream.read.data \in Seq(Nat)
        /\ None \in OperationType
    BY <1>1, OutputTypes, InputTypes, OperationFacts
  <1>3. CASE Recv
    <2>1. stream.read.state = "ended"
      BY <1>3 DEF Recv
    <2>2. stream'.write = stream.write /\ stream'.output_writing = stream.output_writing
      <3>1. CASE stream.read.result <= 0
        <4>1. stream' = [stream EXCEPT !.read = None]
          BY <1>3, <3>1 DEF Recv
        <4> QED BY <1>1, <4>1 DEF StreamType
      <3>2. CASE ~ (stream.read.result <= 0)
        <4> DEFINE offset == stream.input_offset + stream.read.result
                   input == stream.input \o stream.read.data
        <4>1. stream' = [stream EXCEPT !.read = None, !.abort = "live",
                                       !.input_offset = offset, !.input = input]
          BY <1>3, <3>2 DEF Recv
        <4> HIDE DEF offset, input
        <4> QED BY <1>1, <4>1 DEF StreamType
      <3> QED BY <3>1, <3>2
    <2>3. stream.write.state = "flying" => stream.write # None
      BY OperationFacts
    <2> QED BY <2>1, <2>2, <2>3 DEF Spares
  <1>4. CASE Return
    <2>1. CASE stream' = stream
      <3>1. Spares(stream, stream)
        BY <1>1, SparesKept
      <3> QED BY <2>1, <3>1
    <2>2. CASE stream' # stream
      <3> DEFINE s == [stream EXCEPT !.abort = "none"]
      <3>1. stream' = Update(s)
        BY <1>4, <2>2 DEF Return
      <3>2. /\ s \in StreamType /\ s.read = stream.read /\ s.input = stream.input
            /\ s.write = stream.write /\ s.output_writing = stream.output_writing
            /\ s.state = stream.state /\ s.abort = "none"
            /\ s.output_waiting = stream.output_waiting
            /\ s.output_flushed = stream.output_flushed
        BY <1>1, AbortFacts
      <3> HIDE DEF s
      <3>3. OperationsOf(s)
        BY <1>1, <3>2 DEF OperationsOf
      <3>4. Spares(stream, Update(s))
        BY <1>1, <3>2, <3>3, SparesUpdated
      <3> QED BY <3>1, <3>4
    <2> QED BY <2>1, <2>2
  <1>5. CASE Send
    <2>1. stream.write.state = "ended" /\ stream.write # None
      BY <1>5, OperationFacts DEF Send
    <2>2. stream.state = "open"
      BY <1>1, <2>1 DEF OperationsOf
    <2>3. CASE stream.write.result <= 0
      <3>1. stream' = [stream EXCEPT !.write = None]
        BY <1>5, <2>3 DEF Send
      <3>2. stream'.read = stream.read /\ stream'.input = stream.input
        BY <1>1, <3>1 DEF StreamType
      <3> QED BY <2>1, <3>2, OperationFacts DEF Spares
    <2>4. CASE ~ (stream.write.result <= 0)
      <3> DEFINE partial == stream.output_partial + stream.write.result
                 new == IF partial = Len(stream.output_writing) THEN 0 ELSE partial
                 offset == stream.output_offset + stream.write.result
                 none == None
                 s == [stream EXCEPT !.write = none, !.output_offset = offset,
                                     !.output_partial = new]
      <3>1. stream' = Update(s)
        BY <1>5, <2>4 DEF Send
      <3>2. offset \in Nat /\ new \in Nat /\ none \in OperationType
        BY <1>2, <2>4
      <3> HIDE DEF partial, new, offset, none
      <3>3. s \in StreamType
        BY <1>1, <3>2 DEF StreamType
      <3>4. /\ s.read = stream.read /\ s.input = stream.input
            /\ s.write = none /\ s.output_writing = stream.output_writing
            /\ s.state = stream.state /\ s.abort = stream.abort
            /\ s.output_waiting = stream.output_waiting
            /\ s.output_flushed = stream.output_flushed
        BY <1>1 DEF StreamType
      <3> HIDE DEF s
      <3>5. OperationsOf(s)
        <4>1. s.write.state = "none" /\ s.write.result = 0 /\ s.write.data = <<>>
          BY <3>4, OperationFacts DEF none
        <4> QED BY <1>1, <2>2, <3>4, <4>1 DEF OperationsOf
      <3>6. Spares(stream, Update(s))
        BY <1>1, <2>1, <3>3, <3>4, <3>5, SparesUpdated
      <3> QED BY <3>1, <3>6
    <2> QED BY <2>3, <2>4
  <1> QED BY <1>3, <1>4, <1>5

\* The steps of the kernel end an operation.
LEMMA KernelSpares ==
  ASSUME Inv, Kernel
  PROVE  Spares(stream, stream')
  <1>1. stream \in StreamType /\ OperationsOf(stream)
    BY OutgoingFacts
  <1>2. \A r, d : Ended(r, d).state = "ended"
    BY DEF Ended
  <1>3. ASSUME NEW r, NEW d, stream' = [stream EXCEPT !.read = Ended(r, d)]
        PROVE  Spares(stream, stream')
    <2>1. /\ stream'.read = Ended(r, d) /\ stream'.input = stream.input
          /\ stream'.write = stream.write /\ stream'.output_writing = stream.output_writing
      BY <1>1, <1>3 DEF StreamType
    <2> QED BY <1>2, <2>1, OperationFacts DEF Spares
  <1>4. ASSUME NEW r, NEW d, stream' = [stream EXCEPT !.write = Ended(r, d)]
        PROVE  Spares(stream, stream')
    <2>1. /\ stream'.read = stream.read /\ stream'.input = stream.input
          /\ stream'.write = Ended(r, d) /\ stream'.output_writing = stream.output_writing
      BY <1>1, <1>4 DEF StreamType
    <2> QED BY <1>2, <2>1, OperationFacts DEF Spares
  <1>5. ASSUME NEW m \in 1 .. MaxIn, KernelRecv(m) PROVE Spares(stream, stream')
    <2> DEFINE from == IF stream.type = "file" THEN stream.input_offset ELSE arrived
    <2>1. stream' = [stream EXCEPT !.read = Ended(m, Bytes(from, from + m))]
      BY <1>5 DEF KernelRecv
    <2> HIDE DEF from
    <2> QED BY <1>3, <2>1
  <1>6. ASSUME NEW result \in {0, -1}, KernelRecvEnd(result) PROVE Spares(stream, stream')
    BY <1>3, <1>6 DEF KernelRecvEnd
  <1>7. ASSUME NEW m \in 1 .. MaxOut, KernelSend(m) PROVE Spares(stream, stream')
    BY <1>4, <1>7 DEF KernelSend
  <1>8. ASSUME NEW m \in 1 .. MaxOut, OrphanSend(m) PROVE Spares(stream, stream')
    <2>1. stream' = stream
      BY <1>8 DEF OrphanSend
    <2>2. Spares(stream, stream)
      BY <1>1, SparesKept
    <2> QED BY <2>1, <2>2
  <1>9. CASE KernelSendFail
    BY <1>4, <1>9 DEF KernelSendFail
  <1> QED BY <1>5, <1>6, <1>7, <1>8, <1>9 DEF Kernel

\* Memory that the kernel may use is left alone until the operation ends or is cancelled, and
\* then given away; a stream that was closed or destructed makes no callback, and one that
\* was destructed is not touched, by stream_recv() in whose callback that was done either.
THEOREM MemoryIsSafe == Spec => MemorySafe
  <1>1. ASSUME Inv, [Next]_vars
        PROVE  /\ stream.read.state = "flying" =>
                    stream'.input = IF stream'.read = None THEN <<>> ELSE stream.input
               /\ stream.write.state = "flying" =>
                    stream'.output_writing
                      = IF stream'.write = None THEN <<>> ELSE stream.output_writing
               /\ stream.state \in {"closed", "destructed"} => callback' \in {callback, "none"}
               /\ stream.state = "destructed" => UNCHANGED stream
    <2>1. stream \in StreamType
      BY <1>1, OutgoingFacts
    <2>2. Spares(stream, stream')
      <3>1. CASE UNCHANGED vars
        <4>1. Spares(stream, stream)
          BY <2>1, SparesKept
        <4> QED BY <3>1, <4>1 DEF vars
      <3>2. CASE Next
        BY <1>1, <3>2, ClientSpares, LoopSpares, KernelSpares DEF Next
      <3> QED BY <1>1, <3>1, <3>2
    <2>3. ASSUME stream.state \in {"closed", "destructed"}
          PROVE  /\ callback' \in {callback, "none"}
                 /\ stream.state = "destructed" => UNCHANGED stream
      <3>1. /\ stream.read.state = "none" /\ stream.write.state = "none"
            /\ stream.state = "destructed" => stream.abort # "live"
        BY <1>1, <2>3, NotOpen
      <3>2. CASE Client
        BY <2>3, <3>2 DEF Client, Open, Write, Flush, Consume, Close, Destruct, Alive
      <3>3. CASE Recv \/ Send
        BY <3>1, <3>3 DEF Recv, Send
      <3>4. CASE Return
        BY <3>1, <3>4 DEF Return
      <3>5. CASE Kernel
        BY <3>1, <3>5 DEF Kernel, KernelRecv, KernelRecvEnd, KernelSend, KernelSendFail, OrphanSend
      <3>6. CASE UNCHANGED vars
        BY <3>6 DEF vars
      <3> QED BY <1>1, <3>2, <3>3, <3>4, <3>5, <3>6 DEF Next
    <2> QED BY <2>2, <2>3 DEF Spares
  <1> QED BY <1>1, Invariance, PTL DEF Spec, MemorySafe
=============================================================================

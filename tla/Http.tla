-------------------------------- MODULE Http --------------------------------
(***************************************************************************)
(* The reading half of http.c: what http_read_request() makes of the input *)
(* of a stream.  The input is a sequence of cells, each standing for the   *)
(* bytes that it is never cut within: the start of a head (request line),  *)
(* its end with the fields that matter, the size of a chunk, the end of    *)
(* its line, one byte of a body, one of the two bytes behind a chunk.      *)
(* Lengths are unsigned numbers of Width bits.                             *)
(***************************************************************************)
EXTENDS Integers, Sequences

CONSTANT Width   \* bits of a size_t

ASSUME HttpAssumption == Width \in Nat

Cell(c, n) == [c |-> c, n |-> n]

Wait == [result |-> 0, size |-> 0, body |-> <<>>]
Bad == [result |-> -1, size |-> 0, body |-> <<>>]
Request(size, body) == [result |-> 1, size |-> size, body |-> body]

\* phr_parse_request() (picohttpparser): -1, 0 if there is no end yet, or the
\* size of the head
ParseHead(in) ==
  IF in[1].c # "start" THEN -1
  ELSE IF Len(in) = 1 THEN 0
  ELSE IF in[2].c \notin {"get", "post", "length", "chunked", "both"} THEN -1 ELSE 2

\* http_chunk_size(): the size of the line, 0 if no line ends in the input
ChunkSize(in) ==
  IF \A i \in DOMAIN in : in[i].c # "newline" THEN 0
  ELSE IF in[1].c # "size" \/ in[2].c # "newline" \/ in[1].n = 2 ^ Width - 1 THEN -1 ELSE 2

\* http_chunk(): the whole of a chunk, and the data in it
Chunk(in) ==
  LET n == ChunkSize(in) IN
  IF n <= 0 THEN [size |-> n, data |-> <<>>]
  ELSE IF n + 2 > Len(in) \/ in[1].n > Len(in) - n - 2 THEN [size |-> 0, data |-> <<>>]
  ELSE [size |-> in[1].n + n + 2, data |-> SubSeq(in, n + 1, n + in[1].n)]

\* Where the loops of http_dechunk() are: at a chunk or at their end, with the
\* result, and the size and the data of the chunks so far
RoundState(at, result, size, body) ==
  [at |-> at, result |-> result, size |-> size, body |-> body]

\* A round of them, which go through the chunks up to the first that is empty
DechunkRound(in, s) ==
  LET chunk == Chunk(SubSeq(in, s.size + 1, Len(in))) IN
  IF s.at = "end" THEN s
  ELSE IF chunk.size <= 0 THEN RoundState("end", chunk.size, s.size, s.body)
  ELSE IF chunk.data = <<>> THEN RoundState("end", 1, s.size + chunk.size, s.body)
  ELSE RoundState("chunk", 0, s.size + chunk.size, s.body \o chunk.data)

DechunkRounds(in) ==
  LET round[n \in 0 .. Len(in) + 1] ==
        IF n = 0 THEN RoundState("chunk", 0, 0, <<>>) ELSE DechunkRound(in, round[n - 1])
  IN  round

\* http_dechunk()
Dechunk(in) == DechunkRounds(in)[Len(in) + 1]

\* A body that is not in the input
Outside == <<Cell("outside", 0)>>

\* Mutant of Sized: the head is counted as body.
SizedEager(in, n, length) ==
  IF Len(in) < length THEN Wait
  ELSE Request(n + length, IF n + length <= Len(in) THEN SubSeq(in, n + 1, n + length) ELSE Outside)

\* The body of the length in the head, which is added to the size of the head
\* as it is: the sum may wrap
Sized(in, n, length) ==
  LET end == (n + length) % 2 ^ Width IN
  IF Len(in) < end THEN Wait
  ELSE Request(end, IF n + length <= Len(in) THEN SubSeq(in, n + 1, n + length) ELSE Outside)

\* http_read_request()
ReadRequest(in) ==
  LET n == ParseHead(in)
      head == in[n].c IN
  IF in = <<>> THEN Wait
  ELSE IF n <= 0 THEN [Wait EXCEPT !.result = n]
  ELSE IF head \in {"get", "post"} THEN Request(n, <<>>)
  ELSE IF head = "both" THEN Bad
  ELSE IF head = "length" THEN Sized(in, n, in[n].n)
  ELSE LET d == Dechunk(SubSeq(in, n + 1, Len(in)))
       IN IF d.result = 1 THEN Request(n + d.size, d.body) ELSE [Wait EXCEPT !.result = d.result]
=============================================================================

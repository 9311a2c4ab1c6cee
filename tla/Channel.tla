------------------------------ MODULE Channel -------------------------------
(***************************************************************************)
(* What a message queue promises its producers and consumers, with no      *)
(* buffers, offsets or batches: what a producer pushes enters one shared   *)
(* channel in the order of the pushes, every element that leaves the       *)
(* channel goes to one consumer, in order, and nothing disappears unless   *)
(* its producer or a consumer closes.  The exception is a consumer that    *)
(* asks for more before it was passed all that was taken for it: what      *)
(* comes may replace what is left.  Module Queue implements this           *)
(* specification.                                                          *)
(***************************************************************************)
EXTENDS Naturals, Sequences

CONSTANTS Producers, Consumers, Elements

VARIABLES
  open,      \* producers and consumers that have not been closed
  backlog,   \* pushed by each producer, not yet in the channel
  channel,   \* what no consumer has taken yet
  hand,      \* taken for each consumer, not yet passed to it
  eager,     \* consumers that have asked for more too early
  got        \* passed to each consumer

vars == <<open, backlog, channel, hand, eager, got>>

Prefix(s, k) == SubSeq(s, 1, k)

Suffix(s, k) == SubSeq(s, k + 1, Len(s))

Init ==
  /\ open = Producers \cup Consumers
  /\ backlog = [p \in Producers |-> <<>>]
  /\ channel = <<>>
  /\ hand = [c \in Consumers |-> <<>>]
  /\ eager = {}
  /\ got = [c \in Consumers |-> <<>>]

Push(p, e) ==
  /\ p \in open
  /\ backlog' = [backlog EXCEPT ![p] = Append(@, e)]
  /\ UNCHANGED <<open, channel, hand, eager, got>>

PushSync(p, e) ==
  /\ p \in open
  /\ channel' = Append(channel, e)
  /\ UNCHANGED <<open, backlog, hand, eager, got>>

Send(p, k) ==
  /\ channel' = channel \o Prefix(backlog[p], k)
  /\ backlog' = [backlog EXCEPT ![p] = Suffix(@, k)]
  /\ UNCHANGED <<open, hand, eager, got>>

\* The last that is sent for a producer that has closed.
SendLast(p, k) ==
  /\ p \notin open
  /\ channel' = channel \o Prefix(backlog[p], k)
  /\ backlog' = [backlog EXCEPT ![p] = <<>>]
  /\ UNCHANGED <<open, hand, eager, got>>

\* A producer that closes, or has closed, drops the end of its backlog.
Drop(p, k) ==
  /\ open' = open \ {p}
  /\ backlog' = [backlog EXCEPT ![p] = Prefix(@, k)]
  /\ UNCHANGED <<channel, hand, eager, got>>

Take(c, k) ==
  /\ c \in open
  /\ hand' = [hand EXCEPT ![c] = @ \o Prefix(channel, k)]
  /\ channel' = Suffix(channel, k)
  /\ UNCHANGED <<open, backlog, eager, got>>

\* A consumer takes one element itself.
TakeSync(c) ==
  /\ c \in open
  /\ hand[c] = <<>>
  /\ channel # <<>>
  /\ got' = [got EXCEPT ![c] = Append(@, Head(channel))]
  /\ channel' = Tail(channel)
  /\ UNCHANGED <<open, backlog, hand, eager>>

Deliver(c) ==
  /\ c \in open
  /\ hand[c] # <<>>
  /\ got' = [got EXCEPT ![c] = Append(@, Head(hand[c]))]
  /\ hand' = [hand EXCEPT ![c] = Tail(@)]
  /\ UNCHANGED <<open, backlog, channel, eager>>

\* A consumer closes, and loses what was taken for it.
Close(c) ==
  /\ open' = open \ {c}
  /\ hand' = [hand EXCEPT ![c] = <<>>]
  /\ eager' = eager \ {c}
  /\ UNCHANGED <<backlog, channel, got>>

\* What was asked for a consumer that has closed meanwhile is lost.
Lose(c, k) ==
  /\ c \notin open
  /\ channel' = Suffix(channel, k)
  /\ UNCHANGED <<open, backlog, hand, eager, got>>

\* A consumer asks for more before its hand is empty, or is past that.
Ask(c) ==
  /\ eager' = eager \cup {c}
  /\ UNCHANGED <<open, backlog, channel, hand, got>>

Calm(c) ==
  /\ eager' = eager \ {c}
  /\ UNCHANGED <<open, backlog, channel, hand, got>>

\* What it asked for is written over some of what is left in its hand, which
\* it is passed all the same.
Overwrite(c, k, rest) ==
  /\ c \in open \cap eager
  /\ \A i \in DOMAIN rest :
       rest[i] = hand[c][i] \/ \E j \in 1 .. k : rest[i] = channel[j]
  /\ hand' = [hand EXCEPT ![c] = rest \o Prefix(channel, k)]
  /\ channel' = Suffix(channel, k)
  /\ eager' = eager \ {c}
  /\ UNCHANGED <<open, backlog, got>>

Next ==
  \/ \E p \in Producers :
       \/ \E e \in Elements : Push(p, e) \/ PushSync(p, e)
       \/ \E k \in 0 .. Len(backlog[p]) : Send(p, k) \/ SendLast(p, k) \/ Drop(p, k)
  \/ \E c \in Consumers :
       \/ \E k \in 0 .. Len(channel) :
            \/ Take(c, k) \/ Lose(c, k)
            \/ \E rest \in [DOMAIN hand[c] -> Elements] : Overwrite(c, k, rest)
       \/ TakeSync(c) \/ Deliver(c)
       \/ Close(c) \/ Ask(c) \/ Calm(c)

Spec == Init /\ [][Next]_vars
=============================================================================

--------------------------- MODULE NetworkProofs ----------------------------
(***************************************************************************)
(* The safety properties of module Network for any number of tasks, any    *)
(* hosts and any expiration.  The stack is taken apart frame by frame: what *)
(* the invariant says of it is said of its first frame and of the rest.    *)
(***************************************************************************)
EXTENDS Network, SequenceTheorems, TLAPS

-----------------------------------------------------------------------------
(* Lists of tasks *)

LEMMA AmongFacts ==
  ASSUME NEW users \in Seq(Ids), NEW u \in Ids
  PROVE  /\ Append(users, u) \in Seq(Ids) /\ Append(users, u) # <<>>
         /\ \A t : Among(t, Append(users, u)) <=> t = u \/ Among(t, users)
         /\ Distinct(users) /\ ~ Among(u, users) => Distinct(Append(users, u))
  <1> DEFINE s == Append(users, u)
             n == Len(users)
  <1>1. s \in Seq(Ids) /\ n \in Nat /\ DOMAIN s = 1 .. n + 1 /\ DOMAIN users = 1 .. n
        /\ s[n + 1] = u /\ \A i \in 1 .. n : s[i] = users[i]
    <2>1. s \in Seq(Ids) /\ n \in Nat /\ Len(s) = n + 1 /\ DOMAIN users = 1 .. n
      BY AppendProperties
    <2>2. DOMAIN s = 1 .. n + 1
      BY <2>1
    <2>3. s[n + 1] = u /\ \A i \in 1 .. n : s[i] = users[i]
      BY AppendProperties
    <2> QED BY <2>1, <2>2, <2>3
  <1>2. s # <<>>
    BY AppendProperties
  <1> HIDE DEF s, n
  <1>3. \A i \in 1 .. n + 1 : i = n + 1 \/ i \in 1 .. n
    BY <1>1
  <1>4. n + 1 \in 1 .. n + 1 /\ \A i \in 1 .. n : i \in 1 .. n + 1
    BY <1>1
  <1>5. ASSUME NEW t PROVE Among(t, s) <=> t = u \/ Among(t, users)
    BY <1>1, <1>3, <1>4 DEF Among
  <1>6. ASSUME Distinct(users), ~ Among(u, users) PROVE Distinct(s)
    BY <1>1, <1>3, <1>4, <1>6 DEF Distinct, Among
  <1> QED BY <1>1, <1>2, <1>5, <1>6 DEF s

LEMMA HeadFacts ==
  ASSUME NEW users \in Seq(Ids), users # <<>>, Distinct(users)
  PROVE  /\ Head(users) \in Ids /\ Tail(users) \in Seq(Ids)
         /\ Among(Head(users), users) /\ ~ Among(Head(users), Tail(users))
         /\ \A t : t # Head(users) => (Among(t, Tail(users)) <=> Among(t, users))
         /\ Distinct(Tail(users))
         /\ Len(users) = 1 => \A t : ~ Among(t, Tail(users))
         /\ Len(users) # 1 => Tail(users) # <<>>
  <1> DEFINE s == Tail(users)
             u == Head(users)
             n == Len(users)
  <1>1. n \in Nat /\ n >= 1 /\ DOMAIN users = 1 .. n /\ u = users[1] /\ u \in Ids
    OBVIOUS
  <1>2. /\ s \in Seq(Ids) /\ Len(s) = n - 1 /\ DOMAIN s = 1 .. n - 1
        /\ \A i \in 1 .. n - 1 : s[i] = users[i + 1]
    <2>1. s \in Seq(Ids) /\ Len(s) = n - 1
      BY HeadTailProperties
    <2>2. \A i \in 1 .. Len(s) : s[i] = users[i + 1]
      BY HeadTailProperties
    <2>3. DOMAIN s = 1 .. n - 1
      BY <2>1
    <2> QED BY <2>1, <2>2, <2>3
  <1>3. n # 1 => s # <<>>
    BY <1>1, <1>2, SMTT(60)
  <1> HIDE DEF s, u, n
  <1>4. \A i \in 1 .. n : i = 1 \/ (i - 1 \in 1 .. n - 1 /\ i = (i - 1) + 1)
    BY <1>1
  <1>5. 1 \in 1 .. n /\ \A i \in 1 .. n - 1 : i \in Int /\ i + 1 \in 1 .. n /\ i + 1 # 1
    BY <1>1
  <1>6. Among(u, users)
    BY <1>1, <1>5 DEF Among
  <1>7. ~ Among(u, s)
    BY <1>1, <1>2, <1>5 DEF Among, Distinct
  <1>8. ASSUME NEW t, t # u PROVE Among(t, s) <=> Among(t, users)
    <2>1. ASSUME NEW i \in DOMAIN users, users[i] = t PROVE Among(t, s)
      <3>1. i - 1 \in 1 .. n - 1 /\ s[i - 1] = users[i]
        BY <1>1, <1>2, <1>4, <1>8, <2>1
      <3> QED BY <1>2, <2>1, <3>1 DEF Among
    <2>2. ASSUME NEW i \in DOMAIN s, s[i] = t PROVE Among(t, users)
      <3>1. i + 1 \in 1 .. n /\ s[i] = users[i + 1]
        BY <1>2, <1>5
      <3> QED BY <1>1, <2>2, <3>1 DEF Among
    <2> QED BY <2>1, <2>2 DEF Among
  <1>9. Distinct(s)
    <2> SUFFICES ASSUME NEW i \in 1 .. n - 1, NEW j \in 1 .. n - 1, s[i] = s[j] PROVE i = j
      BY <1>2 DEF Distinct
    <2>1. i + 1 = j + 1
      BY <1>1, <1>2, <1>5, ZenonT(60) DEF Distinct
    <2> QED BY <1>5, <2>1
  <1>10. n = 1 => \A t : ~ Among(t, s)
    BY <1>2 DEF Among
  <1> QED BY <1>1, <1>2, <1>3, <1>6, <1>7, <1>8, <1>9, <1>10 DEF s, u, n

LEMMA SingleFacts ==
  ASSUME NEW u \in Ids
  PROVE  /\ <<u>> \in Seq(Ids) /\ <<u>> # <<>> /\ Distinct(<<u>>)
         /\ \A t : Among(t, <<u>>) <=> t = u
  BY DEF Distinct, Among

LEMMA EmptyFacts == \A t : ~ Among(t, <<>>)
  BY DEF Among

LEMMA IdsFacts ==
  /\ 0 \notin Ids /\ Ids \subseteq Nat
  BY NetworkAssumption DEF Ids

-----------------------------------------------------------------------------
(* Stacks *)

\* A frame before others.
Cons(f, s) == <<f>> \o s

NoDeliver(s) == \A i \in DOMAIN s : s[i].do # "deliver"

\* A frame that passes on the truth at a time n.
True(f, n) ==
  f.do = "deliver" =>
    /\ f.ai => f.found /\ (n = f.at \/ n - f.at < Expiration)
    /\ ~ f.ai => ~ f.found \/ f.lost

AllTrue(s, n) == \A i \in DOMAIN s : True(s[i], n)

\* Where the frames of Cons(f, s) are.
Shape(o, f, s) ==
  /\ o \in Seq(Frames) /\ Len(o) = Len(s) + 1
  /\ 1 \in DOMAIN o /\ o[1] = f
  /\ \A i \in DOMAIN s : i + 1 \in DOMAIN o /\ o[i + 1] = s[i] /\ i + 1 # 1 /\ i \in Int
  /\ \A i \in DOMAIN o : i = 1 \/ (i - 1 \in DOMAIN s /\ o[i] = s[i - 1] /\ i = (i - 1) + 1)

LEMMA ConsIndices ==
  ASSUME NEW f \in Frames, NEW s \in Seq(Frames)
  PROVE  /\ Shape(Cons(f, s), f, s)
         /\ Cons(f, s) # <<>> /\ Head(Cons(f, s)) = f /\ Tail(Cons(f, s)) = s
  <1> DEFINE o == <<f>> \o s
             n == Len(s)
  <1>1. /\ n \in Nat /\ o \in Seq(Frames) /\ Len(o) = n + 1 /\ DOMAIN o = 1 .. n + 1
        /\ DOMAIN s = 1 .. n /\ o[1] = f
    OBVIOUS
  <1>2. \A i \in 1 .. n : o[i + 1] = s[i]
    OBVIOUS
  <1>3. \A i \in 2 .. n + 1 : o[i] = s[i - 1]
    OBVIOUS
  <1>4. Head(o) = f /\ o # <<>>
    BY <1>1
  <1>5. Tail(o) = s
    OBVIOUS
  <1> HIDE DEF o, n
  <1>6. Shape(o, f, s)
    BY <1>1, <1>2, <1>3 DEF Shape, n
  <1> QED BY <1>4, <1>5, <1>6 DEF o, Cons

\* A stack that is not empty is a frame before others.
LEMMA StackFacts ==
  ASSUME NEW s \in Seq(Frames), s # <<>>
  PROVE  Head(s) \in Frames /\ Tail(s) \in Seq(Frames) /\ s = Cons(Head(s), Tail(s))
         /\ Len(s) = Len(Tail(s)) + 1
  BY DEF Cons

LEMMA ConsEnds ==
  ASSUME NEW f \in Frames, NEW s \in Seq(Frames), NEW do, NEW t
  PROVE  EndsBy(Cons(f, s), do, t) <=> (f.do = do /\ f.task = t) \/ EndsBy(s, do, t)
  <1> DEFINE o == Cons(f, s)
  <1>1. Shape(o, f, s)
    BY ConsIndices
  <1> HIDE DEF o
  <1>2. ASSUME EndsBy(s, do, t) PROVE EndsBy(o, do, t)
    <2>1. PICK i \in DOMAIN s : s[i].do = do /\ s[i].task = t
      BY <1>2 DEF EndsBy
    <2>2. i + 1 \in DOMAIN o /\ o[i + 1] = s[i]
      BY <1>1 DEF Shape
    <2> QED BY <2>1, <2>2 DEF EndsBy
  <1>3. ASSUME f.do = do, f.task = t PROVE EndsBy(o, do, t)
    <2>1. 1 \in DOMAIN o /\ o[1] = f
      BY <1>1 DEF Shape
    <2> QED BY <1>3, <2>1 DEF EndsBy
  <1>4. ASSUME EndsBy(o, do, t) PROVE (f.do = do /\ f.task = t) \/ EndsBy(s, do, t)
    <2>1. PICK i \in DOMAIN o : o[i].do = do /\ o[i].task = t
      BY <1>4 DEF EndsBy
    <2>2. o[1] = f /\ (i = 1 \/ (i - 1 \in DOMAIN s /\ o[i] = s[i - 1]))
      BY <1>1 DEF Shape
    <2> QED BY <2>1, <2>2 DEF EndsBy
  <1> QED BY <1>2, <1>3, <1>4 DEF o

LEMMA ConsAnswering ==
  ASSUME NEW f \in Frames, NEW s \in Seq(Frames), NEW t
  PROVE  Answering(Cons(f, s), t) <=> (f.do = "deliver" /\ Among(t, f.users)) \/ Answering(s, t)
  <1> DEFINE o == Cons(f, s)
  <1>1. Shape(o, f, s)
    BY ConsIndices
  <1> HIDE DEF o
  <1>2. ASSUME Answering(s, t) PROVE Answering(o, t)
    <2>1. PICK i \in DOMAIN s : s[i].do = "deliver" /\ Among(t, s[i].users)
      BY <1>2 DEF Answering
    <2>2. i + 1 \in DOMAIN o /\ o[i + 1] = s[i]
      BY <1>1 DEF Shape
    <2> QED BY <2>1, <2>2 DEF Answering
  <1>3. ASSUME f.do = "deliver", Among(t, f.users) PROVE Answering(o, t)
    <2>1. 1 \in DOMAIN o /\ o[1] = f
      BY <1>1 DEF Shape
    <2> QED BY <1>3, <2>1 DEF Answering
  <1>4. ASSUME Answering(o, t)
        PROVE  (f.do = "deliver" /\ Among(t, f.users)) \/ Answering(s, t)
    <2>1. PICK i \in DOMAIN o : o[i].do = "deliver" /\ Among(t, o[i].users)
      BY <1>4 DEF Answering
    <2>2. o[1] = f /\ (i = 1 \/ (i - 1 \in DOMAIN s /\ o[i] = s[i - 1]))
      BY <1>1 DEF Shape
    <2> QED BY <2>1, <2>2 DEF Answering
  <1> QED BY <1>2, <1>3, <1>4 DEF o

LEMMA ConsTrue ==
  ASSUME NEW f \in Frames, NEW s \in Seq(Frames), NEW n
  PROVE  /\ AllTrue(Cons(f, s), n) <=> True(f, n) /\ AllTrue(s, n)
         /\ NoDeliver(Cons(f, s)) <=> f.do # "deliver" /\ NoDeliver(s)
  <1> DEFINE o == Cons(f, s)
  <1>1. Shape(o, f, s)
    BY ConsIndices
  <1> HIDE DEF o
  <1>2. AllTrue(o, n) <=> True(f, n) /\ AllTrue(s, n)
    BY <1>1 DEF Shape, AllTrue
  <1>3. NoDeliver(o) <=> f.do # "deliver" /\ NoDeliver(s)
    <2>1. ASSUME NoDeliver(o) PROVE f.do # "deliver" /\ NoDeliver(s)
      <3>1. 1 \in DOMAIN o /\ o[1] = f /\ \A i \in DOMAIN s : i + 1 \in DOMAIN o /\ o[i + 1] = s[i]
        BY <1>1 DEF Shape
      <3> QED BY <2>1, <3>1, Zenon DEF NoDeliver
    <2>2. ASSUME f.do # "deliver", NoDeliver(s) PROVE NoDeliver(o)
      <3>1. o[1] = f /\ \A i \in DOMAIN o : i = 1 \/ (i - 1 \in DOMAIN s /\ o[i] = s[i - 1])
        BY <1>1 DEF Shape
      <3> QED BY <2>2, <3>1, Zenon DEF NoDeliver
    <2> QED BY <2>1, <2>2
  <1> QED BY <1>2, <1>3 DEF o

LEMMA ConsOrderly ==
  ASSUME NEW f \in Frames, NEW s \in Seq(Frames)
  PROVE  Orderly(Cons(f, s)) <=>
           /\ Orderly(s)
           /\ f.do \in Endings => \A do \in Endings : ~ EndsBy(s, do, f.task)
           /\ f.do = "deliver" => NoDeliver(s) /\ f.users # <<>> /\ Distinct(f.users)
  <1> DEFINE o == Cons(f, s)
  <1>1. Shape(o, f, s)
    BY ConsIndices
  <1> HIDE DEF o
  <1>2. ASSUME Orderly(o)
        PROVE  /\ Orderly(s)
               /\ f.do \in Endings => \A do \in Endings : ~ EndsBy(s, do, f.task)
               /\ f.do = "deliver" => NoDeliver(s) /\ f.users # <<>> /\ Distinct(f.users)
    <2>1. ASSUME NEW i \in DOMAIN s, NEW j \in DOMAIN s,
                 s[i].do \in Endings, s[j].do \in Endings, s[i].task = s[j].task
          PROVE  i = j
      <3>1. i + 1 = j + 1
        BY <1>1, <1>2, <2>1 DEF Shape, Orderly
      <3> QED BY <1>1, <3>1 DEF Shape
    <2>2. ASSUME NEW i \in DOMAIN s, NEW j \in DOMAIN s,
                 s[i].do = "deliver", s[j].do = "deliver"
          PROVE  i = j
      <3>1. i + 1 = j + 1
        BY <1>1, <1>2, <2>2 DEF Shape, Orderly
      <3> QED BY <1>1, <3>1 DEF Shape
    <2>3. ASSUME NEW i \in DOMAIN s, s[i].do = "deliver"
          PROVE  s[i].users # <<>> /\ Distinct(s[i].users)
      <3>1. i + 1 \in DOMAIN o /\ o[i + 1] = s[i]
        BY <1>1 DEF Shape
      <3> QED BY <1>2, <2>3, <3>1, Zenon DEF Orderly
    <2>4. ASSUME f.do \in Endings, NEW do \in Endings PROVE ~ EndsBy(s, do, f.task)
      <3>1. SUFFICES ASSUME NEW i \in DOMAIN s, s[i].do = do, s[i].task = f.task PROVE FALSE
        BY Zenon DEF EndsBy
      <3>2. /\ 1 \in DOMAIN o /\ o[1] = f
            /\ i + 1 \in DOMAIN o /\ o[i + 1] = s[i] /\ i + 1 # 1
        BY <1>1 DEF Shape
      <3> QED BY <1>2, <2>4, <3>1, <3>2, Zenon DEF Orderly
    <2>5. ASSUME f.do = "deliver" PROVE NoDeliver(s) /\ f.users # <<>> /\ Distinct(f.users)
      BY <1>1, <1>2, <2>5 DEF Shape, Orderly, NoDeliver
    <2> QED BY <2>1, <2>2, <2>3, <2>4, <2>5 DEF Orderly
  <1>3. ASSUME /\ Orderly(s)
               /\ f.do \in Endings => \A do \in Endings : ~ EndsBy(s, do, f.task)
               /\ f.do = "deliver" => NoDeliver(s) /\ f.users # <<>> /\ Distinct(f.users)
        PROVE  Orderly(o)
    <2>1. ASSUME NEW i \in DOMAIN o, NEW j \in DOMAIN o,
                 o[i].do \in Endings, o[j].do \in Endings, o[i].task = o[j].task
          PROVE  i = j
      <3>1. CASE i = 1 /\ j = 1
        BY <3>1
      <3>2. CASE i = 1 /\ j # 1
        BY <1>1, <1>3, <2>1, <3>2 DEF Shape, EndsBy
      <3>3. CASE i # 1 /\ j = 1
        BY <1>1, <1>3, <2>1, <3>3 DEF Shape, EndsBy
      <3>4. CASE i # 1 /\ j # 1
        <4>1. i - 1 = j - 1
          BY <1>1, <1>3, <2>1, <3>4 DEF Shape, Orderly
        <4> QED BY <1>1, <3>4, <4>1 DEF Shape
      <3> QED BY <3>1, <3>2, <3>3, <3>4
    <2>2. ASSUME NEW i \in DOMAIN o, NEW j \in DOMAIN o,
                 o[i].do = "deliver", o[j].do = "deliver"
          PROVE  i = j
      <3>1. CASE i = 1 \/ j = 1
        BY <1>1, <1>3, <2>2, <3>1 DEF Shape, NoDeliver
      <3>2. CASE i # 1 /\ j # 1
        <4>1. i - 1 = j - 1
          BY <1>1, <1>3, <2>2, <3>2 DEF Shape, Orderly
        <4> QED BY <1>1, <3>2, <4>1 DEF Shape
      <3> QED BY <3>1, <3>2
    <2>3. ASSUME NEW i \in DOMAIN o, o[i].do = "deliver"
          PROVE  o[i].users # <<>> /\ Distinct(o[i].users)
      <3>1. o[1] = f /\ (i = 1 \/ (i - 1 \in DOMAIN s /\ o[i] = s[i - 1]))
        BY <1>1 DEF Shape
      <3> QED BY <1>3, <2>3, <3>1, Zenon DEF Orderly
    <2> QED BY <2>1, <2>2, <2>3 DEF Orderly
  <1> QED BY <1>2, <1>3 DEF o

LEMMA EmptyStack ==
  /\ <<>> \in Seq(Frames) /\ Orderly(<<>>) /\ NoDeliver(<<>>)
  /\ \A t : ~ Answering(<<>>, t) /\ \A do : ~ EndsBy(<<>>, do, t)
  /\ \A n : AllTrue(<<>>, n)
  BY DEF Orderly, NoDeliver, Answering, EndsBy, AllTrue

\* How the frames of the actions are put before others.
LEMMA PushFacts ==
  ASSUME NEW s \in Seq(Frames), NEW f \in Frames, NEW g \in Frames
  PROVE  /\ <<f>> \o s = Cons(f, s)
         /\ <<f, g>> \o s = Cons(f, Cons(g, s))
         /\ <<f, g>> = Cons(f, Cons(g, <<>>)) /\ <<f>> = Cons(f, <<>>)
         /\ <<>> \o s = s
  <1>1. <<f>> \o s = Cons(f, s)
    BY DEF Cons
  <1>2. <<f, g>> \o s = Cons(f, Cons(g, s))
    <2> DEFINE a == <<f, g>> \o s
               c == <<g>> \o s
               b == <<f>> \o c
               n == Len(s)
    <2>1. n \in Nat /\ a \in Seq(Frames) /\ Len(a) = n + 2
      OBVIOUS
    <2>2. c \in Seq(Frames) /\ Len(c) = n + 1 /\ \A i \in 1 .. n + 1 : c[i] = IF i = 1 THEN g ELSE s[i - 1]
      OBVIOUS
    <2>3. \A i \in 1 .. n + 2 : a[i] = IF i = 1 THEN f ELSE IF i = 2 THEN g ELSE s[i - 2]
      OBVIOUS
    <2> HIDE DEF a, c, n
    <2>4. b \in Seq(Frames) /\ Len(b) = n + 2 /\ \A i \in 1 .. n + 2 : b[i] = IF i = 1 THEN f ELSE c[i - 1]
      BY <2>1, <2>2
    <2> HIDE DEF b
    <2>5. ASSUME NEW i \in 1 .. n + 2 PROVE a[i] = b[i]
      <3>1. CASE i = 1
        BY <2>1, <2>3, <2>4, <3>1
      <3>2. CASE i # 1
        <4>1. i - 1 \in 1 .. n + 1 /\ (i - 1 = 1 <=> i = 2) /\ (i - 1) - 1 = i - 2
          BY <2>1, <3>2
        <4> QED BY <2>1, <2>2, <2>3, <2>4, <3>2, <4>1, SMTT(60)
      <3> QED BY <3>1, <3>2
    <2>6. a = b
      BY <2>1, <2>4, <2>5, SeqEqual
    <2> QED BY <2>6 DEF a, b, c, Cons
  <1>3. <<f>> = Cons(f, <<>>) /\ <<f, g>> = Cons(f, Cons(g, <<>>))
    <2>1. <<f>> \o <<>> = <<f>> /\ <<g>> \o <<>> = <<g>>
      OBVIOUS
    <2> DEFINE b == <<f>> \o <<g>>
    <2>2. b \in Seq(Frames) /\ Len(b) = 2 /\ b[1] = f /\ b[2] = g
      OBVIOUS
    <2> HIDE DEF b
    <2>3. b = <<f, g>>
      BY <2>2
    <2> QED BY <2>1, <2>3 DEF b, Cons
  <1>4. <<>> \o s = s
    OBVIOUS
  <1> QED BY <1>1, <1>2, <1>3, <1>4

\* The frames that there are.
LEMMA FrameFacts ==
  ASSUME NEW t \in Ids
  PROVE  /\ Client(t) \in Frames /\ Client(t).do = "client" /\ Client(t).task = t
         /\ Done(t) \in Frames /\ Done(t).do = "done" /\ Done(t).task = t
         /\ Cancelling(t) \in Frames /\ Cancelling(t).do = "cancel" /\ Cancelling(t).task = t
         /\ Connected(t) \in Frames /\ Connected(t).do = "connected" /\ Connected(t).task = t
  BY DEF Client, Done, Cancelling, Connected, Frames, Endings

LEMMA DeliverFacts ==
  ASSUME NEW f \in Frames
  PROVE  /\ f.do \in {"done", "cancel", "connected", "client", "deliver"}
         /\ f.do # "deliver" => f.task \in Ids
         /\ f.do = "deliver" =>
              /\ f.users \in Seq(Ids)
              /\ \A users \in Seq(Ids) :
                   LET g == [f EXCEPT !.users = users] IN
                   /\ g \in Frames /\ g.do = "deliver" /\ g.users = users /\ g.ai = f.ai
                   /\ g.found = f.found /\ g.at = f.at /\ g.lost = f.lost
  <1>1. /\ f.do \in {"done", "cancel", "connected", "client", "deliver"}
        /\ f.do # "deliver" => f.task \in Ids
        /\ f.do = "deliver" => f.users \in Seq(Ids)
    BY DEF Frames, Endings
  <1>2. ASSUME f.do = "deliver", NEW users \in Seq(Ids)
        PROVE  LET g == [f EXCEPT !.users = users] IN
               /\ g \in Frames /\ g.do = "deliver" /\ g.users = users /\ g.ai = f.ai
               /\ g.found = f.found /\ g.at = f.at /\ g.lost = f.lost
    <2>1. f \in [do : {"deliver"}, users : Seq(Ids), ai : BOOLEAN, found : BOOLEAN, at : Nat,
                 lost : BOOLEAN]
      BY <1>2 DEF Frames, Endings
    <2> QED BY <2>1 DEF Frames
  <1> QED BY <1>1, <1>2

-----------------------------------------------------------------------------
(* What the actions do to the stack *)

\* o is s with a frame more, that is no answer.
Pushed(o, s, do, t) ==
  /\ o \in Seq(Frames) /\ Orderly(o)
  /\ \A x : Answering(o, x) <=> Answering(s, x)
  /\ \A n : AllTrue(s, n) => AllTrue(o, n)
  /\ \A d \in Endings, x \in Ids : EndsBy(o, d, x) <=> EndsBy(s, d, x) \/ (d = do /\ x = t)

LEMMA Push ==
  ASSUME NEW s \in Seq(Frames), NEW f \in Frames, f.do # "deliver", Orderly(s),
         f.do \in Endings => \A d \in Endings : ~ EndsBy(s, d, f.task)
  PROVE  Pushed(Cons(f, s), s, f.do, f.task)
  <1> DEFINE o == Cons(f, s)
  <1>1. o \in Seq(Frames)
    BY ConsIndices DEF Shape
  <1>2. Orderly(o)
    BY ConsOrderly
  <1>3. \A x : Answering(o, x) <=> Answering(s, x)
    BY ConsAnswering
  <1>4. \A n : AllTrue(s, n) => AllTrue(o, n)
    <2>1. \A n : True(f, n)
      BY DEF True
    <2> QED BY <2>1, ConsTrue
  <1>5. ASSUME NEW d \in Endings, NEW x \in Ids
        PROVE  EndsBy(o, d, x) <=> EndsBy(s, d, x) \/ (d = f.do /\ x = f.task)
    BY ConsEnds
  <1> HIDE DEF o
  <1>6. Pushed(o, s, f.do, f.task)
    BY <1>1, <1>2, <1>3, <1>4, <1>5 DEF Pushed
  <1> QED BY <1>6 DEF o

LEMMA PushClient ==
  ASSUME NEW s \in Seq(Frames), NEW t \in Ids, Orderly(s)
  PROVE  Pushed(<<Client(t)>> \o s, s, "client", t)
  <1> DEFINE f == Client(t)
  <1>1. f \in Frames /\ f.do = "client" /\ f.task = t
    BY FrameFacts
  <1>2. <<f>> \o s = Cons(f, s)
    BY <1>1, PushFacts
  <1> HIDE DEF f
  <1>3. Pushed(Cons(f, s), s, f.do, f.task)
    BY <1>1, Push DEF Endings
  <1> QED BY <1>1, <1>2, <1>3 DEF f

\* A callback and then the release of the task.
LEMMA PushEnding ==
  ASSUME NEW s \in Seq(Frames), NEW t \in Ids, Orderly(s), NEW f \in Frames,
         f.do \in Endings, f.task = t, \A d \in Endings : ~ EndsBy(s, d, t)
  PROVE  Pushed(<<Client(t), f>> \o s, s, f.do, t)
  <1> DEFINE g == Client(t)
             r == Cons(f, s)
  <1>1. g \in Frames /\ g.do = "client" /\ g.task = t
    BY FrameFacts
  <1> HIDE DEF g
  <1>2. f.do # "deliver"
    BY DEF Endings
  <1>3. Pushed(r, s, f.do, t)
    BY <1>2, Push
  <1>4. <<g, f>> \o s = Cons(g, r)
    BY <1>1, PushFacts
  <1> HIDE DEF r
  <1>5. r \in Seq(Frames) /\ Orderly(r)
    BY <1>3 DEF Pushed
  <1>6. Pushed(Cons(g, r), r, "client", t)
    BY <1>1, <1>5, Push DEF Endings
  <1> DEFINE o == Cons(g, r)
  <1> HIDE DEF o
  <1>7. Pushed(o, r, "client", t)
    BY <1>6 DEF o
  <1>8. o \in Seq(Frames) /\ Orderly(o)
    BY <1>7 DEF Pushed
  <1>9. \A x : Answering(o, x) <=> Answering(s, x)
    BY <1>3, <1>7 DEF Pushed
  <1>10. \A n : AllTrue(s, n) => AllTrue(o, n)
    BY <1>3, <1>7 DEF Pushed
  <1>11. ASSUME NEW d \in Endings, NEW x \in Ids
         PROVE  EndsBy(o, d, x) <=> EndsBy(s, d, x) \/ (d = f.do /\ x = t)
    <2>1. d # "client"
      BY DEF Endings
    <2>2. EndsBy(o, d, x) <=> EndsBy(r, d, x)
      BY <1>7, <2>1 DEF Pushed
    <2>3. EndsBy(r, d, x) <=> EndsBy(s, d, x) \/ (d = f.do /\ x = t)
      BY <1>3 DEF Pushed
    <2> QED BY <2>2, <2>3
  <1>12. Pushed(o, s, f.do, t)
    BY <1>8, <1>9, <1>10, <1>11 DEF Pushed
  <1> QED BY <1>4, <1>12 DEF o, g

LEMMA PushError ==
  ASSUME NEW s \in Seq(Frames), NEW t \in Ids, Orderly(s), \A d \in Endings : ~ EndsBy(s, d, t)
  PROVE  Pushed(Error(t) \o s, s, "cancel", t)
  <1>1. Cancelling(t) \in Frames /\ Cancelling(t).do = "cancel" /\ Cancelling(t).task = t
        /\ "cancel" \in Endings
    BY FrameFacts DEF Endings
  <1> QED BY <1>1, PushEnding DEF Error

\* The first frame of a stack is taken away.
LEMMA Pop ==
  ASSUME NEW s \in Seq(Frames), s # <<>>, Orderly(s), Head(s).do # "deliver"
  PROVE  /\ Head(s) \in Frames /\ Head(s).task \in Ids
         /\ Pushed(s, Tail(s), Head(s).do, Head(s).task)
         /\ Tail(s) \in Seq(Frames) /\ Orderly(Tail(s))
         /\ \A n : AllTrue(s, n) => AllTrue(Tail(s), n)
         /\ Head(s).do \in Endings => \A d \in Endings : ~ EndsBy(Tail(s), d, Head(s).task)
  <1> DEFINE f == Head(s)
             r == Tail(s)
  <1>1. f \in Frames /\ r \in Seq(Frames) /\ s = Cons(f, r)
    BY StackFacts
  <1>2. f.do # "deliver"
    OBVIOUS
  <1> HIDE DEF f, r
  <1>3. f.task \in Ids
    BY <1>1, <1>2, DeliverFacts
  <1>4. Orderly(r) /\ (f.do \in Endings => \A d \in Endings : ~ EndsBy(r, d, f.task))
    BY <1>1, ConsOrderly
  <1>5. Pushed(s, r, f.do, f.task)
    BY <1>1, <1>2, <1>4, Push
  <1>6. \A n : AllTrue(s, n) => AllTrue(r, n)
    BY <1>1, ConsTrue
  <1> QED BY <1>1, <1>3, <1>4, <1>5, <1>6 DEF f, r

-----------------------------------------------------------------------------
(* What a step leaves alone *)

\* The request of t waits in the cache.
InCache(t) == \E h \in Names : Among(t, cache[h].requests)

LEMMA WaitingFacts ==
  \A t : /\ Waiting(t) <=> InCache(t) \/ Answering(stack, t)
         /\ Waiting(t)' <=> InCache(t)' \/ Answering(stack', t)
  BY DEF Waiting, InCache

LEMMA TruthFacts ==
  /\ Truthful <=> AllTrue(stack, now)
  /\ Truthful' <=> AllTrue(stack', now')
  <1>1. Truthful <=> AllTrue(stack, now)
    BY Zenon DEF Truthful, AllTrue, True
  <1>2. Truthful' <=> AllTrue(stack', now')
    BY Zenon DEF Truthful, AllTrue, True
  <1> QED BY <1>1, <1>2

\* The rest of the invariant, apart from the types and the tasks.
Rest == Orderly(stack) /\ Requests /\ Entries /\ Truthful

\* A step that leaves the cache, the time and the answers alone.
LEMMA PlainStep ==
  ASSUME Rest, UNCHANGED <<cache, now>>, Orderly(stack'),
         \A x : Answering(stack', x) <=> Answering(stack, x),
         AllTrue(stack, now) => AllTrue(stack', now)
  PROVE  Rest' /\ \A x : Waiting(x)' <=> Waiting(x)
  <1>1. Requests' /\ Entries'
    BY DEF Rest, Requests, Entries
  <1>2. Truthful'
    BY TruthFacts DEF Rest
  <1>3. \A x : InCache(x)' <=> InCache(x)
    BY DEF InCache
  <1>4. \A x : Waiting(x)' <=> Waiting(x)
    BY <1>3, WaitingFacts, Zenon
  <1>5. Orderly(stack)'
    OBVIOUS
  <1> QED BY <1>1, <1>2, <1>4, <1>5 DEF Rest

\* All that the invariant says of a task t is as before.
Same(t) ==
  /\ task'[t] = task[t]
  /\ t \in queue' <=> t \in queue
  /\ Waiting(t)' <=> Waiting(t)
  /\ \A d \in Endings : EndsBy(stack', d, t) <=> EndsBy(stack, d, t)
  /\ t > count' <=> t > count
  /\ task[t].type = "resolve" /\ task[t].owner # 0 =>
       /\ task'[task[t].owner].type = task[task[t].owner].type
       /\ t \in queue => /\ task'[task[t].owner].live = task[task[t].owner].live
                         /\ task'[task[t].owner].resolve = task[task[t].owner].resolve
  /\ task[t].type \in {"accept", "connect"} /\ task[t].live /\ task[t].resolve # 0 =>
       /\ task'[task[t].resolve].type = task[task[t].resolve].type
       /\ task'[task[t].resolve].owner = task[task[t].resolve].owner
       /\ task'[task[t].resolve].told = task[task[t].resolve].told
       /\ task[t].resolve \in queue' <=> task[t].resolve \in queue

LEMMA EndingNames == "done" \in Endings /\ "cancel" \in Endings /\ "connected" \in Endings
  BY DEF Endings

LEMMA FitKept ==
  ASSUME NEW t \in Ids, Fit(t), Same(t)
  PROVE  Fit(t)'
  <1>1. Fit(t)!1'
    BY DEF Fit, Same
  <1>2. ASSUME task[t].type = "none" PROVE Unborn(t)'
    BY <1>2 DEF Fit, Same, Unborn
  <1>3. ASSUME task[t].type = "resolve" PROVE Resolving(t)'
    <2>1. Resolving(t)
      BY <1>3 DEF Fit
    <2> QED BY <1>3, <2>1, EndingNames DEF Resolving, Same
  <1>4. ASSUME task[t].type \in {"accept", "connect"} PROVE Opening(t)'
    <2>1. Opening(t)
      BY <1>4 DEF Fit
    <2> QED BY <1>4, <2>1, EndingNames DEF Opening, Same
  <1> QED BY <1>1, <1>2, <1>3, <1>4 DEF Fit, Same

-----------------------------------------------------------------------------
(* Records *)

LEMMA TypeFacts ==
  ASSUME TypeOK, NEW t \in Ids
  PROVE  /\ task[t] \in TaskType
         /\ task[t].type \in {"none", "resolve", "accept", "connect"}
         /\ task[t].owner \in Nat /\ task[t].resolve \in Nat
         /\ task[t].live \in BOOLEAN /\ task[t].op \in BOOLEAN
         /\ task[t].fd \in {"none", "open", "closed", "given"}
         /\ task[t].told \in {"nothing", "ended", "cancelled", "connected"}
         /\ task[t].host \in Hosts \cup {"none"}
  <1>1. task[t] \in TaskType
    BY DEF TypeOK
  <1> QED BY <1>1 DEF TaskType

\* A task that is released.
LEMMA GoneFacts ==
  ASSUME TypeOK, NEW t \in Ids
  PROVE  /\ Gone(t) \in TaskType
         /\ Gone(t).type = task[t].type /\ Gone(t).host = task[t].host
         /\ Gone(t).owner = task[t].owner /\ Gone(t).resolve = task[t].resolve
         /\ Gone(t).live = FALSE /\ Gone(t).op = FALSE /\ Gone(t).told = task[t].told
         /\ Gone(t).fd = IF task[t].fd = "open" THEN "closed" ELSE task[t].fd
  <1> DEFINE x == task[t]
             fd == IF x.fd = "open" THEN "closed" ELSE x.fd
             g == [x EXCEPT !.live = FALSE, !.op = FALSE, !.fd = fd]
  <1>1. x \in TaskType
    BY TypeFacts
  <1>2. fd \in {"none", "open", "closed", "given"}
    BY TypeFacts
  <1>3. g = Gone(t)
    BY DEF Gone
  <1> HIDE DEF x, fd
  <1>4. g \in TaskType
    BY <1>1, <1>2 DEF TaskType
  <1>5. /\ g.type = x.type /\ g.host = x.host /\ g.owner = x.owner /\ g.resolve = x.resolve
        /\ g.live = FALSE /\ g.op = FALSE /\ g.fd = fd /\ g.told = x.told
    BY <1>1 DEF TaskType
  <1> QED BY <1>3, <1>4, <1>5 DEF x, fd

-----------------------------------------------------------------------------
(* The end of tasks *)

\* A task x ends as told.
Freed(x, told) ==
  /\ task'[x].type = task[x].type /\ task'[x].owner = task[x].owner
  /\ task'[x].resolve = task[x].resolve /\ task'[x].live = FALSE /\ task'[x].op = FALSE
  /\ task'[x].told = told
  /\ task'[x].fd = IF task[x].fd = "open" THEN "closed" ELSE task[x].fd

LEMMA ReleasedFacts ==
  ASSUME TypeOK, NEW t \in Ids, NEW told \in {"nothing", "ended", "cancelled", "connected"},
         Released(t, told)
  PROVE  /\ task' \in [Ids -> TaskType] /\ queue' \subseteq Ids
         /\ \A x \in Ids : IF x = t \/ x = task[t].resolve
                             THEN Freed(x, told) /\ x \notin queue'
                             ELSE task'[x] = task[x] /\ (x \in queue' <=> x \in queue)
  <1> DEFINE gone == {t, task[t].resolve}
             new(x) == [Gone(x) EXCEPT !.told = told]
  <1>0. ASSUME NEW x \in Ids
        PROVE  /\ new(x) \in TaskType
               /\ new(x).type = task[x].type /\ new(x).owner = task[x].owner
               /\ new(x).resolve = task[x].resolve /\ new(x).live = FALSE /\ new(x).op = FALSE
               /\ new(x).told = told
               /\ new(x).fd = IF task[x].fd = "open" THEN "closed" ELSE task[x].fd
    <2>1. PICK g : g = Gone(x)
      OBVIOUS
    <2>2. g \in TaskType
      BY <2>1, GoneFacts
    <2>3. [g EXCEPT !.told = told] \in TaskType
      BY <2>2 DEF TaskType
    <2>4. LET o == [g EXCEPT !.told = told] IN
          /\ o.type = g.type /\ o.owner = g.owner /\ o.resolve = g.resolve
          /\ o.live = g.live /\ o.op = g.op /\ o.fd = g.fd /\ o.told = told
      BY <2>2 DEF TaskType
    <2> QED BY <2>1, <2>3, <2>4, GoneFacts
  <1>1. task' = [x \in Ids |-> IF x \in gone THEN new(x) ELSE task[x]] /\ queue' = queue \ gone
    BY DEF Released
  <1>2. \A x \in Ids : new(x) \in TaskType /\ task[x] \in TaskType
    BY <1>0, TypeFacts
  <1> HIDE DEF new
  <1>3. task' \in [Ids -> TaskType] /\ queue' \subseteq Ids
    BY <1>1, <1>2 DEF TypeOK
  <1>4. ASSUME NEW x \in Ids, x = t \/ x = task[t].resolve PROVE Freed(x, told) /\ x \notin queue'
    <2>1. task'[x] = new(x) /\ x \notin queue'
      BY <1>1, <1>4
    <2> QED BY <1>0, <2>1 DEF Freed
  <1>5. ASSUME NEW x \in Ids, ~ (x = t \/ x = task[t].resolve)
        PROVE  task'[x] = task[x] /\ (x \in queue' <=> x \in queue)
    BY <1>1, <1>5
  <1>6. ASSUME NEW x \in Ids
        PROVE  IF x = t \/ x = task[t].resolve
                 THEN Freed(x, told) /\ x \notin queue'
                 ELSE task'[x] = task[x] /\ (x \in queue' <=> x \in queue)
    BY <1>4, <1>5, Zenon
  <1> QED BY <1>3, <1>6, Zenon

LEMMA CancelKeeps ==
  ASSUME Inv, NEW t \in Ids, Cancel(t)
  PROVE  Inv'
  <1>0. PICK r : r = task[t].resolve
    OBVIOUS
  <1>1. TypeOK /\ Rest /\ \A x \in Ids : Fit(x)
    BY DEF Inv, Rest
  <1>2. /\ Released(t, "cancelled") /\ UNCHANGED <<count, cache, now, stack>>
        /\ task[t].live /\ task[t].owner = 0 /\ task[t].told = "nothing" /\ ~ Waiting(t)
    BY DEF Cancel
  <1>3. /\ task' \in [Ids -> TaskType] /\ queue' \subseteq Ids
        /\ \A x \in Ids : IF x = t \/ x = r THEN Freed(x, "cancelled") /\ x \notin queue'
                          ELSE task'[x] = task[x] /\ (x \in queue' <=> x \in queue)
    BY <1>0, <1>1, <1>2, ReleasedFacts
  <1>4. TypeOK'
    BY <1>1, <1>2, <1>3 DEF TypeOK
  <1>5. Rest' /\ \A x : Waiting(x)' <=> Waiting(x)
    <2>1. Orderly(stack') /\ UNCHANGED <<cache, now>> /\ stack' = stack
      BY <1>1, <1>2 DEF Rest
    <2> QED BY <1>1, <2>1, PlainStep
  <1>6. task[t].type \in {"resolve", "accept", "connect"}
    BY <1>1, <1>2, TypeFacts DEF Fit, Unborn, NoTask, NewTask
  <1>7. task[t].type = "resolve" => Resolving(t) /\ r = 0 /\ t \in queue /\ ~ EndsBy(stack, "done", t)
    BY <1>0, <1>1, <1>2 DEF Fit, Resolving
  <1>8. task[t].type # "resolve" =>
          /\ Opening(t)
          /\ r # 0 => r \in Ids /\ r \in queue /\ task[r].type = "resolve" /\ task[r].owner = t
                      /\ Resolving(r)
          /\ r = 0 => task[t].op
    BY <1>0, <1>1, <1>2, <1>6 DEF Fit, Opening
  <1>9. 0 \notin Ids
    BY IdsFacts
  <1>10. ASSUME NEW x \in Ids, x # t, x # r PROVE Fit(x)'
    <2>1. Fit(x)
      BY <1>1
    <2>2. ASSUME task[x].type = "resolve", task[x].owner # 0
          PROVE  task[x].owner \in Ids /\ task'[task[x].owner].type = task[task[x].owner].type
      BY <1>1, <1>3, <2>2 DEF Fit, Resolving, Freed
    <2>3. ASSUME task[x].type = "resolve", task[x].owner # 0, x \in queue
          PROVE  task[x].owner # t /\ task[x].owner # r
      BY <1>1, <1>6, <1>7, <1>8, <1>10, <2>2, <2>3, <1>0 DEF Fit, Resolving
    <2>4. ASSUME task[x].type \in {"accept", "connect"}, task[x].live, task[x].resolve # 0
          PROVE  task[x].resolve \in Ids /\ task[x].resolve # t /\ task[x].resolve # r
      BY <1>1, <1>2, <1>6, <1>7, <1>8, <1>9, <1>10, <2>4 DEF Fit, Opening
    <2>5. Same(x)
      BY <1>2, <1>3, <1>5, <1>10, <2>2, <2>3, <2>4 DEF Same
    <2> QED BY <2>1, <2>5, FitKept
  <1>11. CASE task[t].type = "resolve"
    <2>1. Freed(t, "cancelled") /\ t \notin queue'
      BY <1>3
    <2>2. Resolving(t)'
      BY <1>2, <1>5, <1>7, <1>11, <2>1 DEF Resolving, Freed
    <2>3. Fit(t)'
      BY <1>1, <1>2, <1>11, <2>1, <2>2 DEF Fit, Freed
    <2> QED BY <1>4, <1>5, <1>7, <1>9, <1>10, <1>11, <2>3 DEF Inv, Rest
  <1>12. CASE task[t].type # "resolve"
    <2>1. Freed(t, "cancelled") /\ t \notin queue'
      BY <1>3
    <2>2. Opening(t)'
      BY <1>2, <1>5, <1>8, <1>12, <2>1, TypeFacts, <1>1 DEF Opening, Freed
    <2>3. Fit(t)'
      BY <1>1, <1>2, <1>6, <1>12, <2>1, <2>2 DEF Fit, Freed
    <2>4. ASSUME r \in Ids PROVE Fit(r)'
      <3>1. Freed(r, "cancelled") /\ r \notin queue' /\ task'[t].type = task[t].type
        BY <1>3, <2>1, <2>4 DEF Freed
      <3>2. r # 0
        BY <1>9, <2>4
      <3>3. Resolving(r) /\ task[r].type = "resolve" /\ task[r].owner = t /\ r \in queue
        BY <1>8, <1>12, <3>2
      <3>4. task'[r].owner = t /\ task'[t].type \in {"accept", "connect"} /\ ~ Waiting(r)
        BY <1>6, <1>9, <1>12, <3>1, <3>3 DEF Freed, Resolving
      <3>5. Resolving(r)'
        BY <1>2, <1>5, <3>1, <3>3, <3>4 DEF Resolving, Freed
      <3> QED BY <1>1, <1>2, <2>4, <3>1, <3>3, <3>5 DEF Fit, Freed
    <2>5. \A x \in Ids : Fit(x)'
      BY <1>10, <2>3, <2>4
    <2> QED BY <1>4, <1>5, <2>5 DEF Inv, Rest
  <1> QED BY <1>11, <1>12

\* A step that changes only the tasks of S keeps what is said of another task x,
\* if nothing changes that x has to do with.
LEMMA OthersKept ==
  ASSUME TypeOK, \A t \in Ids : Fit(t), NEW S \in SUBSET Ids, NEW x \in Ids, x \notin S,
         \A y \in Ids : y \notin S => task'[y] = task[y] /\ (y \in queue' <=> y \in queue),
         Waiting(x)' <=> Waiting(x),
         \A d \in Endings : EndsBy(stack', d, x) <=> EndsBy(stack, d, x),
         x > count' <=> x > count,
         \A t \in S : task[t].type # "none" =>
           task'[t].type = task[t].type /\ task'[t].owner = task[t].owner,
         \A t \in S : task[t].type \in {"accept", "connect"} /\ task[t].live
                      /\ task[t].resolve = x /\ x \in queue =>
           task'[t].live = task[t].live /\ task'[t].resolve = x,
         \A t \in S : task[t].type = "resolve" /\ task[t].owner = x
                      /\ task[x].live /\ task[x].resolve = t =>
           task'[t].told = task[t].told /\ (t \in queue' <=> t \in queue)
  PROVE  Fit(x)'
  <1>1. Fit(x)
    OBVIOUS
  <1>2. task'[x] = task[x] /\ (x \in queue' <=> x \in queue)
    OBVIOUS
  <1>3. ASSUME task[x].type = "resolve", task[x].owner # 0
        PROVE  /\ task'[task[x].owner].type = task[task[x].owner].type
               /\ x \in queue => /\ task'[task[x].owner].live = task[task[x].owner].live
                                 /\ task'[task[x].owner].resolve = task[task[x].owner].resolve
    <2>1. PICK o \in Ids : o = task[x].owner
      BY <1>1, <1>3 DEF Fit, Resolving
    <2>2. /\ task[o].type \in {"accept", "connect"}
          /\ x \in queue => task[o].live /\ task[o].resolve = x
      BY <1>1, <1>3, <2>1 DEF Fit, Resolving
    <2>3. task'[o].type = task[o].type
          /\ (x \in queue => task'[o].live = task[o].live /\ task'[o].resolve = task[o].resolve)
      BY <2>2
    <2> QED BY <2>1, <2>3
  <1>4. ASSUME task[x].type \in {"accept", "connect"}, task[x].live, task[x].resolve # 0
        PROVE  /\ task'[task[x].resolve].type = task[task[x].resolve].type
               /\ task'[task[x].resolve].owner = task[task[x].resolve].owner
               /\ task'[task[x].resolve].told = task[task[x].resolve].told
               /\ task[x].resolve \in queue' <=> task[x].resolve \in queue
    <2>1. PICK r \in Ids : r = task[x].resolve
      BY <1>1, <1>4 DEF Fit, Opening
    <2>2. task[r].type = "resolve" /\ task[r].owner = x
      BY <1>1, <1>4, <2>1 DEF Fit, Opening
    <2>3. /\ task'[r].type = task[r].type /\ task'[r].owner = task[r].owner
          /\ task'[r].told = task[r].told /\ (r \in queue' <=> r \in queue)
      BY <1>4, <2>1, <2>2
    <2> QED BY <2>1, <2>3
  <1>5. Same(x)
    BY <1>2, <1>3, <1>4 DEF Same
  <1> QED BY <1>1, <1>5, FitKept

\* The same for a step that changes one task.
LEMMA OtherKept ==
  ASSUME TypeOK, \A y \in Ids : Fit(y), NEW t \in Ids, NEW x \in Ids, x # t,
         \A y \in Ids : y # t => task'[y] = task[y] /\ (y \in queue' <=> y \in queue),
         Waiting(x)' <=> Waiting(x),
         \A d \in Endings : EndsBy(stack', d, x) <=> EndsBy(stack, d, x),
         x > count' <=> x > count,
         task[t].type # "none" => task'[t].type = task[t].type /\ task'[t].owner = task[t].owner,
         task[t].type \in {"accept", "connect"} /\ task[t].live /\ task[t].resolve = x /\ x \in queue =>
           task'[t].live = task[t].live /\ task'[t].resolve = x,
         task[t].type = "resolve" /\ task[t].owner = x /\ task[x].live /\ task[x].resolve = t =>
           task'[t].told = task[t].told /\ (t \in queue' <=> t \in queue)
  PROVE  Fit(x)'
  <1> DEFINE S == {t}
  <1>1. S \in SUBSET Ids /\ (\A y : y \in S <=> y = t)
    OBVIOUS
  <1> HIDE DEF S
  <1> QED BY <1>1, OthersKept

LEMMA UnwindKeeps ==
  ASSUME Inv, Unwind
  PROVE  Inv'
  <1>1. TypeOK /\ Rest /\ \A x \in Ids : Fit(x)
    BY DEF Inv, Rest
  <1>2. PICK t, do, rest : t = Head(stack).task /\ do = Head(stack).do /\ rest = Tail(stack)
    OBVIOUS
  <1>3. /\ stack # <<>> /\ do \in {"done", "cancel"} /\ Released(t, task[t].told)
        /\ stack' = rest /\ UNCHANGED <<count, cache, now>>
    BY <1>2 DEF Unwind, Running, Idle
  <1>4. stack \in Seq(Frames) /\ Orderly(stack) /\ do # "deliver" /\ do \in Endings
    BY <1>1, <1>3 DEF TypeOK, Rest, Endings
  <1>5. /\ t \in Ids /\ Pushed(stack, rest, do, t) /\ rest \in Seq(Frames) /\ Orderly(rest)
        /\ \A n : AllTrue(stack, n) => AllTrue(rest, n)
        /\ \A d \in Endings : ~ EndsBy(rest, d, t)
    BY <1>2, <1>3, <1>4, Pop
  <1>6. /\ \A d \in Endings, x \in Ids : EndsBy(stack, d, x) <=> EndsBy(rest, d, x) \/ (d = do /\ x = t)
        /\ \A x : Answering(stack, x) <=> Answering(rest, x)
    BY <1>5 DEF Pushed
  <1>7. Rest' /\ \A x : Waiting(x)' <=> Waiting(x)
    BY <1>1, <1>3, <1>5, <1>6, PlainStep
  <1>8. /\ task[t].type = "resolve" => Resolving(t)
        /\ task[t].type \in {"accept", "connect"} => Opening(t)
        /\ task[t].type # "none" /\ task[t].type \in {"none", "resolve", "accept", "connect"}
        /\ EndsBy(stack, do, t) /\ Fit(t)
    BY <1>1, <1>4, <1>5, <1>6, TypeFacts DEF Fit, Unborn
  <1>9. IF task[t].type = "resolve" THEN do = "done" ELSE do = "cancel"
    BY <1>3, <1>8 DEF Resolving, Opening
  <1>10. task[t].resolve = 0 /\ t \notin queue /\ task[t].live
    BY <1>8, <1>9 DEF Resolving, Opening
  <1>11. task[t].told \in {"nothing", "ended", "cancelled", "connected"}
    BY <1>1, <1>5, TypeFacts
  <1>12. /\ task' \in [Ids -> TaskType] /\ queue' \subseteq Ids
         /\ Freed(t, task[t].told) /\ t \notin queue'
         /\ \A x \in Ids : x # t => task'[x] = task[x] /\ (x \in queue' <=> x \in queue)
    BY <1>1, <1>3, <1>5, <1>10, <1>11, ReleasedFacts, IdsFacts
  <1>13. TypeOK'
    BY <1>1, <1>3, <1>5, <1>12 DEF TypeOK
  <1>14. ASSUME NEW x \in Ids, x # t PROVE Fit(x)'
    <2>1. \A d \in Endings : EndsBy(stack', d, x) <=> EndsBy(stack, d, x)
      BY <1>3, <1>6, <1>14
    <2>2. task'[t].type = task[t].type /\ task'[t].owner = task[t].owner /\ task'[t].told = task[t].told
      BY <1>12 DEF Freed
    <2>3. x > count' <=> x > count
      BY <1>3
    <2>4. task[t].resolve # x
      BY <1>10, IdsFacts
    <2> QED BY <1>1, <1>5, <1>7, <1>10, <1>12, <1>14, <2>1, <2>2, <2>3, <2>4, OtherKept
  <1>15. Fit(t)'
    <2>1. CASE task[t].type = "resolve"
      <3>1. ~ EndsBy(stack', "done", t) /\ ~ EndsBy(stack', "cancel", t) /\ ~ EndsBy(stack', "connected", t)
        BY <1>3, <1>5, EndingNames
      <3>2. task[t].owner # 0 => task[t].owner \in Ids /\ task[t].owner # t
                                 /\ task[task[t].owner].type \in {"accept", "connect"}
        BY <1>8, <2>1 DEF Resolving
      <3>3. Resolving(t)'
        BY <1>7, <1>8, <1>12, <2>1, <3>1, <3>2 DEF Resolving, Freed
      <3> QED BY <1>3, <1>8, <1>12, <2>1, <3>3 DEF Fit, Freed
    <2>2. CASE task[t].type # "resolve"
      <3>1. ~ EndsBy(stack', "done", t) /\ ~ EndsBy(stack', "cancel", t) /\ ~ EndsBy(stack', "connected", t)
        BY <1>3, <1>5, EndingNames
      <3>2. Opening(t) /\ do = "cancel" /\ task[t].told = "ended" /\ task[t].resolve = 0 /\ ~ task[t].op
        BY <1>8, <1>9, <2>2 DEF Opening
      <3>3. Opening(t)'
        BY <1>7, <1>12, <3>1, <3>2 DEF Opening, Freed
      <3> QED BY <1>3, <1>8, <1>12, <2>2, <3>3 DEF Fit, Freed
    <2> QED BY <2>1, <2>2
  <1>16. \A x \in Ids : Fit(x)'
    BY <1>14, <1>15
  <1> QED BY <1>7, <1>13, <1>16 DEF Inv, Rest

LEMMA UnwindConnectedKeeps ==
  ASSUME Inv, UnwindConnected
  PROVE  Inv'
  <1>1. TypeOK /\ Rest /\ \A x \in Ids : Fit(x)
    BY DEF Inv, Rest
  <1>2. PICK t, rest : t = Head(stack).task /\ rest = Tail(stack)
    OBVIOUS
  <1>3. /\ stack # <<>> /\ Head(stack).do = "connected"
        /\ task' = [task EXCEPT ![t] = [Gone(t) EXCEPT !.fd = "given"]]
        /\ stack' = rest /\ UNCHANGED <<count, queue, cache, now>>
    BY <1>2 DEF UnwindConnected, Running, Idle
  <1>4. stack \in Seq(Frames) /\ Orderly(stack)
    BY <1>1 DEF TypeOK, Rest
  <1>5. /\ t \in Ids /\ Pushed(stack, rest, "connected", t) /\ rest \in Seq(Frames) /\ Orderly(rest)
        /\ \A n : AllTrue(stack, n) => AllTrue(rest, n)
        /\ \A d \in Endings : ~ EndsBy(rest, d, t)
    BY <1>2, <1>3, <1>4, Pop, EndingNames
  <1>6. /\ \A d \in Endings, x \in Ids :
             EndsBy(stack, d, x) <=> EndsBy(rest, d, x) \/ (d = "connected" /\ x = t)
        /\ \A x : Answering(stack, x) <=> Answering(rest, x)
    BY <1>5 DEF Pushed
  <1>7. Rest' /\ \A x : Waiting(x)' <=> Waiting(x)
    BY <1>1, <1>3, <1>5, <1>6, PlainStep
  <1>8. EndsBy(stack, "connected", t) /\ Fit(t)
    BY <1>1, <1>5, <1>6, EndingNames
  <1>9. task[t].type \in {"accept", "connect"} /\ Opening(t)
    BY <1>1, <1>5, <1>8, TypeFacts, EndingNames DEF Fit, Unborn, Resolving
  <1>10. task[t].resolve = 0 /\ task[t].live /\ task[t].told = "connected"
    BY <1>8, <1>9 DEF Opening
  <1>11. /\ task'[t] \in TaskType
         /\ task'[t].type = task[t].type /\ task'[t].owner = task[t].owner /\ task'[t].resolve = 0
         /\ ~ task'[t].live /\ ~ task'[t].op /\ task'[t].fd = "given" /\ task'[t].told = "connected"
    <2>1. PICK g : g = Gone(t)
      OBVIOUS
    <2>2. g \in TaskType /\ "given" \in {"none", "open", "closed", "given"}
      BY <1>1, <1>5, <2>1, GoneFacts
    <2>3. task'[t] = [g EXCEPT !.fd = "given"]
      BY <1>1, <1>3, <1>5, <2>1 DEF TypeOK
    <2>4. [g EXCEPT !.fd = "given"] \in TaskType
      BY <2>2 DEF TaskType
    <2>5. LET o == [g EXCEPT !.fd = "given"] IN
          /\ o.type = g.type /\ o.owner = g.owner /\ o.resolve = g.resolve
          /\ o.live = g.live /\ o.op = g.op /\ o.fd = "given" /\ o.told = g.told
      BY <2>2 DEF TaskType
    <2> QED BY <1>1, <1>5, <1>10, <2>1, <2>3, <2>4, <2>5, GoneFacts, ZenonT(60)
  <1>12. \A x \in Ids : x # t => task'[x] = task[x] /\ (x \in queue' <=> x \in queue)
    BY <1>1, <1>3, <1>5 DEF TypeOK
  <1>13. TypeOK'
    <2>1. task' \in [Ids -> TaskType]
      BY <1>1, <1>3, <1>5, <1>11, <1>12 DEF TypeOK
    <2> QED BY <1>1, <1>3, <1>5, <2>1 DEF TypeOK
  <1>14. ASSUME NEW x \in Ids, x # t PROVE Fit(x)'
    <2>1. \A d \in Endings : EndsBy(stack', d, x) <=> EndsBy(stack, d, x)
      BY <1>3, <1>6, <1>14
    <2>2. x > count' <=> x > count
      BY <1>3
    <2>3. task[t].resolve # x
      BY <1>10, IdsFacts
    <2> QED BY <1>1, <1>5, <1>7, <1>9, <1>11, <1>12, <1>14, <2>1, <2>2, <2>3, OtherKept
  <1>15. Fit(t)'
    <2>1. ~ EndsBy(stack', "done", t) /\ ~ EndsBy(stack', "cancel", t) /\ ~ EndsBy(stack', "connected", t)
      BY <1>3, <1>5, EndingNames
    <2>2. Opening(t)'
      BY <1>3, <1>7, <1>9, <1>10, <1>11, <2>1 DEF Opening
    <2> QED BY <1>3, <1>8, <1>9, <1>11, <2>2 DEF Fit
  <1>16. \A x \in Ids : Fit(x)'
    BY <1>14, <1>15
  <1> QED BY <1>7, <1>13, <1>16 DEF Inv, Rest

LEMMA ReturnKeeps ==
  ASSUME Inv, Return
  PROVE  Inv'
  <1>1. TypeOK /\ Rest /\ \A x \in Ids : Fit(x)
    BY DEF Inv, Rest
  <1>2. PICK rest : rest = Tail(stack)
    OBVIOUS
  <1>3. /\ stack # <<>> /\ Head(stack).do = "client"
        /\ stack' = rest /\ UNCHANGED <<count, task, queue, cache, now>>
    BY <1>2 DEF Return, Running, Idle
  <1>4. stack \in Seq(Frames) /\ Orderly(stack)
    BY <1>1 DEF TypeOK, Rest
  <1>5. /\ Pushed(stack, rest, "client", Head(stack).task) /\ rest \in Seq(Frames) /\ Orderly(rest)
        /\ \A n : AllTrue(stack, n) => AllTrue(rest, n)
    BY <1>2, <1>3, <1>4, Pop
  <1>6. /\ \A d \in Endings, x \in Ids : EndsBy(stack, d, x) <=> EndsBy(rest, d, x)
        /\ \A x : Answering(stack, x) <=> Answering(rest, x)
    BY <1>5 DEF Pushed, Endings
  <1>7. Rest' /\ \A x : Waiting(x)' <=> Waiting(x)
    BY <1>1, <1>3, <1>5, <1>6, PlainStep
  <1>8. TypeOK'
    BY <1>1, <1>3, <1>5 DEF TypeOK
  <1>9. ASSUME NEW x \in Ids PROVE Fit(x)'
    <2>1. Same(x)
      BY <1>3, <1>6, <1>7 DEF Same
    <2> QED BY <1>1, <2>1, FitKept
  <1> QED BY <1>7, <1>8, <1>9 DEF Inv, Rest

-----------------------------------------------------------------------------
(* Listening and connecting *)

\* Where a task that listens or connects is after a step that puts frames for it
\* before the frames s: at work, or ending with an error or a connection.
Goes(t, s) ==
  /\ task'[t].type \in {"accept", "connect"} /\ task'[t].owner = 0 /\ task'[t].resolve = 0
  /\ task'[t].live /\ task'[t].fd # "given"
  /\ \/ task'[t].op /\ task'[t].told = "nothing" /\ Pushed(stack', s, "client", t)
     \/ ~ task'[t].op /\ task'[t].told = "ended" /\ Pushed(stack', s, "cancel", t)
     \/ ~ task'[t].op /\ task'[t].told = "connected" /\ Pushed(stack', s, "connected", t)

LEMMA GoesFits ==
  ASSUME NEW t \in Ids, NEW s, Goes(t, s), \A d \in Endings : ~ EndsBy(s, d, t),
         t \notin queue', ~ Waiting(t)', ~ (t > count')
  PROVE  Fit(t)'
  <1>1. Opening(t)'
    <2>1. CASE task'[t].op /\ task'[t].told = "nothing" /\ Pushed(stack', s, "client", t)
      <3>1. ~ EndsBy(stack', "done", t) /\ ~ EndsBy(stack', "cancel", t) /\ ~ EndsBy(stack', "connected", t)
        BY <2>1, EndingNames DEF Pushed
      <3> QED BY <2>1, <3>1 DEF Opening, Goes
    <2>2. CASE ~ task'[t].op /\ task'[t].told = "ended" /\ Pushed(stack', s, "cancel", t)
      <3>1. ~ EndsBy(stack', "done", t) /\ EndsBy(stack', "cancel", t) /\ ~ EndsBy(stack', "connected", t)
        BY <2>2, EndingNames DEF Pushed
      <3> QED BY <2>2, <3>1 DEF Opening, Goes
    <2>3. CASE ~ task'[t].op /\ task'[t].told = "connected" /\ Pushed(stack', s, "connected", t)
      <3>1. ~ EndsBy(stack', "done", t) /\ ~ EndsBy(stack', "cancel", t) /\ EndsBy(stack', "connected", t)
        BY <2>3, EndingNames DEF Pushed
      <3> QED BY <2>3, <3>1 DEF Opening, Goes
    <2> QED BY <2>1, <2>2, <2>3 DEF Goes
  <1> QED BY <1>1 DEF Fit, Goes

LEMMA GoesOthers ==
  ASSUME NEW t \in Ids, NEW s, Goes(t, s)
  PROVE  /\ stack' \in Seq(Frames) /\ Orderly(stack')
         /\ \A x : Answering(stack', x) <=> Answering(s, x)
         /\ \A n : AllTrue(s, n) => AllTrue(stack', n)
         /\ \A x \in Ids : x # t => \A d \in Endings : EndsBy(stack', d, x) <=> EndsBy(s, d, x)
  <1>1. PICK do : Pushed(stack', s, do, t)
    BY DEF Goes
  <1> QED BY <1>1 DEF Pushed

LEMMA PushNothing ==
  ASSUME NEW s \in Seq(Frames), NEW t, Orderly(s)
  PROVE  Pushed(s, s, "client", t)
  BY DEF Pushed, Endings

LEMMA SocketFacts ==
  ASSUME NEW tasks \in [Ids -> TaskType], NEW t \in Ids, NEW s \in Seq(Frames), Orderly(s),
         \A d \in Endings : ~ EndsBy(s, d, t),
         tasks[t].type \in {"accept", "connect"}, tasks[t].owner = 0, tasks[t].resolve = 0,
         tasks[t].live, tasks[t].fd = "none", ~ tasks[t].op, tasks[t].told = "nothing",
         Socket(tasks, t, s)
  PROVE  /\ task' \in [Ids -> TaskType] /\ Goes(t, s) /\ task'[t].type = tasks[t].type
         /\ \A x \in Ids : x # t => task'[x] = tasks[x]
  <1>1. tasks[t] \in TaskType
    OBVIOUS
  <1>2. CASE task' = [tasks EXCEPT ![t].told = "ended"] /\ stack' = Error(t) \o s
    <2>1. task' \in [Ids -> TaskType] /\ \A x \in Ids : x # t => task'[x] = tasks[x]
      BY <1>1, <1>2 DEF TaskType
    <2>2. task'[t] = [tasks[t] EXCEPT !.told = "ended"]
      BY <1>2
    <2>3. /\ task'[t].type = tasks[t].type /\ task'[t].owner = 0 /\ task'[t].resolve = 0
          /\ task'[t].live /\ task'[t].fd = "none" /\ ~ task'[t].op /\ task'[t].told = "ended"
      BY <1>1, <2>2 DEF TaskType
    <2>4. Pushed(stack', s, "cancel", t)
      BY <1>2, PushError
    <2> QED BY <2>1, <2>3, <2>4 DEF Goes
  <1>3. CASE task' = [tasks EXCEPT ![t].told = "ended", ![t].fd = "open"] /\ stack' = Error(t) \o s
    <2>1. task' \in [Ids -> TaskType] /\ \A x \in Ids : x # t => task'[x] = tasks[x]
      BY <1>1, <1>3 DEF TaskType
    <2>2. task'[t] = [tasks[t] EXCEPT !.told = "ended", !.fd = "open"]
      BY <1>3
    <2>3. /\ task'[t].type = tasks[t].type /\ task'[t].owner = 0 /\ task'[t].resolve = 0
          /\ task'[t].live /\ task'[t].fd = "open" /\ ~ task'[t].op /\ task'[t].told = "ended"
      BY <1>1, <2>2 DEF TaskType
    <2>4. Pushed(stack', s, "cancel", t)
      BY <1>3, PushError
    <2> QED BY <2>1, <2>3, <2>4 DEF Goes
  <1>4. CASE /\ task' = [tasks EXCEPT ![t].fd = "open", ![t].op = TRUE]
             /\ stack' = IF tasks[t].type = "accept" THEN <<Client(t)>> \o s ELSE s
    <2>1. task' \in [Ids -> TaskType] /\ \A x \in Ids : x # t => task'[x] = tasks[x]
      BY <1>1, <1>4 DEF TaskType
    <2>2. task'[t] = [tasks[t] EXCEPT !.fd = "open", !.op = TRUE]
      BY <1>4
    <2>3. /\ task'[t].type = tasks[t].type /\ task'[t].owner = 0 /\ task'[t].resolve = 0
          /\ task'[t].live /\ task'[t].fd = "open" /\ task'[t].op /\ task'[t].told = "nothing"
      BY <1>1, <2>2 DEF TaskType
    <2>4. Pushed(stack', s, "client", t)
      BY <1>4, PushClient, PushNothing
    <2> QED BY <2>1, <2>3, <2>4 DEF Goes
  <1> QED BY <1>2, <1>3, <1>4 DEF Socket

\* A task that there is not yet.
LEMMA BirthFacts ==
  ASSUME Inv, NEW t \in Ids, t > count
  PROVE  /\ Unborn(t) /\ task[t].type = "none" /\ ~ Waiting(t) /\ t \notin queue
         /\ \A d \in Endings : ~ EndsBy(stack, d, t)
  BY DEF Inv, Fit, Unborn

\* A step that creates a task without a resolve task, or takes one on.
LEMMA GoesKeeps ==
  ASSUME Inv, NEW t \in Ids, Goes(t, stack), task' \in [Ids -> TaskType],
         \A x \in Ids : x # t => task'[x] = task[x] /\ (x > count' <=> x > count),
         UNCHANGED <<queue, cache, now>>, count' \in 0 .. MaxTasks, ~ (t > count'),
         t \notin queue, ~ Waiting(t), \A d \in Endings : ~ EndsBy(stack, d, t),
         task[t].type # "resolve",
         task[t].type # "none" =>
           task'[t].type = task[t].type /\ task'[t].owner = task[t].owner /\ task[t].resolve = 0
  PROVE  Inv'
  <1>1. TypeOK /\ Rest /\ \A x \in Ids : Fit(x)
    BY DEF Inv, Rest
  <1>2. /\ stack' \in Seq(Frames) /\ Orderly(stack')
        /\ \A x : Answering(stack', x) <=> Answering(stack, x)
        /\ \A n : AllTrue(stack, n) => AllTrue(stack', n)
        /\ \A x \in Ids : x # t => \A d \in Endings : EndsBy(stack', d, x) <=> EndsBy(stack, d, x)
    BY GoesOthers
  <1>3. Rest' /\ \A x : Waiting(x)' <=> Waiting(x)
    BY <1>1, <1>2, PlainStep
  <1>4. TypeOK'
    BY <1>1, <1>2 DEF TypeOK
  <1>5. Fit(t)'
    BY <1>3, GoesFits
  <1>6. ASSUME NEW x \in Ids, x # t PROVE Fit(x)'
    <2>1. task[t].type \in {"accept", "connect"} => task[t].resolve # x
      BY IdsFacts
    <2>2. task'[x] = task[x] /\ (x > count' <=> x > count)
      BY <1>6
    <2>3. \A y \in Ids : y # t => task'[y] = task[y] /\ (y \in queue' <=> y \in queue)
      OBVIOUS
    <2>4. Waiting(x)' <=> Waiting(x)
      BY <1>3
    <2>5. \A d \in Endings : EndsBy(stack', d, x) <=> EndsBy(stack, d, x)
      BY <1>2, <1>6
    <2> QED BY <1>1, <1>6, <2>1, <2>2, <2>3, <2>4, <2>5, OtherKept
  <1>7. \A x \in Ids : Fit(x)'
    BY <1>5, <1>6
  <1> QED BY <1>3, <1>4, <1>7 DEF Inv, Rest

LEMMA OpenAddressKeeps ==
  ASSUME Inv, NEW type \in {"accept", "connect"}, OpenAddress(type)
  PROVE  Inv'
  <1>1. PICK t : t = count + 1
    OBVIOUS
  <1>2. PICK new : new = NewTask(type, "none", 0)
    OBVIOUS
  <1>3. PICK tasks : tasks = [task EXCEPT ![t] = new]
    OBVIOUS
  <1>4. /\ t <= MaxTasks /\ count' = t /\ Socket(tasks, t, stack) /\ UNCHANGED <<queue, cache, now>>
    BY <1>1, <1>2, <1>3 DEF OpenAddress
  <1>5. count \in 0 .. MaxTasks /\ task \in [Ids -> TaskType] /\ stack \in Seq(Frames) /\ Orderly(stack)
    BY DEF Inv, TypeOK
  <1>6. t \in Ids /\ t > count /\ count' \in 0 .. MaxTasks /\ ~ (t > count')
        /\ \A x \in Ids : x # t => (x > count' <=> x > count)
    BY <1>1, <1>4, <1>5, NetworkAssumption DEF Ids
  <1>7. /\ task[t].type = "none" /\ ~ Waiting(t) /\ t \notin queue
        /\ \A d \in Endings : ~ EndsBy(stack, d, t)
    BY <1>6, BirthFacts
  <1>8. /\ new \in TaskType /\ new.type = type /\ new.owner = 0 /\ new.live = TRUE /\ new.resolve = 0
        /\ new.fd = "none" /\ new.op = FALSE /\ new.told = "nothing"
    BY <1>2 DEF NewTask, TaskType
  <1>9. tasks \in [Ids -> TaskType] /\ tasks[t] = new /\ \A x \in Ids : x # t => tasks[x] = task[x]
    BY <1>3, <1>5, <1>6, <1>8
  <1>10. /\ task' \in [Ids -> TaskType] /\ Goes(t, stack) /\ \A x \in Ids : x # t => task'[x] = tasks[x]
    BY <1>4, <1>5, <1>6, <1>7, <1>8, <1>9, SocketFacts
  <1>11. \A x \in Ids : x # t => task'[x] = task[x] /\ (x > count' <=> x > count)
    BY <1>6, <1>9, <1>10
  <1> QED BY <1>4, <1>6, <1>7, <1>10, <1>11, GoesKeeps

LEMMA OpenSocketKeeps ==
  ASSUME Inv, OpenSocket
  PROVE  Inv'
  <1>1. PICK t : t = count + 1
    OBVIOUS
  <1>2. PICK new : new = NewTask("accept", "none", 0)
    OBVIOUS
  <1>3. PICK n : n = [new EXCEPT !.fd = "open", !.op = TRUE]
    OBVIOUS
  <1>4. /\ t <= MaxTasks /\ count' = t /\ task' = [task EXCEPT ![t] = n]
        /\ UNCHANGED <<queue, cache, now, stack>>
    BY <1>1, <1>2, <1>3 DEF OpenSocket
  <1>5. count \in 0 .. MaxTasks /\ task \in [Ids -> TaskType] /\ stack \in Seq(Frames) /\ Orderly(stack)
    BY DEF Inv, TypeOK
  <1>6. t \in Ids /\ t > count /\ count' \in 0 .. MaxTasks /\ ~ (t > count')
        /\ \A x \in Ids : x # t => (x > count' <=> x > count)
    BY <1>1, <1>4, <1>5, NetworkAssumption DEF Ids
  <1>7. /\ task[t].type = "none" /\ ~ Waiting(t) /\ t \notin queue
        /\ \A d \in Endings : ~ EndsBy(stack, d, t)
    BY <1>6, BirthFacts
  <1>8. /\ new \in TaskType /\ new.type = "accept" /\ new.owner = 0 /\ new.live = TRUE
        /\ new.resolve = 0 /\ new.told = "nothing"
    BY <1>2 DEF NewTask, TaskType
  <1>9. n \in TaskType
    BY <1>3, <1>8 DEF TaskType
  <1>10. /\ n.type = "accept" /\ n.owner = 0 /\ n.live = TRUE /\ n.resolve = 0
         /\ n.told = "nothing" /\ n.fd = "open" /\ n.op = TRUE
    BY <1>3, <1>8 DEF TaskType
  <1>11. task' \in [Ids -> TaskType] /\ task'[t] = n /\ \A x \in Ids : x # t => task'[x] = task[x]
    BY <1>4, <1>5, <1>6, <1>9
  <1>12. Goes(t, stack)
    BY <1>4, <1>5, <1>10, <1>11, PushNothing DEF Goes
  <1>13. \A x \in Ids : x # t => task'[x] = task[x] /\ (x > count' <=> x > count)
    BY <1>6, <1>11
  <1> QED BY <1>4, <1>6, <1>7, <1>11, <1>12, <1>13, GoesKeeps

\* A task with an accept or a connect in flight.
LEMMA OperationFacts ==
  ASSUME Inv, NEW t \in Ids, task[t].type \in {"accept", "connect"}, task[t].op
  PROVE  /\ task[t].owner = 0 /\ task[t].live /\ task[t].resolve = 0 /\ task[t].told = "nothing"
         /\ task[t].fd # "given" /\ t \notin queue /\ ~ Waiting(t) /\ ~ (t > count)
  <1>1. Opening(t) /\ ~ (t > count)
    BY DEF Inv, Fit
  <1> QED BY <1>1 DEF Opening

LEMMA AcceptedKeeps ==
  ASSUME Inv, NEW t \in Ids, NEW ok \in BOOLEAN, Accepted(t, ok)
  PROVE  Inv'
  <1>1. /\ stack = <<>> /\ task[t].type = "accept" /\ task[t].op
        /\ task' = [task EXCEPT ![t].op = ok, ![t].told = IF ok THEN @ ELSE "ended"]
        /\ stack' = IF ok THEN <<Client(t)>> ELSE Error(t)
        /\ UNCHANGED <<count, queue, cache, now>>
    BY DEF Accepted, Idle
  <1>2. count \in 0 .. MaxTasks /\ task \in [Ids -> TaskType] /\ task[t] \in TaskType
        /\ stack \in Seq(Frames) /\ Orderly(stack)
    BY DEF Inv, TypeOK
  <1>3. /\ task[t].owner = 0 /\ task[t].live /\ task[t].resolve = 0 /\ task[t].told = "nothing"
        /\ task[t].fd # "given" /\ t \notin queue /\ ~ Waiting(t) /\ ~ (t > count)
    BY <1>1, OperationFacts
  <1>4. \A d \in Endings : ~ EndsBy(stack, d, t)
    BY <1>1, EmptyStack
  <1>5. PICK n : n = [task[t] EXCEPT !.op = ok, !.told = IF ok THEN @ ELSE "ended"]
    OBVIOUS
  <1>6. n \in TaskType
    BY <1>2, <1>5 DEF TaskType
  <1>7. /\ n.type = "accept" /\ n.owner = 0 /\ n.live /\ n.resolve = 0 /\ n.fd # "given"
        /\ n.op = ok /\ n.told = IF ok THEN "nothing" ELSE "ended"
    BY <1>1, <1>2, <1>3, <1>5 DEF TaskType
  <1>8. task' = [task EXCEPT ![t] = n]
    BY <1>1, <1>5
  <1>9. task' \in [Ids -> TaskType] /\ task'[t] = n /\ \A x \in Ids : x # t => task'[x] = task[x]
    BY <1>2, <1>6, <1>8
  <1>10. CASE ok
    <2>1. Pushed(stack', stack, "client", t)
      <3>1. <<Client(t)>> \o stack = <<Client(t)>>
        BY <1>1
      <3>2. Pushed(<<Client(t)>> \o stack, stack, "client", t)
        BY <1>2, PushClient
      <3> QED BY <1>1, <1>10, <3>1, <3>2
    <2>2. Goes(t, stack)
      BY <1>7, <1>9, <1>10, <2>1 DEF Goes
    <2> QED BY <1>1, <1>2, <1>3, <1>4, <1>7, <1>9, <2>2, GoesKeeps
  <1>11. CASE ~ ok
    <2>1. Pushed(stack', stack, "cancel", t)
      <3>1. Error(t) \o stack = Error(t)
        BY <1>1 DEF Error
      <3>2. Pushed(Error(t) \o stack, stack, "cancel", t)
        BY <1>2, <1>4, PushError
      <3> QED BY <1>1, <1>11, <3>1, <3>2
    <2>2. Goes(t, stack)
      BY <1>7, <1>9, <1>11, <2>1 DEF Goes
    <2> QED BY <1>1, <1>2, <1>3, <1>4, <1>7, <1>9, <2>2, GoesKeeps
  <1> QED BY <1>10, <1>11

LEMMA ConnectEndsKeeps ==
  ASSUME Inv, NEW t \in Ids, NEW ok \in BOOLEAN, ConnectEnds(t, ok)
  PROVE  Inv'
  <1>1. /\ stack = <<>> /\ task[t].type = "connect" /\ task[t].op
        /\ task' = [task EXCEPT ![t].op = FALSE, ![t].told = IF ok THEN "connected" ELSE "ended"]
        /\ stack' = IF ok THEN <<Client(t), Connected(t)>> ELSE Error(t)
        /\ UNCHANGED <<count, queue, cache, now>>
    BY DEF ConnectEnds, Idle
  <1>2. count \in 0 .. MaxTasks /\ task \in [Ids -> TaskType] /\ task[t] \in TaskType
        /\ stack \in Seq(Frames) /\ Orderly(stack)
    BY DEF Inv, TypeOK
  <1>3. /\ task[t].owner = 0 /\ task[t].live /\ task[t].resolve = 0 /\ task[t].told = "nothing"
        /\ task[t].fd # "given" /\ t \notin queue /\ ~ Waiting(t) /\ ~ (t > count)
    BY <1>1, OperationFacts
  <1>4. \A d \in Endings : ~ EndsBy(stack, d, t)
    BY <1>1, EmptyStack
  <1>5. PICK n : n = [task[t] EXCEPT !.op = FALSE, !.told = IF ok THEN "connected" ELSE "ended"]
    OBVIOUS
  <1>6. n \in TaskType
    BY <1>2, <1>5 DEF TaskType
  <1>7. /\ n.type = "connect" /\ n.owner = 0 /\ n.live /\ n.resolve = 0 /\ n.fd # "given"
        /\ n.op = FALSE /\ n.told = IF ok THEN "connected" ELSE "ended"
    BY <1>1, <1>2, <1>3, <1>5 DEF TaskType
  <1>8. task' = [task EXCEPT ![t] = n]
    BY <1>1, <1>5
  <1>9. task' \in [Ids -> TaskType] /\ task'[t] = n /\ \A x \in Ids : x # t => task'[x] = task[x]
    BY <1>2, <1>6, <1>8
  <1>10. CASE ok
    <2>1. Pushed(stack', stack, "connected", t)
      <3>1. <<Client(t), Connected(t)>> \o stack = <<Client(t), Connected(t)>>
        BY <1>1
      <3>2. /\ Connected(t) \in Frames /\ Connected(t).do = "connected" /\ Connected(t).task = t
            /\ "connected" \in Endings
        BY FrameFacts, EndingNames
      <3>3. Pushed(<<Client(t), Connected(t)>> \o stack, stack, "connected", t)
        BY <1>2, <1>4, <3>2, PushEnding
      <3> QED BY <1>1, <1>10, <3>1, <3>3
    <2>2. Goes(t, stack)
      BY <1>7, <1>9, <1>10, <2>1 DEF Goes
    <2> QED BY <1>1, <1>2, <1>3, <1>4, <1>7, <1>9, <2>2, GoesKeeps
  <1>11. CASE ~ ok
    <2>1. Pushed(stack', stack, "cancel", t)
      <3>1. Error(t) \o stack = Error(t)
        BY <1>1 DEF Error
      <3>2. Pushed(Error(t) \o stack, stack, "cancel", t)
        BY <1>2, <1>4, PushError
      <3> QED BY <1>1, <1>11, <3>1, <3>2
    <2>2. Goes(t, stack)
      BY <1>7, <1>9, <1>11, <2>1 DEF Goes
    <2> QED BY <1>1, <1>2, <1>3, <1>4, <1>7, <1>9, <2>2, GoesKeeps
  <1> QED BY <1>10, <1>11

\* The frames of a resolve task that waits or is scheduled are as they were.
LEMMA UnchangedFrames ==
  ASSUME Inv, UNCHANGED <<cache, now, stack>>
  PROVE  Rest' /\ \A x : Waiting(x)' <=> Waiting(x)
  <1>1. Rest /\ Orderly(stack') /\ UNCHANGED <<cache, now>> /\ stack' = stack
    BY DEF Inv, Rest
  <1> QED BY <1>1, PlainStep

LEMMA ResolveKeeps ==
  ASSUME Inv, NEW host \in Hosts, Resolve(host)
  PROVE  Inv'
  <1>1. PICK t : t = count + 1
    OBVIOUS
  <1>2. PICK new : new = NewTask("resolve", host, 0)
    OBVIOUS
  <1>3. /\ t <= MaxTasks /\ count' = t /\ task' = [task EXCEPT ![t] = new]
        /\ queue' = queue \cup {t} /\ UNCHANGED <<cache, now, stack>>
    BY <1>1, <1>2 DEF Resolve
  <1>4. TypeOK /\ \A x \in Ids : Fit(x)
    BY DEF Inv
  <1>5. count \in 0 .. MaxTasks /\ task \in [Ids -> TaskType] /\ queue \subseteq Ids
    BY <1>4 DEF TypeOK
  <1>6. t \in Ids /\ t > count /\ count' \in 0 .. MaxTasks /\ ~ (t > count')
        /\ \A x \in Ids : x # t => (x > count' <=> x > count)
    BY <1>1, <1>3, <1>5, NetworkAssumption DEF Ids
  <1>7. /\ task[t].type = "none" /\ ~ Waiting(t) /\ t \notin queue
        /\ \A d \in Endings : ~ EndsBy(stack, d, t)
    BY <1>6, BirthFacts
  <1>8. /\ new \in TaskType /\ new.type = "resolve" /\ new.owner = 0 /\ new.live = TRUE
        /\ new.resolve = 0 /\ new.fd = "none" /\ new.op = FALSE /\ new.told = "nothing"
    BY <1>2 DEF NewTask, TaskType
  <1>9. task' \in [Ids -> TaskType] /\ task'[t] = new /\ \A x \in Ids : x # t => task'[x] = task[x]
    BY <1>3, <1>5, <1>6, <1>8
  <1>10. Rest' /\ \A x : Waiting(x)' <=> Waiting(x)
    BY <1>3, UnchangedFrames
  <1>11. TypeOK'
    BY <1>3, <1>4, <1>5, <1>6, <1>9 DEF TypeOK
  <1>12. Fit(t)'
    <2>1. Resolving(t)'
      BY <1>3, <1>7, <1>8, <1>9, <1>10, EndingNames DEF Resolving
    <2> QED BY <1>6, <1>8, <1>9, <2>1 DEF Fit
  <1>13. ASSUME NEW x \in Ids, x # t PROVE Fit(x)'
    <2>1. \A y \in Ids : y # t => task'[y] = task[y] /\ (y \in queue' <=> y \in queue)
      BY <1>3, <1>9
    <2>2. \A d \in Endings : EndsBy(stack', d, x) <=> EndsBy(stack, d, x)
      BY <1>3
    <2> QED BY <1>4, <1>6, <1>7, <1>10, <1>13, <2>1, <2>2, OtherKept
  <1>14. \A x \in Ids : Fit(x)'
    BY <1>12, <1>13
  <1> QED BY <1>10, <1>11, <1>14 DEF Inv, Rest

LEMMA OpenKeeps ==
  ASSUME Inv, NEW type \in {"accept", "connect"}, NEW host \in Hosts, Open(type, host)
  PROVE  Inv'
  <1>1. PICK t : t = count + 1
    OBVIOUS
  <1>2. PICK r : r = t + 1
    OBVIOUS
  <1>3. PICK new, res : new = [NewTask(type, host, 0) EXCEPT !.resolve = r] /\ res = NewTask("resolve", host, t)
    OBVIOUS
  <1>4. /\ count + 2 <= MaxTasks /\ count' = count + 2 /\ task' = [task EXCEPT ![t] = new, ![r] = res]
        /\ queue' = queue \cup {r} /\ UNCHANGED <<cache, now, stack>>
    BY <1>1, <1>2, <1>3 DEF Open
  <1>5. TypeOK /\ \A x \in Ids : Fit(x)
    BY DEF Inv
  <1>6. count \in 0 .. MaxTasks /\ task \in [Ids -> TaskType] /\ queue \subseteq Ids
    BY <1>5 DEF TypeOK
  <1>7. /\ t \in Ids /\ t > count /\ r \in Ids /\ r > count /\ t # r /\ r # 0 /\ t # 0 /\ t \in Nat /\ r \in Nat
        /\ count' \in 0 .. MaxTasks /\ ~ (t > count') /\ ~ (r > count')
        /\ \A x \in Ids : x # t /\ x # r => (x > count' <=> x > count)
    BY <1>1, <1>2, <1>4, <1>6, NetworkAssumption DEF Ids
  <1>8. /\ task[t].type = "none" /\ ~ Waiting(t) /\ t \notin queue
        /\ \A d \in Endings : ~ EndsBy(stack, d, t)
        /\ task[r].type = "none" /\ ~ Waiting(r) /\ r \notin queue
        /\ \A d \in Endings : ~ EndsBy(stack, d, r)
    BY <1>7, BirthFacts
  <1>9. /\ res \in TaskType /\ res.type = "resolve" /\ res.owner = t /\ res.live = TRUE
        /\ res.resolve = 0 /\ res.fd = "none" /\ res.op = FALSE /\ res.told = "nothing"
    BY <1>3, <1>7 DEF NewTask, TaskType
  <1>10. /\ new \in TaskType /\ new.type = type /\ new.owner = 0 /\ new.live = TRUE
         /\ new.resolve = r /\ new.fd = "none" /\ new.op = FALSE /\ new.told = "nothing"
    BY <1>3, <1>7 DEF NewTask, TaskType
  <1>11. /\ task' \in [Ids -> TaskType] /\ task'[t] = new /\ task'[r] = res
         /\ \A x \in Ids : x # t /\ x # r => task'[x] = task[x]
    BY <1>4, <1>6, <1>7, <1>9, <1>10
  <1>12. Rest' /\ \A x : Waiting(x)' <=> Waiting(x)
    BY <1>4, UnchangedFrames
  <1>13. TypeOK'
    BY <1>4, <1>5, <1>6, <1>7, <1>11 DEF TypeOK
  <1>14. Fit(t)'
    <2>1. Opening(t)'
      BY <1>4, <1>7, <1>8, <1>9, <1>10, <1>11, <1>12, EndingNames DEF Opening
    <2> QED BY <1>7, <1>10, <1>11, <2>1 DEF Fit
  <1>15. Fit(r)'
    <2>1. Resolving(r)'
      BY <1>4, <1>7, <1>8, <1>9, <1>10, <1>11, <1>12, EndingNames DEF Resolving
    <2> QED BY <1>7, <1>9, <1>11, <2>1 DEF Fit
  <1>16. ASSUME NEW x \in Ids, x # t, x # r PROVE Fit(x)'
    <2> DEFINE S == {t, r}
    <2>1. S \in SUBSET Ids /\ x \notin S /\ \A y : y \in S <=> y = t \/ y = r
      BY <1>7, <1>16
    <2> HIDE DEF S
    <2>2. \A y \in Ids : y \notin S => task'[y] = task[y] /\ (y \in queue' <=> y \in queue)
      BY <1>4, <1>11, <2>1
    <2>3. \A d \in Endings : EndsBy(stack', d, x) <=> EndsBy(stack, d, x)
      BY <1>4
    <2>4. \A y \in S : task[y].type = "none"
      BY <1>8, <2>1
    <2> QED BY <1>5, <1>7, <1>12, <1>16, <2>1, <2>2, <2>3, <2>4, OthersKept
  <1>17. \A x \in Ids : Fit(x)'
    BY <1>14, <1>15, <1>16
  <1> QED BY <1>12, <1>13, <1>17 DEF Inv, Rest

-----------------------------------------------------------------------------
(* Resolving *)

\* A step that leaves the cache alone and answers no request that is in it.
LEMMA CacheKept ==
  ASSUME Rest, UNCHANGED <<cache, now>>, Orderly(stack'), AllTrue(stack', now),
         \A x \in Ids : Answering(stack', x) => Answering(stack, x) \/ ~ InCache(x)
  PROVE  Rest' /\ \A x : Waiting(x)' <=> InCache(x) \/ Answering(stack', x)
  <1>1. Requests'
    <2> SUFFICES ASSUME NEW h \in Names
                 PROVE  /\ Distinct(cache[h].requests)
                        /\ cache[h].async = "none" <=> cache[h].requests = <<>>
                        /\ \A t \in Ids : Among(t, cache[h].requests) =>
                             /\ ~ Answering(stack', t)
                             /\ \A g \in Names : Among(t, cache[g].requests) => g = h
      BY DEF Requests
    <2> QED BY DEF Rest, Requests, InCache
  <1>2. Entries' /\ Truthful'
    BY TruthFacts DEF Rest, Entries
  <1>3. \A x : InCache(x)' <=> InCache(x)
    BY DEF InCache
  <1>4. \A x : Waiting(x)' <=> InCache(x) \/ Answering(stack', x)
    BY <1>3, WaitingFacts, Zenon
  <1> QED BY <1>1, <1>2, <1>4 DEF Rest

\* The task whose call is made, and its user.
LEMMA UserFacts ==
  ASSUME Inv, NEW t \in queue
  PROVE  /\ t \in Ids /\ task[t].type = "resolve" /\ Resolving(t) /\ ~ Waiting(t)
         /\ User(t) \in Ids /\ ~ Waiting(User(t))
         /\ task[t].owner = 0 => User(t) = t
         /\ task[t].owner # 0 =>
              /\ User(t) # t /\ User(t) = task[t].owner /\ Opening(User(t))
              /\ task[User(t)].type \in {"accept", "connect"}
              /\ task[User(t)].live /\ task[User(t)].resolve = t
  <1>1. t \in Ids /\ TypeOK /\ \A x \in Ids : Fit(x)
    BY DEF Inv, TypeOK
  <1>2. task[t].type = "resolve"
    BY <1>1, TypeFacts DEF Fit, Unborn, Opening
  <1>3. Resolving(t)
    BY <1>1, <1>2 DEF Fit
  <1>4. CASE task[t].owner = 0
    BY <1>1, <1>2, <1>3, <1>4 DEF User, Resolving
  <1>5. CASE task[t].owner # 0
    <2>1. PICK u \in Ids : u = task[t].owner
      BY <1>3, <1>5 DEF Resolving
    <2>2. User(t) = u /\ task[u].type \in {"accept", "connect"} /\ task[u].live /\ task[u].resolve = t
      BY <1>3, <1>5, <2>1 DEF User, Resolving
    <2>3. Opening(u)
      BY <1>1, <2>2 DEF Fit
    <2>4. ~ Waiting(u)
      BY <1>1, <2>2, <2>3, IdsFacts DEF Opening
    <2> QED BY <1>1, <1>2, <1>3, <1>5, <2>1, <2>2, <2>3, <2>4 DEF Resolving
  <1> QED BY <1>4, <1>5

\* The request of the user of t waits for an address, in the cache or being
\* answered; t itself is released then, or soon.
LEMMA AskedFits ==
  ASSUME Inv, NEW t \in queue, NEW u, u = User(t), stack = <<>>, queue' = queue \ {t}, count' = count,
         \A x \in Ids : x # t => task'[x] = task[x],
         /\ task'[t].type = task[t].type /\ task'[t].owner = task[t].owner /\ task'[t].op = task[t].op
         /\ task'[t].resolve = task[t].resolve /\ task'[t].fd = task[t].fd /\ task'[t].told = task[t].told,
         \A x \in Ids : Waiting(x)' <=> Waiting(x) \/ x = u,
         \A d \in Endings, x \in Ids : EndsBy(stack', d, x) <=> d = "done" /\ x = t /\ task'[t].live
  PROVE  \A x \in Ids : Fit(x)'
  <1>1. TypeOK /\ \A x \in Ids : Fit(x)
    BY DEF Inv
  <1>2. /\ t \in Ids /\ task[t].type = "resolve" /\ Resolving(t) /\ ~ Waiting(t)
        /\ u \in Ids /\ ~ Waiting(u)
        /\ task[t].owner = 0 => u = t
        /\ task[t].owner # 0 =>
              /\ u # t /\ u = task[t].owner /\ Opening(u) /\ task[u].type \in {"accept", "connect"}
              /\ task[u].live /\ task[u].resolve = t
    BY UserFacts
  <1>3. \A d, x : ~ EndsBy(stack, d, x)
    BY EmptyStack
  <1>4. Fit(t)'
    <2>1. /\ EndsBy(stack', "done", t) <=> task'[t].live
          /\ ~ EndsBy(stack', "cancel", t) /\ ~ EndsBy(stack', "connected", t)
      BY <1>2, EndingNames
    <2>2. Waiting(t)' <=> t = u
      BY <1>2
    <2>3. t \notin queue'
      OBVIOUS
    <2>4. task[t].told = "nothing" /\ (task[t].owner # 0 => task'[u].type = task[u].type)
      BY <1>2 DEF Resolving
    <2>5. Resolving(t)'
      BY <1>2, <2>1, <2>2, <2>3, <2>4 DEF Resolving
    <2> QED BY <1>1, <1>2, <2>5 DEF Fit
  <1>5. ASSUME u # t PROVE Fit(u)'
    <2>1. ~ EndsBy(stack', "done", u) /\ ~ EndsBy(stack', "cancel", u) /\ ~ EndsBy(stack', "connected", u)
      BY <1>2, <1>5, EndingNames
    <2>2. Waiting(u)' /\ u \notin queue' /\ t \notin queue' /\ task'[u] = task[u] /\ task[t].owner # 0
      BY <1>2, <1>5 DEF Opening
    <2>3. Opening(u) /\ task[u].type \in {"accept", "connect"} /\ task[u].live /\ task[u].resolve = t
      BY <1>2, <1>5
    <2>4. t # 0
      BY <1>2, IdsFacts
    <2>5. Opening(u)'
      BY <1>2, <1>3, <2>1, <2>2, <2>3, <2>4 DEF Opening
    <2> QED BY <1>1, <1>2, <2>2, <2>3, <2>5 DEF Fit
  <1>6. ASSUME NEW x \in Ids, x # t, x # u PROVE Fit(x)'
    <2>1. \A y \in Ids : y # t => task'[y] = task[y] /\ (y \in queue' <=> y \in queue)
      OBVIOUS
    <2>2. Waiting(x)' <=> Waiting(x)
      BY <1>6
    <2>3. \A d \in Endings : EndsBy(stack', d, x) <=> EndsBy(stack, d, x)
      BY <1>3, <1>6
    <2>4. task[t].owner # x
      BY <1>2, <1>6, IdsFacts
    <2> QED BY <1>1, <1>2, <1>6, <2>1, <2>2, <2>3, <2>4, OtherKept
  <1> QED BY <1>4, <1>5, <1>6

\* network_resolve_task_next() with the address at hand.
LEMMA AtHandKeeps ==
  ASSUME Inv, NEW t \in queue, stack = <<>>, UNCHANGED <<count, task, cache, now>>,
         queue' = queue \ {t}, NEW f \in Frames, f.do = "deliver", f.users = <<User(t)>>,
         True(f, now), stack' = <<f, Done(t)>>
  PROVE  Inv'
  <1>1. TypeOK /\ Rest
    BY DEF Inv, Rest
  <1>2. PICK u : u = User(t)
    OBVIOUS
  <1>3. t \in Ids /\ u \in Ids /\ ~ Waiting(u) /\ f.users = <<u>>
    BY <1>2, UserFacts
  <1>4. f.users # <<>> /\ Distinct(f.users) /\ \A x : Among(x, f.users) <=> x = u
    <2>1. <<u>> # <<>> /\ Distinct(<<u>>) /\ \A x : Among(x, <<u>>) <=> x = u
      BY <1>3, SingleFacts
    <2> QED BY <1>3, <2>1, Zenon
  <1>5. PICK e : e = <<>>
    OBVIOUS
  <1>6. PICK g : g = Done(t)
    OBVIOUS
  <1>7. g \in Frames /\ g.do = "done" /\ g.task = t
    BY <1>3, <1>6, FrameFacts
  <1>8. /\ e \in Seq(Frames) /\ Orderly(e) /\ NoDeliver(e) /\ AllTrue(e, now)
        /\ \A x : ~ Answering(e, x) /\ \A d : ~ EndsBy(e, d, x)
    BY <1>5, EmptyStack
  <1>9. PICK r : r = Cons(g, e)
    OBVIOUS
  <1>10. /\ r \in Seq(Frames) /\ Orderly(r) /\ NoDeliver(r) /\ AllTrue(r, now)
         /\ \A x : ~ Answering(r, x)
         /\ \A d, x : EndsBy(r, d, x) <=> d = "done" /\ x = t
    <2>1. r \in Seq(Frames)
      BY <1>7, <1>8, <1>9, ConsIndices DEF Shape
    <2>2. Orderly(r)
      BY <1>7, <1>8, <1>9, ConsOrderly
    <2>3. NoDeliver(r)
      BY <1>7, <1>8, <1>9, ConsTrue
    <2>4. AllTrue(r, now)
      <3>1. True(g, now)
        BY <1>7 DEF True
      <3> QED BY <1>7, <1>8, <1>9, <3>1, ConsTrue
    <2>5. \A x : ~ Answering(r, x)
      BY <1>7, <1>8, <1>9, ConsAnswering
    <2>6. ASSUME NEW d, NEW x PROVE EndsBy(r, d, x) <=> d = "done" /\ x = t
      <3>1. EndsBy(r, d, x) <=> (g.do = d /\ g.task = x) \/ EndsBy(e, d, x)
        BY <1>7, <1>8, <1>9, ConsEnds
      <3> QED BY <1>7, <1>8, <3>1
    <2> QED BY <2>1, <2>2, <2>3, <2>4, <2>5, <2>6
  <1>11. stack' = Cons(f, r)
    <2>1. <<f, g>> = Cons(f, Cons(g, <<>>))
      BY <1>7, <1>8, PushFacts
    <2> QED BY <1>5, <1>6, <1>9, <2>1
  <1>12. stack' \in Seq(Frames)
    <2>1. Cons(f, r) \in Seq(Frames)
      BY <1>10, ConsIndices DEF Shape
    <2> QED BY <1>11, <2>1, Zenon
  <1>13. Orderly(stack')
    <2>1. f.do \notin Endings
      BY DEF Endings
    <2> QED BY <1>4, <1>10, <1>11, <2>1, ConsOrderly
  <1>14. AllTrue(stack', now)
    BY <1>10, <1>11, ConsTrue
  <1>15. \A x : Answering(stack', x) <=> x = u
    BY <1>4, <1>10, <1>11, ConsAnswering
  <1>16. \A d \in Endings, x \in Ids : EndsBy(stack', d, x) <=> d = "done" /\ x = t
    <2>1. f.do \notin Endings
      BY DEF Endings
    <2> QED BY <1>10, <1>11, <2>1, ConsEnds
  <1>17. \A x : ~ Answering(stack, x)
    BY EmptyStack
  <1>18. \A x : Waiting(x) <=> InCache(x)
    BY <1>17, WaitingFacts
  <1>19. Rest' /\ \A x : Waiting(x)' <=> InCache(x) \/ Answering(stack', x)
    BY <1>1, <1>3, <1>13, <1>14, <1>15, <1>18, CacheKept
  <1>20. \A x \in Ids : Waiting(x)' <=> Waiting(x) \/ x = u
    BY <1>15, <1>18, <1>19
  <1>21. task[t].live
    BY <1>3, UserFacts DEF Resolving
  <1>22. \A x \in Ids : Fit(x)'
    BY <1>2, <1>3, <1>16, <1>20, <1>21, AskedFits
  <1>23. TypeOK'
    BY <1>1, <1>12 DEF TypeOK
  <1> QED BY <1>19, <1>22, <1>23 DEF Inv, Rest

LEMMA NextNumericKeeps ==
  ASSUME Inv, NEW t \in queue, NEW ai \in BOOLEAN, NextNumeric(t, ai)
  PROVE  Inv'
  <1>1. PICK c : c = [NewCache EXCEPT !.found = ai, !.at = now]
    OBVIOUS
  <1>0. PICK users : users = <<User(t)>>
    OBVIOUS
  <1>2. PICK f : f = Deliver(users, ai, c)
    OBVIOUS
  <1>3. /\ stack = <<>> /\ UNCHANGED <<count, task, cache, now>> /\ queue' = queue \ {t}
        /\ stack' = <<f, Done(t)>>
    BY <1>0, <1>1, <1>2 DEF NextNumeric, Called, Idle
  <1>4. now \in Nat
    BY DEF Inv, TypeOK
  <1>5. c.found = ai /\ c.at = now /\ c.lost = FALSE
    BY <1>1 DEF NewCache
  <1>6. users \in Seq(Ids)
    BY <1>0, UserFacts
  <1>7. /\ f \in Frames /\ f.do = "deliver" /\ f.users = users /\ f.ai = ai
        /\ f.found = ai /\ f.at = now
    BY <1>2, <1>4, <1>5, <1>6 DEF Deliver, Frames
  <1>8. True(f, now)
    BY <1>7 DEF True
  <1> QED BY <1>0, <1>3, <1>7, <1>8, AtHandKeeps

LEMMA CacheFacts ==
  ASSUME TypeOK, NEW h \in Names
  PROVE  /\ cache[h] \in CacheType
         /\ cache[h].ai \in BOOLEAN /\ cache[h].expire \in Nat
         /\ cache[h].async \in {"none", "running", "looked"} /\ cache[h].requests \in Seq(Ids)
         /\ cache[h].found \in BOOLEAN /\ cache[h].at \in Nat /\ cache[h].lost \in BOOLEAN
  <1>1. cache[h] \in CacheType
    BY DEF TypeOK
  <1> QED BY <1>1 DEF CacheType

LEMMA NextCachedKeeps ==
  ASSUME Inv, NEW t \in queue, NextCached(t)
  PROVE  Inv'
  <1>1. PICK c : c = cache[task[t].host]
    OBVIOUS
  <1>0. PICK users, yes : users = <<User(t)>> /\ yes = TRUE
    OBVIOUS
  <1>2. PICK f : f = Deliver(users, yes, c)
    OBVIOUS
  <1>3. /\ stack = <<>> /\ UNCHANGED <<count, task, cache, now>> /\ queue' = queue \ {t}
        /\ stack' = <<f, Done(t)>> /\ task[t].host \in Names /\ c.ai /\ now < c.expire
    BY <1>0, <1>1, <1>2 DEF NextCached, Called, Idle, Fresh
  <1>4. now \in Nat /\ TypeOK /\ Entries
    BY DEF Inv, TypeOK
  <1>5. c.found \in BOOLEAN /\ c.at \in Nat /\ c.lost \in BOOLEAN /\ c.expire \in Nat
    BY <1>1, <1>3, <1>4, CacheFacts
  <1>6. c.found /\ (c.expire = 0 \/ c.expire = c.at + Expiration)
    BY <1>1, <1>3, <1>4 DEF Entries
  <1>7. users \in Seq(Ids)
    BY <1>0, UserFacts
  <1>8. /\ f \in Frames /\ f.do = "deliver" /\ f.users = users /\ f.ai = yes
        /\ f.found = c.found /\ f.at = c.at
    BY <1>0, <1>2, <1>5, <1>7 DEF Deliver, Frames
  <1>9. now - c.at < Expiration
    BY <1>3, <1>4, <1>5, <1>6, NetworkAssumption
  <1>10. True(f, now)
    BY <1>0, <1>6, <1>8, <1>9 DEF True
  <1> QED BY <1>0, <1>3, <1>8, <1>10, AtHandKeeps

LEMMA NextLookupKeeps ==
  ASSUME Inv, NEW t \in queue, NextLookup(t)
  PROVE  Inv'
  <1>1. PICK h, u : h = task[t].host /\ u = User(t)
    OBVIOUS
  <1>2. PICK c, n : c = cache[h] /\ n = Requested(c, u)
    OBVIOUS
  <1>3. /\ stack = <<>> /\ h \in Names /\ queue' = queue \ {t} /\ cache' = [cache EXCEPT ![h] = n]
        /\ task' = [task EXCEPT ![t].live = FALSE] /\ UNCHANGED <<count, now, stack>>
    BY <1>1, <1>2 DEF NextLookup, Called, Idle
  <1>4. TypeOK /\ Rest /\ cache \in [Names -> CacheType] /\ task \in [Ids -> TaskType]
    BY DEF Inv, Rest, TypeOK
  <1>5. t \in Ids /\ u \in Ids /\ ~ Waiting(u) /\ task[t] \in TaskType
    BY <1>1, <1>4, UserFacts
  <1>6. /\ c \in CacheType /\ c.requests \in Seq(Ids) /\ c.async \in {"none", "running", "looked"}
        /\ c.ai \in BOOLEAN /\ c.lost \in BOOLEAN /\ c.found \in BOOLEAN /\ c.expire \in Nat /\ c.at \in Nat
    BY <1>2, <1>3, <1>4, CacheFacts
  <1>7. PICK q : q = Append(c.requests, u)
    OBVIOUS
  <1>8. /\ ~ InCache(u) /\ ~ Among(u, c.requests) /\ Distinct(c.requests)
    BY <1>2, <1>3, <1>4, <1>5, WaitingFacts DEF InCache, Rest, Requests
  <1>9. /\ q \in Seq(Ids) /\ q # <<>> /\ Distinct(q)
        /\ \A x : Among(x, q) <=> x = u \/ Among(x, c.requests)
    BY <1>5, <1>6, <1>7, <1>8, AmongFacts
  <1>10. n \in CacheType
    BY <1>2, <1>6, <1>7, <1>9, ZenonT(60) DEF Requested, CacheType
  <1>11. /\ n.ai = FALSE /\ n.expire = (IF c.ai THEN 0 ELSE c.expire) /\ n.requests = q
         /\ n.async = (IF c.async = "none" THEN "running" ELSE c.async)
         /\ n.lost = (c.lost \/ (c.ai /\ c.async = "looked")) /\ n.found = c.found /\ n.at = c.at
    BY <1>2, <1>6, <1>7 DEF Requested, CacheType
  <1>12. cache' \in [Names -> CacheType] /\ cache'[h] = n /\ \A g \in Names : g # h => cache'[g] = cache[g]
    BY <1>3, <1>4, <1>10
  <1>13. /\ task' \in [Ids -> TaskType] /\ \A x \in Ids : x # t => task'[x] = task[x]
    BY <1>3, <1>4, <1>5 DEF TaskType
  <1>14. /\ task'[t].type = task[t].type /\ task'[t].owner = task[t].owner /\ task'[t].op = task[t].op
         /\ task'[t].resolve = task[t].resolve /\ task'[t].fd = task[t].fd
         /\ task'[t].told = task[t].told /\ ~ task'[t].live
    <2>1. task'[t] = [task[t] EXCEPT !.live = FALSE]
      BY <1>3, <1>4, <1>5
    <2> QED BY <1>5, <2>1 DEF TaskType
  <1>15. TypeOK'
    BY <1>3, <1>4, <1>12, <1>13 DEF TypeOK
  <1>16. \A x : ~ Answering(stack, x) /\ ~ Answering(stack', x)
    BY <1>3, EmptyStack
  <1>17. ASSUME NEW x \in Ids PROVE Waiting(x)' <=> Waiting(x) \/ x = u
    <2>1. Waiting(x) <=> InCache(x)
      BY <1>16, WaitingFacts
    <2>2. Waiting(x)' <=> InCache(x)'
      BY <1>16, WaitingFacts
    <2>3. ASSUME InCache(x) PROVE InCache(x)'
      BY <1>2, <1>3, <1>9, <1>11, <1>12, <2>3 DEF InCache
    <2>4. ASSUME x = u PROVE InCache(x)'
      BY <1>3, <1>9, <1>11, <1>12, <2>4 DEF InCache
    <2>5. ASSUME InCache(x)', x # u PROVE InCache(x)
      BY <1>2, <1>3, <1>9, <1>11, <1>12, <2>5 DEF InCache
    <2> QED BY <2>1, <2>2, <2>3, <2>4, <2>5
  <1>18. Requests'
    <2> SUFFICES ASSUME NEW g \in Names
                 PROVE  /\ Distinct(cache'[g].requests)
                        /\ cache'[g].async = "none" <=> cache'[g].requests = <<>>
                        /\ \A x \in Ids : Among(x, cache'[g].requests) =>
                             /\ ~ Answering(stack', x)
                             /\ \A k \in Names : Among(x, cache'[k].requests) => k = g
      BY DEF Requests
    <2>1. Distinct(cache'[g].requests)
      BY <1>4, <1>9, <1>11, <1>12 DEF Rest, Requests
    <2>2. cache'[g].async = "none" <=> cache'[g].requests = <<>>
      BY <1>4, <1>6, <1>9, <1>11, <1>12 DEF Rest, Requests
    <2>3. ASSUME NEW x \in Ids, NEW k \in Names,
                 Among(x, cache'[g].requests), Among(x, cache'[k].requests)
          PROVE  k = g
      <3>1. x # u => Among(x, cache[g].requests) /\ Among(x, cache[k].requests)
        BY <1>2, <1>9, <1>11, <1>12, <2>3
      <3>2. x = u => g = h /\ k = h
        BY <1>8, <1>12, <2>3 DEF InCache
      <3> QED BY <1>4, <3>1, <3>2 DEF Rest, Requests
    <2> QED BY <1>16, <2>1, <2>2, <2>3
  <1>19. Entries'
    <2> SUFFICES ASSUME NEW g \in Names
                 PROVE  /\ cache'[g].ai => cache'[g].found
                        /\ cache'[g].expire = 0 \/ cache'[g].expire = cache'[g].at + Expiration
                        /\ cache'[g].async = "looked" /\ ~ cache'[g].ai =>
                             ~ cache'[g].found \/ cache'[g].lost
      BY DEF Entries
    <2>1. CASE g = h
      BY <1>2, <1>4, <1>6, <1>11, <1>12, <2>1 DEF Rest, Entries
    <2>2. CASE g # h
      BY <1>4, <1>12, <2>2 DEF Rest, Entries
    <2> QED BY <2>1, <2>2
  <1>20. Rest'
    <2>1. Orderly(stack)' /\ Truthful'
      BY <1>3, <1>4, TruthFacts DEF Rest
    <2> QED BY <1>18, <1>19, <2>1 DEF Rest
  <1>21. \A d \in Endings, x \in Ids : EndsBy(stack', d, x) <=> d = "done" /\ x = t /\ task'[t].live
    BY <1>3, <1>14, EmptyStack
  <1>22. \A x \in Ids : Fit(x)'
    BY <1>1, <1>3, <1>13, <1>14, <1>17, <1>21, AskedFits
  <1> QED BY <1>15, <1>20, <1>22 DEF Inv, Rest

\* Steps that leave the tasks, the frames that release them and the requests alone.
LEMMA AllSame ==
  ASSUME Inv, UNCHANGED <<count, task, queue>>, \A x \in Ids : Waiting(x)' <=> Waiting(x),
         \A d \in Endings, x \in Ids : EndsBy(stack', d, x) <=> EndsBy(stack, d, x)
  PROVE  \A x \in Ids : Fit(x)'
  <1> SUFFICES ASSUME NEW x \in Ids PROVE Fit(x)'
    OBVIOUS
  <1>1. Same(x)
    BY DEF Same
  <1>2. Fit(x)
    BY DEF Inv
  <1> QED BY <1>1, <1>2, FitKept

LEMMA LookupKeeps ==
  ASSUME Inv, NEW h \in Names, NEW ai \in BOOLEAN, Lookup(h, ai)
  PROVE  Inv'
  <1>1. TypeOK /\ Rest /\ cache \in [Names -> CacheType]
    BY DEF Inv, Rest, TypeOK
  <1>2. PICK c, n : c = cache[h] /\ n = [c EXCEPT !.async = "looked", !.ai = ai, !.found = ai]
    OBVIOUS
  <1>3. /\ c.async = "running" /\ cache' = [cache EXCEPT ![h] = n]
        /\ UNCHANGED <<count, task, queue, now, stack>>
    BY <1>2 DEF Lookup
  <1>4. c \in CacheType
    BY <1>1, <1>2, CacheFacts
  <1>5. n \in CacheType
    BY <1>2, <1>4 DEF CacheType
  <1>6. /\ n.async = "looked" /\ n.ai = ai /\ n.found = ai /\ n.requests = c.requests
        /\ n.expire = c.expire /\ n.at = c.at
    BY <1>2, <1>4 DEF CacheType
  <1>7. cache' \in [Names -> CacheType] /\ cache'[h] = n /\ \A g \in Names : g # h => cache'[g] = cache[g]
    BY <1>1, <1>3, <1>5
  <1>8. \A g \in Names : cache'[g].requests = cache[g].requests
    BY <1>2, <1>6, <1>7
  <1>9. TypeOK'
    BY <1>1, <1>3, <1>7 DEF TypeOK
  <1>10. Requests'
    <2> SUFFICES ASSUME NEW g \in Names
                 PROVE  /\ Distinct(cache'[g].requests)
                        /\ cache'[g].async = "none" <=> cache'[g].requests = <<>>
                        /\ \A x \in Ids : Among(x, cache'[g].requests) =>
                             /\ ~ Answering(stack', x)
                             /\ \A k \in Names : Among(x, cache'[k].requests) => k = g
      BY DEF Requests
    <2>1. cache'[g].async = "none" <=> cache[g].async = "none"
      BY <1>2, <1>3, <1>6, <1>7
    <2> QED BY <1>1, <1>3, <1>8, <2>1 DEF Rest, Requests
  <1>11. Entries'
    <2> SUFFICES ASSUME NEW g \in Names
                 PROVE  /\ cache'[g].ai => cache'[g].found
                        /\ cache'[g].expire = 0 \/ cache'[g].expire = cache'[g].at + Expiration
                        /\ cache'[g].async = "looked" /\ ~ cache'[g].ai =>
                             ~ cache'[g].found \/ cache'[g].lost
      BY DEF Entries
    <2>1. CASE g = h
      <3>1. cache'[g] = n
        BY <1>7, <2>1
      <3>2. (n.ai => n.found) /\ (~ n.ai => ~ n.found)
        BY <1>6, Zenon
      <3>3. c.expire = 0 \/ c.expire = c.at + Expiration
        BY <1>1, <1>2 DEF Rest, Entries
      <3>4. n.expire = 0 \/ n.expire = n.at + Expiration
        BY <1>6, <3>3
      <3> QED BY <3>1, <3>2, <3>4, Zenon
    <2>2. CASE g # h
      BY <1>1, <1>7, <2>2 DEF Rest, Entries
    <2> QED BY <2>1, <2>2
  <1>12. Rest'
    <2>1. Orderly(stack)' /\ Truthful'
      BY <1>1, <1>3, TruthFacts DEF Rest
    <2> QED BY <1>10, <1>11, <2>1 DEF Rest
  <1>13. \A x : InCache(x)' <=> InCache(x)
    BY <1>8 DEF InCache
  <1>14. \A x : Waiting(x)' <=> Waiting(x)
    BY <1>3, <1>13, WaitingFacts
  <1>15. \A x \in Ids : Fit(x)'
    BY <1>3, <1>14, AllSame
  <1> QED BY <1>9, <1>12, <1>15 DEF Inv, Rest

LEMMA TickKeeps ==
  ASSUME Inv, Tick
  PROVE  Inv'
  <1>1. stack = <<>> /\ now' = now + 1 /\ UNCHANGED <<count, task, queue, cache, stack>>
    BY DEF Tick, Idle
  <1>2. TypeOK /\ Rest
    BY DEF Inv, Rest
  <1>3. TypeOK'
    BY <1>1, <1>2 DEF TypeOK
  <1>4. AllTrue(stack', now')
    BY <1>1, EmptyStack
  <1>5. Rest'
    BY <1>1, <1>2, <1>4, TruthFacts DEF Rest, Requests, Entries
  <1>6. \A x : Waiting(x)' <=> Waiting(x)
    BY <1>1 DEF Waiting
  <1>7. \A x \in Ids : Fit(x)'
    BY <1>1, <1>6, AllSame
  <1> QED BY <1>3, <1>5, <1>7 DEF Inv, Rest

LEMMA LookupReturnKeeps ==
  ASSUME Inv, NEW h \in Names, LookupReturn(h)
  PROVE  Inv'
  <1>1. TypeOK /\ Rest /\ cache \in [Names -> CacheType] /\ now \in Nat
    BY DEF Inv, Rest, TypeOK
  <1>2. PICK c, n, f : c = cache[h] /\ n = Reported(c)
                       /\ f = Deliver(c.requests, c.ai, [c EXCEPT !.at = now])
    OBVIOUS
  <1>3. /\ stack = <<>> /\ c.async = "looked" /\ cache' = [cache EXCEPT ![h] = n]
        /\ stack' = <<f>> /\ UNCHANGED <<count, task, queue, now>>
    BY <1>2 DEF LookupReturn, Idle
  <1>4. /\ c \in CacheType /\ c.requests \in Seq(Ids) /\ c.ai \in BOOLEAN
        /\ c.lost \in BOOLEAN /\ c.found \in BOOLEAN
    BY <1>1, <1>2, CacheFacts
  <1>5. n \in CacheType
    <2>1. PICK expire, e : expire = now + Expiration /\ e = <<>>
      OBVIOUS
    <2>2. expire \in Nat /\ e \in Seq(Ids)
      BY <1>1, <2>1, NetworkAssumption
    <2>3. n = [c EXCEPT !.async = "none", !.expire = expire, !.requests = e, !.at = now, !.lost = FALSE]
      BY <1>2, <2>1 DEF Reported
    <2> QED BY <1>1, <1>4, <2>2, <2>3 DEF CacheType
  <1>6. /\ n.async = "none" /\ n.expire = now + Expiration /\ n.requests = <<>> /\ n.at = now
        /\ n.ai = c.ai /\ n.found = c.found
    BY <1>2, <1>4 DEF Reported, CacheType
  <1>7. cache' \in [Names -> CacheType] /\ cache'[h] = n /\ \A g \in Names : g # h => cache'[g] = cache[g]
    BY <1>1, <1>3, <1>5
  <1>8. /\ f \in Frames /\ f.do = "deliver" /\ f.users = c.requests /\ f.ai = c.ai
        /\ f.found = c.found /\ f.at = now /\ f.lost = c.lost
    <2>1. PICK k : k = [c EXCEPT !.at = now]
      OBVIOUS
    <2>2. k.found = c.found /\ k.at = now /\ k.lost = c.lost
      BY <1>4, <2>1 DEF CacheType
    <2>3. PICK users, ai : users = c.requests /\ ai = c.ai
      OBVIOUS
    <2>4. f = [do |-> "deliver", users |-> users, ai |-> ai, found |-> c.found, at |-> now, lost |-> c.lost]
      BY <1>2, <2>1, <2>2, <2>3 DEF Deliver
    <2> QED BY <1>1, <1>4, <2>3, <2>4 DEF Frames
  <1>9. /\ c.requests # <<>> /\ Distinct(c.requests) /\ (c.ai => c.found)
        /\ (~ c.ai => ~ c.found \/ c.lost)
    BY <1>1, <1>2, <1>3 DEF Rest, Requests, Entries
  <1>10. True(f, now)
    BY <1>8, <1>9, Zenon DEF True
  <1>11. PICK e : e = <<>>
    OBVIOUS
  <1>12. /\ e \in Seq(Frames) /\ Orderly(e) /\ NoDeliver(e) /\ AllTrue(e, now)
         /\ \A x : ~ Answering(e, x) /\ \A d : ~ EndsBy(e, d, x)
    BY <1>11, EmptyStack
  <1>13. PICK o : o = stack'
    OBVIOUS
  <1>14. o = Cons(f, e)
    <2>1. <<f>> = Cons(f, <<>>)
      BY <1>8, <1>12, PushFacts
    <2> QED BY <1>3, <1>11, <1>13, <2>1
  <1>15. o \in Seq(Frames)
    BY <1>8, <1>12, <1>14, ConsIndices DEF Shape
  <1>16. f.do \notin Endings
    BY <1>8 DEF Endings
  <1>17. Orderly(o)
    BY <1>8, <1>9, <1>12, <1>14, <1>16, ConsOrderly
  <1>18. AllTrue(o, now)
    BY <1>8, <1>10, <1>12, <1>14, ConsTrue
  <1>19. \A x : Answering(o, x) <=> Among(x, c.requests)
    BY <1>8, <1>12, <1>14, ConsAnswering
  <1>20. \A d \in Endings : \A x : ~ EndsBy(o, d, x)
    BY <1>8, <1>12, <1>14, <1>16, ConsEnds
  <1>21. \A x : ~ Among(x, n.requests)
    BY <1>6, EmptyFacts, Zenon
  <1>22. TypeOK'
    BY <1>1, <1>3, <1>7, <1>13, <1>15 DEF TypeOK
  <1>23. ASSUME NEW x \in Ids PROVE Waiting(x)' <=> Waiting(x)
    <2>1. Waiting(x) <=> InCache(x)
      BY <1>3, WaitingFacts, EmptyStack
    <2>2. Waiting(x)' <=> InCache(x)' \/ Among(x, c.requests)
      BY <1>13, <1>19, WaitingFacts
    <2>3. InCache(x)' => InCache(x)
      BY <1>7, <1>21 DEF InCache
    <2>4. Among(x, c.requests) => InCache(x)
      BY <1>2 DEF InCache
    <2>5. InCache(x) => InCache(x)' \/ Among(x, c.requests)
      BY <1>2, <1>7 DEF InCache
    <2> QED BY <2>1, <2>2, <2>3, <2>4, <2>5
  <1>24. Requests'
    <2> SUFFICES ASSUME NEW g \in Names
                 PROVE  /\ Distinct(cache'[g].requests)
                        /\ cache'[g].async = "none" <=> cache'[g].requests = <<>>
                        /\ \A x \in Ids : Among(x, cache'[g].requests) =>
                             /\ ~ Answering(stack', x)
                             /\ \A k \in Names : Among(x, cache'[k].requests) => k = g
      BY DEF Requests
    <2>1. CASE g = h
      <3>1. Distinct(n.requests)
        BY <1>6 DEF Distinct
      <3> QED BY <1>6, <1>7, <1>21, <2>1, <3>1
    <2>2. CASE g # h
      <3>1. cache'[g] = cache[g]
        BY <1>7, <2>2
      <3>2. Distinct(cache[g].requests) /\ (cache[g].async = "none" <=> cache[g].requests = <<>>)
        BY <1>1 DEF Rest, Requests
      <3>3. ASSUME NEW x \in Ids, Among(x, cache[g].requests)
            PROVE  ~ Answering(stack', x) /\ \A k \in Names : Among(x, cache'[k].requests) => k = g
        <4>1. \A k \in Names : Among(x, cache[k].requests) => k = g
          BY <1>1, <3>3 DEF Rest, Requests
        <4>2. ~ Among(x, c.requests)
          BY <1>2, <2>2, <4>1
        <4> QED BY <1>7, <1>13, <1>19, <1>21, <4>1, <4>2
      <3> QED BY <3>1, <3>2, <3>3
    <2> QED BY <2>1, <2>2
  <1>25. Entries'
    <2> SUFFICES ASSUME NEW g \in Names
                 PROVE  /\ cache'[g].ai => cache'[g].found
                        /\ cache'[g].expire = 0 \/ cache'[g].expire = cache'[g].at + Expiration
                        /\ cache'[g].async = "looked" /\ ~ cache'[g].ai =>
                             ~ cache'[g].found \/ cache'[g].lost
      BY DEF Entries
    <2>1. CASE g = h
      <3>1. cache'[g] = n
        BY <1>7, <2>1
      <3>2. n.ai => n.found
        BY <1>6, <1>9, Zenon
      <3>3. n.expire = n.at + Expiration /\ n.async # "looked"
        BY <1>6
      <3> QED BY <3>1, <3>2, <3>3, Zenon
    <2>2. CASE g # h
      BY <1>1, <1>7, <2>2 DEF Rest, Entries
    <2> QED BY <2>1, <2>2
  <1>26. Rest'
    <2>1. Orderly(stack)' /\ Truthful'
      BY <1>3, <1>13, <1>17, <1>18, TruthFacts
    <2> QED BY <1>24, <1>25, <2>1 DEF Rest
  <1>27. \A d \in Endings, x \in Ids : EndsBy(stack', d, x) <=> EndsBy(stack, d, x)
    BY <1>3, <1>13, <1>20, EmptyStack
  <1>28. \A x \in Ids : Fit(x)'
    BY <1>3, <1>23, <1>27, AllSame
  <1> QED BY <1>22, <1>26, <1>28 DEF Inv, Rest

\* The frames that are left when the first user of an answer has been taken.
Remaining(s) ==
  LET f == Head(s) IN
  (IF Len(f.users) = 1 THEN <<>> ELSE <<[f EXCEPT !.users = Tail(@)]>>) \o Tail(s)

LEMMA RemainingFacts ==
  ASSUME NEW s \in Seq(Frames), s # <<>>, Orderly(s), Head(s).do = "deliver", NEW n, AllTrue(s, n)
  PROVE  /\ Head(Head(s).users) \in Ids /\ Answering(s, Head(Head(s).users))
         /\ Remaining(s) \in Seq(Frames) /\ Orderly(Remaining(s)) /\ AllTrue(Remaining(s), n)
         /\ \A x : Answering(Remaining(s), x) <=> Answering(s, x) /\ x # Head(Head(s).users)
         /\ \A d \in Endings : \A x : EndsBy(Remaining(s), d, x) <=> EndsBy(s, d, x)
  <1>1. PICK f, r : f = Head(s) /\ r = Tail(s)
    OBVIOUS
  <1>2. f \in Frames /\ r \in Seq(Frames) /\ s = Cons(f, r) /\ f.do = "deliver"
    BY <1>1, StackFacts
  <1>3. PICK users : users = f.users
    OBVIOUS
  <1>4. users \in Seq(Ids)
    BY <1>2, <1>3, DeliverFacts
  <1>5. Orderly(r) /\ NoDeliver(r) /\ users # <<>> /\ Distinct(users)
    BY <1>2, <1>3, ConsOrderly
  <1>6. PICK u, left : u = Head(users) /\ left = Tail(users)
    OBVIOUS
  <1>7. /\ u \in Ids /\ left \in Seq(Ids) /\ Among(u, users) /\ ~ Among(u, left)
        /\ \A x : x # u => (Among(x, left) <=> Among(x, users))
        /\ Distinct(left)
        /\ Len(users) = 1 => \A x : ~ Among(x, left)
        /\ Len(users) # 1 => left # <<>>
    BY <1>4, <1>5, <1>6, HeadFacts
  <1>8. \A x : ~ Answering(r, x)
    BY <1>5 DEF NoDeliver, Answering
  <1>9. \A x : Answering(s, x) <=> Among(x, users)
    BY <1>2, <1>3, <1>8, ConsAnswering
  <1>10. f.do \notin Endings
    BY <1>2 DEF Endings
  <1>11. ASSUME NEW d \in Endings, NEW x PROVE EndsBy(s, d, x) <=> EndsBy(r, d, x)
    BY <1>2, <1>10, ConsEnds
  <1>12. AllTrue(r, n) /\ True(f, n)
    BY <1>2, ConsTrue
  <1>13. PICK o : o = Remaining(s)
    OBVIOUS
  <1>14. /\ o \in Seq(Frames) /\ Orderly(o) /\ AllTrue(o, n)
         /\ \A x : Answering(o, x) <=> Among(x, left)
         /\ \A d \in Endings : \A x : EndsBy(o, d, x) <=> EndsBy(r, d, x)
    <2>1. CASE Len(users) = 1
      <3>1. o = r
        BY <1>1, <1>2, <1>3, <1>13, <2>1, PushFacts, Zenon DEF Remaining
      <3> QED BY <1>2, <1>5, <1>7, <1>8, <1>12, <2>1, <3>1
    <2>2. CASE Len(users) # 1
      <3>1. PICK g : g = [f EXCEPT !.users = left]
        OBVIOUS
      <3>2. /\ g \in Frames /\ g.do = "deliver" /\ g.users = left /\ g.ai = f.ai
            /\ g.found = f.found /\ g.at = f.at /\ g.lost = f.lost
        BY <1>2, <1>7, <3>1, DeliverFacts
      <3>3. o = Cons(g, r)
        <4>1. o = <<g>> \o r
          BY <1>1, <1>3, <1>6, <1>13, <2>2, <3>1 DEF Remaining
        <4> QED BY <4>1 DEF Cons
      <3>4. o \in Seq(Frames)
        BY <1>2, <3>2, <3>3, ConsIndices DEF Shape
      <3>5. g.do \notin Endings
        BY <3>2 DEF Endings
      <3>6. Orderly(o)
        BY <1>2, <1>5, <1>7, <2>2, <3>2, <3>3, <3>5, ConsOrderly
      <3>7. True(g, n)
        BY <1>2, <1>12, <3>2, Zenon DEF True
      <3>8. AllTrue(o, n)
        BY <1>2, <1>12, <3>2, <3>3, <3>7, ConsTrue
      <3>9. \A x : Answering(o, x) <=> Among(x, left)
        BY <1>2, <1>8, <3>2, <3>3, ConsAnswering
      <3>10. ASSUME NEW d \in Endings, NEW x PROVE EndsBy(o, d, x) <=> EndsBy(r, d, x)
        BY <1>2, <3>2, <3>3, <3>5, ConsEnds
      <3> QED BY <3>4, <3>6, <3>8, <3>9, <3>10
    <2> QED BY <2>1, <2>2
  <1>15. \A x : Answering(o, x) <=> Answering(s, x) /\ x # u
    BY <1>7, <1>9, <1>14
  <1>16. \A d \in Endings : \A x : EndsBy(o, d, x) <=> EndsBy(s, d, x)
    BY <1>11, <1>14
  <1>17. u = Head(Head(s).users)
    BY <1>1, <1>3, <1>6
  <1> QED BY <1>7, <1>9, <1>13, <1>14, <1>15, <1>16, <1>17

\* What is to be shown of the user u once it is known which frames were pushed.
LEMMA AnsweredKeeps ==
  ASSUME Inv, NEW u \in Ids, NEW s, NEW do, Pushed(stack', s, do, u),
         do \in Endings => task[u].type # "resolve",
         UNCHANGED <<count, queue, cache, now>>, task' \in [Ids -> TaskType],
         \A x \in Ids : x # u => task'[x] = task[x],
         task'[u].type = task[u].type, task'[u].owner = task[u].owner,
         Waiting(u), ~ InCache(u), AllTrue(s, now),
         \A x : Answering(s, x) <=> Answering(stack, x) /\ x # u,
         \A d \in Endings : \A x : EndsBy(s, d, x) <=> EndsBy(stack, d, x),
         Goes(u, s) \/ (task[u].type = "resolve" /\ do = "client" /\ task'[u] = [task[u] EXCEPT !.told = "ended"])
  PROVE  Inv'
  <1>1. TypeOK /\ Rest /\ \A x \in Ids : Fit(x)
    BY DEF Inv, Rest
  <1>2. /\ stack' \in Seq(Frames) /\ Orderly(stack') /\ AllTrue(stack', now)
        /\ \A x : Answering(stack', x) <=> Answering(stack, x) /\ x # u
        /\ \A d \in Endings, x \in Ids : EndsBy(stack', d, x) <=> EndsBy(stack, d, x) \/ (d = do /\ x = u)
    BY DEF Pushed
  <1>3. Rest' /\ \A x : Waiting(x)' <=> InCache(x) \/ Answering(stack', x)
    BY <1>1, <1>2, CacheKept
  <1>4. \A x \in Ids : Waiting(x)' <=> Waiting(x) /\ x # u
    BY <1>2, <1>3, WaitingFacts
  <1>5. TypeOK'
    BY <1>1, <1>2 DEF TypeOK
  <1>6. /\ task[u].type \in {"resolve", "accept", "connect"} /\ u \notin queue /\ ~ (u > count)
        /\ task[u].type = "resolve" => Resolving(u) /\ task[u].owner = 0 /\ task[u].told = "nothing"
        /\ task[u].type # "resolve" =>
             Opening(u) /\ task[u].live /\ task[u].resolve # 0 /\ task[u].resolve \notin queue
             /\ \A d \in Endings : ~ EndsBy(stack, d, u)
    BY <1>1, TypeFacts DEF Fit, Unborn, Resolving, Opening, Endings
  <1>7. ASSUME NEW x \in Ids, x # u PROVE Fit(x)'
    <2>1. \A y \in Ids : y # u => task'[y] = task[y] /\ (y \in queue' <=> y \in queue)
      OBVIOUS
    <2>2. \A d \in Endings : EndsBy(stack', d, x) <=> EndsBy(stack, d, x)
      BY <1>2, <1>7
    <2>3. task[u].type = "resolve" => task[u].owner # x
      BY <1>6, IdsFacts
    <2>4. ~ (task[u].type \in {"accept", "connect"} /\ task[u].resolve = x /\ x \in queue)
      BY <1>6
    <2>5. Waiting(x)' <=> Waiting(x)
      BY <1>4, <1>7
    <2>6. x > count' <=> x > count
      OBVIOUS
    <2> QED BY <1>1, <1>7, <2>1, <2>2, <2>3, <2>4, <2>5, <2>6, OtherKept
  <1>8. Fit(u)'
    <2>1. CASE Goes(u, s)
      <3>1. task[u].type # "resolve"
        BY <2>1 DEF Goes
      <3>2. \A d \in Endings : ~ EndsBy(s, d, u)
        BY <1>6, <3>1
      <3> QED BY <1>4, <1>6, <2>1, <3>2, GoesFits
    <2>2. CASE task[u].type = "resolve" /\ do = "client" /\ task'[u] = [task[u] EXCEPT !.told = "ended"]
      <3>1. task[u] \in TaskType
        BY <1>1, TypeFacts
      <3>2. /\ task'[u].live = task[u].live /\ task'[u].op = task[u].op /\ task'[u].fd = task[u].fd
            /\ task'[u].resolve = task[u].resolve /\ task'[u].told = "ended"
        BY <2>2, <3>1 DEF TaskType
      <3>3. /\ EndsBy(stack', "done", u) <=> EndsBy(stack, "done", u)
            /\ EndsBy(stack', "cancel", u) <=> EndsBy(stack, "cancel", u)
            /\ EndsBy(stack', "connected", u) <=> EndsBy(stack, "connected", u)
        BY <1>2, <2>2, EndingNames
      <3>4. ~ Waiting(u)' /\ u \notin queue'
        BY <1>4, <1>6
      <3>5. Resolving(u)'
        BY <1>6, <2>2, <3>2, <3>3, <3>4 DEF Resolving
      <3> QED BY <1>6, <2>2, <3>5 DEF Fit
    <2> QED BY <2>1, <2>2
  <1>9. \A x \in Ids : Fit(x)'
    BY <1>7, <1>8
  <1> QED BY <1>3, <1>5, <1>9 DEF Inv, Rest

LEMMA AnswerKeeps ==
  ASSUME Inv, Answer
  PROVE  Inv'
  <1>1. TypeOK /\ Rest /\ task \in [Ids -> TaskType] /\ stack \in Seq(Frames)
        /\ Orderly(stack) /\ AllTrue(stack, now) /\ \A x \in Ids : Fit(x)
    BY TruthFacts DEF Inv, Rest, TypeOK
  <1>2. PICK u, s : u = Head(Head(stack).users) /\ s = Remaining(stack)
    OBVIOUS
  <1>3. PICK tasks : tasks = [task EXCEPT ![u].resolve = 0]
    OBVIOUS
  <1>4. /\ stack # <<>> /\ Head(stack).do = "deliver" /\ UNCHANGED <<count, queue, cache, now>>
        /\ \/ /\ task[u].type = "resolve"
              /\ task' = [task EXCEPT ![u].told = "ended"]
              /\ stack' = <<Client(u)>> \o s
           \/ /\ task[u].type # "resolve"
              /\ task' = [tasks EXCEPT ![u].told = "ended"]
              /\ stack' = Error(u) \o s
           \/ /\ task[u].type # "resolve"
              /\ Socket(tasks, u, s)
    BY <1>2, <1>3, Zenon DEF Answer, Running, Idle, Remaining
  <1>5. /\ u \in Ids /\ Answering(stack, u)
        /\ s \in Seq(Frames) /\ Orderly(s) /\ AllTrue(s, now)
        /\ \A x : Answering(s, x) <=> Answering(stack, x) /\ x # u
        /\ \A d \in Endings : \A x : EndsBy(s, d, x) <=> EndsBy(stack, d, x)
    BY <1>1, <1>2, <1>4, RemainingFacts, Zenon
  <1>6. Waiting(u) /\ ~ InCache(u)
    BY <1>1, <1>5, WaitingFacts DEF Rest, Requests, InCache
  <1>7. task[u] \in TaskType
    BY <1>1, <1>5
  <1>8. CASE task[u].type = "resolve"
    <2>1. task' = [task EXCEPT ![u].told = "ended"] /\ stack' = <<Client(u)>> \o s
      BY <1>4, <1>8
    <2>2. task'[u] = [task[u] EXCEPT !.told = "ended"] /\ \A x \in Ids : x # u => task'[x] = task[x]
      BY <1>1, <1>5, <2>1
    <2>3. task' \in [Ids -> TaskType]
      BY <1>1, <1>7, <2>1 DEF TaskType
    <2>4. task'[u].type = task[u].type /\ task'[u].owner = task[u].owner
      BY <1>7, <2>2 DEF TaskType
    <2>5. Pushed(stack', s, "client", u)
      BY <1>5, <2>1, PushClient
    <2>6. "client" \notin Endings
      BY DEF Endings
    <2> QED BY <1>4, <1>5, <1>6, <1>8, <2>2, <2>3, <2>4, <2>5, <2>6, AnsweredKeeps
  <1>9. CASE task[u].type # "resolve"
    <2>1. Opening(u) /\ task[u].type \in {"accept", "connect"}
      BY <1>1, <1>5, <1>6, <1>9, TypeFacts DEF Fit, Unborn
    <2>2. /\ task[u].live /\ task[u].told = "nothing" /\ ~ task[u].op /\ task[u].fd = "none"
          /\ task[u].owner = 0
      BY <1>6, <2>1 DEF Opening
    <2>3. \A d \in Endings : ~ EndsBy(s, d, u)
      BY <1>5, <1>6, <2>1 DEF Opening, Endings
    <2>4. tasks \in [Ids -> TaskType] /\ \A x \in Ids : x # u => tasks[x] = task[x]
      BY <1>1, <1>3, <1>7 DEF TaskType
    <2>5. tasks[u] = [task[u] EXCEPT !.resolve = 0]
      BY <1>1, <1>3, <1>5
    <2>6. /\ tasks[u].type = task[u].type /\ tasks[u].owner = 0 /\ tasks[u].resolve = 0
          /\ tasks[u].live /\ tasks[u].fd = "none" /\ ~ tasks[u].op /\ tasks[u].told = "nothing"
      BY <1>7, <2>2, <2>5 DEF TaskType
    <2>7. Socket(tasks, u, s)
      BY <1>4, <1>9 DEF Socket
    <2>8. /\ task' \in [Ids -> TaskType] /\ Goes(u, s) /\ task'[u].type = tasks[u].type
          /\ \A x \in Ids : x # u => task'[x] = tasks[x]
      BY <1>5, <2>1, <2>3, <2>4, <2>6, <2>7, SocketFacts
    <2>9. PICK do : Pushed(stack', s, do, u)
      BY <2>8 DEF Goes
    <2>10. /\ \A x \in Ids : x # u => task'[x] = task[x]
           /\ task'[u].type = task[u].type /\ task'[u].owner = task[u].owner
      BY <2>2, <2>4, <2>6, <2>8 DEF Goes
    <2> QED BY <1>4, <1>5, <1>6, <1>9, <2>8, <2>9, <2>10, AnsweredKeeps
  <1> QED BY <1>8, <1>9

-----------------------------------------------------------------------------
(* The theorems *)

LEMMA InitInv == Init => Inv
  <1> SUFFICES ASSUME Init PROVE Inv
    OBVIOUS
  <1>1. /\ NoTask \in TaskType /\ NoTask.type = "none"
    BY DEF NoTask, NewTask, TaskType
  <1>2. /\ NewCache \in CacheType /\ NewCache.requests = <<>> /\ NewCache.async = "none"
        /\ ~ NewCache.ai /\ NewCache.expire = 0
    BY DEF NewCache, CacheType
  <1>3. TypeOK
    BY <1>1, <1>2, NetworkAssumption DEF Init, TypeOK
  <1>4. stack = <<>> /\ \A h \in Names : cache[h] = NewCache
    BY DEF Init
  <1>5. \A x : ~ Among(x, NewCache.requests)
    BY <1>2, EmptyFacts, Zenon
  <1>6. Requests
    <2>1. Distinct(NewCache.requests)
      BY <1>2 DEF Distinct
    <2> QED BY <1>2, <1>4, <1>5, <2>1 DEF Requests
  <1>7. Entries
    BY <1>2, <1>4 DEF Entries
  <1>8. Orderly(stack) /\ Truthful
    BY <1>4, EmptyStack, TruthFacts
  <1>9. \A x : ~ Waiting(x)
    BY <1>4, <1>5, EmptyStack DEF Waiting
  <1>10. ASSUME NEW t \in Ids PROVE Fit(t)
    <2>1. task[t] = NoTask /\ t > count /\ t \notin queue
      BY <1>10, NetworkAssumption DEF Init, Ids
    <2>2. Unborn(t)
      BY <1>4, <1>9, <2>1, EmptyStack DEF Unborn
    <2> QED BY <1>1, <2>1, <2>2 DEF Fit
  <1> QED BY <1>3, <1>6, <1>7, <1>8, <1>10 DEF Inv

LEMMA NextInv == Inv /\ [Next]_vars => Inv'
  <1> SUFFICES ASSUME Inv, [Next]_vars PROVE Inv'
    OBVIOUS
  <1>1. CASE Unwind \/ UnwindConnected \/ Return \/ OpenSocket \/ Answer \/ Tick
    BY <1>1, UnwindKeeps, UnwindConnectedKeeps, ReturnKeeps, OpenSocketKeeps, AnswerKeeps, TickKeeps
  <1>2. ASSUME NEW t \in queue,
               NextCached(t) \/ NextLookup(t) \/ \E ai \in BOOLEAN : NextNumeric(t, ai)
        PROVE  Inv'
    BY <1>2, NextCachedKeeps, NextLookupKeeps, NextNumericKeeps
  <1>3. ASSUME NEW type \in {"accept", "connect"}, OpenAddress(type) \/ \E h \in Hosts : Open(type, h)
        PROVE  Inv'
    BY <1>3, OpenAddressKeeps, OpenKeeps
  <1>4. ASSUME NEW h \in Hosts, Resolve(h) PROVE Inv'
    BY <1>4, ResolveKeeps
  <1>5. ASSUME NEW t \in Ids, Cancel(t) \/ \E ok \in BOOLEAN : Accepted(t, ok) \/ ConnectEnds(t, ok)
        PROVE  Inv'
    BY <1>5, CancelKeeps, AcceptedKeeps, ConnectEndsKeeps
  <1>6. ASSUME NEW h \in Names, LookupReturn(h) \/ \E ai \in BOOLEAN : Lookup(h, ai) PROVE Inv'
    BY <1>6, LookupReturnKeeps, LookupKeeps
  <1>7. CASE UNCHANGED vars
    <2>1. UNCHANGED <<count, task, queue>> /\ UNCHANGED <<cache, now, stack>>
      BY <1>7 DEF vars
    <2>2. Rest' /\ \A x : Waiting(x)' <=> Waiting(x)
      BY <2>1, UnchangedFrames
    <2>3. \A x \in Ids : Fit(x)'
      BY <2>1, <2>2, AllSame
    <2>4. TypeOK'
      BY <2>1 DEF Inv, TypeOK
    <2> QED BY <2>2, <2>3, <2>4 DEF Inv, Rest
  <1> QED BY <1>1, <1>2, <1>3, <1>4, <1>5, <1>6, <1>7 DEF Next

\* Every task is where its state says: waiting for its scheduled call, for an
\* address or for its operation, or ending; and its request is in one place.
THEOREM Invariance == Spec => []Inv
  BY InitInv, NextInv, PTL DEF Spec

\* The addresses that network.c passes on are those of the last lookup and not
\* older than the cache may keep them, and failures are failures of the lookup.
THEOREM TellsTheTruth == Spec => []Truthful
  <1>1. Inv => Truthful
    BY DEF Inv
  <1> QED BY <1>1, Invariance, PTL

LEMMA InvFreed == Inv => FreedInTime
  <1> SUFFICES ASSUME Inv, NEW t \in Ids
               PROVE  IF task[t].live
                        THEN InUse(t) \/ task[t].resolve # 0
                        ELSE /\ ~ InUse(t) /\ ~ Referred(t)
                             /\ task[t].fd # "open" /\ (task[t].told = "connected" <=> task[t].fd = "given")
    BY DEF FreedInTime
  <1>1. TypeOK /\ \A x \in Ids : Fit(x)
    BY DEF Inv
  <1>2. InUse(t) <=> \/ t \in queue \/ task[t].op
                     \/ EndsBy(stack, "done", t) \/ EndsBy(stack, "cancel", t) \/ EndsBy(stack, "connected", t)
    BY DEF InUse, Endings
  <1>3. task[t].live => InUse(t) \/ task[t].resolve # 0
    <2>1. CASE task[t].type = "none"
      BY <1>1, <2>1 DEF Fit, Unborn, NoTask, NewTask
    <2>2. CASE task[t].type = "resolve"
      BY <1>1, <1>2, <2>2 DEF Fit, Resolving
    <2>3. CASE task[t].type \in {"accept", "connect"}
      BY <1>1, <1>2, <2>3 DEF Fit, Opening
    <2> QED BY <1>1, <2>1, <2>2, <2>3, TypeFacts
  <1>4. ASSUME ~ task[t].live
        PROVE  /\ ~ InUse(t) /\ ~ (Waiting(t) /\ task[t].type # "resolve")
               /\ task[t].fd # "open" /\ (task[t].told = "connected" <=> task[t].fd = "given")
    <2>1. CASE task[t].type = "none"
      <3>1. Unborn(t) /\ task[t] = NoTask
        BY <1>1, <2>1 DEF Fit, Unborn
      <3>2. ~ task[t].op /\ task[t].fd = "none" /\ task[t].told = "nothing"
        BY <3>1 DEF NoTask, NewTask
      <3> QED BY <1>2, <3>1, <3>2 DEF Unborn, Endings
    <2>2. CASE task[t].type = "resolve"
      BY <1>1, <1>2, <1>4, <2>2 DEF Fit, Resolving
    <2>3. CASE task[t].type \in {"accept", "connect"}
      BY <1>1, <1>2, <1>4, <2>3 DEF Fit, Opening
    <2> QED BY <1>1, <2>1, <2>2, <2>3, TypeFacts
  <1>5. ASSUME ~ task[t].live, NEW u \in Ids, task[u].live, task[u].resolve = t, ~ Waiting(u) PROVE FALSE
    <2>1. t # 0 /\ t \notin queue
      BY <1>2, <1>4, <1>5, IdsFacts
    <2>2. CASE task[u].type = "none"
      BY <1>1, <1>5, <2>2 DEF Fit, Unborn, NoTask, NewTask
    <2>3. CASE task[u].type = "resolve"
      BY <1>1, <1>5, <2>1, <2>3 DEF Fit, Resolving
    <2>4. CASE task[u].type \in {"accept", "connect"}
      BY <1>1, <1>5, <2>1, <2>4 DEF Fit, Opening
    <2> QED BY <1>1, <2>2, <2>3, <2>4, TypeFacts
  <1> QED BY <1>3, <1>4, <1>5 DEF Referred

\* Tasks of network.c are freed when nothing refers to them any more, and not
\* before, with their descriptors; the client keeps that of a connection.
THEOREM TasksFreedInTime == Spec => []FreedInTime
  BY Invariance, InvFreed, PTL

-----------------------------------------------------------------------------
(* Clients are told once *)

ToldStep ==
  \A t \in Ids : task[t].told # "nothing" =>
    /\ task'[t].told = task[t].told
    /\ ~ Calls(stack, stack', t)

\* Nobody is called when the stack stays, or loses a frame; when it gets one, the
\* client of that frame.
LEMMA CallsFacts ==
  ASSUME NEW f \in Frames, NEW s \in Seq(Frames), NEW t
  PROVE  /\ ~ Calls(s, s, t)
         /\ ~ Calls(Cons(f, s), s, t)
         /\ Calls(s, Cons(f, s), t) => f = Client(t)
  <1>1. PICK o : o = Cons(f, s)
    OBVIOUS
  <1>2. Shape(o, f, s)
    BY <1>1, ConsIndices
  <1>3. PICK n \in Nat : n = Len(s) /\ DOMAIN s \subseteq Nat
    OBVIOUS
  <1>4. Len(o) = n + 1 /\ DOMAIN o \subseteq Nat
    BY <1>2, <1>3 DEF Shape
  <1>5. ASSUME NEW i \in DOMAIN s
        PROVE  i + 1 \in DOMAIN o /\ o[i + 1] = s[i] /\ Len(o) - (i + 1) = Len(s) - i
    BY <1>2, <1>3, <1>4 DEF Shape
  <1>6. ~ Calls(s, s, t)
    BY DEF Calls
  <1>7. ~ Calls(o, s, t)
    BY <1>5 DEF Calls
  <1>8. ASSUME Calls(s, o, t) PROVE f = Client(t)
    <2>1. PICK i \in DOMAIN o :
            /\ o[i] = Client(t)
            /\ ~ \E j \in DOMAIN s : s[j] = Client(t) /\ Len(s) - j = Len(o) - i
      BY <1>8 DEF Calls
    <2>2. i = 1 \/ (i - 1 \in DOMAIN s /\ o[i] = s[i - 1])
      BY <1>2 DEF Shape
    <2>3. Len(s) - (i - 1) = Len(o) - i
      BY <1>3, <1>4
    <2>4. i = 1
      BY <2>1, <2>2, <2>3
    <2> QED BY <1>2, <2>1, <2>4 DEF Shape
  <1> QED BY <1>1, <1>6, <1>7, <1>8

\* Who is called on the way from one stack to another by a third is called on
\* one half of it.
LEMMA CallsThrough ==
  ASSUME NEW o, NEW m, NEW n, NEW t, Calls(o, n, t)
  PROVE  Calls(o, m, t) \/ Calls(m, n, t)
  BY DEF Calls

\* Only a client that was told nothing is told something.
LEMMA TellsOne ==
  ASSUME NEW u, task[u].told = "nothing" \/ u \notin Ids,
         \A x \in Ids : x # u => task'[x].told = task[x].told,
         \A x \in Ids : Calls(stack, stack', x) => x = u
  PROVE  ToldStep
  BY DEF ToldStep

LEMMA TellsNobody ==
  ASSUME \A x \in Ids : task'[x].told = task[x].told \/ task[x].told = "nothing",
         \A x \in Ids : ~ Calls(stack, stack', x)
  PROVE  ToldStep
  BY DEF ToldStep

\* The stack is as it was, or has lost its first frame.
LEMMA NobodyCalled ==
  ASSUME stack \in Seq(Frames),
         stack' = stack \/ (stack # <<>> /\ stack' = Tail(stack)), NEW t \in Ids
  PROVE  ~ Calls(stack, stack', t)
  <1>1. PICK c : c = Client(t) /\ c \in Frames
    BY FrameFacts
  <1>2. CASE stack' = stack
    BY <1>1, <1>2, CallsFacts
  <1>3. CASE stack # <<>> /\ stack' = Tail(stack)
    <2>1. PICK f, r : f = Head(stack) /\ r = Tail(stack)
      OBVIOUS
    <2>2. f \in Frames /\ r \in Seq(Frames) /\ stack = Cons(f, r)
      BY <1>3, <2>1, StackFacts
    <2>3. ~ Calls(Cons(f, r), r, t)
      BY <2>2, CallsFacts
    <2> QED BY <1>3, <2>1, <2>2, <2>3
  <1> QED BY <1>2, <1>3

\* What calls a client puts on a stack.
LEMMA OneCalled ==
  ASSUME NEW s \in Seq(Frames), NEW u \in Ids, NEW t \in Ids,
         Calls(s, <<Client(u)>> \o s, t) \/ Calls(s, Error(u) \o s, t)
  PROVE  t = u
  <1>1. PICK c, g : c = Client(u) /\ g = Cancelling(u)
    OBVIOUS
  <1>2. c \in Frames /\ g \in Frames
    BY <1>1, FrameFacts
  <1>3. c = Client(t) => t = u
    BY <1>1 DEF Client
  <1>4. g # Client(t)
    BY <1>1 DEF Client, Cancelling
  <1>5. CASE Calls(s, <<Client(u)>> \o s, t)
    <2>1. Calls(s, Cons(c, s), t)
      BY <1>1, <1>5 DEF Cons
    <2> QED BY <1>2, <1>3, <2>1, CallsFacts
  <1>6. CASE Calls(s, Error(u) \o s, t)
    <2>1. PICK m : m = Cons(g, s)
      OBVIOUS
    <2>2. m \in Seq(Frames)
      BY <1>2, <2>1, ConsIndices DEF Shape
    <2>3. Error(u) \o s = Cons(c, m)
      BY <1>1, <1>2, <2>1 DEF Error, Cons
    <2>4. Calls(s, m, t) \/ Calls(m, Cons(c, m), t)
      BY <1>6, <2>3, CallsThrough
    <2> QED BY <1>2, <1>3, <1>4, <2>1, <2>2, <2>4, CallsFacts
  <1> QED BY <1>5, <1>6

LEMMA SocketTells ==
  ASSUME NEW tasks \in [Ids -> TaskType], NEW u \in Ids, NEW s \in Seq(Frames), Socket(tasks, u, s)
  PROVE  /\ \A x \in Ids : x # u => task'[x].told = tasks[x].told
         /\ \A x \in Ids : Calls(s, stack', x) => x = u
  <1>1. PICK c : c = Client(u) /\ c \in Frames
    BY FrameFacts
  <1>2. \A x \in Ids : ~ Calls(s, s, x)
    BY <1>1, CallsFacts
  <1>3. stack' = Error(u) \o s \/ stack' = <<Client(u)>> \o s \/ stack' = s
    BY DEF Socket
  <1>4. \A x \in Ids : Calls(s, stack', x) => x = u
    BY <1>2, <1>3, OneCalled
  <1>5. \A x \in Ids : x # u => task'[x].told = tasks[x].told
    BY DEF Socket
  <1> QED BY <1>4, <1>5

\* Nobody is called when an answer has lost its first user.
LEMMA RemainingCalls ==
  ASSUME NEW s \in Seq(Frames), s # <<>>, Head(s).do = "deliver", Orderly(s), NEW t \in Ids
  PROVE  ~ Calls(s, Remaining(s), t)
  <1>1. PICK f, r : f = Head(s) /\ r = Tail(s)
    OBVIOUS
  <1>2. f \in Frames /\ r \in Seq(Frames) /\ s = Cons(f, r)
    BY <1>1, StackFacts
  <1>3. ~ Calls(s, r, t)
    BY <1>2, CallsFacts
  <1>4. CASE Len(f.users) = 1
    <2>1. Remaining(s) = r
      BY <1>1, <1>2, <1>4, PushFacts DEF Remaining
    <2> QED BY <1>3, <2>1
  <1>5. CASE Len(f.users) # 1
    <2>1. PICK g : g = [f EXCEPT !.users = Tail(@)]
      OBVIOUS
    <2>2. Remaining(s) = Cons(g, r)
      BY <1>1, <1>5, <2>1 DEF Remaining, Cons
    <2>3. f.users \in Seq(Ids) /\ f.users # <<>>
      <3>1. f.do = "deliver" /\ Orderly(Cons(f, r))
        BY <1>1, <1>2
      <3> QED BY <1>2, <3>1, ConsOrderly, DeliverFacts
    <2>4. Tail(f.users) \in Seq(Ids)
      BY <2>3
    <2>5. g \in Frames /\ g.do = "deliver"
      BY <1>1, <1>2, <2>1, <2>4, DeliverFacts
    <2>6. g # Client(t)
      BY <2>5 DEF Client
    <2>7. ~ Calls(r, Cons(g, r), t)
      BY <1>2, <2>5, <2>6, CallsFacts
    <2> QED BY <1>3, <2>2, <2>7, CallsThrough
  <1> QED BY <1>4, <1>5

LEMMA EndingsTell ==
  ASSUME Inv, Unwind \/ UnwindConnected \/ Return \/ \E t \in Ids : Cancel(t)
  PROVE  ToldStep
  <1>1. TypeOK /\ task \in [Ids -> TaskType] /\ stack \in Seq(Frames) /\ \A x \in Ids : Fit(x)
    BY DEF Inv, TypeOK
  <1>2. ASSUME NEW t \in Ids, Cancel(t) PROVE ToldStep
    <2>1. /\ Released(t, "cancelled") /\ stack' = stack
          /\ task[t].live /\ task[t].owner = 0 /\ task[t].told = "nothing" /\ ~ Waiting(t)
      BY <1>2 DEF Cancel
    <2>2. \A x \in Ids : x # t /\ x # task[t].resolve => task'[x] = task[x]
      BY <1>1, <2>1, ReleasedFacts
    <2>3. task[t].resolve \in Ids => task[task[t].resolve].told = "nothing"
      <3>1. CASE task[t].type = "none"
        BY <1>1, <2>1, <3>1 DEF Fit, Unborn, NoTask, NewTask
      <3>2. CASE task[t].type = "resolve"
        BY <1>1, <3>2, IdsFacts DEF Fit, Resolving
      <3>3. CASE task[t].type \in {"accept", "connect"}
        BY <1>1, <2>1, <3>3, IdsFacts DEF Fit, Opening
      <3> QED BY <1>1, <3>1, <3>2, <3>3, TypeFacts
    <2>4. \A x \in Ids : ~ Calls(stack, stack', x)
      BY <1>1, <2>1, NobodyCalled
    <2> QED BY <2>1, <2>2, <2>3, <2>4, TellsNobody
  <1>3. CASE Unwind
    <2>1. PICK t : t = Head(stack).task
      OBVIOUS
    <2>2. /\ stack # <<>> /\ stack' = Tail(stack) /\ Released(t, task[t].told)
          /\ Head(stack).do \in {"done", "cancel"}
      BY <1>3, <2>1 DEF Unwind, Running, Idle
    <2>3. PICK do, rest : do = Head(stack).do /\ rest = Tail(stack)
      OBVIOUS
    <2>4. t \in Ids /\ Pushed(stack, rest, do, t) /\ do \in Endings
      BY <1>1, <2>1, <2>2, <2>3, Pop DEF Inv, Endings
    <2>5. EndsBy(stack, do, t)
      BY <2>4 DEF Pushed
    <2>6. task[t].resolve = 0
      <3>1. CASE task[t].type = "none"
        BY <1>1, <2>4, <2>5, <3>1 DEF Fit, Unborn
      <3>2. CASE task[t].type = "resolve"
        BY <1>1, <2>4, <3>2 DEF Fit, Resolving
      <3>3. CASE task[t].type \in {"accept", "connect"}
        BY <1>1, <2>2, <2>3, <2>4, <2>5, <3>3 DEF Fit, Opening
      <3> QED BY <1>1, <2>4, <3>1, <3>2, <3>3, TypeFacts
    <2>7. task[t].told \in {"nothing", "ended", "cancelled", "connected"}
      BY <1>1, <2>4, TypeFacts
    <2>8. \A x \in Ids : task'[x].told = task[x].told
      <3>1. \A x \in Ids : IF x = t \/ x = task[t].resolve
                             THEN Freed(x, task[t].told) /\ x \notin queue'
                             ELSE task'[x] = task[x] /\ (x \in queue' <=> x \in queue)
        BY <1>1, <2>2, <2>4, <2>7, ReleasedFacts
      <3> QED BY <2>6, <3>1, IdsFacts DEF Freed
    <2>9. \A x \in Ids : ~ Calls(stack, stack', x)
      BY <1>1, <2>2, NobodyCalled
    <2> QED BY <2>8, <2>9, TellsNobody
  <1>4. CASE UnwindConnected
    <2>1. PICK t : t = Head(stack).task
      OBVIOUS
    <2>2. /\ stack # <<>> /\ stack' = Tail(stack) /\ Head(stack).do = "connected"
          /\ task' = [task EXCEPT ![t] = [Gone(t) EXCEPT !.fd = "given"]]
      BY <1>4, <2>1 DEF UnwindConnected, Running, Idle
    <2>3. t \in Ids
      BY <1>1, <2>1, <2>2, Pop DEF Inv
    <2>4. PICK g : g = Gone(t)
      OBVIOUS
    <2>5. g \in TaskType /\ g.told = task[t].told
      BY <1>1, <2>3, <2>4, GoneFacts
    <2>6. [g EXCEPT !.fd = "given"].told = task[t].told
      BY <2>5 DEF TaskType
    <2>7. \A x \in Ids : task'[x].told = task[x].told
      BY <1>1, <2>2, <2>3, <2>4, <2>6
    <2>8. \A x \in Ids : ~ Calls(stack, stack', x)
      BY <1>1, <2>2, NobodyCalled
    <2> QED BY <2>7, <2>8, TellsNobody
  <1>5. CASE Return
    <2>1. stack # <<>> /\ stack' = Tail(stack) /\ task' = task
      BY <1>5 DEF Return, Running, Idle
    <2>2. \A x \in Ids : ~ Calls(stack, stack', x)
      BY <1>1, <2>1, NobodyCalled
    <2> QED BY <2>1, <2>2, TellsNobody
  <1> QED BY <1>2, <1>3, <1>4, <1>5

LEMMA BeginningsTell ==
  ASSUME Inv,
         \/ OpenSocket \/ \E h \in Hosts : Resolve(h)
         \/ \E type \in {"accept", "connect"} : OpenAddress(type) \/ \E h \in Hosts : Open(type, h)
  PROVE  ToldStep
  <1>1. /\ task \in [Ids -> TaskType] /\ stack \in Seq(Frames) /\ Len(stack) \in Nat
        /\ count \in 0 .. MaxTasks
    BY DEF Inv, TypeOK
  <1>2. \A x \in Ids : x > count => task[x].told = "nothing"
    BY DEF Inv, Fit, Unborn, NoTask, NewTask
  <1>3. PICK t : t = count + 1
    OBVIOUS
  <1>4. t > count /\ t + 1 > count
    BY <1>1, <1>3
  <1>5. ASSUME stack' = stack, \A x \in Ids : x # t /\ x # t + 1 => task'[x] = task[x] PROVE ToldStep
    <2>1. \A x \in Ids : ~ Calls(stack, stack', x)
      BY <1>1, <1>5, NobodyCalled
    <2>2. \A x \in Ids : task'[x].told = task[x].told \/ task[x].told = "nothing"
      BY <1>2, <1>4, <1>5
    <2> QED BY <2>1, <2>2, TellsNobody
  <1>6. CASE OpenSocket
    BY <1>1, <1>3, <1>5, <1>6 DEF OpenSocket
  <1>7. ASSUME NEW h \in Hosts, Resolve(h) PROVE ToldStep
    BY <1>1, <1>3, <1>5, <1>7 DEF Resolve
  <1>8. ASSUME NEW type, NEW h \in Hosts, Open(type, h) PROVE ToldStep
    BY <1>1, <1>3, <1>5, <1>8 DEF Open
  <1>9. ASSUME NEW type \in {"accept", "connect"}, OpenAddress(type) PROVE ToldStep
    <2>1. PICK new, tasks : new = NewTask(type, "none", 0) /\ tasks = [task EXCEPT ![t] = new]
      OBVIOUS
    <2>2. t <= MaxTasks /\ Socket(tasks, t, stack)
      BY <1>3, <1>9, <2>1 DEF OpenAddress
    <2>3. t \in Ids
      BY <1>1, <1>3, <2>2, NetworkAssumption DEF Ids
    <2>4. new \in TaskType
      BY <2>1 DEF NewTask, TaskType
    <2>5. tasks \in [Ids -> TaskType] /\ \A x \in Ids : x # t => tasks[x] = task[x]
      BY <1>1, <2>1, <2>3, <2>4
    <2>6. /\ \A x \in Ids : x # t => task'[x].told = task[x].told
          /\ \A x \in Ids : Calls(stack, stack', x) => x = t
      BY <1>1, <2>2, <2>3, <2>5, SocketTells
    <2> QED BY <1>2, <1>4, <2>3, <2>6, TellsOne
  <1> QED BY <1>6, <1>7, <1>8, <1>9

LEMMA AnswersTell ==
  ASSUME Inv, Answer
  PROVE  ToldStep
  <1>1. TypeOK /\ Rest /\ task \in [Ids -> TaskType] /\ stack \in Seq(Frames)
        /\ Orderly(stack) /\ AllTrue(stack, now) /\ \A x \in Ids : Fit(x)
    BY TruthFacts DEF Inv, Rest, TypeOK
  <1>2. PICK u, s : u = Head(Head(stack).users) /\ s = Remaining(stack)
    OBVIOUS
  <1>3. PICK tasks : tasks = [task EXCEPT ![u].resolve = 0]
    OBVIOUS
  <1>4. /\ stack # <<>> /\ Head(stack).do = "deliver"
        /\ \/ /\ task' = [task EXCEPT ![u].told = "ended"]
              /\ stack' = <<Client(u)>> \o s
           \/ Socket(tasks, u, s)
    BY <1>2, <1>3, Zenon DEF Answer, Running, Idle, Remaining, Socket
  <1>5. u \in Ids /\ Answering(stack, u) /\ s \in Seq(Frames)
    BY <1>1, <1>2, <1>4, RemainingFacts
  <1>6. Waiting(u)
    BY <1>5, WaitingFacts
  <1>7. task[u].told = "nothing"
    BY <1>1, <1>5, <1>6, TypeFacts DEF Fit, Unborn, Resolving, Opening
  <1>8. tasks \in [Ids -> TaskType] /\ \A x \in Ids : x # u => tasks[x] = task[x]
    BY <1>1, <1>3, <1>5, ZenonT(60) DEF TaskType
  <1>9. \A x \in Ids : ~ Calls(stack, s, x)
    BY <1>1, <1>2, <1>4, RemainingCalls
  <1>10. CASE task' = [task EXCEPT ![u].told = "ended"] /\ stack' = <<Client(u)>> \o s
    <2>1. \A x \in Ids : Calls(s, stack', x) => x = u
      BY <1>5, <1>10, OneCalled
    <2>2. \A x \in Ids : x # u => task'[x].told = task[x].told
      BY <1>1, <1>10
    <2> QED BY <1>7, <1>9, <2>1, <2>2, CallsThrough, TellsOne
  <1>11. CASE Socket(tasks, u, s)
    <2>1. /\ \A x \in Ids : x # u => task'[x].told = task[x].told
          /\ \A x \in Ids : Calls(s, stack', x) => x = u
      BY <1>5, <1>8, <1>11, SocketTells
    <2>2. \A x \in Ids : Calls(stack, stack', x) => x = u
      BY <1>9, <2>1, CallsThrough
    <2> QED BY <1>7, <1>8, <2>1, <2>2, TellsOne
  <1> QED BY <1>4, <1>10, <1>11

LEMMA OperationsTell ==
  ASSUME Inv, NEW t \in Ids, NEW ok \in BOOLEAN, Accepted(t, ok) \/ ConnectEnds(t, ok)
  PROVE  ToldStep
  <1>1. task \in [Ids -> TaskType]
    BY DEF Inv, TypeOK
  <1>2. task[t].told = "nothing"
    BY OperationFacts DEF Accepted, ConnectEnds
  <1>3. \A x \in Ids : x # t => task'[x].told = task[x].told
    BY <1>1 DEF Accepted, ConnectEnds
  <1>4. stack = <<>> /\ stack \in Seq(Frames)
    BY DEF Accepted, ConnectEnds, Idle, Inv, TypeOK
  <1>5. \A x \in Ids : Calls(stack, Error(t) \o stack, x) => x = t
    BY <1>4, OneCalled
  <1>6. \A x \in Ids : Calls(stack, <<Client(t), Connected(t)>> \o stack, x) => x = t
    <2>1. PICK c, g, m : c = Client(t) /\ g = Connected(t) /\ m = Cons(g, stack)
      OBVIOUS
    <2>2. c \in Frames /\ g \in Frames /\ m \in Seq(Frames)
      BY <1>4, <2>1, FrameFacts, ConsIndices DEF Shape
    <2>3. <<Client(t), Connected(t)>> \o stack = Cons(c, m)
      BY <1>4, <2>1, <2>2 DEF Cons
    <2>4. ASSUME NEW x \in Ids PROVE ~ Calls(stack, m, x)
      <3>1. g # Client(x)
        BY <2>1 DEF Client, Connected
      <3> QED BY <1>4, <2>1, <2>2, <3>1, CallsFacts
    <2>5. \A x \in Ids : Calls(m, <<c>> \o m, x) => x = t
      BY <2>1, <2>2, OneCalled
    <2> QED BY <2>3, <2>4, <2>5, CallsThrough DEF Cons
  <1>7. \A x \in Ids : Calls(stack, <<Client(t)>> \o stack, x) => x = t
    BY <1>4, OneCalled
  <1>8. PICK f \in {<<Client(t)>>, Error(t), <<Client(t), Connected(t)>>} : stack' = f
    BY DEF Accepted, ConnectEnds
  <1>9. stack' = f \o stack
    <2>1. PICK c, g, h : c = Client(t) /\ g = Cancelling(t) /\ h = Connected(t)
      OBVIOUS
    <2>2. f \in Seq(Frames)
      <3>1. c \in Frames /\ g \in Frames /\ h \in Frames
        BY <2>1, FrameFacts
      <3>2. f = <<c>> \/ f = <<c, g>> \/ f = <<c, h>>
        BY <1>8, <2>1 DEF Error
      <3>3. <<c>> \in Seq(Frames) /\ <<c, g>> \in Seq(Frames) /\ <<c, h>> \in Seq(Frames)
        BY <3>1
      <3> QED BY <3>2, <3>3, Zenon
    <2> QED BY <1>4, <1>8, <2>2
  <1>10. \A x \in Ids : Calls(stack, stack', x) => x = t
    BY <1>5, <1>6, <1>7, <1>8, <1>9
  <1> QED BY <1>2, <1>3, <1>10, TellsOne

LEMMA ResolvingTells ==
  ASSUME Inv,
         \/ \E t \in queue : NextCached(t) \/ NextLookup(t) \/ \E ai \in BOOLEAN : NextNumeric(t, ai)
         \/ \E h \in Names : LookupReturn(h) \/ \E ai \in BOOLEAN : Lookup(h, ai)
         \/ Tick \/ UNCHANGED vars
  PROVE  ToldStep
  <1>1. task \in [Ids -> TaskType] /\ stack \in Seq(Frames) /\ Len(stack) \in Nat
    BY DEF Inv, TypeOK
  <1>2. ASSUME NEW t \in queue, NextLookup(t) PROVE ToldStep
    <2>1. t \in Ids /\ task[t] \in TaskType
      BY <1>1 DEF Inv, TypeOK
    <2>2. task' = [task EXCEPT ![t].live = FALSE] /\ stack' = stack
      BY <1>2 DEF NextLookup
    <2>3. task'[t] = [task[t] EXCEPT !.live = FALSE] /\ \A x \in Ids : x # t => task'[x] = task[x]
      BY <1>1, <2>1, <2>2
    <2>4. task'[t].told = task[t].told
      BY <2>1, <2>3 DEF TaskType
    <2>5. \A x \in Ids : ~ Calls(stack, stack', x)
      BY <1>1, <2>2, NobodyCalled
    <2> QED BY <2>3, <2>4, <2>5, TellsNobody
  <1>3. ASSUME task' = task, stack' = stack PROVE ToldStep
    <2>1. \A x \in Ids : ~ Calls(stack, stack', x)
      BY <1>1, <1>3, NobodyCalled
    <2> QED BY <1>3, <2>1, TellsNobody
  <1>4. ASSUME task' = task, \A i \in DOMAIN stack' : stack'[i].do # "client" PROVE ToldStep
    <2>1. \A x \in Ids : ~ Calls(stack, stack', x)
      BY <1>4 DEF Calls, Client
    <2> QED BY <1>4, <2>1, TellsNobody
  <1>5. ASSUME NEW t \in queue, NextCached(t) \/ \E ai \in BOOLEAN : NextNumeric(t, ai) PROVE ToldStep
    <2>1. PICK f, g : /\ stack' = <<f, g>> /\ f.do = "deliver" /\ g.do = "done"
      BY <1>5 DEF NextCached, NextNumeric, Deliver, Done
    <2>2. \A i \in DOMAIN stack' : stack'[i].do # "client"
      BY <2>1
    <2> QED BY <1>4, <1>5, <2>2 DEF NextCached, NextNumeric
  <1>6. ASSUME NEW h \in Names, LookupReturn(h) PROVE ToldStep
    <2>1. PICK f : stack' = <<f>> /\ f.do = "deliver"
      BY <1>6 DEF LookupReturn, Deliver
    <2>2. \A i \in DOMAIN stack' : stack'[i].do # "client"
      BY <2>1
    <2> QED BY <1>4, <1>6, <2>2 DEF LookupReturn
  <1>7. ASSUME NEW h \in Names, NEW ai \in BOOLEAN, Lookup(h, ai) PROVE ToldStep
    BY <1>3, <1>7 DEF Lookup
  <1>8. CASE Tick \/ UNCHANGED vars
    BY <1>3, <1>8 DEF Tick, vars
  <1> QED BY <1>2, <1>5, <1>6, <1>7, <1>8

\* A client of network.c is told the end of a task once, and is not called about
\* a task that has ended or that it has cancelled.
THEOREM ClientsToldOnce == Spec => ToldOnce
  <1>1. ASSUME Inv, [Next]_vars PROVE ToldStep
    BY <1>1, EndingsTell, BeginningsTell, AnswersTell, OperationsTell, ResolvingTells DEF Next
  <1>2. Inv /\ [Next]_vars =>
          [\A t \in Ids : task[t].told # "nothing" =>
             /\ task'[t].told = task[t].told
             /\ ~ Calls(stack, stack', t)]_vars
    BY <1>1 DEF ToldStep
  <1> QED BY <1>2, Invariance, PTL DEF Spec, ToldOnce
=============================================================================

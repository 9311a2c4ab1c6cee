---------------------------- MODULE NotifyProofs ----------------------------
(***************************************************************************)
(* Two results about module Notify, for every set of paths and any number  *)
(* of watches and events: when the assertion of notify_remove_entry() can  *)
(* fail, and that the hash tables of map.c hold what the list holds until  *)
(* two entries share a watch.                                              *)
(*                                                                         *)
(* The second one orders the places of a table from a vacant one on: an    *)
(* element is found if no place between its hash and its own is vacant.    *)
(* The loops of map_rehash() and map_erase() are recursive functions, and  *)
(* their invariants are carried from round to round by SetInduction.       *)
(***************************************************************************)
EXTENDS Notify, FiniteSetTheorems, TLAPS

EntryType(n) == [id : 1 .. n, path : Paths]

SeenType ==
  [events : Nat, gone : SUBSET Nat, shared : SUBSET Nat, eaten : SUBSET Nat,
   overwritten : SUBSET Nat]

\* The buffers, as far as TypeOK and Walking are about them.
Buffers == /\ brought \in Seq(Nat) /\ batch \in Seq(Nat) /\ handled \in Nat
           /\ phase = "client" => batch # <<>>

\* The rest of the invariant.
Kept == /\ entries \in Seq(EntryType(added)) /\ added \in Nat
        /\ failed \subseteq Nat /\ watches \subseteq 1 .. added
        /\ events \in Seq(Nat) /\ seen \in SeenType
        /\ Watched /\ AbortsOnlyOnDeleted

LEMMA InvParts ==
  /\ Inv <=> Buffers /\ Kept
  /\ Inv' <=> Buffers' /\ Kept'
  BY DEF Inv, TypeOK, Walking, Buffers, Kept, SeenType, EntryType

\* What the history says after an event, a watch that is shared, and after reads.
LEMMA SeenFacts ==
  ASSUME NEW s \in SeenType, NEW g \in SUBSET Nat, NEW h \in SUBSET Nat
  PROVE  /\ LET t == [s EXCEPT !.events = s.events + 1, !.gone = g]
            IN  t \in SeenType /\ t.gone = g /\ t.shared = s.shared
         /\ LET t == [s EXCEPT !.shared = g]
            IN  t \in SeenType /\ t.gone = s.gone /\ t.shared = g
         /\ LET t == [s EXCEPT !.overwritten = h]
            IN  t \in SeenType /\ t.gone = s.gone /\ t.shared = s.shared
         /\ LET t == [s EXCEPT !.eaten = g, !.overwritten = h]
            IN  t \in SeenType /\ t.gone = s.gone /\ t.shared = s.shared
  <1>1. PICK n : n = s.events + 1
    OBVIOUS
  <1>2. n \in Nat
    BY <1>1 DEF SeenType
  <1>3. LET t == [s EXCEPT !.events = n, !.gone = g]
        IN  t \in SeenType /\ t.gone = g /\ t.shared = s.shared
    BY <1>2 DEF SeenType
  <1>4. LET t == [s EXCEPT !.shared = g]
        IN  t \in SeenType /\ t.gone = s.gone /\ t.shared = g
    BY DEF SeenType
  <1>5. LET t == [s EXCEPT !.overwritten = h]
        IN  t \in SeenType /\ t.gone = s.gone /\ t.shared = s.shared
    BY DEF SeenType
  <1>6. LET t == [s EXCEPT !.eaten = g, !.overwritten = h]
        IN  t \in SeenType /\ t.gone = s.gone /\ t.shared = s.shared
    BY DEF SeenType
  <1> QED BY <1>1, <1>3, <1>4, <1>5, <1>6

\* The initial state.
LEMMA InitInv ==
  Init => Inv
  <1> SUFFICES ASSUME Init PROVE Inv
    OBVIOUS
  <1>1. PICK e : e = <<>>
    OBVIOUS
  <1>2. /\ entries = e /\ events = e /\ brought = e /\ batch = e /\ handled = 0
        /\ phase = "loop" /\ failed = {} /\ watches = {} /\ added = 0
        /\ seen = [events |-> 0, gone |-> {}, shared |-> {}, eaten |-> {}, overwritten |-> {}]
    BY <1>1 DEF Init
  <1>3. seen \in SeenType
    BY <1>2 DEF SeenType
  <1>4. entries \in Seq(EntryType(added)) /\ e \in Seq(Nat) /\ DOMAIN entries = {}
    BY <1>1, <1>2
  <1>5. Watched /\ AbortsOnlyOnDeleted
    BY <1>2, <1>4 DEF Watched, AbortsOnlyOnDeleted
  <1> QED BY <1>2, <1>3, <1>4, <1>5, InvParts DEF Kept, Buffers

\* A step that leaves the entries, the watches, the assertions, and the watches
\* that are shared or that the kernel removed alone.
LEMMA OtherStep ==
  ASSUME Inv, UNCHANGED <<entries, failed, watches, added>>,
         events' \in Seq(Nat), seen' \in SeenType,
         seen'.gone = seen.gone, seen'.shared = seen.shared, Buffers'
  PROVE  Inv'
  <1>1. Kept
    BY InvParts
  <1>2. Watched' /\ AbortsOnlyOnDeleted'
    BY <1>1 DEF Kept, Watched, AbortsOnlyOnDeleted, Aborted
  <1> QED BY <1>1, <1>2, InvParts DEF Kept

\* notify_add(): the watch of the new entry is new, or it is shared from now on.
LEMMA AddStep ==
  ASSUME Inv, NEW path \in Paths, NEW wd \in watches \cup {added + 1}, Add(path, wd)
  PROVE  Inv'
  <1>1. /\ entries \in Seq(EntryType(added)) /\ added \in Nat
        /\ DOMAIN entries = 1 .. Len(entries) /\ Len(entries) \in Nat
        /\ watches \subseteq 1 .. added /\ seen \in SeenType /\ Buffers /\ Kept
    BY InvParts DEF Kept
  <1>2. PICK n, e, g : /\ n = (IF wd \in watches THEN added ELSE wd)
                       /\ e = [id |-> wd, path |-> path]
                       /\ g = (IF wd \in watches THEN seen.shared \cup {wd} ELSE seen.shared)
    OBVIOUS
  <1>3. /\ added' = n /\ watches' = watches \cup {wd}
        /\ UNCHANGED <<failed, events, brought, batch, handled, phase>>
        /\ seen' = [seen EXCEPT !.shared = g]
        /\ entries' = Append(entries, e)
    BY <1>2 DEF Add, bufferVars
  <1>4. /\ n \in Nat /\ added <= n /\ wd \in 1 .. n /\ wd \in Nat
        /\ wd \notin watches => n = added + 1 /\ wd = added + 1
    <2>1. CASE wd \in watches
      <3>1. wd \in 1 .. added /\ n = added
        BY <1>1, <1>2, <2>1
      <3> QED BY <1>1, <2>1, <3>1
    <2>2. CASE wd \notin watches
      <3>1. wd = added + 1 /\ n = wd
        BY <1>2, <2>2
      <3> QED BY <1>1, <3>1
    <2> QED BY <2>1, <2>2
  <1>5. e \in EntryType(n) /\ e.id = wd
    BY <1>2, <1>4 DEF EntryType
  <1>6. ASSUME NEW i \in 1 .. Len(entries)
        PROVE  entries[i] \in EntryType(n) /\ (wd \notin watches => entries[i].id # wd)
    <2>1. entries[i] \in EntryType(added)
      BY <1>1
    <2> QED BY <1>1, <1>4, <2>1 DEF EntryType
  <1>7. entries \in Seq(EntryType(n))
    BY <1>1, <1>6
  <1>8. /\ entries' \in Seq(EntryType(n)) /\ Len(entries') = Len(entries) + 1
        /\ DOMAIN entries' = 1 .. Len(entries) + 1
        /\ entries'[Len(entries) + 1] = e
        /\ \A i \in 1 .. Len(entries) : entries'[i] = entries[i]
    BY <1>1, <1>3, <1>5, <1>7
  <1>9. g \subseteq Nat /\ seen.shared \subseteq g /\ (wd \in watches => wd \in g)
    BY <1>1, <1>2, <1>4 DEF SeenType
  <1>10. seen' \in SeenType /\ seen'.gone = seen.gone /\ seen'.shared = g
    BY <1>1, <1>3, <1>9, SeenFacts
  <1>11. \A k \in DOMAIN entries' : k \in 1 .. Len(entries) \/ k = Len(entries) + 1
    BY <1>1, <1>8
  <1>12. ASSUME NEW i \in DOMAIN entries', NEW j \in DOMAIN entries', entries'[i].id = entries'[j].id
         PROVE  i = j \/ entries'[i].id \in g
    <2>1. CASE i \in 1 .. Len(entries) /\ j \in 1 .. Len(entries)
      BY <1>1, <1>8, <1>9, <1>12, <2>1 DEF Kept, Watched
    <2>2. CASE entries'[i].id = wd
      BY <1>5, <1>6, <1>8, <1>9, <1>11, <1>12, <2>2
    <2> QED BY <1>5, <1>8, <1>11, <1>12, <2>1, <2>2
  <1>13. ASSUME ~ Aborted, NEW i \in DOMAIN entries'
         PROVE  entries'[i].id \in watches' \cup seen'.gone \cup seen'.shared
    <2>1. CASE i \in 1 .. Len(entries)
      BY <1>1, <1>3, <1>8, <1>9, <1>10, <1>13, <2>1 DEF Kept, Watched
    <2>2. CASE i = Len(entries) + 1
      BY <1>3, <1>5, <1>8, <2>2
    <2> QED BY <1>11, <2>1, <2>2
  <1>14. Watched'
    BY <1>3, <1>10, <1>12, <1>13 DEF Watched, Aborted
  <1>15. AbortsOnlyOnDeleted'
    BY <1>1, <1>3, <1>9, <1>10 DEF Kept, AbortsOnlyOnDeleted
  <1>16. watches' \subseteq 1 .. n
    BY <1>1, <1>3, <1>4
  <1>17. Kept'
    BY <1>1, <1>3, <1>4, <1>8, <1>10, <1>14, <1>15, <1>16 DEF Kept
  <1>18. Buffers'
    BY <1>1, <1>3 DEF Buffers
  <1> QED BY <1>17, <1>18, InvParts

\* What list_erase() leaves of a list.
LEMMA ErasedFacts ==
  ASSUME NEW S, NEW list \in Seq(S), NEW i \in 1 .. Len(list)
  PROVE  /\ Erased(list, i) \in Seq(S)
         /\ DOMAIN Erased(list, i) = 1 .. Len(list) - 1
         /\ \A j \in 1 .. Len(list) - 1 :
              \E k \in 1 .. Len(list) :
                /\ k # i /\ Erased(list, i)[j] = list[k]
                /\ k = IF j < i THEN j ELSE j + 1
  <1> DEFINE f(j) == IF j < i THEN j ELSE j + 1
             n == Len(list) - 1
  <1>1. n \in Nat /\ Len(list) = n + 1
    OBVIOUS
  <1>2. ASSUME NEW j \in 1 .. n PROVE f(j) \in 1 .. Len(list) /\ f(j) # i /\ list[f(j)] \in S
    BY <1>1
  <1>3. Erased(list, i) = [j \in 1 .. n |-> list[f(j)]]
    BY DEF Erased
  <1>4. [j \in 1 .. n |-> list[f(j)]] \in Seq(S)
    BY <1>1, <1>2
  <1> QED BY <1>2, <1>3, <1>4

\* notify_remove_path(), notify_remove_id(): the assertion fails for a watch
\* that is gone, and the others keep theirs.
LEMMA RemoveStep ==
  ASSUME Inv, NEW i \in DOMAIN entries, Remove(i)
  PROVE  Inv'
  <1>1. /\ entries \in Seq(EntryType(added)) /\ added \in Nat
        /\ DOMAIN entries = 1 .. Len(entries) /\ Len(entries) \in Nat
        /\ watches \subseteq 1 .. added /\ seen \in SeenType /\ Buffers /\ Kept
    BY InvParts DEF Kept
  <1>2. PICK e : e = entries[i]
    OBVIOUS
  <1>3. e.id \in Nat
    <2>1. e \in EntryType(added)
      BY <1>1, <1>2
    <2> QED BY <1>1, <2>1 DEF EntryType
  <1>4. /\ ~ Aborted /\ UNCHANGED <<added, seen, brought, batch, handled, phase>>
        /\ entries' = Erased(entries, i)
        /\ RemoveAll(<<e>>)
    BY <1>2 DEF Remove, ClientRuns, bufferVars
  <1>5. PICK r : r = <<e>>
    OBVIOUS
  <1>6. DOMAIN r = {1} /\ r[1] = e
    BY <1>5
  <1>7. /\ failed' = {r[k].id : k \in {j \in DOMAIN r :
                        r[j].id \notin watches \/ \E l \in 1 .. j - 1 : r[l].id = r[j].id}}
        /\ watches' = watches \ {r[k].id : k \in DOMAIN r}
        /\ events' = events \o [k \in DOMAIN r |-> r[k].id]
    BY <1>4, <1>5, Zenon DEF RemoveAll
  <1>8. 1 .. 1 - 1 = {}
    OBVIOUS
  <1>9. watches' = watches \ {e.id} /\ \A wd \in failed' : wd = e.id /\ e.id \notin watches
    BY <1>6, <1>7, <1>8
  <1>10. events' \in Seq(Nat)
    <2>1. PICK s : s = [k \in DOMAIN r |-> r[k].id]
      OBVIOUS
    <2>2. s = [k \in 1 .. 1 |-> e.id]
      BY <1>6, <2>1
    <2>3. s \in Seq(Nat)
      BY <1>3, <2>2
    <2> QED BY <1>1, <1>7, <2>1, <2>3 DEF Kept
  <1>11. /\ entries' \in Seq(EntryType(added)) /\ DOMAIN entries' = 1 .. Len(entries) - 1
         /\ \A j \in 1 .. Len(entries) - 1 :
              \E k \in 1 .. Len(entries) :
                k # i /\ entries'[j] = entries[k] /\ k = IF j < i THEN j ELSE j + 1
    BY <1>1, <1>4, ErasedFacts
  <1>12. ASSUME NEW j \in DOMAIN entries', NEW k \in DOMAIN entries', entries'[j].id = entries'[k].id
         PROVE  j = k \/ entries'[j].id \in seen.shared
    <2>1. PICK a \in 1 .. Len(entries) : entries'[j] = entries[a] /\ a = IF j < i THEN j ELSE j + 1
      BY <1>11
    <2>2. PICK b \in 1 .. Len(entries) : entries'[k] = entries[b] /\ b = IF k < i THEN k ELSE k + 1
      BY <1>11
    <2>3. a = b \/ entries[a].id \in seen.shared
      BY <1>1, <1>12, <2>1, <2>2 DEF Kept, Watched
    <2>4. i \in Nat /\ j \in Nat /\ k \in Nat
      BY <1>1, <1>11
    <2> QED BY <2>1, <2>2, <2>3, <2>4
  <1>13. ASSUME NEW j \in DOMAIN entries'
         PROVE  entries'[j].id \in watches' \cup seen.gone \cup seen.shared
    <2>1. PICK a \in 1 .. Len(entries) : a # i /\ entries'[j] = entries[a]
      BY <1>11
    <2>2. entries[a].id # e.id \/ entries[a].id \in seen.shared
      BY <1>1, <1>2, <2>1 DEF Kept, Watched
    <2>3. entries[a].id \in watches \cup seen.gone \cup seen.shared
      BY <1>1, <1>4, <2>1 DEF Kept, Watched
    <2> QED BY <1>9, <2>1, <2>2, <2>3
  <1>14. Watched'
    BY <1>4, <1>12, <1>13 DEF Watched
  <1>15. AbortsOnlyOnDeleted'
    BY <1>1, <1>2, <1>4, <1>9 DEF Kept, Watched, AbortsOnlyOnDeleted
  <1>16. Kept'
    BY <1>1, <1>3, <1>4, <1>9, <1>10, <1>11, <1>14, <1>15 DEF Kept
  <1>17. Buffers'
    BY <1>1, <1>4 DEF Buffers
  <1> QED BY <1>16, <1>17, InvParts

\* notify_close(): all entries are removed, those of a shared watch one by one.
LEMMA CloseStep ==
  ASSUME Inv, Close
  PROVE  Inv'
  <1>1. /\ entries \in Seq(EntryType(added)) /\ added \in Nat /\ events \in Seq(Nat)
        /\ DOMAIN entries = 1 .. Len(entries) /\ Len(entries) \in Nat
        /\ watches \subseteq 1 .. added /\ seen \in SeenType /\ Buffers /\ Kept
    BY InvParts DEF Kept
  <1>2. PICK e : e = <<>>
    OBVIOUS
  <1>3. /\ ~ Aborted /\ UNCHANGED <<added, seen, brought>> /\ entries' = e /\ batch' = e
        /\ handled' = 0 /\ phase' # "client" /\ RemoveAll(entries)
    BY <1>2 DEF Close, ClientRuns
  <1>4. /\ failed' = {entries[k].id : k \in {j \in DOMAIN entries :
                        \/ entries[j].id \notin watches
                        \/ \E l \in 1 .. j - 1 : entries[l].id = entries[j].id}}
        /\ watches' = watches \ {entries[k].id : k \in DOMAIN entries}
        /\ events' = events \o [k \in DOMAIN entries |-> entries[k].id]
    BY <1>3, Zenon DEF RemoveAll
  <1>5. ASSUME NEW k \in 1 .. Len(entries) PROVE entries[k].id \in Nat
    <2>1. entries[k] \in EntryType(added)
      BY <1>1
    <2> QED BY <1>1, <2>1 DEF EntryType
  <1>6. events' \in Seq(Nat)
    <2>1. PICK s : s = [k \in 1 .. Len(entries) |-> entries[k].id]
      OBVIOUS
    <2>2. s \in Seq(Nat)
      BY <1>1, <1>5, <2>1
    <2> QED BY <1>1, <1>4, <2>1, <2>2
  <1>7. ASSUME NEW wd \in failed' PROVE wd \in Nat /\ wd \in seen.gone \cup seen.shared
    <2>1. PICK j \in DOMAIN entries :
            /\ wd = entries[j].id
            /\ \/ entries[j].id \notin watches
               \/ \E l \in 1 .. j - 1 : entries[l].id = entries[j].id
      BY <1>4, <1>7
    <2>2. CASE entries[j].id \notin watches
      BY <1>1, <1>3, <1>5, <2>1, <2>2 DEF Kept, Watched
    <2>3. CASE \E l \in 1 .. j - 1 : entries[l].id = entries[j].id
      <3>1. PICK l \in 1 .. j - 1 : entries[l].id = entries[j].id
        BY <2>3
      <3>2. l \in DOMAIN entries /\ l # j
        BY <1>1, <2>1
      <3> QED BY <1>1, <1>5, <2>1, <3>1, <3>2 DEF Kept, Watched
    <2> QED BY <2>1, <2>2, <2>3
  <1>8. Watched'
    <2>1. DOMAIN entries' = {}
      BY <1>2, <1>3
    <2> QED BY <2>1 DEF Watched
  <1>9. AbortsOnlyOnDeleted'
    BY <1>3, <1>7 DEF AbortsOnlyOnDeleted
  <1>10. entries' \in Seq(EntryType(added)) /\ e \in Seq(Nat)
    BY <1>2, <1>3
  <1>11. Kept'
    BY <1>1, <1>3, <1>4, <1>6, <1>7, <1>8, <1>9, <1>10 DEF Kept
  <1>12. Buffers'
    BY <1>1, <1>3, <1>10 DEF Buffers
  <1> QED BY <1>11, <1>12, InvParts

\* The kernel reports an event, and may remove the watch.
LEMMA KernelEventStep ==
  ASSUME Inv, NEW wd \in watches, NEW ends \in BOOLEAN, KernelEvent(wd, ends)
  PROVE  Inv'
  <1>1. Buffers /\ Kept /\ wd \in Nat
    BY InvParts DEF Kept
  <1>2. /\ UNCHANGED <<entries, added, failed, brought, batch, handled, phase>>
        /\ events' = Append(events, wd)
    BY DEF KernelEvent, bufferVars
  <1>3. PICK g : g = IF ends THEN seen.gone \cup {wd} ELSE seen.gone
    OBVIOUS
  <1>4. /\ seen' = [seen EXCEPT !.events = seen.events + 1, !.gone = g]
        /\ watches' = IF ends THEN watches \ {wd} ELSE watches
    BY <1>3 DEF KernelEvent
  <1>5. seen \in SeenType /\ g \in SUBSET Nat
    BY <1>1, <1>3 DEF Kept, SeenType
  <1>6. seen' \in SeenType /\ seen'.gone = g /\ seen'.shared = seen.shared
    BY <1>4, <1>5, SeenFacts
  <1>7. seen.gone \subseteq g /\ watches \cup seen.gone \subseteq watches' \cup g /\ watches' \subseteq watches
    BY <1>3, <1>4
  <1>8. Watched' /\ AbortsOnlyOnDeleted'
    BY <1>1, <1>2, <1>6, <1>7 DEF Kept, Watched, AbortsOnlyOnDeleted, Aborted
  <1>9. events' \in Seq(Nat)
    BY <1>1, <1>2 DEF Kept
  <1>10. Kept'
    BY <1>1, <1>2, <1>6, <1>7, <1>8, <1>9 DEF Kept
  <1>11. Buffers'
    BY <1>1, <1>2 DEF Buffers
  <1> QED BY <1>10, <1>11, InvParts

\* What a read brings is events, and it leaves the batch as long as it was.
LEMMA OverwrittenFacts ==
  ASSUME events \in Seq(Nat), NEW part \in Seq(Nat), NEW place \in Nat
  PROVE  /\ Overwritten(part, place) \in Seq(Nat) /\ Lost(part, place) \subseteq Nat
         /\ part # <<>> => Overwritten(part, place) # <<>>
  <1>1. PICK n \in Nat : n = Len(part) /\ DOMAIN part = 1 .. n /\ Len(events) \in Nat
    OBVIOUS
  <1>2. PICK o : o = [i \in 1 .. n |-> IF place + i <= Len(events) THEN events[place + i] ELSE part[i]]
    OBVIOUS
  <1>3. ASSUME NEW i \in 1 .. n
        PROVE  (IF place + i <= Len(events) THEN events[place + i] ELSE part[i]) \in Nat
    <2>1. part[i] \in Nat
      BY <1>1
    <2>2. place + i <= Len(events) => events[place + i] \in Nat
      BY <1>1
    <2> QED BY <2>1, <2>2
  <1>4. o \in Seq(Nat) /\ Len(o) = n
    BY <1>2, <1>3
  <1>5. Overwritten(part, place) = o
    BY <1>1, <1>2 DEF Overwritten
  <1>6. part # <<>> => o # <<>>
    <2>1. part # <<>> => n # 0
      BY <1>1
    <2> QED BY <1>4, <2>1
  <1>7. Lost(part, place) \subseteq Nat
    <2>1. \A i \in DOMAIN part : part[i] \in Nat
      OBVIOUS
    <2> QED BY <2>1 DEF Lost
  <1> QED BY <1>4, <1>5, <1>6, <1>7

LEMMA AheadFacts ==
  ASSUME Buffers
  PROVE  Ahead \in Seq(Nat) /\ AheadAt \in Nat
  BY DEF Buffers, Ahead, AheadAt

LEMMA KernelReadStep ==
  ASSUME Inv, KernelRead
  PROVE  Inv'
  <1>1. Buffers /\ Kept /\ events \in Seq(Nat) /\ seen \in SeenType
    BY InvParts DEF Kept
  <1>2. PICK e, h : e = <<>> /\ h = seen.overwritten \cup Lost(Ahead, AheadAt)
    OBVIOUS
  <1>3. /\ UNCHANGED <<entries, failed, watches, added, handled, phase>>
        /\ events' = e /\ brought' = events /\ batch' = Overwritten(batch, handled)
        /\ seen' = [seen EXCEPT !.overwritten = h]
    BY <1>2 DEF KernelRead
  <1>4. h \subseteq Nat
    <2>1. Lost(Ahead, AheadAt) \subseteq Nat
      BY <1>1, AheadFacts, OverwrittenFacts
    <2> QED BY <1>1, <1>2, <2>1 DEF SeenType
  <1>5. seen' \in SeenType /\ seen'.gone = seen.gone /\ seen'.shared = seen.shared
    BY <1>1, <1>3, <1>4, SeenFacts
  <1>6. Buffers'
    BY <1>1, <1>3, OverwrittenFacts DEF Buffers
  <1>7. e \in Seq(Nat)
    BY <1>2
  <1> QED BY <1>3, <1>5, <1>6, <1>7, OtherStep

LEMMA OrphanStep ==
  ASSUME Inv, NEW taken \in BOOLEAN, OrphanEnds(taken)
  PROVE  Inv'
  <1>1. Buffers /\ Kept /\ events \in Seq(Nat) /\ seen \in SeenType
    BY InvParts DEF Kept
  <1>2. UNCHANGED <<entries, failed, watches, added, handled, phase>>
    BY DEF OrphanEnds
  <1>3. CASE taken
    <2>1. PICK e, g, h : /\ e = <<>> /\ g = seen.eaten \cup {events[i] : i \in DOMAIN events}
                         /\ h = seen.overwritten \cup Lost(Ahead, AheadAt) \cup Lost(brought, 0)
      OBVIOUS
    <2>2. /\ events' = e /\ brought' = Overwritten(brought, 0)
          /\ batch' = Overwritten(batch, handled)
          /\ seen' = [seen EXCEPT !.eaten = g, !.overwritten = h]
      BY <1>3, <2>1 DEF OrphanEnds
    <2>3. g \subseteq Nat
      <3>1. \A i \in DOMAIN events : events[i] \in Nat
        BY <1>1
      <3> QED BY <1>1, <2>1, <3>1 DEF SeenType
    <2>4. h \subseteq Nat
      <3>1. Lost(Ahead, AheadAt) \subseteq Nat
        BY <1>1, AheadFacts, OverwrittenFacts
      <3>2. Lost(brought, 0) \subseteq Nat
        BY <1>1, OverwrittenFacts DEF Buffers
      <3>3. seen.overwritten \subseteq Nat
        BY <1>1 DEF SeenType
      <3> QED BY <2>1, <3>1, <3>2, <3>3
    <2>5. seen' \in SeenType /\ seen'.gone = seen.gone /\ seen'.shared = seen.shared
      <3>1. g \in SUBSET Nat /\ h \in SUBSET Nat
        BY <2>3, <2>4
      <3> QED BY <1>1, <2>2, <3>1 DEF SeenType
    <2>6. Buffers'
      BY <1>1, <1>2, <2>2, OverwrittenFacts DEF Buffers
    <2>7. e \in Seq(Nat)
      BY <2>1
    <2> QED BY <1>2, <2>2, <2>5, <2>6, <2>7, OtherStep
  <1>4. CASE ~ taken
    <2>1. UNCHANGED <<events, brought, batch, seen>>
      BY <1>4 DEF OrphanEnds
    <2>2. Buffers'
      BY <1>1, <1>2, <2>1 DEF Buffers
    <2> QED BY <1>1, <1>2, <2>1, <2>2, OtherStep
  <1> QED BY <1>3, <1>4

\* What notify_read() does to the buffers.
LEMMA ReadStep ==
  ASSUME Inv, Open \/ NextRuns \/ ReadBegins \/ ReadCalls \/ ReadSkips \/ Return \/ ReadEnds
  PROVE  Inv'
  <1>1. Buffers /\ Kept /\ events \in Seq(Nat) /\ seen \in SeenType
    BY InvParts DEF Kept
  <1>2. UNCHANGED <<entries, failed, watches, added, seen, events>>
    BY DEF Open, NextRuns, ReadBegins, ReadCalls, ReadSkips, Return, ReadEnds, Update, kernelVars
  <1>3. PICK e : e = <<>>
    OBVIOUS
  <1>4. e \in Seq(Nat)
    BY <1>3
  <1>5. CASE Open \/ NextRuns
    <2>1. UNCHANGED <<batch, handled, phase>> /\ (brought' = brought \/ brought' = e)
      BY <1>3, <1>5 DEF Open, NextRuns, Update, bufferVars
    <2> QED BY <1>1, <1>2, <1>4, <2>1, OtherStep DEF Buffers
  <1>6. CASE ReadBegins \/ ReadEnds
    <2>1. /\ batch' \in {batch, brought} /\ handled' = 0 /\ phase' # "client"
          /\ brought' = brought \/ brought' = e
      BY <1>3, <1>6 DEF ReadBegins, ReadEnds, Update
    <2> QED BY <1>1, <1>2, <1>4, <2>1, OtherStep DEF Buffers
  <1>7. CASE ReadCalls
    <2>1. UNCHANGED <<brought, batch, handled>> /\ batch # <<>>
      BY <1>7 DEF ReadCalls, bufferVars
    <2> QED BY <1>1, <1>2, <2>1, OtherStep DEF Buffers
  <1>8. CASE ReadSkips \/ Return
    <2>1. /\ brought' = brought /\ phase' # "client"
          /\ \/ batch # <<>> /\ batch' = Tail(batch) /\ handled' = handled + 1
             \/ batch' = batch /\ handled' = handled
      <3>1. CASE ReadSkips
        BY <3>1 DEF ReadSkips, Handled
      <3>2. CASE Return /\ phase = "client"
        BY <1>1, <3>2 DEF Return, Handled, Buffers
      <3>3. CASE Return /\ phase # "client"
        BY <3>3 DEF Return
      <3> QED BY <1>8, <3>1, <3>2, <3>3
    <2>2. batch # <<>> => Tail(batch) \in Seq(Nat)
      BY <1>1 DEF Buffers
    <2>3. batch' \in Seq(Nat) /\ handled' \in Nat /\ brought' \in Seq(Nat)
      <3>1. brought \in Seq(Nat) /\ batch \in Seq(Nat) /\ handled \in Nat
        BY <1>1 DEF Buffers
      <3>2. handled' \in Nat
        BY <2>1, <3>1
      <3>3. batch' \in Seq(Nat)
        BY <2>1, <2>2, <3>1, Zenon
      <3> QED BY <2>1, <3>1, <3>2, <3>3
    <2>4. Buffers' /\ events' \in Seq(Nat)
      BY <1>1, <1>2, <2>1, <2>3 DEF Buffers
    <2> QED BY <1>1, <1>2, <2>4, OtherStep
  <1> QED BY <1>5, <1>6, <1>7, <1>8

\* The invariant holds in every behaviour.
THEOREM Invariance ==
  Spec => []Inv
  <1>1. Inv /\ UNCHANGED vars => Inv'
    BY DEF vars, Inv, TypeOK, Walking, Watched, AbortsOnlyOnDeleted, Aborted
  <1>2. Inv /\ Next => Inv'
    BY AddStep, RemoveStep, CloseStep, KernelEventStep, KernelReadStep, OrphanStep, ReadStep DEF Next
  <1> QED BY <1>1, <1>2, InitInv, PTL DEF Spec

\* The assertion of notify_remove_entry() fails for no watch but those that the
\* kernel removed by itself and those that were added by two paths of one file,
\* however entries are added, removed and closed, from the callback too.
THEOREM AbortsOnDeletedAlways ==
  Spec => []AbortsOnlyOnDeleted
  <1>1. Inv => AbortsOnlyOnDeleted
    BY DEF Inv
  <1> QED BY <1>1, Invariance, PTL


-----------------------------------------------------------------------------
(* Induction over a range of numbers, for a set in place of a predicate *)

\* What holds of 0, and of each number if it holds of the one before, holds of
\* all: else the numbers up to one of which it does not hold, less one each,
\* would be the same set without that one, which has fewer elements.
LEMMA SetInduction ==
  ASSUME NEW N \in Nat, NEW T, 0 \in T, \A n \in 1 .. N : n - 1 \in T => n \in T
  PROVE  \A n \in 0 .. N : n \in T
  <1> SUFFICES ASSUME NEW k \in 0 .. N, k \notin T
               PROVE  FALSE
    OBVIOUS
  <1> DEFINE D == {n \in 0 .. k : n \notin T}
             f == [n \in D |-> n - 1]
  <1>1. IsFiniteSet(D)
    <2>1. IsFiniteSet(0 .. k)
      BY FS_Interval
    <2>2. D \subseteq 0 .. k
      OBVIOUS
    <2> QED BY <2>1, <2>2, FS_Subset
  <1>2. k \in D
    OBVIOUS
  <1>3. IsFiniteSet(D \ {k}) /\ Cardinality(D \ {k}) = Cardinality(D) - 1
    BY <1>1, <1>2, FS_RemoveElement
  <1>4. Cardinality(D) \in Nat
    BY <1>1, FS_CardinalityType
  <1>5. f \in [D -> D \ {k}]
    <2> SUFFICES ASSUME NEW n \in D PROVE n - 1 \in D \ {k}
      OBVIOUS
    <2> QED OBVIOUS
  <1> HIDE DEF f
  <1>6. \E x, y \in D : x # y /\ f[x] = f[y]
    BY <1>1, <1>3, <1>4, <1>5, FS_PigeonHole
  <1> QED BY <1>6 DEF f

\* A set of numbers has a least one.
LEMMA LeastOf ==
  ASSUME NEW N \in Nat, NEW T, N \in T
  PROVE  \E n \in 0 .. N : n \in T /\ \A m \in 0 .. n - 1 : m \notin T
  <1> SUFFICES ASSUME \A n \in 0 .. N : n \in T => \E m \in 0 .. n - 1 : m \in T
               PROVE  FALSE
    OBVIOUS
  <1> DEFINE U == {n \in 0 .. N : \A m \in 0 .. n : m \notin T}
  <1>1. 0 \in U
    OBVIOUS
  <1>2. ASSUME NEW n \in 1 .. N, n - 1 \in U PROVE n \in U
    <2>1. \A m \in 0 .. n - 1 : m \notin T
      BY <1>2
    <2>2. n \notin T
      BY <2>1
    <2> QED BY <2>1, <2>2
  <1> HIDE DEF U
  <1>3. \A n \in 0 .. N : n \in U
    BY <1>1, <1>2, SetInduction
  <1>4. N \in U
    BY <1>3
  <1> QED BY <1>4 DEF U

\* The first value is a, and each of the N others a step from the one before.
Steps(S, N) == [1 .. N -> [S -> S]]

Iteration(f, S, a, N, F) ==
  /\ f \in [0 .. N -> S]
  /\ f[0] = a
  /\ \A n \in 1 .. N : f[n] = F[n][f[n - 1]]

\* A function that is defined step by step exists.
LEMMA Iterates ==
  ASSUME NEW S, NEW a \in S, NEW N \in Nat, NEW F \in Steps(S, N)
  PROVE  \E f : Iteration(f, S, a, N, F)
  <1> DEFINE Upto(k, f) == f[0] = a /\ \A n \in 1 .. k : f[n] = F[n][f[n - 1]]
             T == {k \in 0 .. N : \E f \in [0 .. k -> S] : Upto(k, f)}
  <1>1. 0 \in T
    <2>1. PICK f : f = [n \in 0 .. 0 |-> a]
      OBVIOUS
    <2>2. f \in [0 .. 0 -> S]
      BY <2>1
    <2>3. f[0] = a
      BY <2>1
    <2>4. Upto(0, f)
      BY <2>3
    <2>5. 0 \in 0 .. N
      OBVIOUS
    <2> QED BY <2>2, <2>4, <2>5
  <1>2. ASSUME NEW k \in 1 .. N, k - 1 \in T PROVE k \in T
    <2>1. PICK f \in [0 .. k - 1 -> S] : Upto(k - 1, f)
      BY <1>2
    <2> DEFINE g == [n \in 0 .. k |-> IF n = k THEN F[k][f[k - 1]] ELSE f[n]]
    <2>2. F[k][f[k - 1]] \in S
      BY DEF Steps
    <2>3. g \in [0 .. k -> S]
      BY <2>2
    <2>4. g[k] = F[k][f[k - 1]] /\ \A n \in 0 .. k - 1 : g[n] = f[n]
      OBVIOUS
    <2> HIDE DEF g
    <2>5. ASSUME NEW n \in 1 .. k PROVE g[n] = F[n][g[n - 1]]
      <3>1. CASE n = k
        BY <2>4, <3>1
      <3>2. CASE n # k
        <4>1. n \in 1 .. k - 1 /\ n \in 0 .. k - 1 /\ n - 1 \in 0 .. k - 1
          BY <3>2
        <4>2. f[n] = F[n][f[n - 1]]
          BY <2>1, <4>1
        <4> QED BY <2>4, <4>1, <4>2
      <3> QED BY <3>1, <3>2
    <2>6. g[0] = a
      BY <2>1, <2>4
    <2> QED BY <2>3, <2>5, <2>6
  <1> HIDE DEF T
  <1>3. \A n \in 0 .. N : n \in T
    BY <1>1, <1>2, SetInduction
  <1>4. N \in T
    BY <1>3
  <1>5. PICK f \in [0 .. N -> S] : Upto(N, f)
    BY <1>4 DEF T
  <1>6. Iteration(f, S, a, N, F)
    BY <1>5 DEF Iteration
  <1> QED BY <1>6


-----------------------------------------------------------------------------
(* Places of a hash table: v is a vacant one, and places count from the    *)
(* one behind it on.  A search never gets past v, so that the table, which *)
(* is a ring, has an order.                                                *)

Home(key, n) == Hash[key] % n

Pos(x, v, n) == IF x > v THEN x - v - 1 ELSE x - v - 1 + n

\* The remainder of a sum.
LEMMA RemainderOfSum ==
  ASSUME NEW n \in Nat \ {0}, NEW h \in Nat, NEW d \in 0 .. n - 1
  PROVE  /\ h % n \in 0 .. n - 1
         /\ (h + d) % n = IF (h % n) + d < n THEN (h % n) + d ELSE (h % n) + d - n
  <1> DEFINE q == h \div n
             r == h % n
             p == (h + d) \div n
             s == (h + d) % n
  <1>1. q \in Int /\ r \in 0 .. n - 1 /\ h = n * q + r
    OBVIOUS
  <1>2. h + d \in Int
    OBVIOUS
  <1>3. p \in Int /\ s \in 0 .. n - 1 /\ h + d = n * p + s
    BY <1>2
  <1> HIDE DEF p, q, r, s
  <1>4. n * (p - q) = r + d - s
    BY <1>1, <1>3
  <1>5. p - q \in Int
    BY <1>1, <1>3
  <1>6. PICK k \in Int : k = p - q
    BY <1>5
  <1>7. n * k = r + d - s
    BY <1>4, <1>6
  <1>8. k = 0 \/ k = 1
    <2>1. CASE k >= 2
      <3>1. n * k >= 2 * n
        BY <2>1
      <3> QED BY <3>1, <1>1, <1>3, <1>7
    <2>2. CASE k <= -1
      <3>1. n * k <= - n
        BY <2>2
      <3> QED BY <3>1, <1>1, <1>3, <1>7
    <2> QED BY <2>1, <2>2
  <1>9. s = r + d \/ s = r + d - n
    BY <1>1, <1>3, <1>7, <1>8
  <1>10. s = IF r + d < n THEN r + d ELSE r + d - n
    BY <1>1, <1>3, <1>9
  <1> QED BY <1>1, <1>10 DEF r, s

\* Places have an order.
LEMMA PosFacts ==
  ASSUME NEW n \in Nat \ {0}, NEW v \in 0 .. n - 1
  PROVE  /\ \A x \in 0 .. n - 1 : Pos(x, v, n) \in 0 .. n - 1
         /\ \A x, y \in 0 .. n - 1 : Pos(x, v, n) = Pos(y, v, n) => x = y
         /\ Pos(v, v, n) = n - 1
         /\ \A c \in 0 .. n - 1 : \E x \in 0 .. n - 1 : Pos(x, v, n) = c
  <1>1. ASSUME NEW c \in 0 .. n - 1
        PROVE  \E x \in 0 .. n - 1 : Pos(x, v, n) = c
    <2>1. CASE c + v + 1 < n
      <3>1. c + v + 1 \in 0 .. n - 1 /\ Pos(c + v + 1, v, n) = c
        BY <2>1 DEF Pos
      <3> QED BY <3>1
    <2>2. CASE c + v + 1 >= n
      <3>1. c + v + 1 - n \in 0 .. n - 1 /\ Pos(c + v + 1 - n, v, n) = c
        BY <2>2 DEF Pos
      <3> QED BY <3>1
    <2> QED BY <2>1, <2>2
  <1> QED BY <1>1 DEF Pos

\* The place that a search comes to after d steps.
LEMMA PosAt ==
  ASSUME NEW n \in Nat \ {0}, NEW v \in 0 .. n - 1, NEW h \in Nat, NEW d \in Nat,
         Pos(h % n, v, n) + d < n
  PROVE  (h + d) % n \in 0 .. n - 1 /\ Pos((h + d) % n, v, n) = Pos(h % n, v, n) + d
  <1>1. h % n \in 0 .. n - 1
    BY RemainderOfSum
  <1>2. Pos(h % n, v, n) \in 0 .. n - 1
    BY <1>1, PosFacts
  <1>3. d \in 0 .. n - 1
    BY <1>2
  <1>4. (h + d) % n = IF (h % n) + d < n THEN (h % n) + d ELSE (h % n) + d - n
    BY <1>3, RemainderOfSum
  <1> DEFINE r == h % n
             s == (h + d) % n
  <1> HIDE DEF r, s
  <1>5. s \in 0 .. n - 1 /\ Pos(s, v, n) = Pos(r, v, n) + d
    <2>1. r \in 0 .. n - 1 /\ Pos(r, v, n) + d < n /\ s = IF r + d < n THEN r + d ELSE r + d - n
      BY <1>1, <1>4 DEF r, s
    <2> QED BY <2>1, <1>3 DEF Pos
  <1> QED BY <1>5 DEF r, s

\* The next place.
LEMMA PosNext ==
  ASSUME NEW n \in Nat \ {0}, NEW v \in 0 .. n - 1, NEW x \in 0 .. n - 1, x # v
  PROVE  (x + 1) % n \in 0 .. n - 1 /\ Pos((x + 1) % n, v, n) = Pos(x, v, n) + 1
  <1>1. x % n = x
    OBVIOUS
  <1>2. Pos(x, v, n) + 1 < n
    BY DEF Pos
  <1> QED BY <1>1, <1>2, PosAt

\* Displaced() is about the order of places: k is not behind i.
LEMMA DisplacedIs ==
  ASSUME NEW n \in Nat \ {0}, NEW v \in 0 .. n - 1, NEW i \in 0 .. n - 1, NEW j \in 0 .. n - 1,
         NEW k \in 0 .. n - 1, Pos(i, v, n) < Pos(j, v, n), Pos(k, v, n) <= Pos(j, v, n), j # v
  PROVE  Displaced(i, j, k) <=> Pos(k, v, n) <= Pos(i, v, n)
  BY DEF Displaced, Pos


-----------------------------------------------------------------------------
(* Searching a table *)

ElementType == [key : DOMAIN Hash \cup {0}, value : Nat]

\* A table of n places.
Table(n) == [elements : [0 .. n - 1 -> ElementType], count : Nat]

LEMMA TableFacts ==
  ASSUME NEW n \in Nat \ {0}, NEW map \in Table(n)
  PROVE  /\ map.elements \in [0 .. n - 1 -> ElementType]
         /\ map.count \in Nat
         /\ DOMAIN map.elements = 0 .. n - 1
         /\ MapCapacity(map) = n
         /\ \A x \in 0 .. n - 1 : map.elements[x].key \in DOMAIN Hash \cup {0}
         /\ \A x \in 0 .. n - 1 : map.elements[x].value \in Nat
         /\ \A x \in 0 .. n - 1 : map.elements[x] \in ElementType
  <1>1. /\ map.elements \in [0 .. n - 1 -> ElementType] /\ map.count \in Nat
        /\ DOMAIN map.elements = 0 .. n - 1
    BY DEF Table
  <1>2. Cardinality(0 .. n - 1) = n
    BY FS_Interval
  <1>3. MapCapacity(map) = n
    BY <1>1, <1>2 DEF MapCapacity
  <1>4. \A x \in 0 .. n - 1 : map.elements[x] \in ElementType
    BY <1>1
  <1>5. ASSUME NEW x \in 0 .. n - 1
        PROVE  map.elements[x].key \in DOMAIN Hash \cup {0} /\ map.elements[x].value \in Nat
    BY <1>4 DEF ElementType
  <1> QED BY <1>1, <1>3, <1>4, <1>5

LEMMA HomeType ==
  ASSUME NEW n \in Nat \ {0}, NEW key \in DOMAIN Hash
  PROVE  key \in Nat \ {0} /\ Hash[key] \in Nat /\ Home(key, n) \in 0 .. n - 1
  <1>1. key \in Nat \ {0} /\ Hash[key] \in Nat
    BY MapAssumption
  <1>2. \A h \in Nat : h % n \in 0 .. n - 1
    OBVIOUS
  <1> QED BY <1>1, <1>2 DEF Home

\* A search for a key ends at place q: q has the key or is vacant, and no place
\* from the hash of the key up to it has or is.
EndsAt(map, key, q, v, n) ==
  /\ q \in 0 .. n - 1
  /\ map.elements[q].key \in {0, key}
  /\ Pos(Home(key, n), v, n) <= Pos(q, v, n)
  /\ \A y \in 0 .. n - 1 :
       Pos(Home(key, n), v, n) <= Pos(y, v, n) /\ Pos(y, v, n) < Pos(q, v, n)
         => map.elements[y].key \notin {0, key}

\* map_at() comes to such a place, if there is a vacant one.
LEMMA PlaceFacts ==
  ASSUME NEW n \in Nat \ {0}, NEW map \in Table(n), NEW v \in 0 .. n - 1,
         map.elements[v].key = 0, NEW key \in DOMAIN Hash
  PROVE  EndsAt(map, key, MapPlace(map, key), v, n)
  <1> DEFINE at(d) == (Hash[key] + d) % n
             ends(d) == map.elements[at(d)].key \in {0, key}
             h == Pos(Home(key, n), v, n)
             T == {d \in 0 .. n - 1 : ends(d)}
  <1>1. /\ MapCapacity(map) = n
        /\ Hash[key] \in Nat /\ Home(key, n) \in 0 .. n - 1
        /\ h \in 0 .. n - 1 /\ Home(key, n) = Hash[key] % n
    <2>1. MapCapacity(map) = n
      BY TableFacts
    <2>2. Hash[key] \in Nat /\ Home(key, n) \in 0 .. n - 1
      BY HomeType
    <2>3. h \in 0 .. n - 1
      BY <2>2, PosFacts
    <2> QED BY <2>1, <2>2, <2>3 DEF Home
  <1>2. \A d \in 0 .. n - 1 : h + d < n => at(d) \in 0 .. n - 1 /\ Pos(at(d), v, n) = h + d
    <2> SUFFICES ASSUME NEW d \in 0 .. n - 1, h + d < n
                 PROVE  at(d) \in 0 .. n - 1 /\ Pos(at(d), v, n) = h + d
      OBVIOUS
    <2>1. PICK H : H = Hash[key]
      OBVIOUS
    <2>2. H \in Nat /\ d \in Nat /\ h = Pos(H % n, v, n)
      BY <1>1, <2>1
    <2>3. (H + d) % n \in 0 .. n - 1 /\ Pos((H + d) % n, v, n) = Pos(H % n, v, n) + d
      <3>1. Pos(H % n, v, n) + d < n
        BY <2>2
      <3>2. \A g, d1 \in Nat : Pos(g % n, v, n) + d1 < n =>
              (g + d1) % n \in 0 .. n - 1 /\ Pos((g + d1) % n, v, n) = Pos(g % n, v, n) + d1
        BY PosAt, Zenon
      <3>3. d \in Nat /\ H \in Nat
        BY <2>2
      <3> QED BY <3>1, <3>2, <3>3, Zenon
    <2> QED BY <2>1, <2>2, <2>3
  <1> HIDE DEF h, at
  <1>3. at(n - 1 - h) = v
    <2>1. n - 1 - h \in 0 .. n - 1 /\ h + (n - 1 - h) = n - 1
      BY <1>1
    <2>2. at(n - 1 - h) \in 0 .. n - 1 /\ Pos(at(n - 1 - h), v, n) = n - 1
      BY <2>1, <1>2
    <2>3. PICK q : q = at(n - 1 - h)
      OBVIOUS
    <2>4. q \in 0 .. n - 1 /\ Pos(q, v, n) = n - 1
      BY <2>2, <2>3
    <2>5. q = v
      BY <2>4, PosFacts
    <2> QED BY <2>3, <2>5
  <1>4. PICK d \in 0 .. n - 1 - h : d \in T /\ \A m \in 0 .. d - 1 : m \notin T
    <2>1. n - 1 - h \in Nat /\ n - 1 - h \in 0 .. n - 1
      BY <1>1
    <2>2. n - 1 - h \in T
      BY <1>3, <2>1
    <2> HIDE DEF T
    <2> QED BY <2>1, <2>2, LeastOf
  <1> DEFINE First(c) == ends(c) /\ \A m \in 0 .. c - 1 : ~ ends(m)
             c == CHOOSE e \in 0 .. n - 1 : First(e)
  <1>5. d \in 0 .. n - 1 /\ First(d)
    <2>1. d \in 0 .. n - 1 /\ \A m \in 0 .. d - 1 : m \in 0 .. n - 1
      BY <1>1, <1>4
    <2> QED BY <1>4, <2>1
  <1>6. MapPlace(map, key) = at(c)
    BY <1>1 DEF MapPlace, at
  <1>7. c \in 0 .. n - 1 /\ First(c)
    BY <1>5
  <1> HIDE DEF c
  <1>8. c <= d
    BY <1>5, <1>7
  <1>9. h + c < n
    BY <1>1, <1>4, <1>7, <1>8
  <1>10. at(c) \in 0 .. n - 1 /\ Pos(at(c), v, n) = h + c
    BY <1>2, <1>7, <1>9
  <1>11. ASSUME NEW y \in 0 .. n - 1, h <= Pos(y, v, n), Pos(y, v, n) < h + c
         PROVE  map.elements[y].key \notin {0, key}
    <2>1. PICK m : m = Pos(y, v, n) - h
      OBVIOUS
    <2>2. Pos(y, v, n) \in 0 .. n - 1
      BY PosFacts
    <2>3. m \in 0 .. c - 1 /\ m \in 0 .. n - 1 /\ h + m < n /\ h + m = Pos(y, v, n)
      BY <1>1, <1>7, <1>11, <2>1, <2>2
    <2>4. at(m) \in 0 .. n - 1 /\ Pos(at(m), v, n) = Pos(y, v, n)
      BY <1>2, <2>3
    <2>5. at(m) = y
      BY <2>4, PosFacts
    <2> QED BY <1>7, <2>3, <2>5
  <1>12. map.elements[at(c)].key \in {0, key}
    BY <1>7
  <1>13. h <= h + c
    BY <1>1, <1>7
  <1> DEFINE p == at(c)
  <1>14. p \in 0 .. n - 1 /\ Pos(p, v, n) = h + c /\ map.elements[p].key \in {0, key}
    BY <1>10, <1>12
  <1> HIDE DEF p
  <1>15. EndsAt(map, key, p, v, n)
    BY <1>11, <1>13, <1>14 DEF EndsAt, h
  <1> QED BY <1>6, <1>15 DEF p

\* There is one such place only.
LEMMA EndsOnce ==
  ASSUME NEW n \in Nat \ {0}, NEW v \in 0 .. n - 1, NEW map, NEW key, NEW p, NEW q,
         EndsAt(map, key, p, v, n), EndsAt(map, key, q, v, n)
  PROVE  p = q
  <1>1. p \in 0 .. n - 1 /\ q \in 0 .. n - 1
    BY DEF EndsAt
  <1>2. Pos(p, v, n) \in 0 .. n - 1 /\ Pos(q, v, n) \in 0 .. n - 1
    BY <1>1, PosFacts
  <1>3. ~ (Pos(p, v, n) < Pos(q, v, n)) /\ ~ (Pos(q, v, n) < Pos(p, v, n))
    BY <1>1 DEF EndsAt
  <1>4. Pos(p, v, n) = Pos(q, v, n)
    BY <1>2, <1>3
  <1> QED BY <1>1, <1>4, PosFacts


\* The places that are not vacant, and what they hold.
Full(map) == {i \in DOMAIN map.elements : map.elements[i].key # 0}

Contents(map) == {map.elements[x] : x \in Full(map)}

\* No vacant place is between the hash of an element and its place.
Reachable(map, v, n) ==
  \A x \in 0 .. n - 1 : map.elements[x].key # 0 =>
    /\ Pos(Home(map.elements[x].key, n), v, n) <= Pos(x, v, n)
    /\ \A y \in 0 .. n - 1 :
         Pos(Home(map.elements[x].key, n), v, n) <= Pos(y, v, n) /\ Pos(y, v, n) < Pos(x, v, n)
           => map.elements[y].key # 0

Distinct(map, n) ==
  \A x, y \in 0 .. n - 1 :
    map.elements[x].key # 0 /\ map.elements[x].key = map.elements[y].key => x = y

HalfFull(map, n) == map.count = Cardinality(Full(map)) /\ 2 * map.count <= n

LEMMA FullFacts ==
  ASSUME NEW n \in Nat \ {0}, NEW map \in Table(n)
  PROVE  /\ Full(map) = {i \in 0 .. n - 1 : map.elements[i].key # 0}
         /\ IsFiniteSet(Full(map)) /\ Cardinality(Full(map)) \in 0 .. n
  <1>1. Full(map) = {i \in 0 .. n - 1 : map.elements[i].key # 0}
    BY TableFacts DEF Full
  <1>2. IsFiniteSet(0 .. n - 1) /\ Cardinality(0 .. n - 1) = n
    BY FS_Interval
  <1>3. Full(map) \subseteq 0 .. n - 1
    BY <1>1
  <1>4. IsFiniteSet(Full(map)) /\ Cardinality(Full(map)) <= n
    BY <1>2, <1>3, FS_Subset
  <1>5. Cardinality(Full(map)) \in Nat
    BY <1>4, FS_CardinalityType
  <1> QED BY <1>1, <1>4, <1>5

\* A table that is half full has a vacant place, which is not p.
LEMMA VacantPlace ==
  ASSUME NEW n \in Nat \ {0}, NEW map \in Table(n), HalfFull(map, n)
  PROVE  /\ \E v \in 0 .. n - 1 : map.elements[v].key = 0
         /\ \A p \in 0 .. n - 1 :
              2 * (map.count + 1) <= n => \E v \in 0 .. n - 1 : v # p /\ map.elements[v].key = 0
  <1>1. /\ Full(map) = {i \in 0 .. n - 1 : map.elements[i].key # 0}
        /\ IsFiniteSet(Full(map)) /\ Cardinality(Full(map)) \in 0 .. n
    BY FullFacts
  <1>2. Cardinality(0 .. n - 1) = n
    BY FS_Interval
  <1>3. map.count = Cardinality(Full(map)) /\ 2 * map.count <= n /\ map.count \in Nat
    BY <1>1 DEF HalfFull
  <1>4. \E v \in 0 .. n - 1 : map.elements[v].key = 0
    <2> SUFFICES ASSUME \A v \in 0 .. n - 1 : map.elements[v].key # 0 PROVE FALSE
      OBVIOUS
    <2>1. Full(map) = 0 .. n - 1
      BY <1>1
    <2> QED BY <2>1, <1>2, <1>3
  <1>5. ASSUME NEW p \in 0 .. n - 1, 2 * (map.count + 1) <= n,
               \A v \in 0 .. n - 1 : v # p => map.elements[v].key # 0
        PROVE  FALSE
    <2>1. Full(map) \cup {p} = 0 .. n - 1
      BY <1>1, <1>5
    <2>2. Cardinality(Full(map) \cup {p}) <= Cardinality(Full(map)) + 1
      <3>1. CASE p \in Full(map)
        <4>1. Full(map) \cup {p} = Full(map)
          BY <3>1
        <4>2. Cardinality(Full(map) \cup {p}) = Cardinality(Full(map))
          BY <4>1
        <4> QED BY <4>2, <1>1
      <3>2. CASE p \notin Full(map)
        <4>1. Cardinality(Full(map) \cup {p}) = Cardinality(Full(map)) + 1
          BY <1>1, <3>2, FS_AddElement
        <4> QED BY <4>1, <1>1
      <3> QED BY <3>1, <3>2
    <2>3. n <= map.count + 1
      BY <1>2, <1>3, <2>1, <2>2
    <2> QED BY <2>3, <1>3, <1>5
  <1> QED BY <1>4, <1>5

\* MapSearchable in terms of the order of places.
LEMMA SearchableIs ==
  ASSUME NEW n \in Nat \ {0}, NEW map \in Table(n), NEW v \in 0 .. n - 1,
         map.elements[v].key = 0
  PROVE  MapSearchable(map) <=> Reachable(map, v, n) /\ Distinct(map, n) /\ HalfFull(map, n)
  <1>1. DOMAIN map.elements = 0 .. n - 1 /\ MapCapacity(map) = n
    BY TableFacts
  <1>2. \A x \in 0 .. n - 1 : map.elements[x].key # 0 => map.elements[x].key \in DOMAIN Hash
    BY TableFacts
  <1>3. ASSUME NEW x \in 0 .. n - 1, map.elements[x].key # 0
        PROVE  EndsAt(map, map.elements[x].key, MapPlace(map, map.elements[x].key), v, n)
    BY <1>2, <1>3, PlaceFacts
  <1>4. ASSUME \A x \in 0 .. n - 1 : map.elements[x].key # 0 => MapPlace(map, map.elements[x].key) = x
        PROVE  Reachable(map, v, n) /\ Distinct(map, n)
    <2>1. \A x \in 0 .. n - 1 :
            map.elements[x].key # 0 => EndsAt(map, map.elements[x].key, x, v, n)
      BY <1>3, <1>4
    <2>2. Reachable(map, v, n)
      BY <2>1 DEF Reachable, EndsAt
    <2>3. Distinct(map, n)
      BY <1>4 DEF Distinct
    <2> QED BY <2>2, <2>3
  <1>5. ASSUME Reachable(map, v, n), Distinct(map, n), NEW x \in 0 .. n - 1, map.elements[x].key # 0
        PROVE  MapPlace(map, map.elements[x].key) = x
    <2>1. ASSUME NEW y \in 0 .. n - 1,
                 Pos(Home(map.elements[x].key, n), v, n) <= Pos(y, v, n),
                 Pos(y, v, n) < Pos(x, v, n)
          PROVE  map.elements[y].key \notin {0, map.elements[x].key}
      <3>1. map.elements[y].key # 0
        BY <1>5, <2>1 DEF Reachable
      <3>2. y # x
        BY <2>1, PosFacts
      <3> QED BY <1>5, <3>1, <3>2 DEF Distinct
    <2>2. EndsAt(map, map.elements[x].key, x, v, n)
      BY <1>5, <2>1 DEF EndsAt, Reachable
    <2> QED BY <1>3, <1>5, <2>2, EndsOnce
  <1>6. MapSearchable(map) <=>
          /\ \A x \in 0 .. n - 1 : map.elements[x].key # 0 => MapPlace(map, map.elements[x].key) = x
          /\ HalfFull(map, n)
    BY <1>1 DEF MapSearchable, HalfFull, Full
  <1> QED BY <1>4, <1>5, <1>6


\* What is in a table is found there, and its keys are those of what is in it.
LEMMA ContentsFacts ==
  ASSUME NEW n \in Nat \ {0}, NEW map \in Table(n), MapSearchable(map)
  PROVE  /\ \A e \in Contents(map) :
              MapAt(map, e.key) = e.value /\ e \in ElementType /\ e.key # 0
         /\ \A e, f \in Contents(map) : e.key = f.key => e = f
         /\ MapKeys(map) = {e.key : e \in Contents(map)}
         /\ HalfFull(map, n)
  <1>1. /\ DOMAIN map.elements = 0 .. n - 1 /\ MapCapacity(map) = n
        /\ \A x \in 0 .. n - 1 : map.elements[x] \in ElementType
    BY TableFacts
  <1>2. Full(map) = {i \in 0 .. n - 1 : map.elements[i].key # 0}
    BY FullFacts
  <1>3. \A x \in Full(map) : MapPlace(map, map.elements[x].key) = x
    BY <1>1, <1>2 DEF MapSearchable
  <1>4. ASSUME NEW e \in Contents(map)
        PROVE  MapAt(map, e.key) = e.value /\ e \in ElementType /\ e.key # 0
    <2>1. PICK x \in Full(map) : e = map.elements[x]
      BY DEF Contents
    <2> QED BY <1>1, <1>2, <1>3, <2>1 DEF MapAt
  <1>5. ASSUME NEW e \in Contents(map), NEW f \in Contents(map), e.key = f.key
        PROVE  e = f
    <2>1. PICK x \in Full(map) : e = map.elements[x]
      BY DEF Contents
    <2>2. PICK y \in Full(map) : f = map.elements[y]
      BY DEF Contents
    <2>3. x = y
      BY <1>3, <1>5, <2>1, <2>2
    <2> QED BY <2>1, <2>2, <2>3
  <1>6. MapKeys(map) = {e.key : e \in Contents(map)}
    BY <1>1, <1>2 DEF MapKeys, Contents
  <1>7. HalfFull(map, n)
    BY <1>1 DEF MapSearchable, HalfFull, Full
  <1> QED BY <1>4, <1>5, <1>6, <1>7

\* map_insert() of a new key where there is room.
LEMMA PutFacts ==
  ASSUME NEW n \in Nat \ {0}, NEW map \in Table(n), MapSearchable(map),
         NEW e \in ElementType, e.key # 0, e.key \notin MapKeys(map), 2 * (map.count + 1) <= n
  PROVE  /\ MapPut(map, e) \in Table(n) /\ MapSearchable(MapPut(map, e))
         /\ Contents(MapPut(map, e)) = Contents(map) \cup {e}
         /\ MapPut(map, e).count = map.count + 1
  <1> DEFINE p == MapPlace(map, e.key)
             new == [elements |-> [map.elements EXCEPT ![p] = e], count |-> map.count + 1]
  <1>1. /\ map.elements \in [0 .. n - 1 -> ElementType] /\ map.count \in Nat
        /\ DOMAIN map.elements = 0 .. n - 1
        /\ Full(map) = {i \in 0 .. n - 1 : map.elements[i].key # 0}
        /\ IsFiniteSet(Full(map))
    <2>1. /\ map.elements \in [0 .. n - 1 -> ElementType] /\ map.count \in Nat
          /\ DOMAIN map.elements = 0 .. n - 1
      BY TableFacts
    <2>2. /\ Full(map) = {i \in 0 .. n - 1 : map.elements[i].key # 0}
          /\ IsFiniteSet(Full(map))
      BY FullFacts
    <2> QED BY <2>1, <2>2
  <1>2. HalfFull(map, n)
    BY ContentsFacts
  <1>3. e.key \in DOMAIN Hash
    BY DEF ElementType
  <1>4. p \in 0 .. n - 1 /\ map.elements[p].key = 0
    <2>1. PICK v \in 0 .. n - 1 : map.elements[v].key = 0
      BY <1>2, VacantPlace
    <2>2. EndsAt(map, e.key, p, v, n)
      BY <1>3, <2>1, PlaceFacts
    <2>3. p \in 0 .. n - 1 /\ map.elements[p].key \in {0, e.key}
      BY <2>2 DEF EndsAt
    <2>4. map.elements[p].key # e.key
      BY <1>1, <2>3 DEF MapKeys
    <2> QED BY <2>3, <2>4
  <1>5. PICK v \in 0 .. n - 1 : v # p /\ map.elements[v].key = 0
    <2>1. \A q \in 0 .. n - 1 : \E v \in 0 .. n - 1 : v # q /\ map.elements[v].key = 0
      BY <1>2, VacantPlace
    <2> QED BY <1>4, <2>1
  <1>6. EndsAt(map, e.key, p, v, n)
    BY <1>3, <1>5, PlaceFacts
  <1>7. Reachable(map, v, n) /\ Distinct(map, n)
    BY <1>5, SearchableIs
  <1>8. MapPut(map, e) = new
    BY <1>4 DEF MapPut
  <1> HIDE DEF p
  <1>9. /\ new \in Table(n) /\ new.count = map.count + 1
        /\ new.elements[p] = e
        /\ \A x \in 0 .. n - 1 : x # p => new.elements[x] = map.elements[x]
    BY <1>1, <1>4 DEF Table
  <1>10. Full(new) = {i \in 0 .. n - 1 : new.elements[i].key # 0}
    BY <1>9, FullFacts
  <1> HIDE DEF new
  <1>11. Full(new) = Full(map) \cup {p} /\ p \notin Full(map)
    BY <1>1, <1>4, <1>9, <1>10
  <1>12. HalfFull(new, n)
    <2>1. Cardinality(Full(new)) = Cardinality(Full(map)) + 1
      BY <1>1, <1>11, FS_AddElement
    <2> QED BY <1>2, <1>9, <2>1 DEF HalfFull
  <1>13. Distinct(new, n)
    <2>1. \A x \in 0 .. n - 1 : map.elements[x].key # e.key
      BY <1>1 DEF MapKeys
    <2> QED BY <1>7, <1>9, <2>1 DEF Distinct
  <1>14. Reachable(new, v, n)
    <2>1. ASSUME NEW x \in 0 .. n - 1, new.elements[x].key # 0
          PROVE  /\ Pos(Home(new.elements[x].key, n), v, n) <= Pos(x, v, n)
                 /\ \A y \in 0 .. n - 1 :
                      /\ Pos(Home(new.elements[x].key, n), v, n) <= Pos(y, v, n)
                      /\ Pos(y, v, n) < Pos(x, v, n)
                      => new.elements[y].key # 0
      <3>1. \A y \in 0 .. n - 1 : map.elements[y].key # 0 => new.elements[y].key # 0
        BY <1>4, <1>9
      <3>2. CASE x = p
        BY <1>6, <1>9, <3>1, <3>2 DEF EndsAt
      <3>3. CASE x # p
        BY <1>7, <1>9, <2>1, <3>1, <3>3 DEF Reachable
      <3> QED BY <3>2, <3>3
    <2> QED BY <2>1 DEF Reachable
  <1>15. MapSearchable(new)
    BY <1>5, <1>9, <1>12, <1>13, <1>14, SearchableIs
  <1>16. Contents(new) = Contents(map) \cup {e}
    <2>1. \A x \in Full(map) : new.elements[x] = map.elements[x]
      BY <1>1, <1>4, <1>9
    <2>2. Contents(new) \subseteq Contents(map) \cup {e}
      BY <1>9, <1>11, <2>1 DEF Contents
    <2>3. Contents(map) \cup {e} \subseteq Contents(new)
      BY <1>9, <1>11, <2>1 DEF Contents
    <2> QED BY <2>2, <2>3
  <1> QED BY <1>8, <1>9, <1>15, <1>16


-----------------------------------------------------------------------------
(* map_erase() *)

EraseState(n) == [elements : [0 .. n - 1 -> ElementType], i : 0 .. n - 1, j : 0 .. n - 1]

\* A round of the loop, by cases.
LEMMA EraseStepFacts ==
  ASSUME NEW n \in Nat \ {0}, NEW s \in EraseState(n), NEW j, j = (s.j + 1) % n
  PROVE  /\ j \in 0 .. n - 1
         /\ MapEraseStep(s) \in EraseState(n)
         /\ s.elements[j].key = 0 => MapEraseStep(s) = s
         /\ s.elements[j].key # 0 =>
              /\ s.elements[j].key \in DOMAIN Hash
              /\ MapEraseStep(s).j = j
              /\ Displaced(s.i, j, Home(s.elements[j].key, n)) =>
                   /\ MapEraseStep(s).elements = [s.elements EXCEPT ![s.i] = s.elements[j]]
                   /\ MapEraseStep(s).i = j
              /\ ~ Displaced(s.i, j, Home(s.elements[j].key, n)) =>
                   /\ MapEraseStep(s).elements = s.elements
                   /\ MapEraseStep(s).i = s.i
  <1>1. /\ s.elements \in [0 .. n - 1 -> ElementType] /\ DOMAIN s.elements = 0 .. n - 1
        /\ s.i \in 0 .. n - 1 /\ s.j \in 0 .. n - 1
    BY DEF EraseState
  <1>2. MapCapacity(s) = n
    BY <1>1, FS_Interval DEF MapCapacity
  <1>3. j \in 0 .. n - 1
    <2>1. \A x \in Nat : x % n \in 0 .. n - 1
      OBVIOUS
    <2>2. s.j + 1 \in Nat
      BY <1>1
    <2>3. (s.j + 1) % n \in 0 .. n - 1
      BY <2>1, <2>2, Zenon
    <2> QED BY <2>3
  <1>4. s.elements[j] \in ElementType /\ s.elements[j].key \in DOMAIN Hash \cup {0}
    BY <1>1, <1>3 DEF ElementType
  <1> DEFINE e == s.elements[j]
             moved == [elements |-> [s.elements EXCEPT ![s.i] = e], i |-> j, j |-> j]
             kept == [s EXCEPT !.j = j]
  <1>5. MapEraseStep(s) = IF e.key = 0 THEN s
                          ELSE IF Displaced(s.i, j, Home(e.key, n)) THEN moved ELSE kept
    BY <1>2 DEF MapEraseStep, Home
  <1>6. moved \in EraseState(n) /\ moved.i = j /\ moved.j = j
        /\ moved.elements = [s.elements EXCEPT ![s.i] = e]
    BY <1>1, <1>3, <1>4 DEF EraseState
  <1>7. kept \in EraseState(n) /\ kept.elements = s.elements /\ kept.i = s.i /\ kept.j = j
    BY <1>1, <1>3 DEF EraseState
  <1> HIDE DEF e, moved, kept
  <1>8. CASE e.key = 0
    BY <1>3, <1>5, <1>8 DEF e
  <1>9. CASE e.key # 0 /\ Displaced(s.i, j, Home(e.key, n))
    BY <1>3, <1>4, <1>5, <1>6, <1>9 DEF e
  <1>10. CASE e.key # 0 /\ ~ Displaced(s.i, j, Home(e.key, n))
    BY <1>3, <1>4, <1>5, <1>7, <1>10 DEF e
  <1> QED BY <1>8, <1>9, <1>10

\* The rounds exist, and each is a step from the one before.
LEMMA EraseRoundsFacts ==
  ASSUME NEW n \in Nat \ {0}, NEW map \in Table(n), NEW p \in 0 .. n - 1
  PROVE  /\ MapEraseRounds(map, p) \in [0 .. n -> EraseState(n)]
         /\ MapEraseRounds(map, p)[0] = [elements |-> map.elements, i |-> p, j |-> p]
         /\ \A m \in 1 .. n :
              MapEraseRounds(map, p)[m] = MapEraseStep(MapEraseRounds(map, p)[m - 1])
  <1> DEFINE S == EraseState(n)
             a == [elements |-> map.elements, i |-> p, j |-> p]
             F == [m \in 1 .. n |-> [s \in S |-> MapEraseStep(s)]]
             Body(f) == [m \in 0 .. n |-> IF m = 0 THEN a ELSE MapEraseStep(f[m - 1])]
  <1>1. map.elements \in [0 .. n - 1 -> ElementType] /\ MapCapacity(map) = n
    BY TableFacts
  <1>2. a \in S
    BY <1>1 DEF EraseState
  <1>3. \A s \in S : MapEraseStep(s) \in S
    BY EraseStepFacts
  <1> HIDE DEF S, a
  <1>4. F \in Steps(S, n)
    BY <1>3 DEF Steps
  <1>5. PICK f \in [0 .. n -> S] : f[0] = a /\ \A m \in 1 .. n : f[m] = F[m][f[m - 1]]
    <2> HIDE DEF F
    <2>1. n \in Nat
      OBVIOUS
    <2>2. PICK f : Iteration(f, S, a, n, F)
      BY <1>2, <1>4, <2>1, Iterates
    <2> QED BY <2>2 DEF Iteration
  <1>6. f = Body(f)
    <2>1. ASSUME NEW m \in 1 .. n PROVE f[m] = MapEraseStep(f[m - 1])
      <3>1. f[m - 1] \in S
        OBVIOUS
      <3> QED BY <1>5, <3>1
    <2>2. ASSUME NEW m \in 0 .. n PROVE f[m] = IF m = 0 THEN a ELSE MapEraseStep(f[m - 1])
      BY <1>5, <2>1
    <2> QED BY <2>2
  <1> DEFINE r == CHOOSE g : g = Body(g)
  <1>7. MapEraseRounds(map, p) = r
    BY <1>1 DEF MapEraseRounds, a
  <1>8. r = Body(r)
    BY <1>6
  <1> HIDE DEF r
  <1>9. r[0] = a /\ \A m \in 1 .. n : r[m] = MapEraseStep(r[m - 1])
    BY <1>8
  <1>10. r \in [0 .. n -> S]
    <2> DEFINE T == {m \in 0 .. n : r[m] \in S}
    <2>1. 0 \in T
      BY <1>2, <1>9
    <2>2. \A m \in 1 .. n : m - 1 \in T => m \in T
      BY <1>3, <1>9
    <2> HIDE DEF T
    <2>3. \A m \in 0 .. n : m \in T
      BY <2>1, <2>2, SetInduction
    <2>4. \A m \in 0 .. n : r[m] \in S
      BY <2>3 DEF T
    <2> QED BY <1>8, <2>4
  <1> QED BY <1>7, <1>9, <1>10 DEF S, a


\* The elements but for the one at place i, which is free.
OthersOf(elements, map, i) == {elements[x] : x \in Full(map) \ {i}}

\* The invariant of the loop.  No place becomes vacant before its end, the
\* elements are those of the table but for the one that is erased, and none
\* but those behind place j are found no more for place i being free.
EraseInv(s, map, p, v, n) ==
  /\ s \in EraseState(n)
  /\ \A x \in 0 .. n - 1 : s.elements[x].key = 0 <=> map.elements[x].key = 0
  /\ Pos(s.i, v, n) <= Pos(s.j, v, n)
  /\ map.elements[s.i].key # 0 /\ map.elements[s.j].key # 0
  /\ \A x, y \in 0 .. n - 1 :
       /\ x # s.i /\ y # s.i /\ s.elements[x].key # 0
       /\ s.elements[x].key = s.elements[y].key
       => x = y
  /\ OthersOf(s.elements, map, s.i) = Contents(map) \ {map.elements[p]}
  /\ \A x \in 0 .. n - 1 : x # s.i /\ s.elements[x].key # 0 =>
       LET home == Pos(Home(s.elements[x].key, n), v, n) IN
       /\ home <= Pos(x, v, n)
       /\ \A y \in 0 .. n - 1 :
            home <= Pos(y, v, n) /\ Pos(y, v, n) < Pos(x, v, n) => map.elements[y].key # 0
       /\ Pos(s.i, v, n) < Pos(x, v, n) /\ Pos(x, v, n) <= Pos(s.j, v, n)
            => Pos(s.i, v, n) < home

\* The invariant holds before the loop.
LEMMA EraseStarts ==
  ASSUME NEW n \in Nat \ {0}, NEW map \in Table(n), NEW v \in 0 .. n - 1,
         Reachable(map, v, n), Distinct(map, n),
         NEW p \in 0 .. n - 1, map.elements[p].key # 0
  PROVE  EraseInv([elements |-> map.elements, i |-> p, j |-> p], map, p, v, n)
  <1> DEFINE s == [elements |-> map.elements, i |-> p, j |-> p]
  <1>1. /\ map.elements \in [0 .. n - 1 -> ElementType]
        /\ Full(map) = {i \in 0 .. n - 1 : map.elements[i].key # 0}
    <2>1. map.elements \in [0 .. n - 1 -> ElementType]
      BY TableFacts
    <2>2. Full(map) = {i \in 0 .. n - 1 : map.elements[i].key # 0}
      BY FullFacts
    <2> QED BY <2>1, <2>2
  <1>2. s \in EraseState(n) /\ s.elements = map.elements /\ s.i = p /\ s.j = p
    BY <1>1 DEF EraseState
  <1> HIDE DEF s
  <1>3. \A x \in 0 .. n - 1 : Pos(x, v, n) \in Nat
    <2>1. \A x \in 0 .. n - 1 : Pos(x, v, n) \in 0 .. n - 1
      BY PosFacts
    <2> QED BY <2>1
  <1>4. OthersOf(map.elements, map, p) = Contents(map) \ {map.elements[p]}
    <2>1. \A x \in Full(map) : map.elements[x] = map.elements[p] => x = p
      BY <1>1 DEF Distinct
    <2> QED BY <1>1, <2>1 DEF OthersOf, Contents
  <1>5. ASSUME NEW x \in 0 .. n - 1, x # s.i, s.elements[x].key # 0
        PROVE  /\ Pos(Home(s.elements[x].key, n), v, n) <= Pos(x, v, n)
               /\ \A y \in 0 .. n - 1 :
                    /\ Pos(Home(s.elements[x].key, n), v, n) <= Pos(y, v, n)
                    /\ Pos(y, v, n) < Pos(x, v, n)
                    => map.elements[y].key # 0
               /\ ~ (Pos(s.i, v, n) < Pos(x, v, n) /\ Pos(x, v, n) <= Pos(s.j, v, n))
    BY <1>2, <1>3, <1>5 DEF Reachable
  <1>6. EraseInv(s, map, p, v, n)
    BY <1>1, <1>2, <1>3, <1>4, <1>5 DEF EraseInv, Distinct
  <1> QED BY <1>6 DEF s

\* A round moves the element at the next place or leaves it, and comes to that
\* place; or it has come to the end.
LEMMA EraseGoesOn ==
  ASSUME NEW n \in Nat \ {0}, NEW map \in Table(n), NEW v \in 0 .. n - 1,
         map.elements[v].key = 0, NEW p \in 0 .. n - 1, NEW s, EraseInv(s, map, p, v, n)
  PROVE  /\ EraseInv(MapEraseStep(s), map, p, v, n)
         /\ \/ map.elements[(s.j + 1) % n].key = 0 /\ MapEraseStep(s) = s
            \/ /\ map.elements[(s.j + 1) % n].key # 0
               /\ Pos(MapEraseStep(s).j, v, n) = Pos(s.j, v, n) + 1
  <1> DEFINE j == (s.j + 1) % n
             t == MapEraseStep(s)
             pos(x) == Pos(x, v, n)
             home(E, x) == Pos(Home(E[x].key, n), v, n)
  <1>1. /\ s \in EraseState(n)
        /\ s.elements \in [0 .. n - 1 -> ElementType] /\ s.i \in 0 .. n - 1 /\ s.j \in 0 .. n - 1
    BY DEF EraseInv, EraseState
  <1>2. s.j # v /\ s.i # v
    BY DEF EraseInv
  <1>3. j \in 0 .. n - 1 /\ pos(j) = pos(s.j) + 1
    BY <1>1, <1>2, PosNext, SMTT(60)
  <1>4. /\ t \in EraseState(n)
        /\ s.elements[j].key = 0 => t = s
        /\ s.elements[j].key # 0 =>
             /\ s.elements[j].key \in DOMAIN Hash
             /\ t.j = j
             /\ Displaced(s.i, j, Home(s.elements[j].key, n)) =>
                  t.elements = [s.elements EXCEPT ![s.i] = s.elements[j]] /\ t.i = j
             /\ ~ Displaced(s.i, j, Home(s.elements[j].key, n)) =>
                  t.elements = s.elements /\ t.i = s.i
    BY <1>1, EraseStepFacts
  <1> HIDE DEF j, t
  <1>5. \A x \in 0 .. n - 1 : pos(x) \in Nat
    <2>1. \A x \in 0 .. n - 1 : pos(x) \in 0 .. n - 1
      BY PosFacts
    <2> QED BY <2>1
  <1>6. \A x, y \in 0 .. n - 1 : pos(x) = pos(y) => x = y
    BY PosFacts
  <1>7. CASE s.elements[j].key = 0
    <2>1. map.elements[j].key = 0 /\ t = s
      BY <1>3, <1>4, <1>7 DEF EraseInv
    <2> QED BY <2>1 DEF t, j
  <1>8. CASE s.elements[j].key # 0
    <2> DEFINE k == Home(s.elements[j].key, n)
    <2>1. k \in 0 .. n - 1 /\ map.elements[j].key # 0
      BY <1>3, <1>4, <1>8, HomeType DEF EraseInv
    <2>2. pos(s.i) < pos(j) /\ j # s.i /\ j # v
      <3>1. pos(s.i) <= pos(s.j)
        BY DEF EraseInv
      <3>2. pos(s.i) < pos(j)
        BY <1>1, <1>3, <1>5, <3>1
      <3>3. pos(j) \in Nat
        BY <1>3, <1>5
      <3> QED BY <2>1, <3>2, <3>3
    <2>3. /\ pos(k) <= pos(j)
          /\ \A y \in 0 .. n - 1 : pos(k) <= pos(y) /\ pos(y) < pos(j) => map.elements[y].key # 0
      BY <1>3, <1>8, <2>2 DEF EraseInv
    <2>4. Displaced(s.i, j, k) <=> pos(k) <= pos(s.i)
      BY <1>1, <1>3, <2>1, <2>2, <2>3, DisplacedIs
    <2> HIDE DEF k
    <2>5. CASE Displaced(s.i, j, k)
      <3>1. /\ t.i = j /\ t.j = j /\ t.elements \in [0 .. n - 1 -> ElementType]
            /\ t.elements[s.i] = s.elements[j]
            /\ \A x \in 0 .. n - 1 : x # s.i => t.elements[x] = s.elements[x]
        BY <1>1, <1>3, <1>4, <1>8, <2>5 DEF k, EraseState
      <3>2. \A x \in 0 .. n - 1 : t.elements[x].key = 0 <=> map.elements[x].key = 0
        <4>1. /\ \A x \in 0 .. n - 1 : s.elements[x].key = 0 <=> map.elements[x].key = 0
              /\ map.elements[s.i].key # 0
          BY DEF EraseInv
        <4>2. t.elements[s.i].key # 0
          BY <1>8, <3>1
        <4> QED BY <3>1, <4>1, <4>2
      <3>3. ASSUME NEW x \in 0 .. n - 1, NEW y \in 0 .. n - 1, x # j, y # j,
                   t.elements[x].key # 0, t.elements[x].key = t.elements[y].key
            PROVE  x = y
        <4>1. CASE x = s.i /\ y # s.i
          BY <1>3, <1>8, <2>2, <3>1, <3>3, <4>1, ZenonT(60) DEF EraseInv
        <4>2. CASE x # s.i /\ y = s.i
          BY <1>3, <1>8, <2>2, <3>1, <3>3, <4>2, SMTT(60) DEF EraseInv
        <4>3. CASE x # s.i /\ y # s.i
          BY SMTT(60), <3>1, <3>3, <4>3 DEF EraseInv
        <4> QED BY <4>1, <4>2, <4>3
      <3>4. OthersOf(t.elements, map, j) = OthersOf(s.elements, map, s.i)
        <4>1. Full(map) = {x \in 0 .. n - 1 : map.elements[x].key # 0}
          BY FullFacts
        <4>2. j \in Full(map) /\ s.i \in Full(map)
          BY <1>1, <1>3, <2>1, <4>1 DEF EraseInv
        <4>3. ASSUME NEW x \in Full(map) \ {j} PROVE t.elements[x] \in OthersOf(s.elements, map, s.i)
          <5>1. CASE x = s.i
            BY <2>2, <3>1, <4>2, <5>1 DEF OthersOf
          <5>2. CASE x # s.i
            BY <3>1, <4>1, <4>3, <5>2 DEF OthersOf
          <5> QED BY <5>1, <5>2
        <4>4. ASSUME NEW x \in Full(map) \ {s.i} PROVE s.elements[x] \in OthersOf(t.elements, map, j)
          <5>1. CASE x = j
            BY <2>2, <3>1, <4>2, <5>1 DEF OthersOf
          <5>2. CASE x # j
            BY <3>1, <4>1, <4>4, <5>2 DEF OthersOf
          <5> QED BY <5>1, <5>2
        <4>5. OthersOf(t.elements, map, j) \subseteq OthersOf(s.elements, map, s.i)
          BY <4>3 DEF OthersOf
        <4>6. OthersOf(s.elements, map, s.i) \subseteq OthersOf(t.elements, map, j)
          BY <4>4 DEF OthersOf
        <4> QED BY <4>5, <4>6
      <3>5. ASSUME NEW x \in 0 .. n - 1, x # j, t.elements[x].key # 0
            PROVE  /\ home(t.elements, x) <= pos(x)
                   /\ \A y \in 0 .. n - 1 :
                        home(t.elements, x) <= pos(y) /\ pos(y) < pos(x) => map.elements[y].key # 0
                   /\ ~ (pos(j) < pos(x) /\ pos(x) <= pos(j))
        <4>1. ~ (pos(j) < pos(x) /\ pos(x) <= pos(j))
          BY <1>3, <1>5
        <4>2. CASE x = s.i
          <5>1. home(t.elements, x) = pos(k)
            BY <3>1, <4>2 DEF k
          <5>2. \A y \in 0 .. n - 1 : pos(y) < pos(s.i) => pos(y) < pos(j)
            BY <1>1, <1>3, <1>5, <2>2, SMTT(60)
          <5> QED BY <2>3, <2>4, <2>5, <4>1, <4>2, <5>1, <5>2
        <4>3. CASE x # s.i
          <5>1. t.elements[x] = s.elements[x]
            BY <3>1, <4>3
          <5> QED BY <3>5, <4>1, <4>3, <5>1 DEF EraseInv
        <4> QED BY <4>2, <4>3
      <3>6. map.elements[t.i].key # 0 /\ map.elements[t.j].key # 0 /\ pos(t.i) <= pos(t.j)
        BY <1>3, <1>5, <2>1, <3>1
      <3>7. OthersOf(t.elements, map, t.i) = Contents(map) \ {map.elements[p]}
        BY <3>1, <3>4 DEF EraseInv
      <3>8. EraseInv(t, map, p, v, n)
        BY <1>4, <3>1, <3>2, <3>3, <3>5, <3>6, <3>7 DEF EraseInv
      <3> QED BY <1>3, <2>1, <3>1, <3>8 DEF t, j
    <2>6. CASE ~ Displaced(s.i, j, k)
      <3>1. t.i = s.i /\ t.j = j /\ t.elements = s.elements
        BY <1>4, <1>8, <2>6 DEF k
      <3>2. ASSUME NEW x \in 0 .. n - 1, x # s.i, s.elements[x].key # 0,
                   pos(s.i) < pos(x), pos(x) <= pos(j)
            PROVE  pos(s.i) < home(s.elements, x)
        <4>1. CASE x = j
          <5>1. pos(k) \in Nat /\ pos(s.i) \in Nat /\ home(s.elements, x) = pos(k)
            BY <1>1, <1>5, <2>1, <4>1 DEF k
          <5> QED BY <2>4, <2>6, <5>1
        <4>2. CASE x # j
          <5>1. pos(x) <= pos(s.j)
            BY <1>1, <1>3, <1>5, <1>6, <3>2, <4>2, SMTT(60)
          <5> QED BY <3>2, <5>1 DEF EraseInv
        <4> QED BY <4>1, <4>2
      <3>3. pos(t.i) <= pos(t.j)
        BY <1>1, <1>3, <1>5, <2>2, <3>1, SMTT(60)
      <3>4. EraseInv(t, map, p, v, n)
        BY <1>4, <2>1, <3>1, <3>2, <3>3 DEF EraseInv
      <3> QED BY <1>3, <2>1, <3>1, <3>4 DEF t, j
    <2> QED BY <2>5, <2>6
  <1> QED BY <1>7, <1>8


\* The loop keeps its invariant, and ends: it cannot go past the vacant place.
LEMMA EraseEnds ==
  ASSUME NEW n \in Nat \ {0}, NEW map \in Table(n), NEW v \in 0 .. n - 1,
         map.elements[v].key = 0, Reachable(map, v, n), Distinct(map, n),
         NEW p \in 0 .. n - 1, map.elements[p].key # 0
  PROVE  /\ EraseInv(MapEraseRounds(map, p)[n], map, p, v, n)
         /\ map.elements[(MapEraseRounds(map, p)[n].j + 1) % n].key = 0
  <1> DEFINE r == MapEraseRounds(map, p)
             Holds(m) ==
               /\ EraseInv(r[m], map, p, v, n)
               /\ \/ map.elements[(r[m].j + 1) % n].key = 0
                  \/ Pos(r[m].j, v, n) = Pos(p, v, n) + m
             T == {m \in 0 .. n : Holds(m)}
  <1>1. /\ r[0] = [elements |-> map.elements, i |-> p, j |-> p]
        /\ \A m \in 1 .. n : r[m] = MapEraseStep(r[m - 1])
    BY EraseRoundsFacts
  <1> HIDE DEF r
  <1>2. Pos(p, v, n) \in 0 .. n - 1
    BY PosFacts
  <1>3. Holds(0)
    <2>1. EraseInv(r[0], map, p, v, n)
      BY <1>1, EraseStarts
    <2>2. r[0].j = p
      BY <1>1
    <2> QED BY <1>2, <2>1, <2>2
  <1>4. ASSUME NEW m \in 1 .. n, Holds(m - 1)
        PROVE  Holds(m)
    <2>1. r[m] = MapEraseStep(r[m - 1])
      BY <1>1
    <2>2. /\ EraseInv(r[m], map, p, v, n)
          /\ \/ map.elements[(r[m - 1].j + 1) % n].key = 0 /\ r[m] = r[m - 1]
             \/ /\ map.elements[(r[m - 1].j + 1) % n].key # 0
                /\ Pos(r[m].j, v, n) = Pos(r[m - 1].j, v, n) + 1
      BY <1>4, <2>1, EraseGoesOn
    <2>3. CASE map.elements[(r[m - 1].j + 1) % n].key = 0
      BY <2>2, <2>3
    <2>4. CASE map.elements[(r[m - 1].j + 1) % n].key # 0
      <3>1. Pos(r[m].j, v, n) = Pos(r[m - 1].j, v, n) + 1
        BY <2>2, <2>4
      <3>2. Pos(r[m - 1].j, v, n) = Pos(p, v, n) + (m - 1)
        BY SMTT(60), <1>4, <2>4
      <3>3. Pos(r[m].j, v, n) = Pos(p, v, n) + m
        BY SMTT(60), <1>2, <3>1, <3>2
      <3> QED BY <2>2, <3>3
    <2> QED BY <2>3, <2>4
  <1>5. Holds(n)
    <2>1. 0 \in T /\ \A m \in 1 .. n : m - 1 \in T => m \in T
      BY <1>3, <1>4, SMTT(60)
    <2> HIDE DEF T
    <2>2. n \in Nat
      OBVIOUS
    <2>3. \A m \in 0 .. n : m \in T
      BY <2>1, <2>2, SetInduction
    <2>4. n \in T
      BY <2>3
    <2> QED BY <2>4, SMTT(60) DEF T
  <1>6. Pos(r[n].j, v, n) \in 0 .. n - 1
    <2>1. r[n].j \in 0 .. n - 1
      BY <1>5 DEF EraseInv, EraseState
    <2> QED BY <2>1, PosFacts
  <1>7. Pos(r[n].j, v, n) # Pos(p, v, n) + n
    BY <1>2, <1>6
  <1> QED BY <1>5, <1>7 DEF r

\* map_erase(): the table can be searched as before, and holds what it held but
\* for the element with the key.
LEMMA EraseFacts ==
  ASSUME NEW n \in Nat \ {0}, NEW map \in Table(n), MapSearchable(map), NEW key \in DOMAIN Hash
  PROVE  /\ MapErase(map, key) \in Table(n) /\ MapSearchable(MapErase(map, key))
         /\ Contents(MapErase(map, key)) = {e \in Contents(map) : e.key # key}
  <1> DEFINE p == MapPlace(map, key)
  <1>1. /\ map.elements \in [0 .. n - 1 -> ElementType] /\ map.count \in Nat
        /\ MapCapacity(map) = n
    BY TableFacts
  <1>2. /\ Full(map) = {i \in 0 .. n - 1 : map.elements[i].key # 0}
        /\ IsFiniteSet(Full(map)) /\ Cardinality(Full(map)) \in Nat
    <2>1. /\ Full(map) = {i \in 0 .. n - 1 : map.elements[i].key # 0}
          /\ IsFiniteSet(Full(map)) /\ Cardinality(Full(map)) \in 0 .. n
      BY FullFacts
    <2> QED BY <2>1
  <1>3. HalfFull(map, n)
    BY ContentsFacts
  <1>4. PICK v \in 0 .. n - 1 : map.elements[v].key = 0
    BY <1>3, VacantPlace
  <1>5. Reachable(map, v, n) /\ Distinct(map, n)
    BY <1>4, SearchableIs
  <1>6. EndsAt(map, key, p, v, n)
    BY <1>4, PlaceFacts
  <1>7. p \in 0 .. n - 1 /\ map.elements[p].key \in {0, key} /\ key # 0
    BY <1>6, HomeType DEF EndsAt
  <1>8. CASE map.elements[p].key = 0
    <2>1. MapErase(map, key) = map
      BY <1>8 DEF MapErase
    <2>2. ASSUME NEW x \in Full(map) PROVE map.elements[x].key # key
      <3>1. MapPlace(map, map.elements[x].key) = x
        BY <1>2 DEF MapSearchable, Full
      <3> QED BY <1>2, <1>8, <3>1
    <2>3. \A e \in Contents(map) : e.key # key
      BY <2>2 DEF Contents
    <2> QED BY <2>1, <2>3
  <1>9. CASE map.elements[p].key # 0
    <2> DEFINE s == MapEraseRounds(map, p)[n]
               new == [elements |-> [s.elements EXCEPT ![s.i] = Vacant], count |-> map.count - 1]
    <2>1. MapErase(map, key) = new
      BY <1>1, <1>9 DEF MapErase
    <2>2. EraseInv(s, map, p, v, n) /\ map.elements[(s.j + 1) % n].key = 0
      BY <1>4, <1>5, <1>7, <1>9, EraseEnds
    <2> HIDE DEF s, p
    <2>3. /\ s.elements \in [0 .. n - 1 -> ElementType] /\ s.i \in 0 .. n - 1 /\ s.j \in 0 .. n - 1
          /\ s.i \in Full(map) /\ s.j # v /\ s.i # v
      BY <1>2, <1>4, <2>2 DEF EraseInv, EraseState
    <2>4. Cardinality(Full(map) \ {s.i}) = Cardinality(Full(map)) - 1 /\ IsFiniteSet(Full(map) \ {s.i})
      BY <1>2, <2>3, FS_RemoveElement
    <2>5. map.count - 1 \in Nat /\ map.count - 1 = Cardinality(Full(map) \ {s.i})
      <3>1. Cardinality(Full(map) \ {s.i}) \in Nat
        BY <2>4, FS_CardinalityType
      <3> QED BY <1>3, <2>4, <3>1 DEF HalfFull
    <2>6. Vacant \in ElementType /\ Vacant.key = 0
      BY DEF Vacant, ElementType
    <2>7. /\ new \in Table(n) /\ new.count = map.count - 1
          /\ new.elements[s.i].key = 0
          /\ \A x \in 0 .. n - 1 : x # s.i => new.elements[x] = s.elements[x]
      BY <2>3, <2>5, <2>6 DEF Table
    <2>8. Full(new) = {i \in 0 .. n - 1 : new.elements[i].key # 0}
      BY <2>7, FullFacts
    <2> HIDE DEF new
    <2>9. Full(new) = Full(map) \ {s.i}
      <3>1. \A x \in 0 .. n - 1 : s.elements[x].key = 0 <=> map.elements[x].key = 0
        BY <2>2 DEF EraseInv
      <3>2. \A x \in 0 .. n - 1 : new.elements[x].key # 0 <=> x \in Full(map) /\ x # s.i
        BY <1>2, <2>7, <3>1
      <3> QED BY <1>2, <2>8, <3>2
    <2>10. HalfFull(new, n)
      BY <1>1, <1>3, <2>5, <2>7, <2>9 DEF HalfFull
    <2>11. Distinct(new, n)
      BY <2>2, <2>7 DEF EraseInv, Distinct
    <2>12. Contents(new) = Contents(map) \ {map.elements[p]}
      <3>1. Contents(new) = OthersOf(s.elements, map, s.i)
        BY <1>2, <2>7, <2>9 DEF Contents, OthersOf
      <3> QED BY <2>2, <3>1 DEF EraseInv
    <2>13. Contents(new) = {e \in Contents(map) : e.key # key}
      <3>1. map.elements[p].key = key /\ p \in Full(map)
        BY <1>2, <1>7, <1>9
      <3>2. \A e \in Contents(map) : e.key = key => e = map.elements[p]
        BY <1>2, <1>5, <3>1 DEF Contents, Distinct
      <3> QED BY <2>12, <3>1, <3>2
    <2>14. Reachable(new, v, n)
      <3> DEFINE j == (s.j + 1) % n
                 pos(x) == Pos(x, v, n)
      <3>1. j \in 0 .. n - 1 /\ pos(j) = pos(s.j) + 1 /\ map.elements[j].key = 0
        BY <2>2, <2>3, PosNext
      <3> HIDE DEF j
      <3>2. \A x \in 0 .. n - 1 : pos(x) \in Nat
        <4>1. \A x \in 0 .. n - 1 : pos(x) \in 0 .. n - 1
          BY PosFacts
        <4> QED BY <4>1
      <3>3. \A x, y \in 0 .. n - 1 : pos(x) = pos(y) => x = y
        BY PosFacts
      <3>4. ASSUME NEW x \in 0 .. n - 1, new.elements[x].key # 0
            PROVE  /\ Pos(Home(new.elements[x].key, n), v, n) <= pos(x)
                   /\ \A y \in 0 .. n - 1 :
                        /\ Pos(Home(new.elements[x].key, n), v, n) <= pos(y)
                        /\ pos(y) < pos(x)
                        => new.elements[y].key # 0
        <4> DEFINE home == Pos(Home(s.elements[x].key, n), v, n)
        <4>1. x # s.i /\ new.elements[x] = s.elements[x]
          BY <2>7, <3>4
        <4>2. /\ home <= pos(x)
              /\ \A y \in 0 .. n - 1 : home <= pos(y) /\ pos(y) < pos(x) => map.elements[y].key # 0
              /\ pos(s.i) < pos(x) /\ pos(x) <= pos(s.j) => pos(s.i) < home
              /\ map.elements[x].key # 0
              /\ pos(s.i) <= pos(s.j)
          BY <2>2, <3>4, <4>1 DEF EraseInv
        <4>3. home \in Nat
          <5>1. s.elements[x].key \in DOMAIN Hash
            BY <2>3, <3>4, <4>1 DEF ElementType
          <5>2. Home(s.elements[x].key, n) \in 0 .. n - 1
            BY <5>1, HomeType
          <5> QED BY <3>2, <5>2
        <4> HIDE DEF home
        <4>4. ~ (home <= pos(s.i) /\ pos(s.i) < pos(x))
          <5> SUFFICES ASSUME home <= pos(s.i), pos(s.i) < pos(x) PROVE FALSE
            OBVIOUS
          <5>1. pos(x) > pos(s.j)
            BY <2>3, <3>2, <4>2, <4>3, SMTT(60)
          <5>2. x # j
            BY <3>1, <4>2
          <5>3. pos(j) < pos(x) /\ home <= pos(j)
            BY <2>3, <3>1, <3>2, <3>3, <4>2, <4>3, <5>1, <5>2, SMTT(60)
          <5> QED BY <3>1, <4>2, <5>3
        <4>5. ASSUME NEW y \in 0 .. n - 1, home <= pos(y), pos(y) < pos(x)
              PROVE  new.elements[y].key # 0
          <5>1. y # s.i
            BY <4>4, <4>5
          <5>2. map.elements[y].key # 0
            BY <4>2, <4>5
          <5> QED BY <2>2, <2>7, <5>1, <5>2 DEF EraseInv
        <4> QED BY <4>1, <4>2, <4>5 DEF home
      <3> QED BY <3>4 DEF Reachable
    <2>15. new.elements[v].key = 0
      BY <1>4, <2>2, <2>3, <2>7, SMTT(60) DEF EraseInv
    <2>16. MapSearchable(new)
      BY <2>7, <2>10, <2>11, <2>14, <2>15, SearchableIs
    <2> QED BY <2>1, <2>7, <2>13, <2>16
  <1> QED BY <1>8, <1>9


-----------------------------------------------------------------------------
(* map_rehash() and map_insert() *)

\* The powers of two grow.
LEMMA PowersFacts ==
  ASSUME NEW n \in Nat
  PROVE  /\ MapPowers(n) \in [0 .. n -> Nat] /\ MapPowers(n)[0] = 1
         /\ \A i \in 0 .. n : MapPowers(n)[i] > i
  <1> DEFINE F == [i \in 1 .. n |-> [x \in Nat |-> 2 * x]]
             Body(f) == [i \in 0 .. n |-> IF i = 0 THEN 1 ELSE 2 * f[i - 1]]
             r == CHOOSE f : f = Body(f)
  <1>1. F \in Steps(Nat, n)
    BY DEF Steps
  <1>2. PICK f : f \in [0 .. n -> Nat] /\ f[0] = 1 /\ \A i \in 1 .. n : f[i] = F[i][f[i - 1]]
    <2> HIDE DEF F
    <2>1. 1 \in Nat
      OBVIOUS
    <2>2. PICK f : Iteration(f, Nat, 1, n, F)
      BY <1>1, <2>1, Iterates
    <2> QED BY <2>2 DEF Iteration
  <1>3. f = Body(f)
    <2>1. ASSUME NEW i \in 1 .. n PROVE f[i] = 2 * f[i - 1]
      <3>1. f[i - 1] \in Nat
        BY <1>2
      <3> QED BY <1>2, <3>1
    <2>2. ASSUME NEW i \in 0 .. n PROVE f[i] = IF i = 0 THEN 1 ELSE 2 * f[i - 1]
      BY <1>2, <2>1
    <2> QED BY <1>2, <2>2
  <1>4. MapPowers(n) = r
    BY DEF MapPowers
  <1>5. r = Body(r)
    BY <1>3
  <1> HIDE DEF r
  <1>6. r[0] = 1 /\ \A i \in 1 .. n : r[i] = 2 * r[i - 1]
    BY <1>5
  <1> DEFINE T == {i \in 0 .. n : r[i] \in Nat /\ r[i] > i}
  <1>7. 0 \in T /\ \A i \in 1 .. n : i - 1 \in T => i \in T
    <2>1. 0 \in T
      BY <1>6
    <2>2. ASSUME NEW i \in 1 .. n, i - 1 \in T PROVE i \in T
      <3>1. r[i - 1] \in Nat /\ r[i - 1] > i - 1 /\ r[i] = 2 * r[i - 1]
        BY <1>6, <2>2
      <3> QED BY <3>1
    <2> QED BY <2>1, <2>2
  <1> HIDE DEF T
  <1>8. \A i \in 0 .. n : i \in T
    BY <1>7, SetInduction
  <1>9. \A i \in 0 .. n : r[i] \in Nat /\ r[i] > i
    BY <1>8 DEF T
  <1>10. r \in [0 .. n -> Nat]
    BY <1>5, <1>9
  <1> QED BY <1>4, <1>6, <1>9, <1>10

\* map_roundup() gives no less.
LEMMA RoundupFacts ==
  ASSUME NEW size \in Nat
  PROVE  MapRoundup(size) \in Nat \ {0} /\ MapRoundup(size) >= size
  <1> DEFINE power == MapPowers(size)
             T == {i \in 0 .. size : power[i] >= size}
             Least(i) == power[i] >= size /\ \A j \in 0 .. i - 1 : power[j] < size
             c == CHOOSE i \in 0 .. size : Least(i)
  <1>1. /\ power \in [0 .. size -> Nat]
        /\ \A i \in 0 .. size : power[i] > i
    BY PowersFacts
  <1>2. MapRoundup(size) = power[c]
    BY DEF MapRoundup
  <1> HIDE DEF power
  <1>3. size \in T
    BY <1>1
  <1>4. PICK i \in 0 .. size : i \in T /\ \A j \in 0 .. i - 1 : j \notin T
    <2> HIDE DEF T
    <2> QED BY <1>3, LeastOf
  <1>5. Least(i)
    BY <1>1, <1>4
  <1>6. c \in 0 .. size /\ Least(c)
    BY <1>5
  <1> HIDE DEF c
  <1>7. power[c] \in Nat /\ power[c] > c
    BY <1>1, <1>6
  <1> QED BY <1>2, <1>6, <1>7

\* An empty table.
LEMMA EmptyTable ==
  ASSUME NEW n \in Nat \ {0}, NEW map,
         map = [elements |-> [i \in 0 .. n - 1 |-> Vacant], count |-> 0]
  PROVE  map \in Table(n) /\ MapSearchable(map) /\ Contents(map) = {} /\ map.count = 0
  <1>1. Vacant \in ElementType /\ Vacant.key = 0
    BY DEF Vacant, ElementType
  <1>2. /\ map \in Table(n) /\ map.count = 0
        /\ \A x \in 0 .. n - 1 : map.elements[x].key = 0
    BY <1>1 DEF Table
  <1>3. Full(map) = {}
    <2>1. Full(map) = {i \in 0 .. n - 1 : map.elements[i].key # 0}
      BY <1>2, FullFacts
    <2> QED BY <1>2, <2>1
  <1>4. Reachable(map, 0, n) /\ Distinct(map, n)
    BY <1>2 DEF Reachable, Distinct
  <1>5. HalfFull(map, n)
    <2>1. Cardinality({}) = 0
      BY FS_EmptySet
    <2>2. Cardinality(Full(map)) = 0
      BY <1>3, <2>1
    <2>3. 2 * map.count = 0 /\ 0 <= n
      BY <1>2
    <2> QED BY <1>2, <2>2, <2>3 DEF HalfFull
  <1>6. 0 \in 0 .. n - 1 /\ map.elements[0].key = 0
    BY <1>2
  <1>7. MapSearchable(map)
    BY <1>2, <1>4, <1>5, <1>6, SearchableIs
  <1>8. Contents(map) = {}
    BY <1>3 DEF Contents
  <1> QED BY <1>2, <1>7, <1>8


\* What the loop of map_rehash() has made of the first m places.
Upto(map, m) == Full(map) \cap (0 .. m - 1)

MoveInv(x, map, c, m) ==
  /\ x \in Table(c) /\ MapSearchable(x)
  /\ Contents(x) = {map.elements[i] : i \in Upto(map, m)}
  /\ x.count = Cardinality(Upto(map, m))

Move(map, m, x) ==
  IF map.elements[m - 1].key = 0 THEN x ELSE MapPut(x, map.elements[m - 1])

LEMMA MoveGoesOn ==
  ASSUME NEW n \in Nat \ {0}, NEW map \in Table(n), MapSearchable(map),
         NEW c \in Nat \ {0}, 2 * map.count <= c,
         NEW m \in 1 .. n, NEW x, MoveInv(x, map, c, m - 1)
  PROVE  MoveInv(Move(map, m, x), map, c, m)
  <1>1. /\ Full(map) = {i \in 0 .. n - 1 : map.elements[i].key # 0}
        /\ IsFiniteSet(Full(map))
    BY FullFacts
  <1>2. m - 1 \in 0 .. n - 1
    OBVIOUS
  <1>3. 0 .. m - 1 = (0 .. (m - 1) - 1) \cup {m - 1} /\ m - 1 \notin 0 .. (m - 1) - 1
    OBVIOUS
  <1>4. CASE map.elements[m - 1].key = 0
    <2>1. Upto(map, m) = Upto(map, m - 1)
      BY <1>1, <1>3, <1>4 DEF Upto
    <2> QED BY <1>4, <2>1 DEF MoveInv, Move
  <1>5. CASE map.elements[m - 1].key # 0
    <2> DEFINE e == map.elements[m - 1]
               y == MapPut(x, e)
    <2>1. Upto(map, m) = Upto(map, m - 1) \cup {m - 1} /\ m - 1 \notin Upto(map, m - 1)
      BY <1>1, <1>2, <1>3, <1>5 DEF Upto
    <2>2. /\ IsFiniteSet(Upto(map, m - 1)) /\ IsFiniteSet(Upto(map, m))
          /\ Cardinality(Upto(map, m)) <= Cardinality(Full(map))
      <3>1. Upto(map, m - 1) \subseteq Full(map) /\ Upto(map, m) \subseteq Full(map)
        BY DEF Upto
      <3> QED BY <1>1, <3>1, FS_Subset
    <2>3. Cardinality(Upto(map, m)) = Cardinality(Upto(map, m - 1)) + 1
      BY <2>1, <2>2, FS_AddElement
    <2>4. e \in ElementType /\ e.key # 0
      BY <1>2, <1>5, TableFacts
    <2>5. 2 * (x.count + 1) <= c
      <3>1. HalfFull(map, n)
        BY ContentsFacts
      <3>2. map.count = Cardinality(Full(map)) /\ map.count \in Nat
        BY <3>1, TableFacts DEF HalfFull
      <3>3. x.count + 1 = Cardinality(Upto(map, m)) /\ x.count \in Nat
        BY <2>3, TableFacts DEF MoveInv
      <3> QED BY <2>2, <3>2, <3>3
    <2>6. e.key \notin MapKeys(x)
      <3>1. MapKeys(x) = {f.key : f \in Contents(x)}
        BY ContentsFacts DEF MoveInv
      <3> SUFFICES ASSUME NEW f \in Contents(x), f.key = e.key PROVE FALSE
        BY <3>1
      <3>2. PICK i \in Upto(map, m - 1) : f = map.elements[i]
        BY DEF MoveInv
      <3>3. i \in 0 .. n - 1 /\ map.elements[i].key # 0
        BY <1>1, <3>2 DEF Upto
      <3>4. MapPlace(map, e.key) = m - 1 /\ MapPlace(map, map.elements[i].key) = i
        <4>1. DOMAIN map.elements = 0 .. n - 1
          BY TableFacts
        <4> QED BY <1>2, <1>5, <3>3, <4>1 DEF MapSearchable
      <3>5. i = m - 1
        BY <3>2, <3>4
      <3> QED BY <2>1, <3>2, <3>5
    <2> HIDE DEF e
    <2>7. /\ y \in Table(c) /\ MapSearchable(y)
          /\ Contents(y) = Contents(x) \cup {e} /\ y.count = x.count + 1
      BY <2>4, <2>5, <2>6, PutFacts DEF MoveInv
    <2>8. Contents(y) = {map.elements[i] : i \in Upto(map, m)}
      BY <2>1, <2>7 DEF MoveInv, e
    <2>9. y.count = Cardinality(Upto(map, m))
      BY <2>3, <2>7 DEF MoveInv
    <2>10. Move(map, m, x) = y
      BY <1>5 DEF Move, e
    <2> HIDE DEF y
    <2> QED BY <2>7, <2>8, <2>9, <2>10 DEF MoveInv
  <1> QED BY <1>4, <1>5

\* The loop of map_rehash().
LEMMA MovedFacts ==
  ASSUME NEW n \in Nat \ {0}, NEW map \in Table(n), MapSearchable(map),
         NEW c \in Nat \ {0}, 2 * map.count <= c, NEW new, MoveInv(new, map, c, 0)
  PROVE  MoveInv(MapMoved(map, new)[n], map, c, n)
  <1> DEFINE S == Table(c)
             Safe(m, x) == IF Move(map, m, x) \in S THEN Move(map, m, x) ELSE x
             F == [m \in 1 .. n |-> [x \in S |-> Safe(m, x)]]
             Body(f) == [m \in 0 .. n |-> IF m = 0 THEN new ELSE Move(map, m, f[m - 1])]
             r == CHOOSE f : f = Body(f)
  <1>1. new \in S /\ n \in Nat
    BY DEF MoveInv
  <1>2. ASSUME NEW m \in 1 .. n, NEW x, MoveInv(x, map, c, m - 1)
        PROVE  MoveInv(Move(map, m, x), map, c, m) /\ Move(map, m, x) \in S /\ x \in S
    <2>1. MoveInv(Move(map, m, x), map, c, m)
      BY <1>2, MoveGoesOn
    <2> QED BY <1>2, <2>1 DEF MoveInv
  <1>3. MapMoved(map, new) = r
    <2>1. MapCapacity(map) = n
      BY TableFacts
    <2> QED BY <2>1 DEF MapMoved, Move
  <1> HIDE DEF S
  <1>4. F \in Steps(S, n)
    BY DEF Steps
  <1>5. PICK f : f \in [0 .. n -> S] /\ f[0] = new /\ \A m \in 1 .. n : f[m] = F[m][f[m - 1]]
    <2> HIDE DEF F
    <2>1. PICK f : Iteration(f, S, new, n, F)
      BY <1>1, <1>4, Iterates
    <2> QED BY <2>1 DEF Iteration
  <1>6. \A m \in 1 .. n : f[m] = Safe(m, f[m - 1])
    <2> SUFFICES ASSUME NEW m \in 1 .. n PROVE f[m] = Safe(m, f[m - 1])
      OBVIOUS
    <2>1. f[m - 1] \in S
      BY <1>5
    <2> QED BY <1>5, <2>1
  <1> HIDE DEF F
  <1>7. \A m \in 0 .. n : MoveInv(f[m], map, c, m)
    <2> DEFINE T == {m \in 0 .. n : MoveInv(f[m], map, c, m)}
    <2>1. 0 \in T
      BY <1>1, <1>5
    <2>2. \A m \in 1 .. n : m - 1 \in T => m \in T
      BY <1>2, <1>6
    <2> HIDE DEF T
    <2>3. \A m \in 0 .. n : m \in T
      BY <1>1, <2>1, <2>2, SetInduction
    <2> QED BY <2>3 DEF T
  <1>8. f = Body(f)
    <2>1. ASSUME NEW m \in 1 .. n PROVE f[m] = Move(map, m, f[m - 1])
      <3>1. MoveInv(f[m - 1], map, c, m - 1)
        BY <1>7
      <3> QED BY <1>2, <1>6, <3>1
    <2>2. ASSUME NEW m \in 0 .. n PROVE f[m] = IF m = 0 THEN new ELSE Move(map, m, f[m - 1])
      BY <1>5, <2>1
    <2> QED BY <1>5, <2>2
  <1>9. r = Body(r)
    BY <1>8
  <1> HIDE DEF r
  <1>10. r[0] = new /\ \A m \in 1 .. n : r[m] = Move(map, m, r[m - 1])
    BY <1>9
  <1>11. \A m \in 0 .. n : MoveInv(r[m], map, c, m)
    <2> DEFINE T == {m \in 0 .. n : MoveInv(r[m], map, c, m)}
    <2>1. 0 \in T
      BY <1>1, <1>10
    <2>2. \A m \in 1 .. n : m - 1 \in T => m \in T
      BY <1>2, <1>10
    <2> HIDE DEF T
    <2>3. \A m \in 0 .. n : m \in T
      BY <1>1, <2>1, <2>2, SetInduction
    <2> QED BY <2>3 DEF T
  <1>12. MoveInv(r[n], map, c, n)
    BY <1>11
  <1> QED BY <1>3, <1>12


\* A table of some size that can be searched.
Sound(map) == \E n \in Nat \ {0} : map \in Table(n) /\ MapSearchable(map)

\* map_rehash(): the new table holds the same.
LEMMA RehashFacts ==
  ASSUME NEW n \in Nat \ {0}, NEW map \in Table(n), MapSearchable(map),
         NEW size \in Nat, 2 * map.count <= size
  PROVE  \E c \in Nat \ {0} :
           /\ c >= size
           /\ MapRehash(map, size) \in Table(c) /\ MapSearchable(MapRehash(map, size))
           /\ Contents(MapRehash(map, size)) = Contents(map)
           /\ MapRehash(map, size).count = map.count
  <1> DEFINE c == MapRoundup(size)
             new == [elements |-> [i \in 0 .. c - 1 |-> Vacant], count |-> 0]
             y == MapMoved(map, new)[n]
  <1>1. c \in Nat \ {0} /\ c >= size
    BY RoundupFacts
  <1>2. MapRehash(map, size) = y
    <2>1. MapCapacity(map) = n
      BY TableFacts
    <2> QED BY <2>1 DEF MapRehash
  <1> HIDE DEF c
  <1>3. new \in Table(c) /\ MapSearchable(new) /\ Contents(new) = {} /\ new.count = 0
    BY <1>1, EmptyTable
  <1> HIDE DEF new
  <1>4. MoveInv(new, map, c, 0)
    <2>1. Upto(map, 0) = {}
      BY DEF Upto
    <2>2. Cardinality({}) = 0
      BY FS_EmptySet
    <2>3. Cardinality(Upto(map, 0)) = 0
      BY <2>1, <2>2
    <2>4. {map.elements[i] : i \in Upto(map, 0)} = {}
      BY <2>1
    <2> QED BY <1>3, <2>3, <2>4 DEF MoveInv
  <1>5. map.count \in Nat
    BY TableFacts
  <1>6. 2 * map.count <= c
    BY <1>1, <1>5
  <1>7. MoveInv(y, map, c, n)
    BY <1>1, <1>4, <1>6, MovedFacts
  <1> HIDE DEF y
  <1>8. Upto(map, n) = Full(map)
    <2>1. Full(map) = {i \in 0 .. n - 1 : map.elements[i].key # 0}
      BY FullFacts
    <2> QED BY <2>1 DEF Upto
  <1>9. Contents(y) = Contents(map)
    BY <1>7, <1>8 DEF MoveInv, Contents
  <1>10. y.count = map.count
    <2>1. HalfFull(map, n)
      BY ContentsFacts
    <2> QED BY <1>7, <1>8, <2>1 DEF MoveInv, HalfFull
  <1> QED BY <1>1, <1>2, <1>7, <1>9, <1>10 DEF MoveInv

\* map_insert() of a new key: the table is made larger when it has to be.
LEMMA InsertFacts ==
  ASSUME NEW map, Sound(map), NEW key \in DOMAIN Hash, key \notin MapKeys(map), NEW value \in Nat
  PROVE  /\ Sound(MapInsert(map, key, value))
         /\ Contents(MapInsert(map, key, value)) = Contents(map) \cup {[key |-> key, value |-> value]}
  <1> DEFINE size == map.count + 1
             x == MapReserve(map, size)
             e == [key |-> key, value |-> value]
  <1>1. PICK n \in Nat \ {0} : map \in Table(n) /\ MapSearchable(map)
    BY DEF Sound
  <1>2. map.count \in Nat /\ MapCapacity(map) = n
    BY <1>1, TableFacts
  <1>3. MapInsert(map, key, value) = MapPut(x, e)
    BY DEF MapInsert
  <1>4. x = IF 2 * size > n THEN MapRehash(map, 2 * size) ELSE map
    BY <1>2 DEF MapReserve
  <1>5. e \in ElementType /\ e.key = key /\ e.key # 0
    BY HomeType, MapAssumption DEF ElementType
  <1> HIDE DEF x, e
  <1>6. PICK c \in Nat \ {0} :
          /\ x \in Table(c) /\ MapSearchable(x) /\ Contents(x) = Contents(map)
          /\ 2 * (x.count + 1) <= c
    <2>1. CASE 2 * size > n
      <3>1. 2 * size \in Nat /\ 2 * map.count <= 2 * size
        BY <1>2
      <3>2. PICK c \in Nat \ {0} :
              /\ c >= 2 * size
              /\ MapRehash(map, 2 * size) \in Table(c) /\ MapSearchable(MapRehash(map, 2 * size))
              /\ Contents(MapRehash(map, 2 * size)) = Contents(map)
              /\ MapRehash(map, 2 * size).count = map.count
        <4>1. \A z \in Nat : 2 * map.count <= z => \E c \in Nat \ {0} :
                /\ c >= z
                /\ MapRehash(map, z) \in Table(c) /\ MapSearchable(MapRehash(map, z))
                /\ Contents(MapRehash(map, z)) = Contents(map)
                /\ MapRehash(map, z).count = map.count
          BY <1>1, RehashFacts
        <4> QED BY <3>1, <4>1
      <3>3. x = MapRehash(map, 2 * size)
        BY <1>4, <2>1
      <3> QED BY <1>2, <3>2, <3>3
    <2>2. CASE ~ (2 * size > n)
      BY <1>1, <1>2, <1>4, <2>2
    <2> QED BY <2>1, <2>2
  <1>7. e.key \notin MapKeys(x)
    <2>1. MapKeys(x) = {f.key : f \in Contents(x)}
      BY <1>6, ContentsFacts
    <2>2. MapKeys(map) = {f.key : f \in Contents(map)}
      BY <1>1, ContentsFacts
    <2> QED BY <1>5, <1>6, <2>1, <2>2
  <1>8. /\ MapPut(x, e) \in Table(c) /\ MapSearchable(MapPut(x, e))
        /\ Contents(MapPut(x, e)) = Contents(x) \cup {e}
    BY <1>5, <1>6, <1>7, PutFacts
  <1> QED BY <1>3, <1>6, <1>8 DEF Sound, e


\* map_erase() of a table of some size.
LEMMA EraseSound ==
  ASSUME NEW map, Sound(map), NEW key \in DOMAIN Hash
  PROVE  /\ Sound(MapErase(map, key))
         /\ Contents(MapErase(map, key)) = {e \in Contents(map) : e.key # key}
  <1>1. PICK n \in Nat \ {0} : map \in Table(n) /\ MapSearchable(map)
    BY DEF Sound
  <1>2. /\ MapErase(map, key) \in Table(n) /\ MapSearchable(MapErase(map, key))
        /\ Contents(MapErase(map, key)) = {e \in Contents(map) : e.key # key}
    BY <1>1, EraseFacts
  <1> QED BY <1>1, <1>2 DEF Sound

\* What is in a table of some size.
LEMMA SoundFacts ==
  ASSUME NEW map, Sound(map)
  PROVE  /\ MapSearchable(map)
         /\ \A e \in Contents(map) : MapAt(map, e.key) = e.value /\ e.key # 0
         /\ \A e, f \in Contents(map) : e.key = f.key => e = f
         /\ MapKeys(map) = {e.key : e \in Contents(map)}
  <1>1. PICK n \in Nat \ {0} : map \in Table(n) /\ MapSearchable(map)
    BY DEF Sound
  <1>2. /\ \A e \in Contents(map) : MapAt(map, e.key) = e.value /\ e \in ElementType /\ e.key # 0
        /\ \A e, f \in Contents(map) : e.key = f.key => e = f
        /\ MapKeys(map) = {e.key : e \in Contents(map)}
    BY <1>1, ContentsFacts
  <1> QED BY <1>1, <1>2

-----------------------------------------------------------------------------
(* The tables of notify.c *)

EraseEntry(e, t) == [ids |-> MapErase(t.ids, e.id), paths |-> MapErase(t.paths, e.path)]

\* What is left of the tables when the first m of the given entries have been
\* erased.
LeftInv(t, a, b, removed, m) ==
  /\ Sound(t.ids) /\ Sound(t.paths)
  /\ Contents(t.ids) = {e \in Contents(a) : \A k \in 1 .. m : e.key # removed[k].id}
  /\ Contents(t.paths) = {e \in Contents(b) : \A k \in 1 .. m : e.key # removed[k].path}

\* notify_remove_entry() of several entries.
LEMMA TablesErasedFacts ==
  ASSUME Sound(ids), Sound(paths), NEW removed,
         NEW N \in Nat, Len(removed) = N,
         \A k \in 1 .. N : removed[k].id \in DOMAIN Hash /\ removed[k].path \in DOMAIN Hash
  PROVE  LeftInv(TablesErased(removed)[N], ids, paths, removed, N)
  <1>1. PICK a, b : a = ids /\ b = paths
    OBVIOUS
  <1>2. PICK n1 \in Nat \ {0} : a \in Table(n1) /\ MapSearchable(a)
    BY <1>1 DEF Sound
  <1>3. PICK n2 \in Nat \ {0} : b \in Table(n2) /\ MapSearchable(b)
    BY <1>1 DEF Sound
  <1> DEFINE S1 == {x \in Table(n1) : MapSearchable(x)}
             S2 == {x \in Table(n2) : MapSearchable(x)}
             S == [ids : S1, paths : S2]
             start == [ids |-> a, paths |-> b]
             F == [m \in 1 .. N |-> [t \in S |-> EraseEntry(removed[m], t)]]
             Body(f) == [m \in 0 .. N |-> IF m = 0 THEN start ELSE EraseEntry(removed[m], f[m - 1])]
             r == CHOOSE f : f = Body(f)
  <1>4. start \in S
    BY <1>2, <1>3
  <1>5. ASSUME NEW m \in 1 .. N, NEW t \in S
        PROVE  EraseEntry(removed[m], t) \in S
    <2>1. /\ t.ids \in Table(n1) /\ MapSearchable(t.ids)
          /\ t.paths \in Table(n2) /\ MapSearchable(t.paths)
      BY <1>5
    <2>2. MapErase(t.ids, removed[m].id) \in S1
      BY <2>1, EraseFacts
    <2>3. MapErase(t.paths, removed[m].path) \in S2
      BY <2>1, EraseFacts
    <2> HIDE DEF S1, S2
    <2> QED BY <2>2, <2>3 DEF EraseEntry
  <1>6. TablesErased(removed) = r
    BY <1>1 DEF TablesErased, EraseEntry
  <1>7. start.ids = a /\ start.paths = b
    OBVIOUS
  <1> HIDE DEF S, start
  <1>8. F \in Steps(S, N)
    BY <1>5 DEF Steps
  <1>9. PICK f : f \in [0 .. N -> S] /\ f[0] = start /\ \A m \in 1 .. N : f[m] = F[m][f[m - 1]]
    <2> HIDE DEF F
    <2>1. PICK f : Iteration(f, S, start, N, F)
      BY <1>4, <1>8, Iterates
    <2> QED BY <2>1 DEF Iteration
  <1>10. f = Body(f)
    <2>1. ASSUME NEW m \in 1 .. N PROVE f[m] = EraseEntry(removed[m], f[m - 1])
      <3>1. f[m - 1] \in S
        BY <1>9
      <3> QED BY <1>9, <3>1
    <2>2. ASSUME NEW m \in 0 .. N
          PROVE  f[m] = IF m = 0 THEN start ELSE EraseEntry(removed[m], f[m - 1])
      BY <1>9, <2>1
    <2> QED BY <1>9, <2>2
  <1>11. r = Body(r)
    BY <1>10
  <1> HIDE DEF r
  <1>12. r[0] = start /\ \A m \in 1 .. N : r[m] = EraseEntry(removed[m], r[m - 1])
    BY <1>11
  <1> DEFINE T == {m \in 0 .. N : LeftInv(r[m], a, b, removed, m)}
  <1>13. 0 \in T
    BY <1>1, <1>7, <1>12 DEF LeftInv
  <1>14. ASSUME NEW m \in 1 .. N, m - 1 \in T PROVE m \in T
    <2> DEFINE t == r[m - 1]
               u == r[m]
    <2>1. LeftInv(t, a, b, removed, m - 1)
      BY <1>14
    <2>2. u = EraseEntry(removed[m], t)
      BY <1>12
    <2> HIDE DEF t, u, T
    <2>3. /\ Sound(u.ids) /\ Contents(u.ids) = {e \in Contents(t.ids) : e.key # removed[m].id}
          /\ Sound(u.paths) /\ Contents(u.paths) = {e \in Contents(t.paths) : e.key # removed[m].path}
      <3>1. PICK x, y, i, p : x = t.ids /\ y = t.paths /\ i = removed[m].id /\ p = removed[m].path
        OBVIOUS
      <3>2. u.ids = MapErase(x, i) /\ u.paths = MapErase(y, p)
        BY <2>2, <3>1 DEF EraseEntry
      <3>3. Sound(x) /\ Sound(y) /\ i \in DOMAIN Hash /\ p \in DOMAIN Hash
        BY <2>1, <3>1 DEF LeftInv
      <3>4. Sound(MapErase(x, i)) /\ Contents(MapErase(x, i)) = {e \in Contents(x) : e.key # i}
        BY <3>3, EraseSound
      <3>5. Sound(MapErase(y, p)) /\ Contents(MapErase(y, p)) = {e \in Contents(y) : e.key # p}
        BY <3>3, EraseSound
      <3> QED BY <3>1, <3>2, <3>4, <3>5
    <2>4. 1 .. m = (1 .. m - 1) \cup {m}
      OBVIOUS
    <2>5. /\ Contents(t.ids) = {e \in Contents(a) : \A k \in 1 .. m - 1 : e.key # removed[k].id}
          /\ Contents(t.paths) = {e \in Contents(b) : \A k \in 1 .. m - 1 : e.key # removed[k].path}
      BY <2>1 DEF LeftInv
    <2>6. PICK K, L : K = 1 .. m - 1 /\ L = 1 .. m
      OBVIOUS
    <2>7. Contents(u.ids) = {e \in Contents(a) : \A k \in 1 .. m : e.key # removed[k].id}
      <3>1. L = K \cup {m}
        BY <2>4, <2>6
      <3>2. Contents(t.ids) = {e \in Contents(a) : \A k \in K : e.key # removed[k].id}
        BY <2>5, <2>6
      <3>3. Contents(u.ids) = {e \in Contents(t.ids) : e.key # removed[m].id}
        BY <2>3
      <3>4. ASSUME NEW e PROVE e \in Contents(u.ids) <=> e \in Contents(a) /\ \A k \in L : e.key # removed[k].id
        BY <3>1, <3>2, <3>3, Zenon
      <3> QED BY <2>6, <3>4, Zenon
    <2>8. Contents(u.paths) = {e \in Contents(b) : \A k \in 1 .. m : e.key # removed[k].path}
      <3>1. L = K \cup {m}
        BY <2>4, <2>6
      <3>2. Contents(t.paths) = {e \in Contents(b) : \A k \in K : e.key # removed[k].path}
        BY <2>5, <2>6
      <3>3. Contents(u.paths) = {e \in Contents(t.paths) : e.key # removed[m].path}
        BY <2>3
      <3>4. ASSUME NEW e PROVE e \in Contents(u.paths) <=> e \in Contents(b) /\ \A k \in L : e.key # removed[k].path
        BY <3>1, <3>2, <3>3, Zenon
      <3> QED BY <2>6, <3>4, Zenon
    <2>9. LeftInv(u, a, b, removed, m)
      BY <2>3, <2>7, <2>8 DEF LeftInv
    <2> QED BY <2>9 DEF T, u
  <1> HIDE DEF T
  <1>15. \A m \in 0 .. N : m \in T
    BY <1>13, <1>14, SetInduction
  <1>16. LeftInv(r[N], a, b, removed, N)
    BY <1>15 DEF T
  <1> QED BY <1>1, <1>6, <1>16


-----------------------------------------------------------------------------
(* The tables and the list of entries *)

IdOf(e) == [key |-> e.id, value |-> e.path]

PathOf(e) == [key |-> e.path, value |-> e.id]

\* The tables are sound and hold the entries of the list, and no more.
TablesInv ==
  /\ Sound(ids) /\ Sound(paths)
  /\ Contents(ids) = {IdOf(entries[i]) : i \in DOMAIN entries}
  /\ Contents(paths) = {PathOf(entries[i]) : i \in DOMAIN entries}
  /\ added <= MaxWatches

\* Until a watch is shared.
TablesKept == seen.shared = {} => TablesInv

\* Descriptors and paths of entries are keys, and never 0.
LEMMA EntryFacts ==
  ASSUME Inv, TablesInv, NEW k \in DOMAIN entries
  PROVE  /\ entries[k].id \in DOMAIN Hash /\ entries[k].path \in DOMAIN Hash
         /\ entries[k].id \in 1 .. added /\ entries[k].path \in Nat \ {0}
  <1>1. entries[k] \in EntryType(added)
    <2>1. entries \in Seq(EntryType(added))
      BY DEF Inv, TypeOK, EntryType
    <2> QED BY <2>1
  <1>2. entries[k].id \in 1 .. added /\ entries[k].path \in Paths
    BY <1>1 DEF EntryType
  <1>3. 1 .. added \subseteq 1 .. MaxWatches
    BY NotifyAssumption DEF Inv, TypeOK, TablesInv
  <1>4. entries[k].id \in DOMAIN Hash /\ entries[k].path \in DOMAIN Hash
    BY <1>2, <1>3, NotifyAssumption
  <1> QED BY <1>2, <1>4, MapAssumption

\* No two entries have the same path.
LEMMA PathsDiffer ==
  ASSUME Inv, TablesInv, seen.shared = {}, NEW i \in DOMAIN entries, NEW j \in DOMAIN entries,
         entries[i].path = entries[j].path
  PROVE  i = j
  <1>1. PICK e, f : e = PathOf(entries[i]) /\ f = PathOf(entries[j])
    OBVIOUS
  <1>2. e \in Contents(paths) /\ f \in Contents(paths)
    BY <1>1 DEF TablesInv
  <1>3. e.key = entries[i].path /\ e.value = entries[i].id
        /\ f.key = entries[j].path /\ f.value = entries[j].id
    BY <1>1 DEF PathOf
  <1>4. e = f
    <2>1. \A x, y \in Contents(paths) : x.key = y.key => x = y
      BY SoundFacts DEF TablesInv
    <2> QED BY <1>2, <1>3, <2>1
  <1>5. entries[i].id = entries[j].id
    BY <1>3, <1>4
  <1> QED BY <1>5 DEF Inv, Watched

\* The tables at first.
LEMMA InitTables ==
  Init => TablesInv
  <1> SUFFICES ASSUME Init PROVE TablesInv
    OBVIOUS
  <1>1. MinCapacity \in Nat \ {0}
    BY MapAssumption
  <1>2. Sound(MapConstruct) /\ Contents(MapConstruct) = {}
    BY <1>1, EmptyTable DEF MapConstruct, Sound
  <1>3. ids = MapConstruct /\ paths = MapConstruct /\ entries = <<>> /\ added = 0
    BY DEF Init
  <1>4. DOMAIN entries = {}
    BY <1>3
  <1>5. added <= MaxWatches
    BY <1>3, NotifyAssumption
  <1> QED BY <1>2, <1>3, <1>4, <1>5 DEF TablesInv

\* notify_add(): neither the path nor the descriptor is in its table yet.
LEMMA AddTables ==
  ASSUME Inv, TablesInv, NEW path \in Paths, NEW wd, wd = added + 1, wd \notin watches, Add(path, wd)
  PROVE  TablesInv'
  <1>1. PICK e, n : e = [id |-> wd, path |-> path] /\ n = Len(entries)
    OBVIOUS
  <1>2. /\ added' = wd /\ wd <= MaxWatches /\ MapAt(paths, path) = 0
        /\ entries' = Append(entries, e)
        /\ ids' = MapInsert(ids, wd, path) /\ paths' = MapInsert(paths, path, wd)
    BY <1>1 DEF Add
  <1>3. entries \in Seq(EntryType(added)) /\ added \in Nat /\ n \in Nat /\ DOMAIN entries = 1 .. n
    BY <1>1 DEF Inv, TypeOK, EntryType
  <1>4. wd \in 1 .. MaxWatches /\ wd \in Nat /\ wd <= MaxWatches
    BY <1>1, <1>2, <1>3, NotifyAssumption
  <1>5. wd \in DOMAIN Hash /\ path \in DOMAIN Hash /\ path \in Nat
    BY <1>4, NotifyAssumption, MapAssumption
  <1>6. wd \notin MapKeys(ids)
    <2> SUFFICES ASSUME wd \in MapKeys(ids) PROVE FALSE
      OBVIOUS
    <2>1. PICK x \in Contents(ids) : x.key = wd
      <3>1. MapKeys(ids) = {x.key : x \in Contents(ids)}
        BY SoundFacts DEF TablesInv
      <3> QED BY <3>1
    <2>2. PICK k \in DOMAIN entries : x = IdOf(entries[k])
      BY <2>1 DEF TablesInv
    <2>3. entries[k].id = wd
      BY <2>1, <2>2 DEF IdOf
    <2>4. entries[k].id \in 1 .. added
      BY EntryFacts
    <2> QED BY <1>1, <1>3, <2>3, <2>4
  <1>7. path \notin MapKeys(paths)
    <2> SUFFICES ASSUME path \in MapKeys(paths) PROVE FALSE
      OBVIOUS
    <2>1. PICK x \in Contents(paths) : x.key = path /\ MapAt(paths, x.key) = x.value
      <3>1. /\ MapKeys(paths) = {x.key : x \in Contents(paths)}
            /\ \A x \in Contents(paths) : MapAt(paths, x.key) = x.value
        BY SoundFacts DEF TablesInv
      <3> QED BY <3>1
    <2>2. PICK k \in DOMAIN entries : x = PathOf(entries[k])
      BY <2>1 DEF TablesInv
    <2>3. entries[k].id = 0
      BY <1>2, <2>1, <2>2 DEF PathOf
    <2>4. entries[k].id \in 1 .. added
      BY EntryFacts
    <2> QED BY <1>3, <2>3, <2>4
  <1>8. Sound(ids') /\ Contents(ids') = Contents(ids) \cup {IdOf(e)}
    <2>1. IdOf(e) = [key |-> wd, value |-> path]
      BY <1>1 DEF IdOf
    <2>2. Sound(ids)
      BY DEF TablesInv
    <2> QED BY <1>2, <1>5, <1>6, <2>1, <2>2, InsertFacts
  <1>9. Sound(paths') /\ Contents(paths') = Contents(paths) \cup {PathOf(e)}
    <2>1. PathOf(e) = [key |-> path, value |-> wd]
      BY <1>1 DEF PathOf
    <2>2. Sound(paths)
      BY DEF TablesInv
    <2> QED BY <1>2, <1>4, <1>5, <1>7, <2>1, <2>2, InsertFacts
  <1>10. /\ DOMAIN entries' = (1 .. n) \cup {n + 1}
         /\ entries'[n + 1] = e /\ \A k \in 1 .. n : entries'[k] = entries[k]
    <2>1. DOMAIN entries' = 1 .. n + 1
      BY <1>1, <1>2, <1>3
    <2>2. entries'[n + 1] = e /\ \A k \in 1 .. n : entries'[k] = entries[k]
      BY <1>1, <1>2, <1>3
    <2> QED BY <1>3, <2>1, <2>2
  <1>11. {IdOf(entries'[k]) : k \in DOMAIN entries'} = {IdOf(entries[k]) : k \in DOMAIN entries} \cup {IdOf(e)}
    BY <1>3, <1>10
  <1>12. {PathOf(entries'[k]) : k \in DOMAIN entries'} = {PathOf(entries[k]) : k \in DOMAIN entries} \cup {PathOf(e)}
    BY <1>3, <1>10
  <1> QED BY <1>2, <1>4, <1>8, <1>9, <1>11, <1>12 DEF TablesInv

\* All other entries are in the list that list_erase() leaves.
LEMMA ErasedAll ==
  ASSUME NEW S, NEW list \in Seq(S), NEW i \in 1 .. Len(list),
         NEW k \in 1 .. Len(list), k # i
  PROVE  \E j \in DOMAIN Erased(list, i) : Erased(list, i)[j] = list[k]
  <1> DEFINE j == IF k < i THEN k ELSE k - 1
  <1>1. j \in 1 .. Len(list) - 1 /\ (IF j < i THEN j ELSE j + 1) = k
    OBVIOUS
  <1> HIDE DEF j
  <1>2. j \in DOMAIN Erased(list, i) /\ Erased(list, i)[j] = list[IF j < i THEN j ELSE j + 1]
    BY <1>1 DEF Erased
  <1> QED BY <1>1, <1>2

\* notify_remove_path(), notify_remove_id(): the entry goes from both tables,
\* and no other, descriptors and paths being different.
LEMMA RemoveTables ==
  ASSUME Inv, TablesInv, seen.shared = {}, NEW i \in DOMAIN entries, Remove(i)
  PROVE  TablesInv'
  <1>1. PICK e, r, n : e = entries[i] /\ r = <<e>> /\ n = Len(entries)
    OBVIOUS
  <1>2. entries' = Erased(entries, i) /\ RemoveAll(r) /\ added' = added
    BY <1>1 DEF Remove
  <1>3. entries \in Seq(EntryType(added)) /\ n \in Nat /\ DOMAIN entries = 1 .. n
    BY <1>1 DEF Inv, TypeOK, EntryType
  <1>4. Len(r) = 1 /\ r[1] = e
    BY <1>1
  <1>5. ids' = TablesErased(r)[1].ids /\ paths' = TablesErased(r)[1].paths
    BY <1>2, <1>4 DEF RemoveAll
  <1>6. LeftInv(TablesErased(r)[1], ids, paths, r, 1)
    <2>1. \A k \in 1 .. 1 : r[k].id \in DOMAIN Hash /\ r[k].path \in DOMAIN Hash
      BY <1>1, <1>4, EntryFacts
    <2>2. Sound(ids) /\ Sound(paths)
      BY DEF TablesInv
    <2> QED BY <1>4, <2>1, <2>2, TablesErasedFacts
  <1>7. /\ Sound(ids') /\ Sound(paths')
        /\ Contents(ids') = {x \in Contents(ids) : \A k \in 1 .. 1 : x.key # r[k].id}
        /\ Contents(paths') = {x \in Contents(paths) : \A k \in 1 .. 1 : x.key # r[k].path}
    BY <1>5, <1>6 DEF LeftInv
  <1>8. 1 .. 1 = {1}
    OBVIOUS
  <1>9. /\ Contents(ids') = {x \in Contents(ids) : x.key # e.id}
        /\ Contents(paths') = {x \in Contents(paths) : x.key # e.path}
    BY <1>4, <1>7, <1>8
  <1>10. PICK D, E : D = DOMAIN entries /\ E = DOMAIN entries'
    OBVIOUS
  <1>11. \A j \in E : \E k \in D : k # i /\ entries'[j] = entries[k]
    <2>1. /\ DOMAIN Erased(entries, i) = 1 .. Len(entries) - 1
          /\ \A j \in 1 .. Len(entries) - 1 :
               \E k \in 1 .. Len(entries) : k # i /\ Erased(entries, i)[j] = entries[k]
      <3>1. i \in 1 .. Len(entries)
        BY <1>1, <1>3
      <3>2. /\ DOMAIN Erased(entries, i) = 1 .. Len(entries) - 1
            /\ \A j \in 1 .. Len(entries) - 1 :
                 \E k \in 1 .. Len(entries) :
                   /\ k # i /\ Erased(entries, i)[j] = entries[k]
                   /\ k = IF j < i THEN j ELSE j + 1
        BY <1>3, <3>1, ErasedFacts
      <3> QED BY <3>2, Zenon
    <2> QED BY <1>1, <1>2, <1>3, <1>10, <2>1
  <1>12. \A k \in D : k # i => \E j \in E : entries'[j] = entries[k]
    BY <1>1, <1>2, <1>3, <1>10, ErasedAll
  <1>13. \A k \in D : k # i => entries[k].id # e.id /\ entries[k].path # e.path
    BY <1>1, <1>10, PathsDiffer DEF Inv, Watched
  <1>14. \A x : IdOf(x).key = x.id /\ PathOf(x).key = x.path
    BY DEF IdOf, PathOf
  <1>15. /\ Contents(ids) = {IdOf(entries[k]) : k \in D}
         /\ Contents(paths) = {PathOf(entries[k]) : k \in D}
         /\ i \in D
    BY <1>10 DEF TablesInv
  <1>16. Contents(ids') = {IdOf(entries'[k]) : k \in E}
    <2>1. ASSUME NEW x \in Contents(ids') PROVE \E j \in E : x = IdOf(entries'[j])
      <3>1. x \in Contents(ids) /\ x.key # e.id
        BY <1>9, <2>1
      <3>2. PICK k \in D : x = IdOf(entries[k])
        BY <1>15, <3>1
      <3>3. k # i
        BY <1>1, <1>14, <3>1, <3>2
      <3> QED BY <1>12, <3>2, <3>3
    <2>2. ASSUME NEW j \in E PROVE IdOf(entries'[j]) \in Contents(ids')
      <3>1. PICK k \in D : k # i /\ entries'[j] = entries[k]
        BY <1>11
      <3>2. IdOf(entries[k]) \in Contents(ids) /\ IdOf(entries[k]).key # e.id
        BY <1>13, <1>14, <1>15, <3>1
      <3> QED BY <1>9, <3>1, <3>2
    <2> QED BY <2>1, <2>2
  <1>17. Contents(paths') = {PathOf(entries'[k]) : k \in E}
    <2>1. ASSUME NEW x \in Contents(paths') PROVE \E j \in E : x = PathOf(entries'[j])
      <3>1. x \in Contents(paths) /\ x.key # e.path
        BY <1>9, <2>1
      <3>2. PICK k \in D : x = PathOf(entries[k])
        BY <1>15, <3>1
      <3>3. k # i
        BY <1>1, <1>14, <3>1, <3>2
      <3> QED BY <1>12, <3>2, <3>3
    <2>2. ASSUME NEW j \in E PROVE PathOf(entries'[j]) \in Contents(paths')
      <3>1. PICK k \in D : k # i /\ entries'[j] = entries[k]
        BY <1>11
      <3>2. PathOf(entries[k]) \in Contents(paths) /\ PathOf(entries[k]).key # e.path
        BY <1>13, <1>14, <1>15, <3>1
      <3> QED BY <1>9, <3>1, <3>2
    <2> QED BY <2>1, <2>2
  <1> QED BY <1>2, <1>7, <1>10, <1>16, <1>17 DEF TablesInv

\* notify_close(): both tables are empty then.
LEMMA CloseTables ==
  ASSUME Inv, TablesInv, Close
  PROVE  TablesInv'
  <1>1. PICK n : n = Len(entries)
    OBVIOUS
  <1>2. entries' = <<>> /\ RemoveAll(entries) /\ added' = added
    BY DEF Close
  <1>3. n \in Nat /\ DOMAIN entries = 1 .. n
    BY <1>1 DEF Inv, TypeOK
  <1>4. ids' = TablesErased(entries)[n].ids /\ paths' = TablesErased(entries)[n].paths
    BY <1>1, <1>2 DEF RemoveAll
  <1>5. LeftInv(TablesErased(entries)[n], ids, paths, entries, n)
    <2>1. \A k \in 1 .. n : entries[k].id \in DOMAIN Hash /\ entries[k].path \in DOMAIN Hash
      BY <1>3, EntryFacts
    <2>2. Sound(ids) /\ Sound(paths)
      BY DEF TablesInv
    <2> QED BY <1>1, <1>3, <2>1, <2>2, TablesErasedFacts
  <1>6. /\ Sound(ids') /\ Sound(paths')
        /\ Contents(ids') = {x \in Contents(ids) : \A k \in 1 .. n : x.key # entries[k].id}
        /\ Contents(paths') = {x \in Contents(paths) : \A k \in 1 .. n : x.key # entries[k].path}
    BY <1>4, <1>5 DEF LeftInv
  <1>7. \A x : IdOf(x).key = x.id /\ PathOf(x).key = x.path
    BY DEF IdOf, PathOf
  <1>8. Contents(ids') = {} /\ Contents(paths') = {}
    <2>1. ASSUME NEW x \in Contents(ids') PROVE FALSE
      <3>1. PICK k \in 1 .. n : x = IdOf(entries[k])
        BY <1>3, <1>6, <2>1 DEF TablesInv
      <3> QED BY <1>6, <1>7, <2>1, <3>1
    <2>2. ASSUME NEW x \in Contents(paths') PROVE FALSE
      <3>1. PICK k \in 1 .. n : x = PathOf(entries[k])
        BY <1>3, <1>6, <2>2 DEF TablesInv
      <3> QED BY <1>6, <1>7, <2>2, <3>1
    <2> QED BY <2>1, <2>2
  <1>9. DOMAIN entries' = {}
    BY <1>2
  <1> QED BY <1>2, <1>6, <1>8, <1>9 DEF TablesInv

\* A watch that is shared stays so.
LEMMA SharedStays ==
  ASSUME Inv, [Next]_vars, seen'.shared = {}
  PROVE  /\ seen.shared = {}
         /\ \A path \in Paths, wd \in watches \cup {added + 1} :
              Add(path, wd) => wd \notin watches /\ wd = added + 1
  <1>1. seen \in SeenType
    BY InvParts DEF Kept
  <1>2. ASSUME NEW path \in Paths, NEW wd \in watches \cup {added + 1}, Add(path, wd)
        PROVE  wd \notin watches /\ wd = added + 1 /\ seen.shared = {}
    <2>1. PICK g : g = (IF wd \in watches THEN seen.shared \cup {wd} ELSE seen.shared)
      OBVIOUS
    <2>2. seen' = [seen EXCEPT !.shared = g]
      BY <1>2, <2>1 DEF Add
    <2>3. seen'.shared = g
      BY <1>1, <2>2 DEF SeenType
    <2> QED BY <2>1, <2>3
  <1>3. CASE \/ Open \/ Close \/ NextRuns \/ ReadBegins \/ ReadCalls \/ ReadSkips \/ Return
             \/ ReadEnds \/ UNCHANGED vars \/ \E i \in DOMAIN entries : Remove(i)
    <2>1. seen' = seen
      <3>1. CASE Open \/ Close \/ NextRuns \/ ReadBegins \/ ReadCalls
        BY <3>1 DEF Open, Close, NextRuns, ReadBegins, ReadCalls
      <3>2. CASE ReadSkips \/ Return \/ ReadEnds \/ UNCHANGED vars
        BY <3>2 DEF ReadSkips, Return, ReadEnds, vars
      <3>3. CASE \E i \in DOMAIN entries : Remove(i)
        BY <3>3 DEF Remove
      <3> QED BY <1>3, <3>1, <3>2, <3>3
    <2> QED BY <1>2, <2>1
  <1>4. CASE \/ KernelRead \/ \E taken \in BOOLEAN : OrphanEnds(taken)
             \/ \E wd \in watches, ends \in BOOLEAN : KernelEvent(wd, ends)
    <2>1. seen'.shared = seen.shared
      <3>1. CASE KernelRead
        <4>1. PICK h : seen' = [seen EXCEPT !.overwritten = h]
          BY <3>1 DEF KernelRead
        <4> QED BY <1>1, <4>1 DEF SeenType
      <3>2. CASE \E taken \in BOOLEAN : OrphanEnds(taken)
        <4>1. CASE seen' = seen
          BY <4>1
        <4>2. CASE \E g, h : seen' = [seen EXCEPT !.eaten = g, !.overwritten = h]
          BY <1>1, <4>2 DEF SeenType
        <4>3. seen' = seen \/ \E g, h : seen' = [seen EXCEPT !.eaten = g, !.overwritten = h]
          <5>1. PICK taken \in BOOLEAN : OrphanEnds(taken)
            BY <3>2
          <5> QED BY <5>1 DEF OrphanEnds
        <4> QED BY <4>1, <4>2, <4>3
      <3>3. CASE \E wd \in watches, ends \in BOOLEAN : KernelEvent(wd, ends)
        <4>1. PICK e, g : seen' = [seen EXCEPT !.events = e, !.gone = g]
          BY <3>3 DEF KernelEvent
        <4> QED BY <1>1, <4>1 DEF SeenType
      <3> QED BY <1>4, <3>1, <3>2, <3>3
    <2> QED BY <1>2, <2>1
  <1> QED BY <1>2, <1>3, <1>4 DEF Next

\* The tables hold the entries in every behaviour, until a watch is shared.
THEOREM TablesInvariance ==
  Spec => []TablesKept
  <1>1. ASSUME Inv, TablesInv, seen.shared = {}, seen'.shared = {}, [Next]_vars PROVE TablesInv'
    <2>1. CASE \/ Open \/ NextRuns \/ ReadBegins \/ ReadCalls \/ ReadSkips
               \/ Return \/ ReadEnds \/ KernelRead \/ UNCHANGED vars
               \/ \E wd \in watches, ends \in BOOLEAN : KernelEvent(wd, ends)
               \/ \E taken \in BOOLEAN : OrphanEnds(taken)
      <3>1. UNCHANGED <<entries, ids, paths, added>>
        BY <2>1 DEF Open, NextRuns, ReadBegins, ReadCalls, ReadSkips, Return, ReadEnds, KernelRead,
                    KernelEvent, OrphanEnds, Update, kernelVars, vars
      <3> QED BY <1>1, <3>1 DEF TablesInv
    <2>2. ASSUME NEW path \in Paths, NEW wd \in watches \cup {added + 1}, Add(path, wd)
          PROVE  TablesInv'
      BY <1>1, <2>2, SharedStays, AddTables
    <2>3. ASSUME NEW i \in DOMAIN entries, Remove(i) PROVE TablesInv'
      BY <1>1, <2>3, RemoveTables
    <2>4. CASE Close
      BY <1>1, <2>4, CloseTables
    <2> QED BY <1>1, <2>1, <2>2, <2>3, <2>4 DEF Next
  <1>2. Inv /\ TablesKept /\ [Next]_vars => TablesKept'
    BY <1>1, SharedStays DEF TablesKept
  <1>3. Init => TablesKept
    BY InitTables DEF TablesKept
  <1> QED BY <1>2, <1>3, Invariance, PTL DEF Spec

\* As long as no two paths that were added named one file: an entry of the list is found by its path and
\* by its descriptor and nothing else is found, whatever the hashes of the keys
\* are and however large the tables of map.c have become.
THEOREM TablesAgreeAlways ==
  Spec => []TablesAgree
  <1>1. ASSUME TablesInv PROVE TablesAgree
    <2>1. /\ MapSearchable(ids) /\ MapSearchable(paths)
          /\ \A e \in Contents(ids) : MapAt(ids, e.key) = e.value
          /\ \A e \in Contents(paths) : MapAt(paths, e.key) = e.value
          /\ MapKeys(ids) = {e.key : e \in Contents(ids)}
          /\ MapKeys(paths) = {e.key : e \in Contents(paths)}
      BY <1>1, SoundFacts DEF TablesInv
    <2>2. \A x : /\ IdOf(x).key = x.id /\ IdOf(x).value = x.path
                 /\ PathOf(x).key = x.path /\ PathOf(x).value = x.id
      BY DEF IdOf, PathOf
    <2>3. /\ MapKeys(ids) = {entries[i].id : i \in DOMAIN entries}
          /\ MapKeys(paths) = {entries[i].path : i \in DOMAIN entries}
      <3>1. PICK D, a, b : D = DOMAIN entries /\ a = Contents(ids) /\ b = Contents(paths)
        OBVIOUS
      <3>2. a = {IdOf(entries[i]) : i \in D} /\ b = {PathOf(entries[i]) : i \in D}
        BY <1>1, <3>1 DEF TablesInv
      <3>3. {e.key : e \in a} = {entries[i].id : i \in D}
        <4>1. ASSUME NEW e \in a PROVE \E i \in D : e.key = entries[i].id
          BY <2>2, <3>2, ZenonT(60)
        <4>2. ASSUME NEW i \in D PROVE \E e \in a : e.key = entries[i].id
          <5>1. IdOf(entries[i]) \in a /\ IdOf(entries[i]).key = entries[i].id
            BY <2>2, <3>2
          <5> QED BY <5>1
        <4> QED BY <4>1, <4>2
      <3>4. {e.key : e \in b} = {entries[i].path : i \in D}
        <4>1. ASSUME NEW e \in b PROVE \E i \in D : e.key = entries[i].path
          BY <2>2, <3>2, ZenonT(60)
        <4>2. ASSUME NEW i \in D PROVE \E e \in b : e.key = entries[i].path
          <5>1. PathOf(entries[i]) \in b /\ PathOf(entries[i]).key = entries[i].path
            BY <2>2, <3>2
          <5> QED BY <5>1
        <4> QED BY <4>1, <4>2
      <3> QED BY <2>1, <3>1, <3>3, <3>4
    <2>4. ASSUME NEW i \in DOMAIN entries
          PROVE  /\ MapAt(ids, entries[i].id) = entries[i].path
                 /\ MapAt(paths, entries[i].path) = entries[i].id
      <3>1. IdOf(entries[i]) \in Contents(ids) /\ PathOf(entries[i]) \in Contents(paths)
        BY <1>1 DEF TablesInv
      <3> QED BY <2>1, <2>2, <3>1
    <2> QED BY <2>1, <2>3, <2>4 DEF TablesAgree
  <1>2. TablesKept => TablesAgree
    BY <1>1 DEF TablesKept, TablesAgree
  <1> QED BY <1>2, TablesInvariance, PTL
=============================================================================

------------------------------- MODULE Notify -------------------------------
(***************************************************************************)
(* notify.c: inotify watches, each with an entry that is found by its path *)
(* and by its watch descriptor.  One read is in flight as long as there    *)
(* are entries; removals leave it to a scheduled call to stop the read.    *)
(* The client is called for each event of a batch and may add, remove and  *)
(* close meanwhile; what it adds may start the next read, into the buffer  *)
(* that the batch is in.  Events have one size here, and a notify_t is     *)
(* opened once.                                                            *)
(***************************************************************************)
EXTENDS Map, Sequences

CONSTANTS Paths,        \* numbers of paths
          MaxWatches,   \* bound: watches ever added
          MaxEvents     \* bound: events of files

ASSUME NotifyAssumption ==
  /\ MaxWatches \in Nat /\ MaxEvents \in Nat
  /\ Paths \subseteq DOMAIN Hash /\ 1 .. MaxWatches \subseteq DOMAIN Hash

VARIABLES
  fd,        \* notify->fd: "none", "open", or "closed"
  entries,   \* notify->entries, the oldest first
  ids,       \* notify->ids: from watch descriptors to paths
  paths,     \* notify->paths: from paths to watch descriptors
  read,      \* notify->read and its operation: "none", "pending" or "done"
  next,      \* notify->next is set
  brought,   \* notify->buffer, as far as a read that is done has filled it
  batch,     \* notify->buffer, as far as notify_read() has not handled it yet
  handled,   \* number of events of its batch that notify_read() has handled
  phase,     \* "loop", "read" in notify_read(), "client" in its callback
  failed,    \* the watch descriptors for which an assertion has failed
  watches,   \* kernel: the watches of the instance
  added,     \* kernel: watches ever added
  events,    \* kernel: events that were not read
  orphans,   \* kernel: number of cancelled reads that have not ended
  seen       \* history: events ever; watches that the kernel removed, and those that
             \* were added again by another path; events that a cancelled read
             \* took, and events that were overwritten before they were handled

vars == <<fd, entries, ids, paths, read, next, brought, batch, handled, phase, failed, watches,
          added, events, orphans, seen>>

bufferVars == <<brought, batch, handled>>

kernelVars == <<watches, added, events, orphans>>

Init ==
  /\ fd = "none" /\ entries = <<>> /\ ids = MapConstruct /\ paths = MapConstruct
  /\ read = "none" /\ next = FALSE /\ brought = <<>> /\ batch = <<>> /\ handled = 0
  /\ phase = "loop" /\ failed = {}
  /\ watches = {} /\ added = 0 /\ events = <<>> /\ orphans = 0
  /\ seen = [events |-> 0, gone |-> {}, shared |-> {}, eaten |-> {}, overwritten |-> {}]

Aborted == failed # {}

ClientRuns == phase # "read" /\ ~ Aborted
LoopRuns == phase = "loop" /\ ~ Aborted

-----------------------------------------------------------------------------
(* The client *)

\* notify_open()
Open ==
  /\ ClientRuns
  /\ fd = "none"
  /\ fd' = "open"
  /\ UNCHANGED <<entries, ids, paths, read, next, bufferVars, phase, failed, seen, kernelVars>>

\* Mutant of Updated: a read is not started again.
UpdatedOnce(r, list) == IF list = <<>> THEN "none" ELSE r

\* Mutant of Updated: a read is started without entries.
UpdatedAlways(r, list) == IF r = "none" THEN "pending" ELSE r

\* notify_update(): the read once the entries are as given
Updated(r, list) == IF list = <<>> THEN "none" ELSE IF r = "none" THEN "pending" ELSE r

\* notify_add() of a path that has no entry: the kernel gives it a new watch, or
\* the one that there is if the path names a file that is watched already.
\* mapi_insert() leaves the entry that such a watch has.
Add(path, wd) ==
  /\ ClientRuns
  /\ fd = "open" /\ wd <= MaxWatches
  /\ MapAt(paths, path) = 0
  /\ added' = IF wd \in watches THEN added ELSE wd
  /\ watches' = watches \cup {wd}
  /\ seen' = [seen EXCEPT !.shared = IF wd \in watches THEN @ \cup {wd} ELSE @]
  /\ entries' = Append(entries, [id |-> wd, path |-> path])
  /\ ids' = MapInsert(ids, wd, path)
  /\ paths' = MapInsert(paths, path, wd)
  /\ read' = Updated(read, entries')
  /\ UNCHANGED <<fd, next, bufferVars, phase, failed, events, orphans>>

\* Mutant of Erased: list_erase() is forgotten.
ErasedNone(list, i) == list

\* list_erase() of the i-th entry
Erased(list, i) == [j \in 1 .. Len(list) - 1 |-> list[IF j < i THEN j ELSE j + 1]]

\* mapi_erase() and maps_erase() of the first n of the given entries
TablesErased(removed) ==
  LET erased[n \in 0 .. Len(removed)] ==
        IF n = 0 THEN [ids |-> ids, paths |-> paths]
        ELSE [ids |-> MapErase(erased[n - 1].ids, removed[n].id),
              paths |-> MapErase(erased[n - 1].paths, removed[n].path)]
  IN  erased

\* notify_remove_entry() of all the given entries, but for the list: the kernel
\* reports the end of each watch.  The assertion fails for a watch that is gone
\* already.
RemoveAll(removed) ==
  LET erased == TablesErased(removed)[Len(removed)]
      gone(i) == \/ removed[i].id \notin watches
                 \/ \E j \in 1 .. i - 1 : removed[j].id = removed[i].id IN
  /\ failed' = {removed[i].id : i \in {j \in DOMAIN removed : gone(j)}}
  /\ watches' = watches \ {removed[i].id : i \in DOMAIN removed}
  /\ events' = events \o [i \in DOMAIN removed |-> removed[i].id]
  /\ ids' = erased.ids
  /\ paths' = erased.paths

\* notify_remove_path() and notify_remove_id(), which find the i-th entry
Remove(i) ==
  /\ ClientRuns
  /\ \/ MapAt(paths, entries[i].path) # 0
     \/ MapAt(ids, entries[i].id) = entries[i].path
  /\ RemoveAll(<<entries[i]>>)
  /\ entries' = Erased(entries, i)
  /\ next' = TRUE
  /\ UNCHANGED <<fd, read, bufferVars, phase, added, orphans, seen>>

\* notify_close(), notify_destruct(): the scheduled call is cancelled, and
\* scheduled again if there are entries.  notify_read() returns at once.
Close ==
  /\ ClientRuns
  /\ fd = "open"
  /\ RemoveAll(entries)
  /\ entries' = <<>>
  /\ next' = (entries # <<>>)
  /\ fd' = "closed"
  /\ batch' = <<>> /\ handled' = 0
  /\ phase' = IF phase = "client" THEN "closing" ELSE phase
  /\ UNCHANGED <<read, brought, added, orphans, seen>>

-----------------------------------------------------------------------------
(* The reactor thread *)

\* notify_update(): a read is started if there is none, or it is cancelled
Update ==
  /\ read' = Updated(read, entries)
  /\ orphans' = IF read = "pending" /\ read' = "none" THEN orphans + 1 ELSE orphans
  /\ brought' = IF read' = "none" THEN <<>> ELSE brought
  /\ UNCHANGED <<watches, added, events>>

\* notify_next(): the scheduled call
NextRuns ==
  /\ LoopRuns
  /\ next
  /\ next' = FALSE
  /\ Update
  /\ UNCHANGED <<fd, entries, ids, paths, batch, handled, phase, failed, seen>>

\* notify_read() begins
ReadBegins ==
  /\ LoopRuns
  /\ read = "done"
  /\ read' = "none"
  /\ batch' = brought /\ brought' = <<>> /\ handled' = 0
  /\ phase' = "read"
  /\ UNCHANGED <<fd, entries, ids, paths, next, failed, seen, kernelVars>>

\* notify_read(): an event of an entry, of which the client is told
ReadCalls ==
  /\ phase = "read"
  /\ batch # <<>> /\ MapAt(ids, Head(batch)) # 0
  /\ phase' = "client"
  /\ UNCHANGED <<fd, entries, ids, paths, read, next, bufferVars, failed, seen, kernelVars>>

\* notify_read() goes on to the next event
Handled == batch' = Tail(batch) /\ handled' = handled + 1

\* notify_read(): an event of a watch that has no entry any more
ReadSkips ==
  /\ phase = "read"
  /\ batch # <<>> /\ MapAt(ids, Head(batch)) = 0
  /\ Handled
  /\ UNCHANGED <<fd, entries, ids, paths, read, next, brought, phase, failed, seen, kernelVars>>

\* The client returns: to the next event, or from a closed notify_t to the loop
Return ==
  /\ phase \in {"client", "closing"} /\ ~ Aborted
  /\ phase' = IF phase = "client" THEN "read" ELSE "loop"
  /\ IF phase = "client" THEN Handled ELSE UNCHANGED <<batch, handled>>
  /\ UNCHANGED <<fd, entries, ids, paths, read, next, brought, failed, seen, kernelVars>>

\* notify_read(): the end of the batch
ReadEnds ==
  /\ phase = "read"
  /\ batch = <<>>
  /\ Update
  /\ handled' = 0
  /\ phase' = "loop"
  /\ UNCHANGED <<fd, entries, ids, paths, next, batch, failed, seen>>

-----------------------------------------------------------------------------
(* The kernel *)

\* Something happens to a watched file; ends says that the file is deleted,
\* which removes its watch
KernelEvent(wd, ends) ==
  /\ wd \in watches
  /\ seen.events < MaxEvents
  /\ events' = Append(events, wd)
  /\ watches' = IF ends THEN watches \ {wd} ELSE watches
  /\ seen' = [seen EXCEPT !.events = @ + 1, !.gone = IF ends THEN @ \cup {wd} ELSE @]
  /\ UNCHANGED <<fd, entries, ids, paths, read, next, bufferVars, phase, failed, added, orphans>>

\* A part of the buffer, from the given place on, once a read has brought events
Overwritten(part, place) ==
  [i \in DOMAIN part |-> IF place + i <= Len(events) THEN events[place + i] ELSE part[i]]

\* The events that are still to be handled in that part, and are overwritten
Lost(part, place) == {part[i] : i \in {j \in DOMAIN part : place + j <= Len(events)}}

\* What notify_read() has still to handle, but for the event that its client is
\* told of, and the place where it begins
Ahead == IF phase = "client" THEN Tail(batch) ELSE batch
AheadAt == IF phase = "client" THEN handled + 1 ELSE handled

\* The read brings the events that there are.  One that was started in a callback
\* may do so before the batch is handled: a flush of the submission ring in the
\* callback enters the kernel.
KernelRead ==
  /\ read = "pending" /\ events # <<>>
  /\ read' = "done"
  /\ brought' = events
  /\ batch' = Overwritten(batch, handled)
  /\ seen' = [seen EXCEPT !.overwritten = @ \cup Lost(Ahead, AheadAt)]
  /\ events' = <<>>
  /\ UNCHANGED <<fd, entries, ids, paths, next, handled, phase, failed, watches, added, orphans>>

\* A cancelled read ends, and may take events with it, into the same buffer
OrphanEnds(taken) ==
  /\ orphans > 0
  /\ orphans' = orphans - 1
  /\ IF taken
       THEN /\ events' = <<>>
            /\ brought' = Overwritten(brought, 0)
            /\ batch' = Overwritten(batch, handled)
            /\ seen' = [seen EXCEPT
                 !.eaten = @ \cup {events[i] : i \in DOMAIN events},
                 !.overwritten = @ \cup Lost(Ahead, AheadAt) \cup Lost(brought, 0)]
       ELSE UNCHANGED <<events, brought, batch, seen>>
  /\ UNCHANGED <<fd, entries, ids, paths, read, next, handled, phase, failed, watches, added>>

-----------------------------------------------------------------------------
Next ==
  \/ Open \/ Close \/ NextRuns \/ ReadBegins \/ ReadCalls \/ ReadSkips \/ Return \/ ReadEnds
  \/ KernelRead
  \/ \E path \in Paths, wd \in watches \cup {added + 1} : Add(path, wd)
  \/ \E i \in DOMAIN entries : Remove(i)
  \/ \E wd \in watches, ends \in BOOLEAN : KernelEvent(wd, ends)
  \/ \E taken \in BOOLEAN : OrphanEnds(taken)

Spec == Init /\ [][Next]_vars

\* The loop makes scheduled calls and handles completions, callbacks return,
\* and the kernel completes a read when there are events.
FairSpec ==
  /\ Spec
  /\ WF_vars(NextRuns) /\ WF_vars(ReadBegins) /\ WF_vars(ReadCalls \/ ReadSkips \/ ReadEnds)
  /\ WF_vars(Return) /\ SF_vars(KernelRead)

-----------------------------------------------------------------------------
(* The inductive invariant of AbortsOnlyOnDeleted *)

TypeOK ==
  /\ entries \in Seq([id : 1 .. added, path : Paths])
  /\ added \in Nat
  /\ failed \subseteq Nat
  /\ watches \subseteq 1 .. added
  /\ events \in Seq(Nat)
  /\ brought \in Seq(Nat) /\ batch \in Seq(Nat) /\ handled \in Nat
  /\ seen \in [events : Nat, gone : SUBSET Nat, shared : SUBSET Nat, eaten : SUBSET Nat,
               overwritten : SUBSET Nat]

\* The client is told of an event that is in the batch.
Walking == phase = "client" => batch # <<>>

\* Only entries of a shared watch have the same, and the watch of an entry is
\* there unless it is shared or the kernel has removed it by itself.
Watched ==
  /\ \A i, j \in DOMAIN entries :
       entries[i].id = entries[j].id => i = j \/ entries[i].id \in seen.shared
  /\ ~ Aborted => \A i \in DOMAIN entries : entries[i].id \in watches \cup seen.gone \cup seen.shared

-----------------------------------------------------------------------------
(* Properties *)

\* The two hash tables agree with the list of entries, however entries were
\* added and removed and whatever collides: every entry is found by its path
\* and by its descriptor, and nothing else is found; as long as no two paths that
\* were added named the same file, whose watch then has two entries.
TablesAgree ==
  seen.shared = {} =>
    /\ MapSearchable(ids) /\ MapSearchable(paths)
    /\ MapKeys(ids) = {entries[i].id : i \in DOMAIN entries}
    /\ MapKeys(paths) = {entries[i].path : i \in DOMAIN entries}
    /\ \A i \in DOMAIN entries :
         /\ MapAt(ids, entries[i].id) = entries[i].path
         /\ MapAt(paths, entries[i].path) = entries[i].id

\* The assertion of notify_remove_entry() fails only for a watch that the
\* kernel itself removed because its file was deleted, or for a watch that was
\* added by two paths of one file: the first of the two entries that is removed
\* takes it away from the other.
AbortsOnlyOnDeleted == failed \subseteq seen.gone \cup seen.shared

Inv == TypeOK /\ Walking /\ Watched /\ AbortsOnlyOnDeleted

\* A notify_t that was closed comes to rest: the scheduled call is made, and
\* the read is cancelled or has ended.  Until then it must not be freed.  Only
\* a cancelled read that took events can keep it from it: when notify_close()
\* has cancelled the scheduled call, the read waits for one of those events.
Settles == fd = "closed" ~> \/ ~ next /\ read = "none"
                            \/ seen.eaten # {} \/ Aborted

\* An event of an entry is reported, unless the entry is removed first, or a
\* cancelled read has taken the event, or another read has overwritten it in the
\* buffer before its turn.
Reported ==
  \A wd \in 1 .. MaxWatches :
    (\E i \in DOMAIN events : events[i] = wd) /\ wd \in MapKeys(ids)
      ~> \/ phase = "client" /\ Head(batch) = wd
         \/ wd \notin MapKeys(ids) \/ wd \in seen.eaten \cup seen.overwritten \/ Aborted
=============================================================================

----------------------------- MODULE Operations -----------------------------
(***************************************************************************)
(* What the reactor promises its client, with no pool, rings or addresses: *)
(* a numbered list of operations, each of which is pending until its       *)
(* callback is called for the last time ("done") or until the client       *)
(* cancels it ("cancelled"); a cancelled operation is closed by a call to  *)
(* the callback that was given to reactor_cancel().  Only multishot polls  *)
(* call back more than once.  Module Reactor implements this               *)
(* specification.                                                          *)
(***************************************************************************)
EXTENDS Naturals, Sequences

CONSTANTS Kinds, MaxOps

VARIABLE operations

New(kind) == [kind |-> kind, status |-> "pending", calls |-> 0, cancelCalls |-> 0]

Init == operations = <<>>

\* Any API call that takes a callback.
Issue(kind) ==
  /\ Len(operations) < MaxOps
  /\ operations' = Append(operations, New(kind))

\* A multishot poll reports an event and goes on.
Event(n) ==
  /\ operations[n].kind = "multi"
  /\ \/ /\ operations[n].status = "pending"
        /\ operations' = [operations EXCEPT ![n].calls = @ + 1]
     \/ /\ operations[n].status = "cancelled"
        /\ operations' = [operations EXCEPT ![n].cancelCalls = @ + 1]

\* The callback is told of the end of the operation.
Complete(n) ==
  /\ operations[n].status = "pending"
  /\ operations' = [operations EXCEPT ![n].calls = @ + 1, ![n].status = "done"]

\* reactor_cancel(): its request to the kernel is an operation of its own.
Cancel(n) ==
  LET cancelled == [operations EXCEPT ![n].status = "cancelled"]
  IN  /\ operations[n].status = "pending"
      /\ operations[n].kind # "cancel"
      /\ IF operations[n].kind = "next"
           THEN operations' = cancelled
           ELSE /\ Len(operations) < MaxOps
                /\ operations' = Append(cancelled, New("cancel"))

\* The callback given to reactor_cancel() is told of the end.
Close(n) ==
  /\ operations[n].status = "cancelled"
  /\ operations' = [operations EXCEPT ![n].cancelCalls = @ + 1, ![n].status = "closed"]

Next ==
  \/ \E kind \in Kinds : Issue(kind)
  \/ \E n \in DOMAIN operations : Event(n) \/ Complete(n) \/ Cancel(n) \/ Close(n)

Spec == Init /\ [][Next]_operations
=============================================================================

----------------------------- MODULE MCTimeout ------------------------------
\* Modules Timeout and Signal on small instances, side by side: one of the two
\* moves only as long as the other has not, so that their states add up.
EXTENDS Timeout, Signal

\* No signal was opened
TimeoutMoves(A) == opens = 0 /\ A /\ UNCHANGED signalVars

\* No time has passed, and no timeout was set
SignalMoves == clock = 0 /\ set.n = 0 /\ SignalNext /\ UNCHANGED vars

BothInit == Init /\ SignalInit

\* The fairness of both.  Time passes as long as it is the timer that moves.
BothSpec ==
  /\ BothInit
  /\ [][TimeoutMoves(Next) \/ SignalMoves]_<<vars, signalVars>>
  /\ TimeoutFairness /\ WF_vars(TimeoutMoves(Tick))
  /\ SignalFairness
=============================================================================

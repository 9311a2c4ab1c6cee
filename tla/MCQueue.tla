------------------------------ MODULE MCQueue -------------------------------
\* Module Queue on a small instance, bounded.
EXTENDS Queue

\* Two consumers compete for three elements.  The fourth, which makes a second
\* batch behind a full one, is pushed while there is one consumer only, and
\* nothing but the other was closed or interrupted.
Few ==
  pushed > 3 =>
    /\ interrupts = 0 /\ orphans = {}
    /\ \A p \in Producers : producers[p].open
    /\ \E c \in Consumers : ~ consumers[c].open /\ got[c] = <<>>
=============================================================================

------------------------------ MODULE MCNotify ------------------------------
\* Notify for TLC: hashes that collide and that run over the end of the table.
EXTENDS Notify

MCHash == <<7, 8, 7, 3>>

\* A third path, with which the table of the paths grows, is watched only as long
\* as no event was brought and no descriptor was left to the kernel.
Few == (seen.events = 0 /\ orphans = 0) \/ 3 \notin MapKeys(paths)
=============================================================================

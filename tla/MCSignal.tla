------------------------------ MODULE MCSignal ------------------------------
\* Module Signal on small instances; see the .cfg files.
EXTENDS Signal
=============================================================================

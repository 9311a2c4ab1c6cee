------------------------------ MODULE MCStream ------------------------------
\* Module Stream on small instances; see the .cfg files.
EXTENDS Stream
=============================================================================

------------------------------- MODULE MCRing -------------------------------
\* Module Ring on small instances; see the .cfg files.
EXTENDS Ring
=============================================================================

----------------------------- MODULE MCNetwork -----------------------------
\* Network for TLC; the constants are in MCNetwork.cfg.
EXTENDS Network
=============================================================================

--------------------------- MODULE MCOfflineQueue ---------------------------
\* Root for TLC.
EXTENDS OfflineQueue
=============================================================================

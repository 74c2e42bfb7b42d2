---------------------------- MODULE MCRemoteCopy ----------------------------
EXTENDS RemoteCopy

\* Of two blocks the destination already has the first.
FirstBlock == {1}
=============================================================================

---------------------------- MODULE MCAccessBridges ----------------------------
EXTENDS AccessBridges
=============================================================================

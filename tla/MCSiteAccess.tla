----------------------------- MODULE MCSiteAccess -----------------------------
(* Instances of SiteAccess for TLC: one hostname is enough, since a session *)
(* names its host and /verify compares it.                                  *)
EXTENDS SiteAccess

CONSTANTS ada, bob
=============================================================================

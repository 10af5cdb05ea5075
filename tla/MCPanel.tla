------------------------------- MODULE MCPanel -------------------------------
(***************************************************************************)
(* Three parts that share no state: portta beside the panel on the         *)
(* exposure files, a console, and a page that refetches by itself too,     *)
(* with a stream that breaks and a route that forces the snapshot.  One    *)
(* behaviour is of one of them, and the others stay as they are.           *)
(***************************************************************************)
EXTENDS MCExposureCli, Console, LiveView

CONSTANTS b1, b2       \* builds of a snapshot

VARIABLE scope         \* "files", "shell" or "page"

ScopedInit ==
  /\ BothInit /\ ConsoleInit /\ PageInit /\ scope \in {"files", "shell", "page"}
  /\ scope # "shell" => left = <<"bash">>

ScopedNext ==
  /\ UNCHANGED scope
  /\ \/ scope = "files" /\ BothNext /\ UNCHANGED <<consoleVars, liveVars>>
     \/ scope = "shell" /\ ConsoleNext /\ UNCHANGED <<cliVars, liveVars>>
     \/ scope = "page" /\ PageNext /\ UNCHANGED <<cliVars, consoleVars>>

\* Of what is fair, only the polling could happen in a part that has not begun.
ScopedSpec ==
  /\ ScopedInit
  /\ [][ScopedNext]_<<scope, cliVars, consoleVars, liveVars>>
  /\ ConsoleFairness
  /\ PageFairness /\ WF_liveVars(scope = "page" /\ Poll)
=============================================================================

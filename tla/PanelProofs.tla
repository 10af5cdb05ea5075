----------------------------- MODULE PanelProofs -----------------------------
(***************************************************************************)
(* For every number of shells, builds and changes: what a console puts on  *)
(* record and when its limits are set, and what a page may show.  Two      *)
(* parts that share no state, one after the other.                         *)
(***************************************************************************)
EXTENDS Console, LiveView, SequenceTheorems, TLAPS

-----------------------------------------------------------------------------
(***************************************************************************)
(* A console has its limits exactly while it is open and not ending, an    *)
(* entry that confirms a teardown is never wrong, and every step of the    *)
(* console is a step of the trail ConsoleRecord describes, or none.        *)
(*                                                                         *)
(* All three follow the console through its opening: until attachShell     *)
(* returned nothing is held, nothing is on record and no finish runs; what *)
(* an attach that failed may have left running is never held, so no        *)
(* finish ever speaks of it; and finish runs once, so that the opening     *)
(* alone was tried, kept or not, when the closing is.                      *)
(***************************************************************************)
OpenedLog == <<Opening>>
Truthful(entries) == Closed(TRUE) \in EntriesOf(entries)

\* What was tried: nothing, or the opening alone.
Untried == log = <<>> /\ missed = {}
OpeningTried == (log = OpenedLog /\ missed = {}) \/ (log = <<>> /\ missed = {"opened"})

\* Before attachShell returned: nothing to finish, nothing on record.
Unheld ==
  opening \in {"looking", "creating", "attaching"} =>
    held = NoShell /\ ~openedAt /\ finish = "none" /\ ~timers /\ Untried /\ ~confirmed

ShellToTry == opening \in {"looking", "creating", "attaching"} => left # <<>>

Recording ==
  opening = "auditing" =>
    held # NoShell /\ openedAt /\ finish = "none" /\ ~timers /\ Untried /\ ~confirmed

Settled ==
  /\ opening = "open" => held # NoShell /\ openedAt
  /\ opening = "over" => finish # "none" /\ ~timers

\* finish speaks of the exec that is held, and only of one that was seen to end.
Finishing ==
  /\ finish \in {"asking", "insisting", "looking"} => held # NoShell /\ ~confirmed
  /\ finish = "recording" => openedAt
  /\ finish = "none" => ~confirmed
  /\ confirmed /\ held # NoShell => exec[held] = "exited"

\* No other exec runs beside the one held, or before there is one.
OthersIdle == opening # "over" \/ held # NoShell => \A s \in Shells : exec[s] = "running" => s = held

\* What is on record.
Recorded ==
  /\ finish = "done" \/ Untried \/ OpeningTried
  /\ held = NoShell => Untried
  /\ Truthful(log) => confirmed
  /\ openedAt /\ opening # "auditing" /\ finish # "done" => OpeningTried
  /\ openedAt => held # NoShell

ConsoleInv ==
  /\ ShellTypeOK /\ LimitsWhileOpen /\ Unheld /\ ShellToTry /\ Recording /\ Settled
  /\ Finishing /\ OthersIdle /\ Recorded

-----------------------------------------------------------------------------
(* The trail.                                                              *)

\* What an entry appended to a log that has at most the opening makes of it, and
\* how ConsoleRecord reads each.
LEMMA Appended ==
  ASSUME NEW S, NEW a \in S, NEW b \in S
  PROVE  Append(<<>>, a) = <<a>> /\ Append(<<a>>, b) = <<a, b>>
<1>1. /\ Append(<<>>, a) \in Seq(S) /\ Len(Append(<<>>, a)) = 1 /\ Append(<<>>, a)[1] = a
      /\ <<a>> \in Seq(S) /\ Len(<<a>>) = 1 /\ <<a>>[1] = a
  OBVIOUS
<1>2. /\ Append(<<a>>, b) \in Seq(S) /\ Len(Append(<<a>>, b)) = 2
      /\ Append(<<a>>, b)[1] = a /\ Append(<<a>>, b)[2] = b
      /\ <<a, b>> \in Seq(S) /\ Len(<<a, b>>) = 2 /\ <<a, b>>[1] = a /\ <<a, b>>[2] = b
  OBVIOUS
<1>3. Append(<<>>, a) = <<a>>
  <2>1. \A i \in 1..Len(Append(<<>>, a)) : Append(<<>>, a)[i] = <<a>>[i]
    BY <1>1
  <2> QED BY <1>1, <2>1, SeqEqual
<1>4. Append(<<a>>, b) = <<a, b>>
  <2>1. \A i \in 1..Len(Append(<<a>>, b)) : Append(<<a>>, b)[i] = <<a, b>>[i]
    BY <1>2
  <2> QED BY <1>2, <2>1, SeqEqual
<1> QED BY <1>3, <1>4

LEMMA KindsOf ==
  /\ EntryKinds(<<>>) = <<>>
  /\ EntryKinds(OpenedLog) = <<"opened">>
  /\ \A b \in BOOLEAN : /\ EntryKinds(<<Opening, Closed(b)>>) = <<"opened", "closed">>
                        /\ EntryKinds(<<Closed(b)>>) = <<"closed">>
  BY DEF EntryKinds, OpenedLog, Opening, Closed

LEMMA StringsAppended ==
  Append(<<>>, "opened") = <<"opened">> /\ Append(<<>>, "closed") = <<"closed">>
  /\ Append(<<"opened">>, "closed") = <<"opened", "closed">>
<1>1. "opened" \in {"opened", "closed"} /\ "closed" \in {"opened", "closed"}
  OBVIOUS
<1> QED BY <1>1, Appended

LEMMA LogOpened ==
  /\ <<>> \in Logs /\ OpenedLog \in Logs /\ OpenedLog # <<>>
  /\ Append(<<>>, Opening) = OpenedLog
  /\ ~Truthful(<<>>) /\ ~Truthful(OpenedLog)
<1>1. Append(<<>>, Opening) = OpenedLog
  BY Appended DEF OpenedLog
<1>2. <<>> \in Logs /\ OpenedLog \in Logs /\ OpenedLog # <<>>
  BY DEF Logs, OpenedLog
<1>3. ~Truthful(<<>>)
  BY DEF Truthful, EntriesOf
<1>4. ~Truthful(OpenedLog)
  BY DEF Truthful, EntriesOf, OpenedLog, Opening, Closed
<1> QED BY <1>1, <1>2, <1>3, <1>4

LEMMA LogClosed ==
  ASSUME NEW b \in BOOLEAN
  PROVE  /\ Append(OpenedLog, Closed(b)) = <<Opening, Closed(b)>>
         /\ Append(<<>>, Closed(b)) = <<Closed(b)>>
         /\ <<Opening, Closed(b)>> \in Logs /\ <<Closed(b)>> \in Logs
         /\ Truthful(<<Opening, Closed(b)>>) => b
         /\ Truthful(<<Closed(b)>>) => b
<1>1. Append(OpenedLog, Closed(b)) = <<Opening, Closed(b)>>
  <2>1. Opening \in {Opening, Closed(b)} /\ Closed(b) \in {Opening, Closed(b)}
    OBVIOUS
  <2> QED BY <2>1, Appended DEF OpenedLog
<1>2. Append(<<>>, Closed(b)) = <<Closed(b)>>
  <2>1. Closed(b) \in {Closed(b)}
    OBVIOUS
  <2> QED BY <2>1, Appended
<1>3. <<Opening, Closed(b)>> \in Logs /\ <<Closed(b)>> \in Logs
  BY DEF Logs
<1>4. Truthful(<<Opening, Closed(b)>>) => b
  BY DEF Truthful, EntriesOf, Opening, Closed
<1>5. Truthful(<<Closed(b)>>) => b
  BY DEF Truthful, EntriesOf, Closed
<1> QED BY <1>1, <1>2, <1>3, <1>4, <1>5

\* An opening is tried when nothing was, and a closing when the opening alone was.
LEMMA OpeningIsTried ==
  ASSUME Untried, Audit(Opening)
  PROVE  OpeningTried'
BY LogOpened DEF Audit, Untried, OpeningTried, Opening

LEMMA ClosingIsTried ==
  ASSUME NEW b \in BOOLEAN, OpeningTried, Audit(Closed(b))
  PROVE  /\ log' \in Logs /\ missed' \subseteq {"opened", "closed"}
         /\ Truthful(log') => b
<1>1. missed \subseteq {"opened", "closed"} /\ missed' \in {missed, missed \cup {"closed"}}
  BY DEF OpeningTried, Audit, Closed
<1>2. log' \in {<<>>, OpenedLog, <<Closed(b)>>, <<Opening, Closed(b)>>}
  BY LogClosed DEF OpeningTried, Audit
<1> QED BY <1>1, <1>2, LogOpened, LogClosed

\* The shells that remain once one was tried.
LEMMA Trying ==
  ASSUME NEW l \in Remaining, l # <<>>
  PROVE  Head(l) \in Shells /\ Tail(l) \in Remaining
<1>1. CASE l = <<"bash", "sh">>
  <2>1. Head(l) = "bash"
    BY <1>1
  <2>2. Tail(l) = <<"sh">>
    BY <1>1
  <2> QED BY <2>1, <2>2 DEF Shells, Remaining, Attempts
<1>2. CASE l = <<"bash">>
  <2>1. Head(l) = "bash"
    BY <1>2
  <2>2. Tail(l) = <<>>
    BY <1>2
  <2> QED BY <2>1, <2>2 DEF Shells, Remaining
<1>3. CASE l = <<"sh">>
  <2>1. Head(l) = "sh"
    BY <1>3
  <2>2. Tail(l) = <<>>
    BY <1>3
  <2> QED BY <2>1, <2>2 DEF Shells, Remaining
<1> QED BY <1>1, <1>2, <1>3 DEF Remaining, Attempts

-----------------------------------------------------------------------------
(* The invariant.                                                          *)

USE DEF Alive, Listening, Shells, NoShell, dockerSide, ending, server, trail, Untried, OpeningTried

LEMMA ConsoleInitially == ConsoleInit => ConsoleInv
<1>1. \A l \in Attempts : l \in Remaining /\ l # <<>>
  BY DEF Attempts, Remaining
<1> QED
  BY <1>1, LogOpened DEF ConsoleInit, ConsoleInv, ShellTypeOK, LimitsWhileOpen, Unheld, ShellToTry, Recording, Settled, Finishing, OthersIdle, Recorded

\* The catch leaves nothing held and nothing on record, and its finish is done.
LEMMA AfterCaught ==
  ASSUME Caught, finish = "none", openedAt = FALSE, socket \in {"open", "closing", "closed"}
  PROVE  /\ opening' = "over" /\ finish' = "done" /\ timers' = FALSE /\ confirmed' = TRUE
         /\ socket' \in {"open", "closing", "closed"}
         /\ UNCHANGED <<held, requested, openedAt, trail, panel>>
  BY DEF Caught, CloseSocket, Finish, Teardown, AfterTeardown

LEMMA ConsoleStep == ConsoleInv /\ [ConsoleNext]_consoleVars => ConsoleInv'
<1> SUFFICES ASSUME ConsoleInv, [ConsoleNext]_consoleVars PROVE ConsoleInv'
  OBVIOUS
<1> USE DEF ConsoleInv, ShellTypeOK, LimitsWhileOpen, Unheld, ShellToTry, Recording, Settled, Finishing, OthersIdle, Recorded
<1>1. CASE Look
  <2>1. CASE Caught
    <3>1. opening = "looking" /\ UNCHANGED <<left, exec, hijacked>>
      BY <1>1 DEF Look
    <3>2. finish = "none" /\ openedAt = FALSE /\ socket \in {"open", "closing", "closed"}
      BY <3>1
    <3> QED BY <2>1, <3>1, <3>2, AfterCaught
  <2>2. CASE opening' = "creating"
    <3>1. UNCHANGED <<held, requested, openedAt, socket, timers, finish, confirmed, trail, panel>>
      BY <1>1, <2>2 DEF Look, Caught
    <3>2. opening = "looking" /\ UNCHANGED <<left, exec, hijacked>>
      BY <1>1 DEF Look
    <3> QED BY <2>2, <3>1, <3>2
  <2>3. Caught \/ opening' = "creating"
    BY <1>1 DEF Look
  <2> QED BY <2>1, <2>2, <2>3
<1>2. CASE CreateExec
  <2>1. Shell \in Shells
    BY <1>2, Trying DEF CreateExec, Shell
  <2>2. CASE opening' = "attaching"
    <3>1. ~Caught
      BY <2>2 DEF Caught
    <3>2. /\ exec' = [exec EXCEPT ![Shell] = "created"] /\ opening = "creating"
          /\ UNCHANGED <<left, hijacked, held, requested, openedAt, socket, timers, finish, confirmed, trail, panel>>
      BY <1>2, <3>1 DEF CreateExec
    <3>3. held = NoShell
      BY <3>2
    <3> QED BY <2>1, <2>2, <3>2, <3>3
  <2>3. CASE UNCHANGED exec /\ Caught
    <3>1. opening = "creating" /\ UNCHANGED <<left, hijacked>>
      BY <1>2 DEF CreateExec
    <3>2. finish = "none" /\ openedAt = FALSE /\ socket \in {"open", "closing", "closed"}
      BY <3>1
    <3> QED BY <2>3, <3>1, <3>2, AfterCaught
  <2> QED BY <1>2, <2>2, <2>3 DEF CreateExec
<1>3. CASE Attach
  <2>1. Shell \in Shells
    BY <1>3, Trying DEF Attach, Shell
  <2>2. /\ held' = Shell /\ exec' = [exec EXCEPT ![Shell] = "running"] /\ hijacked' = "up"
        /\ UNCHANGED <<left, requested, socket, trail, panel>>
    BY <1>3 DEF Attach
  <2>3. CASE socket = "open"
    <3>1. opening' = "auditing" /\ openedAt' = TRUE /\ UNCHANGED <<timers, finish, confirmed>>
      BY <1>3, <2>3 DEF Attach
    <3> QED BY <1>3, <2>1, <2>2, <3>1 DEF Attach
  <2>4. CASE socket # "open"
    <3>1. /\ opening' = "over" /\ openedAt' = openedAt
          /\ timers' = FALSE /\ confirmed' = FALSE /\ finish' = "asking"
      BY <1>3, <2>1, <2>4 DEF Attach, Finish, Teardown
    <3>2. opening = "attaching"
      BY <1>3 DEF Attach
    <3> QED BY <2>1, <2>2, <3>1, <3>2
  <2> QED BY <2>3, <2>4
<1>4. CASE AttachMissing
  <2>1. /\ opening = "attaching" /\ left' = Tail(left) /\ left' \in Remaining
        /\ UNCHANGED <<exec, hijacked>>
    BY <1>4, Trying DEF AttachMissing
  <2>2. CASE left' = <<>>
    <3>1. Caught
      BY <1>4, <2>2 DEF AttachMissing
    <3>2. finish = "none" /\ openedAt = FALSE /\ socket \in {"open", "closing", "closed"}
      BY <2>1
    <3> QED BY <2>1, <3>1, <3>2, AfterCaught
  <2>3. CASE left' # <<>>
    <3>1. /\ opening' = "creating"
          /\ UNCHANGED <<held, requested, openedAt, socket, timers, finish, confirmed, trail, panel>>
      BY <1>4, <2>3 DEF AttachMissing
    <3> QED BY <2>1, <2>3, <3>1
  <2> QED BY <2>2, <2>3
<1>5. CASE AttachFails
  <2>1. Shell \in Shells /\ opening = "attaching" /\ UNCHANGED <<left, hijacked>> /\ Caught
    BY <1>5, Trying DEF AttachFails, Shell
  <2>2. finish = "none" /\ openedAt = FALSE /\ socket \in {"open", "closing", "closed"}
    BY <2>1
  <2>3. PICK state \in {"created", "running"} : exec' = [exec EXCEPT ![Shell] = state]
    BY <1>5 DEF AttachFails
  <2> QED BY <2>1, <2>2, <2>3, AfterCaught
<1>6. CASE AuditOpened
  <2>1. OpeningTried' /\ log' \in Logs /\ missed' \subseteq {"opened", "closed"} /\ ~Truthful(log')
    BY <1>6, OpeningIsTried, LogOpened DEF AuditOpened
  <2>2. UNCHANGED <<left, held, requested, openedAt, socket, exec, hijacked, panel>>
    BY <1>6 DEF AuditOpened
  <2>3. CASE opening' = "open" /\ ~requested
    <3>1. timers' = TRUE /\ UNCHANGED <<finish, confirmed>>
      BY <1>6, <2>3 DEF AuditOpened
    <3> QED BY <1>6, <2>1, <2>2, <2>3, <3>1, LogOpened DEF AuditOpened
  <2>4. CASE ~(opening' = "open" /\ ~requested)
    <3>1. /\ timers' = FALSE /\ confirmed' = FALSE /\ opening' \in {"open", "over"}
          /\ finish' = IF hijacked = "gone" THEN "looking" ELSE "asking"
      BY <1>6, <2>4 DEF AuditOpened, Finish, Teardown
    <3>2. opening = "auditing"
      BY <1>6 DEF AuditOpened
    <3> QED BY <2>1, <2>2, <3>1, <3>2, LogOpened
  <2> QED BY <2>3, <2>4
<1>7. CASE ClientLeaves
  BY <1>7 DEF ClientLeaves
<1>8. CASE SocketClosed
  BY <1>8 DEF SocketClosed, requestFinish, openingSettled, Finish, Teardown, AfterTeardown
<1>9. CASE StreamCloses
  BY <1>9 DEF StreamCloses
<1>10. CASE StreamEnds
  BY <1>10 DEF StreamEnds, CloseSocket, requestFinish, openingSettled, Finish, Teardown, AfterTeardown
<1>11. CASE ExecStreamBreaks
  BY <1>11 DEF ExecStreamBreaks, CloseSocket, requestFinish, openingSettled, Finish, Teardown, AfterTeardown
<1>12. CASE TimerFires
  BY <1>12 DEF TimerFires, Finish, Teardown, AfterTeardown
<1>13. CASE InspectedExit
  BY <1>13 DEF InspectedExit, Released, CloseSocket, AfterTeardown
<1>14. CASE WaitOver
  BY <1>14 DEF WaitOver, Released, CloseSocket, AfterTeardown
<1>15. CASE AuditClosed
  <2>1. finish = "recording" /\ finish' = "done" /\ OpeningTried /\ confirmed \in BOOLEAN
    BY <1>15 DEF AuditClosed
  <2>2. /\ log' \in Logs /\ missed' \subseteq {"opened", "closed"}
        /\ Truthful(log') => confirmed
    BY <1>15, <2>1, ClosingIsTried DEF AuditClosed
  <2>3. UNCHANGED <<opening, left, held, requested, openedAt, socket, exec, hijacked, timers, confirmed, panel>>
    BY <1>15 DEF AuditClosed
  <2> QED BY <2>1, <2>2, <2>3
<1>16. CASE Shutdown
  BY <1>16 DEF Shutdown, CloseSocket
<1>17. CASE ProcessEnds
  BY <1>17 DEF ProcessEnds
<1>18. ASSUME NEW s \in Shells, ExecExits(s) PROVE ConsoleInv'
  BY <1>18 DEF ExecExits
<1>19. CASE UNCHANGED consoleVars
  BY <1>19 DEF consoleVars
<1> QED
  BY <1>1, <1>2, <1>3, <1>4, <1>5, <1>6, <1>7, <1>8, <1>9, <1>10, <1>11, <1>12, <1>13, <1>14, <1>15, <1>16, <1>17, <1>18, <1>19 DEF ConsoleNext

-----------------------------------------------------------------------------
(* Theorems.                                                               *)

\* What the console's invariant says holds in every state it reaches.
LEMMA ConsoleInvariant == ConsoleSpec => []ConsoleInv
  BY ConsoleInitially, ConsoleStep, PTL DEF ConsoleSpec

\* Every variable has its type in every reachable state; an exec is held exactly
\* while there is or was a stream of it, and the log is none, one or both entries.
THEOREM ConsoleTypes == ConsoleSpec => []ShellTypeOK
  BY ConsoleInvariant, PTL DEF ConsoleInv

\* An open console always has its time limits, and nothing of it is left to fire
\* once its end began, whichever of the many ends that is.
THEOREM LimitsAlwaysSet == ConsoleSpec => []LimitsWhileOpen
  BY ConsoleInvariant, PTL DEF ConsoleInv

\* An entry that confirms a teardown is never wrong.
THEOREM ConfirmationsAreTrue == ConsoleSpec => []ConfirmedIsTrue
<1>1. ConsoleInv => ConfirmedIsTrue
  <2> SUFFICES ASSUME ConsoleInv, Truthful(log), NEW s \in Shells PROVE exec[s] # "running"
    BY DEF ConfirmedIsTrue, Truthful
  <2>1. log # <<>>
    BY LogOpened
  <2> QED BY <2>1 DEF ConsoleInv, Recorded, Finishing, OthersIdle
<1> QED BY <1>1, ConsoleInvariant, PTL

\* The console implements ConsoleRecord, as far as safety goes: its first state is a
\* first state there, and each of its steps tries an opening or, after one, a closing,
\* kept or refused (audit), ends the writing, or does nothing of the kind.
THEOREM TrailRefined ==
  ConsoleSpec => Trail!Init /\ [][Trail!Next]_<<EntryKinds(log), missed, panel = "up">>
<1>1. ConsoleInit => Trail!Init
  BY KindsOf DEF ConsoleInit, Trail!Init
<1>2. ConsoleInv /\ [ConsoleNext]_consoleVars => [Trail!Next]_<<EntryKinds(log), missed, panel = "up">>
  <2> SUFFICES ASSUME ConsoleInv, [ConsoleNext]_consoleVars
               PROVE  [Trail!Next]_<<EntryKinds(log), missed, panel = "up">>
    OBVIOUS
  <2>1. CASE trail' = trail /\ panel' = panel
    BY <2>1
  <2>2. CASE AuditOpened
    <3>1. /\ log = <<>> /\ missed = {} /\ panel' = panel
          /\ \/ panel = "up" /\ log' = OpenedLog /\ missed' = missed
             \/ log' = log /\ missed' = {"opened"}
      BY <2>2, LogOpened DEF ConsoleInv, Recording, AuditOpened, Audit, Opening
    <3>2. Trail!Tried = {}
      BY <3>1, KindsOf DEF Trail!Tried
    <3>3. Trail!Try("opened")
      BY <3>1, KindsOf, StringsAppended DEF Trail!Try
    <3> QED BY <3>2, <3>3 DEF Trail!Next, Trail!Open
  <2>3. CASE AuditClosed
    <3>1. OpeningTried /\ confirmed \in BOOLEAN /\ panel' = panel /\ Audit(Closed(confirmed))
      BY <2>3 DEF AuditClosed, ConsoleInv, Recorded, Recording, Finishing, ShellTypeOK
    <3>2. CASE log = OpenedLog /\ missed = {}
      <4>1. \/ panel = "up" /\ log' = <<Opening, Closed(confirmed)>> /\ missed' = missed
            \/ log' = log /\ missed' = {"closed"}
        BY <3>1, <3>2, LogClosed DEF Audit, Closed
      <4>2. Trail!Tried = {"opened"}
        BY <3>2, KindsOf DEF Trail!Tried
      <4>3. Trail!Try("closed")
        BY <3>1, <3>2, <4>1, KindsOf, StringsAppended DEF Trail!Try
      <4> QED BY <4>2, <4>3 DEF Trail!Next, Trail!Close
    <3>3. CASE log = <<>> /\ missed = {"opened"}
      <4>1. \/ panel = "up" /\ log' = <<Closed(confirmed)>> /\ missed' = missed
            \/ log' = log /\ missed' = missed \cup {"closed"}
        BY <3>1, <3>3, LogClosed DEF Audit, Closed
      <4>2. Trail!Tried = {"opened"}
        BY <3>3, KindsOf DEF Trail!Tried
      <4>3. Trail!Try("closed")
        BY <3>1, <3>3, <4>1, KindsOf, StringsAppended DEF Trail!Try
      <4> QED BY <4>2, <4>3 DEF Trail!Next, Trail!Close
    <3> QED BY <3>1, <3>2, <3>3
  <2>4. CASE trail' = trail /\ panel' # panel
    <3>1. panel' # "up"
      BY <2>4 DEF ConsoleNext, consoleVars, Look, CreateExec, Caught, Attach, AttachMissing, AttachFails, AuditOpened, ClientLeaves,
         SocketClosed, ExecExits, StreamCloses, StreamEnds, ExecStreamBreaks, TimerFires, InspectedExit,
         WaitOver, AuditClosed, Shutdown, ProcessEnds
    <3> QED BY <2>4, <3>1 DEF Trail!Next, Trail!Stop
  <2>5. trail' = trail \/ AuditOpened \/ AuditClosed
    BY DEF ConsoleNext, consoleVars, Look, CreateExec, Caught, Attach, AttachMissing, AttachFails, ClientLeaves,
       SocketClosed, ExecExits, StreamCloses, StreamEnds, ExecStreamBreaks, TimerFires, InspectedExit,
       WaitOver, Shutdown, ProcessEnds
  <2> QED BY <2>1, <2>2, <2>3, <2>4, <2>5
<1> QED BY <1>1, <1>2, ConsoleInvariant, PTL DEF ConsoleSpec

-----------------------------------------------------------------------------
(***************************************************************************)
(* A route that forces the snapshot never acts on one older than its call, *)
(* and a page never goes back in time unless a forced build ran over       *)
(* another, however many builds, changes and broken streams there are.     *)
(*                                                                         *)
(* Both are about what a build may still answer.  The first needs only     *)
(* that a build belongs to who began it until it ends.  For the second,    *)
(* until a forced build overtakes another there is one build at a time,    *)
(* and whatever may come to be shown is at least what is shown.            *)
(***************************************************************************)
Snapshots == [version : Nat, fresh : BOOLEAN]
BuildStates == [BuildIds -> [step : {"free", "started", "read"}, version : Nat]]
Fetches == [step : {"idle", "sent"}] \cup [step : {"waiting"}, build : BuildIds]
             \cup [step : {"answered"}, version : Nat]
Callers == [step : {"idle"}] \cup [step : {"waiting"}, build : BuildIds, since : Nat]
             \cup [step : {"answered"}, version : Nat, since : Nat]

PageTypes ==
  /\ world \in Nat /\ shown \in Nat /\ overtaken \in BOOLEAN
  /\ cached \in Snapshots /\ builds \in BuildStates /\ pending \subseteq BuildIds
  /\ fetch \in Fetches /\ caller \in Callers

\* The build a forced read waits for has yet to read, or read after the call.
Current ==
  /\ caller.step = "waiting" =>
       /\ caller.since <= world
       /\ builds[caller.build] # Free
       /\ builds[caller.build].step = "read" => builds[caller.build].version >= caller.since
  /\ ForcedReadsAreCurrent

\* One build at a time, and a get joins it.
OneBuild == \A b \in BuildIds : builds[b] # Free => pending = {b}

\* A version the page may come to show now or later is not older than what it
\* shows, nor than what it was answered.
Onward(version) ==
  /\ version >= shown
  /\ fetch.step = "answered" => version >= fetch.version

Ahead ==
  /\ Onward(world)
  /\ fetch.step = "answered" => fetch.version >= shown
  /\ cached.fresh => Onward(cached.version) /\ world >= cached.version
  /\ \A b \in BuildIds : builds[b].step = "read" =>
       /\ Onward(builds[b].version) /\ world >= builds[b].version
       /\ cached.fresh => builds[b].version >= cached.version

PageInv == PageTypes /\ Current /\ (~overtaken => OneBuild /\ Ahead)

LEMMA PageInitially == PageInit => PageInv
<1> SUFFICES ASSUME PageInit PROVE PageInv
  OBVIOUS
<1>1. PageTypes
  BY DEF PageInit, PageTypes, Snapshots, BuildStates, Fetches, Callers, NoSnapshot, Free, Resting
<1>2. Current
  BY DEF PageInit, Current, ForcedReadsAreCurrent, Resting
<1>3. OneBuild /\ Ahead
  BY DEF PageInit, OneBuild, Ahead, Onward, NoSnapshot, Free, Resting
<1> QED
  BY <1>1, <1>2, <1>3 DEF PageInv

-----------------------------------------------------------------------------
(* Builds.                                                                 *)

\* What buildSnapshot being called changes.
LEMMA Built ==
  ASSUME PageTypes, NEW b \in BuildIds, Build(b)
  PROVE  /\ builds[b] = Free /\ pending' = {b}
         /\ builds' = [builds EXCEPT ![b].step = "started"]
         /\ builds' \in BuildStates
         /\ builds'[b].step = "started" /\ builds'[b] # Free
         /\ \A c \in BuildIds \ {b} : builds'[c] = builds[c]
BY DEF PageTypes, BuildStates, Build, Free

\* A get leaves each build there is as it was, and answers with the snapshot of
\* this second or makes its caller wait for a build.
LEMMA Got ==
  ASSUME PageTypes, NEW answer, Get(answer)
  PROVE  /\ builds' \in BuildStates
         /\ pending' \subseteq BuildIds
         /\ \A c \in BuildIds : \/ builds'[c] = builds[c]
                                \/ builds[c] = Free /\ builds'[c] # Free /\ builds'[c].step = "started"
         /\ \/ cached.fresh /\ answer = Answered(cached.version) /\ UNCHANGED <<builds, pending>>
            \/ \E b \in BuildIds : answer = Waiting(b)
         /\ OneBuild => OneBuild'
<1>1. CASE cached.fresh /\ answer = Answered(cached.version) /\ UNCHANGED <<builds, pending>>
  BY <1>1 DEF PageTypes, OneBuild
<1>2. CASE (\E b \in pending : answer = Waiting(b)) /\ UNCHANGED <<builds, pending>>
  BY <1>2 DEF PageTypes, OneBuild
<1>3. CASE pending = {} /\ \E b \in BuildIds : Build(b) /\ answer = Waiting(b)
  BY <1>3, Built DEF PageTypes, OneBuild
<1> QED
  BY <1>1, <1>2, <1>3 DEF Get

\* A build that ends answers those who wait for it, and nobody else.
LEMMA Ended ==
  ASSUME PageTypes, NEW b \in BuildIds, BuildEnds(b)
  PROVE  /\ builds[b].step = "read" /\ builds[b].version \in Nat /\ builds'[b] = Free
         /\ builds' \in BuildStates
         /\ \A c \in BuildIds \ {b} : builds'[c] = builds[c]
         /\ cached' = [version |-> builds[b].version, fresh |-> TRUE]
         /\ fetch' = fetch \/ fetch' = Answered(builds[b].version)
         /\ \/ caller' = caller /\ ~(caller.step = "waiting" /\ caller.build = b)
            \/ /\ caller.step = "waiting" /\ caller.build = b
               /\ caller' = [step |-> "answered", version |-> builds[b].version, since |-> caller.since]
         /\ UNCHANGED <<world, shown, overtaken>> /\ pending' = {}
BY DEF PageTypes, BuildStates, BuildEnds, Free, docker

LEMMA PageTypesStep == PageTypes /\ [PageNext]_liveVars => PageTypes'
<1> SUFFICES ASSUME PageTypes, [PageNext]_liveVars PROVE PageTypes'
  OBVIOUS
<1>1. ASSUME NEW b \in BuildIds, BuildReads(b) PROVE PageTypes'
  BY <1>1 DEF PageTypes, BuildStates, BuildReads, Read, docker, page
<1>2. ASSUME NEW b \in BuildIds, BuildEnds(b) PROVE PageTypes'
  <2>1. fetch' \in Fetches
    BY <1>2, Ended DEF PageTypes, Fetches, Answered
  <2>2. caller' \in Callers
    BY <1>2, Ended DEF PageTypes, Callers
  <2>3. cached' \in Snapshots /\ pending' \subseteq BuildIds
    <3>1. \A v \in Nat : [version |-> v, fresh |-> TRUE] \in Snapshots
      BY Zenon DEF Snapshots
    <3> QED
      BY <1>2, <3>1, Ended
  <2>4. /\ builds' \in BuildStates
        /\ UNCHANGED <<world, shown, overtaken>>
    BY <1>2, Ended
  <2> QED
    BY <2>1, <2>2, <2>3, <2>4 DEF PageTypes
<1>3. CASE Expire
  BY <1>3 DEF PageTypes, Snapshots, Expire, docker, page
<1>4. CASE GetElsewhere
  BY <1>4, Got DEF PageTypes, GetElsewhere, docker, page
<1>5. CASE GetForced
  BY <1>5, Built DEF PageTypes, Callers, GetForced, Forcing, docker, page
<1>6. CASE Change \/ Hear \/ HubBreaks \/ HubReturns
  <2>1. /\ world' \in {world, world + 1} /\ cached' \in {cached, NoSnapshot}
        /\ UNCHANGED <<builds, pending, fetch, shown, caller, overtaken>>
    BY <1>6 DEF Change, Hear, HubBreaks, HubReturns, page, cache
  <2> QED
    <3>1. NoSnapshot \in Snapshots
      BY Zenon DEF NoSnapshot, Snapshots
    <3> QED
      BY <2>1, <3>1 DEF PageTypes
<1>7. CASE Serve
  <2>1. Get(fetch') /\ UNCHANGED <<world, cached, shown, caller, overtaken>>
    BY <1>7 DEF Serve, docker
  <2>2. fetch' \in Fetches
    BY <2>1, Got DEF PageTypes, Snapshots, Fetches, Answered, Waiting
  <2> QED
    BY <2>1, <2>2, Got DEF PageTypes
<1>8. CASE Deliver \/ Flush \/ Poll \/ StreamBreaks \/ StreamReturns
  BY <1>8 DEF PageTypes, Fetches, Deliver, Flush, Poll, StreamBreaks, StreamReturns, docker, cache
<1>9. CASE Show
  BY <1>9 DEF PageTypes, Fetches, Show, Resting, docker, cache
<1>10. CASE UNCHANGED liveVars
  BY <1>10 DEF PageTypes, liveVars, docker, cache, page
<1> QED
  BY <1>1, <1>2, <1>3, <1>4, <1>5, <1>6, <1>7, <1>8, <1>9, <1>10 DEF PageNext

-----------------------------------------------------------------------------
(* What is read is not too old.                                            *)

LEMMA CurrentStep == PageTypes /\ Current /\ [PageNext]_liveVars => Current'
<1> SUFFICES ASSUME PageTypes, Current, [PageNext]_liveVars PROVE Current'
  OBVIOUS
<1>1. ASSUME NEW b \in BuildIds, BuildReads(b) PROVE Current'
  BY <1>1 DEF PageTypes, Current, ForcedReadsAreCurrent, BuildReads, Read, Free, docker
<1>2. ASSUME NEW b \in BuildIds, BuildEnds(b) PROVE Current'
  BY <1>2, Ended DEF PageTypes, Callers, Current, ForcedReadsAreCurrent
<1>3. CASE GetForced
  <2>1. PICK b \in BuildIds : Build(b) /\ Forcing(b)
    BY <1>3 DEF GetForced
  <2> QED
    BY <1>3, <2>1, Built DEF PageTypes, Current, ForcedReadsAreCurrent, GetForced, Forcing, docker
<1>4. ASSUME NEW answer, Get(answer), UNCHANGED <<world, caller>> PROVE Current'
  BY <1>4, Got DEF PageTypes, Callers, Current, ForcedReadsAreCurrent
<1>5. CASE UNCHANGED <<builds, caller>> /\ world' \in {world, world + 1}
  BY <1>5 DEF PageTypes, Callers, Current, ForcedReadsAreCurrent
<1> QED
  BY <1>1, <1>2, <1>3, <1>4, <1>5
  DEF PageNext, liveVars, docker, cache, page, Expire, GetElsewhere, Serve, Change, Hear, HubBreaks, HubReturns,
      Deliver, Flush, Poll, Show, StreamBreaks, StreamReturns

\* As long as no forced build overtakes another, nothing older than what is shown
\* can come to be shown, and a step shows nothing older.
LEMMA AheadStep ==
  PageTypes /\ OneBuild /\ Ahead /\ [PageNext]_liveVars /\ ~overtaken'
    => OneBuild' /\ Ahead' /\ shown' >= shown
<1> SUFFICES ASSUME PageTypes, OneBuild, Ahead, [PageNext]_liveVars, ~overtaken'
             PROVE  OneBuild' /\ Ahead' /\ shown' >= shown
  OBVIOUS
<1> USE DEF Onward
<1>1. ASSUME NEW b \in BuildIds, BuildReads(b) PROVE OneBuild' /\ Ahead' /\ shown' >= shown
  <2>1. /\ builds[b].step = "started" /\ builds' = [builds EXCEPT ![b] = Read(world)]
        /\ UNCHANGED <<world, cached, pending, fetch, shown>>
    BY <1>1 DEF BuildReads, docker, page
  <2>2. OneBuild'
    BY <2>1 DEF PageTypes, OneBuild, Free
  <2>3. Ahead'
    BY <2>1 DEF PageTypes, Ahead, Read
  <2> QED
    BY <2>1, <2>2, <2>3 DEF PageTypes
<1>2. ASSUME NEW b \in BuildIds, BuildEnds(b) PROVE OneBuild' /\ Ahead' /\ shown' >= shown
  <2>1. \A c \in BuildIds : builds'[c] = Free
    <3>1. builds[b] # Free
      BY <1>2, Ended DEF Free
    <3> QED
      BY <1>2, <3>1, Ended DEF OneBuild
  <2>2. \A c \in BuildIds : builds'[c].step # "read"
    BY <2>1 DEF Free
  <2>3. Ahead'
    BY <1>2, <2>2, Ended DEF PageTypes, Ahead, Answered
  <2> QED
    BY <1>2, <2>1, <2>3, Ended DEF PageTypes, OneBuild
<1>3. CASE GetForced
  <2>1. PICK b \in BuildIds : Build(b)
    BY <1>3 DEF GetForced
  <2>2. \A c \in BuildIds : builds[c] = Free
    BY <1>3 DEF GetForced
  <2>3. UNCHANGED <<world, cached, fetch, shown>>
    BY <1>3 DEF GetForced, docker, page
  <2>4. OneBuild'
    BY <2>1, <2>2, Built DEF OneBuild
  <2>5. \A c \in BuildIds : builds'[c].step # "read"
    BY <2>1, <2>2, Built DEF Free
  <2> QED
    BY <2>3, <2>4, <2>5 DEF PageTypes, Ahead
<1>4. ASSUME Get(fetch'), fetch.step = "sent", UNCHANGED <<world, cached, shown>>
      PROVE  OneBuild' /\ Ahead' /\ shown' >= shown
  <2>1. \A c \in BuildIds : builds'[c].step = "read" => builds'[c] = builds[c]
    BY <1>4, Got
  <2> QED
    BY <1>4, <2>1, Got DEF PageTypes, Snapshots, BuildStates, Ahead, Answered, Waiting
<1>5. ASSUME NEW answer, Get(answer), UNCHANGED <<world, cached, fetch, shown>>
      PROVE  OneBuild' /\ Ahead' /\ shown' >= shown
  <2>1. \A c \in BuildIds : builds'[c].step = "read" => builds'[c] = builds[c]
    BY <1>5, Got
  <2> QED
    BY <1>5, <2>1, Got DEF PageTypes, Ahead
<1>6. CASE Show
  BY <1>6 DEF PageTypes, OneBuild, Ahead, Show, Resting, docker, cache
<1>7. ASSUME UNCHANGED <<builds, pending, shown>>, world' \in {world, world + 1},
             cached' = cached \/ ~cached'.fresh, fetch' = fetch \/ fetch'.step # "answered"
      PROVE  OneBuild' /\ Ahead' /\ shown' >= shown
  <2>1. fetch.step = "answered" => fetch.version \in Nat
    BY DEF PageTypes, Fetches
  <2>2. \A c \in BuildIds : builds[c].version \in Nat
    BY DEF PageTypes, BuildStates
  <2>3. cached.version \in Nat /\ world \in Nat /\ shown \in Nat
    BY DEF PageTypes, Snapshots
  <2>4. OneBuild'
    BY <1>7 DEF OneBuild
  <2>5. CASE fetch' = fetch
    BY <1>7, <2>1, <2>2, <2>3, <2>4, <2>5 DEF Ahead
  <2>6. CASE fetch'.step # "answered"
    BY <1>7, <2>2, <2>3, <2>4, <2>6 DEF Ahead
  <2> QED
    BY <1>7, <2>5, <2>6
<1>8. CASE Expire \/ Change \/ Hear \/ HubBreaks \/ HubReturns
  <2>1. /\ UNCHANGED <<builds, pending, shown, fetch>> /\ world' \in {world, world + 1}
    BY <1>8 DEF Expire, Change, Hear, HubBreaks, HubReturns, docker, cache, page
  <2>2. cached' = cached \/ ~cached'.fresh
    BY <1>8 DEF Expire, Change, Hear, HubBreaks, HubReturns, cache, NoSnapshot, PageTypes, Snapshots
  <2> QED
    BY <1>7, <2>1, <2>2
<1>9. CASE Deliver \/ Flush \/ Poll \/ StreamBreaks \/ StreamReturns \/ UNCHANGED liveVars
  BY <1>7, <1>9 DEF Deliver, Flush, Poll, StreamBreaks, StreamReturns, liveVars, docker, cache, page
<1>10. CASE GetElsewhere
  BY <1>5, <1>10 DEF GetElsewhere, docker, page
<1>11. CASE Serve
  BY <1>4, <1>11 DEF Serve, docker
<1> QED
  BY <1>1, <1>2, <1>3, <1>6, <1>8, <1>9, <1>10, <1>11 DEF PageNext

\* What was overtaken stays so, and the step that overtakes shows nothing.
LEMMA Overtaking ==
  PageTypes /\ [PageNext]_liveVars => (overtaken => overtaken') /\ (~overtaken /\ overtaken' => shown' = shown)
<1> SUFFICES ASSUME PageTypes, [PageNext]_liveVars
             PROVE  (overtaken => overtaken') /\ (~overtaken /\ overtaken' => shown' = shown)
  OBVIOUS
<1>1. CASE GetForced
  BY <1>1 DEF GetForced, page
<1>2. CASE UNCHANGED overtaken
  BY <1>2
<1> QED
  BY <1>1, <1>2
  DEF PageNext, liveVars, BuildReads, BuildEnds, Expire, GetElsewhere, Serve, Change, Hear, HubBreaks, HubReturns,
      Deliver, Flush, Poll, Show, StreamBreaks, StreamReturns

LEMMA PageStep == PageInv /\ [PageNext]_liveVars => PageInv' /\ (shown' >= shown \/ overtaken)
<1> SUFFICES ASSUME PageInv, [PageNext]_liveVars PROVE PageInv' /\ (shown' >= shown \/ overtaken)
  OBVIOUS
<1>1. PageTypes' /\ Current'
  BY PageTypesStep, CurrentStep DEF PageInv
<1>2. CASE overtaken
  BY <1>1, <1>2, Overtaking DEF PageInv
<1>3. CASE ~overtaken /\ overtaken'
  BY <1>1, <1>3, Overtaking DEF PageInv, PageTypes
<1>4. CASE ~overtaken /\ ~overtaken'
  BY <1>1, <1>4, AheadStep DEF PageInv
<1> QED
  BY <1>2, <1>3, <1>4

LEMMA PageInvariant == PageSpec => []PageInv
BY PageInitially, PageStep, PTL DEF PageSpec

-----------------------------------------------------------------------------
\* Whatever builds run, a route that asked for a snapshot of its own acts on
\* nothing older than its call (get(true), services/inventory.ts:482-485).
THEOREM ForcedReadsStayCurrent == PageSpec => []ForcedReadsAreCurrent
<1>1. PageInv => ForcedReadsAreCurrent
  BY DEF PageInv, Current
<1> QED
  BY <1>1, PageInvariant, PTL

\* However events, breaks, refetches and builds fall together, a page goes back in
\* time only over a forced build (get and invalidate, services/inventory.ts:481-499).
THEOREM PagesOnlyAdvance == PageSpec => NoPageGoesBack
<1>1. PageInv /\ [PageNext]_liveVars => [shown' >= shown \/ overtaken]_liveVars
  BY PageStep
<1> QED
  BY <1>1, PageInvariant, PTL DEF PageSpec, NoPageGoesBack

-----------------------------------------------------------------------------
(* The types of the page.  What is under way never counts more events than *)
(* Docker has had changes, and nobody waits for a build that is not there. *)

UnderWay ==
  /\ world \in Versions /\ arriving \in Nat /\ queue \in Nat /\ arriving + queue <= world
  /\ hub \in {"listening", "waiting"} /\ stream \in {"open", "lost"} /\ batch \in BOOLEAN
  /\ broken \in 0..Breaks

InRange ==
  /\ cached.version \in Versions /\ shown \in Versions
  /\ \A b \in BuildIds : builds[b].version \in Versions
  /\ fetch.step = "answered" => fetch.version \in Versions

Awaited ==
  /\ pending = {} \/ \E b \in BuildIds : pending = {b} /\ builds[b] # Free
  /\ fetch.step = "waiting" => builds[fetch.build] # Free
  /\ caller.step = "waiting" => builds[caller.build] # Free

LEMMA UnderWayStep == UnderWay /\ [PageNext]_liveVars => UnderWay'
<1> SUFFICES ASSUME UnderWay, [PageNext]_liveVars PROVE UnderWay'
  OBVIOUS
<1>1. CASE Change
  BY <1>1, LiveViewAssumption DEF UnderWay, Versions, Change, page
<1>2. CASE Hear
  BY <1>2 DEF UnderWay, Versions, Hear
<1>3. CASE HubBreaks
  BY <1>3, LiveViewAssumption DEF UnderWay, Versions, HubBreaks, page
<1>4. CASE Deliver
  BY <1>4 DEF UnderWay, Versions, Deliver, docker
<1>5. CASE StreamBreaks
  BY <1>5, LiveViewAssumption DEF UnderWay, Versions, StreamBreaks, docker
<1>6. CASE HubReturns \/ Flush \/ Poll \/ StreamReturns
  BY <1>6 DEF UnderWay, HubReturns, Flush, Poll, StreamReturns, docker, page
<1> QED
  BY <1>1, <1>2, <1>3, <1>4, <1>5, <1>6
  DEF UnderWay, PageNext, liveVars, docker, page, BuildReads, BuildEnds, Expire, GetElsewhere, GetForced, Serve, Show

LEMMA InRangeStep == PageTypes /\ UnderWay /\ InRange /\ [PageNext]_liveVars => InRange'
<1> SUFFICES ASSUME PageTypes, UnderWay, InRange, [PageNext]_liveVars PROVE InRange'
  OBVIOUS
<1>0. world \in Versions /\ 0 \in Versions
  BY LiveViewAssumption DEF UnderWay, Versions
<1>1. ASSUME NEW b \in BuildIds, BuildReads(b) PROVE InRange'
  BY <1>0, <1>1 DEF InRange, PageTypes, BuildStates, BuildReads, Read, page
<1>2. ASSUME NEW b \in BuildIds, BuildEnds(b) PROVE InRange'
  <2>1. builds[b].version \in Versions /\ UNCHANGED shown
    BY <1>2, Ended DEF InRange
  <2>2. cached'.version \in Versions
    BY <1>2, <2>1, Ended
  <2>3. \A c \in BuildIds : builds'[c].version \in Versions
    BY <1>0, <1>2, Ended DEF InRange, Free
  <2>4. fetch'.step = "answered" => fetch'.version \in Versions
    BY <1>2, <2>1, Ended DEF InRange, Answered
  <2> QED
    BY <2>1, <2>2, <2>3, <2>4 DEF InRange
<1>3. CASE GetForced
  <2>1. PICK b \in BuildIds : Build(b)
    BY <1>3 DEF GetForced
  <2>2. \A c \in BuildIds : builds'[c].version = builds[c].version
    BY <2>1, Built DEF PageTypes, BuildStates
  <2> QED
    BY <1>3, <2>2 DEF InRange, GetForced, page
<1>4. ASSUME NEW answer, Get(answer) PROVE \A c \in BuildIds : builds'[c].version \in Versions
  <2>1. CASE UNCHANGED builds
    BY <2>1 DEF InRange
  <2>2. ASSUME NEW b \in BuildIds, Build(b) PROVE \A c \in BuildIds : builds'[c].version = builds[c].version
    BY <2>2, Built DEF PageTypes, BuildStates
  <2> QED
    BY <1>4, <2>1, <2>2 DEF Get, InRange
<1>5. CASE GetElsewhere
  BY <1>4, <1>5 DEF InRange, GetElsewhere, page
<1>6. CASE Serve
  <2>1. Get(fetch') /\ UNCHANGED <<cached, shown>>
    BY <1>6 DEF Serve
  <2>2. fetch'.step = "answered" => fetch'.version \in Versions
    BY <2>1, Got DEF InRange, Answered, Waiting
  <2> QED
    BY <1>4, <2>1, <2>2 DEF InRange
<1>7. CASE Expire
  BY <1>7 DEF InRange, PageTypes, Snapshots, Expire, page
<1>8. CASE Hear
  BY <1>0, <1>8 DEF InRange, Hear, NoSnapshot
<1>9. CASE Flush \/ Poll
  BY <1>9 DEF InRange, Flush, Poll, cache
<1>10. CASE Show
  BY <1>10 DEF InRange, Show, Resting, cache
<1> QED
  BY <1>1, <1>2, <1>3, <1>5, <1>6, <1>7, <1>8, <1>9, <1>10
  DEF InRange, PageNext, liveVars, cache, page, Change, HubBreaks, HubReturns, Deliver, StreamBreaks, StreamReturns

LEMMA AwaitedStep == PageTypes /\ Awaited /\ [PageNext]_liveVars => Awaited'
<1> SUFFICES ASSUME PageTypes, Awaited, [PageNext]_liveVars PROVE Awaited'
  OBVIOUS
<1>1. ASSUME NEW b \in BuildIds, BuildReads(b) PROVE Awaited'
  <2>1. /\ \A c \in BuildIds : builds[c] # Free => builds'[c] # Free
        /\ UNCHANGED <<pending, fetch, caller>>
    BY <1>1 DEF PageTypes, BuildStates, BuildReads, Read, Free, page
  <2> QED
    BY <2>1 DEF PageTypes, Fetches, Callers, Awaited
<1>2. ASSUME NEW b \in BuildIds, BuildEnds(b) PROVE Awaited'
  <2>1. pending' = {}
    BY <1>2, Ended
  <2>2. fetch'.step = "waiting" => builds'[fetch'.build] # Free
    <3>1. fetch' = IF fetch = Waiting(b) THEN Answered(builds[b].version) ELSE fetch
      BY <1>2 DEF BuildEnds
    <3>2. Answered(builds[b].version).step = "answered"
      BY DEF Answered
    <3>3. fetch.step = "waiting" /\ fetch # Waiting(b) => fetch.build \in BuildIds /\ fetch.build # b
      BY DEF PageTypes, Fetches, Waiting
    <3> QED
      BY <1>2, <3>1, <3>2, <3>3, Ended DEF Awaited
  <2>3. caller'.step = "waiting" => builds'[caller'.build] # Free
    BY <1>2, Ended DEF PageTypes, Callers, Awaited
  <2> QED
    BY <2>1, <2>2, <2>3 DEF Awaited
<1>3. CASE GetForced
  <2>1. PICK b \in BuildIds : Build(b) /\ Forcing(b)
    BY <1>3 DEF GetForced
  <2>2. pending' = {b} /\ builds'[b] # Free /\ \A c \in BuildIds : builds[c] # Free => builds'[c] # Free
    BY <2>1, Built
  <2>3. caller'.build = b /\ UNCHANGED fetch
    BY <1>3, <2>1 DEF Forcing, GetForced, page
  <2> QED
    BY <2>2, <2>3 DEF PageTypes, Fetches, Awaited
<1>4. ASSUME NEW answer, Get(answer)
      PROVE  /\ pending' = {} \/ \E b \in BuildIds : pending' = {b} /\ builds'[b] # Free
             /\ \A c \in BuildIds : builds[c] # Free => builds'[c] # Free
             /\ answer.step = "waiting" => answer.build \in BuildIds /\ builds'[answer.build] # Free
  <2>1. CASE cached.fresh /\ answer = Answered(cached.version) /\ UNCHANGED <<builds, pending>>
    BY <2>1 DEF Awaited, Answered
  <2>2. CASE (\E b \in pending : answer = Waiting(b)) /\ UNCHANGED <<builds, pending>>
    BY <2>2 DEF Awaited, Waiting
  <2>3. CASE pending = {} /\ \E b \in BuildIds : Build(b) /\ answer = Waiting(b)
    BY <2>3, Built DEF Awaited, Waiting
  <2> QED
    BY <1>4, <2>1, <2>2, <2>3 DEF Get
<1>5. CASE GetElsewhere
  <2>1. PICK b \in BuildIds : Get(Waiting(b))
    BY <1>5 DEF GetElsewhere
  <2>2. UNCHANGED <<fetch, caller>>
    BY <1>5 DEF GetElsewhere, page
  <2> QED
    BY <1>4, <2>1, <2>2 DEF PageTypes, Fetches, Callers, Awaited
<1>6. CASE Serve
  <2>1. Get(fetch') /\ UNCHANGED caller
    BY <1>6 DEF Serve
  <2> QED
    BY <1>4, <2>1 DEF PageTypes, Callers, Awaited
<1>7. CASE Flush \/ Poll \/ Show
  BY <1>7 DEF Awaited, Flush, Poll, Show, Resting, cache
<1> QED
  BY <1>1, <1>2, <1>3, <1>5, <1>6, <1>7
  DEF Awaited, PageNext, liveVars, cache, page, Expire, Change, Hear, HubBreaks, HubReturns, Deliver,
      StreamBreaks, StreamReturns

\* The page and the cache keep their types: no more events are under way than there
\* were changes, and a build that somebody waits for, or may join, is there
\* (createSnapshotCache, services/inventory.ts).
THEOREM PageTypesHold == PageSpec => []PageTypeOK
<1> DEFINE Typed == PageTypes /\ UnderWay /\ InRange /\ Awaited
<1>1. PageInit => Typed
  <2> SUFFICES ASSUME PageInit PROVE Typed
    OBVIOUS
  <2>1. PageTypes
    BY PageInitially DEF PageInv
  <2>2. 0 \in Versions /\ 0 \in 0..Breaks
    BY LiveViewAssumption DEF Versions
  <2>3. UnderWay
    <3>1. /\ world = 0 /\ arriving = 0 /\ queue = 0 /\ broken = 0
          /\ hub = "listening" /\ stream = "open"
      BY DEF PageInit
    <3>2. batch \in BOOLEAN
      BY Zenon DEF PageInit
    <3> QED
      BY <2>2, <3>1, <3>2 DEF UnderWay
  <2>4. InRange /\ Awaited
    <3>1. cached.version = 0 /\ shown = 0 /\ fetch.step = "idle" /\ caller.step = "idle" /\ pending = {}
      BY DEF PageInit, NoSnapshot, Resting
    <3>2. \A b \in BuildIds : builds[b].version = 0
      BY DEF PageInit, Free
    <3> QED
      BY <2>2, <3>1, <3>2 DEF InRange, Awaited
  <2> QED
    BY <2>1, <2>3, <2>4
<1>2. Typed /\ [PageNext]_liveVars => Typed'
  BY PageTypesStep, UnderWayStep, InRangeStep, AwaitedStep
<1>3. ASSUME Typed PROVE PageTypeOK
  <2>1. arriving \in Versions /\ queue \in Versions
    BY <1>3, LiveViewAssumption DEF UnderWay, Versions
  <2>2. cached \in [version : Versions, fresh : BOOLEAN]
    BY <1>3 DEF PageTypes, Snapshots, InRange
  <2>3. builds \in [BuildIds -> [step : {"free", "started", "read"}, version : Versions]]
    <3>1. ASSUME NEW b \in BuildIds
          PROVE  builds[b] \in [step : {"free", "started", "read"}, version : Versions]
      <4>1. builds[b] \in [step : {"free", "started", "read"}, version : Nat] /\ builds[b].version \in Versions
        BY <1>3 DEF PageTypes, BuildStates, InRange
      <4> QED
        BY <4>1
    <3>2. builds = [b \in BuildIds |-> builds[b]]
      BY <1>3 DEF PageTypes, BuildStates
    <3> QED
      BY <3>1, <3>2
  <2>4. fetch.step \in {"idle", "sent", "waiting", "answered"}
    BY <1>3 DEF PageTypes, Fetches
  <2> QED
    BY <1>3, <2>1, <2>2, <2>3, <2>4 DEF PageTypeOK, PageTypes, UnderWay, InRange, Awaited
<1> QED
  BY <1>1, <1>2, <1>3, PTL DEF PageSpec
=============================================================================

------------------------------- MODULE Console -------------------------------
(***************************************************************************)
(* One container console (packages/server/src/realtime/ws/console.ts): the *)
(* browser's WebSocket on one side, a Docker exec on the other, and an     *)
(* audit trail that is to say how it ended.                                *)
(*                                                                         *)
(* What makes it hard is that everything may go away while the server      *)
(* awaits something: the browser while the exec is created, attached or    *)
(* recorded; the stream before anybody listens to it; the panel before the *)
(* teardown is recorded.  Bytes, sizes and durations are left out; a timer *)
(* is a step that may be taken while the timer is set.                     *)
(***************************************************************************)
EXTENDS Naturals, Sequences

Shells == {"bash", "sh"}
NoShell == "none"       \* null

\* The shells tried, in order: the one asked for, or both.
Attempts == {<<"bash", "sh">>, <<"bash">>, <<"sh">>}
Remaining == Attempts \cup {<<>>}

VARIABLES opening,    \* where openConsole awaits; "open" and "over" end it
          left,       \* the shells still to be tried
          socket,     \* readyState of the browser's socket
          exec,       \* per shell, the exec Docker holds for it
          held,       \* execId and stream: the exec openConsole knows, by its shell
          hijacked,   \* the hijacked connection; "eof" until its end is read
          timers,     \* heartbeat, idle and maximum are set
          requested,  \* requestedFinish is set
          finish,     \* where the finish that runs awaits
          openedAt,   \* openedAt > 0
          confirmed,  \* teardownConfirmed
          log,        \* the audit entries of this console
          missed,     \* the kinds of entries the database refused
          panel       \* the process: "stopping" once its database is closed

dockerSide == <<exec, hijacked>>
ending == <<timers, finish, confirmed>>
server == <<opening, left, held, requested, openedAt>>
trail == <<log, missed>>
consoleVars == <<server, socket, dockerSide, ending, trail, panel>>

\* container.console_opened and container.console_closed.
Opening == [kind |-> "opened"]
Closed(truth) == [kind |-> "closed", teardownConfirmed |-> truth]
Logs == {<<>>, <<Opening>>} \cup {<<Closed(truth)>> : truth \in BOOLEAN}
          \cup {<<Opening, Closed(truth)>> : truth \in BOOLEAN}

ConsoleInit ==
  /\ opening = "looking" /\ left \in Attempts /\ held = NoShell /\ requested = FALSE
  /\ openedAt = FALSE /\ socket = "open" /\ hijacked = "none"
  /\ exec = [s \in Shells |-> "none"]
  /\ timers = FALSE /\ finish = "none" /\ confirmed = FALSE
  /\ log = <<>> /\ missed = {} /\ panel = "up"

ShellTypeOK ==
  /\ opening \in {"looking", "creating", "attaching", "auditing", "open", "over"}
  /\ left \in Remaining
  /\ socket \in {"open", "closing", "closed"}
  /\ exec \in [Shells -> {"none", "created", "running", "exited"}]
  /\ held \in {s \in Shells : exec[s] \in {"running", "exited"}} \cup {NoShell}
  /\ held = NoShell <=> hijacked = "none"
  /\ hijacked \in {"none", "up", "eof", "gone"}
  /\ finish \in {"none", "asking", "insisting", "looking", "recording", "done"}
  /\ timers \in BOOLEAN /\ requested \in BOOLEAN /\ openedAt \in BOOLEAN /\ confirmed \in BOOLEAN
  /\ log \in Logs /\ missed \subseteq {"opened", "closed"}
  /\ panel \in {"up", "stopping", "gone"}

Alive == panel # "gone"
openingSettled == opening \in {"open", "over"}
Listening == opening = "open"     \* the stream's handlers are attached

\* audit(): it never throws, and an insert that fails is only told on stderr.  It may
\* fail at any time (a full disk, an account that is no more), and does once the
\* database was closed.
Audit(entry) ==
  \/ panel = "up" /\ log' = Append(log, entry) /\ UNCHANGED missed
  \/ missed' = missed \cup {entry.kind} /\ UNCHANGED log

\* socket.close when it is open: the handshake is under way.
CloseSocket == socket' = IF socket = "open" THEN "closing" ELSE socket

\* Where finish goes once the exec was dealt with.
AfterTeardown == IF openedAt THEN "recording" ELSE "done"

\* Mutant of Teardown: the timers stay set.
TeardownTimersLeft(h, s) ==
  /\ confirmed' = (h = NoShell) /\ UNCHANGED timers
  /\ finish' = IF h = NoShell THEN AfterTeardown ELSE IF s = "gone" THEN "looking" ELSE "asking"

\* The body of finish up to its first await, on the exec h and a stream in state s.
Teardown(h, s) ==
  /\ timers' = FALSE
  /\ confirmed' = (h = NoShell)
  /\ finish' = IF h = NoShell THEN AfterTeardown ELSE IF s = "gone" THEN "looking" ELSE "asking"

\* Mutant of Finish: every call does the work.
FinishAgain(h, s) == Teardown(h, s)

\* finish: the first call does the work, every other one awaits it.
Finish(h, s) == IF finish = "none" THEN Teardown(h, s) ELSE UNCHANGED ending

requestFinish(s) ==
  /\ requested' = TRUE
  /\ IF openingSettled THEN Finish(held, s) ELSE UNCHANGED ending

-----------------------------------------------------------------------------
(* openConsole.                                                            *)

\* Mutant of Caught: the error is told and the socket left open.
CaughtSocketLeft ==
  /\ opening' = "over" /\ Finish(NoShell, "none")
  /\ UNCHANGED <<held, requested, openedAt, socket, trail, panel>>

\* The catch: before attachShell returned there is no id and no stream to finish.
Caught ==
  /\ opening' = "over"
  /\ CloseSocket
  /\ Finish(NoShell, "none")
  /\ UNCHANGED <<held, requested, openedAt, trail, panel>>

\* The snapshot is read and the service is there and running, or it is refused.
Look ==
  /\ Alive /\ opening = "looking" /\ UNCHANGED <<left, dockerSide>>
  /\ \/ opening' = "creating" /\ UNCHANGED <<held, requested, openedAt, socket, ending, trail, panel>>
     \/ Caught

Shell == Head(left)

\* Mutant of CreateExec: execId is set before there is a stream.
CreateExecKnown ==
  /\ Alive /\ opening = "creating" /\ UNCHANGED <<left, hijacked>>
  /\ \/ /\ exec' = [exec EXCEPT ![Shell] = "created"]
        /\ opening' = "attaching" /\ held' = Shell
        /\ UNCHANGED <<requested, openedAt, socket, ending, trail, panel>>
     \/ UNCHANGED exec /\ Caught

\* POST exec: Docker creates one, or refuses.
CreateExec ==
  /\ Alive /\ opening = "creating" /\ UNCHANGED <<left, hijacked>>
  /\ \/ /\ exec' = [exec EXCEPT ![Shell] = "created"]
        /\ opening' = "attaching"
        /\ UNCHANGED <<held, requested, openedAt, socket, ending, trail, panel>>
     \/ UNCHANGED exec /\ Caught

\* The exec starts and its stream is here.  A browser that left meanwhile is
\* torn down at once, and its console never counts as opened.
Attach ==
  /\ Alive /\ opening = "attaching"
  /\ exec' = [exec EXCEPT ![Shell] = "running"]
  /\ hijacked' = "up" /\ held' = Shell
  /\ IF socket = "open"
     THEN opening' = "auditing" /\ openedAt' = TRUE /\ UNCHANGED ending
     ELSE opening' = "over" /\ UNCHANGED openedAt /\ Finish(Shell, "up")
  /\ UNCHANGED <<left, requested, socket, trail, panel>>

\* The image has no such shell: the next one is tried, if there is one.
AttachMissing ==
  /\ Alive /\ opening = "attaching"
  /\ left' = Tail(left) /\ UNCHANGED dockerSide
  /\ IF left' = <<>>
     THEN Caught
     ELSE opening' = "creating" /\ UNCHANGED <<held, requested, openedAt, socket, ending, trail, panel>>

\* Any other failure of the start: Docker may have run the exec all the same,
\* and the id is lost with the error.
AttachFails ==
  /\ Alive /\ opening = "attaching" /\ UNCHANGED <<left, hijacked>>
  /\ \E state \in {"created", "running"} : exec' = [exec EXCEPT ![Shell] = state]
  /\ Caught

\* The opening is on record, or could not be.  Only now do the handlers and the
\* timers exist.
AuditOpened ==
  /\ Alive /\ opening = "auditing"
  /\ Audit(Opening)
  /\ IF socket = "open"
     THEN /\ opening' = "open"
          /\ IF requested THEN Finish(held, hijacked)
             ELSE timers' = TRUE /\ UNCHANGED <<finish, confirmed>>
     ELSE opening' = "over" /\ Finish(held, hijacked)
  /\ UNCHANGED <<left, held, requested, openedAt, socket, dockerSide, panel>>

-----------------------------------------------------------------------------
(* The browser's side.                                                     *)

\* The tab closes or the connection fails; a control message that does not parse
\* and a frame that is too large close it from this side.
ClientLeaves ==
  /\ Alive /\ socket = "open" /\ socket' = "closing"
  /\ UNCHANGED <<server, dockerSide, ending, trail, panel>>

\* The 'close' event; ws forces it when the other side never answers.
SocketClosed ==
  /\ Alive /\ socket = "closing" /\ socket' = "closed"
  /\ requestFinish(hijacked)
  /\ UNCHANGED <<opening, left, held, openedAt, dockerSide, trail, panel>>

-----------------------------------------------------------------------------
(* Docker's side.                                                          *)

\* A shell ends, by what was typed or by itself; Docker then ends its stream.
ExecExits(s) ==
  /\ exec[s] = "running"
  /\ exec' = [exec EXCEPT ![s] = "exited"]
  /\ hijacked' = IF held = s /\ hijacked = "up" THEN "eof" ELSE hijacked
  /\ UNCHANGED <<server, socket, ending, trail, panel>>

\* The proxy closes the connection in order, with the shell still running.
StreamCloses ==
  /\ hijacked = "up" /\ hijacked' = "eof"
  /\ UNCHANGED <<server, socket, exec, ending, trail, panel>>

\* 'end' and the 'close' behind it, once somebody reads the stream.
StreamEnds ==
  /\ Alive /\ Listening /\ hijacked = "eof" /\ hijacked' = "gone"
  /\ CloseSocket
  /\ requestFinish("gone")
  /\ UNCHANGED <<opening, left, held, openedAt, exec, trail, panel>>

\* The connection breaks.  With no handler attached yet the 'error' event is
\* nobody's, and ends the process.
ExecStreamBreaks ==
  /\ Alive /\ hijacked = "up" /\ hijacked' = "gone"
  /\ IF Listening
     THEN CloseSocket /\ requestFinish("gone") /\ UNCHANGED panel
     ELSE /\ panel' = "gone" /\ socket' = "closed"
          /\ UNCHANGED <<requested, ending>>
  /\ UNCHANGED <<opening, left, held, openedAt, exec, trail>>

-----------------------------------------------------------------------------
(* The end of a session.                                                   *)

\* Fifteen minutes without a byte, or two hours: finish is called directly.
TimerFires ==
  /\ Alive /\ timers
  /\ Finish(held, hijacked)
  /\ UNCHANGED <<server, socket, dockerSide, trail, panel>>

\* stream.destroy().  Its 'close' event closes the socket, where there are
\* handlers; where there are none the socket was closed already.
Released ==
  /\ hijacked' = "gone"
  /\ IF Listening THEN CloseSocket ELSE UNCHANGED socket

\* Mutant of InspectedExit: an inspect that failed counts as an exec that ended.
InspectedNotRunning ==
  /\ Alive /\ finish \in {"asking", "insisting", "looking"}
  /\ confirmed' = TRUE /\ finish' = AfterTeardown /\ Released
  /\ UNCHANGED <<server, exec, timers, trail, panel>>

\* waitForExit saw the exec ended.
InspectedExit ==
  /\ Alive /\ finish \in {"asking", "insisting", "looking"}
  /\ exec[held] = "exited"
  /\ confirmed' = TRUE /\ finish' = AfterTeardown /\ Released
  /\ UNCHANGED <<server, exec, timers, trail, panel>>

\* waitForExit gave up: the exec still runs, or no inspect was answered.
WaitOver ==
  /\ Alive
  /\ \/ /\ finish = "asking" /\ hijacked # "gone" /\ finish' = "insisting"
        /\ UNCHANGED <<hijacked, socket>>
     \/ /\ \/ finish = "asking" /\ hijacked = "gone"
           \/ finish \in {"insisting", "looking"}
        /\ finish' = AfterTeardown /\ Released
  /\ UNCHANGED <<server, exec, timers, confirmed, trail, panel>>

\* The closing entry says whether Docker confirmed the teardown.
AuditClosed ==
  /\ Alive /\ finish = "recording" /\ finish' = "done"
  /\ Audit(Closed(confirmed))
  /\ UNCHANGED <<server, socket, dockerSide, timers, confirmed, panel>>

\* SIGTERM: every socket is closed and the database with them.
Shutdown ==
  /\ panel = "up" /\ panel' = "stopping"
  /\ CloseSocket
  /\ UNCHANGED <<server, dockerSide, ending, trail>>

\* The process ends: within three seconds of that, or without it.
ProcessEnds ==
  /\ Alive /\ panel' = "gone" /\ socket' = "closed"
  /\ hijacked' = IF hijacked = "none" THEN "none" ELSE "gone"
  /\ UNCHANGED <<server, exec, ending, trail>>

-----------------------------------------------------------------------------
ConsoleNext ==
  \/ Look \/ CreateExec \/ Attach \/ AttachMissing \/ AttachFails \/ AuditOpened
  \/ ClientLeaves \/ SocketClosed
  \/ (\E s \in Shells : ExecExits(s)) \/ StreamCloses \/ StreamEnds \/ ExecStreamBreaks
  \/ TimerFires \/ InspectedExit \/ WaitOver \/ AuditClosed
  \/ Shutdown \/ ProcessEnds

\* Timers fire and waits end because they are timed; an insert is
\* answered, kept or not; ws gives a closing socket thirty seconds.  Docker and the browser
\* owe nothing.
ConsoleFairness ==
  /\ WF_consoleVars(AuditOpened) /\ WF_consoleVars(SocketClosed) /\ WF_consoleVars(TimerFires)
  /\ WF_consoleVars(InspectedExit \/ WaitOver) /\ WF_consoleVars(AuditClosed)

ConsoleSpec == ConsoleInit /\ [][ConsoleNext]_consoleVars /\ ConsoleFairness
-----------------------------------------------------------------------------
(* Properties.                                                             *)

\* An open console is never without its limits, and nothing of it is left to fire
\* once its end began (console.ts:120-122, 259-280).
LimitsWhileOpen == Listening => (timers <=> finish = "none")

EntriesOf(entries) == {entries[i] : i \in DOMAIN entries}

\* The entry that says Docker confirmed the teardown is never wrong: no exec of
\* this console runs, not even one of the shell tried before (ADR 0043).
ConfirmedIsTrue == Closed(TRUE) \in EntriesOf(log) => \A s \in Shells : exec[s] # "running"

\* The audit trail is that of ConsoleRecord, the closing under fairness included:
\* whatever ends the console, however many things end it at once, and whichever of
\* its entries the database refuses.
EntryKinds(entries) == [i \in DOMAIN entries |-> entries[i].kind]
Trail == INSTANCE ConsoleRecord
  WITH record <- EntryKinds(log),
       writing <- panel = "up"
ImplementsRecord == Trail!Spec

\* The two sides end together: once the browser is gone or the session finished,
\* the socket closes and the teardown runs to its end, or the panel itself ends.
BothSidesEnd ==
  (openingSettled /\ (socket = "closed" \/ finish = "done"))
    ~> (socket = "closed" /\ finish = "done") \/ ~Alive

\* What ADR 0043 says of every close path: an exec that Docker did not confirm to
\* be over is on record as that, or its entry was tried and refused.
TeardownIsOnRecord ==
  panel = "up" /\ finish = "done" /\ held # NoShell /\ exec[held] = "running"
    => Closed(FALSE) \in EntriesOf(log) \/ "closed" \in missed
=============================================================================

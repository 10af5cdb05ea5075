------------------------ MODULE AdministrationProofs ------------------------
(***************************************************************************)
(* For any number of projects, people and concurrent requests: what the    *)
(* runner answers and does, who owns the panel, and which Projects an      *)
(* account reaches.  Three parts that share no state, one after the other. *)
(***************************************************************************)
EXTENDS Runner, Accounts, Memberships, TLAPS

-----------------------------------------------------------------------------
(***************************************************************************)
(* The runner.  The types hold, no two requests are answered with the same *)
(* run of the container, and as long as no two dispatches overlap the      *)
(* script acts on one whole request.                                       *)
(*                                                                         *)
(* The second is inductive once it is known that a run a request holds has *)
(* already happened: a start hands out the successor of the container's    *)
(* count, which no request can hold yet.                                   *)
(*                                                                         *)
(* The third follows the request through the file into the script.  The    *)
(* key is Undisturbed: while the container runs, whoever is in flight has  *)
(* been told so and will be refused before it touches the file.            *)
(***************************************************************************)
USE RunnerAssumption

\* A request holds the number of a run that has happened.
RunsHappened == \A r \in Requests : request[r].run <= container.run

RunnerInv == TypeOK /\ RunsHappened /\ OneAnswerPerRun

\* A verb that destroys data travels with the name that was typed for it, and a
\* directory is the one of the project it travels with.
Rightful(verb, project, dir) ==
  /\ verb = "down-volumes" => project \in named
  /\ dir \in {None, project}

Asked == \A r \in Requests : request[r].verb = "down-volumes" => request[r].project \in named
Filed == file # None => Rightful(file.verb, file.project, file.dir)

OnlyOne == \A q, r \in Requests : InDispatch(q) /\ InDispatch(r) => q = r

Undisturbed ==
  container.state = "running" =>
    \A r \in Requests : InDispatch(r) => request[r].step = "seen" /\ request[r].seen = "running"

Ready == \A r \in Requests : request[r].step = "start" => file # None

Reading ==
  script.step \in {"verb", "project", "rest"} =>
    /\ file # None
    /\ script.step # "verb" => script.verb = file.verb
    /\ script.step = "rest" => script.project = file.project

Acting ==
  script.step \in {"act", "volumes"} =>
    /\ script.project \in Projects
    /\ Rightful(script.verb, script.project, script.dir)
    /\ script.step = "volumes" => script.verb = "down-volumes"

Alone ==
  ~ overlapped =>
    OnlyOne /\ Undisturbed /\ Ready /\ Reading /\ Acting /\ VolumesGoOnlyByName /\ RunsAtHome

Whole == Asked /\ Filed /\ Alone

LEMMA AnsweredRequest == \A run \in 0 .. MaxRuns : Answered(run) \in Request
  BY DEF Answered, Request, Steps, RunnerStates

LEMMA InitRunner == Init => RunnerInv
<1> SUFFICES ASSUME Init PROVE RunnerInv
  OBVIOUS
<1>1. request \in [Requests -> Request]
  BY AnsweredRequest DEF Init
<1>2. /\ container \in [state : RunnerStates, run : 0 .. MaxRuns]
      /\ container.state # "running"
  BY DEF Init, RunnerStates
<1>3. script \in Script /\ script.step = "off"
  BY DEF Init, Script, Readings, Actings, Off
<1>4. live \in [Projects -> Projects \cup {None}]
  BY DEF Init
<1>5. \A r \in Requests : request[r].run = 0
  BY DEF Init, Answered
<1>6. container.run = 0
  BY DEF Init
<1>7. TypeOK
  BY <1>1, <1>2, <1>3, <1>4 DEF Init, TypeOK
<1>8. RunsHappened /\ OneAnswerPerRun
  BY <1>5, <1>6 DEF RunsHappened, OneAnswerPerRun
<1> QED
  BY <1>7, <1>8 DEF RunnerInv

\* A request that keeps or forgets its run disturbs nothing.
LEMMA RequestMoves ==
  ASSUME RunnerInv, NEW r \in Requests, NEW next \in Request,
         next.run = 0 \/ next.run = request[r].run,
         request' = [request EXCEPT ![r] = next], UNCHANGED container
  PROVE  /\ request' \in [Requests -> Request]
         /\ RunsHappened'
         /\ OneAnswerPerRun'
<1>1. request \in [Requests -> Request] /\ container.run \in 0 .. MaxRuns
  BY DEF RunnerInv, TypeOK
<1>2. request' \in [Requests -> Request]
  BY <1>1
<1>3. \A q \in Requests : request'[q].run = 0 \/ request'[q].run = request[q].run
  BY <1>1
<1>4. \A q \in Requests : request[q].run \in 0 .. MaxRuns
  BY <1>1 DEF Request
<1> QED
  BY <1>1, <1>2, <1>3, <1>4 DEF RunnerInv, RunsHappened, OneAnswerPerRun

LEMMA AcceptInv ==
  ASSUME RunnerInv, NEW r \in Requests, NEW p \in Projects, NEW verb \in Verbs,
         Accept(r, verb, p), named' \subseteq Projects, overlapped' \in BOOLEAN
  PROVE  RunnerInv'
<1> DEFINE next == [step |-> "asked", verb |-> verb, project |-> p, seen |-> None, run |-> 0]
<1>1. next \in Request /\ next.run = 0
  BY DEF Request, Steps
<1>2. request' = [request EXCEPT ![r] = next] /\ UNCHANGED container
  BY DEF Accept
<1> HIDE DEF next
<1>3. request' \in [Requests -> Request] /\ RunsHappened' /\ OneAnswerPerRun'
  BY <1>1, <1>2, RequestMoves
<1> QED
  BY <1>3 DEF Accept, RunnerInv, TypeOK, host

\* Everything the panel does to a request once it is accepted.
LEMMA AdvanceInv ==
  ASSUME RunnerInv, NEW r \in Requests, request[r].step # "idle",
         NEW step \in Steps \ {"idle"}, Advance(r, step), UNCHANGED container
  PROVE  request' \in [Requests -> Request] /\ RunsHappened' /\ OneAnswerPerRun'
<1> DEFINE next == [request[r] EXCEPT !.step = step]
<1>1. request[r] \in Request
  BY DEF RunnerInv, TypeOK
<1>2. next \in Request /\ next.run = request[r].run
  BY <1>1 DEF Request
<1>3. request' = [request EXCEPT ![r] = next]
  BY DEF Advance
<1> HIDE DEF next
<1> QED
  BY <1>2, <1>3, RequestMoves

LEMMA AnswerInv ==
  ASSUME RunnerInv, NEW r \in Requests, Answer(r), UNCHANGED container
  PROVE  request' \in [Requests -> Request] /\ RunsHappened' /\ OneAnswerPerRun'
<1> DEFINE next == Answered(request[r].run)
<1>1. request[r].run \in 0 .. MaxRuns
  BY DEF RunnerInv, TypeOK, Request
<1>2. next \in Request /\ next.run = request[r].run
  BY <1>1, AnsweredRequest DEF Answered
<1>3. request' = [request EXCEPT ![r] = next]
  BY DEF Answer
<1> HIDE DEF next
<1> QED
  BY <1>2, <1>3, RequestMoves

LEMMA InspectInv ==
  ASSUME RunnerInv, NEW r \in Requests, Inspect(r), overlapped' \in BOOLEAN
  PROVE  RunnerInv'
<1> DEFINE next == [request[r] EXCEPT !.step = "seen", !.seen = container.state]
<1>1. request[r] \in Request /\ container.state \in RunnerStates /\ request[r].step = "asked"
  BY DEF RunnerInv, TypeOK, Inspect
<1>2. next \in Request /\ next.run = request[r].run
  BY <1>1 DEF Request, Steps
<1>3. request' = [request EXCEPT ![r] = next] /\ UNCHANGED container
  BY DEF Inspect
<1> HIDE DEF next
<1>4. request' \in [Requests -> Request] /\ RunsHappened' /\ OneAnswerPerRun'
  BY <1>2, <1>3, RequestMoves
<1> QED
  BY <1>4 DEF Inspect, RunnerInv, TypeOK, host

LEMMA ResumeInv ==
  ASSUME RunnerInv, NEW r \in Requests, Resume(r), overlapped' \in BOOLEAN
  PROVE  RunnerInv'
<1>1. /\ UNCHANGED container /\ request[r].step # "idle"
      /\ Answer(r) \/ Advance(r, "writing")
  BY DEF Resume
<1>2. request' \in [Requests -> Request] /\ RunsHappened' /\ OneAnswerPerRun'
  BY <1>1, AnswerInv, AdvanceInv DEF Steps
<1> QED
  BY <1>2 DEF Resume, RunnerInv, TypeOK, host

LEMMA WriteInv ==
  ASSUME RunnerInv, NEW r \in Requests, writeRunnerRequest(r), overlapped' \in BOOLEAN
  PROVE  RunnerInv'
<1>1. UNCHANGED container /\ Advance(r, "start") /\ request[r].step = "writing"
  BY DEF writeRunnerRequest
<1>2. request' \in [Requests -> Request] /\ RunsHappened' /\ OneAnswerPerRun'
  BY <1>1, AdvanceInv DEF Steps
<1>3. request[r].verb \in Verbs /\ request[r].project \in Projects
  BY <1>1 DEF RunnerInv, TypeOK, Request
<1>4. file' \in Content
  BY <1>3 DEF writeRunnerRequest, Content
<1> QED
  BY <1>2, <1>4 DEF writeRunnerRequest, RunnerInv, TypeOK, host

\* A start hands out a number no request holds: the successor of the count.
LEMMA StartInv ==
  ASSUME RunnerInv, NEW r \in Requests, Start(r), overlapped' \in BOOLEAN
  PROVE  RunnerInv'
<1>1. CASE container.state = "running"
  <2>1. UNCHANGED container /\ Answer(r)
    BY <1>1 DEF Start
  <2>2. request' \in [Requests -> Request] /\ RunsHappened' /\ OneAnswerPerRun'
    BY <2>1, AnswerInv
  <2> QED
    BY <1>1, <2>2 DEF Start, RunnerInv, TypeOK, host
<1>2. CASE container.state # "running"
  <2> DEFINE run == container.run + 1
             next == [request[r] EXCEPT !.step = "started", !.run = run]
  <2>1. request[r] \in Request /\ request[r].step = "start" /\ container.run \in 0 .. MaxRuns
    BY DEF RunnerInv, TypeOK, Start
  <2>2. run \in 0 .. MaxRuns /\ container' = [state |-> "running", run |-> run]
    BY <1>2, <2>1 DEF Start
  <2>3. request' = [request EXCEPT ![r] = next]
    BY <1>2 DEF Start
  <2>4. next \in Request /\ next.run = run
    BY <2>1, <2>2 DEF Request, Steps
  <2> HIDE DEF next
  <2>5. /\ request \in [Requests -> Request]
        /\ \A q \in Requests : request[q].run \in 0 .. MaxRuns
    BY DEF RunnerInv, TypeOK, Request
  <2>6. request' \in [Requests -> Request]
    BY <2>3, <2>4, <2>5
  <2>7. /\ request'[r].run = run
        /\ \A q \in Requests \ {r} : request'[q].run = request[q].run
    BY <2>3, <2>4, <2>5
  <2>8. RunsHappened'
    BY <2>1, <2>2, <2>5, <2>7 DEF RunnerInv, RunsHappened
  <2>9. OneAnswerPerRun'
    BY <2>1, <2>5, <2>7 DEF RunnerInv, RunsHappened, OneAnswerPerRun
  <2>10. script' \in Script /\ script'.step = "verb"
    BY <1>2 DEF Start, Off, Script, Readings, Actings
  <2>11. container' \in [state : RunnerStates, run : 0 .. MaxRuns] /\ container'.state = "running"
    BY <2>2 DEF RunnerStates
  <2>12. TypeOK'
    BY <2>6, <2>10, <2>11 DEF Start, RunnerInv, TypeOK, host
  <2> QED
    BY <2>8, <2>9, <2>12 DEF RunnerInv
<1> QED
  BY <1>1, <1>2

LEMMA FinishInv ==
  ASSUME RunnerInv, NEW r \in Requests, Finish(r), overlapped' \in BOOLEAN
  PROVE  RunnerInv'
<1>1. UNCHANGED container /\ Answer(r)
  BY DEF Finish
<1>2. request' \in [Requests -> Request] /\ RunsHappened' /\ OneAnswerPerRun'
  BY <1>1, AnswerInv
<1> QED
  BY <1>2 DEF Finish, RunnerInv, TypeOK, host

LEMMA PanelInv ==
  ASSUME RunnerInv, NEW r \in Requests, Panel(r), overlapped' \in BOOLEAN
  PROVE  RunnerInv'
<1>1. CASE \E p \in Projects : Rebuild(r, p) \/ StartRemembered(r, p)
  <2>1. \E p \in Projects, verb \in Verbs : Accept(r, verb, p)
    BY <1>1 DEF Rebuild, StartRemembered, Verbs
  <2>2. named' \subseteq Projects
    BY <1>1 DEF Rebuild, StartRemembered, RunnerInv, TypeOK
  <2> QED
    BY <2>1, <2>2, AcceptInv
<1>2. CASE \E p, typed \in Projects, withVolumes \in BOOLEAN : Remove(r, p, typed, withVolumes)
  <2>1. \E p \in Projects, verb \in Verbs : Accept(r, verb, p)
    BY <1>2 DEF Remove, Verbs
  <2>2. named' \subseteq Projects
    BY <1>2 DEF Remove, RunnerInv, TypeOK
  <2> QED
    BY <2>1, <2>2, AcceptInv
<1> QED
  BY <1>1, <1>2, InspectInv, ResumeInv, WriteInv, StartInv, FinishInv DEF Panel

\* The script stops the container as it exits, and never touches the panel.
LEMMA ExitTypes ==
  ASSUME RunnerInv, NEW code \in 0 .. 1, Exit(code)
  PROVE  /\ container' \in [state : RunnerStates, run : 0 .. MaxRuns]
         /\ container'.run = container.run
         /\ container'.state # "running"
         /\ script' \in Script
         /\ script'.step = "off"
  BY DEF RunnerInv, TypeOK, Exit, Off, Script, Readings, Actings, RunnerStates

LEMMA ScriptInv ==
  ASSUME RunnerInv, RunnerScript, overlapped' \in BOOLEAN
  PROVE  RunnerInv'
<1>1. UNCHANGED panel
  BY DEF RunnerScript, ReadVerb, ReadProject, ReadRest, Die, ComposeUp, ComposeDown, RemoveVolumes
<1>2. SUFFICES /\ container' \in [state : RunnerStates, run : 0 .. MaxRuns]
               /\ container'.run = container.run
               /\ script' \in Script
               /\ script'.step = "off" <=> container'.state # "running"
               /\ live' \in [Projects -> Projects \cup {None}]
               /\ volumes' \subseteq Projects
               /\ snapshot' \subseteq Projects
  BY <1>1 DEF RunnerInv, TypeOK, RunsHappened, OneAnswerPerRun, panel
<1>3. /\ script \in Script
      /\ container \in [state : RunnerStates, run : 0 .. MaxRuns]
      /\ script.step # "off" => container.state = "running"
      /\ live \in [Projects -> Projects \cup {None}]
      /\ volumes \subseteq Projects
      /\ snapshot \subseteq Projects
      /\ file \in Content \cup {None}
  BY DEF RunnerInv, TypeOK
<1>4. CASE ReadVerb
  BY <1>3, <1>4 DEF ReadVerb, Script, Readings, Actings, Content, host
<1>5. CASE ReadProject
  BY <1>3, <1>5 DEF ReadProject, Script, Readings, Actings, Content, host
<1>6. CASE ReadRest
  <2>1. UNCHANGED <<live, volumes, snapshot>> /\ script.step = "rest"
    BY <1>6 DEF ReadRest, host
  <2>2. CASE Exit(1)
    BY <1>3, <2>1, <2>2, ExitTypes
  <2>3. CASE ~ Exit(1)
    <3> DEFINE dir == IF file = None THEN None ELSE file.dir
               next == [script EXCEPT !.step = "act", !.dir = dir]
    <3>1. dir \in Projects \cup {None}
      BY <1>3 DEF Content
    <3>2. UNCHANGED container /\ script' = next /\ script.verb # None /\ script.project # None
      BY <1>6, <2>3 DEF ReadRest
    <3> HIDE DEF dir
    <3>3. next \in Script /\ next.step = "act"
      BY <1>3, <3>1, <3>2 DEF Script, Readings, Actings
    <3> HIDE DEF next
    <3> QED
      BY <1>3, <2>1, <3>2, <3>3
  <2> QED
    BY <2>2, <2>3
<1>7. CASE Die
  BY <1>3, <1>7, ExitTypes DEF Die, host
<1>8. CASE ComposeUp
  <2> DEFINE done == [live EXCEPT ![script.project] = WorkingDir]
  <2>1. script.project \in Projects /\ script.dir \in Projects \cup {None}
    BY <1>3, <1>8 DEF ComposeUp, Script, Readings
  <2>2. done \in [Projects -> Projects \cup {None}]
    BY <1>3, <2>1 DEF WorkingDir
  <2>3. live' \in {done, live}
    BY <1>8 DEF ComposeUp, host
  <2> HIDE DEF done
  <2>4. Exit(0) \/ Exit(1)
    BY <1>8 DEF ComposeUp
  <2>5. snapshot' = snapshot
    BY <1>8 DEF ComposeUp
  <2>6. volumes' \subseteq Projects
    BY <1>3, <1>8, <2>1 DEF ComposeUp, host
  <2> QED
    BY <1>3, <2>2, <2>3, <2>4, <2>5, <2>6, ExitTypes
<1>9. CASE ComposeDown
  <2>1. live' \in [Projects -> Projects \cup {None}] /\ volumes' = volumes /\ snapshot' = snapshot
    BY <1>3, <1>9 DEF ComposeDown
  <2>2. CASE UNCHANGED container /\ script' = [script EXCEPT !.step = "volumes"]
    <3>1. script \in [step : Actings, verb : Verbs, project : Projects, dir : Projects \cup {None}]
      BY <1>3, <1>9 DEF ComposeDown, Script, Readings
    <3>2. script' \in Script /\ script'.step # "off"
      BY <2>2, <3>1 DEF Script, Actings
    <3>3. script.step # "off"
      BY <1>9 DEF ComposeDown
    <3> QED
      BY <1>3, <2>1, <2>2, <3>2, <3>3
  <2>3. CASE Exit(0) \/ Exit(1)
    BY <1>3, <2>1, <2>3, ExitTypes
  <2> QED
    BY <1>9, <2>2, <2>3 DEF ComposeDown
<1>10. CASE RemoveVolumes
  BY <1>3, <1>10, ExitTypes DEF RemoveVolumes, host
<1> QED
  BY <1>4, <1>5, <1>6, <1>7, <1>8, <1>9, <1>10 DEF RunnerScript

LEMMA RunnerStep == RunnerInv /\ [Next]_vars => RunnerInv'
<1> SUFFICES ASSUME RunnerInv, [Next]_vars PROVE RunnerInv'
  OBVIOUS
<1>1. CASE UNCHANGED vars
  BY <1>1 DEF RunnerInv, TypeOK, RunsHappened, OneAnswerPerRun, vars
<1>2. CASE Next
  <2>1. overlapped' \in BOOLEAN
    BY <1>2 DEF Next, Watch, RunnerInv, TypeOK
  <2>2. CASE Refresh
    BY <2>1, <2>2 DEF Refresh, RunnerInv, TypeOK, RunsHappened, OneAnswerPerRun, panel, host
  <2> QED
    BY <1>2, <2>1, <2>2, PanelInv, ScriptInv DEF Next
<1> QED
  BY <1>1, <1>2

\* The panel, the script and the host only ever hold what their types say.
THEOREM RunnerTypes == Spec => []TypeOK
<1>1. RunnerInv => TypeOK
  BY DEF RunnerInv
<1> QED
  BY InitRunner, RunnerStep, <1>1, PTL DEF Spec

\* dispatchRunner: of two dispatches that both found the runner free, one is
\* answered with the run and the other with an error, however many there are.
THEOREM RunsAreNotShared == Spec => []OneAnswerPerRun
<1>1. RunnerInv => OneAnswerPerRun
  BY DEF RunnerInv
<1> QED
  BY InitRunner, RunnerStep, <1>1, PTL DEF Spec

-----------------------------------------------------------------------------
LEMMA InitWhole == Init => Whole
<1> SUFFICES ASSUME Init PROVE Whole
  OBVIOUS
<1>1. \A r \in Requests : request[r].step = "idle" /\ request[r].verb = None
  BY DEF Init, Answered
<1>2. script.step = "off" /\ container.state = "idle"
  BY DEF Init, Off
<1>3. Asked /\ OnlyOne /\ Undisturbed /\ Ready
  BY <1>1, <1>2 DEF Asked, OnlyOne, Undisturbed, Ready, InDispatch, Verbs
<1>4. Filed /\ Reading /\ Acting /\ VolumesGoOnlyByName /\ RunsAtHome
  BY <1>2 DEF Init, Filed, Reading, Acting, VolumesGoOnlyByName, RunsAtHome
<1> QED
  BY <1>3, <1>4 DEF Whole, Alone

\* The names typed are never forgotten, and a request carries its own.
LEMMA NextAsked ==
  ASSUME RunnerInv, Asked, Next
  PROVE  Asked' /\ named \subseteq named'
<1> USE DEF RunnerInv, TypeOK, Asked
<1>1. CASE UNCHANGED <<request, named>>
  BY <1>1
<1>2. ASSUME NEW r \in Requests, NEW p \in Projects, NEW verb, Accept(r, verb, p),
             verb = "down-volumes" => p \in named', named \subseteq named'
      PROVE  Asked'
  BY <1>2 DEF Accept
<1>3. ASSUME NEW r \in Requests, Panel(r)
      PROVE  Asked' /\ named \subseteq named'
  <2>1. CASE \E p \in Projects : Rebuild(r, p) \/ StartRemembered(r, p)
    BY <1>2, <2>1 DEF Rebuild, StartRemembered
  <2>2. CASE \E p, typed \in Projects, withVolumes \in BOOLEAN : Remove(r, p, typed, withVolumes)
    <3>1. PICK p \in Projects, typed \in Projects, withVolumes \in BOOLEAN :
                 Remove(r, p, typed, withVolumes)
      BY <2>2
    <3>2. named \subseteq named' /\ (withVolumes => p \in named')
      BY <3>1 DEF Remove
    <3>3. Accept(r, IF withVolumes THEN "down-volumes" ELSE "down", p)
      BY <3>1 DEF Remove
    <3> QED
      BY <1>2, <3>2, <3>3
  <2>3. CASE \/ Inspect(r) \/ Resume(r) \/ writeRunnerRequest(r) \/ Start(r) \/ Finish(r)
    <3>1. UNCHANGED named
      BY <2>3 DEF Inspect, Resume, writeRunnerRequest, Start, Finish
    <3>2. \A q \in Requests : \/ request'[q].verb = None
                             \/ /\ request'[q].verb = request[q].verb
                                /\ request'[q].project = request[q].project
      BY <2>3 DEF Inspect, Resume, writeRunnerRequest, Start, Finish, Advance, Answer, Answered,
                  Request
    <3> QED
      BY <3>1, <3>2 DEF Verbs
  <2> QED
    BY <1>3, <2>1, <2>2, <2>3 DEF Panel
<1>4. CASE Refresh
  BY <1>1, <1>4 DEF Refresh, panel
<1>5. CASE RunnerScript
  BY <1>1, <1>5 DEF RunnerScript, ReadVerb, ReadProject, ReadRest, Die, ComposeUp, ComposeDown,
                    RemoveVolumes, panel
<1> QED
  BY <1>3, <1>4, <1>5 DEF Next

\* The file only ever holds a request somebody made.
LEMMA NextFiled ==
  ASSUME RunnerInv, Asked, Filed, Next
  PROVE  Filed'
<1>1. named \subseteq named'
  BY NextAsked
<1>2. CASE UNCHANGED file
  BY <1>1, <1>2 DEF Filed, Rightful
<1>3. CASE file' = None
  BY <1>3 DEF Filed
<1>4. ASSUME NEW r \in Requests, writeRunnerRequest(r)
      PROVE  Filed'
  <2>1. request[r].verb = "down-volumes" => request[r].project \in named'
    BY <1>1 DEF Asked
  <2> QED
    BY <1>4, <2>1 DEF writeRunnerRequest, Filed, Rightful
<1>5. UNCHANGED file \/ file' = None \/ \E r \in Requests : writeRunnerRequest(r)
  BY DEF Next, Panel, Rebuild, StartRemembered, Remove, Accept, Inspect, Resume, Start, Finish,
         Refresh, RunnerScript, ReadVerb, ReadProject, ReadRest, Die, ComposeUp, ComposeDown,
         RemoveVolumes, panel
<1> QED
  BY <1>2, <1>3, <1>4, <1>5

\* What Alone says of the steps of the panel.
LEMMA PanelAlone ==
  ASSUME RunnerInv, Whole, ~ overlapped, OnlyOne', named \subseteq named',
         NEW r \in Requests, Panel(r)
  PROVE  /\ Undisturbed' /\ Ready' /\ Reading' /\ Acting'
         /\ VolumesGoOnlyByName' /\ RunsAtHome'
<1>1. OnlyOne /\ Undisturbed /\ Ready /\ Reading /\ Acting /\ VolumesGoOnlyByName /\ RunsAtHome
  BY DEF Whole, Alone
<1>2. UNCHANGED host
  BY DEF Panel, Rebuild, StartRemembered, Remove, Accept, Inspect, Resume, writeRunnerRequest,
         Start, Finish
<1>3. VolumesGoOnlyByName' /\ RunsAtHome'
  BY <1>1, <1>2 DEF VolumesGoOnlyByName, RunsAtHome, host
<1>4. /\ request \in [Requests -> Request]
      /\ script.step = "off" <=> container.state # "running"
  BY DEF RunnerInv, TypeOK
<1>5. CASE UNCHANGED script
  <2>1. Acting'
    BY <1>1, <1>5 DEF Acting, Rightful
  <2>2. CASE UNCHANGED <<container, file>> /\ ~ InDispatch(r)'
    <3>1. \A q \in Requests \ {r} : request'[q] = request[q]
      BY <1>4, <2>2 DEF Panel, Rebuild, StartRemembered, Remove, Accept, Inspect, Resume,
                       writeRunnerRequest, Start, Finish, Advance, Answer
    <3>2. Undisturbed' /\ Ready'
      BY <1>1, <2>2, <3>1 DEF Undisturbed, Ready, InDispatch
    <3>3. Reading'
      BY <1>1, <1>5, <2>2 DEF Reading
    <3> QED
      BY <1>3, <2>1, <3>2, <3>3
  <2>3. CASE Inspect(r)
    <3>1. /\ request'[r].step = "seen" /\ request'[r].seen = container.state
          /\ \A q \in Requests \ {r} : request'[q] = request[q]
      BY <1>4, <2>3 DEF Inspect, Request
    <3>2. Undisturbed' /\ Ready'
      BY <1>1, <2>3, <3>1 DEF Inspect, Undisturbed, Ready, InDispatch
    <3>3. Reading'
      BY <1>1, <1>5, <2>3 DEF Inspect, Reading
    <3> QED
      BY <1>3, <2>1, <3>2, <3>3
  <2>4. CASE Resume(r) /\ InDispatch(r)'
    <3>1. InDispatch(r) /\ request[r].seen # "running" /\ UNCHANGED container
      BY <1>4, <2>4 DEF Resume, InDispatch, Answer, Answered
    <3>2. container'.state # "running" /\ script'.step = "off"
      BY <1>1, <1>4, <1>5, <3>1 DEF Undisturbed
    <3>3. request'[r].step = "writing"
      BY <1>4, <2>4, <3>1 DEF Resume, Advance, Request
    <3>4. Ready'
      BY <2>4, <3>3 DEF OnlyOne, Ready, InDispatch
    <3> QED
      BY <1>3, <2>1, <3>2, <3>4 DEF Undisturbed, Reading
  <2>5. CASE writeRunnerRequest(r)
    <3>1. InDispatch(r) /\ request[r].step # "seen" /\ UNCHANGED container
      BY <2>5 DEF writeRunnerRequest, InDispatch
    <3>2. container'.state # "running" /\ script'.step = "off"
      BY <1>1, <1>4, <1>5, <3>1 DEF Undisturbed
    <3>3. file' # None
      <4>1. /\ request[r].verb \in Verbs
            /\ request[r].project \in Projects
        BY <1>4, <2>5 DEF writeRunnerRequest, Request
      <4>2. file' \in Content
        BY <2>5, <4>1 DEF writeRunnerRequest, Content
      <4> QED
        BY <4>2, RunnerAssumption
    <3> QED
      BY <1>3, <2>1, <3>2, <3>3 DEF Undisturbed, Reading, Ready
  <2>6. CASE \E p \in Projects : \E verb : Accept(r, verb, p)
    BY <1>4, <2>2, <2>6 DEF Accept, InDispatch
  <2>7. CASE Answer(r) /\ UNCHANGED <<container, file>>
    BY <1>4, <2>2, <2>7 DEF Answer, Answered, InDispatch
  <2>8. CASE Resume(r)
    <3>1. request[r].step = "seen" /\ UNCHANGED container
      BY <2>8 DEF Resume
    <3>2. (Answer(r) /\ UNCHANGED file) \/ Advance(r, "writing")
      BY <2>8 DEF Resume
    <3>3. CASE Advance(r, "writing")
      BY <1>4, <2>4, <2>8, <3>3 DEF Advance, InDispatch, Request
    <3> QED
      BY <2>7, <3>1, <3>2, <3>3
  <2>9. CASE Start(r)
    BY <1>4, <1>5, <2>7, <2>9 DEF Start, Off, Script, Readings
  <2>10. CASE Finish(r)
    BY <2>7, <2>10 DEF Finish
  <2> QED
    BY <2>3, <2>5, <2>6, <2>8, <2>9, <2>10 DEF Panel, Rebuild, StartRemembered, Remove
<1>6. CASE Start(r) /\ container.state # "running"
  <2>1. InDispatch(r) /\ request[r].step = "start" /\ UNCHANGED file
    BY <1>6 DEF Start, InDispatch
  <2>2. script'.step = "verb" /\ file' # None
    BY <1>1, <1>6, <2>1 DEF Start, Off, Ready
  <2>3. /\ request'[r].step = "started"
        /\ \A q \in Requests \ {r} : request'[q] = request[q]
    BY <1>4, <1>6 DEF Start, Request
  <2>4. \A q \in Requests : ~ InDispatch(q)'
    BY <1>1, <2>1, <2>3 DEF OnlyOne, InDispatch
  <2> QED
    BY <1>3, <2>2, <2>4 DEF Undisturbed, Reading, Acting, Ready, InDispatch
<1> QED
  BY <1>5, <1>6 DEF Panel, Rebuild, StartRemembered, Remove, Accept, Inspect, Resume,
                    writeRunnerRequest, Start, Finish

\* What Alone says of the steps of the script.
LEMMA ScriptAlone ==
  ASSUME RunnerInv, Whole, ~ overlapped, RunnerScript
  PROVE  /\ OnlyOne' /\ Undisturbed' /\ Ready' /\ Reading' /\ Acting'
         /\ VolumesGoOnlyByName' /\ RunsAtHome'
<1>1. OnlyOne /\ Undisturbed /\ Ready /\ Reading /\ Acting /\ VolumesGoOnlyByName /\ RunsAtHome
  BY DEF Whole, Alone
<1>2. UNCHANGED panel
  BY DEF RunnerScript, ReadVerb, ReadProject, ReadRest, Die, ComposeUp, ComposeDown, RemoveVolumes
<1>3. OnlyOne' /\ Ready'
  BY <1>1, <1>2 DEF OnlyOne, Ready, InDispatch, panel
<1>4. /\ script \in Script
      /\ live \in [Projects -> Projects \cup {None}]
      /\ volumes \subseteq Projects
  BY DEF RunnerInv, TypeOK
<1>5. /\ script.step # "off"
      /\ container.state = "running"
  BY DEF RunnerScript, ReadVerb, ReadProject, ReadRest, Die, ComposeUp, ComposeDown,
         RemoveVolumes, RunnerInv, TypeOK
<1>6. UNCHANGED container => Undisturbed'
  BY <1>1, <1>2 DEF Undisturbed, InDispatch, panel
<1>7. UNCHANGED host => VolumesGoOnlyByName' /\ RunsAtHome'
  BY <1>1, <1>2 DEF VolumesGoOnlyByName, RunsAtHome, host, panel
<1>8. ASSUME NEW code \in 0 .. 1, Exit(code)
      PROVE  Undisturbed' /\ Reading' /\ Acting'
  <2>1. container'.state # "running" /\ script'.step = "off"
    BY <1>8, ExitTypes
  <2> QED
    BY <2>1 DEF Undisturbed, Reading, Acting
<1>9. CASE ReadVerb
  <2>1. UNCHANGED <<container, host>> /\ UNCHANGED file
    BY <1>9 DEF ReadVerb, panel
  <2>2. script'.step = "project" /\ script'.verb = file.verb /\ file # None
    BY <1>1, <1>4, <1>9 DEF ReadVerb, Reading, Script
  <2>3. Reading' /\ Acting'
    BY <2>1, <2>2 DEF Reading, Acting
  <2> QED
    BY <1>3, <1>6, <1>7, <2>1, <2>3
<1>10. CASE ReadProject
  <2>1. UNCHANGED <<container, host>> /\ UNCHANGED file
    BY <1>10 DEF ReadProject, panel
  <2>2. /\ script'.step = "rest" /\ file # None
        /\ script'.verb = file.verb /\ script'.project = file.project
    BY <1>1, <1>4, <1>10 DEF ReadProject, Reading, Script
  <2>3. Reading' /\ Acting'
    BY <2>1, <2>2 DEF Reading, Acting
  <2> QED
    BY <1>3, <1>6, <1>7, <2>1, <2>3
<1>11. CASE ReadRest
  <2>1. UNCHANGED host /\ UNCHANGED <<file, named>>
    BY <1>11 DEF ReadRest, panel
  <2>2. CASE Exit(1)
    BY <1>3, <1>7, <1>8, <2>1, <2>2
  <2>3. CASE ~ Exit(1)
    <3>1. file # None /\ script.verb = file.verb /\ script.project = file.project
      BY <1>1, <1>11 DEF ReadRest, Reading
    <3>2. /\ UNCHANGED container
          /\ script'.step = "act" /\ script'.dir = file.dir
          /\ script'.verb = script.verb /\ script'.project = script.project
      BY <1>4, <1>11, <2>3, <3>1 DEF ReadRest, Script
    <3>3. script'.project \in Projects
      BY <3>1, <3>2 DEF RunnerInv, TypeOK, Content
    <3>4. Rightful(script.verb, script.project, script.dir)'
      BY <2>1, <3>1, <3>2 DEF Whole, Filed, Rightful
    <3>5. Reading' /\ Acting'
      BY <3>2, <3>3, <3>4 DEF Reading, Acting, Rightful
    <3> QED
      BY <1>3, <1>6, <1>7, <2>1, <3>2, <3>5
  <2> QED
    BY <2>2, <2>3
<1>12. CASE Die
  BY <1>3, <1>7, <1>8, <1>12 DEF Die
<1>13. CASE ComposeUp
  <2>1. /\ script.project \in Projects
        /\ script.dir \in {None, script.project}
    BY <1>1, <1>13 DEF ComposeUp, Acting, Rightful
  <2>2. WorkingDir = script.project
    <3>1. live[script.project] \in {None, script.project}
      BY <1>1, <2>1 DEF RunsAtHome
    <3> QED
      BY <1>13, <2>1, <3>1 DEF ComposeUp, Runnable, WorkingDir
  <2>3. \/ UNCHANGED host
        \/ /\ live' = [live EXCEPT ![script.project] = script.project]
           /\ volumes' = volumes \cup {script.project}
    BY <1>13, <2>2 DEF ComposeUp
  <2>4. VolumesGoOnlyByName' /\ RunsAtHome'
    BY <1>1, <1>2, <1>4, <1>7, <2>1, <2>3 DEF VolumesGoOnlyByName, RunsAtHome, panel
  <2>5. Exit(0) \/ Exit(1)
    BY <1>13 DEF ComposeUp
  <2> QED
    BY <1>3, <1>8, <2>4, <2>5
<1>14. CASE ComposeDown
  <2>1. script.step = "act" /\ script.project \in Projects
    BY <1>1, <1>14 DEF ComposeDown, Acting
  <2>2. UNCHANGED volumes /\ live' \in {live, [live EXCEPT ![script.project] = None]}
    BY <1>14 DEF ComposeDown
  <2>3. VolumesGoOnlyByName' /\ RunsAtHome'
    BY <1>1, <1>2, <1>4, <2>1, <2>2 DEF VolumesGoOnlyByName, RunsAtHome, panel
  <2>4. CASE Exit(0) \/ Exit(1)
    BY <1>3, <1>8, <2>3, <2>4
  <2>5. CASE /\ script.verb = "down-volumes" /\ UNCHANGED container
             /\ script' = [script EXCEPT !.step = "volumes"]
    <3>1. /\ script'.step = "volumes" /\ script'.verb = script.verb
          /\ script'.project = script.project /\ script'.dir = script.dir
      BY <1>4, <2>5 DEF Script
    <3>2. Rightful(script.verb, script.project, script.dir)'
      BY <1>1, <1>2, <2>1, <3>1 DEF Acting, Rightful, panel
    <3>3. Reading' /\ Acting'
      BY <2>1, <2>5, <3>1, <3>2 DEF Reading, Acting, Rightful
    <3> QED
      BY <1>3, <1>6, <2>3, <2>5, <3>3
  <2> QED
    BY <1>14, <2>4, <2>5 DEF ComposeDown
<1>15. CASE RemoveVolumes
  <2>1. script.project \in named
    BY <1>1, <1>15 DEF RemoveVolumes, Acting, Rightful
  <2>2. UNCHANGED live /\ volumes' \in {volumes, volumes \ {script.project}}
    BY <1>15 DEF RemoveVolumes
  <2>3. VolumesGoOnlyByName' /\ RunsAtHome'
    BY <1>1, <1>2, <2>1, <2>2 DEF VolumesGoOnlyByName, RunsAtHome, panel
  <2>4. Exit(0) \/ Exit(1)
    BY <1>15 DEF RemoveVolumes
  <2> QED
    BY <1>3, <1>8, <2>3, <2>4
<1> QED
  BY <1>9, <1>10, <1>11, <1>12, <1>13, <1>14, <1>15 DEF RunnerScript

LEMMA NextWhole == RunnerInv /\ Whole /\ [Next]_vars => Whole'
<1> SUFFICES ASSUME RunnerInv, Whole, [Next]_vars PROVE Whole'
  OBVIOUS
<1>1. CASE UNCHANGED vars
  BY <1>1 DEF Whole, Asked, Filed, Rightful, Alone, OnlyOne, Undisturbed, Ready, Reading, Acting,
              VolumesGoOnlyByName, RunsAtHome, InDispatch, vars
<1>2. CASE Next
  <2>1. Asked' /\ named \subseteq named' /\ Filed'
    BY <1>2, NextAsked, NextFiled DEF Whole
  <2>2. SUFFICES ASSUME ~ overlapped'
                 PROVE  /\ OnlyOne' /\ Undisturbed' /\ Ready' /\ Reading' /\ Acting'
                        /\ VolumesGoOnlyByName' /\ RunsAtHome'
    BY <2>1 DEF Whole, Alone
  <2>3. ~ overlapped /\ OnlyOne'
    BY <1>2, <2>2 DEF Next, Watch, OnlyOne
  <2>4. CASE Refresh
    BY <2>3, <2>4 DEF Refresh, Whole, Alone, OnlyOne, Undisturbed, Ready, Reading, Acting,
                      Rightful, VolumesGoOnlyByName, RunsAtHome, InDispatch, panel, host
  <2> QED
    BY <1>2, <2>1, <2>3, <2>4, PanelAlone, ScriptAlone DEF Next
<1> QED
  BY <1>1, <1>2

\* dispatchRunner and runner-exec.sh: as long as no two dispatches were in
\* flight together, the script acts on one whole request, so it destroys data
\* only for a project whose name was typed back and runs each in its own place.
THEOREM DispatchedAlone == Spec => []AloneItDoesWhatWasAsked
<1>1. Whole => AloneItDoesWhatWasAsked
  BY DEF Whole, Alone, AloneItDoesWhatWasAsked
<1> QED
  BY InitRunner, RunnerStep, InitWhole, NextWhole, <1>1, PTL DEF Spec

-----------------------------------------------------------------------------
(***************************************************************************)
(* Accounts.  The types hold, there is at most one owner, and ownership    *)
(* moves by its holder alone.                                              *)
(*                                                                         *)
(* Both safety results rest on the unique index and on nothing a request   *)
(* remembers: every write goes through Stored, whatever the session and    *)
(* the rule saw before it.  AccountsTypeOK is inductive as it stands,      *)
(* because a call in flight is typed by its verb.                          *)
(***************************************************************************)
USE DEF Nothing

AccountsInv == AccountsTypeOK /\ OneOwner

LEMMA InitAccounts == AccountsInit => AccountsInv
  BY DEF AccountsInit, AccountsInv, AccountsTypeOK, OneOwner, UniqueOwner, Roles

\* The index lets a table through only if it has at most one owner.
LEMMA StoredInv ==
  ASSUME AccountsInv, NEW next \in [People -> Roles \cup {Nothing}], Stored(next)
  PROVE  /\ role' \in [People -> Roles \cup {Nothing}]
         /\ OneOwner'
         /\ role' \in {role, next}
  BY DEF AccountsInv, AccountsTypeOK, OneOwner, UniqueOwner, Stored

\* A rule only puts a call in flight.
LEMMA RuleInv ==
  ASSUME AccountsInv, NEW r \in Slots, Rule(r)
  PROVE  AccountsInv'
<1>1. ASSUME NEW verb, NEW p \in People, NEW to, Take(r, verb, p, to), Call(verb, p, to) \in Calls
      PROVE  AccountsInv'
  <2> DEFINE taken == Call(verb, p, to)
  <2>1. taken \in Calls /\ call' = [call EXCEPT ![r] = taken]
    BY <1>1 DEF Take
  <2> HIDE DEF taken
  <2> QED
    BY <1>1, <2>1 DEF Take, AccountsInv, AccountsTypeOK, OneOwner, UniqueOwner
<1>2. PICK p \in People :
        \/ bootstrapOwner(r, p)
        \/ \E by \in People :
             \/ \E to \in Roles : create(r, by, p, to) \/ setRole(r, by, p, to)
             \/ \E verb \in {"ban", "unban"} : setBan(r, by, p, verb)
             \/ remove(r, by, p)
  BY DEF Rule
<1>3. CASE bootstrapOwner(r, p)
  BY <1>1, <1>3 DEF bootstrapOwner, Call, Calls
<1>4. ASSUME NEW by \in People, NEW to \in Roles, create(r, by, p, to) \/ setRole(r, by, p, to)
      PROVE  AccountsInv'
  <2>1. to # "owner"
    BY <1>4 DEF create, setRole, refusalForRoleChange
  <2> QED
    BY <1>1, <1>4, <2>1 DEF create, setRole, Call, Calls
<1>5. ASSUME NEW by \in People, NEW verb \in {"ban", "unban"}, setBan(r, by, p, verb)
      PROVE  AccountsInv'
  BY <1>1, <1>5 DEF setBan, Call, Calls
<1>6. ASSUME NEW by \in People, remove(r, by, p)
      PROVE  AccountsInv'
  BY <1>1, <1>6 DEF remove, Call, Calls
<1> QED
  BY <1>2, <1>3, <1>4, <1>5, <1>6

LEMMA LibraryInv ==
  ASSUME AccountsInv, NEW r \in Slots, Library(r)
  PROVE  AccountsInv'
<1>1. Returned(r) /\ UNCHANGED session
  BY DEF Library, Refuse, AddUser, UpdateRole, UpdateBan, DeleteUser
<1>2. call' \in [Slots -> Calls \cup {Idle}]
  BY <1>1 DEF Returned, AccountsInv, AccountsTypeOK
<1>3. /\ role \in [People -> Roles \cup {Nothing}]
      /\ banned \subseteq {p \in People : role[p] # Nothing}
      /\ call[r] \in Calls \cup {Idle}
  BY DEF AccountsInv, AccountsTypeOK
<1>4. CASE UNCHANGED <<role, banned>>
  BY <1>1, <1>2, <1>4 DEF AccountsInv, AccountsTypeOK, OneOwner, UniqueOwner
<1>5. CASE (AddUser(r) \/ UpdateRole(r)) /\ ~ UNCHANGED role
  <2> DEFINE next == [role EXCEPT ![call[r].on] = call[r].to]
  <2>1. call[r].on \in People /\ call[r].to \in Roles
    BY <1>3, <1>5 DEF AddUser, UpdateRole, Calls, Idle, Call, Roles, UserVerbs
  <2>2. next \in [People -> Roles \cup {Nothing}] /\ \A p \in People : role[p] # Nothing => next[p] # Nothing
    BY <1>3, <2>1 DEF Roles
  <2>3. Stored(next) /\ UNCHANGED banned
    BY <1>5 DEF AddUser, UpdateRole
  <2> HIDE DEF next
  <2>4. OneOwner' /\ role' \in [People -> Roles \cup {Nothing}] /\ role' \in {role, next}
    BY <2>2, <2>3, StoredInv
  <2> QED
    BY <1>1, <1>2, <1>3, <2>2, <2>3, <2>4 DEF AccountsInv, AccountsTypeOK
<1>6. CASE UpdateBan(r)
  <2>1. UNCHANGED role /\ banned' \subseteq {p \in People : role[p] # Nothing}
    <3>1. call[r].on \in People
      BY <1>3, <1>6 DEF UpdateBan, Calls, Idle, Call, UserVerbs
    <3> QED
      BY <1>3, <1>6, <3>1 DEF UpdateBan
  <2> QED
    BY <1>1, <1>2, <1>3, <2>1 DEF AccountsInv, AccountsTypeOK, OneOwner, UniqueOwner
<1>7. CASE DeleteUser(r)
  <2> DEFINE next == [role EXCEPT ![call[r].on] = Nothing]
  <2>1. next \in [People -> Roles \cup {Nothing}]
        /\ \A p \in People : role[p] # Nothing /\ p # call[r].on => next[p] # Nothing
    BY <1>3
  <2>2. Stored(next) /\ banned' = banned \ {call[r].on}
    BY <1>7 DEF DeleteUser
  <2> HIDE DEF next
  <2>3. OneOwner' /\ role' \in [People -> Roles \cup {Nothing}] /\ role' \in {role, next}
    BY <2>1, <2>2, StoredInv
  <2> QED
    BY <1>1, <1>2, <1>3, <2>1, <2>2, <2>3 DEF AccountsInv, AccountsTypeOK
<1> QED
  BY <1>4, <1>5, <1>6, <1>7 DEF Library, Refuse, AddUser, UpdateRole

LEMMA TransferInv ==
  ASSUME AccountsInv, NEW by \in People, NEW p \in People, transferOwnership(by, p)
  PROVE  AccountsInv'
<1> DEFINE next == [q \in People |-> CASE q = p -> "owner"
                                       [] q = by /\ by # p /\ role[by] # Nothing -> "admin"
                                       [] OTHER -> role[q]]
<1>1. /\ role \in [People -> Roles \cup {Nothing}]
      /\ banned \subseteq {q \in People : role[q] # Nothing}
  BY DEF AccountsInv, AccountsTypeOK
<1>2. next \in [People -> Roles \cup {Nothing}]
  BY <1>1 DEF Roles
<1>3. \A q \in People : role[q] # Nothing => next[q] # Nothing
  BY <1>1 DEF Roles
<1>4. Stored(next) /\ UNCHANGED <<banned, session, call>>
  BY DEF transferOwnership
<1> HIDE DEF next
<1>5. OneOwner' /\ role' \in [People -> Roles \cup {Nothing}] /\ role' \in {role, next}
  BY <1>2, <1>4, StoredInv
<1> QED
  BY <1>1, <1>3, <1>4, <1>5 DEF AccountsInv, AccountsTypeOK

LEMMA AccountsStep == AccountsInv /\ [AccountsNext]_accountVars => AccountsInv'
<1> SUFFICES ASSUME AccountsInv, [AccountsNext]_accountVars PROVE AccountsInv'
  OBVIOUS
<1>1. CASE UNCHANGED accountVars
  BY <1>1 DEF AccountsInv, AccountsTypeOK, OneOwner, UniqueOwner, accountVars
<1>2. ASSUME NEW p \in People, RefreshSession(p)
      PROVE  AccountsInv'
  BY <1>2 DEF RefreshSession, AccountsInv, AccountsTypeOK, OneOwner, UniqueOwner
<1> QED
  BY <1>1, <1>2, RuleInv, LibraryInv, TransferInv DEF AccountsNext

\* The users table, the cookies and the calls in flight hold what their types
\* say: only accounts that exist are banned, and only a setup makes an owner.
THEOREM AccountsTypes == AccountsSpec => []AccountsTypeOK
<1>1. AccountsInv => AccountsTypeOK
  BY DEF AccountsInv
<1> QED
  BY InitAccounts, AccountsStep, <1>1, PTL DEF AccountsSpec

\* users_single_owner: however many setups, assignments and transfers race,
\* the table never has two owners.
THEOREM OwnerIsUnique == AccountsSpec => []OneOwner
<1>1. AccountsInv => OneOwner
  BY DEF AccountsInv
<1> QED
  BY InitAccounts, AccountsStep, <1>1, PTL DEF AccountsSpec

\* A step that gives ownership from one person to another is a transfer by the
\* one who holds it: of any other transfer the index refuses the second owner.
LEMMA StepsMoveByHolder ==
  ASSUME AccountsInv, [AccountsNext]_accountVars, NEW p \in People, NEW q \in People,
         p # q, role[p] = "owner", role'[q] = "owner"
  PROVE  session[p] = "owner" /\ role'[p] = "admin"
<1>1. role'[p] # "owner"
  BY AccountsStep DEF AccountsInv, OneOwner, UniqueOwner
<1>2. role[q] # "owner"
  BY DEF AccountsInv, OneOwner, UniqueOwner
<1>3. role \in [People -> Roles \cup {Nothing}]
  BY DEF AccountsInv, AccountsTypeOK
<1>4. ~ UNCHANGED role
  BY <1>2
<1>5. ASSUME NEW r \in Slots, AddUser(r) \/ UpdateRole(r) \/ DeleteUser(r)
      PROVE  FALSE
  <2>1. \E on, to : role' = [role EXCEPT ![on] = to]
    BY <1>4, <1>5 DEF AddUser, UpdateRole, DeleteUser, Stored
  <2> QED
    BY <1>1, <1>2, <1>3, <2>1
<1>6. ASSUME NEW by \in People, NEW on \in People, transferOwnership(by, on)
      PROVE  session[p] = "owner" /\ role'[p] = "admin"
  <2> DEFINE next == [s \in People |-> CASE s = on -> "owner"
                                         [] s = by /\ by # on /\ role[by] # Nothing -> "admin"
                                         [] OTHER -> role[s]]
  <2>1. role' = next
    BY <1>4, <1>6 DEF transferOwnership, Stored
  <2>2. p = by
    BY <1>1, <1>3, <2>1
  <2>3. role'[p] = "admin"
    BY <1>1, <1>3, <2>1, <2>2
  <2> QED
    BY <1>6, <2>2, <2>3 DEF transferOwnership, refusalForTransfer
<1>7. \/ \E r \in Slots : AddUser(r) \/ UpdateRole(r) \/ DeleteUser(r)
      \/ \E by, on \in People : transferOwnership(by, on)
  BY <1>4 DEF AccountsNext, Rule, bootstrapOwner, create, setRole, setBan, remove, Take, Library, Refuse,
              UpdateBan, RefreshSession, accountVars
<1> QED
  BY <1>5, <1>6, <1>7

\* transferOwnership: ownership never passes from one person to another but by
\* the hand of its holder, stale sessions included.
THEOREM OwnershipIsHandedOver == AccountsSpec => OwnershipMovesByItsHolder
<1>1. AccountsInv /\ [AccountsNext]_accountVars =>
        [\A p, q \in People :
           p # q /\ role[p] = "owner" /\ role'[q] = "owner" =>
             session[p] = "owner" /\ role'[p] = "admin"]_accountVars
  BY StepsMoveByHolder
<1> QED
  BY InitAccounts, AccountsStep, <1>1, PTL DEF AccountsSpec, OwnershipMovesByItsHolder

-----------------------------------------------------------------------------
(***************************************************************************)
(* Memberships.  The types hold, with the reference of a row to its        *)
(* account; a list that nobody raced is the whole of what the account      *)
(* reaches; and an administrator is left with no row.                      *)
(*                                                                         *)
(* A request that is alone knows the rows from its read to its end: those  *)
(* it held before the insert, those and the wanted after it.  That, and    *)
(* that an administrator has rows only while somebody is about to clear    *)
(* them, is the inductive invariant; the types alone need that what is     *)
(* written as a role is one.                                               *)
(***************************************************************************)

\* What a request asks follows from the step it is at.
WellAsked(c) ==
  /\ c.step \in {"create", "write", "clear"} => c.to \in MemberRoles
  /\ c.step \in {"write", "clear"} => c.wanted = {}

\* What a request that is alone knows of the account.
Knows(c) ==
  /\ c.step \in {"read", "insert", "delete"} => memberRole = "developer"
  /\ c.step = "insert" => member = c.held
  /\ c.step = "delete" => member = c.held \cup c.wanted

Undisputed ==
  undisturbed =>
    /\ \A q, r \in UnderWay : q = r
    /\ \A r \in UnderWay : Knows(change[r])
    /\ memberRole = "admin" /\ member # {} => \E r \in UnderWay : change[r].step = "clear"

MembershipsInv ==
  /\ MembershipsTypeOK
  /\ \A r \in Changes : WellAsked(change[r])
  /\ Undisputed

LEMMA InitMemberships == MembershipsInit => MembershipsInv
BY DEF MembershipsInit, MembershipsInv, MembershipsTypeOK, WellAsked, Undisputed, UnderWay,
       Change, ChangeSteps, MemberRoles, NoRole

\* A request that takes a step, alone or not: the rest of what is under way is as it was.
LEMMA ChangeGoes ==
  ASSUME MembershipsInv, NEW r \in UnderWay, NEW to \in Change, WellAsked(to), to.step # "new",
         change' = [change EXCEPT ![r] = to],
         memberRole' \in MemberRoles \cup {NoRole}, member' \subseteq Grantable,
         memberRole' = NoRole => member' = {},
         undisturbed' \in BOOLEAN,
         undisturbed' =>
           /\ undisturbed
           /\ to.step \notin {"done", "failed"} => Knows(to)'
           /\ memberRole' = "admin" /\ member' # {} => to.step = "clear"
  PROVE  MembershipsInv'
<1>0. r \in Changes /\ change \in [Changes -> Change]
  BY DEF MembershipsInv, MembershipsTypeOK, UnderWay
<1>1. change' \in [Changes -> Change] /\ change'[r] = to /\ \A q \in Changes : q # r => change'[q] = change[q]
  BY <1>0
<1>2. MembershipsTypeOK'
  BY <1>1 DEF MembershipsTypeOK
<1>3. \A q \in Changes : WellAsked(change'[q])
  BY <1>1 DEF MembershipsInv
<1>4. ASSUME undisturbed'
      PROVE  /\ \A q \in UnderWay' : q = r
             /\ \A q \in UnderWay' : Knows(change[q])'
             /\ (memberRole = "admin" /\ member # {} => \E q \in UnderWay : change[q].step = "clear")'
  <2>1. \A q \in UnderWay : q = r
    BY <1>4 DEF MembershipsInv, Undisputed
  <2>2. \A q \in UnderWay' : q = r
    BY <1>1, <2>1 DEF UnderWay
  <2>3. r \in UnderWay' <=> to.step \notin {"done", "failed"}
    BY <1>0, <1>1 DEF UnderWay
  <2>4. \A q \in UnderWay' : Knows(change[q])'
    BY <1>1, <1>4, <2>2, <2>3 DEF Knows
  <2> QED
    BY <1>1, <1>4, <2>2, <2>3, <2>4
<1> QED
  BY <1>2, <1>3, <1>4 DEF MembershipsInv, Undisputed, WellAsked

USE DEF NoRole

LEMMA ArriveInv ==
  ASSUME MembershipsInv, NEW r \in Changes, NEW to \in MemberRoles \cup {NoRole},
         NEW wanted \in SUBSET Grantable, NEW step \in {"ask", "create", "write"},
         step # "ask" => to \in MemberRoles, step = "write" => wanted = {},
         Arrive(r, to, wanted, step)
  PROVE  MembershipsInv'
<1> DEFINE new == [to |-> to, wanted |-> wanted, held |-> {}, step |-> step]
<1>1. new \in Change /\ WellAsked(new) /\ new.step = step
  BY DEF Change, ChangeSteps, WellAsked
<1>2. change' = [change EXCEPT ![r] = new]
  BY DEF Arrive
<1> HIDE DEF new
<1>3. change \in [Changes -> Change]
  BY DEF MembershipsInv, MembershipsTypeOK
<1>4. change' \in [Changes -> Change] /\ change'[r] = new /\ \A q \in Changes : q # r => change'[q] = change[q]
  BY <1>1, <1>2, <1>3
<1>5. MembershipsTypeOK'
  BY <1>4 DEF MembershipsInv, MembershipsTypeOK, Arrive
<1>6. \A q \in Changes : WellAsked(change'[q])
  BY <1>1, <1>4 DEF MembershipsInv
<1>7. ASSUME undisturbed' PROVE Undisputed'
  <2>1. undisturbed /\ UnderWay = {} /\ UNCHANGED <<memberRole, member>>
    BY <1>7 DEF Arrive, MembershipsInv, MembershipsTypeOK
  <2>2. \A q \in UnderWay' : q = r
    BY <1>4, <2>1 DEF UnderWay
  <2>3. Knows(new)'
    BY <1>1 DEF Knows
  <2>4. ~(memberRole' = "admin" /\ member' # {})
    BY <2>1 DEF MembershipsInv, Undisputed
  <2> QED
    BY <1>4, <2>2, <2>3, <2>4 DEF Undisputed, Knows
<1> QED
  BY <1>5, <1>6, <1>7 DEF MembershipsInv, Undisputed, WellAsked

\* What a request asks stays; what it holds and where it is at change.
Stepped(r, held, step) ==
  \E to \in Change :
    /\ to.to = change[r].to /\ to.wanted = change[r].wanted /\ to.held = held /\ to.step = step
    /\ change' = [change EXCEPT ![r] = to]

LEMMA StepInv ==
  ASSUME MembershipsInv, NEW r \in UnderWay, NEW step \in ChangeSteps \ {"new"},
         NEW held \in SUBSET Grantable, Stepped(r, held, step),
         step \in {"create", "write", "clear"} => change[r].to \in MemberRoles,
         step \in {"write", "clear"} => change[r].wanted = {},
         memberRole' \in MemberRoles \cup {NoRole}, member' \subseteq Grantable,
         memberRole' = NoRole => member' = {},
         undisturbed' \in BOOLEAN,
         undisturbed' =>
           /\ undisturbed
           /\ step \in {"read", "insert", "delete"} => memberRole' = "developer"
           /\ step = "insert" => member' = held
           /\ step = "delete" => member' = held \cup change[r].wanted
           /\ memberRole' = "admin" /\ member' # {} => step = "clear"
  PROVE  MembershipsInv'
<1>1. PICK to \in Change :
        /\ to.to = change[r].to /\ to.wanted = change[r].wanted /\ to.held = held /\ to.step = step
        /\ change' = [change EXCEPT ![r] = to]
  BY DEF Stepped
<1>2. WellAsked(to) /\ to.step # "new"
  BY <1>1 DEF WellAsked
<1>3. undisturbed' => Knows(to)'
  BY <1>1 DEF Knows
<1> QED
  BY <1>1, <1>2, <1>3, ChangeGoes

\* Goes changes the step alone.
LEMMA GoesOnly ==
  ASSUME MembershipsInv, NEW r \in UnderWay, NEW step \in ChangeSteps, Goes(r, step)
  PROVE  change[r].held \in SUBSET Grantable /\ Stepped(r, change[r].held, step)
<1>1. r \in Changes /\ change[r] \in Change
  BY DEF MembershipsInv, MembershipsTypeOK, UnderWay
<1>2. PICK to : to = [change[r] EXCEPT !.step = step]
  OBVIOUS
<1>3. /\ to \in Change /\ to.to = change[r].to /\ to.wanted = change[r].wanted
      /\ to.held = change[r].held /\ to.step = step
  BY <1>1, <1>2 DEF Change
<1>4. change' = [change EXCEPT ![r] = to]
  BY <1>2 DEF Goes
<1> QED
  BY <1>1, <1>3, <1>4 DEF Stepped, Change

\* The account and its rows, and what a request that is alone knows of them.
LEMMA Known ==
  ASSUME MembershipsInv, NEW r \in UnderWay
  PROVE  /\ r \in Changes /\ change[r] \in Change /\ WellAsked(change[r])
         /\ memberRole \in MemberRoles \cup {NoRole} /\ member \subseteq Grantable
         /\ undisturbed \in BOOLEAN
         /\ memberRole = NoRole => member = {}
         /\ undisturbed => /\ Knows(change[r])
                           /\ memberRole = "admin" /\ member # {} => change[r].step = "clear"
BY DEF MembershipsInv, MembershipsTypeOK, Undisputed, UnderWay

LEMMA SetProjectsInv ==
  ASSUME MembershipsInv, NEW r \in UnderWay, Ask(r) \/ Read(r) \/ Insert(r) \/ Delete(r)
  PROVE  MembershipsInv'
<1> USE Known
<1>1. CASE Ask(r)
  <2> DEFINE step == IF memberRole = "developer" THEN "read" ELSE "failed"
  <2>1. Goes(r, step) /\ step \in ChangeSteps \ {"new"} /\ UNCHANGED <<memberRole, member, undisturbed>>
    BY <1>1 DEF Ask, ChangeSteps
  <2>2. /\ step \in {"read", "insert", "delete"} => memberRole = "developer"
        /\ step \notin {"create", "write", "clear", "insert", "delete"}
        /\ change[r].step = "ask"
    BY <1>1 DEF Ask
  <2> HIDE DEF step
  <2> QED
    BY <2>1, <2>2, GoesOnly, StepInv
<1>2. CASE Read(r)
  <2>1. PICK to : to = [change[r] EXCEPT !.held = member, !.step = "insert"]
    OBVIOUS
  <2>2. /\ to \in Change /\ to.to = change[r].to /\ to.wanted = change[r].wanted
        /\ to.held = member /\ to.step = "insert"
    BY <2>1, Known DEF Change, ChangeSteps
  <2>3. change' = [change EXCEPT ![r] = to] /\ UNCHANGED <<memberRole, member, undisturbed>>
    BY <1>2, <2>1, Known DEF Read, MembershipsInv, MembershipsTypeOK
  <2>4. Stepped(r, member, "insert")
    BY <2>2, <2>3 DEF Stepped
  <2>5. undisturbed => memberRole = "developer"
    BY <1>2, Known DEF Read, Knows
  <2>6. "insert" \in ChangeSteps \ {"new"}
    BY DEF ChangeSteps
  <2> QED
    BY <2>3, <2>4, <2>5, <2>6, Known, StepInv
<1>3. CASE Insert(r)
  <2> DEFINE added == change[r].wanted \ change[r].held
  <2>1. CASE added # {} /\ (memberRole = NoRole \/ added \cap member # {})
    <3>1. Goes(r, "failed") /\ UNCHANGED <<memberRole, member, undisturbed>> /\ change[r].step = "insert"
      BY <1>3, <2>1 DEF Insert
    <3> QED
      BY <3>1, GoesOnly, StepInv DEF ChangeSteps
  <2>2. CASE ~(added # {} /\ (memberRole = NoRole \/ added \cap member # {}))
    <3>1. Goes(r, "delete") /\ member' = member \cup added /\ UNCHANGED <<memberRole, undisturbed>>
          /\ change[r].step = "insert"
      BY <1>3, <2>2 DEF Insert
    <3>2. member' \subseteq Grantable /\ (memberRole = NoRole => member' = {})
      BY <2>2, <3>1 DEF Change
    <3>3. undisturbed => member' = change[r].held \cup change[r].wanted
      BY <3>1 DEF Knows
    <3>4. undisturbed => memberRole = "developer"
      BY <3>1 DEF Knows
    <3> QED
      BY <3>1, <3>2, <3>3, <3>4, GoesOnly, StepInv DEF ChangeSteps
  <2> QED
    BY <2>1, <2>2
<1>4. CASE Delete(r)
  <2>1. Goes(r, "done") /\ member' \subseteq member /\ UNCHANGED <<memberRole, undisturbed>>
        /\ change[r].step = "delete"
    BY <1>4 DEF Delete
  <2> QED
    BY <2>1, GoesOnly, StepInv DEF ChangeSteps, Knows
<1> QED
  BY <1>1, <1>2, <1>3, <1>4

LEMMA RoleInv ==
  ASSUME MembershipsInv, NEW r \in UnderWay, Create(r) \/ Write(r) \/ Clear(r) \/ Cut(r)
  PROVE  MembershipsInv'
<1> USE Known
<1>1. CASE Create(r) /\ memberRole = NoRole
  <2> DEFINE step == IF change[r].wanted = {} THEN "done" ELSE "ask"
  <2>1. /\ Goes(r, step) /\ step \in ChangeSteps \ {"new"} /\ UNCHANGED <<member, undisturbed>>
        /\ memberRole' = change[r].to /\ change[r].step = "create"
    BY <1>1 DEF Create, ChangeSteps
  <2>2. memberRole' \in MemberRoles /\ member' = {}
    BY <1>1, <2>1 DEF WellAsked
  <2>3. step \in {"done", "ask"}
    OBVIOUS
  <2> HIDE DEF step
  <2> QED
    BY <2>1, <2>2, <2>3, GoesOnly, StepInv DEF MemberRoles
<1>2. CASE Create(r) /\ memberRole # NoRole
  <2>1. Goes(r, "failed") /\ UNCHANGED <<memberRole, member, undisturbed>> /\ change[r].step = "create"
    BY <1>2 DEF Create
  <2> QED
    BY <2>1, GoesOnly, StepInv DEF ChangeSteps
<1>3. CASE Write(r) /\ memberRole = NoRole
  <2>1. Goes(r, "failed") /\ UNCHANGED <<memberRole, member, undisturbed>> /\ change[r].step = "write"
    BY <1>3 DEF Write
  <2> QED
    BY <2>1, GoesOnly, StepInv DEF ChangeSteps
<1>4. CASE Write(r) /\ memberRole # NoRole
  <2> DEFINE step == IF change[r].to = "admin" THEN "clear" ELSE "done"
  <2>1. /\ Goes(r, step) /\ step \in ChangeSteps \ {"new"} /\ UNCHANGED <<member, undisturbed>>
        /\ memberRole' = change[r].to /\ change[r].step = "write"
    BY <1>4 DEF Write, ChangeSteps
  <2>2. memberRole' \in MemberRoles /\ memberRole' # NoRole /\ change[r].wanted = {} /\ change[r].to \in MemberRoles
    BY <2>1 DEF WellAsked, MemberRoles
  <2>3. step \in {"done", "clear"} /\ (memberRole' = "admin" => step = "clear")
    BY <2>1
  <2> HIDE DEF step
  <2> QED
    BY <2>1, <2>2, <2>3, GoesOnly, StepInv
<1>5. CASE Clear(r)
  <2>1. Goes(r, "done") /\ member' = {} /\ UNCHANGED <<memberRole, undisturbed>> /\ change[r].step = "clear"
    BY <1>5 DEF Clear
  <2> QED
    BY <2>1, GoesOnly, StepInv DEF ChangeSteps
<1>6. CASE Cut(r)
  <2>1. Goes(r, "failed") /\ UNCHANGED <<memberRole, member>> /\ ~undisturbed' /\ undisturbed' \in BOOLEAN
    BY <1>6 DEF Cut
  <2> QED
    BY <2>1, GoesOnly, StepInv DEF ChangeSteps
<1> QED
  BY <1>1, <1>2, <1>3, <1>4, <1>5, <1>6

LEMMA RemoveAccountInv ==
  ASSUME MembershipsInv, RemoveAccount
  PROVE  MembershipsInv'
BY DEF RemoveAccount, MembershipsInv, MembershipsTypeOK, Undisputed, UnderWay, WellAsked

\* Whoever takes a step is under way.
LEMMA ActsUnderWay ==
  ASSUME NEW r \in Changes,
         \/ Ask(r) \/ Read(r) \/ Insert(r) \/ Delete(r)
         \/ Create(r) \/ Write(r) \/ Clear(r) \/ Cut(r)
  PROVE  r \in UnderWay
BY DEF UnderWay, Ask, Read, Insert, Delete, Create, Write, Clear, Cut

LEMMA MembershipsStep == MembershipsInv /\ [MembershipsNext]_memberVars => MembershipsInv'
<1> SUFFICES ASSUME MembershipsInv, [MembershipsNext]_memberVars PROVE MembershipsInv'
  OBVIOUS
<1>1. CASE UNCHANGED memberVars
  BY <1>1 DEF memberVars, MembershipsInv, MembershipsTypeOK, Undisputed, UnderWay, WellAsked, Knows
<1>2. ASSUME NEW r \in Changes, NEW wanted \in SUBSET Grantable, Arrive(r, NoRole, wanted, "ask")
      PROVE  MembershipsInv'
  BY <1>2, ArriveInv
<1>3. ASSUME NEW r \in Changes, NEW wanted \in SUBSET Grantable, NEW to \in MemberRoles,
             Arrive(r, to, wanted, "create")
      PROVE  MembershipsInv'
  BY <1>3, ArriveInv
<1>4. ASSUME NEW r \in Changes, NEW to \in MemberRoles, Arrive(r, to, {}, "write")
      PROVE  MembershipsInv'
  BY <1>4, ArriveInv
<1> QED
  BY <1>1, <1>2, <1>3, <1>4, ActsUnderWay, SetProjectsInv, RoleInv, RemoveAccountInv DEF MembershipsNext

\* project_members references the account: whatever races its removal, no row is
\* left without one, and a request holds what its types say.
THEOREM MembershipsTypes == MembershipsSpec => []MembershipsTypeOK
<1>1. MembershipsInv => MembershipsTypeOK
  BY DEF MembershipsInv
<1> QED
  BY InitMemberships, MembershipsStep, <1>1, PTL DEF MembershipsSpec

\* setRole: when requests come one after the other and none is cut off, a role that
\* sees every Project is left with no row, whatever the account held before.
THEOREM AdministratorsHoldNone == MembershipsSpec => []AloneAdministratorsHoldNone
<1>1. MembershipsInv => AloneAdministratorsHoldNone
  BY DEF MembershipsInv, Undisputed, AloneAdministratorsHoldNone
<1> QED
  BY InitMemberships, MembershipsStep, <1>1, PTL DEF MembershipsSpec

\* What a list that nobody raced leaves: what it held and what it added, but for
\* what is no longer wanted.
LEMMA AnsweredListIsWhole ==
  ASSUME MembershipsInv, [MembershipsNext]_memberVars, NEW r \in Changes,
         undisturbed, change[r].step # "done", change'[r].step = "done",
         change[r].to = NoRole \/ change[r].wanted # {}
  PROVE  member' = change[r].wanted
<1>1. change \in [Changes -> Change]
  BY DEF MembershipsInv, MembershipsTypeOK
<1>4. CASE Delete(r)
  <2>1. Knows(change[r]) /\ change[r].step = "delete"
    BY <1>4, ActsUnderWay, Known DEF Delete
  <2> QED
    BY <1>4, <2>1 DEF Knows, Delete
<1>5. CASE Create(r) \/ Write(r) \/ Clear(r)
  <2>1. WellAsked(change[r]) /\ change[r].step \in {"create", "write", "clear"}
    BY <1>5, ActsUnderWay, Known DEF Create, Write, Clear
  <2>2. change[r].to # NoRole
    BY <2>1 DEF WellAsked, MemberRoles
  <2>3. change[r].wanted # {} /\ change[r].step = "create"
    BY <2>1, <2>2 DEF WellAsked
  <2>4. Create(r) /\ change'[r].step # "done"
    BY <1>1, <1>5, <2>3 DEF Create, Write, Clear, Goes, Change
  <2> QED
    BY <2>4
<1>6. ASSUME NEW q \in Changes, NEW step, Goes(q, step), q # r
      PROVE  FALSE
  <2>1. change'[r] = change[r]
    BY <1>1, <1>6 DEF Goes
  <2> QED
    BY <2>1
<1>7. ASSUME NEW step, Goes(r, step), step # "done"
      PROVE  FALSE
  <2>1. change[r] \in Change /\ change'[r] = [change[r] EXCEPT !.step = step]
    BY <1>1, <1>7 DEF Goes
  <2> QED
    BY <1>7, <2>1 DEF Change
<1>8. ASSUME NEW q \in Changes, Read(q) PROVE FALSE
  <2>1. CASE q = r
    <3>1. change[r] \in Change /\ change'[r] = [[change[r] EXCEPT !.held = member] EXCEPT !.step = "insert"]
      BY <1>1, <1>8, <2>1 DEF Read
    <3> QED
      BY <3>1 DEF Change
  <2>2. CASE q # r
    <3>1. change'[r] = change[r]
      BY <1>1, <1>8, <2>2 DEF Read
    <3> QED
      BY <3>1
  <2> QED
    BY <2>1, <2>2
<1>9. ASSUME NEW q \in Changes, NEW to, NEW wanted, NEW step \in {"ask", "create", "write"},
             Arrive(q, to, wanted, step)
      PROVE  FALSE
  <2>1. change'[r] = change[r] \/ change'[r].step = step
    BY <1>1, <1>9 DEF Arrive
  <2> QED
    BY <2>1
<1>10. ASSUME NEW q \in Changes, Ask(q) \/ Insert(q) \/ Cut(q) PROVE FALSE
  <2>1. Goes(q, "read") \/ Goes(q, "failed") \/ Goes(q, "delete")
    BY <1>10 DEF Ask, Insert, Cut
  <2> QED
    BY <1>6, <1>7, <2>1
<1>11. ASSUME NEW q \in Changes, q # r, Delete(q) \/ Create(q) \/ Write(q) \/ Clear(q) PROVE FALSE
  <2>1. PICK step : Goes(q, step)
    BY <1>11 DEF Delete, Create, Write, Clear
  <2> QED
    BY <1>6, <1>11, <2>1
<1>12. ~ UNCHANGED change
  OBVIOUS
<1> QED
  BY <1>4, <1>5, <1>8, <1>9, <1>10, <1>11, <1>12 DEF MembershipsNext, RemoveAccount, memberVars

\* "The whole list, every time": a list that nobody raced is what the account reaches
\* when it is answered.
THEOREM ListsAreWhole == MembershipsSpec => AloneListIsWhole
<1>1. MembershipsInv /\ [MembershipsNext]_memberVars =>
        [\A r \in Changes :
           /\ undisturbed /\ change[r].step # "done" /\ change'[r].step = "done"
           /\ change[r].to = NoRole \/ change[r].wanted # {}
           => member' = change[r].wanted]_memberVars
  BY AnsweredListIsWhole
<1> QED
  BY InitMemberships, MembershipsStep, <1>1, PTL DEF MembershipsSpec, AloneListIsWhole

\* Rows go by a list that does not name them, by a role that needs none, or with the
\* account: no request takes a row that every list under way names.
LEMMA NamedRowsStay ==
  ASSUME [MembershipsNext]_memberVars, NEW p \in member, memberRole' = "developer",
         \A r \in UnderWay : change[r].step # "clear" /\ (change[r].step = "write" \/ p \in change[r].wanted)
  PROVE  p \in member'
<1>1. ASSUME NEW r \in Changes, Delete(r) PROVE p \in member'
  <2>1. r \in UnderWay /\ change[r].step = "delete"
    BY <1>1, ActsUnderWay DEF Delete
  <2> QED
    BY <1>1, <2>1 DEF Delete
<1>2. ASSUME NEW r \in Changes, Clear(r) PROVE FALSE
  BY <1>2, ActsUnderWay DEF Clear
<1>3. ~RemoveAccount
  BY DEF RemoveAccount
<1>4. ASSUME NEW r \in Changes, Insert(r) PROVE p \in member'
  BY <1>4 DEF Insert
<1> QED
  BY <1>1, <1>2, <1>3, <1>4 DEF MembershipsNext, Arrive, Ask, Read, Create, Write, Cut, memberVars

\* "A diff rather than a set of adds and removes": between the two statements of a list,
\* and of any number of them at once, what all of them name stays within reach.
THEOREM NamedProjectsAreKept == MembershipsSpec => KeptThroughout
<1>1. [MembershipsNext]_memberVars =>
        [\A p \in member :
           /\ memberRole' = "developer"
           /\ \A r \in UnderWay : change[r].step # "clear" /\ (change[r].step = "write" \/ p \in change[r].wanted)
           => p \in member']_memberVars
  BY NamedRowsStay
<1> QED
  BY <1>1, PTL DEF MembershipsSpec, KeptThroughout
=============================================================================

------------------------------- MODULE LiveView -------------------------------
(***************************************************************************)
(* How a page of the panel comes to show what Docker does: Docker's event  *)
(* stream into the hub (packages/server/src/realtime/hub.ts), the snapshot *)
(* cache it invalidates (services/inventory.ts), the server-sent events of *)
(* one browser (realtime/sse.ts), and what the page refetches on them      *)
(* (apps/web/lib/live.ts).                                                 *)
(*                                                                         *)
(* Docker is one number that every change increases; a snapshot is the     *)
(* number it was built from, a page the number it shows.  Building takes   *)
(* time: Docker is read at one moment of it and the cache filled at a      *)
(* later one.                                                              *)
(***************************************************************************)
EXTENDS Naturals, FiniteSets

CONSTANTS MaxChanges,  \* bound on what happens in Docker
          BuildIds,    \* the builds there can be at once
          Polled,      \* whether the page refetches every few seconds
          Breaks,      \* bound on how often a stream breaks
          Forced       \* whether other routes read with get(true)

ASSUME LiveViewAssumption == MaxChanges \in Nat /\ Breaks \in Nat

VARIABLES world,      \* what Docker is at
          arriving,   \* events on their way to the hub
          hub,        \* its connection to Docker: "listening" or "waiting"
          cached,     \* the snapshot, and whether it is younger than a second
          builds,     \* each build in flight, by what it has read
          pending,    \* the build a get may join, as a set of at most one
          stream,     \* the browser's EventSource
          queue,      \* events for it
          batch,      \* events inside the debounce of the page
          fetch,      \* the page's request
          shown,      \* what the page shows
          caller,     \* a route that called get(true)
          broken,     \* how often a stream broke
          overtaken   \* a forced build began while another ran (for the properties)

docker == <<world, arriving, hub>>
cache == <<cached, builds, pending>>
page == <<stream, queue, batch, fetch, shown>>
liveVars == <<docker, cache, page, caller, broken, overtaken>>

Versions == 0..MaxChanges
NoSnapshot == [version |-> 0, fresh |-> FALSE]
Free == [step |-> "free", version |-> 0]
Read(v) == [step |-> "read", version |-> v]
Resting == [step |-> "idle"]

PageTypeOK ==
  /\ world \in Versions /\ arriving \in Versions /\ hub \in {"listening", "waiting"}
  /\ cached \in [version : Versions, fresh : BOOLEAN]
  /\ builds \in [BuildIds -> [step : {"free", "started", "read"}, version : Versions]]
  /\ pending = {} \/ \E b \in BuildIds : pending = {b} /\ builds[b] # Free
  /\ stream \in {"open", "lost"} /\ queue \in Versions /\ batch \in BOOLEAN
  /\ fetch.step \in {"idle", "sent", "waiting", "answered"}
  /\ fetch.step = "waiting" => builds[fetch.build] # Free
  /\ caller.step = "waiting" => builds[caller.build] # Free
  /\ shown \in Versions
  /\ broken \in 0..Breaks /\ overtaken \in BOOLEAN

PageInit ==
  /\ world = 0 /\ arriving = 0 /\ hub = "listening"
  /\ cached = NoSnapshot /\ builds = [b \in BuildIds |-> Free] /\ pending = {}
  /\ stream = "open" /\ queue = 0 /\ batch = FALSE /\ fetch = Resting /\ shown = 0
  /\ caller = Resting /\ broken = 0 /\ overtaken = FALSE

-----------------------------------------------------------------------------
(* createSnapshotCache.                                                    *)

\* buildSnapshot is called.  Builds are interchangeable: which one is free is no
\* choice.
Build(b) ==
  /\ builds[b] = Free /\ b = CHOOSE c \in BuildIds : builds[c] = Free
  /\ builds' = [builds EXCEPT ![b].step = "started"] /\ pending' = {b}

Answered(v) == [step |-> "answered", version |-> v]
Waiting(b) == [step |-> "waiting", build |-> b]

\* Mutant of Get: the build in flight is not joined.
GetApart(answer) ==
  \/ cached.fresh /\ answer = Answered(cached.version) /\ UNCHANGED <<builds, pending>>
  \/ ~cached.fresh /\ \E b \in BuildIds : Build(b) /\ answer = Waiting(b)

\* get(): the snapshot of this second, the build in flight, or a new one.
Get(answer) ==
  \/ cached.fresh /\ answer = Answered(cached.version) /\ UNCHANGED <<builds, pending>>
  \/ ~cached.fresh /\ (\E b \in pending : answer = Waiting(b)) /\ UNCHANGED <<builds, pending>>
  \/ ~cached.fresh /\ pending = {} /\ \E b \in BuildIds : Build(b) /\ answer = Waiting(b)

\* A build reads Docker.
BuildReads(b) ==
  /\ builds[b].step = "started" /\ builds' = [builds EXCEPT ![b] = Read(world)]
  /\ UNCHANGED <<docker, cached, pending, page, caller, broken, overtaken>>

\* Mutant of BuildEnds: the build stays the pending one.
BuildEndsStillPending(b) ==
  /\ builds[b].step = "read"
  /\ cached' = [version |-> builds[b].version, fresh |-> TRUE]
  /\ UNCHANGED pending
  /\ builds' = [builds EXCEPT ![b] = Free]
  /\ fetch' = IF fetch = Waiting(b) THEN Answered(builds[b].version) ELSE fetch
  /\ caller' = IF caller.step = "waiting" /\ caller.build = b
               THEN [step |-> "answered", version |-> builds[b].version, since |-> caller.since] ELSE caller
  /\ UNCHANGED <<docker, stream, queue, batch, shown, broken, overtaken>>

\* Its end fills the cache and forgets which build was pending, whichever it was.
BuildEnds(b) ==
  /\ builds[b].step = "read"
  /\ cached' = [version |-> builds[b].version, fresh |-> TRUE]
  /\ pending' = {}
  /\ builds' = [builds EXCEPT ![b] = Free]
  /\ fetch' = IF fetch = Waiting(b) THEN Answered(builds[b].version) ELSE fetch
  /\ caller' = IF caller.step = "waiting" /\ caller.build = b
               THEN [step |-> "answered", version |-> builds[b].version, since |-> caller.since] ELSE caller
  /\ UNCHANGED <<docker, stream, queue, batch, shown, broken, overtaken>>

\* A second passes.
Expire ==
  /\ cached.fresh /\ cached' = [cached EXCEPT !.fresh = FALSE]
  /\ UNCHANGED <<docker, builds, pending, page, caller, broken, overtaken>>

\* Another page or route reads.
GetElsewhere ==
  /\ \E b \in BuildIds : Get(Waiting(b))
  /\ builds' # builds
  /\ UNCHANGED <<docker, cached, page, caller, broken, overtaken>>

Forcing(b) == caller' = [step |-> "waiting", build |-> b, since |-> world]

\* Mutant of GetForced: it joins the build there is.
GetForcedJoins ==
  /\ Forced /\ caller = Resting
  /\ \/ pending = {} /\ \E b \in BuildIds : Build(b) /\ Forcing(b)
     \/ (\E b \in pending : Forcing(b)) /\ UNCHANGED <<builds, pending>>
  /\ UNCHANGED <<docker, cached, page, broken, overtaken>>

\* get(true): a route that acts on what it reads builds for itself.
GetForced ==
  /\ Forced /\ caller = Resting
  /\ \E b \in BuildIds : Build(b) /\ Forcing(b)
  /\ overtaken' = (overtaken \/ \E b \in BuildIds : builds[b] # Free)
  /\ UNCHANGED <<docker, cached, page, broken>>

-----------------------------------------------------------------------------
(* Docker and the hub.                                                     *)

\* A container changes.  Docker tells whoever listens, and nobody later.
Change ==
  /\ world < MaxChanges /\ world' = world + 1
  /\ arriving' = IF hub = "listening" THEN arriving + 1 ELSE arriving
  /\ UNCHANGED <<hub, cache, page, caller, broken, overtaken>>

\* invalidate() forgets the snapshot, not the build in flight; then every open
\* stream gets the event.
Hear ==
  /\ hub = "listening" /\ arriving > 0 /\ arriving' = arriving - 1
  /\ cached' = NoSnapshot
  /\ queue' = IF stream = "open" THEN queue + 1 ELSE queue
  /\ UNCHANGED <<world, hub, builds, pending, stream, batch, fetch, shown, caller, broken, overtaken>>

\* The proxy restarts: what was on its way is lost.
HubBreaks ==
  /\ hub = "listening" /\ broken < Breaks
  /\ hub' = "waiting" /\ arriving' = 0 /\ broken' = broken + 1
  /\ UNCHANGED <<world, cache, page, caller, overtaken>>

\* The backoff ends and the loop subscribes again, to what happens from now on.
HubReturns ==
  /\ hub = "waiting" /\ hub' = "listening"
  /\ UNCHANGED <<world, arriving, cache, page, caller, broken, overtaken>>

-----------------------------------------------------------------------------
(* The browser.                                                            *)

\* The stream writes one event; the page waits for 250 ms of silence.
Deliver ==
  /\ stream = "open" /\ queue > 0 /\ queue' = queue - 1 /\ batch' = TRUE
  /\ UNCHANGED <<docker, cache, stream, fetch, shown, caller, broken, overtaken>>

\* flush(): invalidateQueries refetches, and cancels a fetch under way.
Flush ==
  /\ batch /\ batch' = FALSE /\ fetch' = [step |-> "sent"]
  /\ UNCHANGED <<docker, cache, stream, queue, shown, caller, broken, overtaken>>

\* refetchInterval.
Poll ==
  /\ Polled /\ fetch = Resting /\ fetch' = [step |-> "sent"]
  /\ UNCHANGED <<docker, cache, stream, queue, batch, shown, caller, broken, overtaken>>

\* The page's request reads the cache.
Serve ==
  /\ fetch.step = "sent" /\ Get(fetch')
  /\ UNCHANGED <<docker, cached, stream, queue, batch, shown, caller, broken, overtaken>>

Show ==
  /\ fetch.step = "answered" /\ shown' = fetch.version /\ fetch' = Resting
  /\ UNCHANGED <<docker, cache, stream, queue, batch, caller, broken, overtaken>>

StreamBreaks ==
  /\ stream = "open" /\ broken < Breaks
  /\ stream' = "lost" /\ queue' = 0 /\ broken' = broken + 1
  /\ UNCHANGED <<docker, cache, batch, fetch, shown, caller, overtaken>>

\* The EventSource is back; its hello changes the indicator and fetches nothing.
StreamReturns ==
  /\ stream = "lost" /\ stream' = "open"
  /\ UNCHANGED <<docker, cache, queue, batch, fetch, shown, caller, broken, overtaken>>

PageNext ==
  \/ (\E b \in BuildIds : BuildReads(b) \/ BuildEnds(b)) \/ Expire \/ GetElsewhere \/ GetForced
  \/ Change \/ Hear \/ HubBreaks \/ HubReturns
  \/ Deliver \/ Flush \/ Poll \/ Serve \/ Show \/ StreamBreaks \/ StreamReturns

\* Docker answers, timers fire, and a stream that broke is opened again; nothing
\* makes Docker change, anybody else read or a stream break.
PageFairness ==
  /\ \A b \in BuildIds : WF_liveVars(BuildReads(b)) /\ WF_liveVars(BuildEnds(b))
  /\ WF_liveVars(Expire) /\ WF_liveVars(Hear) /\ WF_liveVars(HubReturns) /\ WF_liveVars(StreamReturns)
  /\ WF_liveVars(Deliver) /\ WF_liveVars(Flush) /\ WF_liveVars(Serve) /\ WF_liveVars(Show)

\* A page that is open and polled refetches again and again.
Polling == WF_liveVars(Poll)

PageSpec == PageInit /\ [][PageNext]_liveVars /\ PageFairness /\ Polling

-----------------------------------------------------------------------------
(* Properties.                                                             *)

\* A route that forces the snapshot acts on nothing older than its own call
\* (api/routes/shares.ts:110, access.ts:147, projects.ts:452).
ForcedReadsAreCurrent == caller.step = "answered" => caller.version >= caller.since

\* A page goes back in time only where a forced build began over another, so that
\* an older one may end last: no other order of builds, answers, refetches and
\* broken streams does that.
NoPageGoesBack == [][shown' >= shown \/ overtaken]_liveVars

\* The page comes to show what Docker is at, and stays there.
PageCatchesUp == <>[](shown = world)
=============================================================================

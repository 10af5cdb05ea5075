# Portta in TLA+

Models, model-checking runs and proofs for Portta, the local Traefik gateway with
its web panel. Everything here is translated from the source at the commit it sits
beside; the modules state what the code does, TLC checks it on small instances
(`tlc -config X.cfg M`), and TLAPS proves part of it for every instance
(`tlapm M.tla`). `PROJECT.json` maps each definition to the lines it stands for.

## 1. Inventory

Portta is a monorepo of processes that share a few files, a SQLite database and the
Docker daemon.

| Process | Source | Concurrency |
|---|---|---|
| Panel (API, realtime) | `packages/server`, `packages/auth`, `packages/db` | one Node process: requests interleave at every `await`, and only there |
| Login service (ForwardAuth) | `apps/auth` | one Node process, stateless but for a few maps in memory |
| `portta` command | `packages/cli` | a process of its own beside the panel, with no lock between them |
| Project runner | `scripts/lib/runner-exec.sh` | a prepared container, started by the panel, one run at a time |
| Traefik, Docker, Better Auth | external | read what the others write, or answer their calls |

### Components, their state and operations

**Exposure registry** (`packages/core/src/protections.ts`). State:
`state/auth/protections.json`, one record for each scope (`host:<h>`, `share:<id>`)
with mode, credential hash, epoch, project and service. Operations:
`setProtection`, `removeProtection`, both pure, on a file whoever writes rewrites whole by a
rename. Correct when: the file always parses, epochs grow while a record lives.

**Exposure decisions** (`services/exposure.ts`, `protection-state.ts`). State: the
registry, the login routers (`portta-auth.yaml`) and the alias routers
(`portta-aliases.yaml`), written one after the other. Operations: protect (hashes a
password first), open, close. Hard: what was read before the hash is stale after it;
a failed write or a crash leaves any prefix of four writes. Correct when: each change is
one operation on the registry of that moment, touches only what its guard allows, and
no intermediate state routes an alias under somebody else's decision.

**Temporary shares** (`services/shares.ts`, `core/shares.ts`). State:
`portta-shares.yaml` (a state line and routers in one file) and a credential in the
registry. Operations: create, regenerate, revoke, list (which collects nothing by
itself). Hard: two files that must change in the right order; hashing; expiry while
something is in flight. Correct when: a protected router always has its credential,
a container has one share, no credential is written for a share that is gone.

**Hostname aliases** (`routes/overrides.ts`, `core/aliases.ts`). State: a row in
SQLite and the alias file. Operations: set, clear, roll back. Hard: the file is read
before two database awaits. Correct when: row and file agree when nothing is in
flight.

**Exposure from the command line** (`cli/src/commands/exposure.ts`, `protect.ts`,
`share.ts`). Same files, another process. Correct when: the registry still parses and a
change made meanwhile is not undone.

**Login service and site entry** (`apps/auth/src/app.ts`, `session.ts`,
`routes/site-entry.ts`, `core/site-entry.ts`). State: signed cookies in browsers,
`spentEntries` in memory, the state cookie, the session of the panel each browser keeps.
Operations: `/verify`, password login, the login page and the state it signs,
the request for an entry token, its issue, its one use, restart; a ban, a demotion, a
membership that ends. Hard: records read before a password is verified or adoptions are
awaited; the state taken from the address, and an address sent to another browser; tokens
followed twice; a right lost while a token is on its way, or while a cached session still
vouches for it. Correct when: a session ends with the credential it was
granted on, a token opens one session, in the browser its state was made for, a lost right
is gone within bounded time.

**Project runner** (`services/operations.ts`, `core/runner.ts`,
`scripts/lib/runner-exec.sh`). State: the single request file, the runner container,
what the script has read, the inventory snapshot. Operations: rebuild, remove,
start a remembered project; the script's reads and Compose calls. Hard:
check, write and start are awaits apart, and the script reads field by field. Correct
when: a run answers one request, and the script acts on one whole request.

**Accounts** (`services/users.ts`, `packages/auth/src/authorize.ts`, `bootstrap.ts`).
State: users, roles, bans, the cached session each browser holds. Operations: set-up,
create, change role, ban, remove, transfer ownership. Hard: rules read, then a library
verifies the session and writes; sessions cached for five minutes. Correct when: one
owner, never none once there is one, ownership moved by its holder alone.

Which Projects an account reaches (`setProjects`, and what create, `setRole`, transfer
and remove do to `project_members`) is several statements with no transaction around
them. Correct when: a list nobody raced holds whole, an administrator keeps no
rows that a demotion would bring back, and a Project every list names is never out of
reach in between.

**Console** (`realtime/ws/console.ts`). State: the socket, the exec, the hijacked
stream, three timers, a finish that runs at most once, the audit trail. Operations: open
(create, attach, one shell after the other), finish, the handlers of both sides,
shutdown. Hard: browser, stream, exec and panel may each go away at any await.
Correct when: an opening on record gets exactly one closing, one that says Docker
confirmed the end is true, an open console has its limits, and the two sides end together.

**Service and container actions** (`services/actions.ts`, `core/project-order.ts`,
`projectAction` of `cli/src/commands/projects.ts`). State: none of its own; a snapshot,
a plan, one answer per step. Operations: start, stop and restart of an environment or a
container, removal. Hard: the snapshot is old when a step acts on it, a step may fail,
dependencies may form a cycle. Correct when: every service is answered for, in
dependency order where there is one, a success is true, and what runs is removed only
if that was asked.

**Live view** (`realtime/hub.ts`, `services/inventory.ts`, `realtime/sse.ts`,
`apps/web/lib/live.ts`). State: one event stream from Docker, a snapshot cache with
at most one pending build, one stream per browser, what the page shows. Operations: `get`,
`get(true)`, `invalidate`, reconnection, debounce, refetch. Hard: builds overlap each
other and the changes they read; events are lost while a stream is down. Correct when: a
route that forces the snapshot acts on nothing older than its call, a page does not
go back, and catches up.

**Access bridges** (`services/access.ts`, `cli/src/commands/access.ts`). State:
containers whose labels name what they reach. Operations: open, close, collect, by the
panel and by `portta`. Hard: making and starting are two calls, what is listed is
not what is there a moment later, and two processes do it. Correct when: a service has one
bridge and "opened" means that something listens.

**The rest**, listed in `PROJECT.json` with the reason it is left out: login limiter,
API tokens, settings and apply, crawler policy, remembered environments, cleanup,
tunnel, migrations, metrics, the Docker client, the `portta` lifecycle, the
routing-rule strings, the React pages.

### How they interact

```
 panel ──writes──> protections.json <──writes── portta command
   │  └─writes──> auth / aliases / shares .yaml ──read by──> Traefik ──ForwardAuth──> login service
   │                        login service ──reads──> protections.json
   ├──token in an address──> browser ──> login service
   ├──request.json, start──> runner container ──Compose──> Docker
   ├──users, sessions──> Better Auth ──> SQLite (unique index over the owner)
   ├──start, stop, exec, bridges──> Docker <──the same── portta command
   └──events, snapshots──> browser       (Docker's events invalidate the snapshot)
```

## 2. Modules

| Module | Models | Role |
|---|---|---|
| `Protections` | a registry as a value, `setProtection`, `removeProtection`, what parses | operators for the three below |
| `Registry` | what the registry promises: one Set or Remove at a time | abstract specification |
| `Exposure` | decisions, shares, aliases, write by write | implements `Registry` (`ImplementsRegistry`) |
| `ExposureCli` | `Exposure` and the `portta` command beside it | composition of two processes |
| `SiteAccess` | login service and site entry | its registry is `Registry`'s too (`Registered!Spec`): the two compose |
| `Runner` | the panel's dispatch and the script | |
| `Accounts` | rules, the library's writes, set-up, transfer | |
| `Memberships` | which Projects one account reaches, statement by statement | |
| `ConsoleRecord` | what the audit trail promises of a console: an opening and a closing, each tried once and in order, kept or missed | abstract specification, with fairness |
| `Console` | one console from its socket to its last audit entry | implements `ConsoleRecord` (`ImplementsRecord`) |
| `EnvironmentActions` | the dependency order and the actions of panel and command | |
| `LiveView` | Docker's events, the snapshot cache, one page | |
| `AccessBridges` | bridges of the panel and of the command | |
| `MCExposure`, `MCExposureCli`, `MCSiteAccess`, `MCRunner`, `MCAccounts`, `MCConsole`, `MCLiveView`, `MCAccessBridges` | one component for TLC: containers, symmetry | the violations run these |
| `MCExposureScopes`, `MCSiteScopes`, `MCAdministration`, `MCPanel`, `MCLayouts` | several instances in one run (section 3) | the passing runs run these |
| `RegistryProofs`, `ProtectionsProofs`, `ExposureProofs`, `ExposureCliProofs`, `SiteAccessProofs` | theorems of the component each is named after, and lemmas | each EXTENDS its component and `TLAPS` |
| `AdministrationProofs` | theorems of `Runner`, `Accounts` and `Memberships` | three parts without shared state |
| `PanelProofs` | theorems of `Console` and `LiveView` | two parts |
| `ContainersProofs` | theorems of `AccessBridges` and `EnvironmentActions` | two parts |

### How state and actions correspond to the code

*One process that awaits.* The panel is one thread. A request in `Exposure` is a slot
of `requests`: `Receive...` is the handler up to its await and stores what it
remembers across it; `Finish...`, `WriteAliasRow` and `SaveAliases` are the
continuations. A stretch without an await is a **section** no other request enters:
`section.step` says which of its file writes comes next, and `Running` and the
`Finish` guards ask for `section.step = "idle"`. The sections of `services/exposure.ts`
and `shares.ts` run through `saveProtectionState`: `SuspendAliases`, `WriteStore`,
`WriteLogin`, `RestoreAliases`, with the share file before them (`WriteSharesFirst`,
a revoke) or after them (`WriteSharesLast`, a create). `WriteFails` and `Crash` may
come before each of these writes.

*Two processes.* `ExposureCli` gives the command one variable, `cli`; each of its
reads and writes is a step, and the panel's steps, those inside a section too, fall
between them. `SuspendAliases` and `CliSuspendAliases` write from what was read when the
save began (`read`, `before`), which is what makes the two interfere.

*Signed cookies.* The login service keeps nothing about a session, so
`SiteAccess.sessions` only grows and `Admits` is the test `/verify` makes of any of
them. A login or a site-entry request keeps the record it read before its await
(`logins`, `asking`). `ShowLogin` is `panelEntryUrl`: it signs a state and has the browser
hold it, and `given` remembers for whom and for which host. `AskPanel` takes the state from the address, as
the route does: any of `given` for the host (`SignedFor`, which is `readEntryState`), whichever
browser it was made for and whoever's session answers. `FollowToken` lets any browser follow any
token's address; the request carries the state cookie that browser held when it
was sent (`Entering`), and `Copies` is the same address followed twice.

*A session kept in a cookie.* `account` is what the database says of a person (role, ban, the
row of `project_members`) and `cached` the role their browser's session was cached with, and until
when. `Vouched` is `getSession`: a live cached session answers for itself, and without one the
account does, unless it is banned. `Allowed` adds the membership row, which
`scopeOf` reads for every request. `KeepSession` is a page of the panel that has the cache renewed.
`Ban`, `Demote` and `LeaveProject` change the account alone, and `lost` records each loss of the
right with the time a cached session may still hide it (`grace`): `CacheSeconds` for a ban and a demotion,
nothing for a membership, unless a session from before a demotion is still cached.

*A file without a lock.* In `Runner`, `Resume` truncates the request file and
`writeRunnerRequest` fills it, as `writeFileSync` does in two system calls on one
thread (`ThreadFree`); `ReadVerb`, `ReadProject` and `ReadRest` are the script's
processes, each of which opens the file again.

*Rule and write apart.* In `Accounts`, the rule (`setRole`, `setBan`, `remove`,
`create`, `bootstrapOwner`) stores the call it passes to the library, and `AddUser`,
`UpdateRole`, `UpdateBan`, `DeleteUser` are the library's writes, after it has verified the
session. Reading the subject and judging it are one step: better-sqlite3 answers synchronously, and the
`await`s around it are microtasks that no other request gets between. The
library's own verification reaches the network layer and is a real gap.
`transferOwnership` is one synchronous transaction, and one action. `Memberships` is
more generous and takes every `await` between two statements as a gap, because a
process that stops there (`Cut`) leaves just that, and because requests that resume from a
shared promise do take turns; what holds there holds with fewer interleavings.

*Everything may go away.* In `Console`, `opening` and `finish` say which await the two
procedures of a session are at, and each action is the stretch up to the next:
`Look`, `CreateExec`, `Attach...`, `AuditOpened` are `openConsole`; `Finish` is the
body of `finish`, which the first caller runs and the others join; `InspectedExit`
and `WaitOver` are the two ends of `waitForExit`. `SocketClosed`, `StreamEnds`,
`ExecStreamBreaks` and `TimerFires` are the handlers, and exist only once
`Listening`: before that, an error on the stream has no handler and ends the process.
`Audit` appends an entry, or loses it and goes on as if it had not: `audit()` swallows every failed
insert (a full disk, a busy file, an account removed while its console is open, which the foreign key
of `audit_log` refuses), and all of them once the database is closed. `missed` holds the kinds
of entries that were tried and lost.

*A snapshot and the thing itself.* In `EnvironmentActions`, `docker` is what the
containers do and `seen` the snapshot a request was judged on, updated by `runOne` alone;
`plan` holds the calls still to be made and `results` what was answered. In `LiveView`,
Docker is one number that grows with every change, and a snapshot, a fetch and the page
hold the number they are of; `builds` are the calls of `buildSnapshot` in flight,
`pending` the one `get` may join. `Disturb`, `Change` and `GetElsewhere` are everybody else.

*Two calls to make one thing.* In `AccessBridges`, `Create` and `Start` are Docker's
two calls, `Settle` the look at the result after the settling time. `Existing` is
where panel and command differ: one lists every container, the other those that run.

### What is abstracted

- Names, hostnames, passwords and hashes are values; each generated password is a
  fresh one (`Fresh`). A share's id is assumed not to repeat one in use (sixteen
  random bits in the code).
- `RoutedFor` and `LoginHosts` stand for the rendering of YAML: which routers there are,
  and not what they say. Entry points, TLS and the crawler labels are left out, and
  so are the refusals that depend on configuration alone.
- `SiteAccess`: a request to either service ends within the tick it began in
  (`Tick` waits for it); password attempts succeed or fail freely. Behind the hosts is one
  project, adopted; a share, or an environment nobody adopted, which only an owner or an
  administrator enters, is left out, and `DenyEntry` stands for whatever the awaits of the route
  bring to light. A right that is lost is not given back, a browser is one person's, and its state cookie
  does not expire by itself (after ten minutes in the code, far beyond a token). A person signs in
  to the panel again whenever their account allows it: `Vouched` without a cached session is
  such a person too. API tokens, which the route refuses, the open mode, the limiter, logout and the pages are left out.
- `Runner`: a project stands for its name and its directory. Portta's own
  project, refused by both sides, is not in `Projects`; a verb or directory that is
  empty, missing or of no known project is `None`. The panel never sends `stop` and
  `restart`, nor asks for a directory to be removed. The path for a panel without a runner
  (containers removed one at a time) is left out.
- `Accounts`: a viewer is a developer, a token is a session just refreshed, and how
  long a session stays cached is not timed: `Refresh` may come at any time or never.
  Passwords and the library's own endpoints are left out.
- `Memberships`: one account; owners and administrators are alike, and so are developers
  and viewers; who may ask is `Accounts`' matter. The Projects all exist, and the
  removal of a Project is left out.
- `Console`: one console; bytes, frame sizes, durations and the texts of errors are left
  out. A timer is a step that may be taken while it is set.
- `EnvironmentActions`: one environment and one request; containers are numbered as
  Docker lists them and services as their names sort. Docker's answer is a success, which
  changes the container, or an error, which does not.
- `LiveView`: one page, whose person sees everything (the filter of `sse.ts` is left
  out). Left out too: the snapshot of a Docker that cannot be reached, and the refetch on window focus.
- `AccessBridges`: requests are numbered as they arrive, bridges as they are made;
  a name conflict of two containers, and errors of Docker other than a refusal to create,
  to start or to remove, are left out.

## 3. Runs

All runs are finite and complete: TLC visits every state of the instance (a violation
ends at the first counterexample).

A passing run holds several instances, its **scopes**. A scope is either another choice of
constants for the same variables (`exposure`; the first four of `site_and_containers`)
or a component that shares no state with the others. Every behaviour is of one scope,
chosen in its initial state, and what the other components hold stays as it is; so the states of a
run are the union of those of its scopes, and a property is checked on each as if it
ran alone. A component whose properties are also proved is EXTENDed by the run's module, so that the run
checks the very definition the theorem names: this is why `Accounts`, `Console` and `LiveView`
prefix their `Init`, `Next` and `Spec`, as the others
that share a run or a module of proofs do. Where the scopes are of one module, the properties are those of the
instance with every constant at its largest, which widens the sets that values are drawn from
and nothing else.

| Run | Scopes | What it shows |
|---|---|---|
| `exposure` | *deciding*: two services that derive one hostname in turn, a third that wants it as an alias, one hash. *sharing*: two services, two share ids, two hashes, lifetimes 1 and 2, a clock to 2. Both: two requests in flight, failed writes, crashes, epochs to 2 | `ImplementsRegistry`, `OnlyOwnRecords`, `NoAliasInheritsADecision`; `RoutedSharesAskForACredential`, `OneSharePerContainer`, `NoCredentialForARevokedShare` |
| `site_and_containers` | *lasting*: one person, password and panel, a state and a token, two hashes, restarts, epochs to 2, a clock to 1. *entry*: two browsers, two states, two tokens, a clock to 1. *respent*: two browsers, two states, a token, restarts, a clock to 1. *losing*: one person of any standing, a state and a token, a session cached for three units, a clock to 5. *environment*: three containers of three services or of two, no, one or two dependencies and the larger cycles. *bridges*: one service, two bridges, three requests | `SessionsEndWithTheirCredential`; `TokensOpenOnce`, `TokensStayInTheirBrowser`, `LostRightEnds`; `EveryServiceIsAnsweredFor`, `DependenciesKeepTheirOrder`, `SuccessIsTrue`, `PanelLeavesOneOffs`, `RemovalOfRunningIsConfirmed`; `AloneOneRuns`, `PorttaOpensForReal` |
| `administration` | *runner*: two projects, two requests, two runs. *accounts*: three people, two calls in flight. *members*: two Projects, two requests | `OneAnswerPerRun`, `AloneItDoesWhatWasAsked`; `OneOwner`, `OwnershipMovesByItsHolder`; `AloneAdministratorsHoldNone`, `AloneListIsWhole`, `KeptThroughout` |
| `panel` | *files*: a service with its share, every command on the same hostname, failures of both. *shell*: one console, any shells. *page*: two changes, two builds, one broken stream, a page that polls, a route that forces | `RegistryAlwaysParses`; `ImplementsRecord`, `BothSidesEnd`, `LimitsWhileOpen`, `ConfirmedIsTrue`; `ForcedReadsAreCurrent`, `NoPageGoesBack`, `PageCatchesUp` |
| `alias_row_and_file` | two alias requests, no failures | **violated**: finding 1 |
| `cli_lost_close` | `protect host` against a close in the panel | **violated**: finding 2 |
| `site_reprotect` | password logins around a removal | **violated**: finding 3 |
| `runner_overlap` | *runner* alone | **violated**: finding 4 |
| `accounts_ownerless` | *accounts* alone | **violated**: finding 5 |
| `console_unrecorded` | *shell* alone | **violated**: finding 6 |
| `live_stale` | *page* without polling, a forced read or a broken stream | **violated**: finding 7 |
| `bridge_not_running` | one service, two requests | **violated**: finding 8 |

Each component has one type invariant. Two of them (`EnvironmentTypeOK`, `PageTypeOK`) are in no run: they
are proved, as part of the invariants in section 4.

### Bounds, and why they are enough

- `Requests` of `Exposure`: two slots. Every hazard of an await is one request overtaken by
  another; sections do not overlap, so a third adds no new kind of overtaking.
- `Hashes`: one or two. A protect and a share create or regenerate each spend one, so two
  passwords may hash at once in *sharing*. In *deciding* the second
  request is an opening, a close or an alias, which spend none.
- `MaxEpoch`: 2 allows one rewrite of a record, which is the case the epoch is for, and
  any number of removals up to that bound in *lasting*.
- `MaxNow`, `Ttls`, `...Seconds`: small numbers. A panel session is shorter than a
  password session, as in the code, so that taking the wrong one shows. A token and a panel session
  last one unit and a cached session three, so that `LostRightEnds` speaks from the second unit after a
  loss, or from the fifth; a clock to 5 has a moment it speaks of for either kind. In *losing* a
  session is admitted after the time a membership would leave it, and before the time a ban
  does: the grace is needed, and reached.
- `MaxInFlight` bounds the requests to the two services that overlap: two, so that an address
  is followed twice before the first answer, or one while another is asked for; one in
  *losing*, where what matters is what happens between requests.
- `StateIds` and `TokenIds`: two of each in *entry*, so that both browsers hold a state while both tokens
  are out, each made with either state; one state is enough where there is one browser.
- `MaxRuns`: 2 starts of the runner; the first leaves the state ("ok", "failed") the
  second dispatch is judged by. The theorems hold for any.
- *environment*: three containers reach a chain, a fork, a cycle and a service that waits
  behind one; `SomeGraphs` has every set of at most two dependencies and the larger
  shapes that differ; `MaxDisturbed` 1 is one container changing under the request. At
  most one container is not an ordinary service.
- *bridges*: three requests are an opening, one that overtakes it, and one that comes after both;
  two bridges are one more than there should be.
- *members*: two Projects, so that a list may drop one and keep one; two requests.
- *page*: two changes and two builds, the least in which one build overtakes another;
  `Breaks` 1 for either stream. *shell* has no bound: a console is finite.
- `Faults`, `Kinds`, `Ways`, `Callers`, `Restarts`, `Polled`, `Forced` choose what an
  instance exercises; the passing runs together take every action.
- Symmetry: slots of requests (`exposure`), projects, people and requests (`administration` and its
  two violations), where no definition singles one out and no CHOOSE ranges over them; in
  `administration` one permutation may move people and projects together, which no behaviour has both of. The
  numbered requests of *members* are not permuted, and a run with a liveness property has no symmetry.
- `CHECK_DEADLOCK FALSE` where a bound ends the behaviour (hashes, epochs, runs, the
  clock, changes), where the thing modelled ends (a console, a request), and in
  *accounts*, where the system itself may stop: ownership may be
  transferred to a banned account, and when nobody else administers the panel nobody can
  sign in to lift the ban.

### Fairness

Two components have something that must eventually happen, and state weak fairness for the
steps the code or its runtime owes:

- `Console`: `AuditOpened` and `AuditClosed` (the insert is answered in the process that
  holds the database open, kept or refused), `SocketClosed` (`ws` destroys a socket whose peer does not answer its
  closing handshake after thirty seconds), `TimerFires` (`setTimeout`), and
  `InspectedExit \/ WaitOver` (`waitForExit` is timed and every inspect in it too). Docker and
  the browser owe nothing: an attach may hang, a shell may never end, a browser may
  stay. Hence `BothSidesEnd` speaks of a console whose opening is over, and
  `ImplementsRecord` of an opening that was tried.
- `LiveView`: builds read and end, a second passes (`Expire`), events on the way are
  delivered, streams that broke are opened again (`HubReturns`, `StreamReturns`: both
  sides retry for ever), the debounce ends, a request is served and shown. `Polling`
  is added for a page with a `refetchInterval`. Nothing makes Docker change, anybody else
  read or a stream break. `PageCatchesUp` holds with `Polling` and fails without it (finding 7).
- `ConsoleRecord` has `WF(writing /\ Close)`: while the panel's database is open, a closing is tried after
  every opening that was. `ImplementsRecord` asks it of `Console`.

Elsewhere the specification is its initial states and `[][Next]_vars`. A share that expires is no liveness property:
nothing removes its router until somebody revokes it, creates another or runs `portta
share gc`, so the property would be about fairness the code does not give.

### Findings

1. **Alias row and file come apart** (`routes/overrides.ts:252`). The file is rendered
   from a copy read before two database awaits. Of two requests in flight the second
   drops the first alias from the file; its row stays. The comment at 228-230
   says the two cannot end up disagreeing. (Requests that wait for the same inventory
   snapshot, one promise they share, resume in the same turn and take turns at every await.)
2. **A close is undone by `portta protect host`** (`protect.ts:61`). The command saves
   the registry it read before it hashed: in the trace it protects one hostname, the panel closes another
   while it hashes, and the record of the one that was closed is back. `services/exposure.ts:164-165` says what the panel
   does to avoid this; `ExposureProofs` proves that the panel does.
3. **Removing and protecting again admits old sessions** (`core/protections.ts:223`).
   The epoch restarts at 1 once the record is gone, so a cookie of epoch 1 fits
   again. The guide says a removal ends the sessions that came before.
4. **Two dispatches mix in the runner** (`services/operations.ts:207`). Both inspect a
   free runner; the second writes the request file while the script is between its
   reads, which then runs one request's verb on the other's project, volumes
   included. Alone, a dispatch is safe, and that is proved.
5. **The panel may lose its owner** (`services/users.ts:201`). A role change judged
   while its target was an administrator is written after a transfer made them the
   owner; set-up opens again. `OneOwner` is not affected, and is proved.
6. **A console leaves no record** (`realtime/ws/console.ts:192`). A browser that leaves while
   Docker attaches the shell is torn down with `openedAt` still 0, and `finish` then
   writes nothing (line 148), though the shell may have survived the interrupt. No insert
   fails in this run: `TeardownIsOnRecord` excuses an entry that was tried and refused.
   ADR 0043 asks for the closing entry "on every close path".
7. **A page may stay behind Docker** (`services/inventory.ts:499`). `invalidate` forgets
   the snapshot and keeps a build in flight as the one to join: if that build read
   Docker before the change, the refetch the event caused is answered with it, and no other
   event comes. Pages that poll recover; `useEnvironments` does not poll. `hub.ts:3-6`
   says that the panel does not need to.
8. **A bridge is answered as opened that does not run** (`services/access.ts:394`). `openBridge`
   returns any bridge container of the service, also one Docker could not start, or one
   that ended. The comment at 458 says a bridge that cannot reach its target "should
   fail loudly, not look open"; `portta` looks at running ones only, and does.

## 4. Proofs

`*Proofs` modules, all checked by TLAPS with SMT (Z3), Zenon and LS4.

| Theorem | States |
|---|---|
| `RegistryProofs!RegistryAlwaysParses` | the abstract registry parses after any Set and Remove |
| `RegistryProofs!EpochsOnlyGrow` | a record that stays changes only with a greater epoch |
| `ExposureProofs!Types` | `[]TypeOK` |
| `ExposureProofs!AliasesStayApart` | `[]NoAliasInheritsADecision` |
| `ExposureProofs!SharesAreGuarded`, `!SharesAreSingle` | `[]RoutedSharesAskForACredential`, `[]OneSharePerContainer` |
| `ExposureProofs!PanelImplementsRegistry` | `Spec => ImplementsRegistry`: every step is a step of `Registry` or a stutter |
| `ExposureProofs!RecordsAreOwned` | `OnlyOwnRecords` |
| `ExposureProofs!RevokedSharesStayRevoked` | `NoCredentialForARevokedShare` |
| `SiteAccessProofs!Types`, `!SessionsEnd` | `[]TypeOK`, `[]SessionsEndWithTheirCredential` |
| `SiteAccessProofs!TokensOpenASession`, `!TokensStay`, `!RightsEnd` | `[]TokensOpenOnce`, `[]TokensStayInTheirBrowser`, `[]LostRightEnds` |
| `SiteAccessProofs!WritersAreRegistry` | `Spec => Registered!Spec`: the registry it reads is `Registry`'s |
| `ExposureCliProofs!BothTypes`, `!BothWriteWhatParses` | `[]BothTypeOK`, `[]RegistryAlwaysParses`, for panel and command together |
| `AdministrationProofs!RunnerTypes`, `!RunsAreNotShared`, `!DispatchedAlone` | `[]TypeOK`, `[]OneAnswerPerRun`, `[]AloneItDoesWhatWasAsked` |
| `AdministrationProofs!AccountsTypes`, `!OwnerIsUnique`, `!OwnershipIsHandedOver` | `[]AccountsTypeOK`, `[]OneOwner`, `OwnershipMovesByItsHolder` |
| `AdministrationProofs!MembershipsTypes`, `!AdministratorsHoldNone` | `[]MembershipsTypeOK`, `[]AloneAdministratorsHoldNone` |
| `AdministrationProofs!ListsAreWhole`, `!NamedProjectsAreKept` | `AloneListIsWhole`, `KeptThroughout` |
| `PanelProofs!ConsoleTypes`, `!LimitsAlwaysSet`, `!ConfirmationsAreTrue` | `[]ShellTypeOK`, `[]LimitsWhileOpen`, `[]ConfirmedIsTrue` |
| `PanelProofs!TrailRefined` | `ConsoleRecord`'s initial states and steps, with entries refused at any time: the safety part of `ImplementsRecord` |
| `PanelProofs!PageTypesHold`, `!ForcedReadsStayCurrent`, `!PagesOnlyAdvance` | `[]PageTypeOK`, `[]ForcedReadsAreCurrent`, `NoPageGoesBack` |
| `ContainersProofs!BridgesTypes`, `!OneBridgeRuns`, `!PorttaBridgesRun` | `[]BridgesTypeOK`, `[]AloneOneRuns`, `PorttaOpensForReal` |
| `ContainersProofs!EnvironmentTypes`, `!EveryServiceIsAnswered`, `!DependenciesKeepOrder` | `[]EnvironmentTypeOK`, `[]EveryServiceIsAnsweredFor`, `[]DependenciesKeepTheirOrder` |
| `ContainersProofs!SuccessesAreTrue`, `!OneOffsAreLeft`, `!RemovalsAreConfirmed` | `[]SuccessIsTrue`, `[]PanelLeavesOneOffs`, `RemovalOfRunningIsConfirmed` |

Every invariant and every action property that a passing run checks is thus a theorem too, for
every value of the constants.

**Assumptions.** Only the named ASSUMEs of the component modules, which TLC evaluates
on every run: `None` and `NoTarget` lie outside the data they are told from, a container's fields are of
their sets, `ShareHost` is injective (the id is part of a share's hostname), what the command is asked
about are hostnames, containers and services are numbered, the bounds are
numbers. Only the containers of an environment are assumed to be finitely many, and no bound is used.

**Exposure.** No property is inductive alone: what a section wrote so far is only right
given what it has still to write. `Inv == TypeOK /\ Safe`, and `Safe` has the parts

- `Parses(store)` and `OwnScopes`: scope and hostname of a record belong together,
  from which a decision's scope never collides with another host's;
- `Pending`: until the store is written, the target of the section is one operation on the
  store as it is (nobody else writes it meanwhile), and every record it drops is the
  section's to drop; `Written`: after that it is the store;
- `SharesComing`, `SharesGoing`: a share about to get a router has its credential in
  the store by then, a share about to lose its credential has no router;
- `RoutedApart`: what is routed conflicts neither with the old nor with the new
  decision while both may be in force, which is why the code suspends with two
  stores and restores with one.

`BeginSafe` reduces each handler to "this target is an operation on this store";
`ServiceSetSafe`, `ServiceRemoveSafe` and `ShareSetSafe` establish that for the three
kinds; `WriteSafe` takes the six writes one by one. `PanelImplementsRegistry` then
reads the operation off `Pending` (`OnlyWriteStore`: no other step changes the
registry). `SameOperators` says that the instance's operators are the module's own.

**Runner.** `RunnerInv` adds to the types that a reported run has happened. For the second property,
`Whole == Asked /\ Filed /\ Alone`: every volume removal in flight and in the file was
typed (`Asked`, `Filed`), and while no two dispatches have overlapped, at most one is between its
inspection and its start (`OnlyOne`), it found the runner free and the runner still is
(`Undisturbed`), the file is full when the container starts (`Ready`), and what
the script has read is a prefix of what the file holds (`Reading`, `Acting`).

**Accounts.** `AccountsInv == AccountsTypeOK /\ OneOwner`. The argument is that every write goes
through `Stored`, which refuses a second owner as the database's partial unique index
does, and `OwnershipIsHandedOver` shows that no other write can move ownership: an
assignment of "owner" exists only in a set-up, which the index refuses while there is
one.

**Panel and command.** Most of `Inv` does not survive a second writer: what the panel is to write need not
be one operation away from the store any more, which is finding 2. What survives is that
neither ever writes anything but a whole registry that parses: `BothParse` says so of the
store, of the target of the panel's section and of the target of the command, and each of the handlers sets its target to
a Set or a Remove on some registry that parsed when it was read.

**Memberships.** `MembershipsInv` says what the request that is alone knows (`Knows`: the rows from its
read to its end; those it held before the insert, those and the wanted after it), and that an
administrator has rows only while somebody is about to clear them (`Undisputed`).
`KeptThroughout` asks for nothing of the kind: no insert takes a row away, and a deletion spares
what its own request wants.

**Site access.** A session alone does not say what it was granted on, so sessions, tokens
and requests carry a `ground` (the hash, and how often the scope had been removed).
`Inv` adds to the types: `Filed` (the registry parses, each record under its own
hostname); `EpochsTell` (what is of an epoch was granted on that epoch's hash, or the scope
was removed since, or the epoch has moved on: between two removals an epoch is given out once);
`Tracked` (a token that opened a session is spent); `Held` (a state cookie, in a browser or on its way
to the login service, is one that was signed for that browser and host); `Remembered` (tokens have ids of their own, and a session
keeps the state of its token in mind); `Lapsing` (nobody who sees the project has lost it, and a cached session that
still vouches for a right that was lost ends within the grace of that loss); `Bounded` (how long what was begun before a
right was lost can last). `AllowedInTime` reads from `Lapsing` that whoever is let in after a loss is let in within its
grace, and `BoundedStep` adds the life of the token and of its session.

**Console.** `ConsoleInv` follows the opening. `Unheld`: until `attachShell` returned nothing is
held, nothing on record and no finish runs; `ShellToTry`: there is a shell left to try;
`Recording`, `Settled`: what an opening that is being recorded or is over has set;
`Finishing`: a finish speaks of the exec that is held, and says it ended only if it
did; `OthersIdle`: no other exec of this console runs; `Recorded`: what was tried by each point and
is on record or missed, from which `TrailRefined` reads the abstract step: entries are
written, or lost, by nobody but `AuditOpened` and `AuditClosed`, and the first has always been tried when the second is.

**Live view.** `PageInv` has, besides types, `Current`: the build a forced read waits for has yet to read, or has read after the
call. For pages, as long as no forced build began during another (`~overtaken`): `OneBuild`,
and `Ahead`, that whatever may come to be shown (Docker, the cache while fresh, a build
that has read) is at least what is shown and what was already answered.

**Bridges.** `Promised`: as long as no two requests have overlapped, nothing that runs reaches the service of one
that is about to create or to start, and what it made is labelled with that service. `PorttaOpensForReal` is
about one step, and needs of the invariant only that a request lists bridges that exist.

**Dependency order.** `OrderedKeys` is a recursive function, and induction over data is out of the provers'
reach. Two things stand in for it. The relation of strict inclusion between finite sets is
well founded (the library proves it), so a family of finite sets has a minimal one (`MinimalSubset`): that gives `Min` and
`Max` their meaning (`Extremes`), induction up to a number (`UpTo`), and from "of any
services one needs none of them" that of any one is needed by none (`OneIsNotNeeded`). And a
function that is defined round by round exists and satisfies its equation (`KahnDefined`, `KahnUnfolds`). `KahnRound`
follows one round: the keys so far are distinct, and whatever holds one back is before it; `KahnEnds`:
after as many rounds as there are services nobody is ready. Hence, without a circle, `NobodyLeftOver`:
those left over would each be held back by another of them. `ByNameLists` says that `ByName`
lists each of a finite set of containers once, which answers for those in or behind a circle.

**Actions.** `OnPlan`: what was answered and what is left are the two parts of one list that is `Orderly` (every
service with every verb, in order where there is no circle, stops before starts). Neither part alone says it: the plan
shrinks, and an answer may be a failure. `Untouched`: while nothing else touched a container, the
snapshot is what Docker says, no step is for a container that is gone, and `LastAnswersAreTrue`, of which
`SuccessIsTrue` is the last state. A plan that is not of starts and stops alone has one step, so that a removal
is never followed by a step on what it removed.

## 5. Model-checked only

- Liveness: `BothSidesEnd`, `PageCatchesUp`, and of `ImplementsRecord` the closing that must
  follow an opening. Fairness and ENABLED are out of the prover's reach.
- The violations, by their nature.

Each property of a passing run has a mutant, an operator beside the definition it
would replace ("Mutant of ..."), with which TLC finds the property violated.
`AdmitsAnyEpoch`, `SuspendForTheNew`, `StartOrAlreadyStarted` and the others are not part
of any specification.

## 6. Plan

Done, in this order: `Protections`, `Registry` and `Exposure` with their proofs,
`ExposureCli`, `SiteAccess`, `Runner` and `Accounts` with their proofs; then `Console`
against `ConsoleRecord`, `EnvironmentActions`, `LiveView`, the proofs of `SiteAccess`,
`Console` and `LiveView`, `AccessBridges` and `Memberships`; then the proofs of `ExposureCli`,
`Memberships`, `AccessBridges` and `EnvironmentActions`.

Worth doing next: of `ExposureCli`, which of the panel's guarantees for aliases and shares hold while no
command is between its read and its last write, checked and proved; what two lists of Projects at
once may leave, stated; the removal of a Project in `Memberships`.

### Hazards no property covers

Besides those with a note in `PROJECT.json`:

- the router of an expired share stays until somebody acts (`shares.ts:115`);
- what Portta holds for a project is dropped when the runner starts, whatever the run then
  does (`operations.ts:267`); the code promises nothing about a removal that fails;
- `portta` renders the alias file from two reads while the panel may save between them
  (`commands/exposure.ts:61`): the missing lock of finding 2;
- ownership may be transferred to a banned account (`users.ts:399`), which `Accounts` reaches;
  a ban takes effect when the cached session ends (`auth.ts:68`), in `Accounts` and in `SiteAccess`,
  where `routes/users.ts:127` says "on that account's next request";
- the migration lock commits before the migrations run (`packages/db/src/migrate.ts:51`), and two
  processes may be in them at once;
- an account may be created and its Projects refused (`users.ts:184`), and a promotion that is cut
  off leaves rows behind (`users.ts:204`): `Memberships` reaches both;
- two overlapping openings make two bridges (`services/access.ts:435`), and `portta access gc` may remove
  a bridge that opened after it was listed (`commands/access.ts:226`): `AccessBridges` reaches both;
- a person's Projects are read once per event stream (`sse.ts:41`); containers of a scaled
  service share one node of the order (`project-order.ts:48`); `portta` starts the finished containers of a
  `compose run` again (`commands/projects.ts:667`);
- attempts already past the limiter are not stopped by the lock (`apps/auth/src/app.ts:371`); the runner's
  flag is looked for as a word anywhere in its file (`runner-exec.sh:23`).

### Not modelled, and why

- **Coverage.** The models stand for a small part of the repository's lines, and for most of
  its concurrency. The greater part of Portta renders (YAML, tables, React pages, wording),
  parses (labels, `.env`, Compose files), declares types, or runs sequences of commands for one operator at
  a terminal: nothing interleaves there and nothing is decided by what a model keeps.
- **Migrations** (`packages/db/src/migrate.ts`): two processes that migrate at once depend on the
  migrator's own transaction, a library's, and on SQLite's locks. What they do
  is not visible in this source, and a model of it would be an invention.
- **Login limiter**: how many attempts a burst gains before the count is read is a number and not an order.
- **Settings and apply, crawler policy, tunnel, cleanup**: one operator, one request at a
  time, files rendered from settings.
- **API tokens**: intersections of two lists of permissions. **Metrics**: samples nobody decides by.
- **Parts of modelled components**: `share create` of the command; persistent
  forwarders; logout, the pages and the fallback entry point of the login service; the runner's path
  for a panel without one; the event filter per person; replicas on a restart, where
  only one of them is acted on and no document says what should be.

# A verification project for hermes-cluster

TLA+ models of the lifecycle-manager of hermes-cluster (`lifecycle-manager/`)
and of what it talks to, TLC runs that check them on small instances, and TLAPS
proofs for all instances. Paths below are relative to the repository;
`internal/` stands for `lifecycle-manager/internal/`.

Run a check with `tlc -config <run>.cfg <module>` and a proof with
`tlapm <module>.tla`; `PROJECT.json` lists the runs, the map from definitions to
source lines, the mutants, the hazards, the findings and the theorems.

## 1. The system

A *session* is one `SandboxClaim` in Kubernetes (hence one sandbox, one pod, one
volume) and, with a connector block, one gateway *instance* in the relay
connector. The lifecycle-manager keeps no database. It is one process with

- an HTTP server, one goroutine per request (`internal/httpapi`);
- one sweep loop (`internal/sweeper`): at once on start, then every interval;
- a `Manager` (`internal/lifecycle`) both of them call, with a mutex around the
  cached instance list only;
- a connector client (`internal/connector`) that stops calling for 65 s after a
  429, with a mutex around that deadline only.

No lock is held across a remote call, so requests and the sweep interleave
between any two calls to Kubernetes, the connector or a pod. No write has a
precondition (no resourceVersion, no uid): every write is by name.

| Component | State it keeps | Operations | What makes it correct |
|---|---|---|---|
| Creation, decommission (`manager.go`, `sessions.go`, `sweepTTL`) | claims; instances and chat routes of the connector | Create, rollback, Get, Decommission (DELETE, TTL) | a 201 is served; a 200 for DELETE is final; the claim goes after the purge; nothing ends before its time; no half-session |
| Suspend, wake, restart (`manager.go`, `runner.go`) | `operatingMode` of the sandbox, `wake-at` annotation of the claim | Wake, Restart, sweepWake, clearWakeAt, the calls of sweepIdle | a cron fire ahead has a scheduled wake for as long as the session sleeps; a wake is not undone; a restart leaves nobody asleep |
| Idle gate (`idle.go`, `runner.go`, `state.go`) | the quiet clock | DecideIdle, DecideCron, trackQuiet, Derive | suspends only what was quiet for the whole timeout when it looked, and in no turn it could see; always in the end; no fire missed that it could read of |
| Sweep loop (`runner.go`, `effectiveDuration`) | its list, its deadline, the clocks of all names | Run, sweep, sweepTTL, pruneQuiet | no session ends before its ttlSeconds; slow pods and failing purges keep nobody else from their end or their wake |
| Exposure (`exposure.go`) | Services, Ingresses | sweepExposure, EnsureExposure | every bound session gets objects of its own |
| Reconcile report (`reconcile.go`) | the last report | Update | reports drift that is, and only that |
| Connector client, instance cache | throttle deadline; cached list | do, Instances, invalidateInstances | quiet while throttled; no list beyond its age |
| Pod bootstrap (`bootstrap.py`) | the pod's credentials | registers the gateway at every boot | keeps a registered wakeUrl |
| Agent client (`internal/agent`) | cookie jar, mutex | Status, NextCronFire, login | unknown is not idle, and costs bounded time |
| HTTP server, configuration, start | | routing, bearer check, Load, main | |
| Kubernetes, sandbox controller, connector, agent | external | | modelled by how the code uses them |

Interactions: HTTP handlers and the sweep call the `Manager`; the `Manager` and
the sweep call Kubernetes (annotations and `operatingMode` are the shared
state), the connector and the pods; the sandbox controller reacts to
`operatingMode`; the connector pokes `/wake/{session}`; a booting pod registers
with the connector behind the manager's back.

Hard behaviours: requests meeting the sweep between any two calls; decisions on
lists that are seconds old; failed calls and calls whose answer is lost; the
429 window; crashes between two calls; annotations cleared by key; clocks
sampled only at sweeps; two sweep loops during a rolling update; one deadline
for all sessions of a sweep; a name used again for another session. `PROJECT.json`
lists them as hazards, each at its line, with the properties that watch it.

## 2. The modules

| Module | Models | Composes / uses |
|---|---|---|
| `SessionContract` | abstract: what the lives of sessions promise | |
| `SessionLifecycle` | creation and decommission, step by step | implements `SessionContract` |
| `SessionLifecycle_proofs` | proofs about it | |
| `SessionServed_proofs` | the proof of `AckedSessionServed` | `SessionLifecycle_proofs` |
| `SessionCleared_proofs` | the proof of `AckedDeleteLeavesNothing` | `SessionServed_proofs` |
| `SessionRules` | `Derive`, `DecideIdle`, `DecideCron`, `trackQuiet` as operators | |
| `SleepContract` | abstract: what is promised about the sleep of a session | |
| `SuspendWake` | suspend, wake and restart of one session, step by step | `SessionRules`; implements `SleepContract` |
| `SuspendWake_proofs` | proofs about it | |
| `IdleGate` | the clocks of the idle gate and of scheduled wakes | `SessionRules` |
| `IdleGate_proofs` | proofs about it | |
| `SweepLoop` | the loop over several claims, its deadline, TTL in the width of the machine | `SessionRules` |
| `SweepLoop_proofs` | proofs about it | |
| `SweepObjects` | the sweep's Services, Ingresses and drift report | |
| `SweepObjects_proofs` | proofs about it | |
| `ConnectorClient` | throttle window and instance cache | |
| `ConnectorClient_proofs` | proofs about it | |
| `MCSweepLoop`, `MCConnectorClient` | the lifetimes asked for and the symmetry set for TLC; the other configurations need none and run the module itself | |

A module of the system has its state, its actions, its properties and its
mutants; the inductive invariants behind the properties open the proof modules.

The sweep appears in five modules, each with the part of it that meets
something: its deletions with requests (`SessionLifecycle`), its wakes and
suspensions with requests and another sweep (`SuspendWake`), its decisions with
time (`IdleGate`), its claims with each other (`SweepLoop`), its lists with what
changes behind them (`SweepObjects`).

### SessionLifecycle

A step of a goroutine is one remote call and the local code up to the next one.
`pc[p]` is the call that comes next: `provision`, `route`, `rbInst`, `rbClaim`,
`get` for `Manager.Create`; `dInst`, `dClaim` for `Decommission`; `fetch`,
`loop` for the sweep. `cur[p]` is the name it works with, `inc[p]` the uid of
the claim it created or read: the code has only the name, and `inc` is there to
say what it meant. `claims`, `instances` and `routes` are the two remote stores.
An instance is `bare` when the pod registered it and `wake` when it has a
wakeUrl. The loop over chat bindings is `SetRoute`, one binding a step, in any
order. `purged`, `created` (a connector session answered 201 that nobody wanted
gone by then), `deleted`, `asked` and `elapsed` are history.

Faults: a Kubernetes call fails (`k8s`) or is carried out and its answer lost
(`k8sLost`), the same for the connector (`connector`, `connectorLost`), a 429
(`throttle`) that opens the window until `WindowEnds`, and a crash, after which
the integration may be configured differently (`Configs`). `MaxFaults` bounds
their number. `ReuseIds = FALSE` stands for clients that let the manager
generate ids (40 random bits).

What is left out: invalid bodies and ids (answered before any call), the warm
pool, display names; `GetSandbox` within `assemble`, whose errors are swallowed.

### SessionContract

The abstract specification: sessions are uids; `Doom` (a DELETE read it or the
TTL ran out), `Purge`, `End` (only of doomed ones, and of a connector session
only once purged, while the integration is on), `TakeBack` (a create's own
rollback), `Restart` (no session changes). `KeepsContract` is its `Spec` under
the refinement mapping given at the end of `SessionLifecycle`.

### SleepContract

The abstract specification of sleep. A session is awake, or asleep in one of
three ways: `free` of any cron, `covered` by an alarm, or `contested`, where its
suspension came half way of a write. What is covered is woken by `Wake` alone
(`RestartSuspends` keeps it covered, until its second half wakes it), nobody
clears its alarm, and a suspension has to be of a session whose pod was there.
`contested` is promised nothing, but it comes only of a write and a suspension
that overlap (`meeting`). A restart that put a session to sleep last has its
second half to come. `KeepsSleepContract` is its `Spec` under the mapping at the
end of `SuspendWake`.

### SuspendWake

One session, its sandbox (`mode`), its pod, its `wake-at` annotation (`none`,
`ahead` or `past`), and goroutines whose `pc` is the next call of `Wake`,
`Restart` or the sweep. There may be several sweep loops: a rolling update runs
two processes for a while. `DecideIdle` is open here (it may say yes when the
sandbox it was shown is Running and Ready), because what matters is the order of
calls, not the clocks. The controller works towards the mode it finds. `saw` is
the annotation a goroutine read with the claim. A crash takes any subset of the
goroutines: those of one of the processes.

History: `owed` (suspended by a sweep with a cron fire ahead), `met` (sweeps
that a write met between their look at the sandbox and their patch) and
`crossed` (the last suspension was one of those, or a wake had still to clear an
annotation); `lastWrite` (who wrote the mode last; `botched` is the first half
of a restart whose second half failed or was never sent), `served` (the pod has
been ready since the last wake) and `torn` (restarts that found or made the pod
stop). Left out: malformed annotations, claims without a sandbox. The
annotation and "now" are read in one step.

### SessionRules, IdleGate

`SessionRules` translates the pure functions guard by guard, with nil pointers
and zero times as `Absent`. `IdleGate` puts them on a clock. The sweep takes a
step per call (`pc`): `SweepList` (claims and instances), `SweepWake`, `SweepPoll`
(the poll of the pod, the quiet clock, the gate), `SweepCron` (the schedule and
the cron gate), `SweepStamp`, `SweepSuspend`. Messages, turns, desktop work, cron
jobs, restarts and lost answers come between any two of them, so a turn may begin
after the poll that found the session idle; the patch does not look again.
`SweepPoll` reads the sandbox and asks the pod in one step: until the sweep's own
patch nobody stops a pod that is up (requests that do are in `SuspendWake`).
`CronConfigured` is whether there are credentials: without them the cron gate is
skipped (`CronGuarded`) and a session is suspended with no wake. `active` is when
the agent last did anything: what the code tries to know from samples. `Load`,
the one check of the configuration that relates two durations, is an assumption.
`Outages` chooses what may go wrong: the instance list missing, pods unreachable
or schedules unreadable, the connector forgetting its activity, the manager
restarting. `MaxGap` bounds for how long sweeps may go without an instance list.

History: `listedAt` is the last such list, `upset` the last outage that held a
suspension up, `worked` the agent's last work as of the sweep's last look at a pod
that was ready, `fresh` a turn that began after that look, `unread` a cron fire
that was set up after the schedule was read. The properties need the last three:
what the agent begins behind the back of a sweep that has looked is cut off, and a
job it sets up then is missed; no code could keep more without asking again.

A tick waits for a sweep that is due, for the controller and for a boot, and a
sweep does not outlast a tick: these are the timing assumptions, and the constants
name them. The calls of a wake, requests that meet a suspension half way and
failed calls to Kubernetes are in `SuspendWake`.

### SweepLoop

One sweep: `SweepStart` lists the claims and fetches the instances, `SweepNext`
treats the next claim or forgets the quiet clock of a name that is not listed
(`pruneQuiet`), in the order of the list. `Treat` is the turn of one claim:
sweepWake, sweepTTL with its purge, sweepIdle with its poll and, if the session
is idle, the requests for its cron schedule (the jobs and, on a 401, a login and
the jobs again). Each request takes no time or
its full timeout (to a pod, any time up to it), `After` adds it up and cuts it at
the deadline `Cycle`; past it (`Late`) every call fails, as a context past its
deadline makes it. A purge is refused or fails at any time, and one that takes its
whole timeout has failed (`Answers`, `Ends`): the claim stays for the next sweep.
`putOff` is history: when the last purge of a session's claim failed for another
reason than the deadline (`PutsOff`), which excuses that session and nobody else.
Calls to Kubernetes take no time and fail past the deadline only. A session that
was just ended may still be polled and suspended in the same turn. Names are used
again (`Create`), also between two turns of a sweep.

`Wrap` is two's complement with `Half` values on either side of 0. TLC runs it
with `Half = 8` and thirds of a second, which has the shape of 2^63 nanoseconds:
whole seconds up to 2 fit, those above wrap round.

### SweepObjects

What a sweep does from its lists without asking again. An object belongs to a
claim by uid, so `service`, `ingress` and `list` only say whether an entry is
that of the claim that has the name now (`Own`) or of an earlier one (`Old`,
which Kubernetes collects), in the list also `Bare` for a claim that had no
sandbox. The steps are the calls: ListClaims, Instances (from the cache, from
the connector, or failing), the Service and the Ingress of each claim in turn,
the report every `Every`-th sweep. Any of them may fail, and the process may
crash in between. `stale` and `missed` are history: the ids that changed since
the older of the two lists was taken, and those whose turn in this sweep failed
or met an object of an earlier session (which counts as already there). Sessions that are terminating are not told from those
that are gone; what the objects say is left out.

### ConnectorClient

Goroutines that call `Instances` or write to the connector. `Gate` is the check
at the top of `do`, `Handle` the connector, `Finish` what the caller does with
the answer. `made` and `cached` carry the time at which the connector made a
list, to measure how old it is when used. A request its caller has given up is
not handled any more. `Reachable`, which only `GET /status` asks, is left out: it
goes past `do` on purpose, without a token (`http.go:47`), so it neither opens the
window nor is kept back by it.

## 3. The runs

Runs that pass:

| Run | Shows | Bounds |
|---|---|---|
| `lifecycle` | types; `AckedDeleteIsFinal`; `AckedSessionServed`: a 201 stays true until somebody wants the session gone; `AckedDeleteLeavesNothing`: a 200 for DELETE leaves neither a chat nor a gateway with a wakeUrl of an announced session; `EndsOnlyWhenDue`; `KeepsContract`; `ExpiredSessionEnds`: past its TTL a session goes | 1 id, 1 claim, 2 requests and a sweep, any 2 faults |
| `suspend_wake` | types; `CronCoveredAlone`: a session sleeping before a cron fire has its wake scheduled, but for a suspension met half way; `UndoneOnlyHalfWay`: a wake is undone before its pod was ready only by a suspension decided before it; `RestartEndsAwake`; `KeepsSleepContract`; `CronSuspensionEnds`: a session that owes a fire wakes again | 1 request at a time, 2 sweep loops, any 2 faults (the proofs: any number of each) |
| `idle_gate` | types; `SuspendsOnlyQuiet`: what is suspended had been quiet for the whole timeout when the sweep looked; `CutsOnlyNewTurns`: a turn that is cut off began after that; `CronServed`: no fire is missed that the sweep could read of; `SuspendedInTime`: idle sessions do sleep, in bounded time after the last outage | 13 ticks; timeout 4, interval 1, recency 3, horizon 3, margin 2, boot 1; fires 11 ahead; credentials set; all outages, no instance list for at most 2 ticks |
| `sweep_loop` | types; `EndsInTime`: a sweep that starts past a session's TTL ends it, or its own purge failed; `AwakeInTime`: one that starts past its wake-at wakes it; `NeverTooEarly` | 2 sessions, 2 claims, 11 ticks; deadline 8, a call 1, interval 3, idle timeout 2, lifetimes none (1 s), -1, 0 and 2 s, the longest that fits |
| `sweep_objects` | types; `SweepExposes`: a sweep leaves every session it listed as bound with both objects unless a call of its turn failed or an earlier session's object was in the way; `ExposureFollows`: it has them in the end; `ReportIsExact`; `DriftReported` | 1 session, every second sweep reports, any 2 faults |
| `client_shared` | types; `WindowIsShut`; `NeverTooOld` | 3 goroutines, 6 ticks, window 3, cache 2, timeout 2 |

Why the bounds are enough. Sessions share the throttle window, the sweep's
deadline and nothing else, so one id shows every interleaving on a session
(`lifecycle`, `suspend_wake`, `sweep_objects`: the claims of a list share only
their turns and the bound on faults) and two show what the first costs the
second (`sweep_loop`). Two requests and a sweep, or a request and two sweeps,
are the parties that can meet; two faults are what it takes to fail a step and
its recovery (a lost answer and a crash, a 429 and a failed read). The clocks
are long enough for two full idle timeouts and for a suspension, its wake and
the fire (`idle_gate`), or for two claims of one name, each with its sweep
(`sweep_loop`). There the cost of both sessions is below the deadline, as
`EndsInTime` and `AwakeInTime` need it (`Roomy`). Both speak of one sweep, so what
is needed of the clock is a session, its end or its suspension, and the sweep
that comes after; the bound on the time itself (`BoundedDelay`) is longer than the
run and is proved instead (`DelayBounded`). In `client_shared` a window opens, is
overrun twice, extended and closes.

Runs that end in a counterexample, each about one sentence of the
documentation, a comment, or the configuration check (quoted in
`PROJECT.json`):

| Run | What the code does |
|---|---|
| `rollback_throttled` | a 429 in a create makes its own rollback's purge refuse itself; the claim goes, the gateway stays |
| `delete_not_retried` | a failed DELETE is retried by no sweep without a TTL |
| `ttl_by_name` | a sweep ends the successor of the expired session it listed |
| `cron_lost` | a wake that read the schedule a sweep has just written patches before the sweep suspends and clears the schedule after it |
| `quiet_gap` | sweeps without an instance list keep the quiet clock running unobserved; the agent remembers work for longer than an interval there, and with `MaxGap` at 2, or no list missing, the property holds |
| `restart_noop` | a restart whose first half failed, or whose halves the controller sees as one, replaces no pod and is answered 200 |

Several passing properties are the complement of one of these:
`CronCoveredAlone` and `KeepsSleepContract` of `cron_lost`, `idle_gate` (where lists come more often than
the agent forgets: `Watched`) of `quiet_gap`, `EndsOnlyWhenDue` and the theorem
`ZeroTTLLives` (ids not used again) of `ttl_by_name`, `AckedDeleteLeavesNothing`
(announced sessions) of what a DELETE amid a create leaves, `RestartEndsAwake` of `restart_noop`, the theorem `FailuresRolledBack` (one
request, one failure) of `rollback_throttled`: together they say under which
condition the promise does hold.

Seen while modelling, as behaviours of the modules without a run of their own:

- a create whose last read fails answers 502 and leaves the session
  (`manager.go:160`; docs/api.md:34), and a DELETE, or a sweep at the end of
  a short TTL, between CreateClaim and Provision leaves a gateway without a claim
  (`manager.go:123`): `NoHalfSession` again, with `FaultKinds = {"k8s"}`, or with
  a second handler or a sweep and no fault;
- a pod that boots between the two halves of a rollback registers the gateway the
  first half has purged (`manager.go:149`): `NoHalfSession` with `SelfProvision`
  and one `"connector"` fault;
- a crash between CreateClaim and Provision leaves a session whose pod registers
  a gateway without a wakeUrl, which no sweep ever adds (`manager.go:117`;
  docs/architecture.md:152);
- a suspension decided before a wake undoes it (`runner.go:218`; docs/api.md:87);
- a restart whose second patch fails leaves the session suspended
  (`manager.go:229`), the one case `RestartEndsAwake` leaves open;
- a turn, or work of the agent, that begins between the poll of the pod and the
  patch that suspends it is cut off (`runner.go:181` to `218`; idle.go:27 says
  "never mid-turn"): up to six requests lie between, and the patch looks at
  nothing again. What `CutsOnlyNewTurns` and `SuspendsOnlyQuiet` say is what
  remains;
- without status polling (`StatusEnabled = FALSE`) a turn that began after the
  instance list was taken, and before the sweep looked at the sandbox, is cut off
  as well: `CutsOnlyNewTurns` (`runner.go:78`);
- with polling and no credentials (`CronConfigured = FALSE`, as config.go:48-49
  has it) a session with a cron fire ahead is suspended with no wake and the fire
  missed: `CronServed` (`runner.go:194`);
- with a sweep interval above the margin less the boot time, which `Load`
  accepts, a scheduled wake comes after its fire: `CronServed` (`config.go:174`);
- calls past the throttle check go out in another call's window
  (`http.go:75`): what `WindowIsShut` bounds;
- a `ttlSeconds` above 9223372036 does not fit into a time.Duration and wraps
  round: the session may end at once (`manager.go:276`; the assumption `Fits` of
  the theorem `NoneTooEarly`, and every lifetime of the run satisfies it);
- pods that together take longer than the 30 s of a sweep keep the claims behind
  them in the list from their TTL, their wake and their objects, in every sweep, as
  the order of the list is always the same (`runner.go:67`; agent/http.go:24-28
  says the opposite of a single pod): `EndsInTime` with `Poll` raised. By default a
  pod costs 3 s if it does not answer (ten fill a sweep), up to 12 s if it answers
  four requests slowly (three do), and a call to the connector up to 15 s;
- the jitter is 95 % to 105 % of the interval, its comment says ±10 %
  (`runner.go:58`);
- `ListenAndServe` returns as soon as `Shutdown` is called, and main with it, so
  a stop cuts requests off whatever the grace period (`main.go:111`): a `Crash`
  here;
- an instance list that failed is not cached, so with the connector away the
  list endpoint waits for a timeout per session (`manager.go:309`);
- one claim that does not parse fails the list for all (`dynamic.go:114`);
- a cron job set up after the schedule was read is missed (`runner.go:195`):
  `CronServed` leaves it out (`unread`).

Each property of a passing run has a mutant, a plausible bug in one mapped
definition (defined above it, with a comment) that makes the run fail.

`sweep_loop` switches the deadlock check off, because there everything may stop
at the bound of time; the others keep it: requests can always come, and clocks
at their bound leave the other actions enabled.

## 4. Fairness

Liveness is checked under weak fairness of: each goroutine's next step (Go
schedules them, and every client has a timeout, so a call comes back), the sweep
loop (its ticker; `Run` ends only with the process), the end of the throttle
window and the passing of TTLs and wake times (time), the sandbox controller and
garbage collection (Kubernetes reconciles), the expiry of the cached list
(`DriftReported`; it is read again only then). Requests, faults and a positive idle
decision need not happen. `MaxFaults` makes faults finite, which is what a retry
loop needs: with calls that always fail nothing can be promised.

## 5. The proofs

`SessionLifecycle_proofs`, for every set of ids, chats, requests and sweep
loops, any number of faults and claims, from the named assumptions of the module
(requests are not sweeps, `NoId` is no id, the switches are Boolean):

- `TypeCorrect`: `Spec => []TypeOK`.
- `BaseInvariant`: `BaseInv` is inductive. `AckedDeleteIsFinal` is not inductive
  by itself: DeleteClaim marks the claim that has the *name*, and records the
  uid the goroutine *read*. What connects them is `LocalInv` (a uid a goroutine
  holds is found at its id or nowhere) with `ClaimInv` (uids are never given
  twice). `DeleteIsFinal` follows, with ids used again or not.
- `EndsWhenDue` and `ContractKept`, for `~ReuseIds`: `OnceInv` adds that the
  claim at a goroutine's id is still the one it read (`SameClaimInv`, which a
  reused id breaks: run `ttl_by_name`), that Decommission works on doomed
  sessions (`DoomedInv`) and gets to `DeleteClaim` behind a purge (`PurgedInv`).
  `ZeroTTLLives` adds that a TTL that ran out was there (`MortalInv`).
  `ContractStep` then maps every step to a step of the contract or a stutter,
  action by action.
- `FailuresRolledBack`: where `NoHalfSession`, which `rollback_throttled` refutes,
  does hold: one request at a time, no sweep, pods that do not register
  themselves, and one failure, of the connector or of the process (`Alone`).
  Each part is needed: TLC violates `NoHalfSession` with any one of them dropped
  (a 429 or a failed Kubernetes call, a second failure, a second request, a sweep,
  a pod that registers itself; section 3). `RollbackInv` says why it holds: the failure that leads
  to a rollback is the only one, and the claim and the gateway it works on are
  those of its own create.

`SessionServed_proofs`, from `BaseInv` and `OnceInv`, for `~ReuseIds`:

- `SessionServed`: `AckedSessionServed` through `ServedInv`. A gateway is lost
  to a rollback or a purge only (`RelayStep`). A rollback is of a session that
  is still being opened, hence not announced (`UnannouncedInv`) and, by
  `SameClaimInv`, not another one of the same name; a purge is of a doomed one.
  That the promise held when it was made is `GatewayInv` and `BoundInv`; that a
  garbage collection takes no announced session nobody wants gone is `TermInv`,
  and that no other create announces its uid, `AnnouncedInv`.

`SessionCleared_proofs`, from those three, for `~ReuseIds`:

- `DeleteLeavesNothing`: `AckedDeleteLeavesNothing` through `ClearedInv`.
  `NameInv` says that a goroutine and another, or a claim, mean the same session
  by the same name, also when the claim is gone and while a reply is still to be
  written. `MarkInv`: an announced session records its connector, so
  Decommission gets past `dInst` only with its purge confirmed. `CleanInv`: what
  was purged of an announced session stays away, because only a create registers
  or binds (`EmptiedStep`), and its name is in no create's hands any more. It does
  not hold for a session that was asked away while being created: there the
  purge may come before `Provision`.

`SuspendWake_proofs`, for any number of requests, sweep loops and faults:

- `TypeCorrect`.
- `CronKept`: `StampInv` is inductive; it says besides the property that nobody
  is about to clear the annotation of a session that sleeps on it, that a sweep
  past the Ready check works on a session nobody put to sleep, and that a sweep
  nobody met suspends with its stamp in place. A sweep that another one met is
  one that a write met: `crossed` covers both.
- `WakesServed`: a suspension nobody met found the pod ready, so `served` holds
  unless it was decided before the wake.
- `RestartsEndAwake`: whoever wrote the mode last is a wake, a sweep, or a
  restart with its second half to come.
- `SleepContractKept`: every step is a step of `SleepContract` or a stutter, from
  `StampInv` (a covered session has its alarm, and no goroutine is about to clear
  it), `ServedInv` (who decides to suspend saw the pod), `ContestedInv` (what is
  contested sleeps) and `RestartEndsAwake`; `SleepStep` goes through the actions.
- `CronKeptUnmet`: with one sweep loop and no requests nothing meets
  (`NextUnmet`), so `CronCovered` itself holds, which `cron_lost` refutes as soon
  as there is one request: neither faults nor crashes can lose a schedule alone.

`IdleGate_proofs`, for every configuration, any set of outages and all lengths of
time. All four properties the run `idle_gate` checks, each from an invariant of
its own:

- `TypeCorrect`; `OnlyNewTurnsCut`, with polling: `DecidedInv` says that past the
  gate (`Decided`), and while the sandbox is suspended, any turn in flight is one
  that began after the poll, whatever the age of the list; a restart of the manager
  in between changes nothing of that.
- `OnlyQuietSuspends`, under `Watched` (polling is on, and a sweep with an
  instance list comes again before the agent forgets). `GapInv` bounds the time
  between two of them, `QuietInv` says that the only activity the quiet clock
  does not know of is from after the last sample: the next one still sees it.
  `DecidedQuietInv` carries what the sweep found at the poll to its patch.
- `FiresServed`, under `Timely` (the schedule is read at all, and interval and
  boot fit into the margin), from `CronInv`: a session that sleeps before a fire
  has its wake scheduled at the fire less the margin and has not slept an interval
  past that; a sweep about to suspend has the plan or the stamp for it; one that
  boots is ready by the fire. `LoadAssumption` (the horizon is not below the
  margin) is what puts the wake behind the suspension.
- `SleepsInTime`, without a condition, from `SleepInv`: the clock starts with
  the first sweep after the agent has forgotten, and a sweep after that finds
  every guard satisfied (`WaitsFor` names the guard that is not).

`ConnectorClient_proofs`, for any finite set of goroutines and all lengths:

- `TypeCorrect`; `ListsAreFresh` from `AgeInv`: a list was at most a timeout old
  when it went into the cache, whichever answers overtook it.
- `WindowShuts` from `ShutInv`: while the window is open the requests counted
  and those in flight are together fewer than the goroutines. Requests in flight
  get no more because `Gate` is shut; the one whose 429 opened it is idle.

`SweepObjects_proofs`, for every number of sessions, failures and crashes:

- `TypeCorrect`; `ReportsExact` from `ListInv`: the list, the view and the cache
  each differ from what there is only in ids marked stale since they were taken.
- `Exposes`: `SweepExposes` through `ExposedInv`, which says of each session
  before the one whose turn it is that it has both objects, and of that one, with
  its Ingress to come, that it has its Service. They stay: an object goes only
  with its claim, which takes the session from those listed.

`SweepLoop_proofs`, for every number of sessions and all durations:

- `TypeCorrect`, and `NoneTooEarly` from the types and the assumption `Fits`: a
  lifetime that fits is what `Wrap` returns, and the sweep's "now" is not ahead
  of the time.
- `EndedInTime` and `WokenInTime`, under `Fits` and `Roomy`: the calls to the
  connector and the turns of all sessions but the last fit below `cycleTimeout`.
  A turn costs at most a purge, failed or not, and four requests (`TreatCost`): the
  status poll, and three for the crons of a gated dashboard (a refusal, a login,
  the answer). `PaceInv` bounds the time by the turns taken, so every session of
  the list has its turn, with time for its purge, before the deadline
  (`RoomForTurn`); `TurnInv` says that one that had its turn, or came too late for
  it, is by this sweep's "now" not due or put off by a purge of its own, and one
  still to come was not due by the last one's. `DelayBounded` turns that into a
  bound on the time: an interval and two deadlines.
  With the defaults of the repository (30 s for a sweep, 15 s for a call to the
  connector, 3 s for a request to a pod) `Roomy` holds for up to three sessions if
  the connector answers at once, and for no number of them if it is as slow as its
  timeout allows: what a slow pod or a slow connector costs the sessions behind it
  in the list has no bound.

Each inductive invariant was itself checked by TLC on the instance of its run
before its proof.

Only model-checked: the liveness properties `ExpiredSessionEnds`,
`CronSuspensionEnds`, `ExposureFollows` and `DriftReported` (fairness and ENABLED
are beyond the prover). No module has recursion, so nothing rests on induction over data.

## 6. What is not modelled, and the plan

Not modelled because there is nothing to check: the chart, the drills, the test
double, logging, the read-only endpoints, JSON and unstructured conversion,
configuration parsing beyond the one check that relates two durations.

Not modelled for other reasons: the exchange of a login (`getWithLogin`, its
cookie jar and mutex). One goroutine uses it, one pod at a time, and every error
of it puts the suspension off; `IdleGate` has that outcome, `SweepLoop` the time
it may take. PatchInstance, Revoke, ListRoutes and DeleteRoute have no caller.
The retry loop of `bootstrap.py` and the file it writes: only its registration
changes state that the manager sees.

What does not hold, and is therefore not stated: that a client which creates a
session and lists then finds its gateway. A list in flight when a write empties
the cache goes into it afterwards, with a fresh timestamp (`manager.go:309`);
`NeverTooOld` bounds for how long it is used.

Nothing of the system's own logic is left out of the plan.

# TLA+ models of FeOS and FeRun

FeOS is a node operating system for pods in microVMs (Rust, `src/crates/`);
FeRun is its control plane (Go, `src/go/`): replicas of `ferund` that share
one PostgreSQL database and call the nodes' services over gRPC. This directory
models the parts whose correctness depends on the order in which replicas,
nodes, clients and the database act. It contains TLA+ modules, TLC
configurations and TLAPS proofs; `PROJECT.json` maps every definition to the
lines it models.

Contents: [inventory](#inventory), [plan](#plan), [the modules](#the-modules),
[runs](#the-runs), [bounds](#bounds), [fairness](#fairness),
[proofs](#proofs),
[disagreements](#disagreements-with-comments-and-documents),
[not modelled](#not-modelled).

## Inventory

| Part | State it keeps | Operations | What makes it correct | Module |
|---|---|---|---|---|
| Leader election (`go/internal/leader`, `store/leases.go`) | one lease row (holder, epoch, expiry); each replica's term and step-down deadline | acquire, renew, lead, resign, fence a transaction | one leader at a time by the replicas' own clocks; a fenced write commits only in the epoch it checked | Leader, Fencing |
| Instance registry (`leader/heartbeat.go`, `store/instances.go`) | one row per replica: last seen, stopping | claim an ID, beat, mark stopping, expire | an ID has one live process; what a dead one had in flight is released | Sandbox |
| Sandbox engine: ops (`sandbox/op.go`, `begin.go`, `finish.go`, `change.go`) | the sandbox row (state, node, op columns, checkpoint, gen); the runner's handles | begin, join, take over, preempt, call, observe, finish, roll back, release | at most one op passes the fence; no transitional state without an op; a sandbox with content is not created anew; every op ends | Sandbox, Pod |
| Sync and reconcile (`sandbox/sync.go`, `reconcile.go`) | none of their own between the reads and the write | read row and pod, apply; list a node's pods, apply, find orphans | late observations do not overwrite newer rows | Sandbox |
| Tombstones (`sandbox/tombstone.go`, `store/tombstones.go`) | rows (pod, node, incarnation) | write, GetPod, DeletePod, drop, retry | never the pod of the row's own place; every pod without a row goes | Sandbox |
| Leader loops (`sandbox/loops.go`) | none | down sweep, lost grace, stale ops, tombstones, idle, hibernate-after, drain, repair | what a lost node or a dead replica leaves gets a state with a way out; no pause under use | Sandbox, IdlePause |
| Placement and bookings (`sandbox/placement.go`, `store/bookings.go`) | one booking per sandbox; nodes' capacity | choose, claim, book, resize, drain | the booking is where the memory is used; no claim overbooks a node or takes one that is draining or gone; no row lacks the node its state needs | Placement, Sandbox |
| Ensure, holds, idle policies (`sandbox/ensure.go`, `holds.go`) | hold rows, last activity | bring to running, hold, renew, release, idle pause | a held sandbox is not paused; an unused one is | IdlePause, Holds |
| Ingress holds (`go/internal/ingress/proxy/holds.go`, `ingress/service`) | holds of an ingress, its last contact | admit, renew, release, fence | no idle pause freezes a request that is held | IngressHolds |
| Tool calls with an id (`go/internal/tools`, `store/tool_calls.go`) | rows of keyed calls with leases, in-memory calls and waiters | begin, join, renew, finish, abandon, cancel, drain | a key reaches the guest in one run; verdicts are exact, final and agree; every waiter gets an end | KeyedCalls |
| Pod service (`crates/services/pod-service`) | a record per pod: spec, state, checkpoint epoch; the slot of its hibernation | create, start, suspend, resume, hibernate, abandon, restore, delete | changes run to their end whatever their caller does; a resume abandons a hibernation or comes after its head | Pod, Hibernations |
| Disk store and diskd (`crates/disk-store`, `crates/diskd`) | heads, manifests, chunks; markers, journals, cache, pins | seal, push, put head, restore, evict, sweep | a checkpoint is whole; no pod loses the last copy of a chunk | DiskStore |
| Fleet and fleet client (`go/internal/fleet`, `crates/fleet-client`) | nodes' rows and certificates; a node's directory | join, renew, check, present, remove, set aside | one holder of a name; no node is taken for a fork of itself | NodeCerts |
| Node links, watches, environments, domains, activity and sink, APIs, Kubernetes parts, other node services, feosd, CLIs, web, deployment, generated code | | | see [not modelled](#not-modelled) | |

How they interact. A request reaches any replica, which begins an *op* on a
sandbox in one transaction, calls the sandbox's node, watches the pod until the
op's goal or deadline, and finishes in a second transaction. Beside the
requests, nodes send events that lead to syncs; every replica looks for its own
orphaned ops; and the leader runs the loops over all rows. The replicas share
nothing but the database. A node knows nothing of rows: it is told what a pod's
labels are and does what calls say, in the order they happen to arrive. What
uses a sandbox (a tool call, a forward, an ingress's request) holds it, which is
a row that the idle loop reads; a hibernation of a pod asks diskd to push its
disks to the bucket, from which any node restores it.

What is hard, and why it is hardly tested: between any two transactions the
other replicas act; a call outlives its caller; the answer of a COMMIT may be
lost; an instance may be taken for dead while it runs; a pod ID is used again
by a new incarnation of a sandbox; a node may be lost, or come back long after
its sandboxes went elsewhere; a push trusts what an earlier one marked; a
sweep deletes by what it listed. `PROJECT.json` lists these hazards at the lines
where they bite, with the properties about each.

## Plan

1. **Leader, Fencing** (written, proved): the lease, on which every leader
   loop rests, and the abstract specification that the loops may rely on.
2. **Pod, Sandbox** (written, safety proved): the lifecycle of one sandbox with
   all that writes its row. It is the core of the control plane.
3. **KeyedCalls, Placement, IdlePause with Holds and IngressHolds,
   Hibernations, DiskStore, NodeCerts** (written, checked). Proved: the safety
   of KeyedCalls, Placement, Hibernations, DiskStore and NodeCerts.
4. Left: the action properties of Holds and IngressHolds. An
   abstract specification *OpLock* (one op at a time, named by a token) that
   Sandbox implements would be the next refinement. Node links, watches and
   environments have no module.

`Sandbox` extends `Pod`; `Leader` instantiates `Fencing`; `Holds` and
`IngressHolds` instantiate `IdlePause`. The `MC*` modules add symmetry sets and
the values of constants that are functions. No module that is proved about
declares a recursive operator.

## The modules

### Leader and Fencing

`Leader` has one action per statement or step of `Elector`: `TryAcquire` to
`Lead` is `tryAcquire`, `RenewSend`/`RenewLease`/`Renewed` is `renewLoop`,
`EndTerm`/`LoopsDone` the end of `lead`, `Resign`/`ResignRelease` is `Resign`,
and `TxBegin`/`TxCheck`/`Fence`/`TxCommit` a loop's transaction under `Fence`. A
statement is sent, begins (PostgreSQL freezes `now()` there), takes effect, and
is answered; its client may give up in between. `lease` is the row, `term`,
`last`, `running`, `resigned` and `resign` are the elector's fields, `stmts` the
statements nobody waits for any more. Clocks: differences of time are the same
on all clocks up to `Drift`, which must not exceed `StepDownMargin`.

`Fencing` is the promise without clocks: numbered terms, one holder each, and
writes only by the holder of the present one. `FencedSpec` says that `Leader`
implements it (the epoch and holder of the row, and the last fenced write).

### Pod

What a node's PodService makes of a pod's record for each call (`Served`), as
the set of records it may leave. A hibernation may fail and leave the pod
suspended; a restore adopts the checkpoint's record first and may stop there.
Calls are a set: they arrive in any order, late or never, because
`Pods::detached` runs each change to its end whatever the caller does.

### Sandbox

One sandbox ID over its incarnations.

| Variable | Code |
|---|---|
| `row` | the `sandboxes` row; `op`, `opId`, `owner`, `target`, `from` are its op columns, `mat` is `materialised`, `lost` is `lost_from` |
| `booking`, `tombs` | `bookings` and `pod_tombstones` of the pod ID |
| `handles`, `reg` | the `OpHandle`s and the runner's map `ops` |
| `proc`, `live` | the processes; their rows fresh and not stopping |
| `calls`, `pods`, `status` | calls under way, pods on the nodes, `nodes.status` |
| `looks` | syncs and reconciles between their reads and their write |
| `reaps` | `runTombstone`s between GetPod, DeletePod and the drop |
| `known` | history: the incarnation's pod was seen once |

| Actions | Code |
|---|---|
| `CreateSandbox`, `Delete` | `store.CreateSandbox`, `Engine.Delete` |
| `Begin`, `BeginLost` | `runner.start`, `beginOn`; the second loses the COMMIT's answer |
| `Takeover`, `Preempt` | `runner.takeover`, `preemptHibernate` |
| `Send`, `Observe`, `Finish`, `FinishLost`, `Rollback` | `execute`, `watchPod`, `finish` with `applyOutcome` and `fencedOut`, `rollback` |
| `Serve`, `Lose`, `BringUp`, `PodStops`, `PodVanishes`, `NodeDown`, `NodeUp` | a node |
| `SyncRead`, `SyncApply`, `ListPods`, `ReconcileApply` | `syncOnce`, `ReconcileNode` |
| `ReapGet`, `ReapDelete`, `ReapDrop`, `ReapFails` | `runTombstone` |
| `ReleaseOp`, `ReleaseOverdue`, `DownSweep`, `LostGrace` | `orphans`, `staleOps`, `DownSweep`, `LostGrace` |
| `Stop`, `StopReleases`, `Exit`, `Crash`, `Expire`, `Beat`, `ClaimInstance` | the instance |

Abstractions. A transaction holds the sandbox's row lock throughout, so it is
one step. `gen` is only compared with an earlier read, so readers carry a flag
that a lifecycle write clears (`Overtaken`, `SameGen`); a sync that finds it
cleared reads again. A sync's read of the row and its GetPod are one step, since
the write only goes into a row that has not changed since. Deadlines and
timeouts are choices: an observation ends whenever it ends, with or without an
answer. Which node a placement prefers, and whether capacity refuses, is a
choice here (`Placement` has it); the gates about the sandbox itself are not. A
tombstone's `not_before` only delays it and is left out, as are runs, activity
and the content of a pod's spec. Failed and stopped pods are one state (every
reader treats them alike). An op ID is taken again once nothing refers to it,
which is how a finite set stands for random UUIDs.

### Placement

Several sandboxes on the nodes' capacity, statement by statement. `Place` reads
a snapshot without locks and lists candidates. `Begin` (create, restore),
`BeginPinned` (start, resume) and `preemptHibernate` open a transaction on a
sandbox's row that claims a node: `LockNode` waits for the node's row, `Check` is
the claim's gates under that lock, `Commit`/`Abort` end it. Every other write of a
row goes through `Change`, which is `commit` with `syncBooking`: begins of ops that
claim nothing (`BeginOwn`), ends and releases of ops (`Finish`), `Rollback`, syncs
and reconciles (`Sync`), `DownSweep` and `LostGrace`. What a node answers is a
choice: the states of `observeOurs` (a pending pod writes `creating`, without a
claim) or `notFound`, whose choice stands for the checkpoint and `materialised` of
the row. Where the new state uses a node without a booking, the write is a
transaction of several steps too, which books past the gates and marks what did
not pass them. Drains, settings, expiries and removals of nodes come at any point.
`Total` is the memory that a set of pods takes; all that is assumed of it is that
more pods take no less. Left out: `failed` (every reader treats it as `stopped`), and op ids
and owners, which `Sandbox` has.

### KeyedCalls

One key of one sandbox, over the runs that its row names.

| Actions | Code |
|---|---|
| `Join`, `JoinAgain`, `Begin`, `BeginFails`, `LateInsert`, `Abandon`, `Register`, `Refused`, `Existing` | `callKeyed`, `join`, `BeginToolCall`, `AbandonToolCall`, `startKeyed`, `refused`, `existing` |
| `WaitLocal`, `WaitRow`, `WaiterExpires`, `Leave` | `waitLocal`, `awaitRow`, `ExpireToolCall`, a request that ends |
| `Acquire`, `Gate`, `GateFails`, `Send`, `GuestRuns`, `Await` | `callRun` and its attempts, `gate` with `MarkToolCallSent` |
| `Finish`, `FinishFails`, `Stored`, `StoredFails` | `finishKeyed`, `storedOutcome`, `settle` |
| `Renew`, `LeaseOut`, `RenewalsFail`, `LeaderExpires`, `Retention` | `renewCallsOnce`, leases, the leader's loops |
| `CancelNotify`, `CancelLocal` | `CancelCall`, `cancelLocal` |
| `BeginDrain`, `Drained`, `Cut`, `Exit`, `Crash`, `Claim` | `Drain`, the end of an instance, `EndInstanceToolCalls` |

A run that has returned keeps only what is read again. A statement whose answer
is lost may have committed, may commit later (`late`), or never.

### IdlePause, Holds and IngressHolds

`IdlePause` is a sandbox's row with its holds and the leader's loops that pause
it: a loop selects (`Select`, `SelectDrain`), and the pause begins later and
looks again (`IdleBegins`, `DrainBegins`, `BeginFails`); outages and failovers of
the leader reset `quiet`, which the guard compares. Time passes in units of the
renewal interval. `Holds` instantiates it with the exec and forward holds of the
instances, which acquire, are admitted, renew and release, and with the holds
that stand for background processes. `IngressHolds` instantiates it with an
ingress: its admit, renew and release calls are sent, executed and answered, may
time out and be executed later (`orphans`), its connection may be cut, half open
or new, and the fence (`Open`) spares the services of an ingress that was seen
and is not any more. While the connection is half open, ferund's heartbeat
succeeds and records the ingress as seen, until the keepalive ends it.

### Hibernations

The hibernations of one pod on its node, over its incarnations: HibernatePods
refuse, join the slot or start a task (`Refuse`, `Join`, `Start`); the task
queues for the pod's fair lock, decides, suspends, works, enters its head, leaves
or fails, ends its slot and unlocks; a resume requests an abandon and queues; a
delete and a new create change the incarnation; answers are lost and calls sent
again with the same id.

### DiskStore

A pod's disks in the bucket. `Hibernate`, `Seal`, `PushChain`, `PushChunk`,
`Mark`, `PutManifest`, `MarkLayer`, `PutHead`, `Leave` are the steps that feosd's
hibernation asks of diskd, `Abandon` and `CutOff` its ends without a checkpoint,
`Restore`, `Create`, `Delete` (of a pod on a node or a hibernated one, with its
volumes) and `Evict` the rest of a disk's life, and
`SweepHeads` to `SweepUnmark` a sweep at one of the nodes. `Tick` ages what is in
the bucket and the journals. `Faults` names what may happen once beside that: a
hibernation cut off past its first head, a sweep that stops (with any part of its
pass's deletions done and none of their markers dropped), contents that were
deleted written again, a sweep that others overlap. A pod is hibernated after it
has booted, so every volume is sealed at the new epoch (see
[not modelled](#not-modelled)).

### NodeCerts

One node name. On the database: `Begin`, `Join`, `Renew` (transactions whose
`now()` is frozen when they begin; it is the `issued_at` of what they issue and the
`revoked_at` of what they revoke, and a revocation is in effect for them if it is
not later), `Check`, `Fork`, `OnPresented`, `GraceEnds`, `RemoveNode`,
`TokenLapses`. On a machine: `Start`, `JoinKey`, `SendJoin`, `SendRenew`,
`StoreChain`, `StoreState`, `Present`, `Denied`, `SetAside`, with `GiveUp`,
`Lose`, `StoreFails` and `Crash` between any two of them. An operator puts a
pinned token on another machine (`PutToken`) or copies a directory (`Copy`).

`late` is history: a renewal that began before the last pinned join was issued
after it. Checks, forks, presentations and removals begin and take the row's lock
in one step, so only joins and renewals overtake one another. A node renews with
the key that it has stored (`Runner::renew`), so a renewal carries that key here;
the server would also take a new one (`renew.go:20`,
`docs/architecture/control-plane.md:623`, `fleet.proto`), which would let one
holder have certificates for two keys until the older is superseded. A channel
that was open before a renewal may redial with the older certificate for seconds,
within its grace; here a machine presents its newest alone.

## The runs

| Run | Question | Properties |
|---|---|---|
| `leader` | two instances compete over two epochs with late statements, lost answers, a crash, a stop or a resignation at any point | `AtMostOneLeader`, `LeaderHoldsLease`, `FenceHolds`, `FencedSpec` (refinement), `TypeOK` |
| `sandbox_moves` | a sandbox moves between two nodes while syncs, reconciles and tombstones of earlier places are under way and calls are late or lost | `NotCondemned`, `CheckpointKept`, `TypeOK` |
| `sandbox_faults` | the same moves with a lost node, a dead instance or a lost answer of the database | `NeverRecreated`, `NoDeadEnd`, `BookingFollows` |
| `sandbox_replicas` | two instances with takeovers, preempts, stops, a death, false suspicion or a lost answer | `OpMatchesRow`, `TransitionHasOp`, `NoStuckOp` (liveness) |
| `sandbox_incarnations` | a sandbox deleted and its ID created again at any point, with pods, tombstones and late creates of the first incarnation | `OrphanPodsGo` (liveness) |
| `keyed_calls` | two requests with one key, for the same or different calls, on one or two instances, with one crash, stop, cancellation, lost answer, missed renewal or deletion of the row | `NotRunExact`, `OneRunReaches`, `AnswersAgree`, `DrainWaits`, `VerdictStands`, `CancelMeetsCall`, `EverythingEnds` (liveness) |
| `holds` | a call with an exec or a forward hold at either of two instances and a background process against the idle and drain loops, with one fault | `IdleSparesHeld`, `IdleSparesProcesses`, `UnusedIdles` (liveness) |
| `ingress_holds` | a request of an ingress, with an outage, a failover, a crash, a lost call, or a cut that is noticed at once or stays half open | `HeldNotFrozen`, `UnusedIdles` (liveness) |
| `placement` | two sandboxes go through all ops, observations and sweeps on two nodes, placed by stale snapshots, while slots change, nodes drain, expire and are removed, and reality books past the gates | `GatedBookingsFit`, `ClaimsMeetNode`, `TypeOK` |
| `disk_store` | a pod with a volume is hibernated, abandoned, evicted, deleted (also while hibernated), restored and swept on two nodes over unbounded time, with one fault | `CheckpointNamed`, `CheckpointWhole`, `DiskReadable` |
| `hibernations` | two HibernatePods, one of them a drain's, a lost answer, a resume, a delete and a new create around two hibernation tasks | `AbandonOrHead`, `AbandonedStays`, `WorkingInSlot`, `Answered` (liveness) |
| `node_certs` | a machine joins and renews while another takes the name, gets a copy of its directory, or the node is removed, with crashes, lost answers and failed writes and checks | `NeverForked`, `OneKey`, `SetAsideForCause` |

All of them pass. A system here may rest: nobody need ask for anything, and
bounded supplies run out; so deadlock is checked in `placement` alone, where
every sandbox can always go on. For every property `PROJECT.json` names a
mutant of a modelled definition, a mistake that could have been made at those
lines, which violates it under the run's own configuration. Every module states
a `TypeOK`; the ones that no run lists were checked on the same instances.

## Bounds

- `leader`: `TTL = 2`, `Margin = Drift = 1`, the clock stops at 4. That is
  enough for two terms, a renewal between them, and every late statement of the
  first during the second. One fault: the crash, stop and abandoned
  acquisition are independent of one another.
- Sandbox. Two nodes are the least on which a sandbox moves and moves back; two
  instances the least for a takeover; two incarnations the least for a pod of
  another one; epochs 0 and 1 the least for a checkpoint that is or is not
  there. `CheckpointKept` needs an older answer after a newer one: 0 after 1.
  `OpIds` bounds the ops in flight at a time: two are needed where an op is
  taken over from a running owner (`sandbox_replicas`); one suffices elsewhere.
  `Lookers = 1`, `Reapers = 1`: a reader acts only on the row it read, so two
  of them meet each other only through row and tombstones, as one meets an op.
  `MaxFaults = 1` counts deaths, stops, false suspicions, lost COMMIT answers,
  overdue releases, lost pods and lost nodes; lost and late calls, failed
  tombstones and pods that stop happen at any time. `Kinds` leaves out of a run
  the ops its question is not about.
- `keyed_calls`: two requests and two calls are the least for a key used twice;
  two runs for a run after another's end or abandonment; one deletion of the
  row by the retention; one fault. `Doors` lets the first request come in at
  one instance and the second at any, which the symmetry of instances makes
  general.
- `holds`: two instances, one call, which takes an exec or a forward hold, and one
  process; a lease of 3
  renewal intervals and an idle time of 4, so that a hold can run out while its
  owner lives and an idle time can pass while a renewal is late. `ingress_holds`:
  one request; in units of 10 s a lease of 3, a half-open connection of up to 4
  (the keepalive's 30 s and 10 s), a fence that begins at 4 and ends at 14, and an
  idle time of 9, the least that outlasts the half-open connection and the time to
  the fence: `HeldNotFrozen` fails with 8. One fault: it also fails with two, such
  as a lost renewal or an outage and then a half-open cut, since the hold is then
  older when the fence begins.
- `placement`: two sandboxes alike on two nodes with one or two slots: the slots
  refuse, and the memory does not bind here (`GatedFit` covers any sizes). One
  event that an operator or a failure causes.
- `disk_store`: one chunk and two disks (a pod's own and a volume), either of
  which may have it; `Longest = 1 < Grace = 2`, the relation that `sweep.rs` relies on; two
  epochs, so that a second checkpoint replaces the first. Ages stop at the
  grace, so time is unbounded. The fault "contents recur" is left out of the run
  for its size.
- `hibernations`: two calls with an id each, one resume, one delete, two tasks,
  two incarnations, `Kept = 2` remembered ids, one lost answer.
- `node_certs`: two machines, an open and a pinned token, three certificates and
  keys, two events: a join, a renewal and what a second holder gets.

Symmetry is used in safety runs only. The theorems below hold for every value of
these bounds.

## Fairness

Only the specifications named `FairSpec` state fairness, and only what the code
schedules.

Sandbox:

- an op's goroutine goes on: `execute`'s waits end with the op's deadline, and
  `finish.retry` repeats until a transaction commits (weak fairness of `Send`
  or `Rollback`, `Observe`, `Finish`);
- calls end: each has a deadline, or the node runs it to its end;
- a process that is gone stops beating, and is started again
  (`Restart=always`, `hack/packages/ferund/ferund.service`); a stop ends with
  its grace (`Instance.stop`);
- `staleOps` (leader) and `orphans` (each replica) come back to every op that
  nobody runs, and take it over or release it;
- every node is reconciled again and again (`fleet`'s sweep each minute, and on
  each connection), and not each time just while an op of the sandbox runs;
  every tombstone is tried again by the leader's loop. Both are strong
  fairness: a reconcile that meets an op leaves the row alone, and a failed
  attempt is repeated.

No fairness is assumed of requests, of nodes coming back, or of a pod's
bring-up.

KeyedCalls: requests and runs go on, since a call ends with its budget and a
failed write is repeated; a lease that nobody renews runs out; a waiter looks at
the row again; some instance leads and runs the loops.

Holds and IngressHolds: time passes; an outage ends; renewals and the leader's
loops come again; a begun pause ends. For an ingress's calls: they are served,
answered or fail, and what was sent late is executed. Time has strong fairness,
since it waits for every loop that is due.

Hibernations: a task runs on or fails, the pod's lock is fair (tokio's mutex is
first in, first out), resumes and deletes go on, and a call whose answer was
lost is sent again.

## Proofs

Each component's proofs are in a module of their own. All follow one argument:
an inductive invariant, a lemma per action (or per conjunct that the action can
disturb) that it is preserved, and theorems that it implies. The constants are
arbitrary within the modules' named assumptions: any number of instances, nodes,
requests, machines, and of faults.

### LeaderProofs

For any TTL and margin with `Margin < TTL` and any drift up to the margin:
`TypeCorrect`, `LeaderLease` (`LeaderHoldsLease`), `LeaderUnique`
(`AtMostOneLeader`), `FenceSafe` (`FenceHolds`), `ImplementsFencing`
(`FencedSpec`).

None of the properties is inductive. The invariant `IInv` adds: which of term
and call are in use at each point of `Run` (`ControlInv`); that a statement's
frozen `now()` lies between its send and the present (`CallInv`); that a term,
and an answer not read yet, is *backed*: either the row still names it and
expires no earlier than its deadline, or it was superseded after that deadline
had passed (`TermInv`, `AnswerInv`, with `Backed`); that remembered epochs were
given out by the row (`EpochInv`); and that a release on its way names no term
its elector still reports (`StmtInv`). The crux is that the deadline counts
from the send of a renewal and the expiry from its `now()`, which is later; so
`Drift <= Margin` is all that is needed. `LeaderUnique` then follows since one
row names one holder.

### SandboxProofs and SandboxSafety

- `TypeCorrect` (`TypeOK`). Types alone are not inductive: an op's call goes to
  the row's target (`Targeted`), a rollback restores what the begin kept
  (`Kept`), and a reader that may still write writes its node into the row it
  read (`LookInv`: the row is still at that node, and has no op if the reader is
  a sync, since every write that moves it makes the read stale). `TInv` is
  their conjunction.
- `OneOp` (`OpMatchesRow`), inductive relative to `TInv`. A begin or a takeover
  writes the op columns and the handle together, under an op id that no handle
  and no row has (`FreeOps`). Every other write leaves the columns alone, empties
  them, or ends the handle in the same step; the lemma `OpKept` collects these.
- `OpsNameStates` (`TransitionHasOp`), `ContentKept` (`NeverRecreated`),
  `WayOut` (`NoDeadEnd`), `BookingThere` (`BookingFollows`), `PodSpared`
  (`NotCondemned`) and the action property `CheckpointGrows`
  (`CheckpointKept`), all from one invariant `SInv`. Its conjuncts need one
  another: a rollback restores what the begin kept in the handle (`HandleOk`),
  which concerns the row only because of `OpMatchesRow` (`OpOk`); a reader
  applies an observation to the row it read (`SeenOk`); a restore needs the
  checkpoint that `WayOk` gives the hibernated row, which a pod that was
  observed hibernated has (`PodOk`); and a tombstone is written for a place
  that the row leaves in the same transaction, to which it does not return
  while the tombstone stands (`TombOk`, with the gate of `claim`); `BookOk`
  follows the row's state and node.

### KeyedCallsProofs

`NotRunSafe` (`NotRunExact`), `OneRunSafe` (`OneRunReaches`), `AnswersSafe`
(`AnswersAgree`), `DrainSafe` (`DrainWaits`) and the action properties
`VerdictSafe` (`VerdictStands`) and `CancelSafe` (`CancelMeetsCall`). The
invariant `KInv` says what each step of a run knows of its row (`RunsOk`,
`RowOk`): above all that `sent` is committed before the call is sent, so that a
row without it has a call the guest never had; that a run no request, row or
instance names any more has ended (`Dead` runs); which life of the row a
verdict belongs to (`Lives`); what a request was told (`ToldOk`, `SaysOk`); and
who holds the key's lock and the drain's slots (`Locks`, `Slots`).

### PlacementProofs

`TypeCorrect` (`TypeOK`), `GatedFit` (`GatedBookingsFit`) and the action
property `ClaimsSafe` (`ClaimsMeetNode`), for any finite set of sandboxes of any
sizes and nodes of any capacity. `PInv` adds to the types what a transaction
between its check and its commit relies on (`TxInv`): it holds the lock of the
node's row, and meanwhile bookings on the node only leave, so what fitted still
fits (`Total` grows with the set of bookings). `TypeOK` says that only a pending or
a hibernated row may be without a node (`notFound` leaves a hibernated one without,
`lostGrace` with its node). That is inductive only with the same of what an op's
rollback writes back, and with a node for every row that has an op, which
`WellPlaced` adds, also of the row a transaction is about to write.

### HibernationsProofs

`AbandonOrHeadAlways` (`AbandonOrHead`), `SlotIsWorkers` (`WorkingInSlot`),
`RememberedStays` and `AbandonedStaysAlways` (`AbandonedStays`).
`HInv` adds that a task from its decision to its end is the active one of the
slot (`ActiveInSlot`), that tasks and slots are of incarnations that existed
(`Incarnations`), and that a head is entered by the task in the slot
(`HeadInSlot`).

`AInv` is about the ids: none of the slot's is in the pod's list of abandoned ones
(`IdsApart`, which is what `RememberedStays` states, for any number of ids), and
neither list has an id twice (`IdsOnce`). So if there are no more ids than
`Kept` (`IdsFit`; `REQUEST_IDS` is 16), `LastIds` never drops one, and the list
has every abandoned id (`Remembered`). With more ids the oldest are forgotten,
and `AbandonedStays` is not claimed.

### DiskStoreProofs

`CheckpointStays` (`CheckpointNamed`), `CheckpointIsWhole` (`CheckpointWhole`)
and `LastCopyStays` (`DiskReadable`), for any nodes, chunks, disks and epochs
and any times with `Grace > Trust + Longest` (a sweep's grace exceeds the time
that a push trusts markers and the length of a hibernation; `DiskStoreConstants`).

`DInv`, for the heads and manifests, adds to the types: what a hibernation under way has put and what it is
going to name (`HibernationOk`); that a head put by the running hibernation is
younger than a sweep's grace, since a hibernation is shorter than that
(`HeadsPut`); and that heads of the checkpoint, and what a sweep found
named before it deletes, are there (`HeadsLive`, `HeadsNamed`). `put_head` looks
for the manifest before it writes the head, and a sweep deletes no manifest that
a head names.

`CInv`, for the chunks, is about the ages of chunks, markers and journals. It
holds under `Calm`: no hibernation was cut off past its first head, no
deleted contents were written again and nothing came between a sweep's steps,
the condition that both properties have. The argument:

- What a pod's disk has is in the recorded checkpoint, or in the node's cache
  where the disk's journal pins it (`Kept`); eviction takes only what is not pinned.
- A marker of what a disk has is of a chunk of the checkpoint, or the disk's
  journal lists it (`MarksKnown`; `LayersKnown` for manifests). Stale markers are
  harmless because written contents are new: they are on no disk any more, and
  no two disks share a chunk (`Apart`, `Written`).
- What a journal lists was put since the journal was started, so the chunk is no
  older than the journal, and gone only if the journal is as old as a sweep's
  grace (`JournalsTrue`, `Fresh`).
- A push first expires a journal older than `Trust` with its markers. So what it
  trusts is at most `Trust` old when the hibernation begins and `Trust + Longest`
  when it ends (`Journaled`, `PushingThere`, `Near`, `DoneThere`), which is less
  than `Grace`: no sweep takes it before the heads name it.
- A sweep lists all heads before it deletes, and deletes only chunks of age
  `Grace` that the checkpoint does not have (`SweepSpares`, `LiveWhole`).

### NodeCertsProofs

`OneHolder` (`OneKey`), `NoFalseFork` (`NeverForked`) and the action property
`SetAsideCaused` (`SetAsideForCause`). `OneKey` follows from `Holder`: unless a
renewal was late, every certificate issued since the last pinned join, revoked or
not, is for the key that joined, and every older one is revoked; a renewal by an
older one is refused unless its `now()` is before the join's, which is what `late`
records. `NInv` relates the certificates' order of
issue (`Issues`, `Order`) and their first holder (`FirstHolder`) to the requests
on their way (`Requests`, `Waiting`), the directory of a machine at whatever step
it crashed (`Identity`), what it presents (`Presented`) and why it is refused
(`Causes`, `RefusedForCause`).

### Only model-checked

- Liveness is beyond the prover: `NoStuckOp`, `OrphanPodsGo`, `EverythingEnds`,
  `UnusedIdles`, `Answered`.
- The properties of `Holds` and `IngressHolds`, which depend on an order of
  timers that the run's constants fix.

## Disagreements with comments and documents

Some statements of comments and documents are stronger than what the code does.
Each is a definition of its module, beside the property that does hold; to see
the behaviour, add the definition to the module's configuration.

- `Sandbox!OtherIncarnationLeft`: `runTombstone` reads the pod, compares its
  incarnation, and then deletes the pod by its ID alone
  (`go/internal/sandbox/tombstone.go:107-128`). The comment above it says that a
  pod of another incarnation "is left, and only the tombstone goes", and
  `docs/architecture/control-plane.md:1181` that it is deleted "only when its
  incarnation is the tombstone's". Processing is single flight per replica, not
  across them: while one replica is between the two calls, another may delete
  the pod and drop the tombstone, which opens the gate of `claim`; the ID,
  created again, may be placed on the same node; and the first replica's
  `DeletePod` then deletes the new incarnation's pod. (Two `Reapers` show it.)
- `KeyedCalls!GateSeesEnd`: "Another writer ended the row: the call must not be
  sent" (`go/internal/tools/keyed_run.go:87`); a second attempt of a run whose
  `sent` is recorded does not look at the row again.
- `Holds!DrainSparesExecs`: a drain does not ask whether the leader's view is
  settled (`go/internal/sandbox/begin.go:474`), so after an outage longer than a
  lease its first pass pauses under a running exec
  (`docs/architecture/control-plane.md`, drains).
- `IngressHolds!NeverFrozen`: a reconnecting ingress opens the fence before its
  renewals arrive (`hello.go:93`). `UnheldNotFrozen`: a request whose hold ran
  out is served on (`proxy/holds.go:172`; `ingress.md:1075`: "the fence covers
  that case"). `CutOffNotFrozen`: a half-open connection counts as seen for up to
  40 s (`service/sync.go:188-193`, `nodelink/ingress.go:497`), and the fence begins
  45 s after that; so an ingress that is cut off without a FIN has its requests
  frozen if the idle interval is no longer than both together, such as the least
  that may be set, 1 min (`ingress.md:1092`). Set `IdleAfter` to 6 to see
  it. `NoLateRelease`: a release that timed out may be executed after a later admit
  (`proxy/holds.go:245`, against the comment at `:75`).
- `DiskStore!HeadsWhole`: `remove_device` drops a journal and leaves its markers
  (`diskd/src/svc.rs:1241`, comments at `:2208` and `:690`). `GraceProtects`: a
  sweep's ages are those of its listing (`svc.rs:2062`; `sweep.rs:24`).
  `MarkersTrue`: a sweep unmarks on its own node only (`svc.rs:2071`, comment at
  `:2065`). `OnlyCopyPinned`: `put_head` unpins before feosd has recorded the
  checkpoint (`svc.rs:2319`; `disk.md:111`, `adr/0011-disk-daemon.md:65`).
- `Hibernations!NoOtherPod`: a task that waited takes the lock of a pod created
  again under its ID (`pods.rs:1063`, comment at `:2302`), and works on it.
- `NodeCerts!OldNeverForks`: `store/nodecerts.go:94` against `fleet/join.go:142`.
  `ForkMeansTwo`: `RecordPresentation` does not look at a revocation again
  (`nodecerts.go:208`; `fleet/check.go:82`, `nodecerts.go:164`). `OneKeyAlways`: a
  pinned join says of itself that "every earlier certificate of the node is revoked"
  (`store/nodes.go:167`), but it revokes with its own `now()`, and a
  renewal compares that with its own, which is frozen before it waits for the node's
  row (`nodecerts.go:110-112,130`, `check.go:32,61-73`). A renewal
  that begins, and then waits while a join that began later commits, does not find
  its certificate revoked yet, and gets a new one for the key that was evicted,
  which is valid until a newer certificate of the node is next presented for the
  first time, or the node is joined again, forked or removed.

## Not modelled

In the modelled parts: the repair op, avoided nodes and policy backoff of the
ops; hibernate-after; the coalescing of syncs; the deletion of tenants;
`runner.Stop`'s release while a begin that it no longer waits for commits after
its grace (the op is then one of a dead owner, as after `Crash`). In `Placement`:
the gates on images, zones, disks and taps. In `DiskStore`: a hibernation of a pod
that has not booted since its restore, which keeps the older head of a volume that
is checkpointed already (`VolumePart::Kept`, `pods.rs:1772-1776`); a deletion of the
pod that leaves its volumes (`pods.rs:743,753`; they go with it here); and the step
between the deletion of layers and the removal of their markers, other than by a
sweep that stops there.

Other parts: node links, watches, environments, ports, quota, activity and log
sink, and domains (each could be a module of its own); parsing, authentication
and formatting (`api`, `auth`, `mcpsrv`); exchanges with outside services
(`acme`, `pki`); the Kubernetes parts; the drivers below the pod service;
generated code, the tests' node, the user interfaces and the deployment. These
make up most of the repository's lines, so the map covers a small share of
them. `PROJECT.json` names each with its reason.
